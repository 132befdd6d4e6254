----------------------------- MODULE SerialMemory -----------------------------
(***************************************************************************)
(* What the interface of include/tm.h and template/tm.c promises of a      *)
(* transactional memory, as grading/transactional.hpp relies on it: a      *)
(* transaction works on what was committed when it began; it commits only  *)
(* if nothing else has been since, or if it changed nothing; what it did   *)
(* appears all at once, or not at all.  A store is a function from the     *)
(* cells that exist to their contents.                                     *)
(***************************************************************************)
CONSTANT Tx

VARIABLES
    store,          \* what is committed
    open,           \* the transactions under way
    base, local,    \* what each of them began with, and has made of it
    got             \* what its last read returned

serialVars == <<store, open, base, local, got>>

Nothing == <<>>

SerialInit ==
    /\ open = {}
    /\ base = [t \in Tx |-> Nothing]
    /\ local = [t \in Tx |-> Nothing]

Begin(t) ==
    /\ t \notin open
    /\ open' = open \union {t}
    /\ base' = [base EXCEPT ![t] = store]
    /\ local' = [local EXCEPT ![t] = store]
    /\ UNCHANGED <<store, got>>

Read(t) ==
    /\ t \in open
    /\ \E c \in DOMAIN local[t] : got' = [got EXCEPT ![t] = local[t][c]]
    /\ UNCHANGED <<store, open, base, local>>

\* Writing, allocating and freeing.
Update(t) ==
    /\ t \in open
    /\ local' = [local EXCEPT ![t] = local'[t]]
    /\ UNCHANGED <<store, open, base, got>>

Over(t) ==
    /\ t \in open
    /\ open' = open \ {t}
    /\ base' = [base EXCEPT ![t] = Nothing]
    /\ local' = [local EXCEPT ![t] = Nothing]
    /\ UNCHANGED got

Commit(t) ==
    /\ Over(t)
    /\ \/ local[t] = base[t] /\ UNCHANGED store
       \/ base[t] = store /\ store' = local[t]

Abort(t) == Over(t) /\ UNCHANGED store

SerialNext == \E t \in Tx : Begin(t) \/ Read(t) \/ Update(t) \/ Commit(t) \/ Abort(t)

SerialSpec == SerialInit /\ [][SerialNext]_serialVars
=============================================================================
