------------------------------ MODULE EpochGate ------------------------------
(***************************************************************************)
(* What the batcher promises to the transactions, with none of its locks:  *)
(* transactions run in batches, one batch per epoch.  Whoever finds a      *)
(* batch open waits, and may only join one of a later epoch; the epoch     *)
(* ends with the member that leaves last.  260772/batcher.c implements     *)
(* this gate (module Batcher), and the word protocol of 260772/helper.c    *)
(* runs inside it (module DualVersionedSTM).                               *)
(***************************************************************************)
EXTENDS Naturals

CONSTANT Threads

VARIABLES
    epoch,      \* number of the current batch, from 1
    members,    \* the threads inside the current batch
    since       \* since[t]: the epoch during which t was blocked, 0 if it is not

gateVars == <<epoch, members, since>>

GateTypeOK ==
    /\ epoch \in Nat \ {0}
    /\ members \in SUBSET Threads
    /\ since \in [Threads -> Nat]

GateInit ==
    /\ epoch = 1
    /\ members = {}
    /\ since = [t \in Threads |-> 0]

\* t arrives at an empty batch and opens it.
JoinEmpty(t) ==
    /\ members = {}
    /\ since[t] = 0
    /\ members' = {t}
    /\ UNCHANGED <<epoch, since>>

\* t arrives while a batch runs, and is blocked.
Block(t) ==
    /\ t \notin members
    /\ members # {}
    /\ since[t] = 0
    /\ since' = [since EXCEPT ![t] = epoch]
    /\ UNCHANGED <<epoch, members>>

\* A blocked thread joins the batch of a later epoch, which may be running.
JoinLater(t) ==
    /\ since[t] # 0
    /\ since[t] < epoch
    /\ members' = members \union {t}
    /\ since' = [since EXCEPT ![t] = 0]
    /\ UNCHANGED epoch

\* t leaves others behind.
LeaveOthers(t) ==
    /\ t \in members
    /\ members # {t}
    /\ members' = members \ {t}
    /\ UNCHANGED <<epoch, since>>

\* t is the last member: the batch is committed and its epoch ends.
CloseBatch(t) ==
    /\ members = {t}
    /\ members' = {}
    /\ epoch' = epoch + 1
    /\ UNCHANGED since

GateNext ==
    \E t \in Threads :
        JoinEmpty(t) \/ Block(t) \/ JoinLater(t) \/ LeaveOthers(t) \/ CloseBatch(t)

GateSpec == GateInit /\ [][GateNext]_gateVars
=============================================================================
