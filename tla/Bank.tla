-------------------------------- MODULE Bank --------------------------------
(***************************************************************************)
(* WorkloadBank of grading/workload.hpp, its init and run, as clients of a *)
(* transactional memory that keeps its promise (module SerialMemory),      *)
(* through Transaction and transactional() of grading/transactional.hpp: a *)
(* body may be cut short by an abort at any access, and starts over.       *)
(*                                                                         *)
(* The region is the list of its segments, each a record of its parity and *)
(* the balances of its accounts: count is the length of the latter.        *)
(***************************************************************************)
EXTENDS Integers, SequencesExt

CONSTANTS
    Workers,
    NbAccounts,     \* of the first segment, and at most in every segment
    InitBalance,
    NbTxPerWrk,
    MaxAccounts     \* bound: the gamma distribution asks for no more accounts

\* Two accounts are never too many, so that a third one may be made.
BankAssumption ==
    /\ NbAccounts \in Nat \ {0} /\ InitBalance \in Nat /\ NbTxPerWrk \in Nat
    /\ MaxAccounts \in Nat /\ MaxAccounts >= 3 /\ MaxAccounts >= NbAccounts

VARIABLES
    store, open, base, local,   \* the transactional memory
    pc,             \* what each worker runs
    result,         \* what the body returns, until it commits
    send, recv,     \* the arguments of short_tx
    count, cntr,    \* variables of run()
    error,
    asked           \* history: what send and recv were at the call

memoryVars == <<store, open, base, local>>
argVars == <<send, recv>>
runVars == <<count, cntr, error>>
vars == <<memoryVars, pc, result, argVars, runVars, asked>>

Memory == INSTANCE SerialMemory WITH Tx <- Workers, got <- <<>>

Bodies == {"init", "initCheck", "long", "alloc", "short", "last"}

-----------------------------------------------------------------------------
(* The list of segments *)

\* What the first n elements of s come to, for each n.
Sums(s) ==
    LET sums[n \in 0 .. Len(s)] == IF n = 0 THEN 0 ELSE sums[n - 1] + s[n]
    IN  sums

Sum(s) == Sums(s)[Len(s)]

Counts(b) == [i \in DOMAIN b |-> Len(b[i].accounts)]
Count(b) == Sum(Counts(b))

\* Slip: the accounts alone.
MoneyOnAccounts(b) == Sum([i \in DOMAIN b |-> Sum(b[i].accounts)])

Money(b) == Sum([i \in DOMAIN b |-> b[i].parity + Sum(b[i].accounts)])

\* What long_tx checks.
Consistent(b) ==
    /\ \A i \in DOMAIN b : \A j \in DOMAIN b[i].accounts : b[i].accounts[j] >= 0
    /\ Money(b) = InitBalance * Count(b)

\* The last account goes, and with it a segment that has no other.  Its balance is
\* settled in the parity.
Shrink(b) ==
    LET last == Last(b)
        newParity == last.parity + Last(last.accounts) - InitBalance
    IN  IF Len(last.accounts) > 1
        THEN [b EXCEPT ![Len(b)] = [parity |-> newParity, accounts |-> Front(last.accounts)]]
        ELSE [Front(b) EXCEPT ![Len(b) - 1].parity = @ + newParity]

Grow(b) ==
    IF Len(Last(b).accounts) < NbAccounts
    THEN [b EXCEPT ![Len(b)].accounts = Append(@, InitBalance)]
    ELSE Append(b, [parity |-> 0, accounts |-> <<InitBalance>>])

\* Where account id is: its segment, one beyond the last when there is none.
SegmentOf(b, id) ==
    CHOOSE i \in 1 .. Len(b) + 1 :
        /\ \A k \in 1 .. i - 1 : id >= Sums(Counts(b))[k]
        /\ i <= Len(b) => id < Sums(Counts(b))[i]

\* The index that is left of id when the walk gets to segment i: the lambda of
\* short_tx counts down the caller's variable.
LeftOf(b, id, i) ==
    LET j == IF SegmentOf(b, id) < i THEN SegmentOf(b, id) ELSE i
    IN  id - Sums(Counts(b))[j - 1]

Add(b, id, v) == [b EXCEPT ![SegmentOf(b, id)].accounts[LeftOf(b, id, Len(b) + 1) + 1] = @ + v]
BalanceOf(b, id) == b[SegmentOf(b, id)].accounts[LeftOf(b, id, Len(b) + 1) + 1]

\* Slip: the funds are not looked at.
TransferOnCredit(b, s, r) == Add(Add(b, s, -1), r, 1)

Transfer(b, s, r) == IF BalanceOf(b, s) > 0 THEN Add(Add(b, s, -1), r, 1) ELSE b

-----------------------------------------------------------------------------

Start == <<[parity |-> 0, accounts |-> <<>>]>>

TypeOK ==
    /\ pc \in [Workers -> Bodies \union {"ready", "pick", "again", "done"}]
    /\ open \subseteq Workers
    /\ result \in [Workers -> {"none", "true", "false", "null", "nomem"}]
    /\ send \in [Workers -> 0 .. MaxAccounts - 1] /\ recv \in [Workers -> 0 .. MaxAccounts - 1]
    /\ count \in [Workers -> 1 .. MaxAccounts]
    /\ error \in [Workers -> {"none", "consistency", "isolation", "exception"}]
    /\ cntr \in [Workers -> 0 .. NbTxPerWrk]
    /\ \A i \in DOMAIN store : store[i].parity \in Int /\ store[i].accounts \in Seq(Int)

Init ==
    /\ store = Start
    /\ Memory!SerialInit
    /\ pc = [t \in Workers |-> "init"]
    /\ result = [t \in Workers |-> "none"]
    /\ send = [t \in Workers |-> 0] /\ recv = [t \in Workers |-> 0]
    /\ asked = [t \in Workers |-> <<0, 0>>]
    /\ count = [t \in Workers |-> NbAccounts]
    /\ cntr = [t \in Workers |-> 0]
    /\ error = [t \in Workers |-> "none"]

\* The next transaction of run(), or the long one at the end.
Pick(t) ==
    /\ pc[t] = "pick"
    /\ \E body \in IF cntr[t] < NbTxPerWrk THEN {"long", "alloc"} ELSE {"last"} :
        pc' = [pc EXCEPT ![t] = body]
    /\ UNCHANGED <<memoryVars, result, argVars, runVars, asked>>

\* The accounts are drawn among as many as the worker has last seen.
PickShort(t) ==
    /\ pc[t] = "again" \/ (pc[t] = "pick" /\ cntr[t] < NbTxPerWrk)
    /\ \E s \in 0 .. count[t] - 1, r \in 0 .. count[t] - 1 :
        /\ send' = [send EXCEPT ![t] = s]
        /\ recv' = [recv EXCEPT ![t] = r]
        /\ asked' = [asked EXCEPT ![t] = <<s, r>>]
    /\ pc' = [pc EXCEPT ![t] = "short"]
    /\ UNCHANGED <<memoryVars, result, runVars>>

Begin(t) ==
    /\ pc[t] \in Bodies
    /\ Memory!Begin(t)
    /\ UNCHANGED <<pc, result, argVars, runVars, asked>>

\* A body, up to its return: what it returns, and what it makes of the region.
Body(t, body, ret, b) ==
    /\ pc[t] = body /\ t \in open /\ result[t] = "none"
    /\ local' = [local EXCEPT ![t] = b]
    /\ result' = [result EXCEPT ![t] = ret]
    /\ UNCHANGED <<store, open, base, pc, runVars, asked>>

Truth(p) == IF p THEN "true" ELSE "false"

InitTx(t) ==
    /\ Body(t, "init", "true",
            [local[t] EXCEPT ![1].accounts = [i \in 1 .. NbAccounts |-> InitBalance]])
    /\ UNCHANGED argVars

InitCheckTx(t) ==
    /\ Body(t, "initCheck", Truth(IsPrefix(<<InitBalance>>, local[t][1].accounts)), local[t])
    /\ UNCHANGED argVars

LongTx(t) ==
    /\ \E body \in {"long", "last"} : Body(t, body, Truth(Consistent(local[t])), local[t])
    /\ UNCHANGED argVars

\* Slip: any account may go.
DestroysAny(b, trigger) == Count(b) > trigger

Destroys(b, trigger) == Count(b) > trigger /\ Count(b) > 2

AllocTx(t) ==
    LET b == local[t]
    IN  /\ pc[t] = "alloc" /\ t \in open
        /\ \E trigger \in {0, MaxAccounts - 1} :
            IF ~Destroys(b, trigger)
            THEN \/ Body(t, "alloc", "true", Grow(b))
                 \/ Len(Last(b).accounts) = NbAccounts /\ Body(t, "alloc", "nomem", b)
            ELSE IF Len(b) = 1 /\ Len(b[1].accounts) = 1
            THEN Body(t, "alloc", "null", b)
            ELSE Body(t, "alloc", "true", Shrink(b))
        /\ UNCHANGED argVars

CountDown(t, i) ==
    /\ send' = [send EXCEPT ![t] = LeftOf(local[t], @, i)]
    /\ recv' = [recv EXCEPT ![t] = LeftOf(local[t], @, i)]

Exist(b, s, r) == s < Count(b) /\ r < Count(b)

ShortTx(t) ==
    LET b == local[t]
        exist == Exist(b, send[t], recv[t])
    IN  /\ pc[t] = "short" /\ t \in open
        /\ Body(t, "short", Truth(exist), IF exist THEN Transfer(b, send[t], recv[t]) ELSE b)
        /\ CountDown(t, Len(b) + 1)

\* The library aborts the transaction: in the body, after some segments, or at its end.
Retry(t) ==
    /\ Memory!Abort(t)
    /\ result[t] # "nomem"
    /\ result' = [result EXCEPT ![t] = "none"]
    /\ IF pc[t] = "short" /\ result[t] = "none"
       THEN \E i \in 1 .. Len(local[t]) + 1 : CountDown(t, i)
       ELSE UNCHANGED argVars
    /\ UNCHANGED <<pc, runVars, asked>>

Stops(t, kind) ==
    /\ pc' = [pc EXCEPT ![t] = "done"]
    /\ error' = [error EXCEPT ![t] = kind]
    /\ UNCHANGED <<count, cntr>>

Proceeds(t, to) == pc' = [pc EXCEPT ![t] = to] /\ UNCHANGED runVars

\* Slip: the transaction is not counted.
NextTxUncounted(t, n) ==
    /\ pc' = [pc EXCEPT ![t] = "pick"]
    /\ count' = [count EXCEPT ![t] = n]
    /\ UNCHANGED <<cntr, error>>

NextTx(t, n) ==
    /\ pc' = [pc EXCEPT ![t] = "pick"]
    /\ cntr' = [cntr EXCEPT ![t] = @ + 1]
    /\ count' = [count EXCEPT ![t] = n]
    /\ UNCHANGED error

Returns(t) ==
    CASE pc[t] = "init" -> Proceeds(t, "initCheck")
      [] pc[t] = "initCheck" ->
            IF result[t] = "true" THEN Proceeds(t, "ready") ELSE Stops(t, "consistency")
      [] pc[t] = "long" ->
            IF result[t] = "true" THEN NextTx(t, Count(local[t])) ELSE Stops(t, "isolation")
      [] pc[t] = "alloc" ->
            IF result[t] = "true" THEN NextTx(t, count[t]) ELSE Stops(t, "exception")
      [] pc[t] = "short" ->
            IF result[t] = "true" THEN NextTx(t, count[t]) ELSE Proceeds(t, "again")
      [] pc[t] = "last" -> Stops(t, IF result[t] = "true" THEN "none" ELSE "isolation")

\* The transaction commits, and transactional() returns or, when there was no memory,
\* the exception goes on.
Commit(t) ==
    /\ result[t] \notin {"none", "null"}
    /\ Memory!Commit(t)
    /\ Returns(t)
    /\ result' = [result EXCEPT ![t] = "none"]
    /\ UNCHANGED <<argVars, asked>>

\* The rounds of measure() are apart: nobody runs before all have initialized.
StartRun ==
    /\ \A t \in Workers : pc[t] = "ready"
    /\ pc' = [t \in Workers |-> "pick"]
    /\ UNCHANGED <<memoryVars, result, argVars, runVars, asked>>

Bodily(t) == InitTx(t) \/ InitCheckTx(t) \/ LongTx(t) \/ AllocTx(t) \/ ShortTx(t)

Goes(t) == Pick(t) \/ PickShort(t) \/ Begin(t) \/ Bodily(t) \/ Commit(t)

Finished == \A t \in Workers : pc[t] = "done"

Next ==
    \/ \E t \in Workers : Goes(t) \/ Retry(t)
    \/ StartRun
    \/ Finished /\ UNCHANGED vars

Spec == Init /\ [][Next]_vars

DrawExisting == \E t \in Workers : PickShort(t) /\ Exist(store, send'[t], recv'[t])

\* Workers are scheduled, and do not for ever draw accounts that are gone.
FairSpec ==
    /\ Spec /\ WF_vars(StartRun) /\ SF_vars(DrawExisting)
    /\ \A t \in Workers : WF_vars(Goes(t) \/ Retry(t))

-----------------------------------------------------------------------------
(* Properties *)

\* No money is made or lost: the parities make up for the accounts that were taken
\* out with more or less than they were opened with, those of freed segments too.
MoneyKept == (\E t \in Workers : pc[t] = "ready" \/ cntr[t] > 0) => Consistent(store)

\* A library that keeps its promise is never accused, whatever aborts and retries.
NoFalseAlarm == \A t \in Workers : error[t] \in {"none", "exception"}

\* alloc_tx never takes the last account of the first segment, whose predecessor
\* would be the null pointer.
FirstSegmentStays == \A t \in Workers : result[t] # "null"

AbortsStale == \A t \in Workers : Retry(t) => base[t] # store

\* Every run ends, unless the library for ever aborts transactions that nobody has
\* overtaken, although the number of accounts that a worker draws from is the one
\* that its last long transaction saw, and others remove accounts.
RunEnds == <>[][AbortsStale]_vars => <>Finished

\* "@param send_id Index of the sender account": each attempt of a transfer looks for
\* the accounts that run() has drawn.
RetriesRepeat ==
    \A t \in Workers : (pc[t] = "short" /\ t \notin open) => asked[t] = <<send[t], recv[t]>>
=============================================================================
