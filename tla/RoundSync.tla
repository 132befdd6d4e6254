------------------------------ MODULE RoundSync ------------------------------
(***************************************************************************)
(* measure() of grading/grading.cpp over its class Sync and the Latch and  *)
(* Chrono of grading/common.hpp: a master takes its workers through the    *)
(* rounds init, run (nbrepeats times) and check, and stops at the first    *)
(* round that fails.  What a worker runs in a round is an outcome here.    *)
(***************************************************************************)
EXTENDS Integers, FiniteSets

CONSTANTS
    Workers,
    NbRounds        \* nbrepeats + 2

RoundAssumption ==
    /\ IsFiniteSet(Workers) /\ Workers # {}
    /\ NbRounds \in Nat \ {0}

VARIABLES
    status, nbready, errmsg,    \* Sync
    raised,         \* its latch
    local, total,   \* its clock: the round started last, the segments added up
    bounded,        \* whether the master has time limits
    mpc, mround,    \* the master: its next step, its round
    times,          \* what it got for each round that succeeded
    pc, round,      \* each worker: its next step, its round
    threw,          \* the workers that an exception has ended
    erred           \* history: the rounds in which some worker failed

syncVars == <<status, nbready, errmsg>>
workVars == <<round, threw, erred>>
vars == <<syncVars, raised, local, total, bounded, mpc, mround, times, pc, workVars>>

NbWorkers == Cardinality(Workers)
Rounds == 1 .. NbRounds
Segments == [start : 0 .. NbRounds, stop : Rounds]

Labels == {"unborn", "wait", "count", "resetIn", "run", "spin", "work", "errmsg", "abort",
           "notify", "resetOut", "settle", "stop", "raise", "gone"}
MasterLabels == {"spawn", "notify", "start", "test", "asleep", "read", "quit", "join",
                 "end", "thrown"}

TypeOK ==
    /\ status \in {"Wait", "Run", "Abort", "Done", "Fail", "Quit"}
    /\ nbready \in 0 .. NbWorkers
    /\ errmsg \in {"null", "error", "exception"}
    /\ raised \in BOOLEAN /\ bounded \in BOOLEAN
    /\ local \in 0 .. NbRounds /\ total \in SUBSET Segments
    /\ mpc \in MasterLabels /\ mround \in 0 .. NbRounds
    /\ times \in [Rounds -> SUBSET Segments]
    /\ pc \in [Workers -> Labels]
    /\ round \in [Workers -> 0 .. NbRounds]
    /\ threw \in SUBSET Workers /\ erred \in SUBSET Rounds

Init ==
    /\ status = "Done" /\ nbready = 0 /\ errmsg = "null"
    /\ raised = FALSE
    /\ local = 0 /\ total = {}
    /\ bounded \in BOOLEAN
    /\ mpc = "spawn" /\ mround = 0
    /\ times = [k \in Rounds |-> {}]
    /\ pc = [w \in Workers |-> "unborn"]
    /\ round = [w \in Workers |-> 0]
    /\ threw = {} /\ erred = {}

-----------------------------------------------------------------------------
(* The master.  Its steps leave round, threw, erred, nbready and errmsg alone. *)

MGoto(from, to) == mpc = from /\ mpc' = to

Spawn(w) ==
    /\ mpc = "spawn" /\ pc[w] = "unborn"
    /\ pc' = [pc EXCEPT ![w] = "wait"]
    /\ mpc' = IF \E v \in Workers : pc'[v] = "unborn" THEN "spawn" ELSE "notify"
    /\ UNCHANGED <<status, raised, local, mround, times>>

\* The constructor of a thread throws: the threads that run are detached.
SpawnFails == MGoto("spawn", "thrown") /\ UNCHANGED <<status, raised, local, mround, times, pc>>

MasterNotify ==
    /\ MGoto("notify", "start")
    /\ status' = "Wait"
    /\ mround' = mround + 1
    /\ UNCHANGED <<raised, local, times, pc>>

StartClock ==
    /\ MGoto("start", "test")
    /\ local' = mround
    /\ UNCHANGED <<status, raised, mround, times, pc>>

\* Latch::wait: under its lock, take the latch or fall asleep.
TakeLatch ==
    /\ raised /\ raised' = FALSE
    /\ MGoto("test", "read")
    /\ UNCHANGED <<status, local, mround, times, pc>>

Sleep == ~raised /\ MGoto("test", "asleep") /\ UNCHANGED <<status, raised, local, mround, times, pc>>

SpuriousWakeup == MGoto("asleep", "test") /\ UNCHANGED <<status, raised, local, mround, times, pc>>

\* Time is up and the latch still not raised: the workers are detached.
Overrun ==
    /\ bounded /\ ~raised
    /\ MGoto("asleep", "thrown")
    /\ UNCHANGED <<status, raised, local, mround, times, pc>>

\* Any other status would be an exception: VerdictTrue says that there is none.
ReadDone ==
    /\ status = "Done"
    /\ MGoto("read", IF mround = NbRounds THEN "quit" ELSE "notify")
    /\ times' = [times EXCEPT ![mround] = total]
    /\ UNCHANGED <<status, raised, local, mround, pc>>

ReadFail ==
    /\ status = "Fail"
    /\ MGoto("read", "quit")
    /\ UNCHANGED <<status, raised, local, mround, times, pc>>

MasterQuit ==
    /\ MGoto("quit", "join")
    /\ status' = "Quit"
    /\ UNCHANGED <<raised, local, mround, times, pc>>

MasterJoin ==
    /\ \A w \in Workers : pc[w] = "gone"
    /\ MGoto("join", "end")
    /\ UNCHANGED <<status, raised, local, mround, times, pc>>

MasterGoes ==
    \/ \E w \in Workers : Spawn(w)
    \/ MasterNotify \/ StartClock \/ TakeLatch \/ Sleep \/ ReadDone \/ ReadFail
    \/ MasterQuit \/ MasterJoin

MasterRuns == MasterGoes /\ UNCHANGED <<nbready, errmsg, total, bounded, workVars>>

Master ==
    /\ MasterGoes \/ SpawnFails \/ SpuriousWakeup \/ Overrun
    /\ UNCHANGED <<nbready, errmsg, total, bounded, workVars>>

-----------------------------------------------------------------------------
(* A worker.  Its steps leave local, bounded, mround and times alone. *)

Goto(w, from, to) == pc[w] = from /\ pc' = [pc EXCEPT ![w] = to]

WorkerWait(w) ==
    /\ \/ status = "Wait" /\ Goto(w, "wait", "count")
       \/ status = "Quit" /\ Goto(w, "wait", "gone")
    /\ UNCHANGED <<syncVars, raised, total, mpc, workVars>>

\* Slip: the last but one opens the round.
ArriveEarly(w) ==
    /\ Goto(w, "count", IF nbready + 1 = NbWorkers - 1 THEN "resetIn" ELSE "spin")
    /\ nbready' = nbready + 1
    /\ round' = [round EXCEPT ![w] = @ + 1]
    /\ UNCHANGED <<status, errmsg, raised, total, mpc, threw, erred>>

Arrive(w) ==
    /\ Goto(w, "count", IF nbready + 1 = NbWorkers THEN "resetIn" ELSE "spin")
    /\ nbready' = nbready + 1
    /\ round' = [round EXCEPT ![w] = @ + 1]
    /\ UNCHANGED <<status, errmsg, raised, total, mpc, threw, erred>>

Reset(w) ==
    /\ Goto(w, "resetIn", "run") \/ Goto(w, "resetOut", "settle")
    /\ nbready' = 0
    /\ UNCHANGED <<status, errmsg, raised, total, mpc, workVars>>

SetRun(w) ==
    /\ Goto(w, "run", "work")
    /\ status' = "Run"
    /\ UNCHANGED <<nbready, errmsg, raised, total, mpc, workVars>>

AwaitRun(w) ==
    /\ status \in {"Run", "Abort"}
    /\ Goto(w, "spin", "work")
    /\ UNCHANGED <<syncVars, raised, total, mpc, workVars>>

Succeed(w) == Goto(w, "work", "notify") /\ UNCHANGED <<syncVars, raised, total, mpc, workVars>>

\* The workload returns an error, or throws.
Err(w) ==
    /\ Goto(w, "work", "errmsg")
    /\ threw' \in {threw, threw \union {w}}
    /\ erred' = erred \union {round[w]}
    /\ UNCHANGED <<syncVars, raised, total, mpc, round>>

SetErrmsg(w) ==
    /\ Goto(w, "errmsg", "abort")
    /\ errmsg' = IF w \in threw THEN "exception" ELSE "error"
    /\ UNCHANGED <<status, nbready, raised, total, mpc, workVars>>

\* Slip: only the first error of a round is announced.
AbortUnlessAlone(w) ==
    /\ Goto(w, "abort", "notify")
    /\ status' = IF nbready = 0 THEN "Abort" ELSE status
    /\ UNCHANGED <<nbready, errmsg, raised, total, mpc, workVars>>

SetAbort(w) ==
    /\ Goto(w, "abort", "notify")
    /\ status' = "Abort"
    /\ UNCHANGED <<nbready, errmsg, raised, total, mpc, workVars>>

AfterRound(w) == IF w \in threw THEN "gone" ELSE "wait"

WorkerNotify(w) ==
    /\ Goto(w, "notify", IF nbready + 1 = NbWorkers THEN "resetOut" ELSE AfterRound(w))
    /\ nbready' = nbready + 1
    /\ UNCHANGED <<status, errmsg, raised, total, mpc, workVars>>

Settle(w) ==
    /\ Goto(w, "settle", "stop")
    /\ status' = IF status = "Abort" THEN "Fail" ELSE "Done"
    /\ UNCHANGED <<nbready, errmsg, raised, total, mpc, workVars>>

StopClock(w) ==
    /\ Goto(w, "stop", "raise")
    /\ total' = total \union {[start |-> local, stop |-> round[w]]}
    /\ UNCHANGED <<syncVars, raised, mpc, workVars>>

\* Slip: the sleeping master is not notified.
RaiseQuietly(w) ==
    /\ Goto(w, "raise", AfterRound(w))
    /\ raised' = TRUE
    /\ UNCHANGED <<syncVars, total, mpc, workVars>>

\* Latch::raise, under its lock.
Raise(w) ==
    /\ Goto(w, "raise", AfterRound(w))
    /\ raised' = TRUE
    /\ mpc' = IF mpc = "asleep" THEN "test" ELSE mpc
    /\ UNCHANGED <<syncVars, total, workVars>>

WorkerGoes(w) ==
    \/ WorkerWait(w) \/ Arrive(w) \/ Reset(w) \/ SetRun(w) \/ AwaitRun(w)
    \/ Succeed(w) \/ Err(w) \/ SetErrmsg(w) \/ SetAbort(w)
    \/ WorkerNotify(w) \/ Settle(w) \/ StopClock(w) \/ Raise(w)

\* When measure() throws, main() leaves the process, its workers with it.
Worker(w) ==
    /\ mpc # "thrown"
    /\ WorkerGoes(w)
    /\ UNCHANGED <<local, bounded, mround, times>>

Measured == mpc \in {"end", "thrown"}

Next == Master \/ (\E w \in Workers : Worker(w)) \/ (Measured /\ UNCHANGED vars)

Spec == Init /\ [][Next]_vars

\* The threads are scheduled, and what they run in a round comes back.
FairSpec ==
    /\ Spec
    /\ WF_vars(MasterRuns)
    /\ \A w \in Workers : WF_vars(Worker(w))

-----------------------------------------------------------------------------
(* Properties *)

Working(w) == pc[w] \in {"work", "errmsg", "abort", "notify"}

\* Although nbready and status serve every round, and a worker may already wait
\* for the next one while others have not left this one: no worker runs before all
\* have come to its round, and none is still running when the master moves on.
RoundsDoNotMix ==
    \A w \in Workers : Working(w) =>
        /\ \A v \in Workers : round[v] = round[w]
        /\ mround = round[w] /\ mpc \in {"start", "test", "asleep", "thrown"}

\* The master that the latch wakes finds a verdict, and the right one: Fail with a
\* message when any worker failed in this very round, Done when none did.
VerdictTrue ==
    mpc = "read" =>
        /\ status = IF mround \in erred THEN "Fail" ELSE "Done"
        /\ status = "Fail" => errmsg # "null"

\* What the master gets for a round is its runtime "between 'master_notify' and when
\* the last worker finished", and no other round's.
RoundMeasured == \A k \in Rounds : \A s \in times[k] : s.stop = k

\* The segment that is added up was started in the round that it ends.
ClockStarted == \A s \in total : s.start = s.stop

\* measure() comes back, with all workers joined or an exception.
MeasureEnds == <>Measured
=============================================================================
