------------------------------ MODULE MCGrading ------------------------------
(***************************************************************************)
(* The parts of the grading program for TLC: main over its libraries, the  *)
(* rounds of measure(), the run and the check of the bank and the barrier. *)
(* Init chooses the part that runs; the variables of the others are idle.  *)
(***************************************************************************)
EXTENDS Integers

CONSTANTS
    Parts,          \* those that may run
    NbLibs, NbThreads, NbCheckers, NbRounds, NbTxPerWrk, SizeMax, MaxSyncs,
    NbAccounts, InitBalance, MaxAccounts, NbTxPerRun                    \* of the bank

Workers == 0 .. NbThreads - 1

VARIABLES
    part,
    pc, mpc, called, left, error, local,                            \* of several parts
    step, mode,                                                     \* the barrier
    atomic, counter, done, last, value, lost,                       \* the check
    status, nbready, errmsg, raised, total, bounded, mround, times,
    round, threw, erred,                                            \* the rounds
    lib, module, region, op, runner, failed, outcome, spurious,     \* main
    store, open, base, result, send, recv, count, cntr, asked       \* the bank

meetVars == <<called, left>>
barrierVars == <<step, mode>>
checkVars == <<atomic, counter, done, last, value, lost>>
roundVars == <<status, nbready, errmsg, raised, total, bounded, mround, times,
               round, threw, erred>>
libVars == <<lib, module, region, op, runner, failed, outcome, spurious>>
bankVars == <<store, open, base, result, send, recv, count, cntr, asked>>
vars == <<part, pc, mpc, meetVars, error, local, barrierVars, checkVars, roundVars, libVars,
          bankVars>>

Barrier == INSTANCE SpinBarrier WITH Threads <- Workers
Check == INSTANCE CheckPhase WITH NbWorkers <- NbCheckers
Rounds == INSTANCE RoundSync
Libs == INSTANCE LibraryGrading
Bank == INSTANCE Bank WITH NbTxPerWrk <- NbTxPerRun

ASSUME GradingAssumption ==
    /\ Parts \subseteq {"barrier", "check", "rounds", "libs", "bank"}
    /\ Barrier!SpinAssumption /\ Check!CheckAssumption
    /\ Rounds!RoundAssumption /\ Libs!LibsAssumption /\ Bank!BankAssumption

-----------------------------------------------------------------------------

Idle == "idle"

BarrierIdle == step = Idle /\ mode = Idle

CheckIdle ==
    /\ atomic = Idle /\ counter = Idle /\ done = Idle /\ last = Idle /\ value = Idle
    /\ lost = Idle

RoundsIdle ==
    /\ status = Idle /\ nbready = Idle /\ errmsg = Idle /\ raised = Idle
    /\ total = Idle /\ bounded = Idle /\ mround = Idle /\ times = Idle
    /\ round = Idle /\ threw = Idle /\ erred = Idle

LibsIdle ==
    /\ lib = Idle /\ module = Idle /\ region = Idle /\ op = Idle /\ runner = Idle
    /\ failed = Idle /\ outcome = Idle /\ spurious = Idle

BankIdle ==
    /\ store = Idle /\ open = Idle /\ base = Idle /\ result = Idle /\ send = Idle
    /\ recv = Idle /\ count = Idle /\ cntr = Idle /\ asked = Idle

MeetIdle == called = Idle /\ left = Idle

Init ==
    /\ part \in Parts
    /\ \/ /\ part = "barrier" /\ Barrier!Init
          /\ mpc = Idle /\ error = Idle /\ local = Idle
          /\ CheckIdle /\ RoundsIdle /\ LibsIdle /\ BankIdle
       \/ /\ part = "check" /\ Check!Init
          /\ mpc = Idle /\ local = Idle /\ BarrierIdle /\ RoundsIdle /\ LibsIdle /\ BankIdle
       \/ /\ part = "rounds" /\ Rounds!Init
          /\ MeetIdle /\ error = Idle /\ BarrierIdle /\ CheckIdle /\ LibsIdle /\ BankIdle
       \/ /\ part = "libs" /\ Libs!Init
          /\ pc = Idle /\ MeetIdle /\ error = Idle /\ local = Idle
          /\ BarrierIdle /\ CheckIdle /\ RoundsIdle /\ BankIdle
       \/ /\ part = "bank" /\ Bank!Init
          /\ mpc = Idle /\ MeetIdle /\ BarrierIdle /\ CheckIdle /\ RoundsIdle /\ LibsIdle

BarrierOnly ==
    /\ part = "barrier"
    /\ UNCHANGED <<part, mpc, error, local, checkVars, roundVars, libVars, bankVars>>
CheckOnly ==
    /\ part = "check"
    /\ UNCHANGED <<part, mpc, local, barrierVars, roundVars, libVars, bankVars>>
RoundsOnly ==
    /\ part = "rounds"
    /\ UNCHANGED <<part, meetVars, error, barrierVars, checkVars, libVars, bankVars>>
LibsOnly ==
    /\ part = "libs"
    /\ UNCHANGED <<part, pc, meetVars, error, local, barrierVars, checkVars, roundVars, bankVars>>
BankOnly ==
    /\ part = "bank"
    /\ UNCHANGED <<part, mpc, meetVars, barrierVars, checkVars, roundVars, libVars>>

Next ==
    \/ BarrierOnly /\ Barrier!Next
    \/ CheckOnly /\ Check!Next
    \/ RoundsOnly /\ Rounds!Next
    \/ LibsOnly /\ Libs!Next
    \/ BankOnly /\ Bank!Next

WorkerGoes(u) ==
    \/ BarrierOnly /\ Barrier!Step(u)
    \/ CheckOnly /\ u < NbCheckers /\ Check!Step(u)
    \/ RoundsOnly /\ Rounds!Worker(u)
    \/ BankOnly /\ (Bank!Goes(u) \/ Bank!Retry(u))

MasterGoes ==
    \/ RoundsOnly /\ Rounds!MasterRuns
    \/ LibsOnly /\ Libs!Going
    \/ BankOnly /\ Bank!StartRun

\* The fairness of the part that runs.
Fairness ==
    /\ WF_vars(MasterGoes) /\ \A u \in Workers : WF_vars(WorkerGoes(u))
    /\ SF_vars(BankOnly /\ Bank!DrawExisting)

Spec == Init /\ [][Next]_vars /\ Fairness

-----------------------------------------------------------------------------
(* The properties of the parts *)

\* Nobody returns from a meeting at the barrier before all have come to it.
ImplementsSyncPoint ==
    /\ part = "barrier" => Barrier!Sync!SyncInit
    /\ [][part = "barrier" => Barrier!Sync!SyncNext]_meetVars
    /\ [](part = "barrier" => Barrier!TypeOK)

\* The check of the bank accuses no atomic library, and finds every update that
\* another one lost.
CheckSound == part = "check" => Check!TypeOK /\ Check!NoFalseAlarm /\ Check!LossDetected

\* Rounds do not overlap, and the verdict of each is that of its own workers.
RoundsSound == part = "rounds" => Rounds!TypeOK /\ Rounds!RoundsDoNotMix /\ Rounds!VerdictTrue

\* main measures what has been created, and a process that returns leaves nothing behind.
LibrariesSound == part = "libs" => Libs!TypeOK /\ Libs!MeasureSeesRegion /\ Libs!CleanReturn

\* The bank stays sound: its money, and the segment that its list starts with.
BankSound ==
    part = "bank" => Bank!TypeOK /\ Bank!MoneyKept /\ Bank!FirstSegmentStays

\* The run of the bank accuses no library that keeps its promise.
NoFalseAlarm == part = "bank" => Bank!NoFalseAlarm

\* Every run ends, unless the library for ever aborts transactions that nobody has
\* overtaken, although the number of accounts that a worker draws from is the one
\* that its last long transaction saw, and others remove accounts.
RunEnds ==
    <>[][part = "bank" => Bank!AbortsStale]_vars => <>(part = "bank" => Bank!Finished)

\* Everything else ends: all get through the barrier; no failure of one worker leaves
\* others in it, unless it is an exception; measure() comes back; and so does main,
\* unless a condition variable wakes up spuriously.
EveryPartEnds ==
    <>[](/\ part = "barrier" => Barrier!Finished
         /\ part = "check" => Check!ReturnedOrThrown
         /\ part = "rounds" => Rounds!Measured
         /\ part = "libs" => outcome # "none" \/ spurious)
=============================================================================
