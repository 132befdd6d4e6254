---------------------------- MODULE LibraryGrading ----------------------------
(***************************************************************************)
(* main() of grading/grading.cpp: it evaluates one library after another.  *)
(* Each is loaded, makes a region, is measured (module RoundSync), destroys*)
(* the region and is unloaded.  tm_create and tm_destroy are student code  *)
(* and run in bounded_run of grading/common.hpp: a runner thread, waited   *)
(* for on a condition variable, once, without a predicate, and joined with *)
(* the lock held.                                                          *)
(***************************************************************************)
EXTENDS Naturals

CONSTANT NbLibs         \* argc - 2

LibsAssumption == NbLibs \in Nat \ {0}

VARIABLES
    lib,            \* i - 1 of the loop of main
    module,         \* the library, as dlopen and dlclose leave it
    region,
    op, mpc,        \* what main has bounded_run do, and its next step
    runner,
    failed,         \* measure returned an error
    outcome,        \* how the process ends
    spurious        \* history: a wait ended without a notification

vars == <<lib, module, region, op, mpc, runner, failed, outcome, spurious>>

TypeOK ==
    /\ lib \in 1 .. NbLibs
    /\ module \in {"none", "loaded", "closed"}
    /\ region \in {"none", "live", "freed"}
    /\ op \in {"create", "destroy"}
    /\ mpc \in {"load", "spawn", "wait", "relock", "join", "measure", "unwind", "close"}
    /\ runner \in {"none", "func", "notify", "over"}
    /\ failed \in BOOLEAN /\ spurious \in BOOLEAN
    /\ outcome \in {"none", "return_0", "return_1", "exception", "quick_exit", "terminate"}

Init ==
    /\ lib = 1
    /\ module = "none" /\ region = "none"
    /\ op = "create" /\ mpc = "load" /\ runner = "none"
    /\ failed = FALSE /\ outcome = "none" /\ spurious = FALSE

Goto(from, to) == mpc = from /\ mpc' = to

Load ==
    /\ Goto("load", "spawn")
    /\ module' = "loaded" /\ region' = "none" /\ op' = "create"
    /\ UNCHANGED <<lib, runner, failed, outcome, spurious>>

\* realpath or dlopen fails, or dlsym does with the library loaded.
LoadFails ==
    /\ mpc = "load"
    /\ module' \in {"none", "loaded"}
    /\ outcome' = "exception"
    /\ UNCHANGED <<lib, region, op, mpc, runner, failed, spurious>>

-----------------------------------------------------------------------------
(* bounded_run: the lock is free while the caller is in "wait" or "relock". *)

Spawn ==
    /\ Goto("spawn", "wait")
    /\ runner' = "func"
    /\ UNCHANGED <<lib, module, region, op, failed, outcome, spurious>>

\* tm_create and tm_start, or tm_destroy, come back.
RunnerEnds ==
    /\ runner = "func"
    /\ runner' = "notify"
    /\ region' = IF op = "create" THEN "live" ELSE "freed"
    /\ UNCHANGED <<lib, module, op, mpc, failed, outcome, spurious>>

\* TransactionCreate is thrown in the runner, where nothing catches it.
RunnerThrows ==
    /\ runner = "func" /\ op = "create"
    /\ outcome' = "terminate"
    /\ UNCHANGED <<lib, module, region, op, mpc, runner, failed, spurious>>

RunnerNotify ==
    /\ runner = "notify"
    /\ mpc \in {"wait", "relock"}
    /\ mpc' = "relock"
    /\ runner' = "over"
    /\ UNCHANGED <<lib, module, region, op, failed, outcome, spurious>>

SpuriousWakeup ==
    /\ Goto("wait", "relock")
    /\ spurious' = TRUE
    /\ UNCHANGED <<lib, module, region, op, runner, failed, outcome>>

Relock == Goto("relock", "join") /\ UNCHANGED <<lib, module, region, op, runner, failed, outcome, spurious>>

\* Slip: the wait starts over.
WaitAgain == Goto("wait", "wait") /\ UNCHANGED <<lib, module, region, op, runner, failed, outcome, spurious>>

\* Time is up, also by the time that whoever was notified, or woken, has the lock back,
\* and the runner is detached; or it could not be started.  The exception leaves the
\* constructor of the region, or its noexcept destructor.
Overrun ==
    /\ mpc \in {"spawn", "wait", "relock"}
    /\ IF op = "create"
       THEN mpc' = "unwind" /\ UNCHANGED outcome
       ELSE outcome' = "terminate" /\ UNCHANGED mpc
    /\ UNCHANGED <<lib, module, region, op, runner, failed, spurious>>

\* Slip: the runner is detached in every case.
JoinNothing ==
    /\ Goto("join", IF op = "create" THEN "measure" ELSE "close")
    /\ runner' = "none"
    /\ UNCHANGED <<lib, module, region, op, failed, outcome, spurious>>

Join ==
    /\ runner = "over"
    /\ Goto("join", IF op = "create" THEN "measure" ELSE "close")
    /\ runner' = "none"
    /\ UNCHANGED <<lib, module, region, op, failed, outcome, spurious>>

-----------------------------------------------------------------------------
(* main *)

\* Slip: an error ends the process there and then.
MeasureAborts ==
    /\ Goto("measure", "spawn")
    /\ op' = "destroy"
    /\ failed' \in BOOLEAN
    /\ outcome' = IF failed' THEN "return_1" ELSE "none"
    /\ UNCHANGED <<lib, module, region, runner, spurious>>

\* The workload and the library go out of scope, after an error too.
Measure ==
    /\ Goto("measure", "spawn")
    /\ op' = "destroy"
    /\ failed' \in BOOLEAN
    /\ UNCHANGED <<lib, module, region, runner, outcome, spurious>>

\* measure throws, with its workers detached: the library may not be unloaded.
MeasureThrows ==
    /\ mpc = "measure"
    /\ outcome' = "quick_exit"
    /\ UNCHANGED <<lib, module, region, op, mpc, runner, failed, spurious>>

\* The workload could not be built: only the library goes out of scope.
Unwind ==
    /\ mpc = "unwind"
    /\ module' = "closed"
    /\ outcome' = "exception"
    /\ UNCHANGED <<lib, region, op, mpc, runner, failed, spurious>>

Close ==
    /\ Goto("close", "load")
    /\ module' = "closed"
    /\ outcome' = IF failed THEN "return_1" ELSE IF lib = NbLibs THEN "return_0" ELSE "none"
    /\ lib' = IF outcome' = "none" THEN lib + 1 ELSE lib
    /\ UNCHANGED <<region, op, runner, failed, spurious>>

Goes ==
    \/ Load \/ Spawn \/ RunnerNotify \/ Relock \/ Overrun \/ Join
    \/ Measure \/ Unwind \/ Close

Going == outcome = "none" /\ Goes

\* main joins the runner with the lock held that the runner needs: both stay there.
Stuck == mpc = "join" /\ runner = "notify" /\ UNCHANGED vars

Next ==
    \/ outcome = "none"
       /\ \/ Goes
          \/ LoadFails \/ RunnerEnds \/ RunnerThrows \/ SpuriousWakeup \/ MeasureThrows
          \/ Stuck
    \/ outcome # "none" /\ UNCHANGED vars

Spec == Init /\ [][Next]_vars

\* main and the clock go on; what the library runs need not come back.
FairSpec == Spec /\ WF_vars(Going)

-----------------------------------------------------------------------------
(* Properties *)

\* When main measures a library, tm_create has come back, and its result is there,
\* although the wait may have ended without a notification.
MeasureSeesRegion == mpc = "measure" => region = "live" /\ module = "loaded"

\* A process that returns from main's loop has destroyed the region of every library
\* and unloaded it, with no runner left, also when a library failed.
CleanReturn ==
    outcome \in {"return_0", "return_1"} =>
        region = "freed" /\ module = "closed" /\ runner = "none"

\* Grading ends although a library may hang in tm_create or tm_destroy, unless the
\* condition variable wakes up spuriously.
GradingEnds == <>(outcome # "none" \/ spurious)

\* "Run some function for some bounded time, throws 'Exception::BoundedOverrun' on
\* overtime."
BoundedRunEnds ==
    (mpc = "wait") ~> (mpc \notin {"wait", "relock", "join"} \/ outcome # "none")

\* "cannot unload library with running threads"
NoRunningCodeUnloaded == module = "closed" => runner # "func"
=============================================================================
