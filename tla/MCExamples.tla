------------------------------ MODULE MCExamples ------------------------------
(***************************************************************************)
(* The twelve examples of sync-examples and the playground for TLC.  Init  *)
(* chooses a program, which decides the module; what is a variable of the  *)
(* other modules only is idle.                                             *)
(***************************************************************************)
EXTENDS Naturals

CONSTANTS Threads, NoLeader, CounterRuns, ElectionRuns, BUFFER_SIZE, ProconRuns

VARIABLES
    program, lock, pc, r,
    counter, checkCounter, local,
    leader, nbLeaders,
    buffer, consumed, until

counterVars == <<counter, checkCounter, local>>
electionVars == <<leader, nbLeaders>>
proconVars == <<buffer, consumed, until>>
vars == <<program, lock, pc, r, counterVars, electionVars, proconVars>>

Count == INSTANCE Counters WITH RUNS <- CounterRuns
Elect == INSTANCE Elections WITH RUNS <- ElectionRuns
Procon == INSTANCE ProducerConsumer WITH RUNS <- ProconRuns

ASSUME ExamplesAssumption ==
    /\ Count!CountersAssumption /\ Elect!ElectionsAssumption
    /\ Procon!ProducerConsumerAssumption

CountOnly == program \in Count!Programs /\ UNCHANGED <<electionVars, proconVars>>
ElectOnly == program \in Elect!Programs /\ UNCHANGED <<counterVars, proconVars>>
ProconOnly == program \in Procon!Programs /\ UNCHANGED <<counterVars, electionVars>>

-----------------------------------------------------------------------------

Idle == "idle"
CountIdle == counter = Idle /\ checkCounter = Idle /\ local = Idle
ElectIdle == leader = Idle /\ nbLeaders = Idle
ProconIdle == buffer = Idle /\ consumed = Idle /\ until = Idle

Init ==
    \/ Count!Init /\ ElectIdle /\ ProconIdle
    \/ Elect!Init /\ CountIdle /\ ProconIdle
    \/ Procon!Init /\ CountIdle /\ ElectIdle

Next == (CountOnly /\ Count!Next) \/ (ElectOnly /\ Elect!Next) \/ (ProconOnly /\ Procon!Next)

\* Threads are scheduled.
Fairness ==
    /\ \A t \in Threads : WF_vars((CountOnly /\ Count!Step(t)) \/ (ElectOnly /\ Elect!Step(t)))
    /\ \A t \in Procon!Roles : WF_vars(ProconOnly /\ Procon!Step(t))

Spec == Init /\ [][Next]_vars /\ Fairness

-----------------------------------------------------------------------------
(* The properties of the three modules *)

TypeOK ==
    /\ program \in Count!Programs => Count!TypeOK
    /\ program \in Elect!Programs => Elect!TypeOK
    /\ program \in Procon!Programs => Procon!TypeOK

\* What main() finds in the end: exact counts and one leader where a lock or an atomic
\* operation is used, and elsewhere no worse than the interleavings allow.
Outcomes ==
    /\ TypeOK
    /\ program \in Count!Programs => Count!CountsAll /\ Count!LosesNotAll
    /\ program \in Elect!Programs => Elect!OneLeader /\ Elect!SomeLeader

\* The buffers that count are bounded queues.
ImplementsFifo ==
    /\ program \in Procon!Programs => Procon!Fifo!FifoInit
    /\ [][(program \in Procon!Programs) => Procon!FifoSteps]_vars

Joined ==
    /\ program \in Count!Programs => Count!Joined
    /\ program \in Elect!Programs => Elect!Joined
    /\ program \in Procon!Programs => program = "procon2" \/ Procon!Joined

\* All threads can be joined, unless wakeups without a cause go on for ever.  procon2 is
\* left out: nothing makes its mutex pass from the thread that spins on it.
AllJoin ==
    <>[][\A t \in Procon!Roles : ~(ProconOnly /\ Procon!SpuriousWakeup(t))]_vars => <>Joined
=============================================================================
