------------------------------ MODULE MCScheduled ------------------------------
(* Four operators on one small clock: a behaviour is one of delay,           *)
(* observe_on, debounce or timeout, and leaves alone the state of the others. *)
EXTENDS ScheduledOperator

VARIABLES operator,
          queue, is_active,
          m_value_to_be_emitted, m_time_when_value_should_be_emitted,
          timeout, handed

D == INSTANCE Delay WITH ClearOnError <- operator = "observe_on"
B == INSTANCE Debounce
T == INSTANCE Timeout

ofDelay == <<queue, is_active>>
ofDebounce == <<m_value_to_be_emitted, m_time_when_value_should_be_emitted>>
ofTimeout == <<timeout, handed>>
vars == <<common, operator, ofDelay, ofDebounce, ofTimeout>>

Init ==
  /\ \/ operator \in {"delay", "observe_on"} /\ D!Init
     \/ operator = "debounce" /\ B!Init
     \/ operator = "timeout" /\ T!Init
  /\ operator \notin {"delay", "observe_on"} => queue = <<>> /\ is_active = FALSE
  /\ operator # "debounce" =>
       m_value_to_be_emitted = NoValue /\ m_time_when_value_should_be_emitted = NoTime
  /\ operator # "timeout" => timeout = 0 /\ handed = FALSE

DelayStep(A) ==
  operator \in {"delay", "observe_on"} /\ UNCHANGED <<operator, ofDebounce, ofTimeout>> /\ A
DebounceStep(A) == operator = "debounce" /\ UNCHANGED <<operator, ofDelay, ofTimeout>> /\ A
TimeoutStep(A) == operator = "timeout" /\ UNCHANGED <<operator, ofDelay, ofDebounce>> /\ A

SharedStep == Shared /\ UNCHANGED <<operator, ofDelay, ofDebounce, ofTimeout>>
SourceStep == DelayStep(D!SourceStep) \/ DebounceStep(B!SourceStep) \/ TimeoutStep(T!SourceStep)
WorkerStep == DelayStep(D!WorkerStep) \/ DebounceStep(B!WorkerStep) \/ TimeoutStep(T!WorkerStep)

Next == SharedStep \/ SourceStep \/ WorkerStep

\* The clock ticks, and threads inside a call or a task are run.
Fairness ==
  /\ WF_vars(SourceStep) /\ WF_vars(WorkerStep)
  /\ WF_vars(RunTask /\ SharedStep) /\ WF_vars(Tick /\ SharedStep)
FairSpec == Init /\ [][Next]_vars /\ Fairness

-----------------------------------------------------------------------------
TypeOK ==
  /\ operator \in {"delay", "observe_on", "debounce", "timeout"}
  /\ D!TypeOK /\ B!TypeOK /\ T!TypeOK

\* Each operator's own promise.
Shifts == operator \in {"delay", "observe_on"} => D!Shifts
OnlyAfterQuiet == operator = "debounce" => B!OnlyAfterQuiet
OneSideEnds == T!OneSideEnds

\* "All built-in RPP observables/operators emit emissions serially"
\* (observables.hpp): source and worker never call the downstream observer of
\* delay or debounce at the same time, nor after a terminal call.
FollowsContract ==
  Contract!Init /\ [][(operator \in {"delay", "debounce"} => Contract!Next)]_<<inside, ended>>

\* The same is true of observe_on.
ObserveOnSerial ==
  Contract!Init /\ [][(operator = "observe_on" => Contract!Next)]_<<inside, ended>>

\* Every value is passed on, or a newer one is, and so is the end, unless the
\* observable has ended or the subscriber has left; a source that stays silent
\* is given up.
NothingForgotten ==
  LET over == ended # "no" \/ user # "subscribed" IN
  /\ operator = "timeout" => <>(handed \/ over)
  /\ operator # "timeout" =>
       /\ \A i \in 1..MaxEmits :
            Len(at) >= i ~> over \/ \E j \in 1..Len(got) : got[j] >= i
       /\ finished # "no" ~> over
=============================================================================
