------------------------------- MODULE MCSchedulers -------------------------------
(* The schedulers, each on two tasks: a behaviour is one of new_thread,       *)
(* current_thread (and immediate), run_loop, test_scheduler, or an event loop, *)
(* and leaves alone what is not its own.                                      *)
EXTENDS Integers, Sequences

CONSTANTS Tasks, NoTask, Dispatchers,
          ThreadDelays,               \* what a task of new_thread may return
          Milli,                      \* instants in a millisecond
          MaxTime, MaxRuns, MaxDelay, \* bounds, as in CurrentThread
          ShortTime, FewRuns          \* bounds of the schedulers with more of everything else

ASSUME TasksAssumption == NoTask \notin Tasks
ASSUME DelaysAssumption == ThreadDelays \subseteq [kind : {"now", "this", "to"}, by : Nat]
ASSUME BoundsAssumption ==
  {MaxTime, MaxDelay, ShortTime} \subseteq Nat /\ {Milli, MaxRuns, FewRuns} \subseteq Nat \ {0}

VARIABLES scheduler,
          clock, kind, queue, pc, disposed, status, runs, wanted,
          owned, cur, path, due, waits, hand, telling, stack,
          loop, timers, entered, wrapped, m_time_point,
          has_fresh_data, is_stoping, notified, s_last_now_time, running, deadline, again,
          via_current, ran, before

\* Bounds.  One task runs or waits while the other is scheduled before, with or
\* after it; a task that keeps its period does so for two delays, three calls.
AtOnceOrLater ==
  [kind : {"now", "this"}, by : {0, 1}] \union {[kind |-> "to", by |-> 0]}

NewThread == INSTANCE NewThread WITH Delays <- ThreadDelays
CurrentThread == INSTANCE CurrentThread
RunLoop == INSTANCE RunLoop WITH MaxTime <- ShortTime, MaxRuns <- FewRuns
TestScheduler == INSTANCE TestScheduler WITH MaxRuns <- FewRuns
EventLoop == INSTANCE EventLoop

ofCurrentThread == <<path, due>>
ofRunLoop == <<waits, hand, telling>>
ofEventLoop == <<loop, timers, entered, wrapped, m_time_point>>
ofNewThread == <<has_fresh_data, is_stoping, notified, s_last_now_time, running, deadline, again,
                 via_current, ran, before>>
ofQueues == <<kind, runs, wanted, owned, cur>>
vars == <<scheduler, clock, kind, queue, pc, disposed, status, runs, wanted, owned, cur,
          ofCurrentThread, ofRunLoop, stack, ofEventLoop, ofNewThread>>

\* The others' variables, where they are not used.
Idle(s) ==
  /\ s # "run_loop" => waits = "" /\ hand = "" /\ telling = {}
  /\ s # "test_scheduler" => stack = <<>>
  /\ s # "current_thread" => path = "" /\ due = 0
  /\ s # "event_loop" =>
       loop = "" /\ timers = {} /\ entered = 0 /\ wrapped = {} /\ m_time_point = ""
  /\ s = "new_thread" => kind = "" /\ runs = "" /\ wanted = ""
  /\ s # "new_thread" =>
       /\ has_fresh_data = "" /\ is_stoping = "" /\ notified = "" /\ s_last_now_time = ""
       /\ running = "" /\ deadline = "" /\ again = "" /\ via_current = "" /\ ran = "" /\ before = ""
  /\ s \notin {"current_thread", "event_loop"} => owned = FALSE /\ cur = ""
  /\ s = "test_scheduler" => pc = ""

\* Tasks are alike: of each pair of kinds one order is enough.
Rank == [delay_from_now |-> 1, delay_from_this_timepoint |-> 2, delay_to |-> 3]
OneOrder == LET a == CHOOSE t \in Tasks : TRUE IN \A b \in Tasks : Rank[kind[a]] <= Rank[kind[b]]

Init ==
  /\ \/ scheduler = "new_thread" /\ NewThread!Init
     \/ scheduler = "current_thread" /\ CurrentThread!Init
     \/ scheduler = "run_loop" /\ RunLoop!Init
     \/ scheduler = "test_scheduler" /\ TestScheduler!Init
     \/ scheduler = "event_loop" /\ EventLoop!Init
  /\ Idle(scheduler)
  /\ scheduler # "new_thread" => OneOrder

Next ==
  /\ UNCHANGED scheduler
  /\ \/ /\ scheduler = "new_thread" /\ NewThread!Next
        /\ UNCHANGED <<ofQueues, ofCurrentThread, ofRunLoop, stack, ofEventLoop>>
     \/ /\ scheduler = "current_thread" /\ CurrentThread!Next
        /\ UNCHANGED <<ofRunLoop, stack, ofEventLoop, ofNewThread>>
     \/ /\ scheduler = "run_loop" /\ RunLoop!Next
        /\ UNCHANGED <<owned, cur, ofCurrentThread, stack, ofEventLoop, ofNewThread>>
     \/ /\ scheduler = "test_scheduler" /\ TestScheduler!Next
        /\ UNCHANGED <<pc, owned, cur, ofCurrentThread, ofRunLoop, ofEventLoop, ofNewThread>>
     \/ /\ scheduler = "event_loop" /\ EventLoop!Next
        /\ UNCHANGED <<ofCurrentThread, ofRunLoop, stack, ofNewThread>>

\* Fairness is that of new_thread: of the others safety is checked only.
Fairly(A) == scheduler = "new_thread" /\ A /\ UNCHANGED <<scheduler, ofQueues, ofCurrentThread, ofRunLoop, stack, ofEventLoop>>
Spec ==
  /\ Init /\ [][Next]_vars
  /\ WF_vars(Fairly(NewThread!Thread)) /\ WF_vars(Fairly(NewThread!Tick))
  /\ \A t \in Tasks : WF_vars(Fairly(NewThread!StoreFresh(t)))

-----------------------------------------------------------------------------
TypeOK ==
  CASE scheduler = "new_thread" -> NewThread!TypeOK
    [] scheduler = "current_thread" -> CurrentThread!TypeOK
    [] scheduler = "run_loop" -> RunLoop!TypeOK
    [] scheduler = "test_scheduler" -> TestScheduler!TypeOK
    [] scheduler = "event_loop" -> EventLoop!TypeOK

\* No scheduler calls a task before the time it asked for, through all its calls
\* (but see KeepsPeriod for current_thread), and Qt less than a millisecond before.
NeverEarly ==
  CASE scheduler = "new_thread" -> NewThread!NeverEarly
    [] scheduler = "current_thread" -> CurrentThread!NeverEarly
    [] scheduler = "run_loop" -> RunLoop!OnTime
    [] scheduler = "test_scheduler" -> TestScheduler!NeverEarly
    [] scheduler = "event_loop" -> EventLoop!NeverEarly

\* What is queued runs in the order of time points, then of arrival.
RunsInOrder ==
  /\ scheduler = "new_thread" => NewThread!PriorityAndOrder
  /\ scheduler = "current_thread" => CurrentThread!RunsInOrder

\* No scheduled task is lost or doubled, whoever takes it or hands it on, and when
\* the outermost call on the scheduler returns, or the thread ends, none is left.
NothingLeftBehind ==
  /\ scheduler = "new_thread" => NewThread!WorksTillEnd
  /\ scheduler = "current_thread" => CurrentThread!NothingLeftBehind
  /\ scheduler = "test_scheduler" => TestScheduler!NothingDueLeft /\ TestScheduler!InOnePlace
  /\ scheduler = "run_loop" => RunLoop!InOnePlace
  /\ scheduler = "event_loop" => EventLoop!InOnePlace

\* A task scheduled through a worker of new_thread runs, even if another one runs
\* again for ever and at once, unless that one comes back to the past again and again
\* (delay_from_this_timepoint of nothing, or delay_to).
EveryTaskRuns ==
  \A t \in Tasks :
    /\ scheduler = "new_thread" /\ status[t] = "scheduled" /\ t \notin via_current
    ~> scheduler = "new_thread" /\ (t \in ran \union disposed \/ NewThread!StaysInThePast)

\* The flag that spares new_thread a look at its queue misses nothing, and nobody in
\* run_loop's dispatch() sleeps over a task that has been queued.
NothingOverlooked ==
  /\ scheduler = "new_thread" => NewThread!FreshDataSeen
  /\ scheduler = "run_loop" => RunLoop!NobodySleepsOverIt

\* "sleep_until(timepoint_for_schedulable)" (fwd.hpp): when the first task of the
\* queue is due and no notification is on its way, new_thread is not left asleep
\* until a later time point.
SleepsNoLonger == scheduler = "new_thread" => NewThread!SleepsNoLonger

\* "emits a sequential integer every specified time interval" (interval.hpp): on
\* current_thread too the calls of a task that keeps its period are a period apart.
KeepsPeriod == scheduler = "current_thread" => CurrentThread!KeepsPeriod
=============================================================================
