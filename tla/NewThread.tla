------------------------------- MODULE NewThread -------------------------------
(***************************************************************************)
(* rpp::schedulers::new_thread: the thread of one worker (data_thread) and  *)
(* its queue of schedulables, sorted by time point.  Tasks come from other  *)
(* threads through the worker, or from a running task, through the worker   *)
(* or through current_thread, which uses the queue of the thread it is on.  *)
(*                                                                         *)
(* What happens under the mutex of the queue is one step.  The flag         *)
(* has_fresh_data lets a task that wants to run again at once do so without *)
(* a visit to the queue; its stores and loads are steps of their own.       *)
(***************************************************************************)
EXTENDS Integers, Sequences, SequencesExt, FiniteSets

CONSTANTS Tasks, NoTask,
          Delays,   \* what a task may return: kind "now" (delay_from_now), "this"
                    \* (delay_from_this_timepoint) or "to" (delay_to), and how long or when
          MaxTime   \* bound: the last instant of the clock and of any time point

Times == 0..MaxTime

VARIABLES
  clock,            \* clock_type::now()
  queue,            \* schedulables in the order of the linked list
  has_fresh_data,
  is_stoping,       \* the last worker of this thread is gone
  notified,         \* a notification that wait_for has not looked at yet
  s_last_now_time,  \* of the thread
  pc, running,      \* of the thread; running: the schedulable off the queue
  deadline,         \* of wait_for
  again,            \* the delay the running task has returned
  status,           \* per task: "new", "emplaced", "nested" or "scheduled"
  via_current,      \* history: tasks scheduled through current_thread
  disposed,         \* tasks whose handler is disposed
  ran,              \* history: tasks that have run
  before            \* history: pairs of tasks in the queue, who came first

thread == <<s_last_now_time, pc, running, deadline, again>>
tasks == <<status, via_current, disposed, ran>>
vars == <<clock, queue, before, has_fresh_data, is_stoping, notified, thread, tasks>>

Schedulable(t, tp) == [task |-> t, tp |-> tp]
Nothing == Schedulable(NoTask, 0)
NoDelay == [kind |-> "none", by |-> 0]

Init ==
  /\ clock = 0
  /\ queue = <<>>
  /\ has_fresh_data = FALSE
  /\ is_stoping = FALSE
  /\ notified = FALSE
  /\ s_last_now_time = 0
  /\ pc = "top"
  /\ running = Nothing
  /\ deadline = 0
  /\ again = NoDelay
  /\ status = [t \in Tasks |-> "new"]
  /\ via_current = {}
  /\ disposed = {}
  /\ ran = {}
  /\ before = {}

-----------------------------------------------------------------------------
\* emplace_impl: behind all that are not later, and notify_one.
Emplace(s) ==
  LET notLater == {k \in DOMAIN queue : queue[k].tp <= s.tp}
  IN  /\ queue' = InsertAt(queue, Cardinality(notLater) + 1, s)
      /\ notified' = (pc = "wait_for")
      /\ before' = before \union {<<queue[k].task, s.task>> : k \in DOMAIN queue}

\* state_t::defer_to, by a thread that holds the worker (from "new" to
\* "emplaced") or by the running task ("nested"): first the queue, then the flag.
DeferTo(t) ==
  /\ status[t] = "new" /\ ~is_stoping
  /\ \E tp \in Times : Emplace(Schedulable(t, tp))
  /\ \/ status' = [status EXCEPT ![t] = "emplaced"]
     \/ pc = "run" /\ status' = [status EXCEPT ![t] = "nested"]
  /\ UNCHANGED <<clock, has_fresh_data, is_stoping, thread, via_current, disposed, ran>>

StoreFresh(t) ==
  /\ status[t] \in {"emplaced", "nested"}
  /\ status' = [status EXCEPT ![t] = "scheduled"]
  /\ has_fresh_data' = TRUE
  /\ UNCHANGED <<clock, queue, before, is_stoping, notified, thread, via_current, disposed, ran>>

\* current_thread::worker_strategy, called by the running task: get_queue() is
\* this queue, and the flag is not known there.
DeferToCurrent(t) ==
  /\ pc = "run"
  /\ status[t] = "new" /\ t \notin disposed
  /\ \E tp \in clock..MaxTime : Emplace(Schedulable(t, tp))
  /\ status' = [status EXCEPT ![t] = "scheduled"]
  /\ via_current' = via_current \union {t}
  /\ s_last_now_time' = clock
  /\ UNCHANGED <<clock, has_fresh_data, is_stoping, pc, running, deadline, again, disposed, ran>>

\* ~state_t: the last worker goes, so nobody is in a call on one.
Stop ==
  /\ ~is_stoping
  /\ \A t \in Tasks : status[t] \notin {"emplaced", "nested"}
  /\ is_stoping' = TRUE
  /\ notified' = (pc = "wait_for")
  /\ UNCHANGED <<clock, queue, before, has_fresh_data, thread, tasks>>

Dispose(t) ==
  /\ t \notin disposed
  /\ disposed' = disposed \union {t}
  /\ UNCHANGED <<clock, queue, before, has_fresh_data, is_stoping, notified, thread, status, via_current, ran>>

Tick ==
  /\ clock < MaxTime
  /\ clock' = clock + 1
  /\ UNCHANGED <<queue, before, has_fresh_data, is_stoping, notified, thread, tasks>>

-----------------------------------------------------------------------------
(* data_thread                                                              *)

Top == Head(queue)
TakeTop == queue' = Tail(queue) /\ before' = {p \in before : Top.task \notin {p[1], p[2]}}
GoTo(label) == pc' = label /\ UNCHANGED <<running, again>>
idle == <<clock, is_stoping, tasks>>

Exit ==
  /\ pc = "top" /\ queue = <<>> /\ is_stoping
  /\ GoTo("exit")
  /\ UNCHANGED <<idle, queue, before, has_fresh_data, notified, s_last_now_time, deadline>>

Wait ==
  /\ pc = "top" /\ queue = <<>> /\ ~is_stoping
  /\ GoTo("wait")
  /\ UNCHANGED <<idle, queue, before, has_fresh_data, notified, s_last_now_time, deadline>>

\* cv.wait: what makes the predicate true notifies.
Wake ==
  /\ pc = "wait" /\ (queue # <<>> \/ is_stoping)
  /\ GoTo("top")
  /\ UNCHANGED <<idle, queue, before, has_fresh_data, notified, s_last_now_time, deadline>>

PopDisposed ==
  /\ pc = "top" /\ queue # <<>> /\ Top.task \in disposed
  /\ TakeTop
  /\ UNCHANGED <<idle, has_fresh_data, notified, thread>>

Early == s_last_now_time < Top.tp /\ clock < Top.tp

\* wait_for, until the time point of the top as it is now.
WaitFor ==
  /\ pc = "top" /\ queue # <<>> /\ Top.task \notin disposed /\ Early
  /\ s_last_now_time' = clock
  /\ deadline' = Top.tp
  /\ notified' = FALSE
  /\ GoTo("wait_for")
  /\ UNCHANGED <<idle, queue, before, has_fresh_data>>

WaitOver ==
  /\ s_last_now_time' = clock
  /\ deadline' = 0 /\ notified' = FALSE
  /\ GoTo("top")
  /\ UNCHANGED <<idle, queue, before, has_fresh_data>>

Timeout == pc = "wait_for" /\ clock >= deadline /\ WaitOver

\* A notification, or a spurious wake-up, looks at the predicate.
Predicate == Top.task \in disposed \/ clock >= Top.tp
Recheck ==
  /\ pc = "wait_for" /\ notified
  /\ \/ Predicate /\ WaitOver
     \/ /\ ~Predicate
        /\ notified' = FALSE /\ s_last_now_time' = clock
        /\ UNCHANGED <<idle, queue, before, has_fresh_data, pc, running, deadline, again>>

SpuriousWake == pc = "wait_for" /\ Predicate /\ WaitOver

Pop ==
  /\ pc = "top" /\ queue # <<>> /\ Top.task \notin disposed /\ ~Early
  /\ running' = Top
  /\ TakeTop
  /\ has_fresh_data' = (Tail(queue) # <<>>)
  /\ ran' = ran \union {Top.task}
  /\ s_last_now_time' = IF s_last_now_time < Top.tp THEN clock ELSE s_last_now_time
  /\ pc' = "run"
  /\ UNCHANGED <<clock, is_stoping, notified, deadline, again, status, via_current, disposed>>

\* The task returns nothing, or is disposed by now: it is over.
Finish ==
  /\ pc = "run" /\ (\A t \in Tasks : status[t] # "nested")
  /\ pc' = "top"
  /\ running' = Nothing
  /\ UNCHANGED <<idle, queue, before, has_fresh_data, notified, s_last_now_time, deadline, again>>

\* It wants to run again.
Return ==
  /\ pc = "run" /\ (\A t \in Tasks : status[t] # "nested")
  /\ running.task \notin disposed
  /\ again' \in Delays
  /\ pc' = "returned"
  /\ UNCHANGED <<idle, queue, before, has_fresh_data, notified, s_last_now_time, running, deadline>>

CanRunImmediately == again.kind # "to" /\ again.by = 0

\* Mutant: a task that need not wait never goes through the queue.
RunAgainAlways ==
  /\ pc = "returned" /\ CanRunImmediately
  /\ pc' = "run" /\ again' = NoDelay
  /\ UNCHANGED <<idle, queue, before, has_fresh_data, notified, s_last_now_time, running, deadline>>

\* can_run_immediately() && !has_fresh_data
RunAgain ==
  /\ pc = "returned" /\ CanRunImmediately /\ ~has_fresh_data
  /\ pc' = "run" /\ again' = NoDelay
  /\ UNCHANGED <<idle, queue, before, has_fresh_data, notified, s_last_now_time, running, deadline>>

\* Bound: time points beyond the last instant are that instant.
Capped(tp) == IF tp > MaxTime THEN MaxTime ELSE tp

\* handle_advanced_call: a time point in the past is kept as it is.
NewTimePoint ==
  Capped(CASE again.kind = "now" -> clock + again.by
           [] again.kind = "this" -> running.tp + again.by
           [] OTHER -> again.by)

\* Back into the queue.
Requeue ==
  /\ pc = "returned" /\ ~(CanRunImmediately /\ ~has_fresh_data)
  /\ Emplace(Schedulable(running.task, NewTimePoint))
  /\ s_last_now_time' = IF again.kind = "now" THEN clock ELSE s_last_now_time
  /\ pc' = "top"
  /\ running' = Nothing /\ again' = NoDelay
  /\ UNCHANGED <<idle, has_fresh_data, deadline>>

-----------------------------------------------------------------------------
\* The thread itself; spurious wake-ups are nothing to count on.
Thread ==
  \/ Exit \/ Wait \/ Wake \/ PopDisposed \/ WaitFor \/ Timeout \/ Recheck
  \/ Pop \/ Finish \/ Return \/ RunAgain \/ Requeue

Next ==
  \/ Thread \/ SpuriousWake \/ Tick \/ Stop
  \/ \E t \in Tasks : DeferTo(t) \/ StoreFresh(t) \/ DeferToCurrent(t) \/ Dispose(t)

Spec == Init /\ [][Next]_vars

\* Time goes on, and threads that can run do.
FairSpec ==
  /\ Spec /\ WF_vars(Thread) /\ WF_vars(Tick)
  /\ \A t \in Tasks : WF_vars(StoreFresh(t))

-----------------------------------------------------------------------------
TypeOK ==
  /\ clock \in Times /\ s_last_now_time \in Times /\ deadline \in Times
  /\ queue \in Seq([task : Tasks, tp : Times])
  /\ has_fresh_data \in BOOLEAN /\ is_stoping \in BOOLEAN /\ notified \in BOOLEAN
  /\ pc \in {"top", "wait", "wait_for", "run", "returned", "exit"}
  /\ running \in [task : Tasks \union {NoTask}, tp : Times]
  /\ again \in Delays \union {NoDelay}
  /\ status \in [Tasks -> {"new", "emplaced", "nested", "scheduled"}]
  /\ via_current \subseteq Tasks /\ disposed \subseteq Tasks /\ ran \subseteq Tasks
  /\ before \subseteq Tasks \X Tasks

\* No task runs before its time point, although the thread decides by a clock
\* value that may be old and by a top that may have changed while it slept.
NeverEarly == pc = "run" => running.tp <= clock

\* has_fresh_data misses nothing: while it is FALSE, and the running task may
\* go on without a look at the queue, every task in the queue came through
\* current_thread or is still in its call of schedule().
FreshDataSeen ==
  pc \in {"run", "returned"} /\ ~has_fresh_data =>
    \A k \in DOMAIN queue :
      queue[k].task \in via_current \/ status[queue[k].task] \in {"emplaced", "nested"}

\* The worker may be gone long before the last time point: the thread ends only
\* when everything that was scheduled has run or was disposed of.
WorksTillEnd ==
  pc = "exit" => \A t \in Tasks : status[t] = "scheduled" => t \in ran \union disposed

\* "priority to time_point and order" (new_thread.hpp): what the thread takes
\* from the front is the earliest and, of the same time point, came first.
PriorityAndOrder ==
  \A j, k \in DOMAIN queue :
    j < k => \/ queue[j].tp < queue[k].tp
             \/ queue[j].tp = queue[k].tp /\ <<queue[j].task, queue[k].task>> \in before

\* The running task goes back into the queue with a time point in the past that is
\* no later than its last: delay_from_this_timepoint of nothing, or delay_to.
StaysInThePast ==
  /\ pc = "returned" /\ ~(CanRunImmediately /\ ~has_fresh_data)
  /\ NewTimePoint < clock /\ NewTimePoint <= running.tp

\* A task that was scheduled through a worker runs, even if another one runs again
\* for ever and at once, unless that one comes back to the past again and again.
EveryTaskRuns ==
  \A t \in Tasks :
    status[t] = "scheduled" /\ t \notin via_current ~> t \in ran \union disposed \/ StaysInThePast

\* "sleep_until(timepoint_for_schedulable)" (fwd.hpp): when the first task of the
\* queue is due and no notification is on its way, the thread is not left asleep
\* until a later time point.
SleepsNoLonger ==
  pc = "wait_for" /\ ~notified /\ clock >= Top.tp => clock >= deadline
=============================================================================
