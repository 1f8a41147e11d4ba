------------------------------- MODULE EventLoop -------------------------------
(***************************************************************************)
(* The schedulers of rppasio and rppqt hand their tasks to an event loop     *)
(* that runs one handler at a time and none before its time: a strand of an  *)
(* io_context, or the Qt main thread.  On a strand, current_thread gets a     *)
(* queue for as long as a handler runs; what is found in it is then wrapped  *)
(* and handed to the loop too.  A Qt timer counts milliseconds: what a        *)
(* duration has beyond whole ones is cut off.  Loops, timers and the           *)
(* QCoreApplication are external.                                              *)
(***************************************************************************)
EXTENDS Integers, Sequences, SequencesExt, FiniteSets

CONSTANTS Tasks, NoTask,
          Milli,    \* instants of the clock in a millisecond
          MaxTime,  \* bound: the last instant of the clock and of any time point
          MaxRuns,  \* bound: calls of one task
          MaxDelay  \* bound: delays a task returns

Times == 0..MaxTime
Delays == 0..MaxDelay
Kinds == {"delay_from_now", "delay_from_this_timepoint", "delay_to"}
Loops == {"strand", "main_thread", "no_application"}

VARIABLES
  clock,
  loop,     \* which event loop this is; Qt has none without a QCoreApplication
  kind,     \* per task: what its function returns
  timers,   \* handlers the loop holds: a task and a deadline
  queue,    \* current_thread's, on a strand: schedulables in order
  owned,    \* get_queue() is not null
  pc, cur,  \* of the thread in the loop; cur: the task it runs
  entered,  \* main_thread: when the running task was called
  wrapped,  \* tasks that came through current_thread
  m_time_point, \* of a wrapped one
  disposed, \* tasks whose handler is disposed
  status,   \* per task: "new", "scheduled" or "over"
  runs,     \* per task
  wanted    \* history, per task: the time it was to be called at

thread == <<pc, cur, entered>>
tasks == <<kind, disposed, status, runs>>
vars == <<clock, loop, timers, queue, owned, thread, wrapped, m_time_point, tasks, wanted>>

Init ==
  /\ clock = 0 /\ loop \in Loops /\ kind \in [Tasks -> Kinds]
  /\ timers = {} /\ queue = <<>> /\ owned = FALSE
  /\ pc = "idle" /\ cur = NoTask /\ entered = 0
  /\ wrapped = {} /\ m_time_point = [t \in Tasks |-> 0]
  /\ disposed = {} /\ status = [t \in Tasks |-> "new"]
  /\ runs = [t \in Tasks |-> 0] /\ wanted = [t \in Tasks |-> 0]

-----------------------------------------------------------------------------
\* duration_cast<milliseconds> of a duration that is not negative
Truncated(d) == d - (d % Milli)

\* The deadline of the timer for time point tp: on a strand tp itself, in Qt by the
\* whole milliseconds from now until then.
Deadline(tp) ==
  IF loop = "strand" THEN tp ELSE clock + Truncated(IF tp > clock THEN tp - clock ELSE 0)

\* defer_for or defer_to of a worker, on any thread: a post, or a timer.
Defer(t) ==
  /\ status[t] = "new" /\ loop # "no_application"
  /\ \E tp \in Times :
       /\ timers' = timers \union {[task |-> t, at |-> Deadline(tp)]}
       /\ wanted' = [wanted EXCEPT ![t] = tp]
  /\ status' = [status EXCEPT ![t] = "scheduled"]
  /\ UNCHANGED <<clock, loop, queue, owned, thread, wrapped, m_time_point, kind, disposed, runs>>

\* The same without a QCoreApplication: on_error, and no timer.
DeferFails(t) ==
  /\ status[t] = "new" /\ loop = "no_application"
  /\ status' = [status EXCEPT ![t] = "over"]
  /\ UNCHANGED <<clock, loop, timers, queue, owned, thread, wrapped, m_time_point, kind, disposed,
                 runs, wanted>>

\* The QCoreApplication is created, or destroyed with the timers it is the context of.
CreateOrQuit ==
  /\ pc = "idle" /\ loop # "strand"
  /\ loop' = IF loop = "main_thread" THEN "no_application" ELSE "main_thread"
  /\ timers' = {}
  /\ status' = [t \in Tasks |-> IF \E h \in timers : h.task = t THEN "over" ELSE status[t]]
  /\ UNCHANGED <<clock, queue, owned, thread, wrapped, m_time_point, kind, disposed, runs, wanted>>

\* current_thread, called by a task on a strand.
DeferToCurrent(t) ==
  /\ pc = "run" /\ owned /\ status[t] = "new"
  /\ \E tp \in Times :
       /\ queue' = InsertAt(queue,
            Cardinality({k \in DOMAIN queue : m_time_point[queue[k]] <= tp}) + 1, t)
       /\ m_time_point' = [m_time_point EXCEPT ![t] = tp]
       /\ wanted' = [wanted EXCEPT ![t] = tp]
  /\ wrapped' = wrapped \union {t}
  /\ status' = [status EXCEPT ![t] = "scheduled"]
  /\ UNCHANGED <<clock, loop, timers, owned, thread, kind, disposed, runs>>

Dispose(t) ==
  /\ status[t] = "scheduled" /\ t \notin disposed
  /\ disposed' = disposed \union {t}
  /\ UNCHANGED <<clock, loop, timers, queue, owned, thread, wrapped, m_time_point, kind,
                 status, runs, wanted>>

Tick ==
  /\ clock < MaxTime
  /\ clock' = clock + 1
  /\ UNCHANGED <<loop, timers, queue, owned, thread, wrapped, m_time_point, tasks, wanted>>

-----------------------------------------------------------------------------
\* The loop calls a handler; the queue guard is the handler's, disposed or not.
Fire(h) ==
  /\ pc = "idle" /\ clock >= h.at
  /\ timers' = timers \ {h}
  /\ IF h.task \in disposed
     THEN status' = [status EXCEPT ![h.task] = "over"] /\ UNCHANGED <<owned, thread, runs>>
     ELSE /\ pc' = "run" /\ cur' = h.task
          /\ entered' = IF loop = "main_thread" THEN clock ELSE 0
          /\ owned' = (loop = "strand")
          /\ runs' = [runs EXCEPT ![h.task] = @ + 1]
          /\ UNCHANGED status
  /\ UNCHANGED <<clock, loop, queue, wrapped, m_time_point, kind, disposed, wanted>>

\* The task is over: it returned nothing, or threw.
Finish ==
  /\ pc = "run"
  /\ status' = [status EXCEPT ![cur] = "over"]
  /\ wanted' = [wanted EXCEPT ![cur] = 0]
  /\ pc' = "leave" /\ cur' = NoTask /\ entered' = 0
  /\ UNCHANGED <<clock, loop, timers, queue, owned, wrapped, m_time_point, kind, disposed, runs>>

\* When the running task wants to run after it returned d: a wrapped one by its
\* time point, a timer of a strand by a duration from now, a Qt one from when it
\* was entered.
Again(d) ==
  CASE kind[cur] = "delay_to" -> d
    [] kind[cur] = "delay_from_now" -> clock + d
    [] kind[cur] = "delay_from_this_timepoint" ->
         d + IF cur \in wrapped THEN m_time_point[cur]
             ELSE IF loop = "main_thread" THEN entered ELSE clock

\* Mutant: the wrapped schedulable keeps its first time point.
SetTimepointMissing(tp) == UNCHANGED m_time_point

\* top->set_timepoint, for a wrapped schedulable
SetTimepoint(tp) ==
  m_time_point' = IF cur \in wrapped THEN [m_time_point EXCEPT ![cur] = tp] ELSE m_time_point

Return ==
  /\ pc = "run" /\ runs[cur] < MaxRuns
  /\ \E d \in IF kind[cur] = "delay_to" THEN Times ELSE Delays :
       /\ Again(d) <= MaxTime
       /\ timers' = IF cur \in disposed THEN timers
                    ELSE timers \union {[task |-> cur, at |-> Deadline(Again(d))]}
       /\ wanted' = [wanted EXCEPT ![cur] =
            IF kind[cur] = "delay_from_this_timepoint" THEN @ + d ELSE Again(d)]
       /\ SetTimepoint(Again(d))
  /\ status' = [status EXCEPT ![cur] = IF cur \in disposed THEN "over" ELSE @]
  /\ pc' = "leave" /\ cur' = NoTask /\ entered' = 0
  /\ UNCHANGED <<clock, loop, queue, owned, wrapped, kind, disposed, runs>>

\* process_queue, one schedulable; a disposed one is dropped.
Process ==
  /\ pc = "leave" /\ queue # <<>>
  /\ queue' = Tail(queue)
  /\ LET top == Head(queue) IN
     IF top \in disposed
     THEN status' = [status EXCEPT ![top] = "over"] /\ UNCHANGED timers
     ELSE timers' = timers \union {[task |-> top, at |-> m_time_point[top]]} /\ UNCHANGED status
  /\ UNCHANGED <<clock, loop, owned, thread, wrapped, m_time_point, kind, disposed, runs, wanted>>

HandlerOver ==
  /\ pc = "leave" /\ queue = <<>>
  /\ pc' = "idle" /\ owned' = FALSE
  /\ UNCHANGED <<clock, loop, timers, queue, cur, entered, wrapped, m_time_point, tasks, wanted>>

Next ==
  \/ Tick \/ CreateOrQuit \/ Finish \/ Return \/ Process \/ HandlerOver
  \/ \E t \in Tasks : Defer(t) \/ DeferFails(t) \/ DeferToCurrent(t) \/ Dispose(t)
  \/ \E h \in timers : Fire(h)

Spec == Init /\ [][Next]_vars

-----------------------------------------------------------------------------
TypeOK ==
  /\ clock \in Times /\ loop \in Loops /\ kind \in [Tasks -> Kinds]
  /\ timers \subseteq [task : Tasks, at : Times]
  /\ queue \in Seq(Tasks) /\ owned \in BOOLEAN
  /\ pc \in {"idle", "run", "leave"} /\ cur \in Tasks \union {NoTask} /\ entered \in Times
  /\ wrapped \subseteq Tasks /\ m_time_point \in [Tasks -> Times]
  /\ disposed \subseteq Tasks /\ status \in [Tasks -> {"new", "scheduled", "over"}]
  /\ runs \in [Tasks -> 0..MaxRuns] /\ wanted \in [Tasks -> Nat]

\* What Qt may be early by: less than a millisecond, and as much for every call of
\* a task that counts its delays from the call before.
Early(t) ==
  IF loop = "strand" THEN 0
  ELSE IF kind[t] = "delay_from_this_timepoint" THEN (Milli - 1) * runs[t] ELSE Milli - 1

\* No task is called before the time it wanted, and one that counts its delays
\* from its time point keeps to it through all its calls, but for what Qt cuts off.
NeverEarly == pc = "run" => clock + Early(cur) >= wanted[cur]

\* What a handler schedules on current_thread goes to the loop when the handler
\* is over, whatever is disposed meanwhile: a task is in one place, and when the
\* loop is idle that place is the loop.
InOnePlace ==
  \A t \in Tasks :
    Cardinality({h \in timers : h.task = t})
      + Cardinality({k \in DOMAIN queue : queue[k] = t}) + (IF cur = t THEN 1 ELSE 0)
    = IF status[t] = "scheduled" THEN 1 ELSE 0
=============================================================================
