------------------------------ MODULE CurrentThread ------------------------------
(***************************************************************************)
(* rpp::schedulers::current_thread on one thread: the first schedule() of a  *)
(* thread without a queue makes one and runs its task in place for as long   *)
(* as nothing else is queued ("direct"); then, and when an own_queue_guard   *)
(* ends, drain_queue() takes the queue from the front ("drain").  What a     *)
(* running task schedules goes to the queue.  rpp::schedulers::immediate is  *)
(* the direct loop without a queue.  Other threads only dispose of tasks.    *)
(*                                                                         *)
(* s_last_now_time only saves sleep_until a look at a clock that has passed  *)
(* the time point already, and is left out.                                 *)
(***************************************************************************)
EXTENDS Integers, Sequences, SequencesExt, FiniteSetsExt

CONSTANTS Tasks, NoTask,
          MaxTime,  \* bound: the last instant of the clock and of any time point
          MaxRuns,  \* bound: calls of one task
          MaxDelay  \* bound: delays a task returns

Times == 0..MaxTime
Delays == 0..MaxDelay
Kinds == {"delay_from_now", "delay_from_this_timepoint", "delay_to"}

VARIABLES
  clock,
  kind,     \* per task: what its function returns
  owned,    \* get_queue() is not null
  queue,    \* schedulables in the order of the list; nr: the order they came in
  pc, path, \* of the thread; path: "direct", "immediate" or "drain"
  cur,      \* the task that runs or is slept for, and its time point
  due,      \* until when the thread sleeps
  disposed, \* tasks whose handler is disposed
  status,   \* per task: "new", "scheduled" or "over"
  runs,     \* per task
  wanted    \* history, per task: the time it was to be called at

thread == <<pc, path, cur, due>>
vars == <<clock, kind, owned, queue, thread, disposed, status, runs, wanted>>

Schedulable(t, tp, nr) == [task |-> t, tp |-> tp, nr |-> nr]
Nothing == Schedulable(NoTask, 0, 0)


Init ==
  /\ clock = 0 /\ kind \in [Tasks -> Kinds]
  /\ owned = FALSE /\ queue = <<>>
  /\ pc = "idle" /\ path = "direct" /\ cur = Nothing /\ due = 0
  /\ disposed = {} /\ status = [t \in Tasks |-> "new"]
  /\ runs = [t \in Tasks |-> 0] /\ wanted = [t \in Tasks |-> 0]

-----------------------------------------------------------------------------
\* nr only tells who came first.
Newest == Max({0} \union {queue[k].nr : k \in DOMAIN queue})

\* Mutant: a newcomer goes before the ones with the same time point.
EmplaceBeforeEqual(t, tp) ==
  queue' = InsertAt(queue, Cardinality({k \in DOMAIN queue : queue[k].tp < tp}) + 1,
                    Schedulable(t, tp, Newest + 1))

\* emplace_impl: behind all that are not later.
Emplace(t, tp) ==
  queue' = InsertAt(queue, Cardinality({k \in DOMAIN queue : queue[k].tp <= tp}) + 1,
                    Schedulable(t, tp, Newest + 1))

\* Some thread disposes of the handler of a task.
Dispose(t) ==
  /\ status[t] = "scheduled" /\ t \notin disposed
  /\ disposed' = disposed \union {t}
  /\ UNCHANGED <<clock, kind, owned, queue, thread, status, runs, wanted>>

Tick ==
  /\ clock < MaxTime
  /\ clock' = clock + 1
  /\ UNCHANGED <<kind, owned, queue, thread, disposed, status, runs, wanted>>

\* own_queue_guard, of a subscription: what is scheduled until it ends waits.
EnterGuard ==
  /\ pc = "idle"
  /\ owned' = TRUE /\ pc' = "guard"
  /\ UNCHANGED <<clock, kind, queue, path, cur, due, disposed, status, runs, wanted>>

LeaveGuard ==
  /\ pc = "guard"
  /\ pc' = "drain"
  /\ UNCHANGED <<clock, kind, owned, queue, path, cur, due, disposed, status, runs, wanted>>

\* defer_to or defer_for on a thread with a queue; the time of defer_to may be
\* past.  With a handler that is disposed already neither does anything.
Schedule(t) ==
  /\ pc \in {"guard", "run"} /\ owned
  /\ status[t] = "new"
  /\ \E tp \in Times : Emplace(t, tp) /\ wanted' = [wanted EXCEPT ![t] = tp]
  /\ status' = [status EXCEPT ![t] = "scheduled"]
  /\ UNCHANGED <<clock, kind, owned, thread, disposed, runs>>

\* defer_for on a thread without one, of current_thread or of immediate.
ScheduleFirst(t) ==
  /\ pc = "idle" /\ status[t] = "new"
  /\ path' \in {"direct", "immediate"} /\ owned' = (path' = "direct")
  /\ \E tp \in clock..MaxTime :
       /\ cur' = Schedulable(t, tp, 0) /\ due' = tp
       /\ wanted' = [wanted EXCEPT ![t] = tp]
  /\ pc' = "look"
  /\ status' = [status EXCEPT ![t] = "scheduled"]
  /\ UNCHANGED <<clock, kind, queue, disposed, runs>>

-----------------------------------------------------------------------------
(* The loop of immediate_scheduling_while_condition                         *)

\* The loop is over: the thread drains what has been queued meanwhile.
LoopOver ==
  /\ pc' = IF path = "immediate" THEN "idle" ELSE "drain"
  /\ cur' = Nothing /\ due' = 0 /\ UNCHANGED path

Look ==
  /\ pc = "look"
  /\ \/ /\ queue # <<>> /\ cur.task \notin disposed
        /\ Emplace(cur.task, cur.tp) /\ LoopOver
     \/ /\ cur.task \in disposed
        /\ LoopOver /\ UNCHANGED queue
     \/ /\ queue = <<>> /\ cur.task \notin disposed
        /\ pc' = IF due > clock THEN "asleep" ELSE "call"
        /\ UNCHANGED <<path, cur, due, queue>>
  /\ UNCHANGED <<clock, kind, owned, disposed, status, runs, wanted>>

\* Only the direct loop looks again whether the handler is disposed.
Wake ==
  /\ pc = "asleep" /\ clock >= due
  /\ IF path # "drain" /\ cur.task \in disposed
     THEN LoopOver
     ELSE pc' = "call" /\ UNCHANGED <<path, cur, due>>
  /\ UNCHANGED <<clock, kind, owned, queue, disposed, status, runs, wanted>>

Call ==
  /\ pc = "call"
  /\ pc' = "run"
  /\ runs' = [runs EXCEPT ![cur.task] = @ + 1]
  /\ UNCHANGED <<clock, kind, owned, queue, path, cur, due, disposed, status, wanted>>

\* The task returns nothing, or throws and its handler gets on_error.
Finish ==
  /\ pc = "run"
  /\ status' = [status EXCEPT ![cur.task] = "over"]
  /\ wanted' = [wanted EXCEPT ![cur.task] = 0]
  /\ IF path = "drain"
     THEN pc' = "drain" /\ cur' = Nothing /\ due' = 0 /\ UNCHANGED path
     ELSE LoopOver
  /\ UNCHANGED <<clock, kind, owned, queue, disposed, runs>>

\* When a task of this kind is to run after it returned d, a time of its
\* choice if it is a delay_to, and its last time was from.
Again(k, d, from) ==
  CASE k = "delay_from_now" -> clock + d
    [] k = "delay_from_this_timepoint" -> from + d
    [] k = "delay_to" -> d

\* It wants to run again.  The direct loop keeps the new time point; drain_queue
\* hands it to the queue or, if nothing else is queued, only sleeps for it.
Return ==
  /\ pc = "run" /\ runs[cur.task] < MaxRuns
  /\ \E d \in IF kind[cur.task] = "delay_to" THEN Times ELSE Delays :
       LET t == cur.task
           next == Again(kind[t], d, cur.tp)
           promised == Again(kind[t], d, wanted[t])
       IN
         /\ promised <= MaxTime
         /\ wanted' = [wanted EXCEPT ![t] = promised]
         /\ due' = next
         /\ cur' = IF path = "drain" THEN cur ELSE [cur EXCEPT !.tp = next]
  /\ pc' = IF path = "drain" THEN "again" ELSE "look"
  /\ UNCHANGED <<clock, kind, owned, queue, path, disposed, status, runs>>

DrainAgain ==
  /\ pc = "again"
  /\ \/ cur.task \in disposed /\ pc' = "drain" /\ cur' = Nothing /\ due' = 0 /\ UNCHANGED queue
     \/ /\ cur.task \notin disposed /\ queue = <<>>
        /\ pc' = IF due > clock THEN "asleep" ELSE "call"
        /\ UNCHANGED <<cur, due, queue>>
     \/ /\ cur.task \notin disposed /\ queue # <<>>
        /\ Emplace(cur.task, due)
        /\ pc' = "drain" /\ cur' = Nothing /\ due' = 0
  /\ UNCHANGED <<clock, kind, owned, path, disposed, status, runs, wanted>>

-----------------------------------------------------------------------------
(* drain_queue()                                                            *)

\* Mutant: drain_queue() gives up at a schedulable that is disposed.
DrainGivesUp ==
  /\ pc = "drain" /\ queue # <<>>
  /\ queue' = Tail(queue)
  /\ path' = "drain"
  /\ IF Head(queue).task \in disposed
     THEN pc' = "idle" /\ owned' = FALSE /\ UNCHANGED <<cur, due>>
     ELSE /\ cur' = Head(queue) /\ due' = Head(queue).tp
          /\ pc' = IF Head(queue).tp > clock THEN "asleep" ELSE "call"
          /\ UNCHANGED owned
  /\ UNCHANGED <<clock, kind, disposed, status, runs, wanted>>

Pop ==
  /\ pc = "drain" /\ queue # <<>>
  /\ queue' = Tail(queue)
  /\ path' = "drain"
  /\ IF Head(queue).task \in disposed
     THEN UNCHANGED <<pc, cur, due>>
     ELSE /\ cur' = Head(queue) /\ due' = Head(queue).tp
          /\ pc' = IF Head(queue).tp > clock THEN "asleep" ELSE "call"
  /\ UNCHANGED <<clock, kind, owned, disposed, status, runs, wanted>>

DrainOver ==
  /\ pc = "drain" /\ queue = <<>>
  /\ owned' = FALSE /\ pc' = "idle"
  /\ UNCHANGED <<clock, kind, queue, path, cur, due, disposed, status, runs, wanted>>

\* What the thread has to do once it has something to run.
Thread == Look \/ Wake \/ Call \/ Finish \/ Return \/ DrainAgain \/ Pop \/ DrainOver \/ LeaveGuard

Next ==
  \/ Thread \/ Tick \/ EnterGuard
  \/ \E t \in Tasks : Schedule(t) \/ ScheduleFirst(t) \/ Dispose(t)

Spec == Init /\ [][Next]_vars

-----------------------------------------------------------------------------
TypeOK ==
  /\ clock \in Times /\ kind \in [Tasks -> Kinds] /\ owned \in BOOLEAN
  /\ queue \in Seq([task : Tasks, tp : Times, nr : Nat])
  /\ pc \in {"idle", "guard", "look", "asleep", "call", "run", "again", "drain"}
  /\ path \in {"direct", "immediate", "drain"}
  /\ cur \in [task : Tasks \union {NoTask}, tp : Times, nr : Nat] /\ due \in Times
  /\ disposed \subseteq Tasks /\ status \in [Tasks -> {"new", "scheduled", "over"}]
  /\ runs \in [Tasks -> 0..MaxRuns] /\ wanted \in [Tasks -> Times]

\* No task is called before the time it was scheduled for or asked for when it
\* returned, whichever of the three loops sleeps for it.  What drain_queue does
\* with a delay_from_this_timepoint is KeepsPeriod's.
NeverEarly ==
  pc = "run" /\ ~(path = "drain" /\ kind[cur.task] = "delay_from_this_timepoint") =>
    clock >= wanted[cur.task]

\* interval: "emits a sequential integer every specified time interval": the n-th
\* call of a task that returns delay_from_this_timepoint comes n delays later.
KeepsPeriod ==
  pc = "run" /\ kind[cur.task] = "delay_from_this_timepoint" => clock >= wanted[cur.task]

\* What the thread is about to call, on whichever path, is the earliest and, of
\* the same time point, came first: nothing is called past what is queued.
RunsInOrder ==
  pc \in {"asleep", "call"} =>
    \A k \in DOMAIN queue :
      queue[k].tp > cur.tp \/ (queue[k].tp = cur.tp /\ queue[k].nr > cur.nr)

\* The queue of a thread is gone only when everything that was scheduled on it
\* has run to its end or was disposed of.
NothingLeftBehind ==
  ~owned /\ pc = "idle" =>
    queue = <<>> /\ \A t \in Tasks : status[t] = "scheduled" => t \in disposed
=============================================================================
