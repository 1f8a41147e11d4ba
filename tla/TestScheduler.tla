------------------------------ MODULE TestScheduler ------------------------------
(***************************************************************************)
(* rpp::schedulers::test_scheduler: its time only moves by time_advance(),   *)
(* and both time_advance() and schedule() drain the queue, schedule() of a   *)
(* running task too: draining nests.  Only the recorded vectors are left out. *)
(***************************************************************************)
EXTENDS Integers, Sequences, SequencesExt, FiniteSets

CONSTANTS Tasks, NoTask,
          MaxTime, MaxRuns, MaxDelay  \* bounds as in CurrentThread

Times == 0..MaxTime
Delays == 0..MaxDelay
Kinds == {"delay_from_now", "delay_from_this_timepoint", "delay_to"}

VARIABLES
  clock,    \* s_current_time
  kind,     \* per task: what its function returns
  queue,    \* schedulables in the order of the list
  stack,    \* calls under way: a Drain, or a schedulable that runs
  disposed, status, runs, wanted  \* as in CurrentThread

vars == <<clock, kind, queue, stack, disposed, status, runs, wanted>>

Schedulable(t, tp) == [task |-> t, tp |-> tp]
Drain == Schedulable(NoTask, 0)
Top == stack[Len(stack)]
Draining == stack # <<>> /\ Top = Drain
Running == stack # <<>> /\ Top # Drain
Push(call) == stack' = Append(stack, call)
Pop == stack' = Front(stack)

Init ==
  /\ clock = 0 /\ kind \in [Tasks -> Kinds]
  /\ queue = <<>> /\ stack = <<>>
  /\ disposed = {} /\ status = [t \in Tasks |-> "new"]
  /\ runs = [t \in Tasks |-> 0] /\ wanted = [t \in Tasks |-> 0]

Emplace(t, tp) ==
  queue' = InsertAt(queue, Cardinality({k \in DOMAIN queue : queue[k].tp <= tp}) + 1,
                    Schedulable(t, tp))

-----------------------------------------------------------------------------
\* defer_for: schedule, then drain.
Schedule(t) ==
  /\ ~Draining /\ status[t] = "new"
  /\ \E tp \in clock..MaxTime : Emplace(t, tp) /\ wanted' = [wanted EXCEPT ![t] = tp]
  /\ status' = [status EXCEPT ![t] = "scheduled"]
  /\ Push(Drain)
  /\ UNCHANGED <<clock, kind, disposed, runs>>

\* time_advance, by the test or by a running task.
TimeAdvance ==
  /\ ~Draining /\ clock < MaxTime
  /\ clock' = clock + 1
  /\ Push(Drain)
  /\ UNCHANGED <<kind, queue, disposed, status, runs, wanted>>

Dispose(t) ==
  /\ ~Draining /\ status[t] = "scheduled" /\ t \notin disposed
  /\ disposed' = disposed \union {t}
  /\ UNCHANGED <<clock, kind, queue, stack, status, runs, wanted>>

-----------------------------------------------------------------------------
Due == queue # <<>> /\ Head(queue).tp <= clock

DrainOver ==
  /\ Draining /\ ~Due
  /\ Pop
  /\ UNCHANGED <<clock, kind, queue, disposed, status, runs, wanted>>

DrainDisposed ==
  /\ Draining /\ Due /\ Head(queue).task \in disposed
  /\ queue' = Tail(queue)
  /\ status' = [status EXCEPT ![Head(queue).task] = "over"]
  /\ UNCHANGED <<clock, kind, stack, disposed, runs, wanted>>

Call ==
  /\ Draining /\ Due /\ Head(queue).task \notin disposed
  /\ queue' = Tail(queue)
  /\ Push(Head(queue))
  /\ runs' = [runs EXCEPT ![Head(queue).task] = @ + 1]
  /\ UNCHANGED <<clock, kind, disposed, status, wanted>>

Finish ==
  /\ Running
  /\ Pop
  /\ status' = [status EXCEPT ![Top.task] = "over"]
  /\ wanted' = [wanted EXCEPT ![Top.task] = 0]
  /\ UNCHANGED <<clock, kind, queue, disposed, runs>>

\* When a task of this kind wants to run after it returned d; never in the past.
Again(k, d, tp) ==
  LET at == CASE k = "delay_from_now" -> clock + d
              [] k = "delay_from_this_timepoint" -> tp + d
              [] k = "delay_to" -> d
  IN IF at < clock THEN clock ELSE at

Return ==
  /\ Running /\ runs[Top.task] < MaxRuns
  /\ \E d \in IF kind[Top.task] = "delay_to" THEN Times ELSE Delays :
       LET t == Top.task
           at == Again(kind[t], d, Top.tp)
       IN
         /\ at <= MaxTime
         /\ wanted' = [wanted EXCEPT ![t] = at]
         /\ IF t \in disposed
            THEN status' = [status EXCEPT ![t] = "over"] /\ UNCHANGED queue
            ELSE Emplace(t, at) /\ UNCHANGED status
  /\ Pop
  /\ UNCHANGED <<clock, kind, disposed, runs>>

Next ==
  \/ TimeAdvance \/ DrainOver \/ DrainDisposed \/ Call \/ Finish \/ Return
  \/ \E t \in Tasks : Schedule(t) \/ Dispose(t)

Spec == Init /\ [][Next]_vars

-----------------------------------------------------------------------------
Schedulables == [task : Tasks, tp : Times]

TypeOK ==
  /\ clock \in Times /\ kind \in [Tasks -> Kinds]
  /\ queue \in Seq(Schedulables) /\ stack \in Seq(Schedulables \union {Drain})
  /\ disposed \subseteq Tasks /\ status \in [Tasks -> {"new", "scheduled", "over"}]
  /\ runs \in [Tasks -> 0..MaxRuns] /\ wanted \in [Tasks -> Times]

NeverEarly == \A i \in DOMAIN stack : clock >= stack[i].tp

\* A test that has called schedule() or time_advance() sees the outcome: when
\* the call returns nothing that is due is left, and a task is nowhere twice,
\* for all the nested draining.
NothingDueLeft == stack = <<>> => ~Due

InOnePlace ==
  \A t \in Tasks :
    Cardinality({k \in DOMAIN queue : queue[k].task = t})
      + Cardinality({i \in DOMAIN stack : stack[i].task = t})
    = IF status[t] = "scheduled" THEN 1 ELSE 0
=============================================================================
