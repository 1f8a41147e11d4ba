-------------------------------- MODULE RunLoop --------------------------------
(***************************************************************************)
(* rpp::schedulers::run_loop: workers put schedulables into the queue of the *)
(* state from any thread, and whoever calls dispatch() or dispatch_if_ready() *)
(* takes one and runs it.  What happens under m_mutex is one step; notify_one *)
(* comes after it.  The state is disposed of when nobody can call it, so     *)
(* is_disposed() is false here.                                            *)
(***************************************************************************)
EXTENDS Integers, Sequences, SequencesExt, FiniteSets

CONSTANTS Tasks, NoTask,
          Dispatchers, \* threads that call dispatch()
          MaxTime,     \* bound: the last instant of the clock and of any time point
          MaxRuns,     \* bound: calls of one task
          MaxDelay     \* bound: delays a task returns

Times == 0..MaxTime
Delays == 0..MaxDelay
Kinds == {"delay_from_now", "delay_from_this_timepoint", "delay_to"}

VARIABLES
  clock,
  kind,     \* per task: what its function returns
  queue,    \* schedulables in the order of the list
  pc,       \* of each dispatcher
  waits,    \* per dispatcher: dispatch() or dispatch_if_ready()
  hand,     \* per dispatcher: the schedulable it popped
  disposed, \* tasks whose handler is disposed
  status,   \* per task: "new", "scheduled" or "over"
  telling,  \* tasks whose scheduler has yet to call notify_one
  runs,     \* per task
  wanted    \* history, per task: the time it was to be called at

dispatchers == <<pc, waits, hand>>
tasks == <<kind, disposed, status, runs, wanted>>
vars == <<clock, queue, telling, dispatchers, tasks>>

Schedulable(t, tp) == [task |-> t, tp |-> tp]
Nothing == Schedulable(NoTask, 0)

Init ==
  /\ clock = 0 /\ kind \in [Tasks -> Kinds]
  /\ queue = <<>>
  /\ pc = [d \in Dispatchers |-> "idle"] /\ waits = [d \in Dispatchers |-> FALSE]
  /\ hand = [d \in Dispatchers |-> Nothing]
  /\ telling = {} /\ disposed = {} /\ status = [t \in Tasks |-> "new"]
  /\ runs = [t \in Tasks |-> 0] /\ wanted = [t \in Tasks |-> 0]

Goto(d, label) == pc' = [pc EXCEPT ![d] = label]

\* cv.notify_one(); others says where the caller itself goes.
NotifyOne(others) ==
  LET asleep == {d \in Dispatchers : pc[d] = "asleep"} IN
  IF asleep = {} THEN pc' = others
  ELSE \E d \in asleep : pc' = [others EXCEPT ![d] = "pop"]

\* schedulables_queue::emplace_impl: behind all that are not later.
Emplace(t, tp) ==
  queue' = InsertAt(queue, Cardinality({k \in DOMAIN queue : queue[k].tp <= tp}) + 1,
                    Schedulable(t, tp))

-----------------------------------------------------------------------------
\* worker_strategy::defer_to, by any thread, also by one that runs a task:
\* emplace_and_notify.
DeferTo(t) ==
  /\ status[t] = "new"
  /\ \E tp \in Times : Emplace(t, tp) /\ wanted' = [wanted EXCEPT ![t] = tp]
  /\ status' = [status EXCEPT ![t] = "scheduled"] /\ telling' = telling \union {t}
  /\ UNCHANGED <<clock, kind, dispatchers, disposed, runs>>

Notify(t) ==
  /\ t \in telling
  /\ telling' = telling \ {t}
  /\ NotifyOne(pc)
  /\ UNCHANGED <<clock, queue, waits, hand, tasks>>

Dispose(t) ==
  /\ status[t] = "scheduled" /\ t \notin disposed
  /\ disposed' = disposed \union {t}
  /\ UNCHANGED <<clock, kind, queue, telling, dispatchers, status, runs, wanted>>

Tick ==
  /\ clock < MaxTime
  /\ clock' = clock + 1
  /\ UNCHANGED <<queue, telling, dispatchers, tasks>>

-----------------------------------------------------------------------------
(* dispatch_impl(wait) on thread d                                          *)

Dispatch(d) ==
  /\ pc[d] = "idle"
  /\ \E w \in BOOLEAN : waits' = [waits EXCEPT ![d] = w]
  /\ Goto(d, "pop")
  /\ UNCHANGED <<clock, queue, telling, hand, tasks>>

Ready == queue # <<>> /\ (Head(queue).task \in disposed \/ Head(queue).tp <= clock)

Sleep(d) ==
  /\ pc[d] = "pop" /\ waits[d] /\ queue = <<>>
  /\ Goto(d, "asleep")
  /\ UNCHANGED <<clock, queue, telling, waits, hand, tasks>>

\* A spurious wake-up: the predicate is looked at again.
SpuriousWake(d) ==
  /\ pc[d] = "asleep"
  /\ Goto(d, "pop")
  /\ UNCHANGED <<clock, queue, telling, waits, hand, tasks>>

\* Mutant: the top is copied, and not exchanged for the next one.
TakeCopy(d) ==
  /\ pc[d] = "pop" /\ Ready
  /\ hand' = [hand EXCEPT ![d] = Head(queue)]
  /\ Goto(d, "call")
  /\ UNCHANGED <<clock, queue, telling, waits, tasks>>

Take(d) ==
  /\ pc[d] = "pop" /\ Ready
  /\ queue' = Tail(queue)
  /\ hand' = [hand EXCEPT ![d] = Head(queue)]
  /\ Goto(d, "call")
  /\ UNCHANGED <<clock, telling, waits, tasks>>

\* dispatch_if_ready() finds nothing ready.  In dispatch() the predicate of
\* wait_for is true as long as the queue is not empty: it looks again at once,
\* which changes nothing.
NothingReady(d) ==
  /\ pc[d] = "pop" /\ ~waits[d] /\ ~Ready
  /\ Goto(d, "idle")
  /\ UNCHANGED <<clock, queue, telling, waits, hand, tasks>>

Drop(d) ==
  /\ status' = [status EXCEPT ![hand[d].task] = "over"]
  /\ wanted' = [wanted EXCEPT ![hand[d].task] = 0]
  /\ hand' = [hand EXCEPT ![d] = Nothing]
  /\ Goto(d, "idle")

CallDisposed(d) ==
  /\ pc[d] = "call" /\ hand[d].task \in disposed
  /\ Drop(d)
  /\ UNCHANGED <<clock, queue, telling, waits, kind, disposed, runs>>

Call(d) ==
  /\ pc[d] = "call" /\ hand[d].task \notin disposed
  /\ runs' = [runs EXCEPT ![hand[d].task] = @ + 1]
  /\ Goto(d, "run")
  /\ UNCHANGED <<clock, queue, telling, waits, hand, kind, disposed, status, wanted>>

\* The task returns nothing, or throws and its handler gets on_error.
Finish(d) ==
  /\ pc[d] = "run"
  /\ Drop(d)
  /\ UNCHANGED <<clock, queue, telling, waits, kind, disposed, runs>>

\* When a task of this kind wants to run after it returned d.
Again(k, d, tp) ==
  CASE k = "delay_from_now" -> clock + d
    [] k = "delay_from_this_timepoint" -> tp + d
    [] k = "delay_to" -> d

\* emplace_and_notify of the schedulable that was in hand
Requeue(d) ==
  /\ pc[d] = "run" /\ runs[hand[d].task] < MaxRuns
  /\ LET t == hand[d].task IN
     \E delay \in IF kind[t] = "delay_to" THEN Times ELSE Delays :
       LET tp == Again(kind[t], delay, hand[d].tp) IN
         /\ tp <= MaxTime
         /\ Emplace(t, tp)
         /\ wanted' = [wanted EXCEPT ![t] =
              IF kind[t] = "delay_from_this_timepoint" THEN @ + delay ELSE tp]
  /\ hand' = [hand EXCEPT ![d] = Nothing]
  /\ Goto(d, "notify")
  /\ UNCHANGED <<clock, telling, waits, kind, disposed, status, runs>>

\* Mutant: a task that runs again is put into the queue, and nobody is told.
NotifyNobody(d) ==
  /\ pc[d] = "notify"
  /\ Goto(d, "idle")
  /\ UNCHANGED <<clock, queue, telling, waits, hand, tasks>>

NotifyRequeued(d) ==
  /\ pc[d] = "notify"
  /\ NotifyOne([pc EXCEPT ![d] = "idle"])
  /\ UNCHANGED <<clock, queue, telling, waits, hand, tasks>>

Thread(d) ==
  \/ Sleep(d) \/ Take(d) \/ NothingReady(d)
  \/ CallDisposed(d) \/ Call(d) \/ Finish(d) \/ Requeue(d) \/ NotifyRequeued(d)

Next ==
  \/ Tick
  \/ \E t \in Tasks : DeferTo(t) \/ Notify(t) \/ Dispose(t)
  \/ \E d \in Dispatchers : Dispatch(d) \/ SpuriousWake(d) \/ Thread(d)

Spec == Init /\ [][Next]_vars

-----------------------------------------------------------------------------
TypeOK ==
  /\ clock \in Times /\ kind \in [Tasks -> Kinds]
  /\ queue \in Seq([task : Tasks, tp : Times])
  /\ pc \in [Dispatchers -> {"idle", "pop", "asleep", "call", "run", "notify"}]
  /\ waits \in [Dispatchers -> BOOLEAN]
  /\ hand \in [Dispatchers -> [task : Tasks \union {NoTask}, tp : Times]]
  /\ disposed \subseteq Tasks /\ status \in [Tasks -> {"new", "scheduled", "over"}]
  /\ telling \subseteq Tasks
  /\ runs \in [Tasks -> 0..MaxRuns] /\ wanted \in [Tasks -> Times]

\* Whichever thread takes it: no task is called before the time it wanted, and
\* one that counts its delays from its time point keeps to it.
OnTime ==
  \A d \in Dispatchers :
    pc[d] = "run" =>
      /\ clock >= wanted[hand[d].task]
      /\ hand[d].tp = wanted[hand[d].task]

\* With several dispatchers and producers no task is lost, doubled, or run by
\* two threads at once: it is in the queue once or in one hand.
InOnePlace ==
  \A t \in Tasks :
    Cardinality({k \in DOMAIN queue : queue[k].task = t})
      + Cardinality({d \in Dispatchers : hand[d].task = t})
    = IF status[t] = "scheduled" THEN 1 ELSE 0

\* notify_one wakes one thread of several and is sent after the unlock: no
\* thread sleeps over a task in the queue unless somebody is on the way to it.
NobodySleepsOverIt ==
  queue # <<>> /\ (\E d \in Dispatchers : pc[d] = "asleep") =>
    \/ \E d \in Dispatchers : pc[d] \in {"pop", "notify"}
    \/ telling # {}
=============================================================================
