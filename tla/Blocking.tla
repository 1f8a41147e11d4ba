------------------------------- MODULE Blocking -------------------------------
(***************************************************************************)
(* as_blocking(), on an observable that runs on the caller's thread, on a    *)
(* thread of its own, or, by subscribe_on(new_thread), on a worker's:        *)
(* subscribe() hands the observer a blocking_disposable, subscribes, and     *)
(* waits on a condition variable until that disposable is disposed of, by    *)
(* the end of the observable or by the subscriber.                           *)
(* Of Downstream, disposed is the disposable's base_disposable::m_disposed.   *)
(***************************************************************************)
EXTENDS Downstream

CONSTANT MaxEmits  \* bound: values of the observable

Caller == 0
Runner == 1      \* the observable's own thread, or the worker's
Subscriber == 2  \* who disposes of the subscription

VARIABLES
  place,        \* where the observable runs: "caller", "own" or "worker"
  installed,    \* the observer has been given the blocking_disposable
  m_completed,
  emitted

own == <<place, installed, m_completed, emitted>>
vars == <<downstream, pc, own>>

Init ==
  /\ DownstreamInit
  /\ place \in {"caller", "own", "worker"}
  /\ installed = FALSE /\ m_completed = FALSE /\ emitted = 0
  /\ pc = [t \in Threads |-> IF t = Caller THEN "set_upstream" ELSE "idle"]

Jump(t, label) == Goto(t, label) /\ UNCHANGED downstream

-----------------------------------------------------------------------------
(* blocking_strategy::subscribe                                             *)

\* dispose() of the blocking_disposable, whose work is done once; and where the
\* thread goes on afterwards.
After(t) == IF t = Caller THEN "check" ELSE "gone"
DisposeBlocking(t) ==
  /\ disposed' = TRUE
  /\ Goto(t, IF disposed THEN After(t) ELSE "complete")
  /\ UNCHANGED <<held, outer, unsubscribed>>

\* A closed observer disposes of what it is given; nobody waits for that yet.
SetUpstream ==
  /\ pc[Caller] = "set_upstream"
  /\ IF closed
     THEN disposed' = TRUE /\ m_completed' = TRUE /\ UNCHANGED installed
     ELSE installed' = TRUE /\ UNCHANGED <<disposed, m_completed>>
  /\ Goto(Caller, "subscribe")
  /\ UNCHANGED <<calls, held, outer, unsubscribed, user, place, emitted>>

\* m_original.subscribe: it emits in here, elsewhere, or once a task has run.
Subscribe ==
  /\ pc[Caller] = "subscribe"
  /\ pc' = IF place = "caller" THEN [pc EXCEPT ![Caller] = "emit"]
           ELSE [pc EXCEPT ![Caller] = "check", ![Runner] = IF place = "own" THEN "emit" ELSE "task"]
  /\ UNCHANGED <<downstream, own>>

\* if (!d.is_disposed()) wait()
Check ==
  /\ pc[Caller] = "check"
  /\ Jump(Caller, IF disposed THEN "returned" ELSE "wait")
  /\ UNCHANGED own

\* cv.wait looks at m_completed and falls asleep under one lock.
Wait ==
  /\ pc[Caller] = "wait"
  /\ Jump(Caller, IF m_completed THEN "returned" ELSE "asleep")
  /\ UNCHANGED own

SpuriousWake == pc[Caller] = "asleep" /\ Jump(Caller, "wait") /\ UNCHANGED own

\* Mutant: nobody is told.
CompleteSilently(t) ==
  /\ pc[t] = "complete"
  /\ m_completed' = TRUE
  /\ Jump(t, After(t))
  /\ UNCHANGED <<place, installed, emitted>>

\* blocking_disposable::base_dispose_impl: first the flag, under the mutex, ...
Complete(t) ==
  /\ pc[t] = "complete"
  /\ m_completed' = TRUE
  /\ Jump(t, "notify")
  /\ UNCHANGED <<place, installed, emitted>>

\* ... then notify_all.
Notify(t) ==
  /\ pc[t] = "notify"
  /\ pc' = [pc EXCEPT ![t] = After(t),
                      ![Caller] = IF t = Caller THEN After(t) ELSE IF @ = "asleep" THEN "wait" ELSE @]
  /\ UNCHANGED <<downstream, own>>

-----------------------------------------------------------------------------
(* The observable, and subscribe_on                                         *)

\* The observer is the task's handler: a worker drops the task of a closed one.
RunTask ==
  /\ pc[Runner] = "task"
  /\ Jump(Runner, IF closed THEN "gone" ELSE "emit")
  /\ UNCHANGED own

EmitNext(t) ==
  /\ pc[t] = "emit" /\ emitted < MaxEmits
  /\ emitted' = emitted + 1
  /\ BeginNext(t, emitted, "in_next", "emit")
  /\ UNCHANGED <<place, installed, m_completed>>

NextLeave(t) == pc[t] = "in_next" /\ EndNext(t, "emit") /\ UNCHANGED own

\* Mutant: the upstreams are disposed of, then the callback is made.
DisposeFirst(t) ==
  /\ pc[t] = "emit" /\ ~closed
  /\ ended' = "completed" /\ inside' = inside \union {t}
  /\ disposed' = TRUE /\ m_completed' = TRUE
  /\ Goto(t, "in_terminal")
  /\ UNCHANGED <<closed, got, held, outer, unsubscribed, user, place, installed, emitted>>

EmitTerminal(t) ==
  /\ pc[t] = "emit"
  /\ \E how \in {"completed", "error"} : BeginTerminal(t, how, "in_terminal", After(t))
  /\ UNCHANGED own

\* An observable that runs in subscribe() may return from it with more to come.
SubscribeReturns ==
  /\ pc[Caller] = "emit"
  /\ Jump(Caller, "check")
  /\ UNCHANGED own

\* The callback returns; the upstreams are disposed of, this one first.
TerminalLeave(t) ==
  /\ pc[t] = "in_terminal"
  /\ inside' = inside \ {t} /\ closed' = TRUE
  /\ DisposeBlocking(t)
  /\ UNCHANGED <<ended, got, user, own>>

-----------------------------------------------------------------------------
(* The subscriber's disposable, with which the observer shares its state.    *)

Leave == UserDispose /\ UNCHANGED own

LeaveUpstream ==
  /\ user = "disposing"
  /\ user' = "gone"
  /\ IF installed
     THEN DisposeBlocking(Subscriber)
     ELSE UNCHANGED links /\ Goto(Subscriber, "gone")
  /\ UNCHANGED <<calls, own>>

-----------------------------------------------------------------------------
Handle(t) == NextLeave(t) \/ TerminalLeave(t) \/ Complete(t) \/ Notify(t)
Call == SetUpstream \/ Subscribe \/ Check \/ Wait

Next ==
  /\ UNCHANGED place
  /\ \/ Call \/ SpuriousWake \/ RunTask \/ SubscribeReturns \/ Leave \/ LeaveUpstream
     \/ \E t \in {Caller, Runner} : EmitNext(t) \/ EmitTerminal(t)
     \/ \E t \in Threads : Handle(t)

Spec == Init /\ [][Next]_vars

-----------------------------------------------------------------------------
TypeOK ==
  /\ DownstreamTypeOK
  /\ place \in {"caller", "own", "worker"} /\ installed \in BOOLEAN /\ m_completed \in BOOLEAN
  /\ emitted \in 0..MaxEmits
  /\ pc \in [Threads -> {"set_upstream", "subscribe", "check", "wait", "asleep", "complete", "notify",
                         "idle", "task", "emit", "in_next", "in_terminal", "gone", "returned"}]

\* "blocks subscribe call till on_completed/on_error happens" (as_blocking.hpp):
\* when it returns, the observer has had its last call and that call has
\* returned, but for a subscriber that has left.
ReturnsAfterTheEnd ==
  pc[Caller] = "returned" => closed /\ (user = "subscribed" => ended # "no" /\ inside = {})

\* Once the end, or the subscriber, has begun to dispose of what it waits for, a
\* call that waits returns, however notification and falling asleep interleave.
Due == disposed /\ pc[Caller] \in {"check", "wait", "asleep"}
=============================================================================
