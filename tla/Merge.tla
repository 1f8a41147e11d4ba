-------------------------------- MODULE Merge --------------------------------
(***************************************************************************)
(* rpp::operators::merge and merge_with: all inner observables run at once; *)
(* the merge_disposable counts the on_completed calls still to come.        *)
(***************************************************************************)
EXTENDS CombiningOperator

VARIABLE m_on_completed_needed

vars == <<common, m_on_completed_needed>>

Init == CommonInit /\ m_on_completed_needed = 1

-----------------------------------------------------------------------------
\* An observer lets a call through while the merge_disposable is not disposed.
Listening(s) == Running(s) /\ ~disposed

InnerNext(i) == i \in Inners /\ Listening(i) /\ EmitNext(i) /\ UNCHANGED m_on_completed_needed

SourceCompleted(s) ==
  Listening(s) /\ EmitTerminal(s, "completed", "decrement") /\ UNCHANGED m_on_completed_needed

SourceError(s) ==
  Listening(s) /\ EmitTerminal(s, "error", "error") /\ UNCHANGED m_on_completed_needed

\* on_next of the base observer: count the inner observable, then subscribe.
BaseNext ==
  /\ Listening(Base)
  /\ \E i \in Inners \ subscribed : arg' = [arg EXCEPT ![Base] = i]
  /\ Goto(Base, "increment")
  /\ UNCHANGED <<mutex, downstream, subscriptions, emitted, subscribed, finished, user,
                 m_on_completed_needed>>

\* Mutant: the inner observable is not counted.
IncrementMissing ==
  /\ pc[Base] = "increment"
  /\ Goto(Base, "subscribe")
  /\ UNCHANGED <<mutex, downstream, subscriptions, sources, user, m_on_completed_needed>>

Increment ==
  /\ pc[Base] = "increment"
  /\ m_on_completed_needed' = m_on_completed_needed + 1
  /\ Goto(Base, "subscribe")
  /\ UNCHANGED <<mutex, downstream, subscriptions, sources, user>>

\* Mutant: the disposable of the inner observable is kept, disposed or not.
SubscribeUnchecked ==
  /\ pc[Base] = "subscribe"
  /\ subscribed' = subscribed \union {arg[Base]}
  /\ held' = held \union {arg[Base]}
  /\ Goto(Base, "idle")
  /\ UNCHANGED <<mutex, downstream, disposed, unsubscribed, arg, emitted, finished, user,
                 m_on_completed_needed>>

\* The inner observable hands its disposable to set_upstream, where a disposed
\* merge_disposable disposes it at once, and starts to run.
Subscribe ==
  /\ pc[Base] = "subscribe"
  /\ subscribed' = subscribed \union {arg[Base]}
  /\ IF disposed
     THEN unsubscribed' = unsubscribed \union {arg[Base]} /\ UNCHANGED held
     ELSE held' = held \union {arg[Base]} /\ UNCHANGED unsubscribed
  /\ Goto(Base, "idle")
  /\ UNCHANGED <<mutex, downstream, disposed, arg, emitted, finished, user, m_on_completed_needed>>

\* Mutant: the value after the fetch_sub is taken for the one before it.
DecrementOffByOne(s) ==
  /\ pc[s] = "decrement"
  /\ m_on_completed_needed' = m_on_completed_needed - 1
  /\ Goto(s, IF m_on_completed_needed = 2 THEN "completed" ELSE "forget")
  /\ UNCHANGED <<mutex, downstream, subscriptions, sources, user>>

\* on_completed, of the base and of the inner observers alike.
Decrement(s) ==
  /\ pc[s] = "decrement"
  /\ m_on_completed_needed' = m_on_completed_needed - 1
  /\ Goto(s, IF m_on_completed_needed = 1 THEN "completed" ELSE "forget")
  /\ UNCHANGED <<mutex, downstream, subscriptions, sources, user>>

\* Not the last one: only its own upstream is removed and disposed.
Forget(s) ==
  /\ pc[s] = "forget"
  /\ held' = held \ {s}
  /\ unsubscribed' = unsubscribed \union {s}
  /\ Goto(s, "done")
  /\ UNCHANGED <<mutex, downstream, disposed, sources, user, m_on_completed_needed>>

-----------------------------------------------------------------------------
\* A source decides freely what it emits, and whether it emits at all.
Emit(s) == InnerNext(s) \/ SourceCompleted(s) \/ SourceError(s) \/ (s = Base /\ BaseNext)

\* A call that has been made runs to its end.
Handle(s) ==
  \/ Deliver(s) /\ UNCHANGED m_on_completed_needed
  \/ s = Base /\ (Increment \/ Subscribe)
  \/ Decrement(s) \/ Forget(s)

Next ==
  \/ \E s \in Sources : Emit(s) \/ Handle(s)
  \/ User /\ UNCHANGED m_on_completed_needed

Spec == Init /\ [][Next]_vars

\* A thread in a call runs when it can; nothing promises it the mutex.
FairSpec == Spec /\ \A s \in Sources : WF_vars(Handle(s))

-----------------------------------------------------------------------------
TypeOK ==
  /\ CommonTypeOK
  /\ pc \in [Sources -> CommonLabels \union {"increment", "subscribe", "decrement", "forget"}]
  /\ m_on_completed_needed \in Nat

\* "Resulting observables completes when ALL observables completes": at the
\* completion of the result the base and every inner observable it emitted
\* have completed, and no value of theirs is still on its way or lost.
CompletesLast ==
  observer = "completed" =>
    /\ pc[Base] \notin {"increment", "subscribe"}
    /\ \A s \in subscribed : finished[s] = "completed"
    /\ \A i \in Inners : delivered[i] = emitted[i]

\* While the result is open no source is unsubscribed but one that completed.
NoEarlyUnsubscribe ==
  observer = "open" => \A s \in unsubscribed : finished[s] = "completed"

\* When the base and all it emitted have completed, so does the result: no
\* interleaving of the decrements leaves the counter above zero.
CompletionPropagates ==
  (pc[Base] = "done" /\ \A s \in subscribed : finished[s] = "completed") ~> observer # "open"
=============================================================================
