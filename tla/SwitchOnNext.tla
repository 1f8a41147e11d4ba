----------------------------- MODULE SwitchOnNext -----------------------------
(***************************************************************************)
(* rpp::operators::switch_on_next: an inner observable runs until the base  *)
(* emits the next one.  Each inner observer has a composite_disposable of   *)
(* its own, and the state keeps that of the latest under a mutex of its     *)
(* own (m_inner_child_disposable).  An inner observable is in unsubscribed  *)
(* when this disposable is disposed.                                        *)
(***************************************************************************)
EXTENDS CombiningOperator

VARIABLE current  \* the inner observable m_inner_child_disposable stands for

vars == <<common, current>>

Init == CommonInit /\ current = NoOne

\* Nothing but the place of one thread changes.
Jump(s, label) ==
  Goto(s, label) /\ UNCHANGED <<mutex, downstream, subscriptions, sources, user, current>>

\* wrapper::is_disposed() of a disposable that is empty at first
Gone(i) == i = NoOne \/ i \in unsubscribed

-----------------------------------------------------------------------------
Listening(s) == Running(s) /\ s \notin unsubscribed

InnerNext(i) == i \in Inners /\ Listening(i) /\ EmitNext(i) /\ UNCHANGED current

SourceCompleted(s) ==
  Listening(s) /\ EmitTerminal(s, "completed", "dispose_own") /\ UNCHANGED current

SourceError(s) ==
  Listening(s) /\ EmitTerminal(s, "error", "error") /\ UNCHANGED current

\* on_next of the base observer
BaseNext ==
  /\ Listening(Base)
  /\ \E i \in Inners \ subscribed : arg' = [arg EXCEPT ![Base] = i]
  /\ Goto(Base, "switch")
  /\ UNCHANGED <<mutex, downstream, subscriptions, emitted, subscribed, finished, user, current>>

\* Mutant: the latest inner observable is replaced without being disposed.
SwitchKeepsPrevious ==
  /\ pc[Base] = "switch"
  /\ IF disposed
     THEN UNCHANGED <<held, current>> /\ Goto(Base, "idle")
     ELSE /\ held' = held \union {arg[Base]}
          /\ current' = arg[Base]
          /\ Goto(Base, "subscribe")
  /\ UNCHANGED <<mutex, downstream, disposed, unsubscribed, sources, user>>

\* Mutant: the latest inner observable is replaced although the state is disposed.
SwitchUnchecked ==
  /\ pc[Base] = "switch"
  /\ unsubscribed' = unsubscribed \union ({current} \ {NoOne})
  /\ held' = (held \ {current}) \union {arg[Base]}
  /\ current' = arg[Base]
  /\ Goto(Base, "subscribe")
  /\ UNCHANGED <<mutex, downstream, disposed, sources, user>>

\* Under the mutex of m_inner_child_disposable the latest inner observable is
\* disposed and, unless the state is, replaced.
Switch ==
  /\ pc[Base] = "switch"
  /\ unsubscribed' = unsubscribed \union ({current} \ {NoOne})
  /\ IF disposed
     THEN held' = held \ {current} /\ Goto(Base, "idle") /\ UNCHANGED current
     ELSE /\ held' = (held \ {current}) \union {arg[Base]}
          /\ current' = arg[Base]
          /\ Goto(Base, "subscribe")
  /\ UNCHANGED <<mutex, downstream, disposed, sources, user>>

\* set_upstream adds to the inner observer's own disposable, which disposes
\* the newcomer when it is disposed already.
Subscribe ==
  /\ pc[Base] = "subscribe"
  /\ subscribed' = subscribed \union {arg[Base]}
  /\ Goto(Base, "idle")
  /\ UNCHANGED <<mutex, downstream, subscriptions, arg, emitted, finished, user, current>>

\* Mutant: the other side is looked at before one's own disposable is disposed.
CheckFirst(s) ==
  /\ pc[s] = "dispose_own"
  /\ Goto(s, "check_other")
  /\ UNCHANGED <<mutex, downstream, subscriptions, sources, user, current>>

\* on_completed, of the base and of the inner observers alike: first dispose
\* what is one's own, then look whether the other side is disposed.
DisposeOwn(s) ==
  /\ pc[s] = "dispose_own"
  /\ unsubscribed' = unsubscribed \union {s}
  /\ held' = held \ {s}
  /\ Goto(s, "check_other")
  /\ UNCHANGED <<mutex, downstream, disposed, sources, user, current>>

CheckOther(s) ==
  /\ pc[s] = "check_other"
  /\ Jump(s, IF Gone(IF s = Base THEN current ELSE Base) THEN "completed" ELSE "done")

-----------------------------------------------------------------------------
(* dispose() of the state, by a source that ended the result or by the        *)
(* subscriber: whoever sets the flag disposes the base, then, under the       *)
(* mutex, what m_inner_child_disposable stands for by then.                   *)

SetDisposed == disposed' = TRUE /\ UNCHANGED <<held, unsubscribed>>

DisposeBaseChild ==
  /\ unsubscribed' = unsubscribed \union {Base}
  /\ held' = held \ {Base}
  /\ UNCHANGED disposed

DisposeInnerChild ==
  /\ unsubscribed' = unsubscribed \union ({current} \ {NoOne})
  /\ held' = held \ {current}
  /\ UNCHANGED disposed

\* The terminal callback of the downstream observer has returned.
TerminalReturn(s) ==
  /\ pc[s] = "in_terminal"
  /\ inside' = inside \ {s}
  /\ SetDisposed
  /\ Goto(s, IF disposed THEN "ignored" ELSE "dispose_base")
  /\ UNCHANGED <<mutex, observer, delivered, sources, user, current>>

DisposeBase(s) ==
  /\ pc[s] = "dispose_base" /\ DisposeBaseChild /\ Goto(s, "dispose_inner")
  /\ UNCHANGED <<mutex, downstream, sources, user, current>>

\* What is left to do is to release the observer's mutex.
DisposeInner(s) ==
  /\ pc[s] = "dispose_inner" /\ DisposeInnerChild /\ Goto(s, "ignored")
  /\ UNCHANGED <<mutex, downstream, sources, user, current>>

UserSetsDisposed ==
  /\ user = "disposing" /\ SetDisposed
  /\ user' = IF disposed THEN "gone" ELSE "dispose_base"

UserDisposesBase == user = "dispose_base" /\ DisposeBaseChild /\ user' = "dispose_inner"
UserDisposesInner == user = "dispose_inner" /\ DisposeInnerChild /\ user' = "gone"

Leave ==
  \/ UserDispose /\ UNCHANGED current
  \/ /\ UserSetsDisposed \/ UserDisposesBase \/ UserDisposesInner
     /\ UNCHANGED <<mutex, downstream, sources, pc, current>>

-----------------------------------------------------------------------------
Emit(s) == InnerNext(s) \/ SourceCompleted(s) \/ SourceError(s) \/ (s = Base /\ BaseNext)

Handle(s) ==
  \/ DeliverUnderMutex(s) /\ UNCHANGED current
  \/ TerminalReturn(s) \/ DisposeBase(s) \/ DisposeInner(s)
  \/ s = Base /\ (Switch \/ Subscribe)
  \/ DisposeOwn(s) \/ CheckOther(s)

Next ==
  \/ \E s \in Sources : Emit(s) \/ Handle(s)
  \/ Leave

Spec == Init /\ [][Next]_vars

\* A thread in a call runs when it can; nothing promises it the mutex.
FairSpec == Spec /\ \A s \in Sources : WF_vars(Handle(s))

-----------------------------------------------------------------------------
TypeOK ==
  /\ CommonTypeOK
  /\ pc \in [Sources -> CommonLabels \union {"switch", "subscribe", "dispose_own", "check_other",
                                             "dispose_base", "dispose_inner"}]
  /\ current \in Inners \union {NoOne}

\* Of all the inner observables the base has emitted only the latest can be
\* live: the one before is disposed in the step that replaces it, and a
\* disposable that the end of the result would miss is never installed.
OneLive ==
  /\ subscribed \ (unsubscribed \union {Base}) \subseteq {current}
  /\ held \ {Base} \subseteq {current}

\* Somebody has set the flag and not yet disposed everything.
Disposing ==
  \/ user \in {"dispose_base", "dispose_inner"}
  \/ \E s \in Sources : pc[s] \in {"dispose_base", "dispose_inner"}

\* When the state has been disposed, nothing that was ever subscribed to is left, also
\* what the base switched to between the flag and the disposal of the latest.
NothingStays == disposed /\ ~Disposing => held = {} /\ subscribed \subseteq unsubscribed

\* When the base and its latest inner observable have completed, and both
\* calls have returned, the result has ended: of two on_completed that
\* overlap at least one sees the other's disposable disposed.
CompletionPropagates ==
  (/\ pc[Base] = "done" /\ finished[Base] = "completed"
   /\ current # NoOne => pc[current] = "done" /\ finished[current] = "completed")
    ~> observer # "open"
=============================================================================
