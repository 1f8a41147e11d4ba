------------------------------- MODULE Concat --------------------------------
(***************************************************************************)
(* rpp::operators::concat: one inner observable at a time.  The others wait *)
(* in m_queue; m_stage says who may take one from it.  The thread that does *)
(* (the base's, or that of an inner observable that just completed) drains  *)
(* the queue in a loop as long as what it subscribes to completes at once.  *)
(*                                                                         *)
(* m_stage is stored to with memory_order::relaxed.  A processor may hold   *)
(* such a store back while its thread goes on to read other variables: the  *)
(* store of None takes effect in a step of its own, StageSettles.  Those of *)
(* Draining come before the subscription that makes others look for them.   *)
(***************************************************************************)
EXTENDS CombiningOperator, Sequences

VARIABLES m_stage, m_queue,
          unseen,    \* the source whose store of None the others cannot see yet
          offered    \* history: the inner observables the base has emitted

own == <<m_stage, m_queue, unseen, offered>>
vars == <<common, own>>

Stages == {"None", "Draining", "CompletedWhileDraining", "Processing"}

Init == CommonInit /\ m_stage = "None" /\ m_queue = <<>> /\ unseen = NoOne /\ offered = {}

\* Nothing but the place of one thread changes.
Jump(s, label) ==
  Goto(s, label) /\ UNCHANGED <<mutex, downstream, subscriptions, sources, user>>

\* A thread sees what it has stored itself.
Settled(s) == unseen # s

\* The call is over; an inner observable that drained has nothing more to say.
Over(s) == IF finished[s] = "no" THEN "idle" ELSE "done"

-----------------------------------------------------------------------------
\* The composite disposable of the base, and that of the inner observables,
\* decide whether their observers listen.
Listening(s) == Running(s) /\ IF s = Base THEN Base \notin unsubscribed ELSE ~disposed

InnerNext(i) == i \in Inners /\ Listening(i) /\ EmitNext(i) /\ UNCHANGED own
InnerCompleted(i) ==
  i \in Inners /\ Listening(i) /\ EmitTerminal(i, "completed", "clear") /\ UNCHANGED own
BaseCompleted == Listening(Base) /\ EmitTerminal(Base, "completed", "dispose_base") /\ UNCHANGED own
SourceError(s) == Listening(s) /\ EmitTerminal(s, "error", "error") /\ UNCHANGED own

(* on_next of the base observer                                             *)

BaseNext ==
  /\ Listening(Base)
  /\ \E i \in Inners \ offered :
       arg' = [arg EXCEPT ![Base] = i] /\ offered' = offered \union {i}
  /\ Goto(Base, "offer")
  /\ UNCHANGED <<mutex, downstream, subscriptions, emitted, subscribed, finished, user,
                 m_stage, m_queue, unseen>>

\* Mutant: only a thread that drains keeps the base from subscribing.
OfferTakenTooEarly ==
  /\ pc[Base] = "offer" /\ m_stage # "Draining" /\ Settled(Base)
  /\ m_stage' = "Draining"
  /\ Jump(Base, "handle")
  /\ UNCHANGED <<m_queue, unseen, offered>>

\* compare_exchange_strong(None, Draining)
OfferTaken ==
  /\ pc[Base] = "offer" /\ m_stage = "None" /\ Settled(Base)
  /\ m_stage' = "Draining"
  /\ Jump(Base, "handle")
  /\ UNCHANGED <<m_queue, unseen, offered>>

OfferBusy ==
  /\ pc[Base] = "offer" /\ m_stage # "None" /\ Settled(Base)
  /\ Jump(Base, "push")
  /\ UNCHANGED own

Push ==
  /\ pc[Base] = "push"
  /\ m_queue' = Append(m_queue, arg[Base])
  /\ Jump(Base, "idle")
  /\ UNCHANGED <<m_stage, unseen, offered>>

(* handle_observable_impl, by the base or by an inner observable's thread   *)

\* Mutant: the stage is left as it is.
StoreDrainingMissing(s) ==
  /\ pc[s] = "handle"
  /\ Jump(s, "subscribe")
  /\ UNCHANGED own

StoreDraining(s) ==
  /\ pc[s] = "handle"
  /\ m_stage' = "Draining"
  /\ Jump(s, "subscribe")
  /\ UNCHANGED <<m_queue, unseen, offered>>

Subscribe(s) ==
  /\ pc[s] = "subscribe"
  /\ subscribed' = subscribed \union {arg[s]}
  /\ IF disposed
     THEN unsubscribed' = unsubscribed \union {arg[s]} /\ UNCHANGED held
     ELSE held' = held \union {arg[s]} /\ UNCHANGED unsubscribed
  /\ Goto(s, "subscribed")
  /\ UNCHANGED <<mutex, downstream, disposed, arg, emitted, finished, user, own>>

\* compare_exchange_strong(Draining, Processing); its failure means that the
\* new inner observable has completed already.
Handled(s) ==
  /\ pc[s] = "subscribed"
  /\ IF m_stage = "Draining"
     THEN m_stage' = "Processing" /\ Jump(s, Over(s))
     ELSE UNCHANGED m_stage /\ Jump(s, "drain")
  /\ UNCHANGED <<m_queue, unseen, offered>>

(* drain                                                                    *)

DrainNext(s) ==
  /\ pc[s] = "drain" /\ ~disposed /\ m_queue # <<>>
  /\ arg' = [arg EXCEPT ![s] = Head(m_queue)]
  /\ m_queue' = Tail(m_queue)
  /\ Goto(s, "handle")
  /\ UNCHANGED <<mutex, downstream, subscriptions, emitted, subscribed, finished, user,
                 m_stage, unseen, offered>>

DrainEmpty(s) ==
  /\ pc[s] = "drain" /\ ~disposed /\ m_queue = <<>>
  /\ Jump(s, "store_none")
  /\ UNCHANGED own

DrainDisposed(s) ==
  /\ pc[s] = "drain" /\ disposed
  /\ Jump(s, Over(s))
  /\ UNCHANGED own

\* A relaxed store; no thread but the one that drains may be at it.
StoreNone(s) ==
  /\ pc[s] = "store_none"
  /\ unseen' = s
  /\ Jump(s, "check_base")
  /\ UNCHANGED <<m_stage, m_queue, offered>>

StageSettles ==
  /\ unseen # NoOne
  /\ m_stage' = "None"
  /\ unseen' = NoOne
  /\ UNCHANGED <<common, m_queue, offered>>

CheckBase(s) ==
  /\ pc[s] = "check_base"
  /\ Jump(s, IF Base \in unsubscribed THEN "completed" ELSE Over(s))
  /\ UNCHANGED own

(* on_completed of an inner observer                                        *)

Clear(i) ==
  /\ pc[i] = "clear"
  /\ unsubscribed' = unsubscribed \union (held \intersect Inners)
  /\ held' = held \ Inners
  /\ Goto(i, "leave_stage")
  /\ UNCHANGED <<mutex, downstream, disposed, sources, user, own>>

\* compare_exchange_strong(Draining, CompletedWhileDraining)
LeaveStage(i) ==
  /\ pc[i] = "leave_stage"
  /\ IF m_stage = "Draining"
     THEN m_stage' = "CompletedWhileDraining" /\ Jump(i, "done")
     ELSE UNCHANGED m_stage /\ Jump(i, "drain")
  /\ UNCHANGED <<m_queue, unseen, offered>>

(* on_completed of the base observer                                        *)

DisposeBase ==
  /\ pc[Base] = "dispose_base"
  /\ unsubscribed' = unsubscribed \union {Base}
  /\ held' = held \ {Base}
  /\ Goto(Base, "check_stage")
  /\ UNCHANGED <<mutex, downstream, disposed, sources, user, own>>

CheckStage ==
  /\ pc[Base] = "check_stage" /\ Settled(Base)
  /\ Jump(Base, IF m_stage = "None" THEN "completed" ELSE "done")
  /\ UNCHANGED own

-----------------------------------------------------------------------------
Emit(s) ==
  \/ InnerNext(s) \/ InnerCompleted(s) \/ SourceError(s)
  \/ s = Base /\ (BaseNext \/ BaseCompleted)

Handle(s) ==
  \/ Deliver(s) /\ UNCHANGED own
  \/ s = Base /\ (OfferTaken \/ OfferBusy \/ Push \/ DisposeBase \/ CheckStage)
  \/ s \in Inners /\ (Clear(s) \/ LeaveStage(s))
  \/ StoreDraining(s) \/ Subscribe(s) \/ Handled(s)
  \/ DrainNext(s) \/ DrainEmpty(s) \/ DrainDisposed(s) \/ StoreNone(s) \/ CheckBase(s)

Next ==
  \/ \E s \in Sources : Emit(s) \/ Handle(s)
  \/ User /\ UNCHANGED own
  \/ StageSettles

Spec == Init /\ [][Next]_vars

-----------------------------------------------------------------------------
TypeOK ==
  /\ CommonTypeOK
  /\ pc \in [Sources -> CommonLabels \union
                {"offer", "push", "handle", "subscribe", "subscribed", "drain", "store_none",
                 "check_base", "clear", "leave_stage", "dispose_base", "check_stage"}]
  /\ m_stage \in Stages
  /\ m_queue \in Seq(Inners)
  /\ unseen \in Sources \union {NoOne}
  /\ offered \subseteq Inners

\* "current observable completes THEN next started" (concat.hpp): two inner
\* observables never run at the same time, whichever threads drain the queue, and
\* one thread at a time is between taking the queue over and leaving it.
Drains(s) == pc[s] \in {"handle", "subscribe", "drain", "store_none"}
OneAtATime ==
  /\ \A i, j \in subscribed \ {Base} : finished[i] = "no" /\ finished[j] = "no" => i = j
  /\ \A s, t \in Sources : Drains(s) /\ Drains(t) => s = t

\* assert(current == ConcatStage::Processing) in on_completed of the inner
\* observer: who finds the stage not Draining finds it Processing.
InnerFindsProcessing ==
  \A i \in Inners : pc[i] = "leave_stage" => m_stage \in {"Draining", "Processing"}

\* "When first observable completes, then it subscribes on second observable
\* from emissions and etc": the result is complete only when the base is and
\* every observable it emitted has been subscribed to and has completed.
CompletesLast ==
  observer = "completed" =>
    finished[Base] = "completed" /\ \A i \in offered : finished[i] = "completed"
=============================================================================
