------------------------------ MODULE MergeProofs ------------------------------
(***************************************************************************)
(* TLAPS proofs about Merge, about SwitchOnNext with the variables MCMerge  *)
(* gives it, and about Concat, for any finite set of inner observables and  *)
(* any number of values.                                                    *)
(***************************************************************************)
EXTENDS MCMerge, MCConcat, Sequences, FiniteSetTheorems, TLAPS

-----------------------------------------------------------------------------
(* The mutex of the operators that are built on CombiningOperator makes the   *)
(* calls of the downstream observer serial.  The invariant is kept by a step *)
(* that leaves the mutex alone, by each shared action, and it makes each of  *)
(* them a step of RxContract or a stutter.                                   *)

\* Places of a source while it holds the mutex of the downstream observer.
Locked == {"in_next", "in_terminal", "ignored"}

\* The mutex names the source that is in the critical section, and nobody else
\* is in a callback; a call that is ignored is not one.
LockInv ==
  /\ mutex \in Sources \union {NoOne}
  /\ inside \subseteq {mutex} /\ NoOne \notin inside
  /\ \A s \in Sources : pc[s] \in Locked => mutex = s
  /\ \A s \in inside : pc[s] # "ignored"

\* No more is delivered than was emitted, the value on its way not included.
FlowBound ==
  \A i \in Inners : delivered[i] + (IF pc[i] = "next" THEN 1 ELSE 0) <= emitted[i]

\* What the downstream observer is called with, seen as RxContract sees it.
ContractStep ==
  Contract!Next \/ UNCHANGED <<inside, observer \in {"completed", "error"}>>

LEMMA LockInit == CommonInit => LockInv /\ Contract!Init
<1> SUFFICES ASSUME CommonInit PROVE LockInv /\ Contract!Init
  OBVIOUS
<1>1. LockInv
  BY DEF CommonInit, LockInv, Locked
<1>2. Contract!Init
  BY DEF CommonInit, Contract!Init
<1> QED
  BY <1>1, <1>2

\* A step of an operator's own: one source moves outside the critical section.
LEMMA LockOwnStep ==
  ASSUME NEW Labels, pc \in [Sources -> Labels], LockInv, NEW s \in Sources, NEW label, label \notin Locked,
         pc' = [pc EXCEPT ![s] = label], UNCHANGED <<mutex, observer, inside>>
  PROVE  LockInv' /\ ContractStep
<1>1. LockInv'
  BY DEF LockInv, Locked
<1>2. ContractStep
  BY DEF ContractStep
<1> QED
  BY <1>1, <1>2

LEMMA LockEmitNext ==
  ASSUME NEW Labels, pc \in [Sources -> Labels], LockInv, NEW i \in Inners, EmitNext(i)
  PROVE  LockInv' /\ ContractStep
<1>1. "next" \notin Locked
  BY DEF Locked
<1> QED
  BY <1>1, LockOwnStep DEF EmitNext, Goto, Sources, downstream

LEMMA LockNextEnter ==
  ASSUME NEW Labels, pc \in [Sources -> Labels], LockInv, NEW i \in Inners, NextEnter(i)
  PROVE  LockInv' /\ ContractStep
<1>1. inside = {}
  BY DEF LockInv, NextEnter
<1>2. LockInv'
  BY <1>1, SourcesAssumption DEF LockInv, NextEnter, Goto, Locked, Sources
<1>3. ContractStep
  BY <1>1 DEF NextEnter, ContractStep, Contract!Next, Contract!OnNext, Sources
<1> QED
  BY <1>2, <1>3

LEMMA LockNextLeave ==
  ASSUME NEW Labels, pc \in [Sources -> Labels], LockInv, NEW i \in Inners, NextLeave(i)
  PROVE  LockInv' /\ ContractStep
<1>1. mutex = i
  BY DEF LockInv, NextLeave, Locked, Sources
<1>2. LockInv'
  BY <1>1, SourcesAssumption DEF LockInv, NextLeave, Goto, Locked, Sources
<1>3. ContractStep
  BY <1>1 DEF LockInv, NextLeave, ContractStep, Contract!Next, Contract!Return, Sources
<1> QED
  BY <1>2, <1>3

LEMMA LockTerminalEnter ==
  ASSUME NEW Labels, pc \in [Sources -> Labels], LockInv, NEW s \in Sources, TerminalEnter(s)
  PROVE  LockInv' /\ ContractStep
<1>1. inside = {}
  BY DEF LockInv, TerminalEnter
<1>2. LockInv'
  BY <1>1, SourcesAssumption DEF LockInv, TerminalEnter, Goto, Locked, Sources
<1>3. ContractStep
  BY <1>1 DEF TerminalEnter, ContractStep, Contract!Next, Contract!OnTerminal
<1> QED
  BY <1>2, <1>3

LEMMA LockTerminalLeave ==
  ASSUME NEW Labels, pc \in [Sources -> Labels], LockInv, NEW s \in Sources, TerminalLeave(s)
  PROVE  LockInv' /\ ContractStep
<1>1. mutex = s
  BY DEF LockInv, TerminalLeave, Locked
<1>2. LockInv'
  BY <1>1, SourcesAssumption DEF LockInv, TerminalLeave, Goto, Locked, Sources
<1>3. ContractStep
  BY <1>1 DEF LockInv, TerminalLeave, ContractStep, Contract!Next, Contract!Return
<1> QED
  BY <1>2, <1>3

LEMMA LockTerminalIgnored ==
  ASSUME NEW Labels, pc \in [Sources -> Labels], LockInv, NEW s \in Sources, TerminalIgnored(s)
  PROVE  LockInv' /\ ContractStep
<1>1. mutex = s
  BY DEF LockInv, TerminalIgnored, Locked
<1>2. LockInv'
  BY <1>1, SourcesAssumption
  DEF LockInv, TerminalIgnored, Goto, Locked, Sources, downstream
<1>3. ContractStep
  BY DEF TerminalIgnored, ContractStep, downstream
<1> QED
  BY <1>2, <1>3

LEMMA LockUser ==
  ASSUME NEW Labels, pc \in [Sources -> Labels], LockInv, User
  PROVE  LockInv' /\ ContractStep
  BY DEF LockInv, User, UserDispose, UserDisposeUpstream, ContractStep, downstream

LEMMA LockDeliver ==
  ASSUME NEW Labels, pc \in [Sources -> Labels], LockInv, NEW s \in Sources, Deliver(s)
  PROVE  LockInv' /\ ContractStep
<1>1. CASE s \in Inners /\ NextEnter(s)
  BY <1>1, LockNextEnter
<1>2. CASE s \in Inners /\ NextLeave(s)
  BY <1>2, LockNextLeave
<1>3. CASE TerminalEnter(s)
  BY <1>3, LockTerminalEnter
<1>4. CASE TerminalLeave(s)
  BY <1>4, LockTerminalLeave
<1>5. CASE TerminalIgnored(s)
  BY <1>5, LockTerminalIgnored
<1> QED
  BY <1>1, <1>2, <1>3, <1>4, <1>5 DEF Deliver, DeliverUnderMutex

-----------------------------------------------------------------------------
(* merge and flat_map.                                                       *)

\* Sources whose on_completed the counter is still waiting for: they have been
\* counted, and have not decremented it.
Counted == subscribed \union (IF pc[Base] = "subscribe" THEN {arg[Base]} ELSE {})
Decremented == {s \in Sources : finished[s] = "completed" /\ pc[s] # "decrement"}
Pending == Counted \ Decremented

CounterInv ==
  /\ IsFiniteSet(Pending)
  /\ m_on_completed_needed = Cardinality(Pending)

\* Where a source is in its calls and how it has ended.
PlaceInv ==
  /\ Base \in subscribed
  /\ \A s \in Sources :
       /\ pc[s] \in {"next", "in_next"} => s \in Inners
       /\ pc[s] \in {"increment", "subscribe"} => s = Base
       /\ pc[s] \in {"idle", "next", "in_next", "increment", "subscribe"} <=> finished[s] = "no"
       /\ pc[s] \in {"decrement", "forget", "completed"} => finished[s] = "completed"
       /\ pc[s] = "error" => finished[s] = "error"
       /\ s \notin subscribed => pc[s] = "idle"
  /\ pc[Base] \in {"increment", "subscribe"} => arg[Base] \in Inners \ subscribed

\* Who goes on to complete the result found nobody else to wait for.
LastInv ==
  /\ \A s \in Sources : pc[s] = "completed" => Pending = {}
  /\ observer = "completed" => Pending = {}

\* Until the result ends, what has been emitted is delivered or on its way.
FlowInv ==
  \A i \in Inners :
    /\ observer = "open" => emitted[i] = delivered[i] + (IF pc[i] = "next" THEN 1 ELSE 0)
    /\ observer = "completed" => emitted[i] = delivered[i]

\* Every subscription is in the merge_disposable or has been disposed of, and a
\* disposed one holds nothing and belongs to a result that has ended.
SubscriptionInv ==
  /\ subscribed \subseteq held \union unsubscribed
  /\ disposed => held = {} /\ observer # "open"
  /\ user # "subscribed" => observer # "open"
  /\ \A s \in Sources : pc[s] = "in_terminal" => observer # "open"

IInv ==
  /\ TypeOK
  /\ LockInv
  /\ PlaceInv
  /\ CounterInv
  /\ LastInv
  /\ FlowInv
  /\ SubscriptionInv
  /\ NoEarlyUnsubscribe

-----------------------------------------------------------------------------
\* With nothing pending all sources have completed and none is coming.
LEMMA NonePending ==
  ASSUME IInv, Pending = {}
  PROVE  /\ \A s \in subscribed : finished[s] = "completed" /\ pc[s] # "decrement"
         /\ pc[Base] \notin {"increment", "subscribe"}
<1>1. \A s \in subscribed : s \in Decremented
  BY DEF Pending, Counted
<1>2. finished[Base] = "completed" /\ Base \in Sources
  BY <1>1 DEF IInv, PlaceInv, Decremented
<1>3. pc[Base] \notin {"increment", "subscribe"}
  BY <1>2 DEF IInv, PlaceInv
<1> QED
  BY <1>1, <1>3 DEF Decremented

\* Somebody who is about to decrement is pending, so the counter is positive.
LEMMA Positive ==
  ASSUME IInv, NEW s \in Sources, pc[s] = "decrement"
  PROVE  /\ s \in Pending
         /\ m_on_completed_needed \in Nat \ {0}
<1>1. s \in Pending
  BY DEF IInv, PlaceInv, Pending, Counted, Decremented
<1>2. IsFiniteSet(Pending) /\ m_on_completed_needed = Cardinality(Pending)
  BY DEF IInv, CounterInv
<1>3. Cardinality(Pending) \in Nat
  BY <1>2, FS_CardinalityType
<1>4. Cardinality(Pending) # 0
  BY <1>1, <1>2, FS_EmptySet
<1> QED
  BY <1>1, <1>2, <1>3, <1>4

-----------------------------------------------------------------------------
(* Each part of the invariant is kept by every action.                      *)

LEMMA TypeStep ==
  ASSUME IInv, [Next]_vars
  PROVE  TypeOK'
<1> USE SourcesAssumption, MaxEmitsAssumption
  DEF IInv, TypeOK, CommonTypeOK, Goto, downstream, subscriptions, sources, common, Sources,
      CommonLabels
<1>1. ASSUME NEW i \in Inners, InnerNext(i) PROVE TypeOK'
  BY <1>1 DEF InnerNext, EmitNext, Listening, Running
<1>2. ASSUME NEW s \in Sources, SourceCompleted(s) PROVE TypeOK'
  BY <1>2 DEF SourceCompleted, EmitTerminal, Listening, Running
<1>3. ASSUME NEW s \in Sources, SourceError(s) PROVE TypeOK'
  BY <1>3 DEF SourceError, EmitTerminal, Listening, Running
<1>4. ASSUME BaseNext PROVE TypeOK'
  BY <1>4 DEF BaseNext, Listening, Running
<1>5. ASSUME NEW i \in Inners, NextEnter(i), UNCHANGED m_on_completed_needed PROVE TypeOK'
  BY <1>5 DEF NextEnter, FlowInv, PlaceInv
<1>6. ASSUME NEW i \in Inners, NextLeave(i), UNCHANGED m_on_completed_needed PROVE TypeOK'
  BY <1>6 DEF NextLeave
<1>7. ASSUME NEW s \in Sources, TerminalEnter(s), UNCHANGED m_on_completed_needed PROVE TypeOK'
  BY <1>7 DEF TerminalEnter
<1>8. ASSUME NEW s \in Sources, TerminalLeave(s), UNCHANGED m_on_completed_needed PROVE TypeOK'
  BY <1>8 DEF TerminalLeave, DisposeState
<1>9. ASSUME NEW s \in Sources, TerminalIgnored(s), UNCHANGED m_on_completed_needed PROVE TypeOK'
  BY <1>9 DEF TerminalIgnored
<1>10. ASSUME Increment PROVE TypeOK'
  BY <1>10 DEF Increment
<1>11. ASSUME Subscribe PROVE TypeOK'
  BY <1>11 DEF Subscribe, PlaceInv
<1>12. ASSUME NEW s \in Sources, Decrement(s) PROVE TypeOK'
  <2>1. m_on_completed_needed \in Nat \ {0}
    BY <1>12, Positive DEF Decrement
  <2>2. m_on_completed_needed' \in Nat
    BY <2>1, <1>12 DEF Decrement
  <2> QED
    BY <2>2, <1>12 DEF Decrement
<1>13. ASSUME NEW s \in Sources, Forget(s) PROVE TypeOK'
  BY <1>13 DEF Forget
<1>14. ASSUME UserDispose, UNCHANGED m_on_completed_needed PROVE TypeOK'
  BY <1>14 DEF UserDispose
<1>15. ASSUME UserDisposeUpstream, UNCHANGED m_on_completed_needed PROVE TypeOK'
  BY <1>15 DEF UserDisposeUpstream, DisposeState
<1>16. CASE UNCHANGED vars
  BY <1>16 DEF vars
<1>17. ASSUME NEW s \in Sources, Emit(s) PROVE TypeOK'
  BY <1>17, <1>1, <1>2, <1>3, <1>4 DEF Emit, InnerNext
<1>18. ASSUME NEW s \in Sources, Handle(s) PROVE TypeOK'
  BY <1>18, <1>5, <1>6, <1>7, <1>8, <1>9, <1>10, <1>11, <1>12, <1>13 DEF Handle, Deliver, DeliverUnderMutex
<1> QED
  BY <1>14, <1>15, <1>16, <1>17, <1>18 DEF Next, User

LEMMA PlaceStep ==
  ASSUME IInv, [Next]_vars
  PROVE  PlaceInv'
<1> USE SourcesAssumption, MaxEmitsAssumption
  DEF IInv, TypeOK, CommonTypeOK, PlaceInv, Goto, downstream, subscriptions, sources, common, Sources,
      CommonLabels
<1>1. ASSUME NEW i \in Inners, InnerNext(i) PROVE PlaceInv'
  BY <1>1 DEF InnerNext, EmitNext, Listening, Running
<1>2. ASSUME NEW s \in Sources, SourceCompleted(s) PROVE PlaceInv'
  BY <1>2 DEF SourceCompleted, EmitTerminal, Listening, Running
<1>3. ASSUME NEW s \in Sources, SourceError(s) PROVE PlaceInv'
  BY <1>3 DEF SourceError, EmitTerminal, Listening, Running
<1>4. ASSUME BaseNext PROVE PlaceInv'
  BY <1>4 DEF BaseNext, Listening, Running
<1>5. ASSUME NEW i \in Inners, NextEnter(i), UNCHANGED m_on_completed_needed PROVE PlaceInv'
  BY <1>5 DEF NextEnter
<1>6. ASSUME NEW i \in Inners, NextLeave(i), UNCHANGED m_on_completed_needed PROVE PlaceInv'
  BY <1>6 DEF NextLeave
<1>7. ASSUME NEW s \in Sources, TerminalEnter(s), UNCHANGED m_on_completed_needed PROVE PlaceInv'
  BY <1>7 DEF TerminalEnter
<1>8. ASSUME NEW s \in Sources, TerminalLeave(s), UNCHANGED m_on_completed_needed PROVE PlaceInv'
  BY <1>8 DEF TerminalLeave, DisposeState
<1>9. ASSUME NEW s \in Sources, TerminalIgnored(s), UNCHANGED m_on_completed_needed PROVE PlaceInv'
  BY <1>9 DEF TerminalIgnored
<1>10. ASSUME Increment PROVE PlaceInv'
  BY <1>10 DEF Increment
<1>11. ASSUME Subscribe PROVE PlaceInv'
  BY <1>11 DEF Subscribe
<1>12. ASSUME NEW s \in Sources, Decrement(s) PROVE PlaceInv'
  BY <1>12 DEF Decrement
<1>13. ASSUME NEW s \in Sources, Forget(s) PROVE PlaceInv'
  BY <1>13 DEF Forget
<1>14. ASSUME UserDispose, UNCHANGED m_on_completed_needed PROVE PlaceInv'
  BY <1>14 DEF UserDispose
<1>15. ASSUME UserDisposeUpstream, UNCHANGED m_on_completed_needed PROVE PlaceInv'
  BY <1>15 DEF UserDisposeUpstream, DisposeState
<1>16. CASE UNCHANGED vars
  BY <1>16 DEF vars
<1>17. ASSUME NEW s \in Sources, Emit(s) PROVE PlaceInv'
  BY <1>17, <1>1, <1>2, <1>3, <1>4 DEF Emit, InnerNext
<1>18. ASSUME NEW s \in Sources, Handle(s) PROVE PlaceInv'
  BY <1>18, <1>5, <1>6, <1>7, <1>8, <1>9, <1>10, <1>11, <1>12, <1>13 DEF Handle, Deliver, DeliverUnderMutex
<1> QED
  BY <1>14, <1>15, <1>16, <1>17, <1>18 DEF Next, User

LEMMA FlowStep ==
  ASSUME IInv, [Next]_vars
  PROVE  FlowInv'
<1> USE SourcesAssumption, MaxEmitsAssumption
  DEF IInv, TypeOK, CommonTypeOK, PlaceInv, FlowInv, Goto, downstream, subscriptions, sources, common,
      Sources, CommonLabels
<1>1. ASSUME NEW i \in Inners, InnerNext(i) PROVE FlowInv'
  <2>1. i \in subscribed /\ finished[i] = "no" /\ pc[i] = "idle"
    BY <1>1 DEF InnerNext, Listening, Running
  <2>2. observer # "completed"
    BY <2>1, NonePending DEF LastInv
  <2> QED
    BY <2>1, <2>2, <1>1 DEF InnerNext, EmitNext
<1>2. ASSUME NEW s \in Sources, SourceCompleted(s) PROVE FlowInv'
  BY <1>2 DEF SourceCompleted, EmitTerminal, Listening, Running
<1>3. ASSUME NEW s \in Sources, SourceError(s) PROVE FlowInv'
  BY <1>3 DEF SourceError, EmitTerminal, Listening, Running
<1>4. ASSUME BaseNext PROVE FlowInv'
  BY <1>4 DEF BaseNext, Listening, Running
<1>5. ASSUME NEW i \in Inners, NextEnter(i), UNCHANGED m_on_completed_needed PROVE FlowInv'
  BY <1>5 DEF NextEnter
<1>6. ASSUME NEW i \in Inners, NextLeave(i), UNCHANGED m_on_completed_needed PROVE FlowInv'
  BY <1>6 DEF NextLeave
<1>7. ASSUME NEW s \in Sources, TerminalEnter(s), UNCHANGED m_on_completed_needed PROVE FlowInv'
  <2>1. CASE observer # "open" \/ pc[s] = "error"
    BY <2>1, <1>7 DEF TerminalEnter
  <2>2. CASE observer = "open" /\ pc[s] = "completed"
    <3>1. \A i \in Inners : pc[i] # "next"
      BY <2>2, NonePending DEF LastInv
    <3>2. \A i \in Inners : emitted[i] = delivered[i]
      BY <2>2, <3>1
    <3> QED
      BY <2>2, <3>2, <1>7 DEF TerminalEnter
  <2> QED
    BY <2>1, <2>2, <1>7 DEF TerminalEnter
<1>8. ASSUME NEW s \in Sources, TerminalLeave(s), UNCHANGED m_on_completed_needed PROVE FlowInv'
  BY <1>8 DEF TerminalLeave, DisposeState
<1>9. ASSUME NEW s \in Sources, TerminalIgnored(s), UNCHANGED m_on_completed_needed PROVE FlowInv'
  BY <1>9 DEF TerminalIgnored
<1>10. ASSUME Increment PROVE FlowInv'
  BY <1>10 DEF Increment
<1>11. ASSUME Subscribe PROVE FlowInv'
  BY <1>11 DEF Subscribe
<1>12. ASSUME NEW s \in Sources, Decrement(s) PROVE FlowInv'
  BY <1>12 DEF Decrement
<1>13. ASSUME NEW s \in Sources, Forget(s) PROVE FlowInv'
  BY <1>13 DEF Forget
<1>14. ASSUME UserDispose, UNCHANGED m_on_completed_needed PROVE FlowInv'
  BY <1>14 DEF UserDispose
<1>15. ASSUME UserDisposeUpstream, UNCHANGED m_on_completed_needed PROVE FlowInv'
  BY <1>15 DEF UserDisposeUpstream, DisposeState
<1>16. CASE UNCHANGED vars
  BY <1>16 DEF vars
<1>17. ASSUME NEW s \in Sources, Emit(s) PROVE FlowInv'
  BY <1>17, <1>1, <1>2, <1>3, <1>4 DEF Emit, InnerNext
<1>18. ASSUME NEW s \in Sources, Handle(s) PROVE FlowInv'
  BY <1>18, <1>5, <1>6, <1>7, <1>8, <1>9, <1>10, <1>11, <1>12, <1>13 DEF Handle, Deliver, DeliverUnderMutex
<1> QED
  BY <1>14, <1>15, <1>16, <1>17, <1>18 DEF Next, User

LEMMA SubscriptionStep ==
  ASSUME IInv, [Next]_vars
  PROVE  SubscriptionInv'
<1> USE SourcesAssumption, MaxEmitsAssumption
  DEF IInv, TypeOK, CommonTypeOK, PlaceInv, SubscriptionInv, Goto, downstream, subscriptions, sources,
      common, Sources, CommonLabels
<1>1. ASSUME NEW i \in Inners, InnerNext(i) PROVE SubscriptionInv'
  BY <1>1 DEF InnerNext, EmitNext, Listening, Running
<1>2. ASSUME NEW s \in Sources, SourceCompleted(s) PROVE SubscriptionInv'
  BY <1>2 DEF SourceCompleted, EmitTerminal, Listening, Running
<1>3. ASSUME NEW s \in Sources, SourceError(s) PROVE SubscriptionInv'
  BY <1>3 DEF SourceError, EmitTerminal, Listening, Running
<1>4. ASSUME BaseNext PROVE SubscriptionInv'
  BY <1>4 DEF BaseNext, Listening, Running
<1>5. ASSUME NEW i \in Inners, NextEnter(i), UNCHANGED m_on_completed_needed PROVE SubscriptionInv'
  BY <1>5 DEF NextEnter
<1>6. ASSUME NEW i \in Inners, NextLeave(i), UNCHANGED m_on_completed_needed PROVE SubscriptionInv'
  BY <1>6 DEF NextLeave
<1>7. ASSUME NEW s \in Sources, TerminalEnter(s), UNCHANGED m_on_completed_needed PROVE SubscriptionInv'
  BY <1>7 DEF TerminalEnter
<1>8. ASSUME NEW s \in Sources, TerminalLeave(s), UNCHANGED m_on_completed_needed PROVE SubscriptionInv'
  BY <1>8 DEF TerminalLeave, DisposeState
<1>9. ASSUME NEW s \in Sources, TerminalIgnored(s), UNCHANGED m_on_completed_needed
      PROVE SubscriptionInv'
  BY <1>9 DEF TerminalIgnored
<1>10. ASSUME Increment PROVE SubscriptionInv'
  BY <1>10 DEF Increment
<1>11. ASSUME Subscribe PROVE SubscriptionInv'
  BY <1>11 DEF Subscribe
<1>12. ASSUME NEW s \in Sources, Decrement(s) PROVE SubscriptionInv'
  BY <1>12 DEF Decrement
<1>13. ASSUME NEW s \in Sources, Forget(s) PROVE SubscriptionInv'
  BY <1>13 DEF Forget
<1>14. ASSUME UserDispose, UNCHANGED m_on_completed_needed PROVE SubscriptionInv'
  BY <1>14 DEF UserDispose
<1>15. ASSUME UserDisposeUpstream, UNCHANGED m_on_completed_needed PROVE SubscriptionInv'
  BY <1>15 DEF UserDisposeUpstream, DisposeState
<1>16. CASE UNCHANGED vars
  BY <1>16 DEF vars
<1>17. ASSUME NEW s \in Sources, Emit(s) PROVE SubscriptionInv'
  BY <1>17, <1>1, <1>2, <1>3, <1>4 DEF Emit, InnerNext
<1>18. ASSUME NEW s \in Sources, Handle(s) PROVE SubscriptionInv'
  BY <1>18, <1>5, <1>6, <1>7, <1>8, <1>9, <1>10, <1>11, <1>12, <1>13 DEF Handle, Deliver, DeliverUnderMutex
<1> QED
  BY <1>14, <1>15, <1>16, <1>17, <1>18 DEF Next, User

LEMMA EarlyStep ==
  ASSUME IInv, [Next]_vars
  PROVE  NoEarlyUnsubscribe'
<1> USE SourcesAssumption, MaxEmitsAssumption
  DEF IInv, TypeOK, CommonTypeOK, PlaceInv, SubscriptionInv, NoEarlyUnsubscribe, Goto, downstream,
      subscriptions, sources, common, Sources, CommonLabels
<1>1. ASSUME NEW i \in Inners, InnerNext(i) PROVE NoEarlyUnsubscribe'
  BY <1>1 DEF InnerNext, EmitNext, Listening, Running
<1>2. ASSUME NEW s \in Sources, SourceCompleted(s) PROVE NoEarlyUnsubscribe'
  BY <1>2 DEF SourceCompleted, EmitTerminal, Listening, Running
<1>3. ASSUME NEW s \in Sources, SourceError(s) PROVE NoEarlyUnsubscribe'
  BY <1>3 DEF SourceError, EmitTerminal, Listening, Running
<1>4. ASSUME BaseNext PROVE NoEarlyUnsubscribe'
  BY <1>4 DEF BaseNext, Listening, Running
<1>5. ASSUME NEW i \in Inners, NextEnter(i), UNCHANGED m_on_completed_needed PROVE NoEarlyUnsubscribe'
  BY <1>5 DEF NextEnter
<1>6. ASSUME NEW i \in Inners, NextLeave(i), UNCHANGED m_on_completed_needed PROVE NoEarlyUnsubscribe'
  BY <1>6 DEF NextLeave
<1>7. ASSUME NEW s \in Sources, TerminalEnter(s), UNCHANGED m_on_completed_needed
      PROVE NoEarlyUnsubscribe'
  BY <1>7 DEF TerminalEnter
<1>8. ASSUME NEW s \in Sources, TerminalLeave(s), UNCHANGED m_on_completed_needed
      PROVE NoEarlyUnsubscribe'
  BY <1>8 DEF TerminalLeave, DisposeState
<1>9. ASSUME NEW s \in Sources, TerminalIgnored(s), UNCHANGED m_on_completed_needed
      PROVE NoEarlyUnsubscribe'
  BY <1>9 DEF TerminalIgnored
<1>10. ASSUME Increment PROVE NoEarlyUnsubscribe'
  BY <1>10 DEF Increment
<1>11. ASSUME Subscribe PROVE NoEarlyUnsubscribe'
  BY <1>11 DEF Subscribe
<1>12. ASSUME NEW s \in Sources, Decrement(s) PROVE NoEarlyUnsubscribe'
  BY <1>12 DEF Decrement
<1>13. ASSUME NEW s \in Sources, Forget(s) PROVE NoEarlyUnsubscribe'
  BY <1>13 DEF Forget
<1>14. ASSUME UserDispose, UNCHANGED m_on_completed_needed PROVE NoEarlyUnsubscribe'
  BY <1>14 DEF UserDispose
<1>15. ASSUME UserDisposeUpstream, UNCHANGED m_on_completed_needed PROVE NoEarlyUnsubscribe'
  BY <1>15 DEF UserDisposeUpstream, DisposeState
<1>16. CASE UNCHANGED vars
  BY <1>16 DEF vars
<1>17. ASSUME NEW s \in Sources, Emit(s) PROVE NoEarlyUnsubscribe'
  BY <1>17, <1>1, <1>2, <1>3, <1>4 DEF Emit, InnerNext
<1>18. ASSUME NEW s \in Sources, Handle(s) PROVE NoEarlyUnsubscribe'
  BY <1>18, <1>5, <1>6, <1>7, <1>8, <1>9, <1>10, <1>11, <1>12, <1>13 DEF Handle, Deliver, DeliverUnderMutex
<1> QED
  BY <1>14, <1>15, <1>16, <1>17, <1>18 DEF Next, User

-----------------------------------------------------------------------------
(* The counter.                                                             *)

\* A step that leaves the set of pending sources alone.
LEMMA SamePending ==
  ASSUME IInv, Pending' = Pending, UNCHANGED m_on_completed_needed
  PROVE  CounterInv'
  BY DEF IInv, CounterInv

LEMMA CounterStep ==
  ASSUME IInv, [Next]_vars
  PROVE  CounterInv'
<1> USE SourcesAssumption, MaxEmitsAssumption
<1>1. ASSUME NEW i \in Inners, InnerNext(i) PROVE CounterInv'
  <2>1. Pending' = Pending
    BY <1>1
      DEF IInv, TypeOK, CommonTypeOK, PlaceInv, Pending, Counted, Decremented, InnerNext, EmitNext,
          Listening, Running, Goto, downstream, subscriptions, sources, common, Sources, CommonLabels
  <2> QED
    BY <2>1, <1>1, SamePending DEF InnerNext
<1>2. ASSUME NEW s \in Sources, SourceCompleted(s) PROVE CounterInv'
  <2>1. Pending' = Pending
    BY <1>2
      DEF IInv, TypeOK, CommonTypeOK, PlaceInv, Pending, Counted, Decremented, SourceCompleted,
          EmitTerminal, Listening, Running, Goto, downstream, subscriptions, sources, common, Sources,
          CommonLabels
  <2> QED
    BY <2>1, <1>2, SamePending DEF SourceCompleted
<1>3. ASSUME NEW s \in Sources, SourceError(s) PROVE CounterInv'
  <2>1. Pending' = Pending
    BY <1>3
      DEF IInv, TypeOK, CommonTypeOK, PlaceInv, Pending, Counted, Decremented, SourceError,
          EmitTerminal, Listening, Running, Goto, downstream, subscriptions, sources, common, Sources,
          CommonLabels
  <2> QED
    BY <2>1, <1>3, SamePending DEF SourceError
<1>4. ASSUME BaseNext PROVE CounterInv'
  <2>1. Pending' = Pending
    BY <1>4
      DEF IInv, TypeOK, CommonTypeOK, PlaceInv, Pending, Counted, Decremented, BaseNext, Listening,
          Running, Goto, downstream, subscriptions, sources, common, Sources, CommonLabels
  <2> QED
    BY <2>1, <1>4, SamePending DEF BaseNext
<1>5. ASSUME NEW i \in Inners, NextEnter(i), UNCHANGED m_on_completed_needed PROVE CounterInv'
  <2>1. Pending' = Pending
    BY <1>5
      DEF IInv, TypeOK, CommonTypeOK, PlaceInv, Pending, Counted, Decremented, NextEnter, Goto,
          downstream, subscriptions, sources, common, Sources, CommonLabels
  <2> QED
    BY <2>1, <1>5, SamePending DEF NextEnter
<1>6. ASSUME NEW i \in Inners, NextLeave(i), UNCHANGED m_on_completed_needed PROVE CounterInv'
  <2>1. Pending' = Pending
    BY <1>6
      DEF IInv, TypeOK, CommonTypeOK, PlaceInv, Pending, Counted, Decremented, NextLeave, Goto,
          downstream, subscriptions, sources, common, Sources, CommonLabels
  <2> QED
    BY <2>1, <1>6, SamePending DEF NextLeave
<1>7. ASSUME NEW s \in Sources, TerminalEnter(s), UNCHANGED m_on_completed_needed PROVE CounterInv'
  <2>1. Pending' = Pending
    BY <1>7
      DEF IInv, TypeOK, CommonTypeOK, PlaceInv, Pending, Counted, Decremented, TerminalEnter, Goto,
          downstream, subscriptions, sources, common, Sources, CommonLabels
  <2> QED
    BY <2>1, <1>7, SamePending DEF TerminalEnter
<1>8. ASSUME NEW s \in Sources, TerminalLeave(s), UNCHANGED m_on_completed_needed PROVE CounterInv'
  <2>1. Pending' = Pending
    BY <1>8
      DEF IInv, TypeOK, CommonTypeOK, PlaceInv, Pending, Counted, Decremented, TerminalLeave,
          DisposeState, Goto, downstream, subscriptions, sources, common, Sources, CommonLabels
  <2> QED
    BY <2>1, <1>8, SamePending DEF TerminalLeave
<1>9. ASSUME NEW s \in Sources, TerminalIgnored(s), UNCHANGED m_on_completed_needed PROVE CounterInv'
  <2>1. Pending' = Pending
    BY <1>9
      DEF IInv, TypeOK, CommonTypeOK, PlaceInv, Pending, Counted, Decremented, TerminalIgnored, Goto,
          downstream, subscriptions, sources, common, Sources, CommonLabels
  <2> QED
    BY <2>1, <1>9, SamePending DEF TerminalIgnored
<1>10. ASSUME Increment PROVE CounterInv'
  <2>1. arg[Base] \in Inners \ Counted
    BY <1>10 DEF Increment, IInv, PlaceInv, Counted
  <2>2. Pending' = Pending \union {arg[Base]} /\ arg[Base] \notin Pending
    BY <1>10, <2>1
      DEF Increment, IInv, TypeOK, CommonTypeOK, PlaceInv, Pending, Counted, Decremented, Goto,
          downstream, subscriptions, sources, common, Sources, CommonLabels
  <2>3. IsFiniteSet(Pending) /\ m_on_completed_needed = Cardinality(Pending)
    BY DEF IInv, CounterInv
  <2>4. IsFiniteSet(Pending') /\ Cardinality(Pending') = Cardinality(Pending) + 1
    BY <2>2, <2>3, FS_AddElement
  <2> QED
    BY <2>3, <2>4, <1>10 DEF Increment, CounterInv
<1>11. ASSUME Subscribe PROVE CounterInv'
  <2>1. Pending' = Pending
    BY <1>11
      DEF IInv, TypeOK, CommonTypeOK, PlaceInv, Pending, Counted, Decremented, Subscribe, Goto,
          downstream, subscriptions, sources, common, Sources, CommonLabels
  <2> QED
    BY <2>1, <1>11, SamePending DEF Subscribe
<1>12. ASSUME NEW s \in Sources, Decrement(s) PROVE CounterInv'
  <2>1. Pending' = Pending \ {s} /\ s \in Pending
    BY <1>12, Positive
      DEF Decrement, IInv, TypeOK, CommonTypeOK, PlaceInv, Pending, Counted, Decremented, Goto,
          downstream, subscriptions, sources, common, Sources, CommonLabels
  <2>2. IsFiniteSet(Pending) /\ m_on_completed_needed = Cardinality(Pending)
    BY DEF IInv, CounterInv
  <2>3. IsFiniteSet(Pending') /\ Cardinality(Pending') = Cardinality(Pending) - 1
    BY <2>1, <2>2, FS_RemoveElement
  <2> QED
    BY <2>2, <2>3, <1>12 DEF Decrement, CounterInv
<1>13. ASSUME NEW s \in Sources, Forget(s) PROVE CounterInv'
  <2>1. Pending' = Pending
    BY <1>13
      DEF IInv, TypeOK, CommonTypeOK, PlaceInv, Pending, Counted, Decremented, Forget, Goto, downstream,
          subscriptions, sources, common, Sources, CommonLabels
  <2> QED
    BY <2>1, <1>13, SamePending DEF Forget
<1>14. ASSUME UserDispose, UNCHANGED m_on_completed_needed PROVE CounterInv'
  <2>1. Pending' = Pending
    BY <1>14
      DEF IInv, TypeOK, CommonTypeOK, PlaceInv, Pending, Counted, Decremented, UserDispose, Goto,
          downstream, subscriptions, sources, common, Sources, CommonLabels
  <2> QED
    BY <2>1, <1>14, SamePending DEF UserDispose
<1>15. ASSUME UserDisposeUpstream, UNCHANGED m_on_completed_needed PROVE CounterInv'
  <2>1. Pending' = Pending
    BY <1>15
      DEF IInv, TypeOK, CommonTypeOK, PlaceInv, Pending, Counted, Decremented, UserDisposeUpstream,
          DisposeState, Goto, downstream, subscriptions, sources, common, Sources, CommonLabels
  <2> QED
    BY <2>1, <1>15, SamePending DEF UserDisposeUpstream
<1>16. CASE UNCHANGED vars
  BY <1>16
    DEF vars, IInv, CounterInv, Pending, Counted, Decremented, downstream, subscriptions, sources,
        common
<1>17. ASSUME NEW s \in Sources, Emit(s) PROVE CounterInv'
  BY <1>17, <1>1, <1>2, <1>3, <1>4 DEF Emit, InnerNext
<1>18. ASSUME NEW s \in Sources, Handle(s) PROVE CounterInv'
  BY <1>18, <1>5, <1>6, <1>7, <1>8, <1>9, <1>10, <1>11, <1>12, <1>13 DEF Handle, Deliver, DeliverUnderMutex
<1> QED
  BY <1>14, <1>15, <1>16, <1>17, <1>18 DEF Next, User

LEMMA LastStep ==
  ASSUME IInv, [Next]_vars
  PROVE  LastInv'
<1> USE SourcesAssumption, MaxEmitsAssumption
  DEF IInv, TypeOK, CommonTypeOK, LastInv, Goto, downstream, subscriptions, sources, common, Sources,
      CommonLabels
<1>1. ASSUME NEW i \in Inners, InnerNext(i) PROVE LastInv'
  <2>1. Pending' = Pending
    BY <1>1 DEF PlaceInv, Pending, Counted, Decremented, InnerNext, EmitNext, Listening, Running
  <2> QED
    BY <2>1, <1>1 DEF InnerNext, EmitNext, Listening, Running
<1>2. ASSUME NEW s \in Sources, SourceCompleted(s) PROVE LastInv'
  <2>1. Pending' = Pending
    BY <1>2
      DEF PlaceInv, Pending, Counted, Decremented, SourceCompleted, EmitTerminal, Listening, Running
  <2> QED
    BY <2>1, <1>2 DEF SourceCompleted, EmitTerminal, Listening, Running
<1>3. ASSUME NEW s \in Sources, SourceError(s) PROVE LastInv'
  <2>1. Pending' = Pending
    BY <1>3 DEF PlaceInv, Pending, Counted, Decremented, SourceError, EmitTerminal, Listening, Running
  <2> QED
    BY <2>1, <1>3 DEF SourceError, EmitTerminal, Listening, Running
<1>4. ASSUME BaseNext PROVE LastInv'
  <2>1. Pending' = Pending
    BY <1>4 DEF PlaceInv, Pending, Counted, Decremented, BaseNext, Listening, Running
  <2> QED
    BY <2>1, <1>4 DEF BaseNext, Listening, Running
<1>5. ASSUME NEW i \in Inners, NextEnter(i), UNCHANGED m_on_completed_needed PROVE LastInv'
  <2>1. Pending' = Pending
    BY <1>5 DEF PlaceInv, Pending, Counted, Decremented, NextEnter
  <2> QED
    BY <2>1, <1>5 DEF NextEnter
<1>6. ASSUME NEW i \in Inners, NextLeave(i), UNCHANGED m_on_completed_needed PROVE LastInv'
  <2>1. Pending' = Pending
    BY <1>6 DEF PlaceInv, Pending, Counted, Decremented, NextLeave
  <2> QED
    BY <2>1, <1>6 DEF NextLeave
<1>7. ASSUME NEW s \in Sources, TerminalEnter(s), UNCHANGED m_on_completed_needed PROVE LastInv'
  <2>1. Pending' = Pending
    BY <1>7 DEF PlaceInv, Pending, Counted, Decremented, TerminalEnter
  <2> QED
    BY <2>1, <1>7 DEF TerminalEnter
<1>8. ASSUME NEW s \in Sources, TerminalLeave(s), UNCHANGED m_on_completed_needed PROVE LastInv'
  <2>1. Pending' = Pending
    BY <1>8 DEF PlaceInv, Pending, Counted, Decremented, TerminalLeave, DisposeState
  <2> QED
    BY <2>1, <1>8 DEF TerminalLeave, DisposeState
<1>9. ASSUME NEW s \in Sources, TerminalIgnored(s), UNCHANGED m_on_completed_needed PROVE LastInv'
  <2>1. Pending' = Pending
    BY <1>9 DEF PlaceInv, Pending, Counted, Decremented, TerminalIgnored
  <2> QED
    BY <2>1, <1>9 DEF TerminalIgnored
<1>10. ASSUME Increment PROVE LastInv'
  <2>1. Pending # {}
    BY <1>10, NonePending DEF Increment
  <2> QED
    BY <2>1, <1>10 DEF Increment
<1>11. ASSUME Subscribe PROVE LastInv'
  <2>1. Pending' = Pending
    BY <1>11 DEF PlaceInv, Pending, Counted, Decremented, Subscribe
  <2> QED
    BY <2>1, <1>11 DEF Subscribe
<1>12. ASSUME NEW s \in Sources, Decrement(s) PROVE LastInv'
  <2>1. Pending' = Pending \ {s} /\ s \in Pending
    BY <1>12, Positive DEF Decrement, PlaceInv, Pending, Counted, Decremented
  <2>2. m_on_completed_needed = 1 => Pending' = {}
    <3>1. SUFFICES ASSUME m_on_completed_needed = 1 PROVE Pending = {s}
      BY <2>1
    <3>2. Cardinality(Pending) = 1 /\ IsFiniteSet(Pending)
      BY <3>1 DEF CounterInv
    <3> QED
      BY <3>2, <2>1, FS_Singleton
  <2> QED
    BY <2>1, <2>2, <1>12 DEF Decrement
<1>13. ASSUME NEW s \in Sources, Forget(s) PROVE LastInv'
  <2>1. Pending' = Pending
    BY <1>13 DEF PlaceInv, Pending, Counted, Decremented, Forget
  <2> QED
    BY <2>1, <1>13 DEF Forget
<1>14. ASSUME UserDispose, UNCHANGED m_on_completed_needed PROVE LastInv'
  <2>1. Pending' = Pending
    BY <1>14 DEF PlaceInv, Pending, Counted, Decremented, UserDispose
  <2> QED
    BY <2>1, <1>14 DEF UserDispose
<1>15. ASSUME UserDisposeUpstream, UNCHANGED m_on_completed_needed PROVE LastInv'
  <2>1. Pending' = Pending
    BY <1>15 DEF PlaceInv, Pending, Counted, Decremented, UserDisposeUpstream, DisposeState
  <2> QED
    BY <2>1, <1>15 DEF UserDisposeUpstream, DisposeState
<1>16. CASE UNCHANGED vars
  BY <1>16 DEF vars, Pending, Counted, Decremented
<1>17. ASSUME NEW s \in Sources, Emit(s) PROVE LastInv'
  BY <1>17, <1>1, <1>2, <1>3, <1>4 DEF Emit, InnerNext
<1>18. ASSUME NEW s \in Sources, Handle(s) PROVE LastInv'
  BY <1>18, <1>5, <1>6, <1>7, <1>8, <1>9, <1>10, <1>11, <1>12, <1>13 DEF Handle, Deliver, DeliverUnderMutex
<1> QED
  BY <1>14, <1>15, <1>16, <1>17, <1>18 DEF Next, User

-----------------------------------------------------------------------------
(* The calls of the downstream observer.                                    *)

LEMMA LockStep ==
  ASSUME IInv, [Next]_vars
  PROVE  LockInv' /\ ContractStep
<1> DEFINE Labels == CommonLabels \union {"increment", "subscribe", "decrement", "forget"}
<1>0. LockInv /\ pc \in [Sources -> Labels]
  BY DEF IInv, TypeOK
<1> HIDE DEF Labels
<1> USE <1>0
<1>1. ASSUME NEW i \in Inners, InnerNext(i) PROVE LockInv' /\ ContractStep
  BY <1>1, LockEmitNext DEF InnerNext
<1>2. ASSUME NEW s \in Sources, SourceCompleted(s) PROVE LockInv' /\ ContractStep
  <2>1. "decrement" \notin Locked /\ pc' = [pc EXCEPT ![s] = "decrement"]
    BY <1>2 DEF SourceCompleted, EmitTerminal, Listening, Running, Goto, Locked
  <2> QED
    BY <2>1, <1>2, LockOwnStep
      DEF SourceCompleted, EmitTerminal, Listening, Running, Sources, downstream
<1>3. ASSUME NEW s \in Sources, SourceError(s) PROVE LockInv' /\ ContractStep
  <2>1. "error" \notin Locked /\ pc' = [pc EXCEPT ![s] = "error"]
    BY <1>3 DEF SourceError, EmitTerminal, Listening, Running, Goto, Locked
  <2> QED
    BY <2>1, <1>3, LockOwnStep DEF SourceError, EmitTerminal, Listening, Running, Sources, downstream
<1>4. ASSUME BaseNext PROVE LockInv' /\ ContractStep
  <2>1. "increment" \notin Locked /\ pc' = [pc EXCEPT ![Base] = "increment"]
    BY <1>4 DEF BaseNext, Listening, Running, Goto, Locked
  <2> QED
    BY <2>1, <1>4, LockOwnStep DEF BaseNext, Listening, Running, Sources, downstream
<1>5. ASSUME NEW i \in Inners, NextEnter(i), UNCHANGED m_on_completed_needed
      PROVE LockInv' /\ ContractStep
  BY <1>5, LockNextEnter
<1>6. ASSUME NEW i \in Inners, NextLeave(i), UNCHANGED m_on_completed_needed
      PROVE LockInv' /\ ContractStep
  BY <1>6, LockNextLeave
<1>7. ASSUME NEW s \in Sources, TerminalEnter(s), UNCHANGED m_on_completed_needed
      PROVE LockInv' /\ ContractStep
  BY <1>7, LockTerminalEnter
<1>8. ASSUME NEW s \in Sources, TerminalLeave(s), UNCHANGED m_on_completed_needed
      PROVE LockInv' /\ ContractStep
  BY <1>8, LockTerminalLeave
<1>9. ASSUME NEW s \in Sources, TerminalIgnored(s), UNCHANGED m_on_completed_needed
      PROVE LockInv' /\ ContractStep
  BY <1>9, LockTerminalIgnored
<1>10. ASSUME Increment PROVE LockInv' /\ ContractStep
  <2>1. "subscribe" \notin Locked /\ pc' = [pc EXCEPT ![Base] = "subscribe"]
    BY <1>10 DEF Increment, Goto, Locked
  <2> QED
    BY <2>1, <1>10, LockOwnStep DEF Increment, Sources, downstream
<1>11. ASSUME Subscribe PROVE LockInv' /\ ContractStep
  <2>1. "idle" \notin Locked /\ pc' = [pc EXCEPT ![Base] = "idle"]
    BY <1>11 DEF Subscribe, Goto, Locked
  <2> QED
    BY <2>1, <1>11, LockOwnStep DEF Subscribe, Sources, downstream
<1>12. ASSUME NEW s \in Sources, Decrement(s) PROVE LockInv' /\ ContractStep
  <2>1. PICK label : label \notin Locked /\ pc' = [pc EXCEPT ![s] = label]
    BY <1>12 DEF Decrement, Goto, Locked
  <2> QED
    BY <2>1, <1>12, LockOwnStep DEF Decrement, downstream
<1>13. ASSUME NEW s \in Sources, Forget(s) PROVE LockInv' /\ ContractStep
  <2>1. "done" \notin Locked /\ pc' = [pc EXCEPT ![s] = "done"]
    BY <1>13 DEF Forget, Goto, Locked
  <2> QED
    BY <2>1, <1>13, LockOwnStep DEF Forget, Sources, downstream
<1>14. ASSUME UserDispose, UNCHANGED m_on_completed_needed PROVE LockInv' /\ ContractStep
  BY <1>14, LockUser DEF User
<1>15. ASSUME UserDisposeUpstream, UNCHANGED m_on_completed_needed PROVE LockInv' /\ ContractStep
  BY <1>15, LockUser DEF User
<1>16. CASE UNCHANGED vars
  BY <1>16 DEF vars, common, downstream, LockInv, ContractStep
<1>17. ASSUME NEW s \in Sources, Emit(s) PROVE LockInv' /\ ContractStep
  BY <1>17, <1>1, <1>2, <1>3, <1>4 DEF Emit, InnerNext
<1>18. ASSUME NEW s \in Sources, Handle(s) PROVE LockInv' /\ ContractStep
  BY <1>18, <1>5, <1>6, <1>7, <1>8, <1>9, <1>10, <1>11, <1>12, <1>13 DEF Handle, Deliver, DeliverUnderMutex
<1> QED
  BY <1>14, <1>15, <1>16, <1>17, <1>18 DEF Next, User

-----------------------------------------------------------------------------
(* Theorems                                                                 *)

LEMMA InitInv == Init => IInv
<1> SUFFICES ASSUME Init PROVE IInv
  OBVIOUS
<1> USE SourcesAssumption, MaxEmitsAssumption DEF Init, CommonInit, Sources
<1>1. TypeOK
  <2>1. 0 \in 0..MaxEmits
    OBVIOUS
  <2>2. CommonTypeOK
    BY <2>1 DEF CommonTypeOK
  <2>3. pc \in [Sources -> CommonLabels \union {"increment", "subscribe", "decrement", "forget"}]
    BY DEF CommonLabels
  <2> QED
    BY <2>2, <2>3 DEF TypeOK
<1>2. LockInv
  BY LockInit
<1>3. PlaceInv
  BY DEF PlaceInv
<1>4. Pending = {Base}
  BY DEF Pending, Counted, Decremented
<1>5. CounterInv
  BY <1>4, FS_Singleton DEF CounterInv
<1>6. LastInv /\ FlowInv /\ SubscriptionInv /\ NoEarlyUnsubscribe
  BY DEF LastInv, FlowInv, SubscriptionInv, NoEarlyUnsubscribe
<1> QED
  BY <1>1, <1>2, <1>3, <1>5, <1>6 DEF IInv

LEMMA StepInv == IInv /\ [Next]_vars => IInv'
<1> SUFFICES ASSUME IInv, [Next]_vars PROVE IInv'
  OBVIOUS
<1> QED
  BY TypeStep, LockStep, PlaceStep, CounterStep, LastStep, FlowStep, SubscriptionStep, EarlyStep
  DEF IInv

\* The invariant of merge, every part of which the theorems below use.
THEOREM Inductive == Spec => []IInv
  BY InitInv, StepInv, PTL DEF Spec

\* Type correctness; that the counter never goes below zero is part of it.
THEOREM TypeCorrect == Spec => []TypeOK
<1>1. IInv => TypeOK
  BY DEF IInv
<1> QED
  BY <1>1, Inductive, PTL

\* merge completes last: whatever the interleaving of the on_completed calls,
\* the one that finds the counter at one is really the last.
THEOREM Last == Spec => []CompletesLast
<1>1. IInv => CompletesLast
  <2> SUFFICES ASSUME IInv, observer = "completed" PROVE CompletesLast
    BY DEF CompletesLast
  <2>1. Pending = {}
    BY DEF IInv, LastInv
  <2> QED
    BY <2>1, NonePending DEF CompletesLast, IInv, FlowInv
<1> QED
  BY <1>1, Inductive, PTL

\* Nothing that was subscribed stays so when the merge_disposable is disposed.
THEOREM MergeNoLeaks == Spec => []NoSourceLeaks
<1>1. IInv => NoSourceLeaks
  BY DEF IInv, SubscriptionInv, NoSourceLeaks
<1> QED
  BY <1>1, Inductive, PTL

\* No source is unsubscribed while the result still needs it.
THEOREM NotEarly == Spec => []NoEarlyUnsubscribe
<1>1. IInv => NoEarlyUnsubscribe
  BY DEF IInv
<1> QED
  BY <1>1, Inductive, PTL

\* merge implements the observable contract: every step is a call, a return, or
\* nothing to its observer.
THEOREM Refines == Spec => FollowsContract
<1>1. Init => Contract!Init
  BY LockInit DEF Init
<1>2. IInv /\ [Next]_vars => [Contract!Next]_<<inside, observer \in {"completed", "error"}>>
  BY LockStep DEF ContractStep
<1> QED
  BY <1>1, <1>2, Inductive, PTL DEF Spec, FollowsContract, Contract!Spec

-----------------------------------------------------------------------------
(* switch_on_next: only the latest inner observable is live, nothing        *)
(* outlives the result, and what the observer sees follows the contract.    *)

\* What was said of the mutex, with the variables of switch_on_next.
Disposers == {"dispose_base", "dispose_inner"}
SwitchLocked == Locked \union Disposers
SwitchLockInv ==
  /\ s_mutex \in Sw!Sources \union {NoOne}
  /\ s_inside \subseteq {s_mutex} /\ NoOne \notin s_inside
  /\ \A s \in Sw!Sources : s_pc[s] \in SwitchLocked => s_mutex = s
  /\ \A s \in s_inside : s_pc[s] \notin Disposers \union {"ignored"}

\* No more is delivered than was emitted, the value on its way not included.
SwitchFlowBound ==
  \A i \in Inners : s_delivered[i] + (IF s_pc[i] = "next" THEN 1 ELSE 0) <= s_emitted[i]

\* What the downstream observer is called with, seen as RxContract sees it.
SwitchContractStep ==
  Sw!Contract!Next \/ UNCHANGED <<s_inside, s_observer \in {"completed", "error"}>>

LEMMA SwitchLockInit == Sw!CommonInit => SwitchLockInv /\ Sw!Contract!Init
<1> SUFFICES ASSUME Sw!CommonInit PROVE SwitchLockInv /\ Sw!Contract!Init
  OBVIOUS
<1>1. SwitchLockInv
  BY DEF Sw!CommonInit, SwitchLockInv, SwitchLocked, Locked, Disposers
<1>2. Sw!Contract!Init
  BY DEF Sw!CommonInit, Sw!Contract!Init
<1> QED
  BY <1>1, <1>2

\* A step of an operator's own: one source moves outside the critical section.
LEMMA SwitchLockOwnStep ==
  ASSUME NEW Labels, s_pc \in [Sw!Sources -> Labels], SwitchLockInv, NEW s \in Sw!Sources, NEW label, label \notin SwitchLocked,
         s_pc' = [s_pc EXCEPT ![s] = label], UNCHANGED <<s_mutex, s_observer, s_inside>>
  PROVE  SwitchLockInv' /\ SwitchContractStep
<1>1. SwitchLockInv'
  BY DEF SwitchLockInv, SwitchLocked, Locked, Disposers
<1>2. SwitchContractStep
  BY DEF SwitchContractStep
<1> QED
  BY <1>1, <1>2

LEMMA SwitchLockEmitNext ==
  ASSUME NEW Labels, s_pc \in [Sw!Sources -> Labels], SwitchLockInv, NEW i \in Inners, Sw!EmitNext(i)
  PROVE  SwitchLockInv' /\ SwitchContractStep
<1>1. "next" \notin SwitchLocked
  BY DEF SwitchLocked, Locked, Disposers
<1> QED
  BY <1>1, SwitchLockOwnStep DEF Sw!EmitNext, Sw!Goto, Sw!Sources, Sw!downstream

LEMMA SwitchLockNextEnter ==
  ASSUME NEW Labels, s_pc \in [Sw!Sources -> Labels], SwitchLockInv, NEW i \in Inners, Sw!NextEnter(i)
  PROVE  SwitchLockInv' /\ SwitchContractStep
<1>1. s_inside = {}
  BY DEF SwitchLockInv, Sw!NextEnter
<1>2. SwitchLockInv'
  BY <1>1, SourcesAssumption DEF SwitchLockInv, Sw!NextEnter, Sw!Goto, SwitchLocked, Locked, Disposers, Sw!Sources
<1>3. SwitchContractStep
  BY <1>1 DEF Sw!NextEnter, SwitchContractStep, Sw!Contract!Next, Sw!Contract!OnNext, Sw!Sources
<1> QED
  BY <1>2, <1>3

LEMMA SwitchLockNextLeave ==
  ASSUME NEW Labels, s_pc \in [Sw!Sources -> Labels], SwitchLockInv, NEW i \in Inners, Sw!NextLeave(i)
  PROVE  SwitchLockInv' /\ SwitchContractStep
<1>1. s_mutex = i
  BY DEF SwitchLockInv, Sw!NextLeave, SwitchLocked, Locked, Disposers, Sw!Sources
<1>2. SwitchLockInv'
  BY <1>1, SourcesAssumption DEF SwitchLockInv, Sw!NextLeave, Sw!Goto, SwitchLocked, Locked, Disposers, Sw!Sources
<1>3. SwitchContractStep
  BY <1>1 DEF SwitchLockInv, Sw!NextLeave, SwitchContractStep, Sw!Contract!Next, Sw!Contract!Return, Sw!Sources
<1> QED
  BY <1>2, <1>3

LEMMA SwitchLockTerminalEnter ==
  ASSUME NEW Labels, s_pc \in [Sw!Sources -> Labels], SwitchLockInv, NEW s \in Sw!Sources, Sw!TerminalEnter(s)
  PROVE  SwitchLockInv' /\ SwitchContractStep
<1>1. s_inside = {}
  BY DEF SwitchLockInv, Sw!TerminalEnter
<1>2. SwitchLockInv'
  BY <1>1, SourcesAssumption DEF SwitchLockInv, Sw!TerminalEnter, Sw!Goto, SwitchLocked, Locked, Disposers, Sw!Sources
<1>3. SwitchContractStep
  BY <1>1 DEF Sw!TerminalEnter, SwitchContractStep, Sw!Contract!Next, Sw!Contract!OnTerminal
<1> QED
  BY <1>2, <1>3

LEMMA SwitchLockTerminalReturn ==
  ASSUME NEW Labels, s_pc \in [Sw!Sources -> Labels], SwitchLockInv, NEW s \in Sw!Sources, Sw!TerminalReturn(s)
  PROVE  SwitchLockInv' /\ SwitchContractStep
<1>1. s_mutex = s
  BY DEF SwitchLockInv, Sw!TerminalReturn, SwitchLocked, Locked, Disposers
<1>2. SwitchLockInv'
  BY <1>1, SourcesAssumption
  DEF SwitchLockInv, Sw!TerminalReturn, Sw!Goto, SwitchLocked, Locked, Disposers, Sw!Sources
<1>3. SwitchContractStep
  BY <1>1 DEF SwitchLockInv, Sw!TerminalReturn, SwitchContractStep, Sw!Contract!Next, Sw!Contract!Return
<1> QED
  BY <1>2, <1>3

\* The disposal of what the state holds goes on under the mutex.
LEMMA SwitchLockDispose ==
  ASSUME NEW Labels, s_pc \in [Sw!Sources -> Labels], SwitchLockInv, NEW s \in Sw!Sources,
         Sw!DisposeBase(s) \/ Sw!DisposeInner(s)
  PROVE  SwitchLockInv' /\ SwitchContractStep
<1>1. s_mutex = s
  BY DEF SwitchLockInv, Sw!DisposeBase, Sw!DisposeInner, SwitchLocked, Locked, Disposers
<1>2. s \notin s_inside
  BY DEF SwitchLockInv, Sw!DisposeBase, Sw!DisposeInner, Disposers
<1>3. SwitchLockInv'
  BY <1>1, <1>2, SourcesAssumption
  DEF SwitchLockInv, Sw!DisposeBase, Sw!DisposeInner, Sw!Goto, SwitchLocked, Locked, Disposers, Sw!Sources,
      Sw!downstream
<1>4. SwitchContractStep
  BY DEF Sw!DisposeBase, Sw!DisposeInner, SwitchContractStep, Sw!downstream
<1> QED
  BY <1>3, <1>4

LEMMA SwitchLockTerminalIgnored ==
  ASSUME NEW Labels, s_pc \in [Sw!Sources -> Labels], SwitchLockInv, NEW s \in Sw!Sources, Sw!TerminalIgnored(s)
  PROVE  SwitchLockInv' /\ SwitchContractStep
<1>1. s_mutex = s
  BY DEF SwitchLockInv, Sw!TerminalIgnored, SwitchLocked, Locked, Disposers
<1>2. SwitchLockInv'
  BY <1>1, SourcesAssumption
  DEF SwitchLockInv, Sw!TerminalIgnored, Sw!Goto, SwitchLocked, Locked, Disposers, Sw!Sources, Sw!downstream
<1>3. SwitchContractStep
  BY DEF Sw!TerminalIgnored, SwitchContractStep, Sw!downstream
<1> QED
  BY <1>2, <1>3

LEMMA SwitchLockUser ==
  ASSUME NEW Labels, s_pc \in [Sw!Sources -> Labels], SwitchLockInv, Sw!Leave
  PROVE  SwitchLockInv' /\ SwitchContractStep
  BY DEF SwitchLockInv, Sw!Leave, Sw!UserDispose, SwitchContractStep, Sw!downstream

LEMMA SwitchLockDeliver ==
  ASSUME NEW Labels, s_pc \in [Sw!Sources -> Labels], SwitchLockInv, NEW s \in Sw!Sources, Sw!DeliverUnderMutex(s)
  PROVE  SwitchLockInv' /\ SwitchContractStep
<1>1. CASE s \in Inners /\ Sw!NextEnter(s)
  BY <1>1, SwitchLockNextEnter
<1>2. CASE s \in Inners /\ Sw!NextLeave(s)
  BY <1>2, SwitchLockNextLeave
<1>3. CASE Sw!TerminalEnter(s)
  BY <1>3, SwitchLockTerminalEnter
<1>4. CASE Sw!TerminalIgnored(s)
  BY <1>4, SwitchLockTerminalIgnored
<1> QED
  BY <1>1, <1>2, <1>3, <1>4 DEF Sw!DeliverUnderMutex

SwitchLabels == Sw!CommonLabels \union Disposers \union {"switch", "subscribe", "dispose_own", "check_other"}

\* The types the argument needs, and what the base has in hand.
SwitchPlaceInv ==
  /\ s_pc \in [Sw!Sources -> SwitchLabels]
  /\ s_arg \in [Sw!Sources -> Inners \union {NoOne}]
  /\ s_subscribed \subseteq Sw!Sources
  /\ s_pc[Base] \in {"switch", "subscribe"} => s_arg[Base] \in Inners

\* The inner observable that is about to be subscribed to is current already,
\* so that whatever ends the result, or replaces it, finds its disposable; and who
\* disposes the latest has disposed the base.
SwitchSubscriptionInv ==
  /\ s_pc[Base] = "subscribe" => s_arg[Base] = current /\ s_arg[Base] \in s_held \union s_unsubscribed
  /\ s_subscribed \subseteq s_held \union s_unsubscribed
  /\ s_user = "dispose_inner" => Base \notin s_held
  /\ \A s \in Sw!Sources : s_pc[s] = "dispose_inner" => Base \notin s_held
  /\ s_disposed /\ ~Sw!Disposing => s_held = {}

\* The type invariant and the bound it rests on.
SwitchTypeInv == Sw!TypeOK /\ SwitchFlowBound

SwitchIInv == SwitchTypeInv /\ SwitchLockInv /\ SwitchPlaceInv /\ SwitchSubscriptionInv /\ Sw!OneLive

-----------------------------------------------------------------------------
(* Each part of the invariant is kept by every action.                      *)

LEMMA SwitchTypeStep ==
  ASSUME SwitchIInv, [Sw!Next]_(Sw!vars)
  PROVE  SwitchTypeInv'
<1> USE SourcesAssumption, MaxEmitsAssumption
  DEF SwitchIInv, SwitchTypeInv, Sw!TypeOK, Sw!CommonTypeOK, SwitchFlowBound, SwitchPlaceInv,
      Sw!Sources, SwitchLabels, Disposers, Sw!CommonLabels, Sw!Goto, Sw!downstream, Sw!subscriptions,
      Sw!sources, Sw!common
<1>1. ASSUME NEW i \in Inners, Sw!InnerNext(i) PROVE SwitchTypeInv'
  BY <1>1 DEF Sw!InnerNext, Sw!EmitNext, Sw!Listening, Sw!Running
<1>2. ASSUME NEW s \in Sw!Sources, Sw!SourceCompleted(s) PROVE SwitchTypeInv'
  BY <1>2 DEF Sw!SourceCompleted, Sw!EmitTerminal, Sw!Listening, Sw!Running
<1>3. ASSUME NEW s \in Sw!Sources, Sw!SourceError(s) PROVE SwitchTypeInv'
  BY <1>3 DEF Sw!SourceError, Sw!EmitTerminal, Sw!Listening, Sw!Running
<1>4. ASSUME Sw!BaseNext PROVE SwitchTypeInv'
  BY <1>4 DEF Sw!BaseNext
<1>5. ASSUME NEW s \in Sw!Sources, Sw!DeliverUnderMutex(s), UNCHANGED current PROVE SwitchTypeInv'
  <2>1. ASSUME s \in Inners, Sw!NextEnter(s) PROVE SwitchTypeInv'
    BY <2>1, <1>5 DEF Sw!NextEnter
  <2>2. ASSUME s \in Inners, Sw!NextLeave(s) PROVE SwitchTypeInv'
    BY <2>2, <1>5 DEF Sw!NextLeave
  <2>3. ASSUME Sw!TerminalEnter(s) PROVE SwitchTypeInv'
    BY <2>3, <1>5 DEF Sw!TerminalEnter
  <2>4. ASSUME Sw!TerminalIgnored(s) PROVE SwitchTypeInv'
    BY <2>4, <1>5 DEF Sw!TerminalIgnored
  <2> QED
    BY <1>5, <2>1, <2>2, <2>3, <2>4 DEF Sw!DeliverUnderMutex
<1>6. ASSUME Sw!Switch PROVE SwitchTypeInv'
  BY <1>6 DEF Sw!Switch
<1>7. ASSUME Sw!Subscribe PROVE SwitchTypeInv'
  BY <1>7 DEF Sw!Subscribe
<1>8. ASSUME NEW s \in Sw!Sources, Sw!DisposeOwn(s) PROVE SwitchTypeInv'
  BY <1>8 DEF Sw!DisposeOwn
<1>9. ASSUME NEW s \in Sw!Sources, Sw!CheckOther(s) PROVE SwitchTypeInv'
  BY <1>9 DEF Sw!CheckOther, Sw!Jump
<1>9a. ASSUME NEW s \in Sw!Sources, Sw!TerminalReturn(s) PROVE SwitchTypeInv'
  BY <1>9a DEF Sw!TerminalReturn, Sw!SetDisposed
<1>9b. ASSUME NEW s \in Sw!Sources, Sw!DisposeBase(s) PROVE SwitchTypeInv'
  BY <1>9b DEF Sw!DisposeBase, Sw!DisposeBaseChild
<1>9c. ASSUME NEW s \in Sw!Sources, Sw!DisposeInner(s) PROVE SwitchTypeInv'
  BY <1>9c DEF Sw!DisposeInner, Sw!DisposeInnerChild
<1>10. ASSUME Sw!Leave PROVE SwitchTypeInv'
  <2>1. CASE Sw!UserDispose /\ UNCHANGED current
    BY <2>1 DEF Sw!UserDispose
  <2>2. CASE Sw!UserSetsDisposed /\ UNCHANGED <<s_mutex, Sw!downstream, Sw!sources, s_pc, current>>
    BY <2>2 DEF Sw!UserSetsDisposed, Sw!SetDisposed
  <2>3. CASE Sw!UserDisposesBase /\ UNCHANGED <<s_mutex, Sw!downstream, Sw!sources, s_pc, current>>
    BY <2>3 DEF Sw!UserDisposesBase, Sw!DisposeBaseChild
  <2>4. CASE Sw!UserDisposesInner /\ UNCHANGED <<s_mutex, Sw!downstream, Sw!sources, s_pc, current>>
    BY <2>4 DEF Sw!UserDisposesInner, Sw!DisposeInnerChild
  <2> QED
    BY <1>10, <2>1, <2>2, <2>3, <2>4 DEF Sw!Leave
<1>11. CASE UNCHANGED Sw!vars
  BY <1>11 DEF Sw!vars
<1>12. ASSUME NEW s \in Sw!Sources, Sw!Emit(s) PROVE SwitchTypeInv'
  BY <1>12, <1>1, <1>2, <1>3, <1>4 DEF Sw!Emit, Sw!InnerNext
<1>13. ASSUME NEW s \in Sw!Sources, Sw!Handle(s) PROVE SwitchTypeInv'
  BY <1>13, <1>5, <1>6, <1>7, <1>8, <1>9, <1>9a, <1>9b, <1>9c DEF Sw!Handle
<1> QED
  BY <1>10, <1>11, <1>12, <1>13 DEF Sw!Next

LEMMA SwitchPlaceStep ==
  ASSUME SwitchIInv, [Sw!Next]_(Sw!vars)
  PROVE  SwitchPlaceInv'
<1> USE SourcesAssumption
  DEF SwitchIInv, SwitchPlaceInv, Sw!Sources, SwitchLabels, Disposers, Sw!CommonLabels, Sw!Goto, Sw!downstream,
      Sw!subscriptions, Sw!sources, Sw!common
<1>1. ASSUME NEW i \in Inners, Sw!InnerNext(i) PROVE SwitchPlaceInv'
  BY <1>1 DEF Sw!InnerNext, Sw!EmitNext, Sw!Listening, Sw!Running
<1>2. ASSUME NEW s \in Sw!Sources, Sw!SourceCompleted(s) PROVE SwitchPlaceInv'
  BY <1>2 DEF Sw!SourceCompleted, Sw!EmitTerminal, Sw!Listening, Sw!Running
<1>3. ASSUME NEW s \in Sw!Sources, Sw!SourceError(s) PROVE SwitchPlaceInv'
  BY <1>3 DEF Sw!SourceError, Sw!EmitTerminal, Sw!Listening, Sw!Running
<1>4. ASSUME Sw!BaseNext PROVE SwitchPlaceInv'
  BY <1>4 DEF Sw!BaseNext
<1>5. ASSUME NEW s \in Sw!Sources, Sw!DeliverUnderMutex(s), UNCHANGED current PROVE SwitchPlaceInv'
  BY <1>5
    DEF Sw!DeliverUnderMutex, Sw!NextEnter, Sw!NextLeave, Sw!TerminalEnter, Sw!TerminalIgnored
<1>6. ASSUME Sw!Switch PROVE SwitchPlaceInv'
  BY <1>6 DEF Sw!Switch
<1>7. ASSUME Sw!Subscribe PROVE SwitchPlaceInv'
  BY <1>7 DEF Sw!Subscribe
<1>8. ASSUME NEW s \in Sw!Sources, Sw!DisposeOwn(s) PROVE SwitchPlaceInv'
  BY <1>8 DEF Sw!DisposeOwn
<1>9. ASSUME NEW s \in Sw!Sources, Sw!CheckOther(s) PROVE SwitchPlaceInv'
  BY <1>9 DEF Sw!CheckOther, Sw!Jump
<1>9a. ASSUME NEW s \in Sw!Sources, Sw!TerminalReturn(s) PROVE SwitchPlaceInv'
  BY <1>9a DEF Sw!TerminalReturn, Sw!SetDisposed
<1>9b. ASSUME NEW s \in Sw!Sources, Sw!DisposeBase(s) PROVE SwitchPlaceInv'
  BY <1>9b DEF Sw!DisposeBase, Sw!DisposeBaseChild
<1>9c. ASSUME NEW s \in Sw!Sources, Sw!DisposeInner(s) PROVE SwitchPlaceInv'
  BY <1>9c DEF Sw!DisposeInner, Sw!DisposeInnerChild
<1>10. ASSUME Sw!Leave PROVE SwitchPlaceInv'
  <2>1. CASE Sw!UserDispose /\ UNCHANGED current
    BY <2>1 DEF Sw!UserDispose
  <2>2. CASE Sw!UserSetsDisposed /\ UNCHANGED <<s_mutex, Sw!downstream, Sw!sources, s_pc, current>>
    BY <2>2 DEF Sw!UserSetsDisposed, Sw!SetDisposed
  <2>3. CASE Sw!UserDisposesBase /\ UNCHANGED <<s_mutex, Sw!downstream, Sw!sources, s_pc, current>>
    BY <2>3 DEF Sw!UserDisposesBase, Sw!DisposeBaseChild
  <2>4. CASE Sw!UserDisposesInner /\ UNCHANGED <<s_mutex, Sw!downstream, Sw!sources, s_pc, current>>
    BY <2>4 DEF Sw!UserDisposesInner, Sw!DisposeInnerChild
  <2> QED
    BY <1>10, <2>1, <2>2, <2>3, <2>4 DEF Sw!Leave
<1>11. CASE UNCHANGED Sw!vars
  BY <1>11 DEF Sw!vars
<1>12. ASSUME NEW s \in Sw!Sources, Sw!Emit(s) PROVE SwitchPlaceInv'
  BY <1>12, <1>1, <1>2, <1>3, <1>4 DEF Sw!Emit, Sw!InnerNext
<1>13. ASSUME NEW s \in Sw!Sources, Sw!Handle(s) PROVE SwitchPlaceInv'
  BY <1>13, <1>5, <1>6, <1>7, <1>8, <1>9, <1>9a, <1>9b, <1>9c DEF Sw!Handle
<1> QED
  BY <1>10, <1>11, <1>12, <1>13 DEF Sw!Next

LEMMA SwitchSubscriptionStep ==
  ASSUME SwitchIInv, [Sw!Next]_(Sw!vars)
  PROVE  SwitchSubscriptionInv'
<1> USE SourcesAssumption
  DEF SwitchIInv, SwitchPlaceInv, SwitchSubscriptionInv, Sw!Sources, SwitchLabels, Disposers, Sw!CommonLabels,
      Sw!Goto, Sw!downstream, Sw!subscriptions, Sw!sources, Sw!common, Sw!Disposing
<1>1. ASSUME NEW i \in Inners, Sw!InnerNext(i) PROVE SwitchSubscriptionInv'
  BY <1>1 DEF Sw!InnerNext, Sw!EmitNext, Sw!Listening, Sw!Running
<1>2. ASSUME NEW s \in Sw!Sources, Sw!SourceCompleted(s) PROVE SwitchSubscriptionInv'
  BY <1>2 DEF Sw!SourceCompleted, Sw!EmitTerminal, Sw!Listening, Sw!Running
<1>3. ASSUME NEW s \in Sw!Sources, Sw!SourceError(s) PROVE SwitchSubscriptionInv'
  BY <1>3 DEF Sw!SourceError, Sw!EmitTerminal, Sw!Listening, Sw!Running
<1>4. ASSUME Sw!BaseNext PROVE SwitchSubscriptionInv'
  <2>1. s_pc[Base] = "idle" /\ s_pc' = [s_pc EXCEPT ![Base] = "switch"] /\ s_user' = s_user
    BY <1>4 DEF Sw!BaseNext, Sw!Listening, Sw!Running
  <2>2. Sw!Disposing' <=> Sw!Disposing
    BY <2>1
  <2>3. /\ UNCHANGED <<s_held, s_disposed, s_unsubscribed, s_subscribed, current>>
        /\ \A s \in Sw!Sources : s_pc'[s] = IF s = Base THEN "switch" ELSE s_pc[s]
    BY <1>4, <2>1 DEF Sw!BaseNext
  <2> QED
    BY <2>1, <2>2, <2>3
<1>5. ASSUME NEW s \in Sw!Sources, Sw!DeliverUnderMutex(s), UNCHANGED current PROVE SwitchSubscriptionInv'
  BY <1>5
    DEF Sw!DeliverUnderMutex, Sw!NextEnter, Sw!NextLeave, Sw!TerminalEnter, Sw!TerminalIgnored
<1>6. ASSUME Sw!Switch PROVE SwitchSubscriptionInv'
  BY <1>6 DEF Sw!Switch
<1>7. ASSUME Sw!Subscribe PROVE SwitchSubscriptionInv'
  BY <1>7 DEF Sw!Subscribe
<1>8. ASSUME NEW s \in Sw!Sources, Sw!DisposeOwn(s) PROVE SwitchSubscriptionInv'
  BY <1>8 DEF Sw!DisposeOwn
<1>9. ASSUME NEW s \in Sw!Sources, Sw!CheckOther(s) PROVE SwitchSubscriptionInv'
  BY <1>9 DEF Sw!CheckOther, Sw!Jump
<1>9a. ASSUME NEW s \in Sw!Sources, Sw!TerminalReturn(s) PROVE SwitchSubscriptionInv'
  BY <1>9a DEF Sw!TerminalReturn, Sw!SetDisposed
<1>9b. ASSUME NEW s \in Sw!Sources, Sw!DisposeBase(s) PROVE SwitchSubscriptionInv'
  BY <1>9b DEF Sw!DisposeBase, Sw!DisposeBaseChild
<1>9c. ASSUME NEW s \in Sw!Sources, Sw!DisposeInner(s) PROVE SwitchSubscriptionInv'
  <2>1. s_held' = s_held \ {current} /\ s_unsubscribed' = s_unsubscribed \union ({current} \ {NoOne})
        /\ UNCHANGED <<s_disposed, s_user, s_arg, s_subscribed, current>>
    BY <1>9c DEF Sw!DisposeInner, Sw!DisposeInnerChild
  <2>2. Base \notin s_held /\ s_held \ {Base} \subseteq {current} /\ s_held \subseteq Sw!Sources
    BY <1>9c DEF Sw!DisposeInner, Sw!OneLive, SwitchTypeInv, Sw!TypeOK, Sw!CommonTypeOK
  <2>3. s_held' = {}
    BY <2>1, <2>2
  <2>4. NoOne \notin s_held
    BY <2>2
  <2>5. s_pc'[Base] = "subscribe" => s_pc[Base] = "subscribe"
    BY <1>9c DEF Sw!DisposeInner
  <2>6. s_held \union s_unsubscribed \subseteq s_held' \union s_unsubscribed'
    BY <2>1, <2>4
  <2>7. /\ s_pc'[Base] = "subscribe" =>
             s_arg'[Base] = current' /\ s_arg'[Base] \in s_held' \union s_unsubscribed'
        /\ s_subscribed' \subseteq s_held' \union s_unsubscribed'
    BY <2>1, <2>5, <2>6
  <2> QED
    BY <2>3, <2>7
<1>10. ASSUME Sw!Leave PROVE SwitchSubscriptionInv'
  <2>1. CASE Sw!UserDispose /\ UNCHANGED current
    BY <2>1 DEF Sw!UserDispose
  <2>2. CASE Sw!UserSetsDisposed /\ UNCHANGED <<s_mutex, Sw!downstream, Sw!sources, s_pc, current>>
    BY <2>2 DEF Sw!UserSetsDisposed, Sw!SetDisposed
  <2>3. CASE Sw!UserDisposesBase /\ UNCHANGED <<s_mutex, Sw!downstream, Sw!sources, s_pc, current>>
    BY <2>3 DEF Sw!UserDisposesBase, Sw!DisposeBaseChild
  <2>4. CASE Sw!UserDisposesInner /\ UNCHANGED <<s_mutex, Sw!downstream, Sw!sources, s_pc, current>>
    <3>1. s_held' = s_held \ {current} /\ s_unsubscribed' = s_unsubscribed \union ({current} \ {NoOne})
          /\ UNCHANGED <<s_disposed, s_pc, s_arg, s_subscribed, current>>
      BY <2>4 DEF Sw!UserDisposesInner, Sw!DisposeInnerChild
    <3>2. Base \notin s_held /\ s_held \ {Base} \subseteq {current} /\ s_held \subseteq Sw!Sources
      BY <2>4 DEF Sw!UserDisposesInner, Sw!OneLive, SwitchTypeInv, Sw!TypeOK, Sw!CommonTypeOK
    <3>3. s_held' = {}
      BY <3>1, <3>2
    <3>4. NoOne \notin s_held
      BY <3>2
    <3>5. s_held \union s_unsubscribed \subseteq s_held' \union s_unsubscribed'
      BY <3>1, <3>4
    <3>6. /\ s_pc'[Base] = "subscribe" =>
               s_arg'[Base] = current' /\ s_arg'[Base] \in s_held' \union s_unsubscribed'
          /\ s_subscribed' \subseteq s_held' \union s_unsubscribed'
      BY <3>1, <3>5
    <3> QED
      BY <3>3, <3>6
  <2> QED
    BY <1>10, <2>1, <2>2, <2>3, <2>4 DEF Sw!Leave
<1>11. CASE UNCHANGED Sw!vars
  BY <1>11 DEF Sw!vars
<1>12. ASSUME NEW s \in Sw!Sources, Sw!Emit(s) PROVE SwitchSubscriptionInv'
  BY <1>12, <1>1, <1>2, <1>3, <1>4 DEF Sw!Emit, Sw!InnerNext
<1>13. ASSUME NEW s \in Sw!Sources, Sw!Handle(s) PROVE SwitchSubscriptionInv'
  BY <1>13, <1>5, <1>6, <1>7, <1>8, <1>9, <1>9a, <1>9b, <1>9c DEF Sw!Handle
<1> QED
  BY <1>10, <1>11, <1>12, <1>13 DEF Sw!Next

LEMMA SwitchLiveStep ==
  ASSUME SwitchIInv, [Sw!Next]_(Sw!vars)
  PROVE  Sw!OneLive'
<1> USE SourcesAssumption
  DEF SwitchIInv, SwitchPlaceInv, SwitchSubscriptionInv, Sw!OneLive, Sw!Sources, Sw!Goto,
      Sw!downstream, Sw!subscriptions, Sw!sources, Sw!common
<1>1. ASSUME NEW i \in Inners, Sw!InnerNext(i) PROVE Sw!OneLive'
  BY <1>1 DEF Sw!InnerNext, Sw!EmitNext, Sw!Listening, Sw!Running
<1>2. ASSUME NEW s \in Sw!Sources, Sw!SourceCompleted(s) PROVE Sw!OneLive'
  BY <1>2 DEF Sw!SourceCompleted, Sw!EmitTerminal, Sw!Listening, Sw!Running
<1>3. ASSUME NEW s \in Sw!Sources, Sw!SourceError(s) PROVE Sw!OneLive'
  BY <1>3 DEF Sw!SourceError, Sw!EmitTerminal, Sw!Listening, Sw!Running
<1>4. ASSUME Sw!BaseNext PROVE Sw!OneLive'
  BY <1>4 DEF Sw!BaseNext
<1>5. ASSUME NEW s \in Sw!Sources, Sw!DeliverUnderMutex(s), UNCHANGED current PROVE Sw!OneLive'
  BY <1>5
    DEF Sw!DeliverUnderMutex, Sw!NextEnter, Sw!NextLeave, Sw!TerminalEnter, Sw!TerminalIgnored
<1>6. ASSUME Sw!Switch PROVE Sw!OneLive'
  BY <1>6 DEF Sw!Switch
<1>7. ASSUME Sw!Subscribe PROVE Sw!OneLive'
  BY <1>7 DEF Sw!Subscribe
<1>8. ASSUME NEW s \in Sw!Sources, Sw!DisposeOwn(s) PROVE Sw!OneLive'
  BY <1>8 DEF Sw!DisposeOwn
<1>9. ASSUME NEW s \in Sw!Sources, Sw!CheckOther(s) PROVE Sw!OneLive'
  BY <1>9 DEF Sw!CheckOther, Sw!Jump
<1>9a. ASSUME NEW s \in Sw!Sources, Sw!TerminalReturn(s) PROVE Sw!OneLive'
  BY <1>9a DEF Sw!TerminalReturn, Sw!SetDisposed
<1>9b. ASSUME NEW s \in Sw!Sources, Sw!DisposeBase(s) PROVE Sw!OneLive'
  BY <1>9b DEF Sw!DisposeBase, Sw!DisposeBaseChild
<1>9c. ASSUME NEW s \in Sw!Sources, Sw!DisposeInner(s) PROVE Sw!OneLive'
  BY <1>9c DEF Sw!DisposeInner, Sw!DisposeInnerChild
<1>10. ASSUME Sw!Leave PROVE Sw!OneLive'
  <2>1. CASE Sw!UserDispose /\ UNCHANGED current
    BY <2>1 DEF Sw!UserDispose
  <2>2. CASE Sw!UserSetsDisposed /\ UNCHANGED <<s_mutex, Sw!downstream, Sw!sources, s_pc, current>>
    BY <2>2 DEF Sw!UserSetsDisposed, Sw!SetDisposed
  <2>3. CASE Sw!UserDisposesBase /\ UNCHANGED <<s_mutex, Sw!downstream, Sw!sources, s_pc, current>>
    BY <2>3 DEF Sw!UserDisposesBase, Sw!DisposeBaseChild
  <2>4. CASE Sw!UserDisposesInner /\ UNCHANGED <<s_mutex, Sw!downstream, Sw!sources, s_pc, current>>
    BY <2>4 DEF Sw!UserDisposesInner, Sw!DisposeInnerChild
  <2> QED
    BY <1>10, <2>1, <2>2, <2>3, <2>4 DEF Sw!Leave
<1>11. CASE UNCHANGED Sw!vars
  BY <1>11 DEF Sw!vars
<1>12. ASSUME NEW s \in Sw!Sources, Sw!Emit(s) PROVE Sw!OneLive'
  BY <1>12, <1>1, <1>2, <1>3, <1>4 DEF Sw!Emit, Sw!InnerNext
<1>13. ASSUME NEW s \in Sw!Sources, Sw!Handle(s) PROVE Sw!OneLive'
  BY <1>13, <1>5, <1>6, <1>7, <1>8, <1>9, <1>9a, <1>9b, <1>9c DEF Sw!Handle
<1> QED
  BY <1>10, <1>11, <1>12, <1>13 DEF Sw!Next

-----------------------------------------------------------------------------
(* The calls of the downstream observer.                                    *)

LEMMA SwitchLockStep ==
  ASSUME SwitchIInv, [Sw!Next]_(Sw!vars)
  PROVE  SwitchLockInv' /\ SwitchContractStep
<1>0. SwitchLockInv /\ s_pc \in [Sw!Sources -> SwitchLabels]
  BY DEF SwitchIInv, SwitchPlaceInv
<1> USE <1>0
<1>1. ASSUME NEW i \in Inners, Sw!InnerNext(i) PROVE SwitchLockInv' /\ SwitchContractStep
  BY <1>1, SwitchLockEmitNext DEF Sw!InnerNext
<1>2. ASSUME NEW s \in Sw!Sources, Sw!SourceCompleted(s) PROVE SwitchLockInv' /\ SwitchContractStep
  <2>1. "dispose_own" \notin SwitchLocked /\ s_pc' = [s_pc EXCEPT ![s] = "dispose_own"]
    BY <1>2 DEF Sw!SourceCompleted, Sw!EmitTerminal, Sw!Listening, Sw!Running, Sw!Goto, SwitchLocked, Locked, Disposers
  <2> QED
    BY <2>1, <1>2, SwitchLockOwnStep
      DEF Sw!SourceCompleted, Sw!EmitTerminal, Sw!Listening, Sw!Running, Sw!Sources, Sw!downstream
<1>3. ASSUME NEW s \in Sw!Sources, Sw!SourceError(s) PROVE SwitchLockInv' /\ SwitchContractStep
  <2>1. "error" \notin SwitchLocked /\ s_pc' = [s_pc EXCEPT ![s] = "error"]
    BY <1>3 DEF Sw!SourceError, Sw!EmitTerminal, Sw!Listening, Sw!Running, Sw!Goto, SwitchLocked, Locked, Disposers
  <2> QED
    BY <2>1, <1>3, SwitchLockOwnStep
      DEF Sw!SourceError, Sw!EmitTerminal, Sw!Listening, Sw!Running, Sw!Sources, Sw!downstream
<1>4. ASSUME Sw!BaseNext PROVE SwitchLockInv' /\ SwitchContractStep
  <2>1. "switch" \notin SwitchLocked /\ s_pc' = [s_pc EXCEPT ![Base] = "switch"]
    BY <1>4 DEF Sw!BaseNext, Sw!Goto, SwitchLocked, Locked, Disposers
  <2> QED
    BY <2>1, <1>4, SwitchLockOwnStep DEF Sw!BaseNext, Sw!Sources, Sw!downstream
<1>5. ASSUME NEW s \in Sw!Sources, Sw!DeliverUnderMutex(s), UNCHANGED current
      PROVE SwitchLockInv' /\ SwitchContractStep
  BY <1>5, SwitchLockDeliver
<1>6. ASSUME Sw!Switch PROVE SwitchLockInv' /\ SwitchContractStep
  <2>1. PICK label : label \notin SwitchLocked /\ s_pc' = [s_pc EXCEPT ![Base] = label]
    BY <1>6 DEF Sw!Switch, Sw!Goto, SwitchLocked, Locked, Disposers
  <2> QED
    BY <2>1, <1>6, SwitchLockOwnStep DEF Sw!Switch, Sw!Sources, Sw!downstream
<1>7. ASSUME Sw!Subscribe PROVE SwitchLockInv' /\ SwitchContractStep
  <2>1. "idle" \notin SwitchLocked /\ s_pc' = [s_pc EXCEPT ![Base] = "idle"]
    BY <1>7 DEF Sw!Subscribe, Sw!Goto, SwitchLocked, Locked, Disposers
  <2> QED
    BY <2>1, <1>7, SwitchLockOwnStep DEF Sw!Subscribe, Sw!Sources, Sw!downstream
<1>8. ASSUME NEW s \in Sw!Sources, Sw!DisposeOwn(s) PROVE SwitchLockInv' /\ SwitchContractStep
  <2>1. "check_other" \notin SwitchLocked /\ s_pc' = [s_pc EXCEPT ![s] = "check_other"]
    BY <1>8 DEF Sw!DisposeOwn, Sw!Goto, SwitchLocked, Locked, Disposers
  <2> QED
    BY <2>1, <1>8, SwitchLockOwnStep DEF Sw!DisposeOwn, Sw!Sources, Sw!downstream
<1>9. ASSUME NEW s \in Sw!Sources, Sw!CheckOther(s) PROVE SwitchLockInv' /\ SwitchContractStep
  <2>1. PICK label : label \notin SwitchLocked /\ s_pc' = [s_pc EXCEPT ![s] = label]
    BY <1>9 DEF Sw!CheckOther, Sw!Jump, Sw!Goto, SwitchLocked, Locked, Disposers
  <2> QED
    BY <2>1, <1>9, SwitchLockOwnStep
      DEF Sw!CheckOther, Sw!Jump, Sw!Sources, Sw!downstream
<1>9a. ASSUME NEW s \in Sw!Sources, Sw!TerminalReturn(s) PROVE SwitchLockInv' /\ SwitchContractStep
  BY <1>9a, SwitchLockTerminalReturn
<1>9b. ASSUME NEW s \in Sw!Sources, Sw!DisposeBase(s) \/ Sw!DisposeInner(s)
       PROVE SwitchLockInv' /\ SwitchContractStep
  BY <1>9b, SwitchLockDispose
<1>10. ASSUME Sw!Leave PROVE SwitchLockInv' /\ SwitchContractStep
  BY <1>10, SwitchLockUser
<1>11. CASE UNCHANGED Sw!vars
  BY <1>11 DEF Sw!vars, Sw!common, Sw!downstream, SwitchLockInv, SwitchContractStep
<1>12. ASSUME NEW s \in Sw!Sources, Sw!Emit(s) PROVE SwitchLockInv' /\ SwitchContractStep
  BY <1>12, <1>1, <1>2, <1>3, <1>4 DEF Sw!Emit, Sw!InnerNext
<1>13. ASSUME NEW s \in Sw!Sources, Sw!Handle(s) PROVE SwitchLockInv' /\ SwitchContractStep
  BY <1>13, <1>5, <1>6, <1>7, <1>8, <1>9, <1>9a, <1>9b DEF Sw!Handle
<1> QED
  BY <1>10, <1>11, <1>12, <1>13 DEF Sw!Next

-----------------------------------------------------------------------------
(* Theorems                                                                 *)

LEMMA SwitchInitInv == Sw!Init => SwitchIInv
<1> SUFFICES ASSUME Sw!Init PROVE SwitchIInv
  OBVIOUS
<1> USE SourcesAssumption DEF Sw!Init, Sw!CommonInit, Sw!Sources
<1>0. SwitchTypeInv
  <2>1. 0 \in 0..MaxEmits
    BY MaxEmitsAssumption
  <2>2. Sw!CommonTypeOK
    BY <2>1 DEF Sw!CommonTypeOK
  <2>3. Sw!TypeOK
    BY <2>2 DEF Sw!TypeOK, Sw!CommonLabels
  <2> QED
    BY <2>3 DEF SwitchTypeInv, SwitchFlowBound
<1>1. SwitchLockInv
  BY SwitchLockInit
<1>2. SwitchPlaceInv
  BY DEF SwitchPlaceInv, SwitchLabels, Disposers, Sw!CommonLabels
<1>3. SwitchSubscriptionInv /\ Sw!OneLive
  BY DEF SwitchSubscriptionInv, Sw!OneLive
<1> QED
  BY <1>0, <1>1, <1>2, <1>3 DEF SwitchIInv

LEMMA SwitchStepInv == SwitchIInv /\ [Sw!Next]_(Sw!vars) => SwitchIInv'
<1> SUFFICES ASSUME SwitchIInv, [Sw!Next]_(Sw!vars) PROVE SwitchIInv'
  OBVIOUS
<1> QED
  BY SwitchTypeStep, SwitchLockStep, SwitchPlaceStep, SwitchSubscriptionStep, SwitchLiveStep
    DEF SwitchIInv

\* The invariant of switch_on_next.
THEOREM SwitchInductive == Sw!Spec => []SwitchIInv
  BY SwitchInitInv, SwitchStepInv, PTL DEF Sw!Spec

\* Type correctness; no more is delivered than was emitted.
THEOREM SwitchTypeCorrect == Sw!Spec => []Sw!TypeOK
<1>1. SwitchIInv => Sw!TypeOK
  BY DEF SwitchIInv, SwitchTypeInv
<1> QED
  BY <1>1, SwitchInductive, PTL

\* When dispose() of the state has returned, nothing that was subscribed to stays, also
\* the inner observable whose subscription was under way.
THEOREM SwitchNoLeaks == Sw!Spec => []Sw!NothingStays
<1>1. SwitchIInv => Sw!NothingStays
  BY DEF SwitchIInv, SwitchSubscriptionInv, Sw!NothingStays
<1> QED
  BY <1>1, SwitchInductive, PTL

\* switch_on_next implements the observable contract.
THEOREM SwitchRefines == Sw!Spec => Sw!FollowsContract
<1>1. Sw!Init => Sw!Contract!Init
  BY SwitchLockInit DEF Sw!Init
<1>2. SwitchIInv /\ [Sw!Next]_(Sw!vars) => [Sw!Contract!Next]_<<s_inside, s_observer \in {"completed", "error"}>>
  BY SwitchLockStep DEF SwitchContractStep
<1> QED
  BY <1>1, <1>2, SwitchInductive, PTL DEF Sw!Spec, Sw!FollowsContract, Sw!Contract!Spec

-----------------------------------------------------------------------------
(* A behaviour of MCMerge is one of Merge and one of SwitchOnNext.           *)

LEMMA MergeAlways == AllFairSpec => []IInv
<1>1. AllInit => IInv
  BY InitInv DEF AllInit
<1>2. IInv /\ [AllNext]_allVars => IInv'
  <2>1. [AllNext]_allVars => [Next]_vars
    BY DEF AllNext, OfMerge, OfSwitch, allVars
  <2> QED
    BY <2>1, StepInv
<1> QED
  BY <1>1, <1>2, PTL DEF AllFairSpec

LEMMA SwitchAlways == AllFairSpec => []SwitchIInv
<1>1. AllInit => SwitchIInv
  BY SwitchInitInv DEF AllInit
<1>2. SwitchIInv /\ [AllNext]_allVars => SwitchIInv'
  <2>1. [AllNext]_allVars => [Sw!Next]_(Sw!vars)
    BY DEF AllNext, OfMerge, OfSwitch, allVars, ofSwitch, Sw!vars, Sw!common, Sw!downstream,
           Sw!subscriptions, Sw!sources
  <2> QED
    BY <2>1, SwitchStepInv
<1> QED
  BY <1>1, <1>2, PTL DEF AllFairSpec

\* What was subscribed to is not left so when the result has ended or its subscriber
\* has left, whoever was being subscribed to or switched to at that time.
THEOREM NoLeaks == AllFairSpec => []NothingStays
<1>1. IInv /\ SwitchIInv => NothingStays
  BY DEF IInv, SubscriptionInv, NoSourceLeaks, NothingStays,
         SwitchIInv, SwitchSubscriptionInv, Sw!NothingStays
<1> QED
  BY <1>1, MergeAlways, SwitchAlways, PTL

\* Of all inner observables emitted so far only the latest can be live.
THEOREM OnlyLatest == AllFairSpec => []OneLive
<1>1. SwitchIInv => OneLive
  BY DEF SwitchIInv, OneLive
<1> QED
  BY <1>1, SwitchAlways, PTL

-----------------------------------------------------------------------------
(* concat: the stage lets one thread drain and one inner observable run at a *)
(* time, the relaxed store notwithstanding.                                 *)

\* Its mutex, its observer and its contract are those of CombiningOperator.
LEMMA SameConcat ==
  /\ Con!Sources = Sources
  /\ Con!CommonInit => CommonInit
  /\ \A i \in Inners : Con!EmitNext(i) => EmitNext(i)
  /\ \A s \in Con!Sources : Con!Deliver(s) => Deliver(s)
  /\ Con!User => User
  /\ Contract!Init => Con!Contract!Init
  /\ Contract!Next => Con!Contract!Next
<1> USE DEF Con!Sources, Sources, Con!Goto, Goto, Con!downstream, downstream,
            Con!subscriptions, subscriptions, Con!sources, sources, Con!DisposeState, DisposeState
<1>1. Con!CommonInit => CommonInit
  BY DEF Con!CommonInit, CommonInit
<1>2. ASSUME NEW i \in Inners, Con!EmitNext(i) PROVE EmitNext(i)
  BY <1>2, Zenon DEF Con!EmitNext, EmitNext
<1>3. ASSUME NEW s \in Con!Sources, Con!Deliver(s) PROVE Deliver(s)
  <2>1. Con!NextEnter(s) => NextEnter(s)
    BY Zenon DEF Con!NextEnter, NextEnter
  <2>2. Con!NextLeave(s) => NextLeave(s)
    BY Zenon DEF Con!NextLeave, NextLeave
  <2>3. Con!TerminalEnter(s) => TerminalEnter(s)
    BY Zenon DEF Con!TerminalEnter, TerminalEnter
  <2>4. Con!TerminalLeave(s) => TerminalLeave(s)
    BY Zenon DEF Con!TerminalLeave, TerminalLeave
  <2>5. Con!TerminalIgnored(s) => TerminalIgnored(s)
    BY Zenon DEF Con!TerminalIgnored, TerminalIgnored
  <2> QED
    BY <1>3, <2>1, <2>2, <2>3, <2>4, <2>5, Zenon
      DEF Con!Deliver, Con!DeliverUnderMutex, Deliver, DeliverUnderMutex
<1>4. Con!User => User
  BY Zenon DEF Con!User, Con!UserDispose, Con!UserDisposeUpstream, User, UserDispose, UserDisposeUpstream
<1>5. Contract!Init => Con!Contract!Init
  BY DEF Contract!Init, Con!Contract!Init
<1>6. Contract!Next => Con!Contract!Next
  BY Zenon DEF Contract!Next, Contract!OnNext, Contract!OnTerminal, Contract!Return,
               Con!Contract!Next, Con!Contract!OnNext, Con!Contract!OnTerminal, Con!Contract!Return
<1> QED
  BY <1>1, <1>2, <1>3, <1>4, <1>5, <1>6

ConcatLabels == Con!CommonLabels \union
  {"offer", "push", "handle", "subscribe", "subscribed", "drain", "store_none",
   "check_base", "clear", "leave_stage", "dispose_base", "check_stage"}

\* The types the argument needs, what the threads have in hand, and where an
\* inner observable is that has completed but not left the stage.
ConcatPlaceInv ==
  /\ subscribed \subseteq Con!Sources
  /\ m_queue \in Seq(Inners)
  /\ arg \in [Con!Sources -> Inners \union {NoOne}]
  /\ \A s \in Con!Sources : pc[s] \in {"handle", "subscribe"} => arg[s] \in Inners
  /\ pc[Base] \in {"offer", "push"} => arg[Base] \in Inners
  /\ pc \in [Con!Sources -> ConcatLabels]
  /\ finished \in [Con!Sources -> {"no", "completed", "error"}]
  /\ m_stage \in Con!Stages
  /\ \A i \in Inners :
       pc[i] \in {"clear", "leave_stage"} => finished[i] = "completed" /\ i \in subscribed

\* Who has the turn: a thread that takes observables from the queue, or an
\* inner observable that runs or has not yet left the stage.
ConcatDraining(s) == pc[s] \in {"handle", "subscribe", "subscribed", "drain", "store_none"}
ConcatActive(i) ==
  i \in subscribed /\ (finished[i] = "no" \/ pc[i] \in {"clear", "leave_stage"})

\* There is one turn.  While it is with a thread that has just subscribed, it
\* is also with the inner observable, and the stage tells which of the two
\* leaves last; None, seen or not, means that nobody has it.
ConcatTurnInv ==
  /\ \A s, t \in Con!Sources : ConcatDraining(s) /\ ConcatDraining(t) => s = t
  /\ \A i, j \in Inners : ConcatActive(i) /\ ConcatActive(j) => i = j
  /\ \A s \in Con!Sources : ConcatDraining(s) =>
       /\ pc[s] # "subscribed" => \A i \in Inners : ~ConcatActive(i)
       /\ pc[s] = "subscribed" => m_stage \in {"Draining", "CompletedWhileDraining"}
       /\ pc[s] = "subscribe" => m_stage = "Draining"
  /\ \A i \in Inners : ConcatActive(i) => m_stage \in {"Draining", "Processing"}
  /\ unseen # NoOne => m_stage # "None"
  /\ m_stage = "None" \/ unseen # NoOne =>
       (\A s \in Con!Sources : ~ConcatDraining(s)) /\ (\A i \in Inners : ~ConcatActive(i))

\* Every subscription is held by the concat_disposable or has been disposed of.
ConcatSubscriptionInv ==
  /\ subscribed \subseteq held \union unsubscribed
  /\ disposed => held = {}

\* The type invariant and the bound it rests on.
ConcatTypeInv == Con!TypeOK /\ FlowBound

ConcatIInv == ConcatTypeInv /\ LockInv /\ ConcatPlaceInv /\ ConcatTurnInv /\ ConcatSubscriptionInv

-----------------------------------------------------------------------------
(* Each part of the invariant is kept by every action.                      *)

\* A step that moves one source on and changes nothing but the operator's own
\* state, to something of its type.
LEMMA ConcatJumpStep ==
  ASSUME ConcatIInv, NEW s \in Con!Sources, NEW label \in ConcatLabels, label # "next", Con!Jump(s, label),
         m_stage' \in Con!Stages, m_queue' \in Seq(Inners),
         unseen' \in Con!Sources \union {NoOne}, offered' \subseteq Inners
  PROVE  ConcatTypeInv'
<1>1. Con!CommonTypeOK'
  BY
    DEF ConcatIInv, ConcatTypeInv, Con!TypeOK, Con!CommonTypeOK, Con!Jump, Con!Goto, Con!downstream,
        Con!subscriptions, Con!sources
<1>2. pc' \in [Con!Sources -> ConcatLabels] /\ \A t \in Con!Sources : pc'[t] = "next" => pc[t] = "next"
  BY DEF ConcatIInv, ConcatTypeInv, Con!TypeOK, ConcatLabels, Con!Jump, Con!Goto
<1>3. UNCHANGED <<delivered, emitted>>
  BY DEF Con!Jump, Con!Goto, Con!downstream, Con!sources
<1>4. FlowBound'
  BY <1>2, <1>3, MaxEmitsAssumption
    DEF ConcatIInv, ConcatTypeInv, Con!TypeOK, Con!CommonTypeOK, FlowBound, Con!Sources
<1> QED
  BY <1>1, <1>2, <1>4 DEF ConcatTypeInv, Con!TypeOK, ConcatLabels

\* The steps that move a thread on and touch nothing but the stage and the queue.
ConcatMoves(s) ==
  \/ s = Base /\ (Con!OfferTaken \/ Con!OfferBusy \/ Con!Push \/ Con!CheckStage)
  \/ s \in Inners /\ Con!LeaveStage(s)
  \/ Con!StoreDraining(s) \/ Con!Handled(s) \/ Con!DrainEmpty(s) \/ Con!DrainDisposed(s)
  \/ Con!StoreNone(s) \/ Con!CheckBase(s)

LEMMA ConcatMoveStep ==
  ASSUME ConcatIInv, NEW s \in Con!Sources, ConcatMoves(s)
  PROVE  ConcatTypeInv'
<1>1. /\ m_stage \in Con!Stages /\ m_queue \in Seq(Inners)
      /\ unseen \in Con!Sources \union {NoOne} /\ offered \subseteq Inners
  BY DEF ConcatIInv, ConcatTypeInv, Con!TypeOK
<1> USE DEF ConcatLabels, Con!CommonLabels, Con!Stages, Con!own
<1>2. CASE s = Base /\ Con!Push
  <2>1. arg[Base] \in Inners
    BY <1>2 DEF ConcatIInv, ConcatPlaceInv, Con!Push
  <2>2. m_queue' \in Seq(Inners)
    BY <1>1, <1>2, <2>1 DEF Con!Push
  <2>3. Con!Jump(s, "idle") /\ m_stage' \in Con!Stages /\ unseen' \in Con!Sources \union {NoOne} /\ offered' \subseteq Inners
    BY <1>1, <1>2 DEF Con!Push
  <2> QED
    BY <2>2, <2>3, ConcatJumpStep
<1>3. CASE s = Base /\ (Con!OfferTaken \/ Con!OfferBusy \/ Con!CheckStage)
  BY <1>1, <1>3, ConcatJumpStep DEF Con!OfferTaken, Con!OfferBusy, Con!CheckStage
<1>4. CASE Con!StoreDraining(s) \/ Con!DrainEmpty(s) \/ Con!StoreNone(s)
  BY <1>1, <1>4, ConcatJumpStep DEF Con!StoreDraining, Con!DrainEmpty, Con!StoreNone
<1>5. CASE Con!Handled(s)
  BY <1>1, <1>5, ConcatJumpStep DEF Con!Handled, Con!Over
<1>6. CASE s \in Inners /\ Con!LeaveStage(s)
  BY <1>1, <1>6, ConcatJumpStep DEF Con!LeaveStage
<1>7. CASE Con!DrainDisposed(s) \/ Con!CheckBase(s)
  BY <1>1, <1>7, ConcatJumpStep DEF Con!DrainDisposed, Con!CheckBase, Con!Over
<1> QED
  BY <1>2, <1>3, <1>4, <1>5, <1>6, <1>7 DEF ConcatMoves

LEMMA ConcatTypeStep ==
  ASSUME ConcatIInv, [Con!Next]_(Con!vars)
  PROVE  ConcatTypeInv'
<1> USE SourcesAssumption, MaxEmitsAssumption
  DEF ConcatIInv, ConcatTypeInv, Con!TypeOK, Con!CommonTypeOK, FlowBound, ConcatPlaceInv,
      Con!Sources, ConcatLabels, Con!CommonLabels, Con!Stages, Con!Goto, Con!own, Con!downstream,
      Con!subscriptions, Con!sources, Con!common
<1>1. ASSUME NEW i \in Inners, Con!InnerNext(i) PROVE ConcatTypeInv'
  BY <1>1 DEF Con!InnerNext, Con!EmitNext, Con!Listening, Con!Running
<1>2. ASSUME NEW i \in Inners, Con!InnerCompleted(i) PROVE ConcatTypeInv'
  BY <1>2 DEF Con!InnerCompleted, Con!EmitTerminal, Con!Listening, Con!Running
<1>3. ASSUME NEW s \in Con!Sources, Con!SourceError(s) PROVE ConcatTypeInv'
  BY <1>3 DEF Con!SourceError, Con!EmitTerminal, Con!Listening, Con!Running
<1>4. ASSUME Con!BaseNext PROVE ConcatTypeInv'
  BY <1>4 DEF Con!BaseNext
<1>5. ASSUME Con!BaseCompleted PROVE ConcatTypeInv'
  BY <1>5 DEF Con!BaseCompleted, Con!EmitTerminal, Con!Listening, Con!Running
<1>6. ASSUME NEW s \in Con!Sources, Con!Deliver(s), UNCHANGED Con!own PROVE ConcatTypeInv'
  <2>1. ASSUME s \in Inners, Con!NextEnter(s) PROVE ConcatTypeInv'
    <3>1. delivered[s] + 1 \in 0..MaxEmits
      BY <2>1 DEF Con!NextEnter
    <3>2. delivered' \in [Inners -> 0..MaxEmits]
      BY <2>1, <3>1 DEF Con!NextEnter
    <3>3. FlowBound'
      BY <2>1 DEF Con!NextEnter
    <3> QED
      BY <2>1, <1>6, <3>2, <3>3 DEF Con!NextEnter
  <2>2. ASSUME s \in Inners, Con!NextLeave(s) PROVE ConcatTypeInv'
    BY <2>2, <1>6 DEF Con!NextLeave
  <2>3. ASSUME Con!TerminalEnter(s) PROVE ConcatTypeInv'
    <3>1. PICK label \in {"in_terminal", "ignored"} : pc' = [pc EXCEPT ![s] = label]
      BY <2>3 DEF Con!TerminalEnter
    <3>2. /\ mutex' \in Con!Sources
          /\ observer' \in {"open", "completed", "error", "disposed"}
          /\ inside' \subseteq Con!Sources
      <4>1. /\ observer \in {"open", "completed", "error", "disposed"} /\ inside \subseteq Con!Sources
            /\ s \in Con!Sources
        BY <1>6
      <4>2. pc[s] \in {"completed", "error"}
        BY <2>3 DEF Con!TerminalEnter
      <4> QED
        BY <2>3, <4>1, <4>2 DEF Con!TerminalEnter
    <3>3. UNCHANGED <<delivered, Con!subscriptions, Con!sources, user>>
      BY <2>3 DEF Con!TerminalEnter
    <3> QED
      BY <1>6, <3>1, <3>2, <3>3
  <2>4. ASSUME Con!TerminalLeave(s) \/ Con!TerminalIgnored(s) PROVE ConcatTypeInv'
    <3>1. pc' = [pc EXCEPT ![s] = "done"] /\ mutex' = NoOne
      BY <2>4 DEF Con!TerminalLeave, Con!TerminalIgnored
    <3>2. UNCHANGED <<observer, delivered, Con!sources, user>>
      BY <2>4 DEF Con!TerminalLeave, Con!TerminalIgnored
    <3>3. inside' \subseteq inside
      BY <2>4 DEF Con!TerminalLeave, Con!TerminalIgnored
    <3>4. held' \subseteq held /\ disposed' \in BOOLEAN /\ unsubscribed' \subseteq unsubscribed \union held
      BY <2>4 DEF Con!TerminalLeave, Con!TerminalIgnored, Con!DisposeState
    <3> QED
      BY <1>6, <3>1, <3>2, <3>3, <3>4
  <2> QED
    BY <1>6, <2>1, <2>2, <2>3, <2>4 DEF Con!Deliver, Con!DeliverUnderMutex
<1>7. ASSUME NEW s \in Con!Sources, ConcatMoves(s) PROVE ConcatTypeInv'
  BY <1>7, ConcatMoveStep
<1>10. ASSUME Con!DisposeBase PROVE ConcatTypeInv'
  BY <1>10 DEF Con!DisposeBase
<1>12. ASSUME NEW i \in Inners, Con!Clear(i) PROVE ConcatTypeInv'
  BY <1>12 DEF Con!Clear
<1>15. ASSUME NEW s \in Con!Sources, Con!Subscribe(s) PROVE ConcatTypeInv'
  BY <1>15 DEF Con!Subscribe
<1>17. ASSUME NEW s \in Con!Sources, Con!DrainNext(s) PROVE ConcatTypeInv'
  BY <1>17 DEF Con!DrainNext
<1>22. ASSUME Con!User, UNCHANGED Con!own PROVE ConcatTypeInv'
  BY <1>22 DEF Con!User, Con!UserDispose, Con!UserDisposeUpstream, Con!DisposeState
<1>23. ASSUME Con!StageSettles PROVE ConcatTypeInv'
  BY <1>23 DEF Con!StageSettles
<1>24. CASE UNCHANGED Con!vars
  BY <1>24 DEF Con!vars
<1>25. ASSUME NEW s \in Con!Sources, Con!Emit(s) PROVE ConcatTypeInv'
  BY <1>25, <1>1, <1>2, <1>3, <1>4, <1>5 DEF Con!Emit, Con!InnerNext, Con!InnerCompleted
<1>26. ASSUME NEW s \in Con!Sources, Con!Handle(s) PROVE ConcatTypeInv'
  BY <1>26, <1>6, <1>7, <1>10, <1>12, <1>15, <1>17 DEF Con!Handle, ConcatMoves
<1> QED
  BY <1>22, <1>23, <1>24, <1>25, <1>26 DEF Con!Next

LEMMA ConcatPlaceStep ==
  ASSUME ConcatIInv, [Con!Next]_(Con!vars)
  PROVE  ConcatPlaceInv'
<1> USE SourcesAssumption
  DEF ConcatIInv, ConcatPlaceInv, Con!Sources, ConcatLabels, Con!CommonLabels, Con!Stages, Con!Goto,
      Con!own, Con!downstream, Con!subscriptions, Con!sources, Con!common
<1>1. ASSUME NEW i \in Inners, Con!InnerNext(i) PROVE ConcatPlaceInv'
  BY <1>1 DEF Con!InnerNext, Con!EmitNext, Con!Listening, Con!Running
<1>2. ASSUME NEW i \in Inners, Con!InnerCompleted(i) PROVE ConcatPlaceInv'
  BY <1>2 DEF Con!InnerCompleted, Con!EmitTerminal, Con!Listening, Con!Running
<1>3. ASSUME NEW s \in Con!Sources, Con!SourceError(s) PROVE ConcatPlaceInv'
  BY <1>3 DEF Con!SourceError, Con!EmitTerminal, Con!Listening, Con!Running
<1>4. ASSUME Con!BaseNext PROVE ConcatPlaceInv'
  BY <1>4 DEF Con!BaseNext
<1>5. ASSUME Con!BaseCompleted PROVE ConcatPlaceInv'
  BY <1>5 DEF Con!BaseCompleted, Con!EmitTerminal, Con!Listening, Con!Running
<1>6. ASSUME NEW s \in Con!Sources, Con!Deliver(s), UNCHANGED Con!own PROVE ConcatPlaceInv'
  BY <1>6
    DEF Con!Deliver, Con!DeliverUnderMutex, Con!NextEnter, Con!NextLeave, Con!TerminalEnter, Con!TerminalLeave,
        Con!TerminalIgnored, Con!DisposeState
<1>7. ASSUME Con!OfferTaken PROVE ConcatPlaceInv'
  BY <1>7 DEF Con!OfferTaken, Con!Jump
<1>8. ASSUME Con!OfferBusy PROVE ConcatPlaceInv'
  BY <1>8 DEF Con!OfferBusy, Con!Jump
<1>9. ASSUME Con!Push PROVE ConcatPlaceInv'
  BY <1>9 DEF Con!Push, Con!Jump
<1>10. ASSUME Con!DisposeBase PROVE ConcatPlaceInv'
  BY <1>10 DEF Con!DisposeBase
<1>11. ASSUME Con!CheckStage PROVE ConcatPlaceInv'
  BY <1>11 DEF Con!CheckStage, Con!Jump
<1>12. ASSUME NEW i \in Inners, Con!Clear(i) PROVE ConcatPlaceInv'
  BY <1>12 DEF Con!Clear
<1>13. ASSUME NEW i \in Inners, Con!LeaveStage(i) PROVE ConcatPlaceInv'
  BY <1>13 DEF Con!LeaveStage, Con!Jump
<1>14. ASSUME NEW s \in Con!Sources, Con!StoreDraining(s) PROVE ConcatPlaceInv'
  BY <1>14 DEF Con!StoreDraining, Con!Jump
<1>15. ASSUME NEW s \in Con!Sources, Con!Subscribe(s) PROVE ConcatPlaceInv'
  BY <1>15 DEF Con!Subscribe
<1>16. ASSUME NEW s \in Con!Sources, Con!Handled(s) PROVE ConcatPlaceInv'
  BY <1>16 DEF Con!Handled, Con!Jump, Con!Over
<1>17. ASSUME NEW s \in Con!Sources, Con!DrainNext(s) PROVE ConcatPlaceInv'
  BY <1>17 DEF Con!DrainNext
<1>18. ASSUME NEW s \in Con!Sources, Con!DrainEmpty(s) PROVE ConcatPlaceInv'
  BY <1>18 DEF Con!DrainEmpty, Con!Jump
<1>19. ASSUME NEW s \in Con!Sources, Con!DrainDisposed(s) PROVE ConcatPlaceInv'
  BY <1>19 DEF Con!DrainDisposed, Con!Jump, Con!Over
<1>20. ASSUME NEW s \in Con!Sources, Con!StoreNone(s) PROVE ConcatPlaceInv'
  BY <1>20 DEF Con!StoreNone, Con!Jump
<1>21. ASSUME NEW s \in Con!Sources, Con!CheckBase(s) PROVE ConcatPlaceInv'
  BY <1>21 DEF Con!CheckBase, Con!Jump, Con!Over
<1>22. ASSUME Con!User, UNCHANGED Con!own PROVE ConcatPlaceInv'
  BY <1>22 DEF Con!User, Con!UserDispose, Con!UserDisposeUpstream, Con!DisposeState
<1>23. ASSUME Con!StageSettles PROVE ConcatPlaceInv'
  BY <1>23 DEF Con!StageSettles
<1>24. CASE UNCHANGED Con!vars
  BY <1>24 DEF Con!vars
<1>25. ASSUME NEW s \in Con!Sources, Con!Emit(s) PROVE ConcatPlaceInv'
  BY <1>25, <1>1, <1>2, <1>3, <1>4, <1>5 DEF Con!Emit, Con!InnerNext, Con!InnerCompleted
<1>26. ASSUME NEW s \in Con!Sources, Con!Handle(s) PROVE ConcatPlaceInv'
  BY <1>26, <1>6, <1>7, <1>8, <1>9, <1>10, <1>11, <1>12, <1>13, <1>14, <1>15, <1>16, <1>17, <1>18,
     <1>19, <1>20, <1>21
    DEF Con!Handle
<1> QED
  BY <1>22, <1>23, <1>24, <1>25, <1>26 DEF Con!Next

LEMMA ConcatTurnStep ==
  ASSUME ConcatIInv, [Con!Next]_(Con!vars)
  PROVE  ConcatTurnInv'
<1> USE SourcesAssumption
  DEF ConcatIInv, ConcatPlaceInv, ConcatTurnInv, ConcatDraining, ConcatActive, Con!Sources,
      ConcatLabels, Con!CommonLabels, Con!Stages, Con!Goto, Con!own, Con!downstream,
      Con!subscriptions, Con!sources, Con!common
<1>1. ASSUME NEW i \in Inners, Con!InnerNext(i) PROVE ConcatTurnInv'
  BY <1>1 DEF Con!InnerNext, Con!EmitNext, Con!Listening, Con!Running
<1>2. ASSUME NEW i \in Inners, Con!InnerCompleted(i) PROVE ConcatTurnInv'
  BY <1>2 DEF Con!InnerCompleted, Con!EmitTerminal, Con!Listening, Con!Running
<1>3. ASSUME NEW s \in Con!Sources, Con!SourceError(s) PROVE ConcatTurnInv'
  BY <1>3 DEF Con!SourceError, Con!EmitTerminal, Con!Listening, Con!Running
<1>4. ASSUME Con!BaseNext PROVE ConcatTurnInv'
  BY <1>4 DEF Con!BaseNext
<1>5. ASSUME Con!BaseCompleted PROVE ConcatTurnInv'
  BY <1>5 DEF Con!BaseCompleted, Con!EmitTerminal, Con!Listening, Con!Running
<1>6. ASSUME NEW s \in Con!Sources, Con!Deliver(s), UNCHANGED Con!own PROVE ConcatTurnInv'
  BY <1>6
    DEF Con!Deliver, Con!DeliverUnderMutex, Con!NextEnter, Con!NextLeave, Con!TerminalEnter, Con!TerminalLeave,
        Con!TerminalIgnored, Con!DisposeState
<1>7. ASSUME Con!OfferTaken PROVE ConcatTurnInv'
  BY <1>7 DEF Con!OfferTaken, Con!Jump
<1>8. ASSUME Con!OfferBusy PROVE ConcatTurnInv'
  BY <1>8 DEF Con!OfferBusy, Con!Jump
<1>9. ASSUME Con!Push PROVE ConcatTurnInv'
  BY <1>9 DEF Con!Push, Con!Jump
<1>10. ASSUME Con!DisposeBase PROVE ConcatTurnInv'
  BY <1>10 DEF Con!DisposeBase
<1>11. ASSUME Con!CheckStage PROVE ConcatTurnInv'
  BY <1>11 DEF Con!CheckStage, Con!Jump
<1>12. ASSUME NEW i \in Inners, Con!Clear(i) PROVE ConcatTurnInv'
  BY <1>12 DEF Con!Clear
<1>13. ASSUME NEW i \in Inners, Con!LeaveStage(i) PROVE ConcatTurnInv'
  BY <1>13 DEF Con!LeaveStage, Con!Jump
<1>14. ASSUME NEW s \in Con!Sources, Con!StoreDraining(s) PROVE ConcatTurnInv'
  BY <1>14 DEF Con!StoreDraining, Con!Jump
<1>15. ASSUME NEW s \in Con!Sources, Con!Subscribe(s) PROVE ConcatTurnInv'
  BY <1>15 DEF Con!Subscribe
<1>16. ASSUME NEW s \in Con!Sources, Con!Handled(s) PROVE ConcatTurnInv'
  BY <1>16 DEF Con!Handled, Con!Jump, Con!Over
<1>17. ASSUME NEW s \in Con!Sources, Con!DrainNext(s) PROVE ConcatTurnInv'
  BY <1>17 DEF Con!DrainNext
<1>18. ASSUME NEW s \in Con!Sources, Con!DrainEmpty(s) PROVE ConcatTurnInv'
  BY <1>18 DEF Con!DrainEmpty, Con!Jump
<1>19. ASSUME NEW s \in Con!Sources, Con!DrainDisposed(s) PROVE ConcatTurnInv'
  BY <1>19 DEF Con!DrainDisposed, Con!Jump, Con!Over
<1>20. ASSUME NEW s \in Con!Sources, Con!StoreNone(s) PROVE ConcatTurnInv'
  BY <1>20 DEF Con!StoreNone, Con!Jump
<1>21. ASSUME NEW s \in Con!Sources, Con!CheckBase(s) PROVE ConcatTurnInv'
  BY <1>21 DEF Con!CheckBase, Con!Jump, Con!Over
<1>22. ASSUME Con!User, UNCHANGED Con!own PROVE ConcatTurnInv'
  BY <1>22 DEF Con!User, Con!UserDispose, Con!UserDisposeUpstream, Con!DisposeState
<1>23. ASSUME Con!StageSettles PROVE ConcatTurnInv'
  BY <1>23 DEF Con!StageSettles
<1>24. CASE UNCHANGED Con!vars
  BY <1>24 DEF Con!vars
<1>25. ASSUME NEW s \in Con!Sources, Con!Emit(s) PROVE ConcatTurnInv'
  BY <1>25, <1>1, <1>2, <1>3, <1>4, <1>5 DEF Con!Emit, Con!InnerNext, Con!InnerCompleted
<1>26. ASSUME NEW s \in Con!Sources, Con!Handle(s) PROVE ConcatTurnInv'
  BY <1>26, <1>6, <1>7, <1>8, <1>9, <1>10, <1>11, <1>12, <1>13, <1>14, <1>15, <1>16, <1>17, <1>18,
     <1>19, <1>20, <1>21
    DEF Con!Handle
<1> QED
  BY <1>22, <1>23, <1>24, <1>25, <1>26 DEF Con!Next

LEMMA ConcatSubscriptionStep ==
  ASSUME ConcatIInv, [Con!Next]_(Con!vars)
  PROVE  ConcatSubscriptionInv'
<1> USE
  DEF ConcatIInv, ConcatSubscriptionInv, Con!Goto, Con!own, Con!downstream, Con!subscriptions,
      Con!sources, Con!common
<1>1. ASSUME NEW i \in Inners, Con!InnerNext(i) PROVE ConcatSubscriptionInv'
  BY <1>1 DEF Con!InnerNext, Con!EmitNext, Con!Listening, Con!Running
<1>2. ASSUME NEW i \in Inners, Con!InnerCompleted(i) PROVE ConcatSubscriptionInv'
  BY <1>2 DEF Con!InnerCompleted, Con!EmitTerminal, Con!Listening, Con!Running
<1>3. ASSUME NEW s \in Con!Sources, Con!SourceError(s) PROVE ConcatSubscriptionInv'
  BY <1>3 DEF Con!SourceError, Con!EmitTerminal, Con!Listening, Con!Running
<1>4. ASSUME Con!BaseNext PROVE ConcatSubscriptionInv'
  BY <1>4 DEF Con!BaseNext
<1>5. ASSUME Con!BaseCompleted PROVE ConcatSubscriptionInv'
  BY <1>5 DEF Con!BaseCompleted, Con!EmitTerminal, Con!Listening, Con!Running
<1>6. ASSUME NEW s \in Con!Sources, Con!Deliver(s), UNCHANGED Con!own PROVE ConcatSubscriptionInv'
  BY <1>6
    DEF Con!Deliver, Con!DeliverUnderMutex, Con!NextEnter, Con!NextLeave, Con!TerminalEnter, Con!TerminalLeave,
        Con!TerminalIgnored, Con!DisposeState
<1>7. ASSUME Con!OfferTaken PROVE ConcatSubscriptionInv'
  BY <1>7 DEF Con!OfferTaken, Con!Jump
<1>8. ASSUME Con!OfferBusy PROVE ConcatSubscriptionInv'
  BY <1>8 DEF Con!OfferBusy, Con!Jump
<1>9. ASSUME Con!Push PROVE ConcatSubscriptionInv'
  BY <1>9 DEF Con!Push, Con!Jump
<1>10. ASSUME Con!DisposeBase PROVE ConcatSubscriptionInv'
  BY <1>10 DEF Con!DisposeBase
<1>11. ASSUME Con!CheckStage PROVE ConcatSubscriptionInv'
  BY <1>11 DEF Con!CheckStage, Con!Jump
<1>12. ASSUME NEW i \in Inners, Con!Clear(i) PROVE ConcatSubscriptionInv'
  BY <1>12 DEF Con!Clear
<1>13. ASSUME NEW i \in Inners, Con!LeaveStage(i) PROVE ConcatSubscriptionInv'
  BY <1>13 DEF Con!LeaveStage, Con!Jump
<1>14. ASSUME NEW s \in Con!Sources, Con!StoreDraining(s) PROVE ConcatSubscriptionInv'
  BY <1>14 DEF Con!StoreDraining, Con!Jump
<1>15. ASSUME NEW s \in Con!Sources, Con!Subscribe(s) PROVE ConcatSubscriptionInv'
  BY <1>15 DEF Con!Subscribe
<1>16. ASSUME NEW s \in Con!Sources, Con!Handled(s) PROVE ConcatSubscriptionInv'
  BY <1>16 DEF Con!Handled, Con!Jump, Con!Over
<1>17. ASSUME NEW s \in Con!Sources, Con!DrainNext(s) PROVE ConcatSubscriptionInv'
  BY <1>17 DEF Con!DrainNext
<1>18. ASSUME NEW s \in Con!Sources, Con!DrainEmpty(s) PROVE ConcatSubscriptionInv'
  BY <1>18 DEF Con!DrainEmpty, Con!Jump
<1>19. ASSUME NEW s \in Con!Sources, Con!DrainDisposed(s) PROVE ConcatSubscriptionInv'
  BY <1>19 DEF Con!DrainDisposed, Con!Jump, Con!Over
<1>20. ASSUME NEW s \in Con!Sources, Con!StoreNone(s) PROVE ConcatSubscriptionInv'
  BY <1>20 DEF Con!StoreNone, Con!Jump
<1>21. ASSUME NEW s \in Con!Sources, Con!CheckBase(s) PROVE ConcatSubscriptionInv'
  BY <1>21 DEF Con!CheckBase, Con!Jump, Con!Over
<1>22. ASSUME Con!User, UNCHANGED Con!own PROVE ConcatSubscriptionInv'
  BY <1>22 DEF Con!User, Con!UserDispose, Con!UserDisposeUpstream, Con!DisposeState
<1>23. ASSUME Con!StageSettles PROVE ConcatSubscriptionInv'
  BY <1>23 DEF Con!StageSettles
<1>24. CASE UNCHANGED Con!vars
  BY <1>24 DEF Con!vars
<1>25. ASSUME NEW s \in Con!Sources, Con!Emit(s) PROVE ConcatSubscriptionInv'
  BY <1>25, <1>1, <1>2, <1>3, <1>4, <1>5 DEF Con!Emit, Con!InnerNext, Con!InnerCompleted
<1>26. ASSUME NEW s \in Con!Sources, Con!Handle(s) PROVE ConcatSubscriptionInv'
  BY <1>26, <1>6, <1>7, <1>8, <1>9, <1>10, <1>11, <1>12, <1>13, <1>14, <1>15, <1>16, <1>17, <1>18,
     <1>19, <1>20, <1>21
    DEF Con!Handle
<1> QED
  BY <1>22, <1>23, <1>24, <1>25, <1>26 DEF Con!Next

-----------------------------------------------------------------------------
(* The calls of the downstream observer.                                    *)

LEMMA ConcatLockStep ==
  ASSUME ConcatIInv, [Con!Next]_(Con!vars)
  PROVE  LockInv' /\ ContractStep
<1>0. LockInv /\ pc \in [Con!Sources -> ConcatLabels]
  BY DEF ConcatIInv, ConcatPlaceInv
<1> USE <1>0
<1>1. ASSUME NEW i \in Inners, Con!InnerNext(i) PROVE LockInv' /\ ContractStep
  BY <1>1, LockEmitNext, SameConcat DEF Con!InnerNext
<1>2. ASSUME NEW i \in Inners, Con!InnerCompleted(i) PROVE LockInv' /\ ContractStep
  <2>1. "clear" \notin Locked /\ pc' = [pc EXCEPT ![i] = "clear"]
    BY <1>2 DEF Con!InnerCompleted, Con!EmitTerminal, Con!Listening, Con!Running, Con!Goto, Locked
  <2> QED
    BY <2>1, <1>2, LockOwnStep, SameConcat
      DEF Con!InnerCompleted, Con!EmitTerminal, Con!Listening, Con!Running, Con!Sources,
          Con!downstream
<1>3. ASSUME NEW s \in Con!Sources, Con!SourceError(s) PROVE LockInv' /\ ContractStep
  <2>1. "error" \notin Locked /\ pc' = [pc EXCEPT ![s] = "error"]
    BY <1>3 DEF Con!SourceError, Con!EmitTerminal, Con!Listening, Con!Running, Con!Goto, Locked
  <2> QED
    BY <2>1, <1>3, LockOwnStep, SameConcat
      DEF Con!SourceError, Con!EmitTerminal, Con!Listening, Con!Running, Con!Sources, Con!downstream
<1>4. ASSUME Con!BaseNext PROVE LockInv' /\ ContractStep
  <2>1. "offer" \notin Locked /\ pc' = [pc EXCEPT ![Base] = "offer"]
    BY <1>4 DEF Con!BaseNext, Con!Goto, Locked
  <2> QED
    BY <2>1, <1>4, LockOwnStep, SameConcat DEF Con!BaseNext, Con!Sources, Con!downstream
<1>5. ASSUME Con!BaseCompleted PROVE LockInv' /\ ContractStep
  <2>1. "dispose_base" \notin Locked /\ pc' = [pc EXCEPT ![Base] = "dispose_base"]
    BY <1>5 DEF Con!BaseCompleted, Con!EmitTerminal, Con!Listening, Con!Running, Con!Goto, Locked
  <2> QED
    BY <2>1, <1>5, LockOwnStep, SameConcat
      DEF Con!BaseCompleted, Con!EmitTerminal, Con!Listening, Con!Running, Con!Sources,
          Con!downstream
<1>6. ASSUME NEW s \in Con!Sources, Con!Deliver(s), UNCHANGED Con!own PROVE LockInv' /\ ContractStep
  BY <1>6, LockDeliver, SameConcat
<1>7. ASSUME Con!OfferTaken PROVE LockInv' /\ ContractStep
  <2>1. "handle" \notin Locked /\ pc' = [pc EXCEPT ![Base] = "handle"]
    BY <1>7 DEF Con!OfferTaken, Con!Jump, Con!Goto, Locked
  <2> QED
    BY <2>1, <1>7, LockOwnStep, SameConcat DEF Con!OfferTaken, Con!Jump, Con!Sources, Con!downstream
<1>8. ASSUME Con!OfferBusy PROVE LockInv' /\ ContractStep
  <2>1. "push" \notin Locked /\ pc' = [pc EXCEPT ![Base] = "push"]
    BY <1>8 DEF Con!OfferBusy, Con!Jump, Con!Goto, Locked
  <2> QED
    BY <2>1, <1>8, LockOwnStep, SameConcat DEF Con!OfferBusy, Con!Jump, Con!Sources, Con!downstream
<1>9. ASSUME Con!Push PROVE LockInv' /\ ContractStep
  <2>1. "idle" \notin Locked /\ pc' = [pc EXCEPT ![Base] = "idle"]
    BY <1>9 DEF Con!Push, Con!Jump, Con!Goto, Locked
  <2> QED
    BY <2>1, <1>9, LockOwnStep, SameConcat DEF Con!Push, Con!Jump, Con!Sources, Con!downstream
<1>10. ASSUME Con!DisposeBase PROVE LockInv' /\ ContractStep
  <2>1. "check_stage" \notin Locked /\ pc' = [pc EXCEPT ![Base] = "check_stage"]
    BY <1>10 DEF Con!DisposeBase, Con!Goto, Locked
  <2> QED
    BY <2>1, <1>10, LockOwnStep, SameConcat DEF Con!DisposeBase, Con!Sources, Con!downstream
<1>11. ASSUME Con!CheckStage PROVE LockInv' /\ ContractStep
  <2>1. PICK label : label \notin Locked /\ pc' = [pc EXCEPT ![Base] = label]
    BY <1>11 DEF Con!CheckStage, Con!Jump, Con!Goto, Locked
  <2> QED
    BY <2>1, <1>11, LockOwnStep, SameConcat
      DEF Con!CheckStage, Con!Jump, Con!Sources, Con!downstream
<1>12. ASSUME NEW i \in Inners, Con!Clear(i) PROVE LockInv' /\ ContractStep
  <2>1. "leave_stage" \notin Locked /\ pc' = [pc EXCEPT ![i] = "leave_stage"]
    BY <1>12 DEF Con!Clear, Con!Goto, Locked
  <2> QED
    BY <2>1, <1>12, LockOwnStep, SameConcat DEF Con!Clear, Con!Sources, Con!downstream
<1>13. ASSUME NEW i \in Inners, Con!LeaveStage(i) PROVE LockInv' /\ ContractStep
  <2>1. PICK label : label \notin Locked /\ pc' = [pc EXCEPT ![i] = label]
    BY <1>13 DEF Con!LeaveStage, Con!Jump, Con!Goto, Locked
  <2> QED
    BY <2>1, <1>13, LockOwnStep, SameConcat
      DEF Con!LeaveStage, Con!Jump, Con!Sources, Con!downstream
<1>14. ASSUME NEW s \in Con!Sources, Con!StoreDraining(s) PROVE LockInv' /\ ContractStep
  <2>1. "subscribe" \notin Locked /\ pc' = [pc EXCEPT ![s] = "subscribe"]
    BY <1>14 DEF Con!StoreDraining, Con!Jump, Con!Goto, Locked
  <2> QED
    BY <2>1, <1>14, LockOwnStep, SameConcat
      DEF Con!StoreDraining, Con!Jump, Con!Sources, Con!downstream
<1>15. ASSUME NEW s \in Con!Sources, Con!Subscribe(s) PROVE LockInv' /\ ContractStep
  <2>1. "subscribed" \notin Locked /\ pc' = [pc EXCEPT ![s] = "subscribed"]
    BY <1>15 DEF Con!Subscribe, Con!Goto, Locked
  <2> QED
    BY <2>1, <1>15, LockOwnStep, SameConcat DEF Con!Subscribe, Con!Sources, Con!downstream
<1>16. ASSUME NEW s \in Con!Sources, Con!Handled(s) PROVE LockInv' /\ ContractStep
  <2>1. PICK label : label \notin Locked /\ pc' = [pc EXCEPT ![s] = label]
    BY <1>16 DEF Con!Handled, Con!Jump, Con!Over, Con!Goto, Locked
  <2> QED
    BY <2>1, <1>16, LockOwnStep, SameConcat
      DEF Con!Handled, Con!Jump, Con!Over, Con!Sources, Con!downstream
<1>17. ASSUME NEW s \in Con!Sources, Con!DrainNext(s) PROVE LockInv' /\ ContractStep
  <2>1. "handle" \notin Locked /\ pc' = [pc EXCEPT ![s] = "handle"]
    BY <1>17 DEF Con!DrainNext, Con!Goto, Locked
  <2> QED
    BY <2>1, <1>17, LockOwnStep, SameConcat DEF Con!DrainNext, Con!Sources, Con!downstream
<1>18. ASSUME NEW s \in Con!Sources, Con!DrainEmpty(s) PROVE LockInv' /\ ContractStep
  <2>1. "store_none" \notin Locked /\ pc' = [pc EXCEPT ![s] = "store_none"]
    BY <1>18 DEF Con!DrainEmpty, Con!Jump, Con!Goto, Locked
  <2> QED
    BY <2>1, <1>18, LockOwnStep, SameConcat
      DEF Con!DrainEmpty, Con!Jump, Con!Sources, Con!downstream
<1>19. ASSUME NEW s \in Con!Sources, Con!DrainDisposed(s) PROVE LockInv' /\ ContractStep
  <2>1. PICK label : label \notin Locked /\ pc' = [pc EXCEPT ![s] = label]
    BY <1>19 DEF Con!DrainDisposed, Con!Jump, Con!Over, Con!Goto, Locked
  <2> QED
    BY <2>1, <1>19, LockOwnStep, SameConcat
      DEF Con!DrainDisposed, Con!Jump, Con!Over, Con!Sources, Con!downstream
<1>20. ASSUME NEW s \in Con!Sources, Con!StoreNone(s) PROVE LockInv' /\ ContractStep
  <2>1. "check_base" \notin Locked /\ pc' = [pc EXCEPT ![s] = "check_base"]
    BY <1>20 DEF Con!StoreNone, Con!Jump, Con!Goto, Locked
  <2> QED
    BY <2>1, <1>20, LockOwnStep, SameConcat DEF Con!StoreNone, Con!Jump, Con!Sources, Con!downstream
<1>21. ASSUME NEW s \in Con!Sources, Con!CheckBase(s) PROVE LockInv' /\ ContractStep
  <2>1. PICK label : label \notin Locked /\ pc' = [pc EXCEPT ![s] = label]
    BY <1>21 DEF Con!CheckBase, Con!Jump, Con!Over, Con!Goto, Locked
  <2> QED
    BY <2>1, <1>21, LockOwnStep, SameConcat
      DEF Con!CheckBase, Con!Jump, Con!Over, Con!Sources, Con!downstream
<1>22. ASSUME Con!User, UNCHANGED Con!own PROVE LockInv' /\ ContractStep
  BY <1>22, LockUser, SameConcat
<1>23. ASSUME Con!StageSettles PROVE LockInv' /\ ContractStep
  BY <1>23 DEF Con!StageSettles, Con!common, Con!downstream, LockInv, ContractStep
<1>24. CASE UNCHANGED Con!vars
  BY <1>24 DEF Con!vars, Con!common, Con!downstream, LockInv, ContractStep
<1>25. ASSUME NEW s \in Con!Sources, Con!Emit(s) PROVE LockInv' /\ ContractStep
  BY <1>25, <1>1, <1>2, <1>3, <1>4, <1>5 DEF Con!Emit, Con!InnerNext, Con!InnerCompleted
<1>26. ASSUME NEW s \in Con!Sources, Con!Handle(s) PROVE LockInv' /\ ContractStep
  BY <1>26, <1>6, <1>7, <1>8, <1>9, <1>10, <1>11, <1>12, <1>13, <1>14, <1>15, <1>16, <1>17, <1>18,
     <1>19, <1>20, <1>21
    DEF Con!Handle
<1> QED
  BY <1>22, <1>23, <1>24, <1>25, <1>26 DEF Con!Next

-----------------------------------------------------------------------------
(* Theorems                                                                 *)

LEMMA ConcatInitInv == Con!Init => ConcatIInv
<1> SUFFICES ASSUME Con!Init PROVE ConcatIInv
  OBVIOUS
<1> USE SourcesAssumption DEF Con!Init, Con!CommonInit, Con!Sources
<1>0. ConcatTypeInv
  <2>1. 0 \in 0..MaxEmits
    BY MaxEmitsAssumption
  <2>2. Con!CommonTypeOK
    BY <2>1 DEF Con!CommonTypeOK
  <2>3. Con!TypeOK
    BY <2>2 DEF Con!TypeOK, Con!CommonLabels, Con!Stages
  <2> QED
    BY <2>3 DEF ConcatTypeInv, FlowBound
<1>1. LockInv
  BY LockInit, SameConcat
<1>2. ConcatPlaceInv
  BY DEF ConcatPlaceInv, ConcatLabels, Con!CommonLabels, Con!Stages
<1>3. ConcatTurnInv
  BY DEF ConcatTurnInv, ConcatDraining, ConcatActive
<1>4. ConcatSubscriptionInv
  BY DEF ConcatSubscriptionInv
<1> QED
  BY <1>0, <1>1, <1>2, <1>3, <1>4 DEF ConcatIInv

LEMMA ConcatStepInv == ConcatIInv /\ [Con!Next]_(Con!vars) => ConcatIInv'
<1> SUFFICES ASSUME ConcatIInv, [Con!Next]_(Con!vars) PROVE ConcatIInv'
  OBVIOUS
<1> QED
  BY ConcatTypeStep, ConcatLockStep, ConcatPlaceStep, ConcatTurnStep, ConcatSubscriptionStep
    DEF ConcatIInv

\* The invariant of concat: one turn, and one call at a time.
THEOREM ConcatInductive == Con!Spec => []ConcatIInv
  BY ConcatInitInv, ConcatStepInv, PTL DEF Con!Spec

\* Type correctness; no more is delivered than was emitted.
THEOREM ConcatTypeCorrect == Con!Spec => []Con!TypeOK
<1>1. ConcatIInv => Con!TypeOK
  BY DEF ConcatIInv, ConcatTypeInv
<1> QED
  BY <1>1, ConcatInductive, PTL

\* concat does not overlap: two of the inner observables never run at once, and
\* two threads never drain the queue at once.
THEOREM NoOverlap == ConcatSpec => []OneAtATime
<1>1. ConcatIInv => OneAtATime
  <2> SUFFICES ASSUME ConcatIInv PROVE OneAtATime
    OBVIOUS
  <2>1. ASSUME NEW i \in subscribed \ {Base}, NEW j \in subscribed \ {Base},
               finished[i] = "no", finished[j] = "no"
        PROVE  i = j
    <3>1. i \in Inners /\ j \in Inners
      BY DEF ConcatIInv, ConcatPlaceInv, Con!Sources
    <3>2. ConcatActive(i) /\ ConcatActive(j)
      BY <2>1 DEF ConcatActive
    <3> QED
      BY <3>1, <3>2 DEF ConcatIInv, ConcatTurnInv
  <2>2. \A s, t \in Con!Sources : Con!Drains(s) /\ Con!Drains(t) => s = t
    BY DEF ConcatIInv, ConcatTurnInv, ConcatDraining, Con!Drains
  <2> QED
    BY <2>1, <2>2 DEF OneAtATime, Con!OneAtATime
<1> QED
  BY <1>1, ConcatInductive, PTL DEF ConcatSpec

\* The assertion in the on_completed of the inner observer never fails.
THEOREM AssertionHolds == ConcatSpec => []InnerFindsProcessing
<1>1. ConcatIInv => InnerFindsProcessing
  BY DEF ConcatIInv, ConcatPlaceInv, ConcatTurnInv, ConcatActive, InnerFindsProcessing,
         Con!InnerFindsProcessing
<1> QED
  BY <1>1, ConcatInductive, PTL DEF ConcatSpec

\* Nothing that was subscribed stays so when the concat_disposable is disposed.
THEOREM ConcatNoLeaks == Con!Spec => []Con!NoSourceLeaks
<1>1. ConcatIInv => Con!NoSourceLeaks
  BY DEF ConcatIInv, ConcatSubscriptionInv, Con!NoSourceLeaks
<1> QED
  BY <1>1, ConcatInductive, PTL

\* concat implements the observable contract.
THEOREM ConcatRefines == Con!Spec => Con!FollowsContract
<1>1. Con!Init => Con!Contract!Init
  BY LockInit, SameConcat DEF Con!Init
<1>2. ConcatIInv /\ [Con!Next]_(Con!vars) => [Con!Contract!Next]_<<inside, observer \in {"completed", "error"}>>
  BY ConcatLockStep, SameConcat DEF ContractStep
<1> QED
  BY <1>1, <1>2, ConcatInductive, PTL DEF Con!Spec, Con!FollowsContract, Con!Contract!Spec
=============================================================================
