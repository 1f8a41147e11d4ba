---------------------------- MODULE MCDisposables ----------------------------
(* The disposables and what shares them: a behaviour is one of a composite   *)
(* disposable of three callers, with room for two children, a                 *)
(* refcount_disposable of two callers, and a ref_count observable.            *)
EXTENDS CompositeDisposable, FiniteSets

CONSTANTS Pair, Inners, Underlying, Observers, Nobody,
          HandleCalls,  \* bound: calls around a refcount_disposable
          MaxWrappers   \* bound: disposables a connect() is called with

VARIABLES
  family,
  r_current_state, m_refcount, r_disposables, created, disposed, dropped, released, asked, stack, r_calls,
  mutex, ref, connection, made, by_user, counts, closed_wrappers, live, m_subject, at, handle,
  upstream, leaving, closed

TwoSlots == 2
FourCalls == 4

RefCount == INSTANCE RefCountDisposable WITH
  Threads <- Pair, MaxCalls <- HandleCalls,
  m_current_state <- r_current_state, m_disposables <- r_disposables, calls <- r_calls

Shared == INSTANCE Connectable WITH
  m_refcount <- counts, disposed <- closed_wrappers, pc <- at

ASSUME HandlesAssumption ==
  /\ IsFiniteSet(Inners) /\ Inners \intersect Underlying = {}
  /\ RefCount!NoChild \notin Inners \union Underlying
  /\ HandleCalls \in Nat

ASSUME ObserversAssumption ==
  /\ IsFiniteSet(Observers) /\ Nobody \notin Observers
  /\ MaxWrappers \in Nat

ofRefCount == <<r_current_state, m_refcount, r_disposables, created, disposed, dropped, released,
                asked, stack, r_calls>>
ofShared == <<mutex, ref, connection, made, by_user, counts, closed_wrappers, live, m_subject, at,
              handle, upstream, leaving, closed>>
allVars == <<family, vars, ofRefCount, ofShared>>

Families == {"composite", "refcount", "connectable"}

AllInit == family \in Families /\ Init /\ RefCount!Init /\ Shared!Init

\* A thread's own steps in its calls.
AllStep(t) ==
  \/ family = "composite" /\ Step(t) /\ UNCHANGED <<family, ofRefCount, ofShared>>
  \/ family = "refcount" /\ t \in Pair /\ RefCount!Step(t) /\ UNCHANGED <<family, vars, ofShared>>

AllNext ==
  \/ family = "composite" /\ Next /\ UNCHANGED <<family, ofRefCount, ofShared>>
  \/ family = "refcount" /\ RefCount!Next /\ UNCHANGED <<family, vars, ofShared>>
  \/ family = "connectable" /\ Shared!Next /\ UNCHANGED <<family, vars, ofRefCount>>

AllSpec == AllInit /\ [][AllNext]_allVars
AllFairSpec == AllSpec /\ \A t \in Threads : WF_allVars(AllStep(t))

-----------------------------------------------------------------------------
\* Everything has the type its module gives it.
TypesOK == TypeOK /\ RefCount!TypeOK /\ Shared!TypeOK

\* What handles share is open until the last of them goes, unless somebody disposes
\* it, and not longer: a refcount_disposable with all it holds, and the one connection
\* of ref_count(), however the last release races with the next subscription.
SharedToTheLast ==
  RefCount!LastHandleClosesAll /\ Shared!OneConnection /\ Shared!LastOneDisconnects

\* A refcount_disposable is, of its handles, a shared ownership: no release() but
\* the last one closes it, and add_ref() never brings it back.
IsSharedOwnership == RefCount!IsSharedOwnership

\* Every call of a composite disposable returns, and every call of a
\* refcount_disposable that does not meet clear().
EveryCallReturns == CallsReturn /\ RefCount!CallsReturn

\* "Connects rpp::connectable_observable on the first subscription and
\* unsubscribes on last unsubscription" (ref_count.hpp).
StaysConnected == Shared!StaysConnected
=============================================================================
