---------------------- MODULE DisposablesProofs ----------------------
(***************************************************************************)
(* TLAPS proofs about CompositeDisposable, for any number of threads,      *)
(* children, slots and calls; about Connectable, for any finite set of     *)
(* observers and any number of connections; and about RefCountDisposable,  *)
(* for any threads and any finite set of handles.                          *)
(***************************************************************************)
EXTENDS MCDisposables, FiniteSetTheorems, SequenceTheorems, TLAPS

\* The state names who is inside: Edit while one thread edits, Disposed from
\* the moment one thread walks the container for the last time.
StateMatchesPc ==
  \A t \in Threads :
    /\ Editing(t) => m_current_state = "Edit"
    /\ pc[t] = "disposing" => m_current_state = "Disposed"

\* A walk over the container: what is left is still held, what is no longer
\* left has been disposed of.
Walking(t) == pc[t] \in {"clearing", "disposing"}

WalkInv ==
  \A t \in Threads :
    /\ Walking(t) => todo[t] \subseteq Held /\ Held \subseteq todo[t] \union gone
    /\ ~Walking(t) => todo[t] = {}

HeldMatchesOwed == Held \subseteq owed /\ owed \subseteq Held \union gone

\* A closed container that nobody walks any more is empty.
ClosedIsEmpty ==
  m_current_state = "Disposed" /\ (\A t \in Threads : pc[t] # "disposing")
    => Held = {}

IInv ==
  /\ TypeOK
  /\ StateMatchesPc
  /\ ExclusiveContainer
  /\ WalkInv
  /\ HeldMatchesOwed
  /\ ClosedIsEmpty

-----------------------------------------------------------------------------
\* TypeOK of m_disposables, of the walk and of the history is kept by every
\* step; it holds for every number of threads, children and slots.
THEOREM TypeCorrect == Spec => []TypeOK
<1>1. Init => TypeOK
  BY ChildrenAssumption, MaxCallsAssumption DEF Init, TypeOK, PcValues, NothingHeld
<1>2. TypeOK /\ [Next]_vars => TypeOK'
  <2> SUFFICES ASSUME TypeOK, [Next]_vars PROVE TypeOK'
    OBVIOUS
  <2> USE MaxCallsAssumption DEF TypeOK, PcValues, Goto, TryLock
  <2>1. ASSUME NEW t \in Threads, NewCall(t) PROVE TypeOK'
    BY <2>1 DEF NewCall, AddCall, RemoveCall, ClearCall, DisposeCall, Call
  <2>2. ASSUME NEW t \in Threads, AddLock(t) PROVE TypeOK'
    BY <2>2 DEF AddLock
  <2>3. ASSUME NEW t \in Threads, AddPush(t) PROVE TypeOK'
    BY <2>3 DEF AddPush
  <2>4. ASSUME NEW t \in Threads, AddThrow(t) PROVE TypeOK'
    BY <2>4 DEF AddThrow
  <2>5. ASSUME NEW t \in Threads, AddRejected(t) PROVE TypeOK'
    BY <2>5 DEF AddRejected
  <2>6. ASSUME NEW t \in Threads, RemoveLock(t) PROVE TypeOK'
    BY <2>6 DEF RemoveLock
  <2>7. ASSUME NEW t \in Threads, RemoveErase(t) PROVE TypeOK'
    BY <2>7 DEF RemoveErase
  <2>8. ASSUME NEW t \in Threads, ClearLock(t) \/ DisposeLock(t) PROVE TypeOK'
    BY <2>8 DEF ClearLock, DisposeLock, Held
  <2>9. ASSUME NEW t \in Threads, ClearWipe(t) \/ DisposeWipe(t) PROVE TypeOK'
    BY <2>9 DEF ClearWipe, DisposeWipe, NothingHeld
  <2>10. ASSUME NEW t \in Threads, DisposeNext(t) PROVE TypeOK'
    BY <2>10 DEF DisposeNext
  <2>11. ASSUME NEW t \in Threads, Unlock(t) \/ ReturnDisposed(t) PROVE TypeOK'
    BY <2>11 DEF Unlock, ReturnDisposed
  <2>12. ASSUME NEW c \in Children, DisposedElsewhere(c) PROVE TypeOK'
    BY <2>12 DEF DisposedElsewhere
  <2>13. CASE UNCHANGED vars
    BY <2>13 DEF vars
  <2> QED
    BY <2>1, <2>2, <2>3, <2>4, <2>5, <2>6, <2>7, <2>8, <2>9, <2>10, <2>11,
       <2>12, <2>13 DEF Next, Step
<1> QED
  BY <1>1, <1>2, PTL DEF Spec
-----------------------------------------------------------------------------
(* The inductive invariant.                                                 *)

LEMMA IInvInit == Init => IInv
BY ChildrenAssumption, MaxCallsAssumption
   DEF Init, IInv, TypeOK, PcValues, NothingHeld, StateMatchesPc, Editing, Inside,
       ExclusiveContainer, WalkInv, Walking, HeldMatchesOwed, Held, ClosedIsEmpty

\* Steps that change neither the container nor who is in it.
LEMMA IInvQuiet ==
  ASSUME IInv, TypeOK', UNCHANGED <<m_current_state, m_disposables, todo, owed>>,
         gone \subseteq gone',
         \A t \in Threads : pc'[t] = pc[t] \/ (~Inside(t) /\ ~Inside(t)')
  PROVE  IInv'
<1>1. \A t \in Threads : (Inside(t)' <=> Inside(t)) /\ (Editing(t)' <=> Editing(t))
                        /\ (Walking(t)' <=> Walking(t))
                        /\ (pc'[t] = "disposing" <=> pc[t] = "disposing")
  BY DEF Inside, Editing, Walking
<1>2. Held' = Held
  BY DEF Held
<1> QED
  BY <1>1, <1>2 DEF IInv, StateMatchesPc, ExclusiveContainer, WalkInv,
     HeldMatchesOwed, ClosedIsEmpty

\* A thread that finds None finds nobody inside, and enters alone.
LEMMA IInvEnter ==
  ASSUME IInv, TypeOK', NEW t \in Threads, m_current_state = "None",
         UNCHANGED <<m_disposables, gone, owed>>,
         \A u \in Threads \ {t} : pc'[u] = pc[u] /\ todo'[u] = todo[u],
         \/ /\ m_current_state' = "Edit"
            /\ \/ pc'[t] \in {"push", "erase"} /\ todo'[t] = todo[t]
               \/ pc'[t] = "clearing" /\ todo'[t] = Held
         \/ /\ m_current_state' = "Disposed"
            /\ pc'[t] = "disposing" /\ todo'[t] = Held,
         ~Inside(t)
  PROVE  IInv'
<1>1. \A u \in Threads : ~Inside(u)
  BY DEF IInv, StateMatchesPc, Inside, Editing, TypeOK
<1>2. \A u \in Threads \ {t} : ~Inside(u)' /\ ~Walking(u)'
  BY <1>1 DEF Inside, Editing, Walking
<1>3. Held' = Held
  BY DEF Held
<1>4. ~Walking(t)
  BY DEF Walking, Inside, Editing
<1>5. StateMatchesPc' /\ ExclusiveContainer'
  BY <1>2 DEF StateMatchesPc, ExclusiveContainer, Inside, Editing
<1>6. WalkInv'
  BY <1>2, <1>3, <1>4 DEF WalkInv, Walking, IInv
<1>7. HeldMatchesOwed' /\ ClosedIsEmpty'
  BY <1>3 DEF IInv, HeldMatchesOwed, ClosedIsEmpty
<1> QED
  BY <1>5, <1>6, <1>7 DEF IInv

\* The thread that edits is alone in the container: what it does there, or its
\* leaving, disturbs nobody else's walk.
LEMMA IInvEdit ==
  ASSUME IInv, TypeOK', NEW t \in Threads, Editing(t), todo[t] = {},
         \/ Editing(t)' /\ m_current_state' = m_current_state
         \/ ~Inside(t)' /\ m_current_state' = "None",
         ~Walking(t)', UNCHANGED <<gone, todo>>,
         \A u \in Threads \ {t} : pc'[u] = pc[u],
         HeldMatchesOwed'
  PROVE  IInv'
<1>1. m_current_state = "Edit"
  BY DEF IInv, StateMatchesPc
<1>2. \A u \in Threads \ {t} : ~Inside(u)
  BY DEF IInv, ExclusiveContainer, Inside
<1>3. \A u \in Threads \ {t} : ~Inside(u)' /\ ~Walking(u)' /\ ~Walking(u)
  BY <1>2 DEF Inside, Editing, Walking
<1>4. StateMatchesPc' /\ ExclusiveContainer' /\ ClosedIsEmpty'
  BY <1>1, <1>3 DEF StateMatchesPc, ExclusiveContainer, ClosedIsEmpty, Inside,
     Editing, Walking
<1>5. WalkInv'
  BY <1>3 DEF WalkInv, IInv
<1> QED
  BY <1>4, <1>5 DEF IInv

LEMMA IInvStep ==
  ASSUME IInv, TypeOK', [Next]_vars
  PROVE  IInv'
<1> USE DEF Goto
<1>t. TypeOK
  BY DEF IInv
<1>1. ASSUME NEW t \in Threads, NewCall(t) PROVE IInv'
  <2>1. pc[t] = "idle" /\ pc'[t] \in {"add", "remove", "clear", "dispose"}
        /\ \A u \in Threads \ {t} : pc'[u] = pc[u]
    BY <1>1, <1>t DEF NewCall, AddCall, RemoveCall, ClearCall, DisposeCall, Call, TypeOK
  <2>2. \A u \in Threads : pc'[u] = pc[u] \/ (~Inside(u) /\ ~Inside(u)')
    BY <2>1 DEF Inside, Editing
  <2>3. UNCHANGED <<m_current_state, m_disposables, gone, todo, owed>>
    BY <1>1 DEF NewCall, AddCall, RemoveCall, ClearCall, DisposeCall, Call
  <2> QED
    BY <2>2, <2>3, IInvQuiet
<1>2. ASSUME NEW t \in Threads, AddLock(t) \/ RemoveLock(t) \/ ClearLock(t) \/ DisposeLock(t)
      PROVE IInv'
  <2>1. ~Inside(t)
    BY <1>2 DEF AddLock, RemoveLock, ClearLock, DisposeLock, TryLock, Inside, Editing
  <2> QED
    BY <1>2, <1>t, <2>1, IInvEnter
       DEF AddLock, RemoveLock, ClearLock, DisposeLock, TryLock, TypeOK
<1>3. ASSUME NEW t \in Threads, AddPush(t) \/ AddThrow(t) PROVE IInv'
  <2>1. Editing(t) /\ Editing(t)' /\ ~Walking(t)' /\ todo[t] = {}
    BY <1>3, <1>t DEF AddPush, AddThrow, Editing, Walking, IInv, WalkInv, TypeOK
  <2>2. HeldMatchesOwed'
    BY <1>3, <1>t DEF AddPush, AddThrow, HeldMatchesOwed, Held, IInv, TypeOK
  <2> QED
    BY <1>3, <1>t, <2>1, <2>2, IInvEdit DEF AddPush, AddThrow, TypeOK
<1>4. ASSUME NEW t \in Threads, RemoveErase(t) PROVE IInv'
  <2>1. Editing(t) /\ Editing(t)' /\ ~Walking(t)' /\ todo[t] = {}
    BY <1>4, <1>t DEF RemoveErase, Editing, Walking, IInv, WalkInv, TypeOK
  <2>2. HeldMatchesOwed'
    BY <1>4, <1>t DEF RemoveErase, HeldMatchesOwed, Held, IInv, TypeOK
  <2> QED
    BY <1>4, <1>t, <2>1, <2>2, IInvEdit DEF RemoveErase, TypeOK
<1>5. ASSUME NEW t \in Threads, Unlock(t) PROVE IInv'
  <2>1. Editing(t) /\ ~Inside(t)' /\ ~Walking(t)' /\ todo[t] = {}
    BY <1>5, <1>t DEF Unlock, Editing, Inside, Walking, IInv, WalkInv, TypeOK
  <2>2. HeldMatchesOwed'
    BY <1>5 DEF Unlock, HeldMatchesOwed, Held, IInv
  <2> QED
    BY <1>5, <1>t, <2>1, <2>2, IInvEdit DEF Unlock, TypeOK
<1>6. ASSUME NEW t \in Threads, AddRejected(t) PROVE IInv'
  <2>1. \A u \in Threads : ~Editing(u)
    BY <1>6 DEF AddRejected, IInv, StateMatchesPc
  <2>2. pc[t] = "add" /\ pc'[t] = "idle" /\ \A u \in Threads \ {t} : pc'[u] = pc[u]
    BY <1>6, <1>t DEF AddRejected, TypeOK
  <2>3. \A u \in Threads : (Inside(u)' <=> Inside(u)) /\ (Editing(u)' <=> Editing(u))
                        /\ (Walking(u)' <=> Walking(u))
                        /\ (pc'[u] = "disposing" <=> pc[u] = "disposing")
    BY <2>2 DEF Inside, Editing, Walking
  <2>4. Held' = Held
    BY <1>6 DEF AddRejected, Held
  <2> QED
    BY <1>6, <2>3, <2>4 DEF AddRejected, IInv, StateMatchesPc, ExclusiveContainer,
       WalkInv, HeldMatchesOwed, ClosedIsEmpty
<1>7. ASSUME NEW t \in Threads, DisposeNext(t) PROVE IInv'
  <2>1. PICK c \in todo[t] : /\ gone' = gone \union {c}
                            /\ todo' = [todo EXCEPT ![t] = @ \ {c}]
                            /\ UNCHANGED <<m_current_state, m_disposables, pc, arg, owed, calls>>
    BY <1>7 DEF DisposeNext
  <2>2. Walking(t)
    BY <2>1 DEF IInv, WalkInv
  <2>3. Held' = Held
    BY <2>1 DEF Held
  <2>4. WalkInv'
    BY <2>1, <2>2, <2>3, <1>t DEF WalkInv, Walking, IInv, TypeOK
  <2> QED
    BY <2>1, <2>3, <2>4 DEF IInv, StateMatchesPc, ExclusiveContainer, HeldMatchesOwed,
       ClosedIsEmpty, Inside, Editing
<1>8. ASSUME NEW t \in Threads, ClearWipe(t) \/ DisposeWipe(t) PROVE IInv'
  <2>1. Inside(t) /\ Walking(t) /\ todo[t] = {}
    BY <1>8 DEF ClearWipe, DisposeWipe, Inside, Editing, Walking
  <2>2. \A u \in Threads \ {t} : ~Inside(u) /\ pc'[u] = pc[u]
    BY <1>8, <1>t, <2>1 DEF IInv, ExclusiveContainer, ClearWipe, DisposeWipe, TypeOK
  <2>3. \A u \in Threads : ~Walking(u)'
    BY <1>8, <1>t, <2>2 DEF ClearWipe, DisposeWipe, Walking, Inside, Editing, TypeOK
  <2>4. Held' = {} /\ Held \subseteq gone
    BY <1>8, <2>1 DEF ClearWipe, DisposeWipe, Held, NothingHeld, IInv, WalkInv
  <2>5. WalkInv'
    BY <1>8, <2>1, <2>2, <2>3 DEF ClearWipe, DisposeWipe, WalkInv, Walking, Inside,
       Editing, IInv
  <2>6. StateMatchesPc' /\ ExclusiveContainer'
    BY <1>8, <1>t, <2>2 DEF ClearWipe, DisposeWipe, StateMatchesPc,
       ExclusiveContainer, Inside, Editing, IInv, TypeOK
  <2>7. HeldMatchesOwed' /\ ClosedIsEmpty'
    BY <1>8, <2>4 DEF ClearWipe, DisposeWipe, HeldMatchesOwed, ClosedIsEmpty, IInv
  <2> QED
    BY <2>5, <2>6, <2>7 DEF IInv
<1>9. ASSUME NEW t \in Threads, ReturnDisposed(t) PROVE IInv'
  <2>1. ~Inside(t) /\ pc'[t] = "idle" /\ \A u \in Threads \ {t} : pc'[u] = pc[u]
    BY <1>9, <1>t DEF ReturnDisposed, Inside, Editing, TypeOK
  <2>2. \A u \in Threads : pc'[u] = pc[u] \/ (~Inside(u) /\ ~Inside(u)')
    BY <2>1 DEF Inside, Editing
  <2> QED
    BY <1>9, <2>2, IInvQuiet DEF ReturnDisposed
<1>10. ASSUME NEW c \in Children, DisposedElsewhere(c) PROVE IInv'
  BY <1>10, IInvQuiet DEF DisposedElsewhere
<1>11. CASE UNCHANGED vars
  BY <1>11, IInvQuiet DEF vars
<1> QED
  BY <1>1, <1>2, <1>3, <1>4, <1>5, <1>6, <1>7, <1>8, <1>9, <1>10, <1>11
     DEF Next, Step

THEOREM Inductive == Spec => []IInv
<1>1. TypeOK /\ [Next]_vars /\ IInv /\ TypeOK' => IInv'
  BY IInvStep
<1> QED
  BY <1>1, IInvInit, TypeCorrect, PTL DEF Spec

-----------------------------------------------------------------------------
\* Two calls are never in the container at the same time.
THEOREM Exclusion == Spec => []ExclusiveContainer
<1>1. IInv => ExclusiveContainer
  BY DEF IInv
<1> QED
  BY <1>1, Inductive, PTL

\* Every child that was accepted and not removed is held or gone, and a
\* dispose() that has returned has left none behind.
THEOREM NoLoss == Spec => []NoChildLost
<1>1. IInv => NoChildLost
  BY DEF IInv, NoChildLost, HeldMatchesOwed, ClosedIsEmpty, Inside
<1> QED
  BY <1>1, Inductive, PTL

\* The walks of clear() and dispose() reach nothing that was removed.
THEOREM OwnChildren == Spec => []OnlyOwnChildren
<1>1. IInv => OnlyOwnChildren
  BY DEF IInv, OnlyOwnChildren, HeldMatchesOwed, WalkInv
<1> QED
  BY <1>1, Inductive, PTL

\* No step leaves the Disposed state: the only writes of None are those of the
\* thread inside, and there is none but a disposing one by then.
THEOREM Permanent == Spec => DisposedForever
<1>1. IInv /\ [Next]_vars => (m_current_state = "Disposed" => m_current_state' = "Disposed")
  <2> SUFFICES ASSUME IInv, [Next]_vars, m_current_state = "Disposed"
               PROVE  m_current_state' = "Disposed"
    OBVIOUS
  <2>1. \A t \in Threads : ~Unlock(t)
    BY DEF IInv, StateMatchesPc, Editing, Unlock
  <2> QED
    BY <2>1 DEF Next, Step, NewCall, AddCall, RemoveCall, ClearCall, DisposeCall,
       Call, AddLock, AddPush, AddThrow, AddRejected, RemoveLock, RemoveErase,
       ClearLock, ClearWipe, DisposeLock, DisposeNext, DisposeWipe, ReturnDisposed,
       TryLock, DisposedElsewhere, vars
<1> QED
  BY <1>1, Inductive, PTL DEF Spec, DisposedForever

-----------------------------------------------------------------------------
Setting == IsFiniteSet(Observers) /\ Nobody \notin Observers /\ MaxWrappers \in Nat

Places == {"new", "make", "add_ref", "set_upstream", "subscribe", "connect", "source", "subscribed"}

\* Types, with no bound of the counter but with what made says of the wrappers.
Shape ==
  /\ mutex \in Shared!Callers /\ m_subject \in {"open", "ended"}
  /\ made \in 0..MaxWrappers
  /\ ref \in 0..made /\ connection \in 0..made
  /\ by_user \subseteq 1..made /\ closed_wrappers \subseteq 1..made /\ live \subseteq 1..made
  /\ counts \in [Shared!Wrappers -> Nat \union {Shared!s_disposed}]
  /\ at \in [Shared!Callers -> Places]
  /\ handle \in [Observers -> 0..made] /\ upstream \in [Shared!Callers -> 0..made]
  /\ leaving \in [Observers -> {"no", "release", "dispose", "done"}]
  /\ closed \subseteq Observers
Given ==
  /\ \A o \in Observers : at[o] = "add_ref" => ref # Shared!Empty
  /\ \A o \in Observers : leaving[o] = "dispose" => handle[o] # Shared!Empty
  /\ \A c \in Shared!Callers : at[c] \in {"connect", "source"} => upstream[c] # Shared!Empty
  /\ at[Nobody] # "new" => upstream[Nobody] # Shared!Empty
Formed == Shape /\ Given

\* Cardinality under the name it has in the instance.
LEMMA SameCardinality == \A S : Shared!Cardinality(S) = Cardinality(S)
  BY DEF Shared!Cardinality, Cardinality

LEMMA FormedStep == Setting /\ Formed /\ [Shared!Next]_(Shared!vars) => Formed'
<1> SUFFICES ASSUME Setting, Formed, [Shared!Next]_(Shared!vars) PROVE Formed'
  OBVIOUS
<1> USE
  DEF Setting, Formed, Shape, Given, Places, Shared!Callers, Shared!Wrappers, Shared!Empty,
      Shared!s_disposed, Shared!Goto, Shared!IsDisposed,
            Shared!ref_count, Shared!disposables, Shared!subscriber
<1>1. CASE UNCHANGED Shared!vars
  BY <1>1 DEF Shared!vars
<1>2. ASSUME NEW o \in Observers, Shared!Subscribe(o) PROVE Formed'
  <2>1. CASE Shared!Lock(o)
    BY <2>1 DEF Shared!Lock
  <2>2. CASE Shared!Make(o)
    BY <2>2 DEF Shared!Make
  <2>3. CASE Shared!AddRef(o)
    <3>1. ref \in Shared!Wrappers
      BY <2>3 DEF Shared!AddRef
    <3>2. CASE counts[ref] = Shared!s_disposed
      BY <2>3, <3>2 DEF Shared!AddRef
    <3>3. CASE counts[ref] # Shared!s_disposed
      <4>1. counts[ref] + 1 \in Nat
        BY <3>1, <3>3
      <4> QED
        BY <2>3, <3>1, <3>3, <4>1 DEF Shared!AddRef
    <3> QED
      BY <3>2, <3>3
  <2>4. CASE Shared!SetUpstream(o)
    BY <2>4 DEF Shared!SetUpstream
  <2>5. CASE Shared!SubscribeSubject(o)
    BY <2>5 DEF Shared!SubscribeSubject
  <2> QED
    BY <1>2, <2>1, <2>2, <2>3, <2>4, <2>5 DEF Shared!Subscribe
<1>3. ASSUME NEW o \in Observers, Shared!Leave(o) PROVE Formed'
  BY <1>3 DEF Shared!Leave, Shared!Installed
<1>4. ASSUME NEW o \in Observers, Shared!Release(o) PROVE Formed'
  <2>1. counts' \in [Shared!Wrappers -> Nat \union {Shared!s_disposed}]
    BY <1>4 DEF Shared!Release
  <2>2. leaving' \in [Observers -> {"no", "release", "dispose", "done"}]
    BY <1>4 DEF Shared!Release
  <2>3. \A p \in Observers : leaving'[p] = "dispose" => handle[p] # Shared!Empty
    BY <1>4 DEF Shared!Release
  <2> QED
    BY <1>4, <2>1, <2>2, <2>3 DEF Shared!Release
<1>5. ASSUME NEW o \in Observers, Shared!DisposeLast(o) PROVE Formed'
  <2>1. handle[o] \in 1..made
    BY <1>5 DEF Shared!DisposeLast
  <2> QED
    BY <1>5, <2>1 DEF Shared!DisposeLast
<1>6. ASSUME NEW c \in Shared!Callers, Shared!Connect(c) PROVE Formed'
  <2>1. CASE connection' = connection /\ Shared!Goto(c, "subscribed")
    BY <1>6, <2>1 DEF Shared!Connect
  <2>2. CASE connection' = upstream[c] /\ Shared!Goto(c, "source")
    BY <1>6, <2>2 DEF Shared!Connect
  <2> QED
    BY <1>6, <2>1, <2>2 DEF Shared!Connect
<1>7. ASSUME NEW c \in Shared!Callers, Shared!SubscribeSource(c) PROVE Formed'
  <2>1. upstream[c] \in 1..made
    BY <1>7 DEF Shared!SubscribeSource
  <2> QED
    BY <1>7, <2>1 DEF Shared!SubscribeSource
<1>8. CASE Shared!ConnectCall
  BY <1>8 DEF Shared!ConnectCall
<1>9. CASE Shared!DisposeConnection
  <2>1. upstream[Nobody] \in 1..made
    BY <1>9 DEF Shared!DisposeConnection
  <2> QED
    BY <1>9, <2>1 DEF Shared!DisposeConnection
<1>10. ASSUME NEW w \in Shared!Wrappers, Shared!Unsubscribe(w) PROVE Formed'
  BY <1>10 DEF Shared!Unsubscribe
<1>11. ASSUME NEW w \in Shared!Wrappers, Shared!SourceEnds(w) PROVE Formed'
  BY <1>11 DEF Shared!SourceEnds
<1> QED
  BY <1>1, <1>2, <1>3, <1>4, <1>5, <1>6, <1>7, <1>8, <1>9, <1>10, <1>11 DEF Shared!Next

LEMMA FormedAlways == Setting /\ Shared!Spec => []Formed
<1>1. Setting /\ Shared!Init => Formed
  BY
    DEF Setting, Shared!Init, Formed, Shape, Given, Places, Shared!Callers, Shared!Wrappers,
        Shared!Empty
<1>2. Setting /\ Formed /\ [Shared!Next]_(Shared!vars) => Formed'
  BY FormedStep
<1>3. Setting => []Setting
  BY DEF Setting
<1> QED
  BY <1>1, <1>2, <1>3, PTL DEF Shared!Spec

-----------------------------------------------------------------------------
\* What is subscribed to the source, or about to be, is the connection, or has
\* been disposed of.
OnlyConnection == live \ closed_wrappers \subseteq {connection}
AboutToSubscribe ==
  \A c \in Shared!Callers : at[c] = "source" => upstream[c] = connection \/ upstream[c] \in closed_wrappers
Connected == OnlyConnection /\ AboutToSubscribe

LEMMA ConnectedStep == Setting /\ Formed /\ Connected /\ [Shared!Next]_(Shared!vars) => Connected'
<1> SUFFICES ASSUME Setting, Formed, Connected, [Shared!Next]_(Shared!vars) PROVE Connected'
  OBVIOUS
<1> USE
  DEF Setting, Formed, Shape, Given, Places, Connected, OnlyConnection, AboutToSubscribe,
      Shared!Callers, Shared!Wrappers,
            Shared!Empty, Shared!Goto, Shared!IsDisposed, Shared!ref_count, Shared!disposables, Shared!subscriber
<1>1. CASE UNCHANGED Shared!vars
  BY <1>1 DEF Shared!vars
<1>2. ASSUME NEW o \in Observers, Shared!Subscribe(o) PROVE Connected'
  <2>1. CASE Shared!Lock(o) \/ Shared!Make(o) \/ Shared!SetUpstream(o)
    BY <2>1 DEF Shared!Lock, Shared!Make, Shared!SetUpstream
  <2>2. CASE Shared!AddRef(o)
    BY <2>2 DEF Shared!AddRef
  <2>3. CASE Shared!SubscribeSubject(o)
    BY <2>3 DEF Shared!SubscribeSubject
  <2> QED
    BY <1>2, <2>1, <2>2, <2>3 DEF Shared!Subscribe
<1>3. ASSUME NEW o \in Observers, Shared!Leave(o) \/ Shared!Release(o) \/ Shared!DisposeLast(o)
      PROVE Connected'
  BY <1>3 DEF Shared!Leave, Shared!Release, Shared!DisposeLast
<1>4. ASSUME NEW c \in Shared!Callers, Shared!Connect(c) PROVE Connected'
  <2>1. CASE UNCHANGED connection /\ Shared!Goto(c, "subscribed")
    BY <1>4, <2>1 DEF Shared!Connect
  <2>2. CASE Shared!IsDisposed(connection) /\ connection' = upstream[c] /\ Shared!Goto(c, "source")
    <3>1. live \ closed_wrappers = {}
      BY <2>2
    <3>2. \A d \in Shared!Callers : at[d] = "source" => upstream[d] \in closed_wrappers
      BY <2>2
    <3> QED
      BY <1>4, <2>2, <3>1, <3>2 DEF Shared!Connect
  <2> QED
    BY <1>4, <2>1, <2>2 DEF Shared!Connect
<1>5. ASSUME NEW c \in Shared!Callers, Shared!SubscribeSource(c) PROVE Connected'
  BY <1>5 DEF Shared!SubscribeSource
<1>6. CASE Shared!ConnectCall \/ Shared!DisposeConnection
  BY <1>6 DEF Shared!ConnectCall, Shared!DisposeConnection
<1>7. ASSUME NEW w \in Shared!Wrappers, Shared!Unsubscribe(w) \/ Shared!SourceEnds(w) PROVE Connected'
  BY <1>7 DEF Shared!Unsubscribe, Shared!SourceEnds
<1> QED
  BY <1>1, <1>2, <1>3, <1>4, <1>5, <1>6, <1>7 DEF Shared!Next

\* However subscriptions, connect() and the last release race, the source has one
\* subscription that is not being unsubscribed.
THEOREM One == Setting /\ Shared!Spec => []Shared!OneConnection
<1>1. Setting /\ Shared!Init => Connected
  BY DEF Setting, Shared!Init, Connected, OnlyConnection, AboutToSubscribe
<1>2. Setting /\ Formed /\ Connected /\ [Shared!Next]_(Shared!vars) => Connected'
  BY ConnectedStep
<1>3. Connected => Shared!OneConnection
  <2>1. IsFiniteSet({connection}) /\ Cardinality({connection}) = 1
    BY FS_Singleton
  <2> QED
    BY <2>1, FS_Subset, SameCardinality DEF Connected, OnlyConnection, Shared!OneConnection
<1>4. Setting => []Setting
  BY DEF Setting
<1> QED
  BY <1>1, <1>2, <1>3, <1>4, FormedAlways, PTL DEF Shared!Spec

-----------------------------------------------------------------------------
Holders(w) == {o \in Observers : handle[o] = w /\ leaving[o] \in {"no", "release"}}

\* What the places of an observer say of its handle.
Handed ==
  \A o \in Observers :
    /\ at[o] \in {"new", "make", "add_ref"} => handle[o] = Shared!Empty
    /\ at[o] \in {"new", "make", "add_ref", "set_upstream"} => leaving[o] = "no"
    /\ leaving[o] # "no" => o \in closed
    /\ o \in closed /\ Shared!Installed(o) => leaving[o] # "no"

\* Handles are never of a wrapper that a user has made; one that ref_count() made
\* has been used; a marked one has nobody left, and is or will be disposed.
NotUsers ==
  /\ ref \notin by_user /\ \A o \in Observers : handle[o] \notin by_user
  /\ upstream[Nobody] # Shared!Empty => upstream[Nobody] \in by_user
Used ==
  \A w \in Shared!Wrappers : IF w \in 1..made \ by_user THEN counts[w] # 0 ELSE w > made => counts[w] = 0
Counted == \A w \in Shared!Wrappers : counts[w] # Shared!s_disposed => counts[w] = Cardinality(Holders(w))
Empties == \A w \in Shared!Wrappers : counts[w] = Shared!s_disposed /\ m_subject = "open" => Holders(w) = {}
WillBeDisposed ==
  \A w \in Shared!Wrappers : counts[w] = Shared!s_disposed =>
    w \in closed_wrappers \/ \E o \in Observers : handle[o] = w /\ leaving[o] = "dispose"
MarkedFirst ==
  /\ \A w \in Shared!Wrappers : w \in closed_wrappers \ by_user => counts[w] = Shared!s_disposed
  /\ \A o \in Observers : leaving[o] = "dispose" => counts[handle[o]] = Shared!s_disposed
Counting == NotUsers /\ Used /\ Counted /\ Empties /\ WillBeDisposed /\ MarkedFirst

LEMMA HandedStep == Setting /\ Formed /\ Handed /\ [Shared!Next]_(Shared!vars) => Handed'
<1> SUFFICES ASSUME Setting, Formed, Handed, [Shared!Next]_(Shared!vars) PROVE Handed'
  OBVIOUS
<1> USE DEF Setting, Formed, Shape, Places, Handed, Shared!Installed, Shared!Callers, Shared!Wrappers,
            Shared!Empty, Shared!Goto, Shared!IsDisposed, Shared!ref_count, Shared!disposables, Shared!subscriber
<1>1. CASE UNCHANGED Shared!vars
  BY <1>1 DEF Shared!vars
<1>2. ASSUME NEW o \in Observers, Shared!Subscribe(o) PROVE Handed'
  <2>1. CASE Shared!Lock(o)
    BY <2>1 DEF Shared!Lock
  <2>2. CASE Shared!Make(o)
    BY <2>2 DEF Shared!Make
  <2>3. CASE Shared!AddRef(o)
    BY <2>3 DEF Shared!AddRef
  <2>4. CASE Shared!SetUpstream(o)
    BY <2>4 DEF Shared!SetUpstream
  <2>5. CASE Shared!SubscribeSubject(o)
    BY <2>5 DEF Shared!SubscribeSubject
  <2> QED
    BY <1>2, <2>1, <2>2, <2>3, <2>4, <2>5 DEF Shared!Subscribe
<1>3. ASSUME NEW o \in Observers, Shared!Leave(o) PROVE Handed'
  BY <1>3 DEF Shared!Leave
<1>4. ASSUME NEW o \in Observers, Shared!Release(o) PROVE Handed'
  BY <1>4 DEF Shared!Release
<1>5. ASSUME NEW o \in Observers, Shared!DisposeLast(o) PROVE Handed'
  BY <1>5 DEF Shared!DisposeLast
<1>6. ASSUME NEW c \in Shared!Callers, Shared!Connect(c) \/ Shared!SubscribeSource(c) PROVE Handed'
  BY <1>6 DEF Shared!Connect, Shared!SubscribeSource
<1>7. CASE Shared!ConnectCall \/ Shared!DisposeConnection
  BY <1>7 DEF Shared!ConnectCall, Shared!DisposeConnection
<1>8. ASSUME NEW w \in Shared!Wrappers, Shared!Unsubscribe(w) PROVE Handed'
  BY <1>8 DEF Shared!Unsubscribe
<1>9. ASSUME NEW w \in Shared!Wrappers, Shared!SourceEnds(w) PROVE Handed'
  BY <1>9 DEF Shared!SourceEnds
<1> QED
  BY <1>1, <1>2, <1>3, <1>4, <1>5, <1>6, <1>7, <1>8, <1>9 DEF Shared!Next

LEMMA SameHolders ==
  ASSUME handle' = handle,
         \A o \in Observers : leaving'[o] \in {"no", "release"} <=> leaving[o] \in {"no", "release"}
  PROVE  \A w \in Shared!Wrappers : Holders(w)' = Holders(w)
BY DEF Holders

\* Most steps at most begin a release, or dispose of what a user has made.
LEMMA Undisturbed ==
  ASSUME Setting, Formed, Handed, Counting,
         UNCHANGED <<ref, made, by_user, counts, handle>>, upstream'[Nobody] = upstream[Nobody],
         m_subject' = m_subject,
         \A o \in Observers : leaving'[o] = leaving[o] \/ (leaving[o] = "no" /\ leaving'[o] = "release"),
         closed_wrappers \subseteq closed_wrappers', closed_wrappers' \ closed_wrappers \subseteq by_user
  PROVE  Counting'
<1>1. \A w \in Shared!Wrappers : Holders(w)' = Holders(w)
  BY SameHolders
<1>2. NotUsers' /\ Used'
  BY DEF Counting, NotUsers, Used
<1>3. Counted' /\ Empties'
  BY <1>1 DEF Counting, Counted, Empties
<1>4. WillBeDisposed' /\ MarkedFirst'
  BY DEF Counting, WillBeDisposed, MarkedFirst
<1> QED
  BY <1>2, <1>3, <1>4 DEF Counting

LEMMA FiniteHolders ==
  ASSUME Setting
  PROVE  \A w : IsFiniteSet(Holders(w)) /\ Cardinality(Holders(w)) \in 0..Cardinality(Observers)
<1> TAKE w
<1>1. Holders(w) \in SUBSET Observers
  BY DEF Holders
<1> QED
  BY <1>1, FS_Subset, FS_CardinalityType DEF Setting

LEMMA MakeCounts ==
  ASSUME Setting, Formed, Handed, Counting, NEW o \in Observers, Shared!Make(o)
  PROVE  Counting'
<1> USE DEF Setting, Formed, Shape, Shared!Wrappers, Shared!Empty, Shared!s_disposed
<1>0. PICK new \in Shared!Wrappers : new = made + 1
  BY DEF Shared!Make
<1>1. /\ new \in Shared!Wrappers /\ made' = new /\ ref' = new /\ counts' = [counts EXCEPT ![new] = 1]
      /\ handle' = [handle EXCEPT ![o] = new] /\ upstream' = [upstream EXCEPT ![o] = new]
      /\ UNCHANGED <<by_user, closed_wrappers, m_subject, leaving>>
  BY <1>0 DEF Shared!Make, Shared!Goto
<1>2. handle[o] = Shared!Empty /\ leaving[o] = "no"
  BY DEF Shared!Make, Handed
<1>3. \A w \in Shared!Wrappers : w # new => Holders(w)' = Holders(w)
  BY <1>1, <1>2 DEF Holders
<1>4. Holders(new)' = {o}
  BY <1>0, <1>1, <1>2 DEF Holders
<1>5. NotUsers'
  BY <1>0, <1>1 DEF Counting, NotUsers, Shared!Callers
<1>6. Used'
  BY <1>0, <1>1 DEF Counting, Used
<1>7. Counted'
  <2>1. Cardinality({o}) = 1
    BY FS_Singleton
  <2> QED
    BY <1>0, <1>1, <1>3, <1>4, <2>1 DEF Counting, Counted
<1>8. Empties'
  BY <1>0, <1>1, <1>3 DEF Counting, Empties
<1>9. WillBeDisposed'
  BY <1>0, <1>1, <1>2 DEF Counting, WillBeDisposed
<1>10. MarkedFirst'
  BY <1>0, <1>1, <1>2 DEF Counting, MarkedFirst
<1> QED
  BY <1>5, <1>6, <1>7, <1>8, <1>9, <1>10 DEF Counting

LEMMA AddRefCounts ==
  ASSUME Setting, Formed, Handed, Counting, NEW o \in Observers, Shared!AddRef(o)
  PROVE  Counting'
<1> USE DEF Setting, Formed, Shape, Given, Shared!Wrappers, Shared!Empty, Shared!s_disposed
<1>1. CASE counts[ref] = Shared!s_disposed
  BY <1>1, Undisturbed DEF Shared!AddRef
<1>2. CASE counts[ref] # Shared!s_disposed
  <2>1. /\ ref \in Shared!Wrappers /\ counts[ref] \in Nat
        /\ counts' = [counts EXCEPT ![ref] = @ + 1] /\ handle' = [handle EXCEPT ![o] = ref]
        /\ UNCHANGED <<ref, made, by_user, closed_wrappers, m_subject, leaving, upstream>>
    BY <1>2 DEF Shared!AddRef
  <2>2. handle[o] = Shared!Empty /\ leaving[o] = "no"
    BY DEF Shared!AddRef, Handed
  <2>3. \A w \in Shared!Wrappers : w # ref => Holders(w)' = Holders(w)
    BY <2>1, <2>2 DEF Holders
  <2>4. Holders(ref)' = Holders(ref) \union {o} /\ o \notin Holders(ref)
    BY <2>1, <2>2 DEF Holders
  <2>5. Counted'
    <3>1. Cardinality(Holders(ref) \union {o}) = Cardinality(Holders(ref)) + 1
      BY <2>4, FS_AddElement, FiniteHolders
    <3> QED
      BY <1>2, <2>1, <2>3, <2>4, <3>1 DEF Counting, Counted
  <2>6. NotUsers' /\ Used'
    BY <1>2, <2>1 DEF Counting, NotUsers, Used
  <2>7. Empties'
    BY <1>2, <2>1, <2>3 DEF Counting, Empties
  <2>8. WillBeDisposed' /\ MarkedFirst'
    BY <1>2, <2>1, <2>2 DEF Counting, WillBeDisposed, MarkedFirst
  <2> QED
    BY <2>5, <2>6, <2>7, <2>8 DEF Counting
<1> QED
  BY <1>1, <1>2

\* The release of an observer's handle takes the observer from its holders.
LEMMA LeavesHolders ==
  ASSUME Formed, NEW o \in Observers, NEW h, h = handle[o], leaving[o] = "release", handle' = handle,
         NEW x \in {"done", "dispose"}, leaving' = [leaving EXCEPT ![o] = x]
  PROVE  /\ \A v \in Shared!Wrappers : v # h => Holders(v)' = Holders(v)
         /\ o \in Holders(h)
         /\ Holders(h)' = Holders(h) \ {o}
<1>1. \A p \in Observers : leaving'[p] = IF p = o THEN x ELSE leaving[p]
  BY DEF Formed, Shape
<1>2. \A v : Holders(v)' = {p \in Observers : handle[p] = v /\ leaving'[p] \in {"no", "release"}}
  BY DEF Holders
<1>3. \A v \in Shared!Wrappers : v # h => Holders(v)' = Holders(v)
  BY <1>1, <1>2 DEF Holders
<1>4. {p \in Observers : handle[p] = h /\ leaving'[p] \in {"no", "release"}} = Holders(h) \ {o}
  BY <1>1 DEF Holders
<1>5. Holders(h)' = Holders(h) \ {o}
  BY <1>4 DEF Holders
<1> QED
  BY <1>3, <1>5 DEF Holders

LEMMA ReleaseCounts ==
  ASSUME Setting, Formed, Handed, Counting, NEW o \in Observers, Shared!Release(o)
  PROVE  Counting'
<1> USE DEF Shared!Wrappers, Shared!Empty, Shared!s_disposed
<1>0. PICK h : h = handle[o]
  OBVIOUS
<1>1. UNCHANGED <<ref, made, by_user, closed_wrappers, m_subject, handle, upstream>> /\ leaving[o] = "release"
  BY DEF Shared!Release, Shared!ref_count, Shared!subscriber
<1>2. counts \in [Shared!Wrappers -> Nat \union {Shared!s_disposed}] /\ leaving \in [Observers -> {"no", "release", "dispose", "done"}]
      /\ handle[o] \in 0..made /\ h \in 0..made /\ made \in 0..MaxWrappers /\ MaxWrappers \in Nat
  BY <1>0 DEF Setting, Formed, Shape
<1>3. NotUsers'
  BY <1>0, <1>1 DEF Counting, NotUsers
<1>4. CASE /\ h = Shared!Empty \/ counts[h] = Shared!s_disposed
           /\ leaving' = [leaving EXCEPT ![o] = "done"] /\ UNCHANGED counts
  <2>1. Used' /\ WillBeDisposed' /\ MarkedFirst'
    BY <1>0, <1>1, <1>2, <1>4 DEF Counting, Used, WillBeDisposed, MarkedFirst
  <2>2. \A v \in Shared!Wrappers : v # h => Holders(v)' = Holders(v)
    BY <1>0, <1>1, <1>4, LeavesHolders
  <2>3. Holders(h)' = Holders(h) \ {o}
    BY <1>0, <1>1, <1>4, LeavesHolders
  <2>4. Counted'
    BY <1>0, <1>1, <1>4, <2>2 DEF Counting, Counted
  <2>5. Empties'
    <3> SUFFICES ASSUME NEW v \in Shared!Wrappers, counts[v] = Shared!s_disposed, m_subject = "open"
                 PROVE  Holders(v)' = {}
      BY <1>0, <1>1, <1>4 DEF Empties
    <3>1. Holders(v) = {}
      BY DEF Counting, Empties
    <3> QED
      BY <1>0, <2>2, <2>3, <3>1
  <2> QED
    BY <1>0, <1>3, <2>1, <2>4, <2>5 DEF Counting
<1>5. ASSUME NEW n \in Nat \union {Shared!s_disposed}, NEW x \in {"done", "dispose"},
             h \in Shared!Wrappers, counts[h] \in Nat \ {0},
             counts' = [counts EXCEPT ![h] = n], leaving' = [leaving EXCEPT ![o] = x],
             n # Shared!s_disposed => n = counts[h] - 1 /\ n # 0 /\ x = "done",
             n = Shared!s_disposed => counts[h] = 1 /\ x = "dispose"
      PROVE  Counting'
  <2>1. /\ \A v \in Shared!Wrappers : v # h => Holders(v)' = Holders(v)
        /\ Holders(h)' = Holders(h) \ {o} /\ o \in Holders(h)
    BY <1>0, <1>1, <1>5, LeavesHolders
  <2>2. counts[h] = Cardinality(Holders(h)) /\ IsFiniteSet(Holders(h))
    BY <1>0, <1>5, FiniteHolders DEF Counting, Counted
  <2>3. Cardinality(Holders(h) \ {o}) = counts[h] - 1 /\ IsFiniteSet(Holders(h) \ {o})
    BY <1>0, <2>1, <2>2, FS_RemoveElement
  <2>4. \A v \in Shared!Wrappers : counts'[v] = IF v = h THEN n ELSE counts[v]
    BY <1>0, <1>2, <1>5
  <2>5. \A p \in Observers : leaving'[p] = IF p = o THEN x ELSE leaving[p]
    BY <1>0, <1>2, <1>5
  <2>6. Used'
    BY <1>0, <1>1, <1>5, <2>4 DEF Counting, Used
  <2>7. Counted'
    <3>1. n # Shared!s_disposed => n = Cardinality(Holders(h)')
      BY <1>0, <1>5, <2>1, <2>3
    <3> QED
      BY <1>0, <2>1, <2>4, <3>1 DEF Counting, Counted
  <2>8. Empties'
    <3>1. n = Shared!s_disposed => Holders(h)' = {}
      BY <1>0, <1>5, <2>1, <2>3, FS_EmptySet
    <3> SUFFICES ASSUME NEW v \in Shared!Wrappers, counts'[v] = Shared!s_disposed, m_subject = "open"
                 PROVE  Holders(v)' = {}
      BY <1>0, <1>1 DEF Empties
    <3> QED
      BY <1>0, <2>1, <2>4, <3>1 DEF Counting, Empties
  <2>9. WillBeDisposed'
    <3> SUFFICES ASSUME NEW v \in Shared!Wrappers, counts'[v] = Shared!s_disposed
                
      PROVE  v \in closed_wrappers \/ \E p \in Observers : handle[p] = v /\ leaving'[p] = "dispose"
      BY <1>0, <1>1 DEF WillBeDisposed
    <3>1. CASE v = h
      BY <1>0, <1>5, <2>4, <2>5, <3>1
    <3>2. CASE v # h
      <4>1. v \in closed_wrappers \/ \E p \in Observers : handle[p] = v /\ leaving[p] = "dispose"
        BY <1>0, <2>4, <3>2 DEF Counting, WillBeDisposed
      <4> QED
        BY <1>0, <2>5, <3>2, <4>1
    <3> QED
      BY <3>1, <3>2
  <2>10. MarkedFirst'
    <3>1. \A v \in Shared!Wrappers : v \in closed_wrappers \ by_user => counts'[v] = Shared!s_disposed
      BY <1>0, <1>5, <2>4 DEF Counting, MarkedFirst
    <3>2. \A p \in Observers : leaving'[p] = "dispose" => counts'[handle[p]] = Shared!s_disposed
      BY <1>0, <1>2, <1>5, <2>4, <2>5 DEF Counting, MarkedFirst
    <3> QED
      BY <1>0, <1>1, <3>1, <3>2 DEF MarkedFirst
  <2> QED
    BY <1>0, <1>3, <2>6, <2>7, <2>8, <2>9, <2>10 DEF Counting
<1>6. CASE /\ h # Shared!Empty /\ counts[h] > 1
           /\ counts' = [counts EXCEPT ![h] = @ - 1]
           /\ leaving' = [leaving EXCEPT ![o] = "done"]
  <2>1. h \in Shared!Wrappers
    BY <1>0, <1>2, <1>6
  <2>2. counts[h] \in Nat \ {0}
    BY <1>2, <1>6, <2>1
  <2>3. PICK n \in Nat \ {0} : n = counts[h] - 1
    BY <1>6, <2>2
  <2>4. n \in Nat \union {Shared!s_disposed} /\ n # Shared!s_disposed
    BY <2>3
  <2>5. counts' = [counts EXCEPT ![h] = n]
    BY <1>6, <2>3
  <2> QED
    BY <1>5, <1>6, <2>1, <2>2, <2>3, <2>4, <2>5
<1>7. CASE /\ h # Shared!Empty /\ counts[h] = 1
           /\ counts' = [counts EXCEPT ![h] = Shared!s_disposed]
           /\ leaving' = [leaving EXCEPT ![o] = "dispose"]
  <2>1. h \in Shared!Wrappers
    BY <1>0, <1>2, <1>7
  <2>2. PICK n : n = Shared!s_disposed
    OBVIOUS
  <2>3. n \in Nat \union {Shared!s_disposed} /\ counts' = [counts EXCEPT ![h] = n]
    BY <1>7, <2>2
  <2>4. counts[h] \in Nat \ {0}
    BY <1>7
  <2>5. leaving' = [leaving EXCEPT ![o] = "dispose"] /\ counts[h] = 1 /\ "dispose" \in {"done", "dispose"}
    BY <1>7
  <2> QED
    BY ONLY <1>5, <2>1, <2>2, <2>3, <2>4, <2>5
<1> QED
  BY <1>0, <1>4, <1>6, <1>7 DEF Shared!Release

LEMMA CountingStep == Setting /\ Formed /\ Handed /\ Counting /\ [Shared!Next]_(Shared!vars) => Counting'
<1> SUFFICES ASSUME Setting, Formed, Handed, Counting, [Shared!Next]_(Shared!vars) PROVE Counting'
  OBVIOUS
<1> USE DEF Shared!ref_count, Shared!disposables, Shared!subscriber
<1>1. CASE UNCHANGED Shared!vars
  BY <1>1, Undisturbed DEF Shared!vars
<1>2. ASSUME NEW o \in Observers, Shared!Subscribe(o) PROVE Counting'
  <2>1. CASE Shared!Lock(o)
    BY <2>1, Undisturbed DEF Shared!Lock
  <2>2. CASE Shared!SetUpstream(o)
    BY <2>2, Undisturbed DEF Shared!SetUpstream, Handed, Formed, Shape
  <2>3. CASE Shared!SubscribeSubject(o)
    <3>1. o \notin closed => leaving[o] = "no"
      BY DEF Handed
    <3> QED
      BY <2>3, <3>1, Undisturbed DEF Shared!SubscribeSubject, Formed, Shape
  <2> QED
    BY <1>2, <2>1, <2>2, <2>3, MakeCounts, AddRefCounts DEF Shared!Subscribe
<1>3. ASSUME NEW o \in Observers, Shared!Leave(o) PROVE Counting'
  <2>1. leaving[o] = "no"
    BY <1>3 DEF Shared!Leave, Handed
  <2> QED
    BY <1>3, <2>1, Undisturbed DEF Shared!Leave, Formed, Shape
<1>4. ASSUME NEW o \in Observers, Shared!DisposeLast(o) PROVE Counting'
  <2> USE DEF Setting, Formed, Shape, Shared!Wrappers, Shared!s_disposed
  <2>1. /\ UNCHANGED <<ref, made, by_user, counts, m_subject, handle, upstream>>
        /\ closed_wrappers' = closed_wrappers \union {handle[o]}
        /\ leaving[o] = "dispose" /\ leaving' = [leaving EXCEPT ![o] = "done"]
    BY <1>4 DEF Shared!DisposeLast
  <2>2. \A w \in Shared!Wrappers : Holders(w)' = Holders(w)
    BY <2>1, SameHolders
  <2>3. NotUsers' /\ Used'
    BY <2>1 DEF Counting, NotUsers, Used
  <2>4. Counted' /\ Empties'
    BY <2>1, <2>2 DEF Counting, Counted, Empties
  <2>5. WillBeDisposed' /\ MarkedFirst'
    BY <2>1 DEF Counting, WillBeDisposed, MarkedFirst
  <2> QED
    BY <2>3, <2>4, <2>5 DEF Counting
<1>5. ASSUME NEW c \in Shared!Callers, Shared!Connect(c) \/ Shared!SubscribeSource(c) PROVE Counting'
  BY <1>5, Undisturbed DEF Shared!Connect, Shared!SubscribeSource
<1>6. CASE Shared!ConnectCall
  <2> USE DEF Setting, Formed, Shape, Shared!Wrappers, Shared!s_disposed
  <2>1. /\ made' = made + 1 /\ by_user' = by_user \union {made + 1} /\ made + 1 \in Shared!Wrappers
        /\ upstream' = [upstream EXCEPT ![Nobody] = made + 1]
        /\ UNCHANGED <<ref, counts, closed_wrappers, m_subject, handle, leaving>>
    BY <1>6 DEF Shared!ConnectCall
  <2>2. \A w \in Shared!Wrappers : Holders(w)' = Holders(w)
    BY <2>1, SameHolders
  <2>3. NotUsers' /\ Used'
    BY <2>1 DEF Counting, NotUsers, Used, Shared!Callers
  <2>4. Counted' /\ Empties'
    BY <2>1, <2>2 DEF Counting, Counted, Empties
  <2>5. WillBeDisposed' /\ MarkedFirst'
    BY <2>1 DEF Counting, WillBeDisposed, MarkedFirst
  <2> QED
    BY <2>3, <2>4, <2>5 DEF Counting
<1>7. CASE Shared!DisposeConnection
  <2>1. upstream[Nobody] \in by_user
    BY <1>7 DEF Shared!DisposeConnection, Formed, Given, Counting, NotUsers
  <2> QED
    BY <1>7, <2>1, Undisturbed DEF Shared!DisposeConnection
<1>8. ASSUME NEW w \in Shared!Wrappers, Shared!Unsubscribe(w) PROVE Counting'
  BY <1>8, Undisturbed DEF Shared!Unsubscribe
<1>9. ASSUME NEW w \in Shared!Wrappers, Shared!SourceEnds(w) PROVE Counting'
  <2> USE DEF Setting, Formed, Shape, Shared!Wrappers, Shared!s_disposed
  <2>1. /\ closed_wrappers' = closed_wrappers \union {w} /\ counts' = [counts EXCEPT ![w] = Shared!s_disposed]
        /\ m_subject' = "ended"
        /\ UNCHANGED <<ref, made, by_user, handle, upstream>>
    BY <1>9 DEF Shared!SourceEnds
  <2>2. \A o \in Observers : leaving'[o] = leaving[o] \/ (leaving[o] = "no" /\ leaving'[o] = "release")
    BY <1>9 DEF Shared!SourceEnds, Handed
  <2>3. \A v \in Shared!Wrappers : Holders(v)' = Holders(v)
    BY <2>1, <2>2, SameHolders
  <2>4. NotUsers' /\ Used'
    BY <1>9, <2>1 DEF Counting, NotUsers, Used, Shared!SourceEnds
  <2>5. Counted' /\ Empties'
    BY <2>1, <2>3 DEF Counting, Counted, Empties
  <2>6. WillBeDisposed'
    BY <2>1, <2>2 DEF Counting, WillBeDisposed
  <2>7. MarkedFirst'
    BY <2>1, <2>2 DEF Counting, MarkedFirst
  <2> QED
    BY <2>4, <2>5, <2>6, <2>7 DEF Counting
<1> QED
  BY <1>1, <1>2, <1>3, <1>4, <1>5, <1>6, <1>7, <1>8, <1>9, ReleaseCounts DEF Shared!Next

LEMMA CountedAlways == Setting /\ Shared!Spec => [](Formed /\ Handed /\ Counting)
<1>1. Setting /\ Shared!Init => Handed /\ Counting
  <2> SUFFICES ASSUME Setting, Shared!Init PROVE Handed /\ Counting
    OBVIOUS
  <2> USE DEF Shared!Init, Setting, Shared!Callers, Shared!Wrappers, Shared!Empty, Shared!s_disposed
  <2>1. Handed
    BY DEF Handed, Shared!Installed
  <2>2. \A w \in Shared!Wrappers : Holders(w) = {}
    BY DEF Holders
  <2>3. Counted /\ Empties
    BY <2>2, FS_EmptySet DEF Counted, Empties
  <2>4. NotUsers /\ Used /\ WillBeDisposed /\ MarkedFirst
    BY DEF NotUsers, Used, WillBeDisposed, MarkedFirst
  <2> QED
    BY <2>1, <2>3, <2>4 DEF Counting
<1>2. Setting /\ Formed /\ Handed /\ [Shared!Next]_(Shared!vars) => Handed'
  BY HandedStep
<1>3. Setting /\ Formed /\ Handed /\ Counting /\ [Shared!Next]_(Shared!vars) => Counting'
  BY CountingStep
<1>4. Setting => []Setting
  BY DEF Setting
<1> QED
  BY <1>1, <1>2, <1>3, <1>4, FormedAlways, PTL DEF Shared!Spec

\* A subscription of observers is not disposed of while one of them stays, and
\* the last one to leave has it disposed of: connectable_observable::ref_count(),
\* with any number of observers that come and go.
THEOREM LastLeaves == Setting /\ Shared!Spec => []Shared!LastOneDisconnects
<1>1. Setting /\ Formed /\ Handed /\ Counting => Shared!LastOneDisconnects
  <2> SUFFICES ASSUME Setting, Formed, Handed, Counting PROVE Shared!LastOneDisconnects
    OBVIOUS
  <2>1. ASSUME NEW o \in Observers, handle[o] # Shared!Empty, leaving[o] \in {"no", "release"},
               m_subject = "open", handle[o] \in closed_wrappers
        PROVE  FALSE
    <3>1. handle[o] \in Shared!Wrappers
      BY <2>1 DEF Setting, Formed, Shape, Shared!Wrappers, Shared!Empty
    <3>2. counts[handle[o]] = Shared!s_disposed
      BY <2>1, <3>1 DEF Counting, NotUsers, MarkedFirst
    <3>3. o \in Holders(handle[o])
      BY <2>1 DEF Holders
    <3> QED
      BY <2>1, <3>1, <3>2, <3>3 DEF Counting, Empties
  <2>2. ASSUME Shared!Quiet, \A o \in Observers : o \in closed \/ at[o] = "new",
               NEW w \in live, w \notin by_user
        PROVE  FALSE
    <3>1. w \in Shared!Wrappers /\ w \in 1..made /\ w \notin closed_wrappers
      BY <2>2 DEF Setting, Formed, Shape, Shared!Wrappers, Shared!Quiet
    <3>2. counts[w] # 0
      BY <2>2, <3>1 DEF Counting, Used
    <3>3. counts[w] # Shared!s_disposed
      BY <2>2, <3>1 DEF Counting, WillBeDisposed, Shared!Quiet
    <3>4. Holders(w) # {}
      BY <3>1, <3>2, <3>3, FS_EmptySet DEF Counting, Counted
    <3>5. PICK o \in Observers : handle[o] = w /\ leaving[o] \in {"no", "release"}
      BY <3>4 DEF Holders
    <3>6. at[o] # "new" /\ leaving[o] = "no"
      BY <2>2, <3>1, <3>5 DEF Handed, Shared!Empty, Shared!Quiet, Shared!Wrappers
    <3>7. at[o] = "subscribed" /\ o \in closed
      BY <2>2, <3>6 DEF Shared!Quiet, Shared!Callers
    <3> QED
      BY <3>6, <3>7 DEF Handed, Shared!Installed
  <2> QED
    BY <2>1, <2>2 DEF Shared!LastOneDisconnects
<1>2. Setting => []Setting
  BY DEF Setting
<1> QED
  BY <1>1, <1>2, CountedAlways, PTL

\* Types: the counter of a refcount_disposable never passes the number of observers.
THEOREM ConnectableTypes == Setting /\ Shared!Spec => []Shared!TypeOK
<1>1. Setting /\ Formed /\ Handed /\ Counting => Shared!TypeOK
  <2> SUFFICES ASSUME Setting, Formed, Handed, Counting PROVE Shared!TypeOK
    OBVIOUS
  <2>1. \A w \in Shared!Wrappers : counts[w] \in 0..Cardinality(Observers) \union {Shared!s_disposed}
    BY FiniteHolders DEF Counting, Counted
  <2>2. counts \in [Shared!Wrappers -> 0..Cardinality(Observers) \union {Shared!s_disposed}]
    BY <2>1 DEF Formed, Shape
  <2>3. 0..made \subseteq Shared!Wrappers \union {Shared!Empty} /\ 1..made \subseteq Shared!Wrappers
    BY DEF Setting, Formed, Shape, Shared!Wrappers, Shared!Empty
  <2>4. /\ handle \in [Observers -> Shared!Wrappers \union {Shared!Empty}]
        /\ upstream \in [Shared!Callers -> Shared!Wrappers \union {Shared!Empty}]
    BY <2>3 DEF Formed, Shape
  <2> QED
    BY <2>2, <2>3, <2>4, SameCardinality DEF Formed, Shape, Places, Shared!TypeOK
<1>2. Setting => []Setting
  BY DEF Setting
<1> QED
  BY <1>1, <1>2, CountedAlways, PTL

-----------------------------------------------------------------------------
(* refcount_disposable: who calls back whom.  At most two frames of a thread  *)
(* nest, the walk over the children and the handle it disposes of.            *)

Setup ==
  /\ IsFiniteSet(Inners) /\ Inners \intersect Underlying = {} /\ RefCount!NoChild \notin RefCount!Kept
  /\ HandleCalls \in Nat

\* The two topmost frames of a thread; there are never more.
FrameSet == [at : RefCount!Labels, c : RefCount!Kept \union {RefCount!NoChild}, todo : SUBSET RefCount!Kept]
NoFrame == [at |-> "idle", c |-> RefCount!NoChild, todo |-> {}]
Upper == [t \in Pair |-> IF stack[t] = <<>> THEN NoFrame ELSE stack[t][1]]
Lower == [t \in Pair |-> IF Len(stack[t]) = 2 THEN stack[t][2] ELSE NoFrame]

StackInv ==
  /\ stack \in [Pair -> Seq(FrameSet)]
  /\ \A t \in Pair : Len(stack[t]) \in 0..2

\* What is known of a frame by its place.
OfChild == {"add", "push", "inner", "destroy", "remove", "erase", "remove_unlock", "release"}
OfHandle == {"inner", "destroy", "remove", "erase", "remove_unlock", "release"}
Nested == {"inner", "remove", "release"}
Leaving == {"remove", "erase", "remove_unlock", "release"}

FrameInv ==
  /\ \A t \in Pair :
       /\ Upper[t].c \in created \union {RefCount!NoChild}
       /\ Upper[t].at \in OfChild => Upper[t].c \in created
       /\ Upper[t].at \in OfHandle => Upper[t].c \in Inners
       /\ Upper[t].at \in {"walk", "clear_walk"} =>
            Upper[t].c = RefCount!NoChild /\ Upper[t].todo \subseteq r_disposables
       /\ Lower[t].at \in {"idle", "walk", "clear_walk"}
       /\ Lower[t].at # "idle" => Upper[t].at \in Nested /\ Lower[t].todo \subseteq r_disposables
       /\ Lower[t].at = "clear_walk" => Upper[t].at # "release"
       /\ Lower[t].c = RefCount!NoChild

\* Who has the state word.
Edits(t) ==
  Upper[t].at \in {"push", "unlock", "erase", "remove_unlock", "clear_walk"} \/ Lower[t].at = "clear_walk"
Closes(t) == Upper[t].at \in {"store", "walk"} \/ Lower[t].at = "walk"

StateInv ==
  /\ \A t \in Pair : Edits(t) => r_current_state = "Edit"
  /\ \A t \in Pair : Closes(t) => r_current_state = "Disposed"
  /\ \A t, u \in Pair : Edits(t) /\ Edits(u) => t = u
  /\ \A t, u \in Pair : Closes(t) /\ Closes(u) => t = u
  /\ r_current_state = "Disposed" /\ (\A t \in Pair : ~Closes(t)) => r_disposables = {}

SetsInv ==
  /\ r_current_state \in {"None", "Edit", "Disposed"}
  /\ r_disposables \subseteq created
  /\ created \subseteq RefCount!Kept
  /\ disposed \subseteq created
  /\ dropped \subseteq created \intersect Inners
  /\ released \subseteq disposed \intersect Inners
  /\ r_calls \in 0..HandleCalls

\* A child that is being added is known to nobody else.
FreshInv ==
  \A t \in Pair : Upper[t].at \in {"add", "push"} =>
    /\ Upper[t].c \notin r_disposables \union disposed \union dropped
    /\ \A u \in Pair : u # t => Upper[u].c # Upper[t].c

\* A disposed handle is released once: it has been, or a thread is about to.
ReleaseInv ==
  /\ \A t \in Pair : Upper[t].at \in Leaving => Upper[t].c \in disposed \ released
  /\ \A t, u \in Pair :
       Upper[t].at \in Leaving /\ Upper[u].at \in Leaving /\ Upper[t].c = Upper[u].c => t = u
  /\ \A i \in (disposed \intersect Inners) \ released :
       \E t \in Pair : Upper[t].at \in Leaving /\ Upper[t].c = i

\* The count is that of the handles not released, until it is marked; who marks
\* it goes on to dispose the parent.
Owners == (created \intersect Inners) \ released
CountInv ==
  /\ m_refcount # RefCount!s_disposed => m_refcount = Cardinality(Owners)
  /\ m_refcount = 0 => created \intersect Inners = {}
  /\ m_refcount = RefCount!s_disposed =>
       r_current_state = "Disposed" \/ \E t \in Pair : Upper[t].at = "dispose"
  /\ \A t \in Pair : (Upper[t].at = "walk" \/ Lower[t].at = "walk") => m_refcount = RefCount!s_disposed

\* No child is lost.
Destroyed(c) == \E t \in Pair : Upper[t].at = "destroy" /\ Upper[t].c = c
KeptInv ==
  /\ \A c \in created : c \in disposed \union r_disposables \/ Destroyed(c)
        \/ \E t \in Pair : Upper[t].at \in {"add", "push"} /\ Upper[t].c = c
  /\ \A c \in dropped : c \in disposed \/ Destroyed(c)
  /\ \A t \in Pair : Upper[t].at \in {"walk", "clear_walk"} =>
       \A c \in r_disposables \ Upper[t].todo : c \in disposed \/ Destroyed(c)
  /\ \A t \in Pair : Lower[t].at \in {"walk", "clear_walk"} =>
       \A c \in r_disposables \ Lower[t].todo :
         c \in disposed \/ Destroyed(c) \/ (Upper[t].at = "inner" /\ Upper[t].c = c)

RInv == StackInv /\ FrameInv /\ SetsInv /\ StateInv /\ FreshInv /\ ReleaseInv /\ CountInv /\ KeptInv

-----------------------------------------------------------------------------
(* What the stack operations do to the two topmost frames.                   *)

Moves(t, f, g) == Upper' = [Upper EXCEPT ![t] = f] /\ Lower' = [Lower EXCEPT ![t] = g]

LEMMA TwoFrames ==
  ASSUME StackInv
  PROVE  /\ Upper \in [Pair -> FrameSet \union {NoFrame}]
         /\ Lower \in [Pair -> FrameSet \union {NoFrame}]
         /\ \A t \in Pair : stack[t] = <<>> => Upper[t] = NoFrame /\ Lower[t] = NoFrame
         /\ \A t \in Pair : stack[t] # <<>> =>
              /\ Upper[t] = RefCount!Top(t) /\ Upper[t] \in FrameSet
              /\ Len(stack[t]) = 1 => Lower[t] = NoFrame
              /\ Len(stack[t]) = 2 => Lower[t] = stack[t][2] /\ Lower[t] \in FrameSet
<1>1. ASSUME NEW t \in Pair, stack[t] # <<>>
      PROVE  /\ Upper[t] = RefCount!Top(t) /\ Upper[t] \in FrameSet
             /\ Len(stack[t]) = 1 => Lower[t] = NoFrame
             /\ Len(stack[t]) = 2 => Lower[t] = stack[t][2] /\ Lower[t] \in FrameSet
  <2>1. stack[t] \in Seq(FrameSet) /\ Len(stack[t]) \in 1..2
    BY <1>1 DEF StackInv
  <2>2. stack[t][1] \in FrameSet /\ RefCount!Top(t) = stack[t][1]
    BY <1>1, <2>1 DEF RefCount!Top
  <2>3. Len(stack[t]) = 2 => stack[t][2] \in FrameSet
    BY <2>1
  <2> QED
    BY <1>1, <2>1, <2>2, <2>3 DEF Upper, Lower
<1>2. ASSUME NEW t \in Pair, stack[t] = <<>> PROVE Upper[t] = NoFrame /\ Lower[t] = NoFrame
  <2>1. Len(stack[t]) = 0
    BY <1>2
  <2> QED
    BY <1>2, <2>1 DEF Upper, Lower
<1>3. /\ Upper = [t \in Pair |-> Upper[t]]
      /\ Lower = [t \in Pair |-> Lower[t]]
  BY DEF Upper, Lower
<1>4. \A t \in Pair : Lower[t] \in FrameSet \union {NoFrame}
  BY <1>1, <1>2 DEF StackInv
<1>5. \A t \in Pair : Upper[t] \in FrameSet \union {NoFrame}
  BY <1>1, <1>2
<1> QED
  BY <1>1, <1>2, <1>3, <1>4, <1>5

LEMMA TailOfShort ==
  ASSUME NEW S, NEW q \in Seq(S), Len(q) \in 1..2
  PROVE  /\ Tail(q) \in Seq(S) /\ Len(Tail(q)) = Len(q) - 1
         /\ Len(q) = 2 => Tail(q) # <<>> /\ Tail(q)[1] = q[2]
         /\ Len(q) = 1 => Tail(q) = <<>>
<1>1. Tail(q) \in Seq(S) /\ Len(Tail(q)) = Len(q) - 1 /\ \A i \in 1 .. Len(Tail(q)) : Tail(q)[i] = q[i+1]
  BY HeadTailProperties, EmptySeq
<1> DEFINE r == Tail(q)
<1> HIDE DEF r
<1>2. r \in Seq(S) /\ Len(r) = Len(q) - 1 /\ \A i \in 1 .. Len(r) : r[i] = q[i+1]
  BY <1>1 DEF r
<1>3. ASSUME Len(q) = 2 PROVE r # <<>> /\ r[1] = q[2]
  <2>1. Len(r) = 1 /\ 1 \in 1..Len(r)
    BY <1>2, <1>3
  <2>2. r[1] = q[1+1]
    BY <2>1, <1>2
  <2> QED
    BY <2>1, <2>2
<1>4. ASSUME Len(q) = 1 PROVE r = <<>>
  <2>1. Len(r) = 0
    BY <1>2, <1>4
  <2> QED
    BY <2>1, <1>2, EmptySeq
<1> QED
  BY <1>2, <1>3, <1>4 DEF r

LEMMA Becomes ==
  ASSUME StackInv, NEW t \in Pair, stack[t] # <<>>, NEW f \in FrameSet, RefCount!Become(t, f)
  PROVE  StackInv' /\ Moves(t, f, Lower[t])
<1> DEFINE s == <<f>> \o Tail(stack[t])
<1>1. stack[t] \in Seq(FrameSet) /\ Len(stack[t]) \in 1..2 /\ stack \in [Pair -> Seq(FrameSet)]
  BY DEF StackInv
<1>2. Tail(stack[t]) \in Seq(FrameSet) /\ Len(Tail(stack[t])) = Len(stack[t]) - 1
  BY <1>1
<1>3. <<f>> \in Seq(FrameSet) /\ Len(<<f>>) = 1
  OBVIOUS
<1>4. s \in Seq(FrameSet) /\ Len(s) = Len(stack[t]) /\ s[1] = f
  BY <1>2, <1>3
<1>5. Len(s) = 2 => s[2] = stack[t][2]
  BY <1>1, <1>2, <1>3, <1>4
<1>6. stack' = [stack EXCEPT ![t] = s]
  BY DEF RefCount!Become
<1> HIDE DEF s
<1>7. StackInv'
  BY <1>1, <1>4, <1>6 DEF StackInv
<1>8. s # <<>>
  BY <1>1, <1>4
<1>9. Upper' = [Upper EXCEPT ![t] = f]
  BY <1>1, <1>4, <1>6, <1>8 DEF Upper
<1>10. Lower' = [Lower EXCEPT ![t] = Lower[t]]
  BY <1>1, <1>4, <1>5, <1>6 DEF Lower
<1> QED
  BY <1>7, <1>9, <1>10 DEF Moves

LEMMA Pushes ==
  ASSUME StackInv, NEW t \in Pair, stack[t] = <<>>, NEW f \in FrameSet, RefCount!Push(t, f)
  PROVE  StackInv' /\ Moves(t, f, NoFrame) /\ Lower[t] = NoFrame
<1> DEFINE s == <<f>> \o stack[t]
<1>1. stack \in [Pair -> Seq(FrameSet)]
  BY DEF StackInv
<1>2. s = <<f>> /\ s \in Seq(FrameSet) /\ Len(s) = 1 /\ s[1] = f /\ s # <<>>
  OBVIOUS
<1>3. stack' = [stack EXCEPT ![t] = s]
  BY DEF RefCount!Push
<1> HIDE DEF s
<1>4. StackInv'
  BY <1>1, <1>2, <1>3 DEF StackInv
<1>5. Upper' = [Upper EXCEPT ![t] = f]
  BY <1>1, <1>2, <1>3 DEF Upper
<1>6. Lower' = [Lower EXCEPT ![t] = NoFrame]
  <2>1. Len(s) # 2
    BY <1>2
  <2> QED
    BY <1>1, <2>1, <1>3 DEF Lower
<1>7. Lower[t] = NoFrame
  BY TwoFrames
<1> QED
  BY <1>4, <1>5, <1>6, <1>7 DEF Moves

LEMMA Nests ==
  ASSUME StackInv, NEW t \in Pair, stack[t] # <<>>, Lower[t] = NoFrame,
         NEW f \in FrameSet, NEW g \in FrameSet,
         stack' = [stack EXCEPT ![t] = <<f, g>> \o Tail(stack[t])]
  PROVE  StackInv' /\ Moves(t, f, g)
<1> DEFINE s == <<f, g>> \o Tail(stack[t])
<1>1. stack[t] \in Seq(FrameSet) /\ Len(stack[t]) \in 1..2 /\ stack \in [Pair -> Seq(FrameSet)]
  BY DEF StackInv
<1>2. Len(stack[t]) = 1
  <2>1. NoFrame \notin FrameSet
    BY DEF NoFrame, FrameSet, RefCount!Labels
  <2> QED
    BY <1>1, <2>1, TwoFrames
<1>3. Tail(stack[t]) \in Seq(FrameSet) /\ Len(Tail(stack[t])) = 0
  BY <1>1, <1>2
<1>4. <<f, g>> \in Seq(FrameSet) /\ Len(<<f, g>>) = 2
  OBVIOUS
<1>5. s = <<f, g>>
  <2>1. Tail(stack[t]) = <<>>
    BY <1>3, EmptySeq
  <2>2. <<f, g>> \o <<>> = <<f, g>>
    BY <1>4, ConcatEmptySeq
  <2> QED
    BY <2>1, <2>2, Zenon
<1>6. stack' = [stack EXCEPT ![t] = s]
  OBVIOUS
<1> HIDE DEF s
<1>7. s \in Seq(FrameSet) /\ Len(s) = 2 /\ s[1] = f /\ s[2] = g /\ s # <<>>
  BY <1>4, <1>5
<1>8. StackInv'
  BY <1>1, <1>6, <1>7 DEF StackInv
<1>9. Upper' = [Upper EXCEPT ![t] = f]
  BY <1>1, <1>6, <1>7 DEF Upper
<1>10. Lower' = [Lower EXCEPT ![t] = g]
  BY <1>1, <1>6, <1>7 DEF Lower
<1> QED
  BY <1>8, <1>9, <1>10 DEF Moves

LEMMA Returns ==
  ASSUME StackInv, NEW t \in Pair, stack[t] # <<>>, RefCount!Return(t)
  PROVE  StackInv' /\ Moves(t, Lower[t], NoFrame)
<1> DEFINE s == Tail(stack[t])
<1>1. stack[t] \in Seq(FrameSet) /\ Len(stack[t]) \in 1..2 /\ stack \in [Pair -> Seq(FrameSet)]
  BY DEF StackInv
<1>2. /\ s \in Seq(FrameSet) /\ Len(s) = Len(stack[t]) - 1
      /\ Len(stack[t]) = 2 => s # <<>> /\ s[1] = stack[t][2]
      /\ Len(stack[t]) = 1 => s = <<>>
  BY <1>1, TailOfShort
<1> HIDE DEF s
<1>5. stack' = [stack EXCEPT ![t] = s]
  BY DEF RefCount!Return, s
<1>6. s \in Seq(FrameSet) /\ Len(s) \in 0..1
  BY <1>1, <1>2
<1>7. IF s = <<>> THEN Lower[t] = NoFrame ELSE s[1] = Lower[t]
  <2>1. CASE Len(stack[t]) = 2
    BY <1>2, <2>1, TwoFrames
  <2>2. CASE Len(stack[t]) = 1
    BY <1>2, <2>2, TwoFrames
  <2> QED
    BY <1>1, <2>1, <2>2
<1>8. StackInv'
  BY <1>1, <1>5, <1>6 DEF StackInv
<1>9. Upper' = [Upper EXCEPT ![t] = Lower[t]]
  BY <1>1, <1>5, <1>7 DEF Upper
<1>10. Lower' = [Lower EXCEPT ![t] = NoFrame]
  <2>1. Len(s) # 2
    BY <1>6
  <2> QED
    BY <1>1, <1>5, <2>1 DEF Lower
<1> QED
  BY <1>8, <1>9, <1>10 DEF Moves

\* The same, place by place.
Changes(t, label, c, left) ==
  /\ Upper'[t].at = label /\ Upper'[t].c = c /\ Upper'[t].todo = left
  /\ \A u \in Pair : u # t => Upper'[u] = Upper[u]
SameBelow == \A u \in Pair : Lower'[u] = Lower[u]

LEMMA PlacesOfTop ==
  ASSUME StackInv, NEW t \in Pair, NEW label, RefCount!At(t, label)
  PROVE  stack[t] # <<>> /\ Upper[t] = RefCount!Top(t) /\ Upper[t].at = label /\ Upper[t] \in FrameSet
  BY TwoFrames DEF RefCount!At, RefCount!Top

LEMMA Turns ==
  ASSUME StackInv, NEW t \in Pair, NEW from, RefCount!At(t, from), NEW label \in RefCount!Labels,
         NEW c \in RefCount!Kept \union {RefCount!NoChild}, NEW left \in SUBSET RefCount!Kept,
         RefCount!Become(t, RefCount!Frame(label, c, left))
  PROVE  StackInv' /\ Upper[t].at = from /\ Changes(t, label, c, left) /\ SameBelow
<1>1. RefCount!Frame(label, c, left) \in FrameSet
  BY DEF RefCount!Frame, FrameSet
<1>2. stack[t] # <<>> /\ Upper[t].at = from
  BY PlacesOfTop
<1>3. StackInv' /\ Moves(t, RefCount!Frame(label, c, left), Lower[t])
  BY <1>1, <1>2, Becomes
<1>4. Upper' = [Upper EXCEPT ![t] = RefCount!Frame(label, c, left)] /\ Lower' = [Lower EXCEPT ![t] = Lower[t]]
  BY <1>3 DEF Moves
<1>5. Upper'[t] = RefCount!Frame(label, c, left) /\ \A u \in Pair : u # t => Upper'[u] = Upper[u]
  BY <1>4, TwoFrames
<1>6. \A u \in Pair : Lower'[u] = Lower[u]
  BY <1>4, TwoFrames
<1> QED
  BY <1>2, <1>3, <1>5, <1>6 DEF Changes, SameBelow, RefCount!Frame

LEMMA GoesTo ==
  ASSUME StackInv, NEW t \in Pair, NEW from, RefCount!At(t, from), NEW label \in RefCount!Labels,
         RefCount!Goto(t, label)
  PROVE  /\ StackInv' /\ Upper[t].at = from /\ Upper[t] = RefCount!Top(t)
         /\ Changes(t, label, Upper[t].c, Upper[t].todo) /\ SameBelow
<1>1. stack[t] # <<>> /\ Upper[t].at = from /\ Upper[t] = RefCount!Top(t) /\ Upper[t] \in FrameSet
  BY PlacesOfTop
<1>2. Upper[t].c \in RefCount!Kept \union {RefCount!NoChild} /\ Upper[t].todo \in SUBSET RefCount!Kept
  BY <1>1 DEF FrameSet
<1>3. [RefCount!Top(t) EXCEPT !.at = label] = RefCount!Frame(label, Upper[t].c, Upper[t].todo)
  BY <1>1 DEF RefCount!Frame, FrameSet
<1>4. RefCount!Become(t, RefCount!Frame(label, Upper[t].c, Upper[t].todo))
  BY <1>3 DEF RefCount!Goto
<1> HIDE <1>3
<1> QED
  BY <1>1, <1>2, <1>4, Turns

LEMMA Begins ==
  ASSUME StackInv, NEW t \in Pair, NEW label \in RefCount!Labels,
         NEW c \in RefCount!Kept \union {RefCount!NoChild}, NEW left \in SUBSET RefCount!Kept,
         RefCount!Call(t, RefCount!Frame(label, c, left))
  PROVE  /\ StackInv' /\ Upper[t] = NoFrame /\ Lower[t] = NoFrame
         /\ Changes(t, label, c, left) /\ SameBelow
         /\ r_calls < HandleCalls /\ r_calls' = r_calls + 1
<1>1. RefCount!Frame(label, c, left) \in FrameSet
  BY DEF RefCount!Frame, FrameSet
<1>2. stack[t] = <<>> /\ RefCount!Push(t, RefCount!Frame(label, c, left)) /\ r_calls < HandleCalls /\ r_calls' = r_calls + 1
  BY DEF RefCount!Call
<1>3. StackInv' /\ Moves(t, RefCount!Frame(label, c, left), NoFrame) /\ Lower[t] = NoFrame
  BY <1>1, <1>2, Pushes
<1>4. Upper' = [Upper EXCEPT ![t] = RefCount!Frame(label, c, left)] /\ Lower' = [Lower EXCEPT ![t] = NoFrame]
  BY <1>3 DEF Moves
<1>5. Upper'[t] = RefCount!Frame(label, c, left) /\ \A u \in Pair : u # t => Upper'[u] = Upper[u]
  BY <1>4, TwoFrames
<1>6. \A u \in Pair : Lower'[u] = Lower[u]
  BY <1>3, <1>4, TwoFrames
<1>7. Upper[t] = NoFrame
  BY <1>2, TwoFrames
<1> QED
  BY <1>2, <1>3, <1>5, <1>6, <1>7 DEF Changes, SameBelow, RefCount!Frame

LEMMA Ends ==
  ASSUME StackInv, NEW t \in Pair, NEW from, RefCount!At(t, from), RefCount!Return(t)
  PROVE  /\ StackInv' /\ Upper[t].at = from /\ Upper[t] = RefCount!Top(t)
         /\ Changes(t, Lower[t].at, Lower[t].c, Lower[t].todo)
         /\ Lower'[t] = NoFrame /\ \A u \in Pair : u # t => Lower'[u] = Lower[u]
<1>1. stack[t] # <<>> /\ Upper[t].at = from /\ Upper[t] = RefCount!Top(t)
  BY PlacesOfTop
<1>2. StackInv' /\ Moves(t, Lower[t], NoFrame)
  BY <1>1, Returns
<1>3. Upper' = [Upper EXCEPT ![t] = Lower[t]] /\ Lower' = [Lower EXCEPT ![t] = NoFrame]
  BY <1>2 DEF Moves
<1>4. Upper'[t] = Lower[t] /\ \A u \in Pair : u # t => Upper'[u] = Upper[u]
  BY <1>3, TwoFrames
<1>5. Lower'[t] = NoFrame /\ \A u \in Pair : u # t => Lower'[u] = Lower[u]
  BY <1>3, TwoFrames
<1> QED
  BY <1>1, <1>2, <1>4, <1>5 DEF Changes

-----------------------------------------------------------------------------
(* Each action keeps the invariant.                                          *)

\* What is below the upper frame of a call that calls nobody back.
LEMMA NothingBelow ==
  ASSUME StackInv, FrameInv, NEW t \in Pair
  PROVE  /\ Upper[t].at \notin Nested => Lower[t] = NoFrame
         /\ Lower[t].at = "idle" => Lower[t] = NoFrame
         /\ Lower[t].todo \in SUBSET RefCount!Kept /\ Lower[t].c = RefCount!NoChild
         /\ Upper[t].at \in RefCount!Labels \union {"idle"} /\ Lower[t].at \in RefCount!Labels \union {"idle"}
<1>1. Lower[t].at = "idle" => Lower[t] = NoFrame
  BY TwoFrames DEF FrameSet, RefCount!Labels
<1>2. Upper[t].at \notin Nested => Lower[t].at = "idle"
  BY DEF FrameInv
<1>3. Lower[t].todo \in SUBSET RefCount!Kept
  BY TwoFrames DEF FrameSet, NoFrame
<1> QED
  BY <1>1, <1>2, <1>3, TwoFrames DEF FrameInv, FrameSet, NoFrame

LEMMA UpperIsAFrame ==
  ASSUME StackInv, NEW u \in Pair, Upper[u].at # "idle"
  PROVE  Upper[u] \in RefCount!Frames(u)
<1>1. stack[u] # <<>>
  BY TwoFrames DEF NoFrame
<1>2. Upper[u] = stack[u][1]
  BY <1>1 DEF Upper
<1>3. 1 \in DOMAIN stack[u]
  BY <1>1 DEF StackInv
<1> QED
  BY <1>2, <1>3 DEF RefCount!Frames

LEMMA EndsAlone ==
  ASSUME StackInv, NEW t \in Pair, NEW from, RefCount!At(t, from), RefCount!Return(t),
         Lower[t] = NoFrame
  PROVE  /\ StackInv' /\ Upper[t].at = from /\ Upper[t] = RefCount!Top(t)
         /\ Changes(t, "idle", RefCount!NoChild, {}) /\ SameBelow
<1>1. /\ StackInv' /\ Upper[t].at = from /\ Upper[t] = RefCount!Top(t)
      /\ Changes(t, Lower[t].at, Lower[t].c, Lower[t].todo)
      /\ Lower'[t] = NoFrame /\ \A u \in Pair : u # t => Lower'[u] = Lower[u]
  BY Ends
<1>2. Lower[t].at = "idle" /\ Lower[t].c = RefCount!NoChild /\ Lower[t].todo = {}
  BY DEF NoFrame
<1> QED
  BY <1>1, <1>2 DEF SameBelow

LEMMA LessToDo ==
  ASSUME NEW f \in FrameSet, NEW c
  PROVE  [f EXCEPT !.todo = @ \ {c}] = RefCount!Frame(f.at, f.c, f.todo \ {c})
  BY DEF RefCount!Frame, FrameSet

\* A handle that somebody may call is one nobody is adding.
LEMMA UsableHandles ==
  ASSUME StackInv, NEW i \in RefCount!Usable
  PROVE  /\ i \in (created \intersect Inners) \ dropped
         /\ \A u \in Pair : Upper[u].c = i => Upper[u].at \notin {"add", "push", "unlock"}
<1>1. i \in (created \intersect Inners) \ dropped
  BY DEF RefCount!Usable
<1>2. ASSUME NEW u \in Pair, Upper[u].c = i, Upper[u].at \in {"add", "push", "unlock"} PROVE FALSE
  BY <1>2, UpperIsAFrame DEF RefCount!Usable
<1> QED
  BY <1>1, <1>2


LEMMA AddLockKeeps ==
  ASSUME Setup, RInv, NEW t \in Pair, RefCount!AddLock(t)
  PROVE  RInv'
<1>0. StackInv /\ FrameInv /\ SetsInv /\ StateInv /\ FreshInv /\ ReleaseInv /\ CountInv /\ KeptInv
  BY DEF RInv
<1>1. /\ StackInv' /\ Upper[t].at = "add" /\ Changes(t, "push", Upper[t].c, Upper[t].todo) /\ SameBelow
      /\ r_current_state = "None" /\ r_current_state' = "Edit"
      /\ UNCHANGED <<m_refcount, r_disposables, created, disposed, dropped, released, r_calls>>
  <2>1. RefCount!At(t, "add") /\ RefCount!Goto(t, "push") /\ "push" \in RefCount!Labels
    BY DEF RefCount!AddLock, RefCount!TryEdit, RefCount!Labels
  <2> QED
    BY <1>0, <2>1, GoesTo DEF RefCount!AddLock, RefCount!TryEdit, RefCount!parent, RefCount!handles
<1>2. FrameInv'
  BY <1>0, <1>1
    DEF Setup, Changes, SameBelow, FrameInv, SetsInv, StateInv, FreshInv, Edits, Closes, OfChild,
        OfHandle, Nested, NoFrame, RefCount!Kept
<1>3. SetsInv'
  BY <1>0, <1>1 DEF Setup, Changes, SameBelow, SetsInv, FrameInv, OfChild, OfHandle, RefCount!Kept
<1>4. StateInv'
  BY <1>0, <1>1 DEF Setup, Changes, SameBelow, StateInv, FrameInv, Edits, Closes, Nested, NoFrame
<1>5. FreshInv'
  BY <1>0, <1>1
    DEF Setup, Changes, SameBelow, FreshInv, FrameInv, SetsInv, StateInv, Edits, Closes, OfChild,
        Nested, NoFrame, RefCount!Kept
<1>6. ReleaseInv'
  BY <1>0, <1>1
    DEF Setup, Changes, SameBelow, ReleaseInv, FreshInv, FrameInv, SetsInv, Leaving, OfHandle, OfChild,
        Nested, NoFrame
<1>7. CountInv'
  BY <1>0, <1>1
    DEF Setup, Changes, SameBelow, CountInv, FrameInv, StateInv, Closes, Edits, Nested, NoFrame, Owners
<1>8. KeptInv'
  BY <1>0, <1>1
    DEF Setup, Changes, SameBelow, KeptInv, FrameInv, SetsInv, StateInv, FreshInv, Edits, Closes,
        Destroyed, Nested, OfChild, OfHandle, NoFrame
<1> QED
  BY <1>1, <1>2, <1>3, <1>4, <1>5, <1>6, <1>7, <1>8 DEF RInv


LEMMA AddPushKeeps ==
  ASSUME Setup, RInv, NEW t \in Pair, RefCount!AddPush(t)
  PROVE  RInv'
<1>0. StackInv /\ FrameInv /\ SetsInv /\ StateInv /\ FreshInv /\ ReleaseInv /\ CountInv /\ KeptInv
  BY DEF RInv
<1>1. /\ StackInv' /\ Upper[t].at = "push" /\ Changes(t, "unlock", Upper[t].c, Upper[t].todo) /\ SameBelow
      /\ r_disposables' = r_disposables \union {Upper[t].c}
      /\ UNCHANGED <<r_current_state, m_refcount, created, disposed, dropped, released, r_calls>>
  <2>1. RefCount!At(t, "push") /\ RefCount!Goto(t, "unlock") /\ "unlock" \in RefCount!Labels
    BY DEF RefCount!AddPush, RefCount!Labels
  <2> QED
    BY <1>0, <2>1, GoesTo DEF RefCount!AddPush, RefCount!parent, RefCount!handles
<1>2. FrameInv'
  BY <1>0, <1>1
    DEF Setup, Changes, SameBelow, FrameInv, SetsInv, StateInv, FreshInv, Edits, Closes, OfChild,
        OfHandle, Nested, NoFrame, RefCount!Kept
<1>3. SetsInv'
  BY <1>0, <1>1 DEF Setup, Changes, SameBelow, SetsInv, FrameInv, OfChild, OfHandle, RefCount!Kept
<1>4. StateInv'
  BY <1>0, <1>1 DEF Setup, Changes, SameBelow, StateInv, FrameInv, Edits, Closes, Nested, NoFrame
<1>5. FreshInv'
  BY <1>0, <1>1
    DEF Setup, Changes, SameBelow, FreshInv, FrameInv, SetsInv, StateInv, Edits, Closes, OfChild,
        Nested, NoFrame, RefCount!Kept
<1>6. ReleaseInv'
  BY <1>0, <1>1
    DEF Setup, Changes, SameBelow, ReleaseInv, FreshInv, FrameInv, SetsInv, Leaving, OfHandle, OfChild,
        Nested, NoFrame
<1>7. CountInv'
  BY <1>0, <1>1
    DEF Setup, Changes, SameBelow, CountInv, FrameInv, StateInv, Closes, Edits, Nested, NoFrame, Owners
<1>8. KeptInv'
  <2>1. \A k \in created' : k \in disposed' \union r_disposables' \/ Destroyed(k)'
        \/ \E u \in Pair : Upper'[u].at \in {"add", "push"} /\ Upper'[u].c = k
    BY <1>0, <1>1
      DEF Setup, Changes, SameBelow, KeptInv, FrameInv, SetsInv, StateInv, FreshInv, Edits, Closes,
          Destroyed, Nested, OfChild, OfHandle, NoFrame
  <2>2. \A k \in dropped' : k \in disposed' \/ Destroyed(k)'
    BY <1>0, <1>1
      DEF Setup, Changes, SameBelow, KeptInv, FrameInv, SetsInv, StateInv, FreshInv, Edits, Closes,
          Destroyed, Nested, OfChild, OfHandle, NoFrame
  <2>3. \A u \in Pair : Upper'[u].at \in {"walk", "clear_walk"} =>
          \A k \in r_disposables' \ Upper'[u].todo : k \in disposed' \/ Destroyed(k)'
    BY <1>0, <1>1
      DEF Setup, Changes, SameBelow, KeptInv, FrameInv, SetsInv, StateInv, FreshInv, Edits, Closes,
          Destroyed, Nested, OfChild, OfHandle, NoFrame
  <2>4. \A u \in Pair : Lower'[u].at \in {"walk", "clear_walk"} =>
          \A k \in r_disposables' \ Lower'[u].todo :
            k \in disposed' \/ Destroyed(k)' \/ (Upper'[u].at = "inner" /\ Upper'[u].c = k)
    BY <1>0, <1>1
      DEF Setup, Changes, SameBelow, KeptInv, FrameInv, SetsInv, StateInv, FreshInv, Edits, Closes,
          Destroyed, Nested, OfChild, OfHandle, NoFrame
  <2> QED
    BY <2>1, <2>2, <2>3, <2>4 DEF KeptInv
<1> QED
  BY <1>1, <1>2, <1>3, <1>4, <1>5, <1>6, <1>7, <1>8 DEF RInv


LEMMA RemoveUnlockKeeps ==
  ASSUME Setup, RInv, NEW t \in Pair, RefCount!RemoveUnlock(t)
  PROVE  RInv'
<1>0. StackInv /\ FrameInv /\ SetsInv /\ StateInv /\ FreshInv /\ ReleaseInv /\ CountInv /\ KeptInv
  BY DEF RInv
<1>1. /\ StackInv' /\ Upper[t].at = "remove_unlock" /\ Changes(t, "release", Upper[t].c, Upper[t].todo) /\ SameBelow
      /\ r_current_state' = "None"
      /\ UNCHANGED <<m_refcount, r_disposables, created, disposed, dropped, released, r_calls>>
  <2>1. RefCount!At(t, "remove_unlock") /\ RefCount!Goto(t, "release") /\ "release" \in RefCount!Labels
    BY DEF RefCount!RemoveUnlock, RefCount!Labels
  <2> QED
    BY <1>0, <2>1, GoesTo DEF RefCount!RemoveUnlock, RefCount!parent, RefCount!handles
<1>2. FrameInv'
  BY <1>0, <1>1
    DEF Setup, Changes, SameBelow, FrameInv, SetsInv, StateInv, FreshInv, Edits, Closes, OfChild,
        OfHandle, Nested, NoFrame, RefCount!Kept
<1>3. SetsInv'
  BY <1>0, <1>1 DEF Setup, Changes, SameBelow, SetsInv, FrameInv, OfChild, OfHandle, RefCount!Kept
<1>4. StateInv'
  BY <1>0, <1>1 DEF Setup, Changes, SameBelow, StateInv, FrameInv, Edits, Closes, Nested, NoFrame
<1>5. FreshInv'
  BY <1>0, <1>1
    DEF Setup, Changes, SameBelow, FreshInv, FrameInv, SetsInv, StateInv, Edits, Closes, OfChild,
        Nested, NoFrame, RefCount!Kept
<1>6. ReleaseInv'
  BY <1>0, <1>1
    DEF Setup, Changes, SameBelow, ReleaseInv, FreshInv, FrameInv, SetsInv, Leaving, OfHandle, OfChild,
        Nested, NoFrame
<1>7. CountInv'
  BY <1>0, <1>1
    DEF Setup, Changes, SameBelow, CountInv, FrameInv, StateInv, Closes, Edits, Nested, NoFrame, Owners
<1>8. KeptInv'
  BY <1>0, <1>1
    DEF Setup, Changes, SameBelow, KeptInv, FrameInv, SetsInv, StateInv, FreshInv, Edits, Closes,
        Destroyed, Nested, OfChild, OfHandle, NoFrame
<1> QED
  BY <1>1, <1>2, <1>3, <1>4, <1>5, <1>6, <1>7, <1>8 DEF RInv


LEMMA RemoveLockKeeps ==
  ASSUME Setup, RInv, NEW t \in Pair, RefCount!RemoveLock(t)
  PROVE  RInv'
<1>0. StackInv /\ FrameInv /\ SetsInv /\ StateInv /\ FreshInv /\ ReleaseInv /\ CountInv /\ KeptInv
  BY DEF RInv
<1>1. /\ StackInv' /\ Upper[t].at = "remove" /\ Changes(t, "erase", Upper[t].c, Upper[t].todo) /\ SameBelow
      /\ r_current_state = "None" /\ r_current_state' = "Edit"
      /\ UNCHANGED <<m_refcount, r_disposables, created, disposed, dropped, released, r_calls>>
  <2>1. RefCount!At(t, "remove") /\ RefCount!Goto(t, "erase") /\ "erase" \in RefCount!Labels
    BY DEF RefCount!RemoveLock, RefCount!TryEdit, RefCount!Labels
  <2> QED
    BY <1>0, <2>1, GoesTo DEF RefCount!RemoveLock, RefCount!TryEdit, RefCount!parent, RefCount!handles
<1>2. FrameInv'
  BY <1>0, <1>1
    DEF Setup, Changes, SameBelow, FrameInv, SetsInv, StateInv, FreshInv, Edits, Closes, OfChild,
        OfHandle, Nested, NoFrame, RefCount!Kept
<1>3. SetsInv'
  BY <1>0, <1>1 DEF Setup, Changes, SameBelow, SetsInv, FrameInv, OfChild, OfHandle, RefCount!Kept
<1>4. StateInv'
  BY <1>0, <1>1 DEF Setup, Changes, SameBelow, StateInv, FrameInv, Edits, Closes, Nested, NoFrame
<1>5. FreshInv'
  BY <1>0, <1>1
    DEF Setup, Changes, SameBelow, FreshInv, FrameInv, SetsInv, StateInv, Edits, Closes, OfChild,
        Nested, NoFrame, RefCount!Kept
<1>6. ReleaseInv'
  BY <1>0, <1>1
    DEF Setup, Changes, SameBelow, ReleaseInv, FreshInv, FrameInv, SetsInv, Leaving, OfHandle, OfChild,
        Nested, NoFrame
<1>7. CountInv'
  BY <1>0, <1>1
    DEF Setup, Changes, SameBelow, CountInv, FrameInv, StateInv, Closes, Edits, Nested, NoFrame, Owners
<1>8. KeptInv'
  BY <1>0, <1>1
    DEF Setup, Changes, SameBelow, KeptInv, FrameInv, SetsInv, StateInv, FreshInv, Edits, Closes,
        Destroyed, Nested, OfChild, OfHandle, NoFrame
<1> QED
  BY <1>1, <1>2, <1>3, <1>4, <1>5, <1>6, <1>7, <1>8 DEF RInv


LEMMA RemoveEraseKeeps ==
  ASSUME Setup, RInv, NEW t \in Pair, RefCount!RemoveErase(t)
  PROVE  RInv'
<1>0. StackInv /\ FrameInv /\ SetsInv /\ StateInv /\ FreshInv /\ ReleaseInv /\ CountInv /\ KeptInv
  BY DEF RInv
<1>1. /\ StackInv' /\ Upper[t].at = "erase" /\ Changes(t, "remove_unlock", Upper[t].c, Upper[t].todo) /\ SameBelow
      /\ r_disposables' = r_disposables \ dropped
      /\ UNCHANGED <<r_current_state, m_refcount, created, disposed, dropped, released, r_calls>>
  <2>1. RefCount!At(t, "erase") /\ RefCount!Goto(t, "remove_unlock") /\ "remove_unlock" \in RefCount!Labels
    BY DEF RefCount!RemoveErase, RefCount!Labels
  <2> QED
    BY <1>0, <2>1, GoesTo DEF RefCount!RemoveErase, RefCount!parent, RefCount!handles
<1>2. FrameInv'
  BY <1>0, <1>1
    DEF Setup, Changes, SameBelow, FrameInv, SetsInv, StateInv, FreshInv, Edits, Closes, OfChild,
        OfHandle, Nested, NoFrame, RefCount!Kept
<1>3. SetsInv'
  BY <1>0, <1>1 DEF Setup, Changes, SameBelow, SetsInv, FrameInv, OfChild, OfHandle, RefCount!Kept
<1>4. StateInv'
  BY <1>0, <1>1 DEF Setup, Changes, SameBelow, StateInv, FrameInv, Edits, Closes, Nested, NoFrame
<1>5. FreshInv'
  BY <1>0, <1>1
    DEF Setup, Changes, SameBelow, FreshInv, FrameInv, SetsInv, StateInv, Edits, Closes, OfChild,
        Nested, NoFrame, RefCount!Kept
<1>6. ReleaseInv'
  BY <1>0, <1>1
    DEF Setup, Changes, SameBelow, ReleaseInv, FreshInv, FrameInv, SetsInv, Leaving, OfHandle, OfChild,
        Nested, NoFrame
<1>7. CountInv'
  BY <1>0, <1>1
    DEF Setup, Changes, SameBelow, CountInv, FrameInv, StateInv, Closes, Edits, Nested, NoFrame, Owners
<1>8. KeptInv'
  <2>1. \A k \in created' : k \in disposed' \union r_disposables' \/ Destroyed(k)'
        \/ \E u \in Pair : Upper'[u].at \in {"add", "push"} /\ Upper'[u].c = k
    BY <1>0, <1>1
      DEF Setup, Changes, SameBelow, KeptInv, FrameInv, SetsInv, StateInv, FreshInv, Edits, Closes,
          Destroyed, Nested, OfChild, OfHandle, NoFrame
  <2>2. \A k \in dropped' : k \in disposed' \/ Destroyed(k)'
    BY <1>0, <1>1
      DEF Setup, Changes, SameBelow, KeptInv, FrameInv, SetsInv, StateInv, FreshInv, Edits, Closes,
          Destroyed, Nested, OfChild, OfHandle, NoFrame
  <2>3. \A u \in Pair : Upper'[u].at \in {"walk", "clear_walk"} =>
          \A k \in r_disposables' \ Upper'[u].todo : k \in disposed' \/ Destroyed(k)'
    BY <1>0, <1>1
      DEF Setup, Changes, SameBelow, KeptInv, FrameInv, SetsInv, StateInv, FreshInv, Edits, Closes,
          Destroyed, Nested, OfChild, OfHandle, NoFrame
  <2>4. \A u \in Pair : Lower'[u].at \in {"walk", "clear_walk"} =>
          \A k \in r_disposables' \ Lower'[u].todo :
            k \in disposed' \/ Destroyed(k)' \/ (Upper'[u].at = "inner" /\ Upper'[u].c = k)
    BY <1>0, <1>1
      DEF Setup, Changes, SameBelow, KeptInv, FrameInv, SetsInv, StateInv, FreshInv, Edits, Closes,
          Destroyed, Nested, OfChild, OfHandle, NoFrame
  <2> QED
    BY <2>1, <2>2, <2>3, <2>4 DEF KeptInv
<1> QED
  BY <1>1, <1>2, <1>3, <1>4, <1>5, <1>6, <1>7, <1>8 DEF RInv


LEMMA RemoveRefusedKeeps ==
  ASSUME Setup, RInv, NEW t \in Pair, RefCount!RemoveRefused(t)
  PROVE  RInv'
<1>0. StackInv /\ FrameInv /\ SetsInv /\ StateInv /\ FreshInv /\ ReleaseInv /\ CountInv /\ KeptInv
  BY DEF RInv
<1>1. /\ StackInv' /\ Upper[t].at = "remove" /\ Changes(t, "release", Upper[t].c, Upper[t].todo) /\ SameBelow
      /\ r_current_state = "Disposed"
      /\ UNCHANGED <<r_current_state, m_refcount, r_disposables, created, disposed, dropped, released,
                     r_calls>>
  <2>1. RefCount!At(t, "remove") /\ RefCount!Goto(t, "release") /\ "release" \in RefCount!Labels
    BY DEF RefCount!RemoveRefused, RefCount!Labels
  <2> QED
    BY <1>0, <2>1, GoesTo DEF RefCount!RemoveRefused, RefCount!parent, RefCount!handles
<1>2. FrameInv'
  BY <1>0, <1>1
    DEF Setup, Changes, SameBelow, FrameInv, SetsInv, StateInv, FreshInv, Edits, Closes, OfChild,
        OfHandle, Nested, NoFrame, RefCount!Kept
<1>3. SetsInv'
  BY <1>0, <1>1 DEF Setup, Changes, SameBelow, SetsInv, FrameInv, OfChild, OfHandle, RefCount!Kept
<1>4. StateInv'
  BY <1>0, <1>1 DEF Setup, Changes, SameBelow, StateInv, FrameInv, Edits, Closes, Nested, NoFrame
<1>5. FreshInv'
  BY <1>0, <1>1
    DEF Setup, Changes, SameBelow, FreshInv, FrameInv, SetsInv, StateInv, Edits, Closes, OfChild,
        Nested, NoFrame, RefCount!Kept
<1>6. ReleaseInv'
  BY <1>0, <1>1
    DEF Setup, Changes, SameBelow, ReleaseInv, FreshInv, FrameInv, SetsInv, Leaving, OfHandle, OfChild,
        Nested, NoFrame
<1>7. CountInv'
  BY <1>0, <1>1
    DEF Setup, Changes, SameBelow, CountInv, FrameInv, StateInv, Closes, Edits, Nested, NoFrame, Owners
<1>8. KeptInv'
  BY <1>0, <1>1
    DEF Setup, Changes, SameBelow, KeptInv, FrameInv, SetsInv, StateInv, FreshInv, Edits, Closes,
        Destroyed, Nested, OfChild, OfHandle, NoFrame
<1> QED
  BY <1>1, <1>2, <1>3, <1>4, <1>5, <1>6, <1>7, <1>8 DEF RInv


LEMMA DisposeKeeps ==
  ASSUME Setup, RInv, NEW t \in Pair, RefCount!Dispose(t)
  PROVE  RInv'
<1>0. StackInv /\ FrameInv /\ SetsInv /\ StateInv /\ FreshInv /\ ReleaseInv /\ CountInv /\ KeptInv
  BY DEF RInv
<1>1. /\ StackInv' /\ Upper[t].at = "dispose" /\ Changes(t, "store", Upper[t].c, Upper[t].todo) /\ SameBelow
      /\ r_current_state = "None" /\ r_current_state' = "Disposed"
      /\ UNCHANGED <<m_refcount, r_disposables, created, disposed, dropped, released, r_calls>>
  <2>1. RefCount!At(t, "dispose") /\ RefCount!Goto(t, "store") /\ "store" \in RefCount!Labels
    BY DEF RefCount!Dispose, RefCount!Labels
  <2> QED
    BY <1>0, <2>1, GoesTo DEF RefCount!Dispose, RefCount!parent, RefCount!handles
<1>2. FrameInv'
  BY <1>0, <1>1
    DEF Setup, Changes, SameBelow, FrameInv, SetsInv, StateInv, FreshInv, Edits, Closes, OfChild,
        OfHandle, Nested, NoFrame, RefCount!Kept
<1>3. SetsInv'
  BY <1>0, <1>1 DEF Setup, Changes, SameBelow, SetsInv, FrameInv, OfChild, OfHandle, RefCount!Kept
<1>4. StateInv'
  BY <1>0, <1>1 DEF Setup, Changes, SameBelow, StateInv, FrameInv, Edits, Closes, Nested, NoFrame
<1>5. FreshInv'
  BY <1>0, <1>1
    DEF Setup, Changes, SameBelow, FreshInv, FrameInv, SetsInv, StateInv, Edits, Closes, OfChild,
        Nested, NoFrame, RefCount!Kept
<1>6. ReleaseInv'
  BY <1>0, <1>1
    DEF Setup, Changes, SameBelow, ReleaseInv, FreshInv, FrameInv, SetsInv, Leaving, OfHandle, OfChild,
        Nested, NoFrame
<1>7. CountInv'
  BY <1>0, <1>1
    DEF Setup, Changes, SameBelow, CountInv, FrameInv, StateInv, Closes, Edits, Nested, NoFrame, Owners
<1>8. KeptInv'
  BY <1>0, <1>1
    DEF Setup, Changes, SameBelow, KeptInv, FrameInv, SetsInv, StateInv, FreshInv, Edits, Closes,
        Destroyed, Nested, OfChild, OfHandle, NoFrame
<1> QED
  BY <1>1, <1>2, <1>3, <1>4, <1>5, <1>6, <1>7, <1>8 DEF RInv


LEMMA AddRefCallKeeps ==
  ASSUME Setup, RInv, NEW t \in Pair, RefCount!AddRefCall(t)
  PROVE  RInv'
<1>0. StackInv /\ FrameInv /\ SetsInv /\ StateInv /\ FreshInv /\ ReleaseInv /\ CountInv /\ KeptInv
  BY DEF RInv
<1>1. /\ StackInv' /\ Upper[t] = NoFrame /\ Lower[t] = NoFrame
      /\ Changes(t, "add_ref", RefCount!NoChild, {}) /\ SameBelow /\ r_calls < HandleCalls /\ r_calls' = r_calls + 1
      /\ TRUE
      /\ UNCHANGED <<r_current_state, m_refcount, r_disposables, created, disposed, dropped, released>>
  <2>1. "add_ref" \in RefCount!Labels /\ RefCount!NoChild \in RefCount!Kept \union {RefCount!NoChild} /\ {} \in SUBSET RefCount!Kept
    BY <1>0 DEF RefCount!Labels, RefCount!Kept, SetsInv
  <2>2. RefCount!Call(t, RefCount!Frame("add_ref", RefCount!NoChild, {}))
    BY DEF RefCount!AddRefCall
  <2> QED
    BY <1>0, <2>1, <2>2, Begins DEF RefCount!AddRefCall, RefCount!parent, RefCount!handles
<1>2. FrameInv'
  BY <1>0, <1>1
    DEF Setup, Changes, SameBelow, FrameInv, SetsInv, StateInv, FreshInv, Edits, Closes, OfChild,
        OfHandle, Nested, NoFrame, RefCount!Kept
<1>3. SetsInv'
  BY <1>0, <1>1 DEF Setup, Changes, SameBelow, SetsInv, FrameInv, OfChild, OfHandle, RefCount!Kept
<1>4. StateInv'
  BY <1>0, <1>1 DEF Setup, Changes, SameBelow, StateInv, FrameInv, Edits, Closes, Nested, NoFrame
<1>5. FreshInv'
  BY <1>0, <1>1
    DEF Setup, Changes, SameBelow, FreshInv, FrameInv, SetsInv, StateInv, Edits, Closes, OfChild,
        Nested, NoFrame, RefCount!Kept
<1>6. ReleaseInv'
  BY <1>0, <1>1
    DEF Setup, Changes, SameBelow, ReleaseInv, FreshInv, FrameInv, SetsInv, Leaving, OfHandle, OfChild,
        Nested, NoFrame
<1>7. CountInv'
  BY <1>0, <1>1
    DEF Setup, Changes, SameBelow, CountInv, FrameInv, StateInv, Closes, Edits, Nested, NoFrame, Owners
<1>8. KeptInv'
  BY <1>0, <1>1
    DEF Setup, Changes, SameBelow, KeptInv, FrameInv, SetsInv, StateInv, FreshInv, Edits, Closes,
        Destroyed, Nested, OfChild, OfHandle, NoFrame
<1> QED
  BY <1>1, <1>2, <1>3, <1>4, <1>5, <1>6, <1>7, <1>8 DEF RInv


LEMMA DisposeCallKeeps ==
  ASSUME Setup, RInv, NEW t \in Pair, RefCount!DisposeCall(t)
  PROVE  RInv'
<1>0. StackInv /\ FrameInv /\ SetsInv /\ StateInv /\ FreshInv /\ ReleaseInv /\ CountInv /\ KeptInv
  BY DEF RInv
<1>1. /\ StackInv' /\ Upper[t] = NoFrame /\ Lower[t] = NoFrame
      /\ Changes(t, "dispose", RefCount!NoChild, {}) /\ SameBelow /\ r_calls < HandleCalls /\ r_calls' = r_calls + 1
      /\ TRUE
      /\ UNCHANGED <<r_current_state, m_refcount, r_disposables, created, disposed, dropped, released>>
  <2>1. "dispose" \in RefCount!Labels /\ RefCount!NoChild \in RefCount!Kept \union {RefCount!NoChild} /\ {} \in SUBSET RefCount!Kept
    BY <1>0 DEF RefCount!Labels, RefCount!Kept, SetsInv
  <2>2. RefCount!Call(t, RefCount!Frame("dispose", RefCount!NoChild, {}))
    BY DEF RefCount!DisposeCall
  <2> QED
    BY <1>0, <2>1, <2>2, Begins DEF RefCount!DisposeCall, RefCount!parent, RefCount!handles
<1>2. FrameInv'
  BY <1>0, <1>1
    DEF Setup, Changes, SameBelow, FrameInv, SetsInv, StateInv, FreshInv, Edits, Closes, OfChild,
        OfHandle, Nested, NoFrame, RefCount!Kept
<1>3. SetsInv'
  BY <1>0, <1>1 DEF Setup, Changes, SameBelow, SetsInv, FrameInv, OfChild, OfHandle, RefCount!Kept
<1>4. StateInv'
  BY <1>0, <1>1 DEF Setup, Changes, SameBelow, StateInv, FrameInv, Edits, Closes, Nested, NoFrame
<1>5. FreshInv'
  BY <1>0, <1>1
    DEF Setup, Changes, SameBelow, FreshInv, FrameInv, SetsInv, StateInv, Edits, Closes, OfChild,
        Nested, NoFrame, RefCount!Kept
<1>6. ReleaseInv'
  BY <1>0, <1>1
    DEF Setup, Changes, SameBelow, ReleaseInv, FreshInv, FrameInv, SetsInv, Leaving, OfHandle, OfChild,
        Nested, NoFrame
<1>7. CountInv'
  BY <1>0, <1>1
    DEF Setup, Changes, SameBelow, CountInv, FrameInv, StateInv, Closes, Edits, Nested, NoFrame, Owners
<1>8. KeptInv'
  BY <1>0, <1>1
    DEF Setup, Changes, SameBelow, KeptInv, FrameInv, SetsInv, StateInv, FreshInv, Edits, Closes,
        Destroyed, Nested, OfChild, OfHandle, NoFrame
<1> QED
  BY <1>1, <1>2, <1>3, <1>4, <1>5, <1>6, <1>7, <1>8 DEF RInv


LEMMA ClearCallKeeps ==
  ASSUME Setup, RInv, NEW t \in Pair, RefCount!ClearCall(t)
  PROVE  RInv'
<1>0. StackInv /\ FrameInv /\ SetsInv /\ StateInv /\ FreshInv /\ ReleaseInv /\ CountInv /\ KeptInv
  BY DEF RInv
<1>1. /\ StackInv' /\ Upper[t] = NoFrame /\ Lower[t] = NoFrame
      /\ Changes(t, "clear", RefCount!NoChild, {}) /\ SameBelow /\ r_calls < HandleCalls /\ r_calls' = r_calls + 1
      /\ TRUE
      /\ UNCHANGED <<r_current_state, m_refcount, r_disposables, created, disposed, dropped, released>>
  <2>1. "clear" \in RefCount!Labels /\ RefCount!NoChild \in RefCount!Kept \union {RefCount!NoChild} /\ {} \in SUBSET RefCount!Kept
    BY <1>0 DEF RefCount!Labels, RefCount!Kept, SetsInv
  <2>2. RefCount!Call(t, RefCount!Frame("clear", RefCount!NoChild, {}))
    BY DEF RefCount!ClearCall
  <2> QED
    BY <1>0, <2>1, <2>2, Begins DEF RefCount!ClearCall, RefCount!parent, RefCount!handles
<1>2. FrameInv'
  BY <1>0, <1>1
    DEF Setup, Changes, SameBelow, FrameInv, SetsInv, StateInv, FreshInv, Edits, Closes, OfChild,
        OfHandle, Nested, NoFrame, RefCount!Kept
<1>3. SetsInv'
  BY <1>0, <1>1 DEF Setup, Changes, SameBelow, SetsInv, FrameInv, OfChild, OfHandle, RefCount!Kept
<1>4. StateInv'
  BY <1>0, <1>1 DEF Setup, Changes, SameBelow, StateInv, FrameInv, Edits, Closes, Nested, NoFrame
<1>5. FreshInv'
  BY <1>0, <1>1
    DEF Setup, Changes, SameBelow, FreshInv, FrameInv, SetsInv, StateInv, Edits, Closes, OfChild,
        Nested, NoFrame, RefCount!Kept
<1>6. ReleaseInv'
  BY <1>0, <1>1
    DEF Setup, Changes, SameBelow, ReleaseInv, FreshInv, FrameInv, SetsInv, Leaving, OfHandle, OfChild,
        Nested, NoFrame
<1>7. CountInv'
  BY <1>0, <1>1
    DEF Setup, Changes, SameBelow, CountInv, FrameInv, StateInv, Closes, Edits, Nested, NoFrame, Owners
<1>8. KeptInv'
  BY <1>0, <1>1
    DEF Setup, Changes, SameBelow, KeptInv, FrameInv, SetsInv, StateInv, FreshInv, Edits, Closes,
        Destroyed, Nested, OfChild, OfHandle, NoFrame
<1> QED
  BY <1>1, <1>2, <1>3, <1>4, <1>5, <1>6, <1>7, <1>8 DEF RInv


LEMMA UnlockKeeps ==
  ASSUME Setup, RInv, NEW t \in Pair, RefCount!Unlock(t)
  PROVE  RInv'
<1>0. StackInv /\ FrameInv /\ SetsInv /\ StateInv /\ FreshInv /\ ReleaseInv /\ CountInv /\ KeptInv
  BY DEF RInv
<1>1. /\ StackInv' /\ Upper[t].at = "unlock" /\ Lower[t] = NoFrame
      /\ Changes(t, "idle", RefCount!NoChild, {}) /\ SameBelow
      /\ r_current_state' = "None"
      /\ UNCHANGED <<m_refcount, r_disposables, created, disposed, dropped, released, r_calls>>
  <2>1. RefCount!At(t, "unlock") /\ RefCount!Return(t)
    BY DEF RefCount!Unlock
  <2>2. Lower[t] = NoFrame
    BY <1>0, <2>1, PlacesOfTop, NothingBelow DEF Nested
  <2> QED
    BY <1>0, <2>1, <2>2, EndsAlone DEF RefCount!Unlock, RefCount!parent, RefCount!handles
<1>2. FrameInv'
  BY <1>0, <1>1
    DEF Setup, Changes, SameBelow, FrameInv, SetsInv, StateInv, FreshInv, Edits, Closes, OfChild,
        OfHandle, Nested, NoFrame, RefCount!Kept
<1>3. SetsInv'
  BY <1>0, <1>1 DEF Setup, Changes, SameBelow, SetsInv, FrameInv, OfChild, OfHandle, RefCount!Kept
<1>4. StateInv'
  BY <1>0, <1>1 DEF Setup, Changes, SameBelow, StateInv, FrameInv, Edits, Closes, Nested, NoFrame
<1>5. FreshInv'
  BY <1>0, <1>1
    DEF Setup, Changes, SameBelow, FreshInv, FrameInv, SetsInv, StateInv, Edits, Closes, OfChild,
        Nested, NoFrame, RefCount!Kept
<1>6. ReleaseInv'
  BY <1>0, <1>1
    DEF Setup, Changes, SameBelow, ReleaseInv, FreshInv, FrameInv, SetsInv, Leaving, OfHandle, OfChild,
        Nested, NoFrame
<1>7. CountInv'
  BY <1>0, <1>1
    DEF Setup, Changes, SameBelow, CountInv, FrameInv, StateInv, Closes, Edits, Nested, NoFrame, Owners
<1>8. KeptInv'
  BY <1>0, <1>1
    DEF Setup, Changes, SameBelow, KeptInv, FrameInv, SetsInv, StateInv, FreshInv, Edits, Closes,
        Destroyed, Nested, OfChild, OfHandle, NoFrame
<1> QED
  BY <1>1, <1>2, <1>3, <1>4, <1>5, <1>6, <1>7, <1>8 DEF RInv


LEMMA AddRefRefusedKeeps ==
  ASSUME Setup, RInv, NEW t \in Pair, RefCount!AddRefRefused(t)
  PROVE  RInv'
<1>0. StackInv /\ FrameInv /\ SetsInv /\ StateInv /\ FreshInv /\ ReleaseInv /\ CountInv /\ KeptInv
  BY DEF RInv
<1>1. /\ StackInv' /\ Upper[t].at = "add_ref" /\ Lower[t] = NoFrame
      /\ Changes(t, "idle", RefCount!NoChild, {}) /\ SameBelow
      /\ TRUE
      /\ UNCHANGED <<r_current_state, m_refcount, r_disposables, created, disposed, dropped, released,
                     r_calls>>
  <2>1. RefCount!At(t, "add_ref") /\ RefCount!Return(t)
    BY DEF RefCount!AddRefRefused
  <2>2. Lower[t] = NoFrame
    BY <1>0, <2>1, PlacesOfTop, NothingBelow DEF Nested
  <2> QED
    BY <1>0, <2>1, <2>2, EndsAlone DEF RefCount!AddRefRefused, RefCount!parent, RefCount!handles
<1>2. FrameInv'
  BY <1>0, <1>1
    DEF Setup, Changes, SameBelow, FrameInv, SetsInv, StateInv, FreshInv, Edits, Closes, OfChild,
        OfHandle, Nested, NoFrame, RefCount!Kept
<1>3. SetsInv'
  BY <1>0, <1>1 DEF Setup, Changes, SameBelow, SetsInv, FrameInv, OfChild, OfHandle, RefCount!Kept
<1>4. StateInv'
  BY <1>0, <1>1 DEF Setup, Changes, SameBelow, StateInv, FrameInv, Edits, Closes, Nested, NoFrame
<1>5. FreshInv'
  BY <1>0, <1>1
    DEF Setup, Changes, SameBelow, FreshInv, FrameInv, SetsInv, StateInv, Edits, Closes, OfChild,
        Nested, NoFrame, RefCount!Kept
<1>6. ReleaseInv'
  BY <1>0, <1>1
    DEF Setup, Changes, SameBelow, ReleaseInv, FreshInv, FrameInv, SetsInv, Leaving, OfHandle, OfChild,
        Nested, NoFrame
<1>7. CountInv'
  BY <1>0, <1>1
    DEF Setup, Changes, SameBelow, CountInv, FrameInv, StateInv, Closes, Edits, Nested, NoFrame, Owners
<1>8. KeptInv'
  BY <1>0, <1>1
    DEF Setup, Changes, SameBelow, KeptInv, FrameInv, SetsInv, StateInv, FreshInv, Edits, Closes,
        Destroyed, Nested, OfChild, OfHandle, NoFrame
<1> QED
  BY <1>1, <1>2, <1>3, <1>4, <1>5, <1>6, <1>7, <1>8 DEF RInv


LEMMA AddCallKeeps ==
  ASSUME Setup, RInv, NEW t \in Pair, NEW c \in Underlying \ created,
         RefCount!Call(t, RefCount!Frame("add", c, {})), created' = created \union {c},
         UNCHANGED <<RefCount!parent, disposed, dropped, released>>
  PROVE  RInv'
<1>0. StackInv /\ FrameInv /\ SetsInv /\ StateInv /\ FreshInv /\ ReleaseInv /\ CountInv /\ KeptInv
  BY DEF RInv
<1>1. /\ StackInv' /\ Upper[t] = NoFrame /\ Lower[t] = NoFrame
      /\ Changes(t, "add", c, {}) /\ SameBelow /\ r_calls < HandleCalls /\ r_calls' = r_calls + 1
      /\ c \in Underlying \ created /\ created' = created \union {c}
      /\ UNCHANGED <<r_current_state, m_refcount, r_disposables, disposed, dropped, released>>
  <2>1. "add" \in RefCount!Labels /\ c \in RefCount!Kept \union {RefCount!NoChild} /\ {} \in SUBSET RefCount!Kept
    BY <1>0 DEF RefCount!Labels, RefCount!Kept, SetsInv
  <2> QED
    BY <1>0, <2>1, Begins DEF RefCount!parent, RefCount!handles
<1>2. FrameInv'
  BY <1>0, <1>1
    DEF Setup, Changes, SameBelow, FrameInv, SetsInv, StateInv, FreshInv, Edits, Closes, OfChild,
        OfHandle, Nested, NoFrame, RefCount!Kept
<1>3. SetsInv'
  BY <1>0, <1>1 DEF Setup, Changes, SameBelow, SetsInv, FrameInv, OfChild, OfHandle, RefCount!Kept
<1>4. StateInv'
  BY <1>0, <1>1 DEF Setup, Changes, SameBelow, StateInv, FrameInv, Edits, Closes, Nested, NoFrame
<1>5. FreshInv'
  BY <1>0, <1>1
    DEF Setup, Changes, SameBelow, FreshInv, FrameInv, SetsInv, StateInv, Edits, Closes, OfChild,
        Nested, NoFrame, RefCount!Kept
<1>6. ReleaseInv'
  BY <1>0, <1>1
    DEF Setup, Changes, SameBelow, ReleaseInv, FreshInv, FrameInv, SetsInv, Leaving, OfHandle, OfChild,
        Nested, NoFrame
<1>7. CountInv'
  <2>1. created' \intersect Inners = created \intersect Inners
    BY <1>1 DEF Setup
  <2>2. Owners' = Owners
    BY <1>1, <2>1 DEF Owners
  <2> QED
    BY <1>0, <1>1, <2>1, <2>2 DEF CountInv, Changes, SameBelow, NoFrame
<1>8. KeptInv'
  BY <1>0, <1>1
    DEF Setup, Changes, SameBelow, KeptInv, FrameInv, SetsInv, StateInv, FreshInv, Edits, Closes,
        Destroyed, Nested, OfChild, OfHandle, NoFrame
<1> QED
  BY <1>1, <1>2, <1>3, <1>4, <1>5, <1>6, <1>7, <1>8 DEF RInv


LEMMA InnerCallKeeps ==
  ASSUME Setup, RInv, NEW t \in Pair, NEW c \in RefCount!Usable,
         RefCount!Call(t, RefCount!Frame("inner", c, {})), UNCHANGED <<RefCount!parent,
                                                                       RefCount!handles>>
  PROVE  RInv'
<1>0. StackInv /\ FrameInv /\ SetsInv /\ StateInv /\ FreshInv /\ ReleaseInv /\ CountInv /\ KeptInv
  BY DEF RInv
<1>1. /\ StackInv' /\ Upper[t] = NoFrame /\ Lower[t] = NoFrame
      /\ Changes(t, "inner", c, {}) /\ SameBelow /\ r_calls < HandleCalls /\ r_calls' = r_calls + 1
      /\ c \in (created \intersect Inners) \ dropped
      /\ \A u \in Pair : Upper[u].c = c => Upper[u].at \notin {"add", "push", "unlock"}
      /\ UNCHANGED <<r_current_state, m_refcount, r_disposables, created, disposed, dropped, released>>
  <2>1. "inner" \in RefCount!Labels /\ c \in RefCount!Kept \union {RefCount!NoChild} /\ {} \in SUBSET RefCount!Kept
    BY <1>0, UsableHandles DEF RefCount!Labels, RefCount!Kept, SetsInv
  <2> QED
    BY <1>0, <2>1, Begins, UsableHandles DEF RefCount!parent, RefCount!handles
<1>2. FrameInv'
  BY <1>0, <1>1
    DEF Setup, Changes, SameBelow, FrameInv, SetsInv, StateInv, FreshInv, Edits, Closes, OfChild,
        OfHandle, Nested, NoFrame, RefCount!Kept
<1>3. SetsInv'
  BY <1>0, <1>1 DEF Setup, Changes, SameBelow, SetsInv, FrameInv, OfChild, OfHandle, RefCount!Kept
<1>4. StateInv'
  BY <1>0, <1>1 DEF Setup, Changes, SameBelow, StateInv, FrameInv, Edits, Closes, Nested, NoFrame
<1>5. FreshInv'
  BY <1>0, <1>1
    DEF Setup, Changes, SameBelow, FreshInv, FrameInv, SetsInv, StateInv, Edits, Closes, OfChild,
        Nested, NoFrame, RefCount!Kept
<1>6. ReleaseInv'
  BY <1>0, <1>1
    DEF Setup, Changes, SameBelow, ReleaseInv, FreshInv, FrameInv, SetsInv, Leaving, OfHandle, OfChild,
        Nested, NoFrame
<1>7. CountInv'
  BY <1>0, <1>1
    DEF Setup, Changes, SameBelow, CountInv, FrameInv, StateInv, Closes, Edits, Nested, NoFrame, Owners
<1>8. KeptInv'
  BY <1>0, <1>1
    DEF Setup, Changes, SameBelow, KeptInv, FrameInv, SetsInv, StateInv, FreshInv, Edits, Closes,
        Destroyed, Nested, OfChild, OfHandle, NoFrame
<1> QED
  BY <1>1, <1>2, <1>3, <1>4, <1>5, <1>6, <1>7, <1>8 DEF RInv


LEMMA DropCallKeeps ==
  ASSUME Setup, RInv, NEW t \in Pair, NEW c \in RefCount!Usable,
         \A u \in Pair : \A f \in RefCount!Frames(u) : f.c # c,
         RefCount!Call(t, RefCount!Frame("destroy", c, {})), dropped' = dropped \union {c},
         UNCHANGED <<RefCount!parent, created, disposed, released>>
  PROVE  RInv'
<1>0. StackInv /\ FrameInv /\ SetsInv /\ StateInv /\ FreshInv /\ ReleaseInv /\ CountInv /\ KeptInv
  BY DEF RInv
<1>1. /\ StackInv' /\ Upper[t] = NoFrame /\ Lower[t] = NoFrame
      /\ Changes(t, "destroy", c, {}) /\ SameBelow /\ r_calls < HandleCalls /\ r_calls' = r_calls + 1
      /\ c \in (created \intersect Inners) \ dropped /\ (\A u \in Pair : Upper[u].c # c)
      /\ dropped' = dropped \union {c} /\ UNCHANGED <<r_current_state, m_refcount, r_disposables,
                                                      created, disposed, released>>
  <2>1. "destroy" \in RefCount!Labels /\ c \in RefCount!Kept \union {RefCount!NoChild} /\ {} \in SUBSET RefCount!Kept
    BY <1>0, UsableHandles DEF RefCount!Labels, RefCount!Kept, SetsInv
  <2>2. c \in (created \intersect Inners) \ dropped
    BY <1>0, UsableHandles
  <2>3. ASSUME NEW u \in Pair PROVE Upper[u].c # c
    <3>1. CASE Upper[u].at # "idle"
      BY <1>0, <3>1, UpperIsAFrame
    <3>2. CASE Upper[u].at = "idle"
      <4>1. Upper[u] = NoFrame
        BY <1>0, <3>2, TwoFrames DEF FrameSet, RefCount!Labels
      <4> QED
        BY <4>1, <2>2 DEF Setup, RefCount!Kept, NoFrame
    <3> QED
      BY <3>1, <3>2
  <2> QED
    BY <1>0, <2>1, <2>2, <2>3, Begins DEF RefCount!parent, RefCount!handles
<1>2. FrameInv'
  BY <1>0, <1>1
    DEF Setup, Changes, SameBelow, FrameInv, SetsInv, StateInv, FreshInv, Edits, Closes, OfChild,
        OfHandle, Nested, NoFrame, RefCount!Kept
<1>3. SetsInv'
  BY <1>0, <1>1 DEF Setup, Changes, SameBelow, SetsInv, FrameInv, OfChild, OfHandle, RefCount!Kept
<1>4. StateInv'
  BY <1>0, <1>1 DEF Setup, Changes, SameBelow, StateInv, FrameInv, Edits, Closes, Nested, NoFrame
<1>5. FreshInv'
  BY <1>0, <1>1
    DEF Setup, Changes, SameBelow, FreshInv, FrameInv, SetsInv, StateInv, Edits, Closes, OfChild,
        Nested, NoFrame, RefCount!Kept
<1>6. ReleaseInv'
  BY <1>0, <1>1
    DEF Setup, Changes, SameBelow, ReleaseInv, FreshInv, FrameInv, SetsInv, Leaving, OfHandle, OfChild,
        Nested, NoFrame
<1>7. CountInv'
  BY <1>0, <1>1
    DEF Setup, Changes, SameBelow, CountInv, FrameInv, StateInv, Closes, Edits, Nested, NoFrame, Owners
<1>8. KeptInv'
  BY <1>0, <1>1
    DEF Setup, Changes, SameBelow, KeptInv, FrameInv, SetsInv, StateInv, FreshInv, Edits, Closes,
        Destroyed, Nested, OfChild, OfHandle, NoFrame
<1> QED
  BY <1>1, <1>2, <1>3, <1>4, <1>5, <1>6, <1>7, <1>8 DEF RInv


LEMMA AddRefKeeps ==
  ASSUME Setup, RInv, NEW t \in Pair, NEW c \in Inners \ created,
         RefCount!At(t, "add_ref"), m_refcount # RefCount!s_disposed, created' = created \union {c},
         RefCount!Become(t, RefCount!Frame("add", c, {})), m_refcount' = m_refcount + 1,
         UNCHANGED <<r_current_state, r_disposables, disposed, dropped, released, r_calls>>
  PROVE  RInv'
<1>0. StackInv /\ FrameInv /\ SetsInv /\ StateInv /\ FreshInv /\ ReleaseInv /\ CountInv /\ KeptInv
  BY DEF RInv
<1>1. /\ StackInv' /\ Upper[t].at = "add_ref" /\ Changes(t, "add", c, {}) /\ SameBelow
      /\ m_refcount # RefCount!s_disposed /\ m_refcount' = m_refcount + 1 /\ created' = created \union {c}
      /\ UNCHANGED <<r_current_state, r_disposables, disposed, dropped, released, r_calls>>
  <2>1. "add" \in RefCount!Labels /\ c \in RefCount!Kept \union {RefCount!NoChild} /\ {} \in SUBSET RefCount!Kept
    BY DEF RefCount!Labels, RefCount!Kept
  <2> QED
    BY <1>0, <2>1, Turns
<1>2. FrameInv'
  BY <1>0, <1>1
    DEF Setup, Changes, SameBelow, FrameInv, SetsInv, StateInv, FreshInv, Edits, Closes, OfChild,
        OfHandle, Nested, NoFrame, RefCount!Kept
<1>3. SetsInv'
  BY <1>0, <1>1 DEF Setup, Changes, SameBelow, SetsInv, FrameInv, OfChild, OfHandle, RefCount!Kept
<1>4. StateInv'
  BY <1>0, <1>1 DEF Setup, Changes, SameBelow, StateInv, FrameInv, Edits, Closes, Nested, NoFrame
<1>5. FreshInv'
  BY <1>0, <1>1
    DEF Setup, Changes, SameBelow, FreshInv, FrameInv, SetsInv, StateInv, Edits, Closes, OfChild,
        Nested, NoFrame, RefCount!Kept
<1>6. ReleaseInv'
  BY <1>0, <1>1
    DEF Setup, Changes, SameBelow, ReleaseInv, FreshInv, FrameInv, SetsInv, Leaving, OfHandle, OfChild,
        Nested, NoFrame
<1>7. CountInv'
  <2>1. Owners' = Owners \union {c} /\ c \notin Owners
    BY <1>0, <1>1 DEF Owners, SetsInv
  <2>2. IsFiniteSet(Owners)
    BY FS_Subset DEF Owners, Setup
  <2>3. Cardinality(Owners') = Cardinality(Owners) + 1 /\ Cardinality(Owners) \in Nat
    BY <2>1, <2>2, FS_AddElement, FS_CardinalityType
  <2>4. m_refcount' = Cardinality(Owners') /\ m_refcount' \in Nat \ {0}
    BY <1>0, <1>1, <2>3 DEF CountInv
  <2> QED
    BY <1>0, <1>1, <2>4 DEF CountInv, Changes, SameBelow, RefCount!s_disposed
<1>8. KeptInv'
  BY <1>0, <1>1
    DEF Setup, Changes, SameBelow, KeptInv, FrameInv, SetsInv, StateInv, FreshInv, Edits, Closes,
        Destroyed, Nested, OfChild, OfHandle, NoFrame
<1> QED
  BY <1>1, <1>2, <1>3, <1>4, <1>5, <1>6, <1>7, <1>8 DEF RInv


LEMMA HandleRejectedKeeps ==
  ASSUME Setup, RInv, NEW t \in Pair, RefCount!AddRejected(t), RefCount!Top(t).c \in Inners
  PROVE  RInv'
<1>0. StackInv /\ FrameInv /\ SetsInv /\ StateInv /\ FreshInv /\ ReleaseInv /\ CountInv /\ KeptInv
  BY DEF RInv
<1>1. /\ StackInv' /\ Upper[t].at = "add" /\ Upper[t].c \in Inners
      /\ Changes(t, "remove", Upper[t].c, Upper[t].todo) /\ SameBelow
      /\ r_current_state = "Disposed" /\ disposed' = disposed \union {Upper[t].c}
      /\ UNCHANGED <<r_current_state, m_refcount, r_disposables, created, dropped, released, r_calls>>
  <2>1. RefCount!At(t, "add") /\ RefCount!Goto(t, "remove") /\ "remove" \in RefCount!Labels
    BY DEF RefCount!AddRejected, RefCount!Labels
  <2> QED
    BY <1>0, <2>1, GoesTo DEF RefCount!AddRejected, RefCount!parent
<1>2. FrameInv'
  BY <1>0, <1>1
    DEF Setup, Changes, SameBelow, FrameInv, SetsInv, StateInv, FreshInv, Edits, Closes, OfChild,
        OfHandle, Nested, NoFrame, RefCount!Kept
<1>3. SetsInv'
  BY <1>0, <1>1 DEF Setup, Changes, SameBelow, SetsInv, FrameInv, OfChild, OfHandle, RefCount!Kept
<1>4. StateInv'
  BY <1>0, <1>1 DEF Setup, Changes, SameBelow, StateInv, FrameInv, Edits, Closes, Nested, NoFrame
<1>5. FreshInv'
  BY <1>0, <1>1
    DEF Setup, Changes, SameBelow, FreshInv, FrameInv, SetsInv, StateInv, Edits, Closes, OfChild,
        Nested, NoFrame, RefCount!Kept
<1>6. ReleaseInv'
  BY <1>0, <1>1
    DEF Setup, Changes, SameBelow, ReleaseInv, FreshInv, FrameInv, SetsInv, Leaving, OfHandle, OfChild,
        Nested, NoFrame
<1>7. CountInv'
  BY <1>0, <1>1
    DEF Setup, Changes, SameBelow, CountInv, FrameInv, StateInv, Closes, Edits, Nested, NoFrame, Owners
<1>8. KeptInv'
  BY <1>0, <1>1
    DEF Setup, Changes, SameBelow, KeptInv, FrameInv, SetsInv, StateInv, FreshInv, Edits, Closes,
        Destroyed, Nested, OfChild, OfHandle, NoFrame
<1> QED
  BY <1>1, <1>2, <1>3, <1>4, <1>5, <1>6, <1>7, <1>8 DEF RInv


LEMMA ChildRejectedKeeps ==
  ASSUME Setup, RInv, NEW t \in Pair, RefCount!AddRejected(t), RefCount!Top(t).c \notin Inners
  PROVE  RInv'
<1>0. StackInv /\ FrameInv /\ SetsInv /\ StateInv /\ FreshInv /\ ReleaseInv /\ CountInv /\ KeptInv
  BY DEF RInv
<1>1. /\ StackInv' /\ Upper[t].at = "add" /\ Lower[t] = NoFrame /\ Upper[t].c \notin Inners
      /\ Changes(t, "idle", RefCount!NoChild, {}) /\ SameBelow
      /\ r_current_state = "Disposed" /\ disposed' = disposed \union {Upper[t].c}
      /\ UNCHANGED <<r_current_state, m_refcount, r_disposables, created, dropped, released, r_calls>>
  <2>1. RefCount!At(t, "add") /\ RefCount!Return(t)
    BY DEF RefCount!AddRejected
  <2>2. Lower[t] = NoFrame /\ Upper[t] = RefCount!Top(t)
    BY <1>0, <2>1, PlacesOfTop, NothingBelow DEF Nested
  <2> QED
    BY <1>0, <2>1, <2>2, EndsAlone DEF RefCount!AddRejected, RefCount!parent
<1>2. FrameInv'
  BY <1>0, <1>1
    DEF Setup, Changes, SameBelow, FrameInv, SetsInv, StateInv, FreshInv, Edits, Closes, OfChild,
        OfHandle, Nested, NoFrame, RefCount!Kept
<1>3. SetsInv'
  BY <1>0, <1>1 DEF Setup, Changes, SameBelow, SetsInv, FrameInv, OfChild, OfHandle, RefCount!Kept
<1>4. StateInv'
  BY <1>0, <1>1 DEF Setup, Changes, SameBelow, StateInv, FrameInv, Edits, Closes, Nested, NoFrame
<1>5. FreshInv'
  BY <1>0, <1>1
    DEF Setup, Changes, SameBelow, FreshInv, FrameInv, SetsInv, StateInv, Edits, Closes, OfChild,
        Nested, NoFrame, RefCount!Kept
<1>6. ReleaseInv'
  BY <1>0, <1>1
    DEF Setup, Changes, SameBelow, ReleaseInv, FreshInv, FrameInv, SetsInv, Leaving, OfHandle, OfChild,
        Nested, NoFrame
<1>7. CountInv'
  BY <1>0, <1>1
    DEF Setup, Changes, SameBelow, CountInv, FrameInv, StateInv, Closes, Edits, Nested, NoFrame, Owners
<1>8. KeptInv'
  BY <1>0, <1>1
    DEF Setup, Changes, SameBelow, KeptInv, FrameInv, SetsInv, StateInv, FreshInv, Edits, Closes,
        Destroyed, Nested, OfChild, OfHandle, NoFrame
<1> QED
  BY <1>1, <1>2, <1>3, <1>4, <1>5, <1>6, <1>7, <1>8 DEF RInv


LEMMA InnerDisposedKeeps ==
  ASSUME Setup, RInv, NEW t \in Pair, RefCount!InnerDispose(t), RefCount!Top(t).at = "inner"
  PROVE  RInv'
<1>0. StackInv /\ FrameInv /\ SetsInv /\ StateInv /\ FreshInv /\ ReleaseInv /\ CountInv /\ KeptInv
  BY DEF RInv
<1>1. /\ StackInv' /\ Upper[t].at = "inner" /\ Upper[t].c \notin disposed
      /\ Changes(t, "remove", Upper[t].c, Upper[t].todo) /\ SameBelow
      /\ disposed' = disposed \union {Upper[t].c}
      /\ UNCHANGED <<r_current_state, m_refcount, r_disposables, created, dropped, released, r_calls>>
  <2>1. RefCount!At(t, "inner") /\ RefCount!Goto(t, "remove") /\ "remove" \in RefCount!Labels
    BY DEF RefCount!InnerDispose, RefCount!Labels, RefCount!At, RefCount!Top
  <2> QED
    BY <1>0, <2>1, GoesTo DEF RefCount!InnerDispose, RefCount!parent
<1>2. FrameInv'
  BY <1>0, <1>1
    DEF Setup, Changes, SameBelow, FrameInv, SetsInv, StateInv, FreshInv, Edits, Closes, OfChild,
        OfHandle, Nested, NoFrame, RefCount!Kept
<1>3. SetsInv'
  BY <1>0, <1>1 DEF Setup, Changes, SameBelow, SetsInv, FrameInv, OfChild, OfHandle, RefCount!Kept
<1>4. StateInv'
  BY <1>0, <1>1 DEF Setup, Changes, SameBelow, StateInv, FrameInv, Edits, Closes, Nested, NoFrame
<1>5. FreshInv'
  BY <1>0, <1>1
    DEF Setup, Changes, SameBelow, FreshInv, FrameInv, SetsInv, StateInv, Edits, Closes, OfChild,
        Nested, NoFrame, RefCount!Kept
<1>6. ReleaseInv'
  BY <1>0, <1>1
    DEF Setup, Changes, SameBelow, ReleaseInv, FreshInv, FrameInv, SetsInv, Leaving, OfHandle, OfChild,
        Nested, NoFrame
<1>7. CountInv'
  BY <1>0, <1>1
    DEF Setup, Changes, SameBelow, CountInv, FrameInv, StateInv, Closes, Edits, Nested, NoFrame, Owners
<1>8. KeptInv'
  BY <1>0, <1>1
    DEF Setup, Changes, SameBelow, KeptInv, FrameInv, SetsInv, StateInv, FreshInv, Edits, Closes,
        Destroyed, Nested, OfChild, OfHandle, NoFrame
<1> QED
  BY <1>1, <1>2, <1>3, <1>4, <1>5, <1>6, <1>7, <1>8 DEF RInv


LEMMA DestroyingKeeps ==
  ASSUME Setup, RInv, NEW t \in Pair, RefCount!InnerDispose(t), RefCount!Top(t).at = "destroy"
  PROVE  RInv'
<1>0. StackInv /\ FrameInv /\ SetsInv /\ StateInv /\ FreshInv /\ ReleaseInv /\ CountInv /\ KeptInv
  BY DEF RInv
<1>1. /\ StackInv' /\ Upper[t].at = "destroy" /\ Upper[t].c \notin disposed
      /\ Changes(t, "release", Upper[t].c, Upper[t].todo) /\ SameBelow
      /\ disposed' = disposed \union {Upper[t].c}
      /\ UNCHANGED <<r_current_state, m_refcount, r_disposables, created, dropped, released, r_calls>>
  <2>1. RefCount!At(t, "destroy") /\ RefCount!Goto(t, "release") /\ "release" \in RefCount!Labels
    BY DEF RefCount!InnerDispose, RefCount!Labels, RefCount!At, RefCount!Top
  <2> QED
    BY <1>0, <2>1, GoesTo DEF RefCount!InnerDispose, RefCount!parent
<1>2. FrameInv'
  BY <1>0, <1>1
    DEF Setup, Changes, SameBelow, FrameInv, SetsInv, StateInv, FreshInv, Edits, Closes, OfChild,
        OfHandle, Nested, NoFrame, RefCount!Kept
<1>3. SetsInv'
  BY <1>0, <1>1 DEF Setup, Changes, SameBelow, SetsInv, FrameInv, OfChild, OfHandle, RefCount!Kept
<1>4. StateInv'
  BY <1>0, <1>1 DEF Setup, Changes, SameBelow, StateInv, FrameInv, Edits, Closes, Nested, NoFrame
<1>5. FreshInv'
  BY <1>0, <1>1
    DEF Setup, Changes, SameBelow, FreshInv, FrameInv, SetsInv, StateInv, Edits, Closes, OfChild,
        Nested, NoFrame, RefCount!Kept
<1>6. ReleaseInv'
  BY <1>0, <1>1
    DEF Setup, Changes, SameBelow, ReleaseInv, FreshInv, FrameInv, SetsInv, Leaving, OfHandle, OfChild,
        Nested, NoFrame
<1>7. CountInv'
  BY <1>0, <1>1
    DEF Setup, Changes, SameBelow, CountInv, FrameInv, StateInv, Closes, Edits, Nested, NoFrame, Owners
<1>8. KeptInv'
  BY <1>0, <1>1
    DEF Setup, Changes, SameBelow, KeptInv, FrameInv, SetsInv, StateInv, FreshInv, Edits, Closes,
        Destroyed, Nested, OfChild, OfHandle, NoFrame
<1> QED
  BY <1>1, <1>2, <1>3, <1>4, <1>5, <1>6, <1>7, <1>8 DEF RInv


LEMMA InnerAgainKeeps ==
  ASSUME Setup, RInv, NEW t \in Pair, RefCount!InnerAgain(t)
  PROVE  RInv'
<1>0. StackInv /\ FrameInv /\ SetsInv /\ StateInv /\ FreshInv /\ ReleaseInv /\ CountInv /\ KeptInv
  BY DEF RInv
<1>1. /\ StackInv' /\ Upper[t].at \in {"inner", "destroy"} /\ Upper[t].c \in disposed
      /\ Changes(t, Lower[t].at, Lower[t].c, Lower[t].todo)
      /\ Lower'[t] = NoFrame /\ (\A u \in Pair : u # t => Lower'[u] = Lower[u])
      /\ UNCHANGED <<r_current_state, m_refcount, r_disposables, created, disposed, dropped, released,
                     r_calls>>
  <2>1. PICK label \in {"inner", "destroy"} : RefCount!At(t, label)
    BY DEF RefCount!InnerAgain
  <2> QED
    BY <1>0, <2>1, Ends DEF RefCount!InnerAgain, RefCount!parent, RefCount!handles
<1>2. FrameInv'
  BY <1>0, <1>1
    DEF Setup, Changes, SameBelow, FrameInv, SetsInv, StateInv, FreshInv, Edits, Closes, OfChild,
        OfHandle, Nested, NoFrame, RefCount!Kept
<1>3. SetsInv'
  BY <1>0, <1>1 DEF Setup, Changes, SameBelow, SetsInv, FrameInv, OfChild, OfHandle, RefCount!Kept
<1>4. StateInv'
  BY <1>0, <1>1 DEF Setup, Changes, SameBelow, StateInv, FrameInv, Edits, Closes, Nested, NoFrame
<1>5. FreshInv'
  BY <1>0, <1>1
    DEF Setup, Changes, SameBelow, FreshInv, FrameInv, SetsInv, StateInv, Edits, Closes, OfChild,
        Nested, NoFrame, RefCount!Kept
<1>6. ReleaseInv'
  BY <1>0, <1>1
    DEF Setup, Changes, SameBelow, ReleaseInv, FreshInv, FrameInv, SetsInv, Leaving, OfHandle, OfChild,
        Nested, NoFrame
<1>7. CountInv'
  BY <1>0, <1>1
    DEF Setup, Changes, SameBelow, CountInv, FrameInv, StateInv, Closes, Edits, Nested, NoFrame, Owners
<1>8. KeptInv'
  BY <1>0, <1>1
    DEF Setup, Changes, SameBelow, KeptInv, FrameInv, SetsInv, StateInv, FreshInv, Edits, Closes,
        Destroyed, Nested, OfChild, OfHandle, NoFrame
<1> QED
  BY <1>1, <1>2, <1>3, <1>4, <1>5, <1>6, <1>7, <1>8 DEF RInv


LEMMA ReleaseMarkedKeeps ==
  ASSUME Setup, RInv, NEW t \in Pair, RefCount!At(t, "release"), m_refcount = RefCount!s_disposed,
         released' = released \union {RefCount!Top(t).c},
         RefCount!Return(t), UNCHANGED m_refcount,
         UNCHANGED <<r_current_state, r_disposables, created, disposed, dropped, r_calls>>
  PROVE  RInv'
<1>0. StackInv /\ FrameInv /\ SetsInv /\ StateInv /\ FreshInv /\ ReleaseInv /\ CountInv /\ KeptInv
  BY DEF RInv
<1>1. /\ StackInv' /\ Upper[t].at = "release" /\ m_refcount = RefCount!s_disposed
      /\ Changes(t, Lower[t].at, Lower[t].c, Lower[t].todo)
      /\ Lower'[t] = NoFrame /\ (\A u \in Pair : u # t => Lower'[u] = Lower[u])
      /\ released' = released \union {Upper[t].c} /\ UNCHANGED <<r_current_state, m_refcount,
                                                                 r_disposables, created, disposed, dropped, r_calls>>
  BY <1>0, Ends
<1>2. FrameInv'
  BY <1>0, <1>1
    DEF Setup, Changes, SameBelow, FrameInv, SetsInv, StateInv, FreshInv, Edits, Closes, OfChild,
        OfHandle, Nested, NoFrame, RefCount!Kept
<1>3. SetsInv'
  BY <1>0, <1>1 DEF Setup, Changes, SameBelow, SetsInv, FrameInv, OfChild, OfHandle, RefCount!Kept
<1>4. StateInv'
  BY <1>0, <1>1 DEF Setup, Changes, SameBelow, StateInv, FrameInv, Edits, Closes, Nested, NoFrame
<1>5. FreshInv'
  BY <1>0, <1>1
    DEF Setup, Changes, SameBelow, FreshInv, FrameInv, SetsInv, StateInv, Edits, Closes, OfChild,
        Nested, NoFrame, RefCount!Kept
<1>6. ReleaseInv'
  BY <1>0, <1>1
    DEF Setup, Changes, SameBelow, ReleaseInv, FreshInv, FrameInv, SetsInv, Leaving, OfHandle, OfChild,
        Nested, NoFrame
<1>7. CountInv'
  BY <1>0, <1>1
    DEF Setup, Changes, SameBelow, CountInv, FrameInv, StateInv, Closes, Edits, Nested, NoFrame, Owners
<1>8. KeptInv'
  BY <1>0, <1>1
    DEF Setup, Changes, SameBelow, KeptInv, FrameInv, SetsInv, StateInv, FreshInv, Edits, Closes,
        Destroyed, Nested, OfChild, OfHandle, NoFrame
<1> QED
  BY <1>1, <1>2, <1>3, <1>4, <1>5, <1>6, <1>7, <1>8 DEF RInv


LEMMA ReleaseLastKeeps ==
  ASSUME Setup, RInv, NEW t \in Pair, RefCount!At(t, "release"), m_refcount = 1,
         released' = released \union {RefCount!Top(t).c},
         m_refcount' = RefCount!s_disposed, RefCount!Become(t, RefCount!Frame("dispose",
         RefCount!NoChild, {})),
         UNCHANGED <<r_current_state, r_disposables, created, disposed, dropped, r_calls>>
  PROVE  RInv'
<1>0. StackInv /\ FrameInv /\ SetsInv /\ StateInv /\ FreshInv /\ ReleaseInv /\ CountInv /\ KeptInv
  BY DEF RInv
<1>1. /\ StackInv' /\ Upper[t].at = "release" /\ Lower[t] = NoFrame /\ m_refcount = 1
      /\ Changes(t, "dispose", RefCount!NoChild, {}) /\ SameBelow
      /\ m_refcount' = RefCount!s_disposed /\ released' = released \union {Upper[t].c}
      /\ UNCHANGED <<r_current_state, r_disposables, created, disposed, dropped, r_calls>>
  <2>1. Upper[t].at = "release" /\ Upper[t] = RefCount!Top(t)
    BY <1>0, PlacesOfTop
  <2>2. Lower[t].at # "walk"
    BY <1>0 DEF CountInv, RefCount!s_disposed
  <2>3. Lower[t].at # "clear_walk"
    BY <1>0, <2>1 DEF FrameInv
  <2>4. Lower[t] = NoFrame
    BY <1>0, <2>2, <2>3, NothingBelow DEF FrameInv
  <2>5. "dispose" \in RefCount!Labels /\ RefCount!NoChild \in RefCount!Kept \union {RefCount!NoChild} /\ {} \in SUBSET RefCount!Kept
    BY DEF RefCount!Labels
  <2> QED
    BY <1>0, <2>1, <2>4, <2>5, Turns
<1>2. FrameInv'
  BY <1>0, <1>1
    DEF Setup, Changes, SameBelow, FrameInv, SetsInv, StateInv, FreshInv, Edits, Closes, OfChild,
        OfHandle, Nested, NoFrame, RefCount!Kept
<1>3. SetsInv'
  BY <1>0, <1>1 DEF Setup, Changes, SameBelow, SetsInv, FrameInv, OfChild, OfHandle, RefCount!Kept
<1>4. StateInv'
  BY <1>0, <1>1 DEF Setup, Changes, SameBelow, StateInv, FrameInv, Edits, Closes, Nested, NoFrame
<1>5. FreshInv'
  BY <1>0, <1>1
    DEF Setup, Changes, SameBelow, FreshInv, FrameInv, SetsInv, StateInv, Edits, Closes, OfChild,
        Nested, NoFrame, RefCount!Kept
<1>6. ReleaseInv'
  BY <1>0, <1>1
    DEF Setup, Changes, SameBelow, ReleaseInv, FreshInv, FrameInv, SetsInv, Leaving, OfHandle, OfChild,
        Nested, NoFrame
<1>7. CountInv'
  <2>1. \E u \in Pair : Upper'[u].at = "dispose"
    BY <1>1 DEF Changes
  <2> QED
    BY <1>1, <2>1 DEF CountInv, RefCount!s_disposed
<1>8. KeptInv'
  BY <1>0, <1>1
    DEF Setup, Changes, SameBelow, KeptInv, FrameInv, SetsInv, StateInv, FreshInv, Edits, Closes,
        Destroyed, Nested, OfChild, OfHandle, NoFrame
<1> QED
  BY <1>1, <1>2, <1>3, <1>4, <1>5, <1>6, <1>7, <1>8 DEF RInv


LEMMA ReleaseOneKeeps ==
  ASSUME Setup, RInv, NEW t \in Pair, RefCount!At(t, "release"),
         m_refcount \notin {RefCount!s_disposed, 1}, released' = released \union {RefCount!Top(t).c},
         m_refcount' = m_refcount - 1, RefCount!Return(t),
         UNCHANGED <<r_current_state, r_disposables, created, disposed, dropped, r_calls>>
  PROVE  RInv'
<1>0. StackInv /\ FrameInv /\ SetsInv /\ StateInv /\ FreshInv /\ ReleaseInv /\ CountInv /\ KeptInv
  BY DEF RInv
<1>1. /\ StackInv' /\ Upper[t].at = "release" /\ Lower[t] = NoFrame /\ m_refcount \notin {RefCount!s_disposed, 1}
      /\ Changes(t, "idle", RefCount!NoChild, {}) /\ SameBelow
      /\ m_refcount' = m_refcount - 1 /\ released' = released \union {Upper[t].c}
      /\ UNCHANGED <<r_current_state, r_disposables, created, disposed, dropped, r_calls>>
  <2>1. Upper[t].at = "release" /\ Upper[t] = RefCount!Top(t)
    BY <1>0, PlacesOfTop
  <2>2. Lower[t].at # "walk"
    BY <1>0 DEF CountInv
  <2>3. Lower[t].at # "clear_walk"
    BY <1>0, <2>1 DEF FrameInv
  <2>4. Lower[t] = NoFrame
    BY <1>0, <2>2, <2>3, NothingBelow DEF FrameInv
  <2>5. StackInv' /\ Changes(t, "idle", RefCount!NoChild, {}) /\ SameBelow
    BY <1>0, <2>1, <2>4, EndsAlone
  <2> QED
    BY <2>1, <2>4, <2>5
<1>2. FrameInv'
  BY <1>0, <1>1
    DEF Setup, Changes, SameBelow, FrameInv, SetsInv, StateInv, FreshInv, Edits, Closes, OfChild,
        OfHandle, Nested, NoFrame, RefCount!Kept
<1>3. SetsInv'
  BY <1>0, <1>1 DEF Setup, Changes, SameBelow, SetsInv, FrameInv, OfChild, OfHandle, RefCount!Kept
<1>4. StateInv'
  BY <1>0, <1>1 DEF Setup, Changes, SameBelow, StateInv, FrameInv, Edits, Closes, Nested, NoFrame
<1>5. FreshInv'
  BY <1>0, <1>1
    DEF Setup, Changes, SameBelow, FreshInv, FrameInv, SetsInv, StateInv, Edits, Closes, OfChild,
        Nested, NoFrame, RefCount!Kept
<1>6. ReleaseInv'
  BY <1>0, <1>1
    DEF Setup, Changes, SameBelow, ReleaseInv, FreshInv, FrameInv, SetsInv, Leaving, OfHandle, OfChild,
        Nested, NoFrame
<1>7. CountInv'
  <2> DEFINE c == Upper[t].c
  <2>1. c \in Owners /\ Owners' = Owners \ {c}
    BY <1>0, <1>1 DEF Owners, SetsInv, ReleaseInv, FrameInv, OfHandle, Leaving
  <2>2. IsFiniteSet(Owners)
    BY FS_Subset DEF Owners, Setup
  <2>3. Cardinality(Owners') = Cardinality(Owners) - 1 /\ Cardinality(Owners) \in Nat
    BY <2>1, <2>2, FS_RemoveElement, FS_CardinalityType
  <2>4. Cardinality(Owners) # 0
    BY <2>1, <2>2, FS_EmptySet
  <2>5. m_refcount' = Cardinality(Owners') /\ m_refcount' \in Nat \ {0}
    BY <1>0, <1>1, <2>3, <2>4 DEF CountInv
  <2> QED
    BY <1>0, <1>1, <2>5 DEF CountInv, Changes, SameBelow, RefCount!s_disposed
<1>8. KeptInv'
  BY <1>0, <1>1
    DEF Setup, Changes, SameBelow, KeptInv, FrameInv, SetsInv, StateInv, FreshInv, Edits, Closes,
        Destroyed, Nested, OfChild, OfHandle, NoFrame
<1> QED
  BY <1>1, <1>2, <1>3, <1>4, <1>5, <1>6, <1>7, <1>8 DEF RInv


LEMMA StoreDisposedKeeps ==
  ASSUME Setup, RInv, NEW t \in Pair, RefCount!StoreDisposed(t)
  PROVE  RInv'
<1>0. StackInv /\ FrameInv /\ SetsInv /\ StateInv /\ FreshInv /\ ReleaseInv /\ CountInv /\ KeptInv
  BY DEF RInv
<1>1. /\ StackInv' /\ Upper[t].at = "store" /\ Lower[t] = NoFrame
      /\ Changes(t, "walk", RefCount!NoChild, r_disposables) /\ SameBelow
      /\ m_refcount' = RefCount!s_disposed
      /\ UNCHANGED <<r_current_state, r_disposables, created, disposed, dropped, released, r_calls>>
  <2>1. "walk" \in RefCount!Labels /\ RefCount!NoChild \in RefCount!Kept \union {RefCount!NoChild} /\ r_disposables \in SUBSET RefCount!Kept
    BY <1>0 DEF RefCount!Labels, SetsInv
  <2>2. RefCount!At(t, "store") /\ RefCount!Become(t, RefCount!Frame("walk", RefCount!NoChild, r_disposables))
    BY DEF RefCount!StoreDisposed
  <2>3. StackInv' /\ Upper[t].at = "store" /\ Changes(t, "walk", RefCount!NoChild, r_disposables) /\ SameBelow
    BY <1>0, <2>1, <2>2, Turns
  <2>4. Lower[t] = NoFrame
    BY <1>0, <2>3, NothingBelow DEF Nested
  <2> QED
    BY <2>3, <2>4 DEF RefCount!StoreDisposed, RefCount!handles
<1>2. FrameInv'
  BY <1>0, <1>1
    DEF Setup, Changes, SameBelow, FrameInv, SetsInv, StateInv, FreshInv, Edits, Closes, OfChild,
        OfHandle, Nested, NoFrame, RefCount!Kept
<1>3. SetsInv'
  BY <1>0, <1>1 DEF Setup, Changes, SameBelow, SetsInv, FrameInv, OfChild, OfHandle, RefCount!Kept
<1>4. StateInv'
  BY <1>0, <1>1 DEF Setup, Changes, SameBelow, StateInv, FrameInv, Edits, Closes, Nested, NoFrame
<1>5. FreshInv'
  BY <1>0, <1>1
    DEF Setup, Changes, SameBelow, FreshInv, FrameInv, SetsInv, StateInv, Edits, Closes, OfChild,
        Nested, NoFrame, RefCount!Kept
<1>6. ReleaseInv'
  BY <1>0, <1>1
    DEF Setup, Changes, SameBelow, ReleaseInv, FreshInv, FrameInv, SetsInv, Leaving, OfHandle, OfChild,
        Nested, NoFrame
<1>7. CountInv'
  BY <1>0, <1>1 DEF CountInv, StateInv, Closes, Changes, SameBelow, RefCount!s_disposed
<1>8. KeptInv'
  BY <1>0, <1>1
    DEF Setup, Changes, SameBelow, KeptInv, FrameInv, SetsInv, StateInv, FreshInv, Edits, Closes,
        Destroyed, Nested, OfChild, OfHandle, NoFrame
<1> QED
  BY <1>1, <1>2, <1>3, <1>4, <1>5, <1>6, <1>7, <1>8 DEF RInv


LEMMA ClearLockKeeps ==
  ASSUME Setup, RInv, NEW t \in Pair, RefCount!ClearLock(t)
  PROVE  RInv'
<1>0. StackInv /\ FrameInv /\ SetsInv /\ StateInv /\ FreshInv /\ ReleaseInv /\ CountInv /\ KeptInv
  BY DEF RInv
<1>1. /\ StackInv' /\ Upper[t].at = "clear" /\ Lower[t] = NoFrame
      /\ Changes(t, "clear_walk", RefCount!NoChild, r_disposables) /\ SameBelow
      /\ r_current_state = "None" /\ r_current_state' = "Edit"
      /\ UNCHANGED <<m_refcount, r_disposables, created, disposed, dropped, released, r_calls>>
  <2>1. "clear_walk" \in RefCount!Labels /\ RefCount!NoChild \in RefCount!Kept \union {RefCount!NoChild} /\ r_disposables \in SUBSET RefCount!Kept
    BY <1>0 DEF RefCount!Labels, SetsInv
  <2>2. RefCount!At(t, "clear") /\ RefCount!Become(t, RefCount!Frame("clear_walk", RefCount!NoChild, r_disposables))
    BY DEF RefCount!ClearLock
  <2>3. StackInv' /\ Upper[t].at = "clear" /\ Changes(t, "clear_walk", RefCount!NoChild, r_disposables) /\ SameBelow
    BY <1>0, <2>1, <2>2, Turns
  <2>4. Lower[t] = NoFrame
    BY <1>0, <2>3, NothingBelow DEF Nested
  <2> QED
    BY <2>3, <2>4 DEF RefCount!ClearLock, RefCount!handles
<1>2. FrameInv'
  BY <1>0, <1>1
    DEF Setup, Changes, SameBelow, FrameInv, SetsInv, StateInv, FreshInv, Edits, Closes, OfChild,
        OfHandle, Nested, NoFrame, RefCount!Kept
<1>3. SetsInv'
  BY <1>0, <1>1 DEF Setup, Changes, SameBelow, SetsInv, FrameInv, OfChild, OfHandle, RefCount!Kept
<1>4. StateInv'
  BY <1>0, <1>1 DEF Setup, Changes, SameBelow, StateInv, FrameInv, Edits, Closes, Nested, NoFrame
<1>5. FreshInv'
  BY <1>0, <1>1
    DEF Setup, Changes, SameBelow, FreshInv, FrameInv, SetsInv, StateInv, Edits, Closes, OfChild,
        Nested, NoFrame, RefCount!Kept
<1>6. ReleaseInv'
  BY <1>0, <1>1
    DEF Setup, Changes, SameBelow, ReleaseInv, FreshInv, FrameInv, SetsInv, Leaving, OfHandle, OfChild,
        Nested, NoFrame
<1>7. CountInv'
  BY <1>0, <1>1
    DEF Setup, Changes, SameBelow, CountInv, FrameInv, StateInv, Closes, Edits, Nested, NoFrame, Owners
<1>8. KeptInv'
  BY <1>0, <1>1
    DEF Setup, Changes, SameBelow, KeptInv, FrameInv, SetsInv, StateInv, FreshInv, Edits, Closes,
        Destroyed, Nested, OfChild, OfHandle, NoFrame
<1> QED
  BY <1>1, <1>2, <1>3, <1>4, <1>5, <1>6, <1>7, <1>8 DEF RInv


LEMMA WalkHandleKeeps ==
  ASSUME Setup, RInv, NEW t \in Pair, RefCount!At(t, "walk") \/ RefCount!At(t, "clear_walk"),
         NEW c \in RefCount!Top(t).todo, c \in Inners \ dropped,
         stack' = [stack EXCEPT ![t] = <<RefCount!Frame("inner", c, {}),
                                         [RefCount!Top(t) EXCEPT !.todo = @ \ {c}]>> \o Tail(@)],
         UNCHANGED disposed, UNCHANGED <<RefCount!parent, created, dropped, released, r_calls>>
  PROVE  RInv'
<1>0. StackInv /\ FrameInv /\ SetsInv /\ StateInv /\ FreshInv /\ ReleaseInv /\ CountInv /\ KeptInv
  BY DEF RInv
<1>1. /\ StackInv' /\ Upper[t].at \in {"walk", "clear_walk"} /\ Lower[t] = NoFrame
      /\ c \in Upper[t].todo /\ c \in r_disposables /\ c \in Inners \ dropped
      /\ Changes(t, "inner", c, {})
      /\ Lower'[t].at = Upper[t].at /\ Lower'[t].c = RefCount!NoChild /\ Lower'[t].todo = Upper[t].todo \ {c}
      /\ (\A u \in Pair : u # t => Lower'[u] = Lower[u])
      /\ UNCHANGED <<r_current_state, m_refcount, r_disposables, created, disposed, dropped, released,
                     r_calls>>
  <2>1. PICK label \in {"walk", "clear_walk"} : RefCount!At(t, label)
    BY DEF RefCount!At
  <2>2. stack[t] # <<>> /\ Upper[t] = RefCount!Top(t) /\ Upper[t].at = label /\ Upper[t] \in FrameSet
    BY <1>0, <2>1, PlacesOfTop
  <2>3. Lower[t] = NoFrame /\ Upper[t].c = RefCount!NoChild /\ Upper[t].todo \subseteq r_disposables
    BY <1>0, <2>2, NothingBelow DEF Nested, FrameInv
  <2> DEFINE left == Upper[t].todo \ {c}
  <2>4. left \in SUBSET RefCount!Kept /\ RefCount!NoChild \in RefCount!Kept \union {RefCount!NoChild} /\ label \in RefCount!Labels
    BY <2>2 DEF FrameSet
  <2>5. [RefCount!Top(t) EXCEPT !.todo = @ \ {c}] = RefCount!Frame(label, RefCount!NoChild, left)
    BY <2>2, <2>3, LessToDo
  <2>6. RefCount!Frame("inner", c, {}) \in FrameSet /\ RefCount!Frame(label, RefCount!NoChild, left) \in FrameSet
    BY <2>4 DEF RefCount!Frame, FrameSet, RefCount!Labels, RefCount!Kept
  <2>7. stack' = [stack EXCEPT ![t] = <<RefCount!Frame("inner", c, {}), RefCount!Frame(label,
                                        RefCount!NoChild, left)>> \o Tail(stack[t])]
    BY <1>0, <2>5 DEF StackInv
  <2> HIDE <2>5
  <2>8. StackInv' /\ Moves(t, RefCount!Frame("inner", c, {}), RefCount!Frame(label, RefCount!NoChild, left))
    BY <1>0, <2>2, <2>3, <2>6, <2>7, Nests
  <2>9. Upper' = [Upper EXCEPT ![t] = RefCount!Frame("inner", c, {})]
        /\ Lower' = [Lower EXCEPT ![t] = RefCount!Frame(label, RefCount!NoChild, left)]
    BY <2>8 DEF Moves
  <2>10. Upper'[t] = RefCount!Frame("inner", c, {}) /\ \A u \in Pair : u # t => Upper'[u] = Upper[u]
    BY <1>0, <2>9, TwoFrames
  <2>11. Lower'[t] = RefCount!Frame(label, RefCount!NoChild, left) /\ \A u \in Pair : u # t => Lower'[u] = Lower[u]
    BY <1>0, <2>9, TwoFrames
  <2> QED
    BY <2>2, <2>3, <2>8, <2>10, <2>11 DEF Changes, RefCount!Frame, RefCount!parent
<1>2. FrameInv'
  BY <1>0, <1>1
    DEF Setup, Changes, SameBelow, FrameInv, SetsInv, StateInv, FreshInv, Edits, Closes, OfChild,
        OfHandle, Nested, NoFrame, RefCount!Kept
<1>3. SetsInv'
  BY <1>0, <1>1 DEF Setup, Changes, SameBelow, SetsInv, FrameInv, OfChild, OfHandle, RefCount!Kept
<1>4. StateInv'
  BY <1>0, <1>1 DEF Setup, Changes, SameBelow, StateInv, FrameInv, Edits, Closes, Nested, NoFrame
<1>5. FreshInv'
  BY <1>0, <1>1
    DEF Setup, Changes, SameBelow, FreshInv, FrameInv, SetsInv, StateInv, Edits, Closes, OfChild,
        Nested, NoFrame, RefCount!Kept
<1>6. ReleaseInv'
  BY <1>0, <1>1
    DEF Setup, Changes, SameBelow, ReleaseInv, FreshInv, FrameInv, SetsInv, Leaving, OfHandle, OfChild,
        Nested, NoFrame
<1>7. CountInv'
  BY <1>0, <1>1
    DEF Setup, Changes, SameBelow, CountInv, FrameInv, StateInv, Closes, Edits, Nested, NoFrame, Owners
<1>8. KeptInv'
  <2>1. \A k \in created' : k \in disposed' \union r_disposables' \/ Destroyed(k)'
        \/ \E u \in Pair : Upper'[u].at \in {"add", "push"} /\ Upper'[u].c = k
    BY <1>0, <1>1
      DEF Setup, Changes, SameBelow, KeptInv, FrameInv, SetsInv, StateInv, FreshInv, Edits, Closes,
          Destroyed, Nested, OfChild, OfHandle, NoFrame
  <2>2. \A k \in dropped' : k \in disposed' \/ Destroyed(k)'
    BY <1>0, <1>1
      DEF Setup, Changes, SameBelow, KeptInv, FrameInv, SetsInv, StateInv, FreshInv, Edits, Closes,
          Destroyed, Nested, OfChild, OfHandle, NoFrame
  <2>3. \A u \in Pair : Upper'[u].at \in {"walk", "clear_walk"} =>
          \A k \in r_disposables' \ Upper'[u].todo : k \in disposed' \/ Destroyed(k)'
    BY <1>0, <1>1
      DEF Setup, Changes, SameBelow, KeptInv, FrameInv, SetsInv, StateInv, FreshInv, Edits, Closes,
          Destroyed, Nested, OfChild, OfHandle, NoFrame
  <2>4. \A u \in Pair : Lower'[u].at \in {"walk", "clear_walk"} =>
          \A k \in r_disposables' \ Lower'[u].todo :
            k \in disposed' \/ Destroyed(k)' \/ (Upper'[u].at = "inner" /\ Upper'[u].c = k)
    BY <1>0, <1>1
      DEF Setup, Changes, SameBelow, KeptInv, FrameInv, SetsInv, StateInv, FreshInv, Edits, Closes,
          Destroyed, Nested, OfChild, OfHandle, NoFrame
  <2> QED
    BY <2>1, <2>2, <2>3, <2>4 DEF KeptInv
<1> QED
  BY <1>1, <1>2, <1>3, <1>4, <1>5, <1>6, <1>7, <1>8 DEF RInv


LEMMA WalkDroppedKeeps ==
  ASSUME Setup, RInv, NEW t \in Pair, RefCount!At(t, "walk") \/ RefCount!At(t, "clear_walk"),
         NEW c \in RefCount!Top(t).todo, c \in dropped,
         RefCount!Become(t, [RefCount!Top(t) EXCEPT !.todo = @ \ {c}]), UNCHANGED disposed,
         UNCHANGED <<RefCount!parent, created, dropped, released, r_calls>>
  PROVE  RInv'
<1>0. StackInv /\ FrameInv /\ SetsInv /\ StateInv /\ FreshInv /\ ReleaseInv /\ CountInv /\ KeptInv
  BY DEF RInv
<1>1. /\ StackInv' /\ Upper[t].at \in {"walk", "clear_walk"} /\ Lower[t] = NoFrame
      /\ c \in Upper[t].todo /\ c \in r_disposables /\ c \in dropped
      /\ Changes(t, Upper[t].at, RefCount!NoChild, Upper[t].todo \ {c}) /\ SameBelow
      /\ UNCHANGED <<r_current_state, m_refcount, r_disposables, created, disposed, dropped, released,
                     r_calls>>
  <2>1. PICK label \in {"walk", "clear_walk"} : RefCount!At(t, label)
    BY DEF RefCount!At
  <2>2. stack[t] # <<>> /\ Upper[t] = RefCount!Top(t) /\ Upper[t].at = label /\ Upper[t] \in FrameSet
    BY <1>0, <2>1, PlacesOfTop
  <2>3. Lower[t] = NoFrame /\ Upper[t].c = RefCount!NoChild /\ Upper[t].todo \subseteq r_disposables
    BY <1>0, <2>2, NothingBelow DEF Nested, FrameInv
  <2> DEFINE left == Upper[t].todo \ {c}
  <2>4. left \in SUBSET RefCount!Kept /\ RefCount!NoChild \in RefCount!Kept \union {RefCount!NoChild} /\ label \in RefCount!Labels
    BY <2>2 DEF FrameSet
  <2>5. [RefCount!Top(t) EXCEPT !.todo = @ \ {c}] = RefCount!Frame(label, RefCount!NoChild, left)
    BY <2>2, <2>3, LessToDo
  <2>6. RefCount!Become(t, RefCount!Frame(label, RefCount!NoChild, left))
    BY <2>5
  <2> HIDE <2>5
  <2>7. StackInv' /\ Changes(t, label, RefCount!NoChild, left) /\ SameBelow
    BY <1>0, <2>1, <2>4, <2>6, Turns
  <2> QED
    BY <2>2, <2>3, <2>7 DEF RefCount!parent
<1>2. FrameInv'
  BY <1>0, <1>1
    DEF Setup, Changes, SameBelow, FrameInv, SetsInv, StateInv, FreshInv, Edits, Closes, OfChild,
        OfHandle, Nested, NoFrame, RefCount!Kept
<1>3. SetsInv'
  BY <1>0, <1>1 DEF Setup, Changes, SameBelow, SetsInv, FrameInv, OfChild, OfHandle, RefCount!Kept
<1>4. StateInv'
  BY <1>0, <1>1 DEF Setup, Changes, SameBelow, StateInv, FrameInv, Edits, Closes, Nested, NoFrame
<1>5. FreshInv'
  BY <1>0, <1>1
    DEF Setup, Changes, SameBelow, FreshInv, FrameInv, SetsInv, StateInv, Edits, Closes, OfChild,
        Nested, NoFrame, RefCount!Kept
<1>6. ReleaseInv'
  BY <1>0, <1>1
    DEF Setup, Changes, SameBelow, ReleaseInv, FreshInv, FrameInv, SetsInv, Leaving, OfHandle, OfChild,
        Nested, NoFrame
<1>7. CountInv'
  BY <1>0, <1>1
    DEF Setup, Changes, SameBelow, CountInv, FrameInv, StateInv, Closes, Edits, Nested, NoFrame, Owners
<1>8. KeptInv'
  <2>1. \A k \in created' : k \in disposed' \union r_disposables' \/ Destroyed(k)'
        \/ \E u \in Pair : Upper'[u].at \in {"add", "push"} /\ Upper'[u].c = k
    BY <1>0, <1>1
      DEF Setup, Changes, SameBelow, KeptInv, FrameInv, SetsInv, StateInv, FreshInv, Edits, Closes,
          Destroyed, Nested, OfChild, OfHandle, NoFrame
  <2>2. \A k \in dropped' : k \in disposed' \/ Destroyed(k)'
    BY <1>0, <1>1
      DEF Setup, Changes, SameBelow, KeptInv, FrameInv, SetsInv, StateInv, FreshInv, Edits, Closes,
          Destroyed, Nested, OfChild, OfHandle, NoFrame
  <2>3. \A u \in Pair : Upper'[u].at \in {"walk", "clear_walk"} =>
          \A k \in r_disposables' \ Upper'[u].todo : k \in disposed' \/ Destroyed(k)'
    BY <1>0, <1>1
      DEF Setup, Changes, SameBelow, KeptInv, FrameInv, SetsInv, StateInv, FreshInv, Edits, Closes,
          Destroyed, Nested, OfChild, OfHandle, NoFrame
  <2>4. \A u \in Pair : Lower'[u].at \in {"walk", "clear_walk"} =>
          \A k \in r_disposables' \ Lower'[u].todo :
            k \in disposed' \/ Destroyed(k)' \/ (Upper'[u].at = "inner" /\ Upper'[u].c = k)
    BY <1>0, <1>1
      DEF Setup, Changes, SameBelow, KeptInv, FrameInv, SetsInv, StateInv, FreshInv, Edits, Closes,
          Destroyed, Nested, OfChild, OfHandle, NoFrame
  <2> QED
    BY <2>1, <2>2, <2>3, <2>4 DEF KeptInv
<1> QED
  BY <1>1, <1>2, <1>3, <1>4, <1>5, <1>6, <1>7, <1>8 DEF RInv


LEMMA WalkChildKeeps ==
  ASSUME Setup, RInv, NEW t \in Pair, RefCount!At(t, "walk") \/ RefCount!At(t, "clear_walk"),
         NEW c \in RefCount!Top(t).todo, c \in Underlying,
         RefCount!Become(t, [RefCount!Top(t) EXCEPT !.todo = @ \ {c}]),
         disposed' = disposed \union {c}, UNCHANGED <<RefCount!parent, created, dropped, released,
                                                      r_calls>>
  PROVE  RInv'
<1>0. StackInv /\ FrameInv /\ SetsInv /\ StateInv /\ FreshInv /\ ReleaseInv /\ CountInv /\ KeptInv
  BY DEF RInv
<1>1. /\ StackInv' /\ Upper[t].at \in {"walk", "clear_walk"} /\ Lower[t] = NoFrame
      /\ c \in Upper[t].todo /\ c \in r_disposables /\ c \in Underlying
      /\ Changes(t, Upper[t].at, RefCount!NoChild, Upper[t].todo \ {c}) /\ SameBelow
      /\ disposed' = disposed \union {c} /\ UNCHANGED <<r_current_state, m_refcount, r_disposables,
                                                        created, dropped, released, r_calls>>
  <2>1. PICK label \in {"walk", "clear_walk"} : RefCount!At(t, label)
    BY DEF RefCount!At
  <2>2. stack[t] # <<>> /\ Upper[t] = RefCount!Top(t) /\ Upper[t].at = label /\ Upper[t] \in FrameSet
    BY <1>0, <2>1, PlacesOfTop
  <2>3. Lower[t] = NoFrame /\ Upper[t].c = RefCount!NoChild /\ Upper[t].todo \subseteq r_disposables
    BY <1>0, <2>2, NothingBelow DEF Nested, FrameInv
  <2> DEFINE left == Upper[t].todo \ {c}
  <2>4. left \in SUBSET RefCount!Kept /\ RefCount!NoChild \in RefCount!Kept \union {RefCount!NoChild} /\ label \in RefCount!Labels
    BY <2>2 DEF FrameSet
  <2>5. [RefCount!Top(t) EXCEPT !.todo = @ \ {c}] = RefCount!Frame(label, RefCount!NoChild, left)
    BY <2>2, <2>3, LessToDo
  <2>6. RefCount!Become(t, RefCount!Frame(label, RefCount!NoChild, left))
    BY <2>5
  <2> HIDE <2>5
  <2>7. StackInv' /\ Changes(t, label, RefCount!NoChild, left) /\ SameBelow
    BY <1>0, <2>1, <2>4, <2>6, Turns
  <2> QED
    BY <2>2, <2>3, <2>7 DEF RefCount!parent
<1>2. FrameInv'
  BY <1>0, <1>1
    DEF Setup, Changes, SameBelow, FrameInv, SetsInv, StateInv, FreshInv, Edits, Closes, OfChild,
        OfHandle, Nested, NoFrame, RefCount!Kept
<1>3. SetsInv'
  BY <1>0, <1>1 DEF Setup, Changes, SameBelow, SetsInv, FrameInv, OfChild, OfHandle, RefCount!Kept
<1>4. StateInv'
  BY <1>0, <1>1 DEF Setup, Changes, SameBelow, StateInv, FrameInv, Edits, Closes, Nested, NoFrame
<1>5. FreshInv'
  BY <1>0, <1>1
    DEF Setup, Changes, SameBelow, FreshInv, FrameInv, SetsInv, StateInv, Edits, Closes, OfChild,
        Nested, NoFrame, RefCount!Kept
<1>6. ReleaseInv'
  BY <1>0, <1>1
    DEF Setup, Changes, SameBelow, ReleaseInv, FreshInv, FrameInv, SetsInv, Leaving, OfHandle, OfChild,
        Nested, NoFrame
<1>7. CountInv'
  BY <1>0, <1>1
    DEF Setup, Changes, SameBelow, CountInv, FrameInv, StateInv, Closes, Edits, Nested, NoFrame, Owners
<1>8. KeptInv'
  <2>1. \A k \in created' : k \in disposed' \union r_disposables' \/ Destroyed(k)'
        \/ \E u \in Pair : Upper'[u].at \in {"add", "push"} /\ Upper'[u].c = k
    BY <1>0, <1>1
      DEF Setup, Changes, SameBelow, KeptInv, FrameInv, SetsInv, StateInv, FreshInv, Edits, Closes,
          Destroyed, Nested, OfChild, OfHandle, NoFrame
  <2>2. \A k \in dropped' : k \in disposed' \/ Destroyed(k)'
    BY <1>0, <1>1
      DEF Setup, Changes, SameBelow, KeptInv, FrameInv, SetsInv, StateInv, FreshInv, Edits, Closes,
          Destroyed, Nested, OfChild, OfHandle, NoFrame
  <2>3. \A u \in Pair : Upper'[u].at \in {"walk", "clear_walk"} =>
          \A k \in r_disposables' \ Upper'[u].todo : k \in disposed' \/ Destroyed(k)'
    BY <1>0, <1>1
      DEF Setup, Changes, SameBelow, KeptInv, FrameInv, SetsInv, StateInv, FreshInv, Edits, Closes,
          Destroyed, Nested, OfChild, OfHandle, NoFrame
  <2>4. \A u \in Pair : Lower'[u].at \in {"walk", "clear_walk"} =>
          \A k \in r_disposables' \ Lower'[u].todo :
            k \in disposed' \/ Destroyed(k)' \/ (Upper'[u].at = "inner" /\ Upper'[u].c = k)
    BY <1>0, <1>1
      DEF Setup, Changes, SameBelow, KeptInv, FrameInv, SetsInv, StateInv, FreshInv, Edits, Closes,
          Destroyed, Nested, OfChild, OfHandle, NoFrame
  <2> QED
    BY <2>1, <2>2, <2>3, <2>4 DEF KeptInv
<1> QED
  BY <1>1, <1>2, <1>3, <1>4, <1>5, <1>6, <1>7, <1>8 DEF RInv


LEMMA WipeClosedKeeps ==
  ASSUME Setup, RInv, NEW t \in Pair, RefCount!At(t, "walk"), RefCount!Top(t).todo = {},
         r_disposables' = {}, RefCount!Return(t),
         UNCHANGED <<r_current_state, m_refcount, RefCount!handles, r_calls>>
  PROVE  RInv'
<1>0. StackInv /\ FrameInv /\ SetsInv /\ StateInv /\ FreshInv /\ ReleaseInv /\ CountInv /\ KeptInv
  BY DEF RInv
<1>1. /\ StackInv' /\ Upper[t].at = "walk" /\ Lower[t] = NoFrame /\ Upper[t].todo = {}
      /\ Changes(t, "idle", RefCount!NoChild, {}) /\ SameBelow
      /\ r_disposables' = {} /\ UNCHANGED <<r_current_state, m_refcount, created, disposed, dropped,
                                            released, r_calls>>
  <2>1. Upper[t].at = "walk" /\ Upper[t] = RefCount!Top(t)
    BY <1>0, PlacesOfTop
  <2>2. Lower[t] = NoFrame /\ Upper[t].c = RefCount!NoChild
    BY <1>0, <2>1, NothingBelow DEF Nested, FrameInv
  <2> QED
    BY <1>0, <2>1, <2>2, EndsAlone DEF RefCount!handles
<1>2. FrameInv'
  BY <1>0, <1>1
    DEF Setup, Changes, SameBelow, FrameInv, SetsInv, StateInv, FreshInv, Edits, Closes, OfChild,
        OfHandle, Nested, NoFrame, RefCount!Kept
<1>3. SetsInv'
  BY <1>0, <1>1 DEF Setup, Changes, SameBelow, SetsInv, FrameInv, OfChild, OfHandle, RefCount!Kept
<1>4. StateInv'
  BY <1>0, <1>1 DEF Setup, Changes, SameBelow, StateInv, FrameInv, Edits, Closes, Nested, NoFrame
<1>5. FreshInv'
  BY <1>0, <1>1
    DEF Setup, Changes, SameBelow, FreshInv, FrameInv, SetsInv, StateInv, Edits, Closes, OfChild,
        Nested, NoFrame, RefCount!Kept
<1>6. ReleaseInv'
  BY <1>0, <1>1
    DEF Setup, Changes, SameBelow, ReleaseInv, FreshInv, FrameInv, SetsInv, Leaving, OfHandle, OfChild,
        Nested, NoFrame
<1>7. CountInv'
  BY <1>0, <1>1
    DEF Setup, Changes, SameBelow, CountInv, FrameInv, StateInv, Closes, Edits, Nested, NoFrame, Owners
<1>8. KeptInv'
  <2>1. \A k \in created' : k \in disposed' \union r_disposables' \/ Destroyed(k)'
        \/ \E u \in Pair : Upper'[u].at \in {"add", "push"} /\ Upper'[u].c = k
    BY <1>0, <1>1
      DEF Setup, Changes, SameBelow, KeptInv, FrameInv, SetsInv, StateInv, FreshInv, Edits, Closes,
          Destroyed, Nested, OfChild, OfHandle, NoFrame
  <2>2. \A k \in dropped' : k \in disposed' \/ Destroyed(k)'
    BY <1>0, <1>1
      DEF Setup, Changes, SameBelow, KeptInv, FrameInv, SetsInv, StateInv, FreshInv, Edits, Closes,
          Destroyed, Nested, OfChild, OfHandle, NoFrame
  <2>3. \A u \in Pair : Upper'[u].at \in {"walk", "clear_walk"} =>
          \A k \in r_disposables' \ Upper'[u].todo : k \in disposed' \/ Destroyed(k)'
    BY <1>0, <1>1
      DEF Setup, Changes, SameBelow, KeptInv, FrameInv, SetsInv, StateInv, FreshInv, Edits, Closes,
          Destroyed, Nested, OfChild, OfHandle, NoFrame
  <2>4. \A u \in Pair : Lower'[u].at \in {"walk", "clear_walk"} =>
          \A k \in r_disposables' \ Lower'[u].todo :
            k \in disposed' \/ Destroyed(k)' \/ (Upper'[u].at = "inner" /\ Upper'[u].c = k)
    BY <1>0, <1>1
      DEF Setup, Changes, SameBelow, KeptInv, FrameInv, SetsInv, StateInv, FreshInv, Edits, Closes,
          Destroyed, Nested, OfChild, OfHandle, NoFrame
  <2> QED
    BY <2>1, <2>2, <2>3, <2>4 DEF KeptInv
<1> QED
  BY <1>1, <1>2, <1>3, <1>4, <1>5, <1>6, <1>7, <1>8 DEF RInv


LEMMA WipeClearedKeeps ==
  ASSUME Setup, RInv, NEW t \in Pair, RefCount!At(t, "clear_walk"), RefCount!Top(t).todo = {},
         r_disposables' = {}, RefCount!Goto(t, "unlock"),
         UNCHANGED <<r_current_state, m_refcount, RefCount!handles, r_calls>>
  PROVE  RInv'
<1>0. StackInv /\ FrameInv /\ SetsInv /\ StateInv /\ FreshInv /\ ReleaseInv /\ CountInv /\ KeptInv
  BY DEF RInv
<1>1. /\ StackInv' /\ Upper[t].at = "clear_walk" /\ Lower[t] = NoFrame /\ Upper[t].todo = {}
      /\ Changes(t, "unlock", RefCount!NoChild, {}) /\ SameBelow
      /\ r_disposables' = {} /\ UNCHANGED <<r_current_state, m_refcount, created, disposed, dropped,
                                            released, r_calls>>
  <2>1. Upper[t].at = "clear_walk" /\ Upper[t] = RefCount!Top(t)
    BY <1>0, PlacesOfTop
  <2>2. Lower[t] = NoFrame /\ Upper[t].c = RefCount!NoChild
    BY <1>0, <2>1, NothingBelow DEF Nested, FrameInv
  <2>3. "unlock" \in RefCount!Labels
    BY DEF RefCount!Labels
  <2> QED
    BY <1>0, <2>1, <2>2, <2>3, GoesTo DEF RefCount!handles
<1>2. FrameInv'
  BY <1>0, <1>1
    DEF Setup, Changes, SameBelow, FrameInv, SetsInv, StateInv, FreshInv, Edits, Closes, OfChild,
        OfHandle, Nested, NoFrame, RefCount!Kept
<1>3. SetsInv'
  BY <1>0, <1>1 DEF Setup, Changes, SameBelow, SetsInv, FrameInv, OfChild, OfHandle, RefCount!Kept
<1>4. StateInv'
  BY <1>0, <1>1 DEF Setup, Changes, SameBelow, StateInv, FrameInv, Edits, Closes, Nested, NoFrame
<1>5. FreshInv'
  BY <1>0, <1>1
    DEF Setup, Changes, SameBelow, FreshInv, FrameInv, SetsInv, StateInv, Edits, Closes, OfChild,
        Nested, NoFrame, RefCount!Kept
<1>6. ReleaseInv'
  BY <1>0, <1>1
    DEF Setup, Changes, SameBelow, ReleaseInv, FreshInv, FrameInv, SetsInv, Leaving, OfHandle, OfChild,
        Nested, NoFrame
<1>7. CountInv'
  BY <1>0, <1>1
    DEF Setup, Changes, SameBelow, CountInv, FrameInv, StateInv, Closes, Edits, Nested, NoFrame, Owners
<1>8. KeptInv'
  <2>1. \A k \in created' : k \in disposed' \union r_disposables' \/ Destroyed(k)'
        \/ \E u \in Pair : Upper'[u].at \in {"add", "push"} /\ Upper'[u].c = k
    BY <1>0, <1>1
      DEF Setup, Changes, SameBelow, KeptInv, FrameInv, SetsInv, StateInv, FreshInv, Edits, Closes,
          Destroyed, Nested, OfChild, OfHandle, NoFrame
  <2>2. \A k \in dropped' : k \in disposed' \/ Destroyed(k)'
    BY <1>0, <1>1
      DEF Setup, Changes, SameBelow, KeptInv, FrameInv, SetsInv, StateInv, FreshInv, Edits, Closes,
          Destroyed, Nested, OfChild, OfHandle, NoFrame
  <2>3. \A u \in Pair : Upper'[u].at \in {"walk", "clear_walk"} =>
          \A k \in r_disposables' \ Upper'[u].todo : k \in disposed' \/ Destroyed(k)'
    BY <1>0, <1>1
      DEF Setup, Changes, SameBelow, KeptInv, FrameInv, SetsInv, StateInv, FreshInv, Edits, Closes,
          Destroyed, Nested, OfChild, OfHandle, NoFrame
  <2>4. \A u \in Pair : Lower'[u].at \in {"walk", "clear_walk"} =>
          \A k \in r_disposables' \ Lower'[u].todo :
            k \in disposed' \/ Destroyed(k)' \/ (Upper'[u].at = "inner" /\ Upper'[u].c = k)
    BY <1>0, <1>1
      DEF Setup, Changes, SameBelow, KeptInv, FrameInv, SetsInv, StateInv, FreshInv, Edits, Closes,
          Destroyed, Nested, OfChild, OfHandle, NoFrame
  <2> QED
    BY <2>1, <2>2, <2>3, <2>4 DEF KeptInv
<1> QED
  BY <1>1, <1>2, <1>3, <1>4, <1>5, <1>6, <1>7, <1>8 DEF RInv


LEMMA ReturnDisposedKeeps ==
  ASSUME Setup, RInv, NEW t \in Pair, RefCount!ReturnDisposed(t)
  PROVE  RInv'
<1>0. StackInv /\ FrameInv /\ SetsInv /\ StateInv /\ FreshInv /\ ReleaseInv /\ CountInv /\ KeptInv
  BY DEF RInv
<1>1. /\ StackInv' /\ Upper[t].at \in {"dispose", "clear"} /\ Lower[t] = NoFrame
      /\ Changes(t, "idle", RefCount!NoChild, {}) /\ SameBelow /\ r_current_state = "Disposed"
      /\ UNCHANGED <<r_current_state, m_refcount, r_disposables, created, disposed, dropped, released,
                     r_calls>>
  <2>1. PICK label \in {"dispose", "clear"} : RefCount!At(t, label)
    BY DEF RefCount!ReturnDisposed
  <2>2. Upper[t].at = label /\ RefCount!Return(t)
    BY <1>0, <2>1, PlacesOfTop DEF RefCount!ReturnDisposed
  <2>3. Lower[t] = NoFrame
    BY <1>0, <2>2, NothingBelow DEF Nested
  <2> QED
    BY <1>0, <2>1, <2>2, <2>3, EndsAlone DEF RefCount!ReturnDisposed, RefCount!parent, RefCount!handles
<1>2. FrameInv'
  BY <1>0, <1>1
    DEF Setup, Changes, SameBelow, FrameInv, SetsInv, StateInv, FreshInv, Edits, Closes, OfChild,
        OfHandle, Nested, NoFrame, RefCount!Kept
<1>3. SetsInv'
  BY <1>0, <1>1 DEF Setup, Changes, SameBelow, SetsInv, FrameInv, OfChild, OfHandle, RefCount!Kept
<1>4. StateInv'
  BY <1>0, <1>1 DEF Setup, Changes, SameBelow, StateInv, FrameInv, Edits, Closes, Nested, NoFrame
<1>5. FreshInv'
  BY <1>0, <1>1
    DEF Setup, Changes, SameBelow, FreshInv, FrameInv, SetsInv, StateInv, Edits, Closes, OfChild,
        Nested, NoFrame, RefCount!Kept
<1>6. ReleaseInv'
  BY <1>0, <1>1
    DEF Setup, Changes, SameBelow, ReleaseInv, FreshInv, FrameInv, SetsInv, Leaving, OfHandle, OfChild,
        Nested, NoFrame
<1>7. CountInv'
  BY <1>0, <1>1
    DEF Setup, Changes, SameBelow, CountInv, FrameInv, StateInv, Closes, Edits, Nested, NoFrame, Owners
<1>8. KeptInv'
  BY <1>0, <1>1
    DEF Setup, Changes, SameBelow, KeptInv, FrameInv, SetsInv, StateInv, FreshInv, Edits, Closes,
        Destroyed, Nested, OfChild, OfHandle, NoFrame
<1> QED
  BY <1>1, <1>2, <1>3, <1>4, <1>5, <1>6, <1>7, <1>8 DEF RInv

LEMMA RInit == Setup /\ RefCount!Init => RInv
<1> SUFFICES ASSUME Setup, RefCount!Init PROVE RInv
  OBVIOUS
<1>1. stack = [t \in Pair |-> <<>>]
  BY DEF RefCount!Init
<1>2. StackInv
  BY <1>1 DEF StackInv
<1>3. \A t \in Pair : Upper[t] = NoFrame /\ Lower[t] = NoFrame
  BY <1>1, <1>2, TwoFrames
<1>4. Owners = {} /\ Cardinality({}) = 0
  BY FS_EmptySet DEF RefCount!Init, Owners
<1>5. FrameInv
  BY <1>3 DEF FrameInv, NoFrame, OfChild, OfHandle
<1>6. SetsInv
  BY DEF SetsInv, RefCount!Init, Setup
<1>7. StateInv /\ FreshInv
  BY <1>3 DEF StateInv, FreshInv, NoFrame, Edits, Closes, RefCount!Init
<1>8. ReleaseInv
  BY <1>3 DEF ReleaseInv, NoFrame, Leaving, RefCount!Init
<1>9. CountInv
  BY <1>3, <1>4 DEF CountInv, NoFrame, RefCount!Init, RefCount!s_disposed
<1>10. KeptInv
  BY <1>3 DEF KeptInv, NoFrame, RefCount!Init
<1> QED
  BY <1>2, <1>5, <1>6, <1>7, <1>8, <1>9, <1>10 DEF RInv

LEMMA CallKeeps == ASSUME Setup, RInv, NEW t \in Pair, RefCount!NewCall(t) PROVE RInv'
<1>1. CASE RefCount!AddCall(t)
  BY <1>1, AddCallKeeps DEF RefCount!AddCall
<1>2. CASE RefCount!InnerCall(t)
  BY <1>2, InnerCallKeeps DEF RefCount!InnerCall
<1>3. CASE RefCount!DropCall(t)
  BY <1>3, DropCallKeeps DEF RefCount!DropCall
<1> QED
  BY <1>1, <1>2, <1>3, AddRefCallKeeps, DisposeCallKeeps, ClearCallKeeps
    DEF RefCount!NewCall, RefCount!OtherCall

LEMMA StepKeeps == ASSUME Setup, RInv, NEW t \in Pair, RefCount!Step(t) PROVE RInv'
<1>1. CASE RefCount!AddRef(t)
  BY <1>1, AddRefKeeps DEF RefCount!AddRef
<1>2. CASE RefCount!AddRejected(t)
  BY <1>2, HandleRejectedKeeps, ChildRejectedKeeps
<1>3. CASE RefCount!InnerDispose(t)
  <2>1. RefCount!Top(t).at \in {"inner", "destroy"}
    BY <1>3 DEF RefCount!InnerDispose, RefCount!At, RefCount!Top
  <2> QED
    BY <1>3, <2>1, InnerDisposedKeeps, DestroyingKeeps
<1>4. CASE RefCount!Release(t)
  BY <1>4, ReleaseMarkedKeeps, ReleaseLastKeeps, ReleaseOneKeeps DEF RefCount!Release
<1>5. CASE RefCount!WalkNext(t)
  BY <1>5, WalkHandleKeeps, WalkDroppedKeeps, WalkChildKeeps DEF RefCount!WalkNext
<1>6. CASE RefCount!Wipe(t)
  <2>1. RefCount!At(t, "walk") => RefCount!Top(t).at = "walk"
    BY DEF RefCount!At, RefCount!Top
  <2>2. RefCount!At(t, "clear_walk") => RefCount!Top(t).at # "walk"
    BY DEF RefCount!At, RefCount!Top
  <2> QED
    BY <1>6, <2>1, <2>2, WipeClosedKeeps, WipeClearedKeeps DEF RefCount!Wipe
<1>7. CASE RefCount!AddRefRefused(t) \/ RefCount!AddLock(t) \/ RefCount!AddPush(t) \/ RefCount!Unlock(t) \/ RefCount!RemoveUnlock(t) \/ RefCount!InnerAgain(t)
  BY <1>7, AddRefRefusedKeeps, AddLockKeeps, AddPushKeeps, UnlockKeeps, RemoveUnlockKeeps, InnerAgainKeeps
<1>8. CASE RefCount!RemoveLock(t) \/ RefCount!RemoveErase(t) \/ RefCount!RemoveRefused(t) \/ RefCount!Dispose(t) \/ RefCount!StoreDisposed(t)
           \/ RefCount!ReturnDisposed(t) \/ RefCount!ClearLock(t)
  BY <1>8, RemoveLockKeeps, RemoveEraseKeeps, RemoveRefusedKeeps, DisposeKeeps, StoreDisposedKeeps,
     ReturnDisposedKeeps, ClearLockKeeps
<1> QED
  BY <1>1, <1>2, <1>3, <1>4, <1>5, <1>6, <1>7, <1>8 DEF RefCount!Step

LEMMA RStep == Setup /\ RInv /\ [RefCount!Next]_(RefCount!vars) => RInv'
<1>1. ASSUME UNCHANGED RefCount!vars, RInv PROVE RInv'
  <2>1. Upper' = Upper /\ Lower' = Lower /\ Owners' = Owners /\ stack' = stack
    BY <1>1 DEF RefCount!vars, Upper, Lower, Owners
  <2>2. StackInv' /\ FrameInv' /\ SetsInv'
    BY <1>1, <2>1 DEF RefCount!vars, RInv, StackInv, FrameInv, SetsInv
  <2>3. StateInv' /\ FreshInv' /\ ReleaseInv'
    BY <1>1, <2>1 DEF RefCount!vars, RInv, StateInv, FreshInv, ReleaseInv, Edits, Closes
  <2>4. CountInv' /\ KeptInv'
    BY <1>1, <2>1 DEF RefCount!vars, RInv, CountInv, KeptInv, Destroyed
  <2> QED
    BY <2>2, <2>3, <2>4 DEF RInv
<1> QED
  BY <1>1, CallKeeps, StepKeeps DEF RefCount!Next

LEMMA RAlways == Setup /\ RefCount!Spec => []RInv
<1>1. Setup /\ RefCount!Init => RInv
  BY RInit
<1>2. Setup /\ RInv /\ [RefCount!Next]_(RefCount!vars) => RInv'
  BY RStep
<1>3. Setup => []Setup
  BY DEF Setup
<1> QED
  BY <1>1, <1>2, <1>3, PTL DEF RefCount!Spec

-----------------------------------------------------------------------------
(* What follows of it.                                                       *)

LEMMA TypesFollow == Setup /\ RInv /\ asked \in BOOLEAN => RefCount!TypeOK
<1> SUFFICES ASSUME Setup, RInv, asked \in BOOLEAN PROVE RefCount!TypeOK
  OBVIOUS
<1>1. SetsInv /\ CountInv /\ StackInv
  BY DEF RInv
<1>2. m_refcount \in Nat \union {RefCount!s_disposed}
  <2>1. IsFiniteSet(Owners)
    BY FS_Subset DEF Owners, Setup
  <2> QED
    BY <1>1, <2>1, FS_CardinalityType DEF CountInv
<1>3. \A t \in Pair : stack[t] \in Seq([at : RefCount!Labels, c : RefCount!Kept \union {RefCount!NoChild}, todo : SUBSET RefCount!Kept])
  BY <1>1 DEF StackInv, FrameSet
<1>4. /\ r_current_state \in {"None", "Edit", "Disposed"} /\ r_disposables \subseteq created
      /\ created \subseteq RefCount!Kept /\ disposed \subseteq created /\ dropped \subseteq created \intersect Inners
      /\ released \subseteq created \intersect Inners /\ r_calls \in 0..HandleCalls
  BY <1>1 DEF SetsInv
<1> QED
  BY <1>2, <1>3, <1>4 DEF RefCount!TypeOK

-----------------------------------------------------------------------------
(* Who closes: the last release(), or somebody who has called dispose().      *)

Marked == m_refcount = RefCount!s_disposed

\* A frame that disposes the parent comes from one of the two, and so does the
\* mark; a mark that nobody has asked for leaves no owner behind.
AskedInv ==
  /\ asked \in BOOLEAN
  /\ \A t \in Pair : \A f \in RefCount!Frames(t) : f.at \in {"dispose", "store"} => asked \/ Marked
  /\ r_current_state = "Disposed" => asked \/ Marked
  /\ Marked /\ ~asked => Owners = {}

\* A step of t leaves the frames of the others alone and puts at most f on its own.
Puts(t, f) ==
  \A u \in Pair : RefCount!Frames(u)' \subseteq RefCount!Frames(u) \union (IF u = t THEN {f} ELSE {})

LEMMA BecomePuts ==
  ASSUME StackInv, NEW t \in Pair, stack[t] # <<>>, NEW f, RefCount!Become(t, f)
  PROVE  Puts(t, f)
<1>1. stack[t] \in Seq(FrameSet)
  BY DEF StackInv
<1>2. stack' = [stack EXCEPT ![t] = <<f>> \o Tail(stack[t])]
  BY DEF RefCount!Become
<1>3. stack'[t] = <<f>> \o Tail(stack[t]) /\ \A u \in Pair : u # t => stack'[u] = stack[u]
  BY <1>2 DEF StackInv
<1>4. ASSUME NEW k \in DOMAIN stack'[t] PROVE stack'[t][k] \in RefCount!Frames(t) \union {f}
  <2>1. DOMAIN stack'[t] = 1..Len(stack[t])
    BY <1>1, <1>3
  <2>2. k = 1 => stack'[t][k] = f
    BY <1>1, <1>3
  <2>3. k # 1 => k \in DOMAIN stack[t] /\ stack'[t][k] = stack[t][k]
    BY <1>1, <1>3, <2>1
  <2> QED
    BY <2>2, <2>3 DEF RefCount!Frames
<1> QED
  BY <1>3, <1>4 DEF Puts, RefCount!Frames

LEMMA PushPuts ==
  ASSUME StackInv, NEW t \in Pair, NEW f, RefCount!Push(t, f)
  PROVE  Puts(t, f)
<1>1. stack[t] \in Seq(FrameSet)
  BY DEF StackInv
<1>2. stack'[t] = <<f>> \o stack[t] /\ \A u \in Pair : u # t => stack'[u] = stack[u]
  BY DEF RefCount!Push, StackInv
<1>3. ASSUME NEW k \in DOMAIN stack'[t] PROVE stack'[t][k] \in RefCount!Frames(t) \union {f}
  <2>1. k = 1 => stack'[t][k] = f
    BY <1>1, <1>2
  <2>2. k # 1 => k - 1 \in DOMAIN stack[t] /\ stack'[t][k] = stack[t][k - 1]
    BY <1>1, <1>2
  <2> QED
    BY <2>1, <2>2 DEF RefCount!Frames
<1> QED
  BY <1>2, <1>3 DEF Puts, RefCount!Frames

LEMMA ReturnPuts ==
  ASSUME StackInv, NEW t \in Pair, stack[t] # <<>>, RefCount!Return(t)
  PROVE  \A u \in Pair : RefCount!Frames(u)' \subseteq RefCount!Frames(u)
<1>1. stack[t] \in Seq(FrameSet)
  BY DEF StackInv
<1>2. stack'[t] = Tail(stack[t]) /\ \A u \in Pair : u # t => stack'[u] = stack[u]
  BY DEF RefCount!Return, StackInv
<1>3. ASSUME NEW k \in DOMAIN stack'[t] PROVE stack'[t][k] \in RefCount!Frames(t)
  <2>1. k + 1 \in DOMAIN stack[t] /\ stack'[t][k] = stack[t][k + 1]
    BY <1>1, <1>2
  <2> QED
    BY <2>1 DEF RefCount!Frames
<1> QED
  BY <1>2, <1>3 DEF RefCount!Frames

\* No frame that disposes the parent is new.
NoNewDisposal ==
  \A u \in Pair : \A f \in RefCount!Frames(u)' : f \in RefCount!Frames(u) \/ f.at \notin {"dispose", "store"}

LEMMA AskedUntouched ==
  ASSUME AskedInv, NoNewDisposal, asked' = asked, m_refcount' = m_refcount, Owners' = Owners,
         r_current_state' = "Disposed" => r_current_state = "Disposed"
  PROVE  AskedInv'
  BY DEF AskedInv, NoNewDisposal, Marked

LEMMA AtSomeFrame ==
  ASSUME StackInv, NEW t \in Pair, NEW label, RefCount!At(t, label)
  PROVE  stack[t] # <<>> /\ RefCount!Top(t) \in FrameSet /\ RefCount!Top(t).at = label
         /\ RefCount!Top(t) \in RefCount!Frames(t)
<1>1. stack[t] # <<>> /\ stack[t] \in Seq(FrameSet)
  BY DEF RefCount!At, StackInv
<1>2. RefCount!Top(t) = stack[t][1] /\ 1 \in DOMAIN stack[t]
  BY <1>1 DEF RefCount!Top
<1> QED
  BY <1>1, <1>2 DEF RefCount!At, RefCount!Top, RefCount!Frames

LEMMA RelabelPuts ==
  ASSUME StackInv, NEW t \in Pair, NEW from, RefCount!At(t, from), NEW label, RefCount!Goto(t, label)
  PROVE  \E f : f.at = label /\ Puts(t, f)
<1> DEFINE f == [RefCount!Top(t) EXCEPT !.at = label]
<1>1. stack[t] # <<>> /\ RefCount!Top(t) \in FrameSet
  BY AtSomeFrame
<1>2. f.at = label
  BY <1>1 DEF FrameSet
<1>3. Puts(t, f)
  BY <1>1, BecomePuts DEF RefCount!Goto
<1> QED
  BY <1>2, <1>3

LEMMA PutsNone ==
  ASSUME NEW t \in Pair, NEW f, Puts(t, f), f.at \notin {"dispose", "store"}
  PROVE  NoNewDisposal
  BY DEF Puts, NoNewDisposal

LEMMA ReturnsNone ==
  ASSUME StackInv, NEW t \in Pair, NEW from, RefCount!At(t, from), RefCount!Return(t)
  PROVE  NoNewDisposal
  BY ReturnPuts, AtSomeFrame DEF NoNewDisposal

LEMMA GotoNone ==
  ASSUME StackInv, NEW t \in Pair, NEW from, RefCount!At(t, from), NEW label, RefCount!Goto(t, label),
         label \notin {"dispose", "store"}
  PROVE  NoNewDisposal
  BY RelabelPuts, PutsNone

LEMMA CallNone ==
  ASSUME StackInv, NEW t \in Pair, NEW label, NEW c, RefCount!Call(t, RefCount!Frame(label, c, {})),
         label \notin {"dispose", "store"}
  PROVE  NoNewDisposal
<1>1. RefCount!Frame(label, c, {}).at = label
  BY DEF RefCount!Frame
<1>2. Puts(t, RefCount!Frame(label, c, {}))
  BY PushPuts DEF RefCount!Call
<1> QED
  BY <1>1, <1>2, PutsNone

LEMMA BecomeNone ==
  ASSUME StackInv, NEW t \in Pair, NEW from, RefCount!At(t, from), NEW f, RefCount!Become(t, f),
         f.at \notin {"dispose", "store"}
  PROVE  NoNewDisposal
  BY BecomePuts, AtSomeFrame, PutsNone

LEMMA OtherCallAsks ==
  ASSUME Setup, RInv, AskedInv, NEW t \in Pair, RefCount!OtherCall(t), asked' = asked
  PROVE  AskedInv'
<1>1. StackInv /\ SetsInv
  BY DEF RInv
<1>2. NoNewDisposal
  <2>1. CASE RefCount!AddCall(t)
    BY <1>1, <2>1, CallNone DEF RefCount!AddCall
  <2>2. CASE RefCount!AddRefCall(t) \/ RefCount!ClearCall(t)
    BY <1>1, <2>2, CallNone DEF RefCount!AddRefCall, RefCount!ClearCall
  <2>3. CASE RefCount!InnerCall(t) \/ RefCount!DropCall(t)
    BY <1>1, <2>3, CallNone DEF RefCount!InnerCall, RefCount!DropCall
  <2> QED
    BY <2>1, <2>2, <2>3 DEF RefCount!OtherCall
<1>3. m_refcount' = m_refcount /\ r_current_state' = r_current_state /\ released' = released
      /\ created' \intersect Inners = created \intersect Inners
  BY DEF RefCount!OtherCall, RefCount!AddCall, RefCount!AddRefCall, RefCount!InnerCall,
         RefCount!DropCall, RefCount!ClearCall, RefCount!parent, RefCount!handles, Setup
<1> QED
  BY <1>2, <1>3, AskedUntouched DEF Owners

LEMMA DisposeCallAsks ==
  ASSUME AskedInv, NEW t \in Pair, RefCount!DisposeCall(t)
  PROVE  AskedInv'
  BY DEF RefCount!DisposeCall, AskedInv

\* The steps that change neither the count nor the state but to leave Edit.
StepsAside(t) ==
  \/ RefCount!AddRefRefused(t) \/ RefCount!AddLock(t) \/ RefCount!AddPush(t) \/ RefCount!AddRejected(t)
  \/ RefCount!Unlock(t) \/ RefCount!RemoveUnlock(t) \/ RefCount!InnerDispose(t) \/ RefCount!InnerAgain(t)
  \/ RefCount!RemoveLock(t) \/ RefCount!RemoveErase(t) \/ RefCount!RemoveRefused(t)

LEMMA EditingAsks ==
  ASSUME RInv, AskedInv, NEW t \in Pair, StepsAside(t), asked' = asked
  PROVE  AskedInv'
<1>1. StackInv
  BY DEF RInv
<1>2. NoNewDisposal
  <2>1. CASE RefCount!AddRefRefused(t) \/ RefCount!Unlock(t)
    BY <1>1, <2>1, ReturnsNone DEF RefCount!AddRefRefused, RefCount!Unlock
  <2>2. CASE RefCount!AddLock(t) \/ RefCount!AddPush(t)
    BY <1>1, <2>2, GotoNone DEF RefCount!AddLock, RefCount!AddPush, RefCount!TryEdit
  <2>3. CASE RefCount!AddRejected(t)
    BY <1>1, <2>3, GotoNone, ReturnsNone DEF RefCount!AddRejected
  <2>4. CASE RefCount!RemoveUnlock(t) \/ RefCount!RemoveRefused(t) \/ RefCount!RemoveErase(t)
    BY <1>1, <2>4, GotoNone DEF RefCount!RemoveUnlock, RefCount!RemoveRefused, RefCount!RemoveErase
  <2>5. CASE RefCount!RemoveLock(t)
    BY <1>1, <2>5, GotoNone DEF RefCount!RemoveLock, RefCount!TryEdit
  <2>6. CASE RefCount!InnerDispose(t)
    <3>1. PICK label \in {"remove", "release"} : RefCount!Goto(t, label)
      BY <2>6 DEF RefCount!InnerDispose
    <3> QED
      BY <1>1, <2>6, <3>1, GotoNone DEF RefCount!InnerDispose
  <2>7. CASE RefCount!InnerAgain(t)
    BY <1>1, <2>7, ReturnsNone DEF RefCount!InnerAgain
  <2> QED
    BY <2>1, <2>2, <2>3, <2>4, <2>5, <2>6, <2>7 DEF StepsAside
<1>3. /\ m_refcount' = m_refcount /\ released' = released /\ created' = created
      /\ r_current_state' = "Disposed" => r_current_state = "Disposed"
  BY DEF StepsAside, RefCount!AddRefRefused, RefCount!AddLock, RefCount!AddPush, RefCount!AddRejected,
         RefCount!Unlock, RefCount!RemoveUnlock, RefCount!InnerDispose, RefCount!InnerAgain,
         RefCount!RemoveLock, RefCount!RemoveErase, RefCount!RemoveRefused, RefCount!TryEdit,
         RefCount!parent, RefCount!handles
<1> QED
  BY <1>2, <1>3, AskedUntouched DEF Owners

Clearing(t) ==
  RefCount!ReturnDisposed(t) \/ RefCount!ClearLock(t) \/ RefCount!WalkNext(t) \/ RefCount!Wipe(t)

\* The walk puts a call on a handle on top of itself.
LEMMA WalkNone ==
  ASSUME StackInv, NEW t \in Pair, RefCount!WalkNext(t)
  PROVE  NoNewDisposal
<1>1. PICK label \in {"walk", "clear_walk"} : RefCount!At(t, label)
  BY DEF RefCount!WalkNext
<1>2. PICK c \in RefCount!Top(t).todo :
        LET rest == [RefCount!Top(t) EXCEPT !.todo = @ \ {c}]
        IN  \/ stack' = [stack EXCEPT ![t] = <<RefCount!Frame("inner", c, {}), rest>> \o Tail(@)]
            \/ RefCount!Become(t, rest)
  BY DEF RefCount!WalkNext
<1> DEFINE rest == [RefCount!Top(t) EXCEPT !.todo = @ \ {c}]
           inner == RefCount!Frame("inner", c, {})
<1>3. /\ stack[t] # <<>> /\ RefCount!Top(t) \in FrameSet /\ RefCount!Top(t).at = label
      /\ stack[t] \in Seq(FrameSet)
  BY <1>1, AtSomeFrame DEF StackInv
<1>4. rest.at = label /\ inner.at = "inner"
  BY <1>3 DEF FrameSet, RefCount!Frame
<1>5. CASE RefCount!Become(t, rest)
  BY <1>1, <1>4, <1>5, BecomeNone
<1>6. CASE stack' = [stack EXCEPT ![t] = <<inner, rest>> \o Tail(@)]
  <2> HIDE DEF rest, inner
  <2>1. stack'[t] = <<inner, rest>> \o Tail(stack[t]) /\ \A u \in Pair : u # t => stack'[u] = stack[u]
    BY <1>6 DEF StackInv
  <2>2. ASSUME NEW k \in DOMAIN stack'[t] PROVE stack'[t][k] \in RefCount!Frames(t) \union {inner, rest}
    <3>0. DOMAIN stack'[t] = 1..(Len(stack[t]) + 1) /\ Len(stack[t]) \in Nat \ {0}
      BY <1>3, <2>1
    <3>1. k = 1 => stack'[t][k] = inner
      BY <1>3, <2>1
    <3>2. k = 2 => stack'[t][k] = rest
      BY <1>3, <2>1
    <3>3. k \notin {1, 2} => k - 1 \in DOMAIN stack[t] /\ stack'[t][k] = stack[t][k - 1]
      BY <1>3, <2>1, <3>0
    <3> QED
      BY <3>1, <3>2, <3>3 DEF RefCount!Frames
  <2>3. \A f \in RefCount!Frames(t)' : f \in RefCount!Frames(t) \union {inner, rest}
    BY <2>2 DEF RefCount!Frames
  <2> QED
    BY <1>1, <1>4, <2>1, <2>3 DEF NoNewDisposal, RefCount!Frames
<1> QED
  BY <1>2, <1>5, <1>6

LEMMA ClearingAsks ==
  ASSUME RInv, AskedInv, NEW t \in Pair, Clearing(t), asked' = asked
  PROVE  AskedInv'
<1>1. StackInv
  BY DEF RInv
<1>2. NoNewDisposal
  <2>1. CASE RefCount!ReturnDisposed(t)
    BY <1>1, <2>1, ReturnsNone DEF RefCount!ReturnDisposed
  <2>2. CASE RefCount!ClearLock(t)
    <3>1. RefCount!Frame("clear_walk", RefCount!NoChild, r_disposables).at = "clear_walk"
      BY DEF RefCount!Frame
    <3> QED
      BY <1>1, <2>2, <3>1, BecomeNone DEF RefCount!ClearLock
  <2>3. CASE RefCount!Wipe(t)
    BY <1>1, <2>3, ReturnsNone, GotoNone DEF RefCount!Wipe
  <2> QED
    BY <1>1, <2>1, <2>2, <2>3, WalkNone DEF Clearing
<1>3. /\ m_refcount' = m_refcount /\ released' = released /\ created' = created
      /\ r_current_state' = "Disposed" => r_current_state = "Disposed"
  BY DEF Clearing, RefCount!ReturnDisposed, RefCount!ClearLock, RefCount!WalkNext, RefCount!Wipe,
         RefCount!parent, RefCount!handles
<1> QED
  BY <1>2, <1>3, AskedUntouched DEF Owners

LEMMA CountedOwners ==
  ASSUME Setup, RInv
  PROVE  /\ IsFiniteSet(Owners) /\ Cardinality(Owners) \in Nat
         /\ m_refcount # RefCount!s_disposed => m_refcount = Cardinality(Owners)
<1>1. IsFiniteSet(Owners)
  BY FS_Subset DEF Owners, Setup
<1> QED
  BY <1>1, FS_CardinalityType DEF RInv, CountInv

LEMMA Releasing ==
  ASSUME Setup, RInv, NEW t \in Pair, RefCount!At(t, "release")
  PROVE  /\ RefCount!Top(t).c \in (created \intersect Inners) \ released
         /\ m_refcount # RefCount!s_disposed => Cardinality(Owners \ {RefCount!Top(t).c}) = m_refcount - 1
<1>1. Upper[t].at = "release" /\ Upper[t] = RefCount!Top(t)
  BY PlacesOfTop DEF RInv
<1>2. RefCount!Top(t).c \in (created \intersect Inners) \ released
  BY <1>1 DEF RInv, FrameInv, SetsInv, ReleaseInv, Leaving, OfHandle
<1>3. RefCount!Top(t).c \in Owners
  BY <1>2 DEF Owners
<1> QED
  BY <1>2, <1>3, CountedOwners, FS_RemoveElement

LEMMA OneIsLeft == ASSUME Setup, RInv, Cardinality(Owners) = 1, NEW c \in Owners PROVE Owners = {c}
<1>1. Cardinality(Owners \ {c}) = 0 /\ IsFiniteSet(Owners \ {c})
  BY CountedOwners, FS_RemoveElement
<1> QED
  BY <1>1, FS_EmptySet

LEMMA AddRefAsks ==
  ASSUME Setup, RInv, AskedInv, NEW t \in Pair, RefCount!AddRef(t), asked' = asked
  PROVE  AskedInv'
<1>1. StackInv /\ m_refcount # RefCount!s_disposed
  BY DEF RInv, RefCount!AddRef
<1>2. NoNewDisposal
  <2>1. PICK i : RefCount!Become(t, RefCount!Frame("add", i, {}))
    BY DEF RefCount!AddRef
  <2>2. RefCount!Frame("add", i, {}).at = "add"
    BY DEF RefCount!Frame
  <2> QED
    BY <1>1, <2>1, <2>2, BecomeNone DEF RefCount!AddRef
<1>3. ~Marked'
  <2>1. m_refcount' = m_refcount + 1
    BY DEF RefCount!AddRef
  <2>2. m_refcount \in Nat
    BY CountedOwners, <1>1
  <2> QED
    BY <2>1, <2>2 DEF Marked, RefCount!s_disposed
<1> QED
  BY <1>1, <1>2, <1>3 DEF AskedInv, NoNewDisposal, Marked, RefCount!AddRef

LEMMA DisposeAsks ==
  ASSUME RInv, AskedInv, NEW t \in Pair, RefCount!Dispose(t), asked' = asked
  PROVE  AskedInv'
<1>1. StackInv
  BY DEF RInv
<1>2. RefCount!At(t, "dispose") /\ RefCount!Goto(t, "store")
  BY DEF RefCount!Dispose
<1>3. asked \/ Marked
  BY <1>1, <1>2, AtSomeFrame DEF AskedInv
<1>4. m_refcount' = m_refcount /\ Owners' = Owners
  BY DEF RefCount!Dispose, Owners, RefCount!handles
<1> QED
  BY <1>3, <1>4 DEF AskedInv, Marked

LEMMA StoreDisposedAsks ==
  ASSUME RInv, AskedInv, NEW t \in Pair, RefCount!StoreDisposed(t), asked' = asked
  PROVE  AskedInv'
<1>1. StackInv
  BY DEF RInv
<1>2. asked \/ Marked
  BY <1>1, AtSomeFrame DEF AskedInv, RefCount!StoreDisposed
<1>3. Marked' /\ Owners' = Owners
  BY DEF RefCount!StoreDisposed, Owners, Marked, RefCount!handles
<1> QED
  BY <1>2, <1>3 DEF AskedInv

LEMMA ReleaseAsks ==
  ASSUME Setup, RInv, AskedInv, NEW t \in Pair, RefCount!Release(t), asked' = asked
  PROVE  AskedInv'
<1> DEFINE c == RefCount!Top(t).c
<1>1. StackInv /\ c \in Owners /\ Owners' = Owners \ {c} /\ r_current_state' = r_current_state
  BY Releasing DEF RefCount!Release, Owners, RInv
<1>2. CASE m_refcount = RefCount!s_disposed /\ UNCHANGED m_refcount /\ RefCount!Return(t)
  <2>1. NoNewDisposal
    BY <1>1, <1>2, ReturnsNone DEF RefCount!Release
  <2> QED
    BY <1>1, <1>2, <2>1 DEF AskedInv, NoNewDisposal, Marked
<1>3. CASE m_refcount = 1 /\ m_refcount' = RefCount!s_disposed
  <2>1. Owners = {c}
    BY <1>1, <1>3, CountedOwners, OneIsLeft DEF RefCount!s_disposed
  <2>2. Marked' /\ Owners' = {}
    BY <1>1, <1>3, <2>1 DEF Marked
  <2> QED
    BY <2>2 DEF AskedInv
<1>4. CASE m_refcount \notin {RefCount!s_disposed, 1} /\ m_refcount' = m_refcount - 1 /\ RefCount!Return(t)
  <2>1. NoNewDisposal
    BY <1>1, <1>4, ReturnsNone DEF RefCount!Release
  <2>2. m_refcount \in Nat /\ m_refcount # 0
    BY <1>1, <1>4, CountedOwners, FS_EmptySet
  <2>3. ~Marked /\ ~Marked'
    BY <1>4, <2>2 DEF Marked, RefCount!s_disposed
  <2> QED
    BY <1>1, <2>1, <2>3 DEF AskedInv, NoNewDisposal
<1> QED
  BY <1>2, <1>3, <1>4 DEF RefCount!Release

LEMMA AskedStep ==
  ASSUME Setup, RInv, AskedInv, [RefCount!Next]_(RefCount!vars)
  PROVE  AskedInv'
<1>1. ASSUME NEW t \in Pair, RefCount!NewCall(t) PROVE AskedInv'
  BY <1>1, DisposeCallAsks, OtherCallAsks DEF RefCount!NewCall
<1>2. ASSUME NEW t \in Pair, RefCount!Step(t) PROVE AskedInv'
  <2>1. asked' = asked
    BY <1>2 DEF RefCount!Step
  <2>2. CASE StepsAside(t) \/ Clearing(t)
    BY <2>1, <2>2, EditingAsks, ClearingAsks
  <2>3. CASE RefCount!AddRef(t) \/ RefCount!Release(t) \/ RefCount!Dispose(t) \/ RefCount!StoreDisposed(t)
    BY <2>1, <2>3, AddRefAsks, ReleaseAsks, DisposeAsks, StoreDisposedAsks
  <2> QED
    BY <1>2, <2>2, <2>3 DEF RefCount!Step, StepsAside, Clearing
<1>3. CASE UNCHANGED RefCount!vars
  BY <1>3 DEF RefCount!vars, AskedInv, Marked, Owners, RefCount!Frames
<1> QED
  BY <1>1, <1>2, <1>3 DEF RefCount!Next

LEMMA AskedAlways == Setup /\ RefCount!Spec => []AskedInv
<1>1. Setup /\ RefCount!Init => AskedInv
  <2> SUFFICES ASSUME Setup, RefCount!Init PROVE AskedInv
    OBVIOUS
  <2>1. \A t \in Pair : stack[t] = <<>>
    BY DEF RefCount!Init
  <2>2. \A t \in Pair : RefCount!Frames(t) = {}
    BY <2>1 DEF RefCount!Frames
  <2>3. asked = FALSE /\ r_current_state = "None" /\ m_refcount = 0
    BY DEF RefCount!Init
  <2>4. ~Marked
    BY <2>3 DEF Marked, RefCount!s_disposed
  <2> QED
    BY <2>2, <2>3, <2>4 DEF AskedInv
<1>2. Setup /\ RInv /\ AskedInv /\ [RefCount!Next]_(RefCount!vars) => AskedInv'
  BY AskedStep
<1>3. Setup => []Setup
  BY DEF Setup
<1> QED
  BY <1>1, <1>2, <1>3, RAlways, PTL DEF RefCount!Spec

LEMMA LastHandleFollows == Setup /\ RInv /\ AskedInv => RefCount!LastHandleClosesAll
<1> SUFFICES ASSUME Setup, RInv, AskedInv PROVE RefCount!LastHandleClosesAll
  OBVIOUS
<1>1. SetsInv /\ CountInv /\ StackInv /\ StateInv /\ ReleaseInv /\ KeptInv
  BY DEF RInv
<1>2. RefCount!Quiet => \A t \in Pair : Upper[t] = NoFrame /\ Lower[t] = NoFrame
  BY <1>1, TwoFrames DEF RefCount!Quiet
<1>3. ASSUME RefCount!Quiet, created \intersect Inners # {}, created \intersect Inners \subseteq disposed
      PROVE  r_current_state = "Disposed"
  <2>1. Owners = {}
    BY <1>1, <1>2, <1>3 DEF Owners, ReleaseInv, Leaving, NoFrame
  <2>2. m_refcount = RefCount!s_disposed
    BY <1>1, <1>3, <2>1, FS_EmptySet DEF CountInv
  <2> QED
    BY <1>1, <1>2, <1>3, <2>2 DEF CountInv, NoFrame
<1>4. ASSUME RefCount!Quiet, r_current_state = "Disposed"
      PROVE  created \subseteq disposed /\ r_disposables = {}
  <2>1. r_disposables = {}
    BY <1>1, <1>2, <1>4 DEF StateInv, Closes, NoFrame
  <2> QED
    BY <1>1, <1>2, <1>4, <2>1 DEF KeptInv, Destroyed, NoFrame
<1>5. ASSUME r_current_state = "Disposed", ~asked PROVE created \intersect Inners \subseteq released
  BY <1>5 DEF AskedInv, Owners
<1> QED
  BY <1>3, <1>4, <1>5 DEF RefCount!LastHandleClosesAll

-----------------------------------------------------------------------------
(* The shared ownership.                                                     *)

OwnershipStep == [RefCount!Ownership!Next]_<<Owners, asked, Marked>>

LEMMA NotOfIt ==
  ASSUME m_refcount' = m_refcount, Owners' = Owners, asked' = asked
  PROVE  OwnershipStep
  BY DEF OwnershipStep, Marked

LEMMA ReleaseIsOfIt ==
  ASSUME Setup, RInv, NEW t \in Pair, RefCount!Release(t), asked' = asked
  PROVE  OwnershipStep
<1> DEFINE c == RefCount!Top(t).c
<1>1. c \in Owners /\ Owners' = Owners \ {c} /\ c \in Inners
  BY Releasing DEF RefCount!Release, Owners
<1>2. Marked' <=> (Marked \/ Owners' = {})
  <2>1. CASE m_refcount = RefCount!s_disposed /\ UNCHANGED m_refcount
    BY <2>1 DEF Marked
  <2>2. CASE m_refcount = 1 /\ m_refcount' = RefCount!s_disposed
    <3>1. Owners = {c}
      BY <1>1, <2>2, CountedOwners, OneIsLeft DEF RefCount!s_disposed
    <3> QED
      BY <1>1, <2>2, <3>1 DEF Marked
  <2>3. CASE m_refcount \notin {RefCount!s_disposed, 1} /\ m_refcount' = m_refcount - 1
    <3>1. Cardinality(Owners \ {c}) = m_refcount - 1 /\ m_refcount \in Nat
      BY <1>1, <2>3, Releasing, CountedOwners DEF RefCount!Release
    <3>2. Owners \ {c} # {}
      BY <3>1, <2>3, FS_EmptySet
    <3>3. m_refcount # 0
      BY <1>1, <2>3, CountedOwners, FS_EmptySet
    <3> QED
      BY <1>1, <2>3, <3>1, <3>2, <3>3 DEF Marked, RefCount!s_disposed
  <2> QED
    BY <2>1, <2>2, <2>3 DEF RefCount!Release
<1>3. RefCount!Ownership!Release(c)
  BY <1>1, <1>2 DEF RefCount!Ownership!Release, Owners, Marked
<1> QED
  BY <1>1, <1>3 DEF OwnershipStep, RefCount!Ownership!Next

LEMMA AddRefIsOfIt ==
  ASSUME Setup, RInv, NEW t \in Pair, RefCount!AddRef(t), asked' = asked
  PROVE  OwnershipStep
<1>1. PICK c \in Inners \ created : created' = created \union {c}
  BY DEF RefCount!AddRef
<1>2. ~Marked /\ ~Marked'
  BY CountedOwners DEF RefCount!AddRef, RefCount!s_disposed, Marked
<1>3. Owners' = Owners \union {c} /\ c \notin Owners
  BY <1>1 DEF RefCount!AddRef, Owners, RInv, SetsInv
<1>4. RefCount!Ownership!Acquire(c)
  BY <1>2, <1>3 DEF RefCount!Ownership!Acquire, Owners, Marked
<1> QED
  BY <1>4 DEF OwnershipStep, RefCount!Ownership!Next

LEMMA StepIsOfIt == Setup /\ RInv /\ AskedInv /\ [RefCount!Next]_(RefCount!vars) => OwnershipStep
<1> SUFFICES ASSUME Setup, RInv, AskedInv, [RefCount!Next]_(RefCount!vars) PROVE OwnershipStep
  OBVIOUS
<1>1. ASSUME NEW t \in Pair, RefCount!StoreDisposed(t), asked' = asked PROVE OwnershipStep
  <2>1. Owners' = Owners /\ Marked'
    BY <1>1 DEF RefCount!StoreDisposed, Owners, Marked, RefCount!handles
  <2>2. asked \/ Marked
    <3>1. StackInv
      BY DEF RInv
    <3> QED
      BY <1>1, <3>1, AtSomeFrame DEF AskedInv, RefCount!StoreDisposed
  <2>3. CASE asked
    <3>1. RefCount!Ownership!Close
      BY <1>1, <2>1, <2>3 DEF RefCount!Ownership!Close, Owners, Marked
    <3> QED
      BY <3>1 DEF OwnershipStep, RefCount!Ownership!Next
  <2>4. CASE Marked
    BY <1>1, <2>1, <2>4 DEF OwnershipStep, Marked
  <2> QED
    BY <2>2, <2>3, <2>4
<1>2. ASSUME NEW t \in Pair, RefCount!AddCall(t), asked' = asked PROVE OwnershipStep
  <2>1. Owners' = Owners /\ m_refcount' = m_refcount
    BY <1>2 DEF RefCount!AddCall, Owners, Setup, RefCount!parent
  <2> QED
    BY <1>2, <2>1, NotOfIt
<1>3. ASSUME UNCHANGED <<m_refcount, created, released, asked>> PROVE OwnershipStep
  BY <1>3, NotOfIt DEF Owners
<1>4. ASSUME NEW t \in Pair, RefCount!OtherCall(t), asked' = asked PROVE OwnershipStep
  BY <1>2, <1>3, <1>4
    DEF RefCount!OtherCall, RefCount!AddRefCall, RefCount!InnerCall, RefCount!DropCall,
        RefCount!ClearCall, RefCount!parent, RefCount!handles
<1>5. ASSUME NEW t \in Pair, RefCount!DisposeCall(t) PROVE OwnershipStep
  <2>1. RefCount!Ownership!Ask
    BY <1>5 DEF RefCount!Ownership!Ask, RefCount!DisposeCall, RefCount!parent, RefCount!handles
  <2> QED
    BY <2>1 DEF OwnershipStep, RefCount!Ownership!Next
<1>6. ASSUME NEW t \in Pair, RefCount!Step(t) PROVE OwnershipStep
  <2>0. asked' = asked
    BY <1>6 DEF RefCount!Step
  <2>1. CASE StepsAside(t)
    BY <2>0, <2>1, <1>3
      DEF StepsAside, RefCount!AddRefRefused, RefCount!AddLock, RefCount!AddPush, RefCount!AddRejected,
          RefCount!Unlock, RefCount!RemoveUnlock, RefCount!InnerDispose, RefCount!InnerAgain,
          RefCount!RemoveLock, RefCount!RemoveErase, RefCount!RemoveRefused, RefCount!TryEdit,
          RefCount!parent, RefCount!handles
  <2>2. CASE Clearing(t) \/ RefCount!Dispose(t)
    BY <2>0, <2>2, <1>3
      DEF Clearing, RefCount!Dispose, RefCount!ReturnDisposed, RefCount!ClearLock, RefCount!WalkNext,
          RefCount!Wipe, RefCount!parent, RefCount!handles
  <2> QED
    BY <1>1, <1>6, <2>0, <2>1, <2>2, AddRefIsOfIt, ReleaseIsOfIt DEF RefCount!Step, StepsAside, Clearing
<1>7. CASE UNCHANGED RefCount!vars
  BY <1>7, <1>3 DEF RefCount!vars
<1> QED
  BY <1>4, <1>5, <1>6, <1>7 DEF RefCount!Next, RefCount!NewCall

LEMMA OwnershipBegins == RefCount!Init => RefCount!Ownership!Init
  BY DEF RefCount!Init, RefCount!Ownership!Init, RefCount!s_disposed

\* add_ref() takes a handle and release() gives one back; the last release closes, or
\* the parent's own disposal after somebody has called dispose(): no other release does,
\* and nothing else changes who owns what is shared.
THEOREM OwnsTogether == Setup /\ RefCount!Spec => RefCount!Ownership!Spec
<1>1. RefCount!Init => RefCount!Ownership!Init
  BY OwnershipBegins
<1>2. Setup /\ RInv /\ AskedInv /\ [RefCount!Next]_(RefCount!vars)
        => [RefCount!Ownership!Next]_<<(created \intersect Inners) \ released, asked,
                              m_refcount = RefCount!s_disposed>>
  BY StepIsOfIt DEF OwnershipStep, Owners, Marked
<1>3. Setup => []Setup
  BY DEF Setup
<1> QED
  BY <1>1, <1>2, <1>3, RAlways, AskedAlways, PTL DEF RefCount!Spec, RefCount!Ownership!Spec

-----------------------------------------------------------------------------
(* A behaviour of MCDisposables is one of each of the three.                 *)

LEMMA Parts == AllFairSpec => Spec /\ RefCount!Spec /\ Shared!Spec
<1>1. AllInit => Init /\ RefCount!Init /\ Shared!Init
  BY DEF AllInit
<1>2. [AllNext]_allVars => [Next]_vars
  BY DEF AllNext, allVars
<1>3. [AllNext]_allVars => [RefCount!Next]_(RefCount!vars)
  BY DEF AllNext, allVars, ofRefCount, RefCount!vars
<1>4. [AllNext]_allVars => [Shared!Next]_(Shared!vars)
  BY DEF AllNext, allVars, ofShared, Shared!vars, Shared!ref_count, Shared!disposables, Shared!subscriber
<1> QED
  BY <1>1, <1>2, <1>3, <1>4, PTL DEF AllFairSpec, AllSpec, Spec, RefCount!Spec, Shared!Spec

LEMMA Assumed == Setup /\ Setting
  BY HandlesAssumption, ObserversAssumption DEF Setup, Setting, RefCount!Kept

\* Types: the counters of refcount_disposable and of ref_count() among them are
\* never negative but for the mark, and a call of one never nests deeper than it can.
THEOREM AllTypes == AllFairSpec => []TypesOK
<1>1. Setup /\ RefCount!Spec => []RefCount!TypeOK
  <2>1. Setup => []Setup
    BY DEF Setup
  <2>2. AskedInv => asked \in BOOLEAN
    BY DEF AskedInv
  <2> QED
    BY <2>1, <2>2, RAlways, AskedAlways, TypesFollow, PTL
<1> QED
  BY <1>1, Parts, Assumed, TypeCorrect, ConnectableTypes, PTL DEF TypesOK

\* A refcount_disposable is open until the last handle goes or dispose() is called,
\* and after the last handle closed with all it holds; ref_count() keeps one connection until its last observer leaves.
\* However the last release races with an add_ref() or the next subscription.
THEOREM UntilTheLast == AllFairSpec => []SharedToTheLast
<1>1. Setup /\ RefCount!Spec => []RefCount!LastHandleClosesAll
  <2>1. Setup => []Setup
    BY DEF Setup
  <2> QED
    BY <2>1, RAlways, AskedAlways, LastHandleFollows, PTL
<1> QED
  BY <1>1, Parts, Assumed, One, LastLeaves, PTL DEF SharedToTheLast

\* refcount_disposable implements the shared ownership of its handles: every step
\* of it takes a handle, gives one back, closes, or leaves the ownership alone.
THEOREM Shares == AllFairSpec => IsSharedOwnership
  BY Parts, Assumed, OwnsTogether, PTL DEF IsSharedOwnership, RefCount!IsSharedOwnership
=============================================================================
