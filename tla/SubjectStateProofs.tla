-------------------------- MODULE SubjectStateProofs --------------------------
(* Proofs about SubjectState with m_serialized_mutex, for any number of       *)
(* emitters, observers and calls.                                           *)
(*                                                                         *)
(* Control is about who may be called and by whom, and holds as well of what  *)
(* is built on a subject_state: the emitter that has m_serialized_mutex, the  *)
(* callback each observer is in, the list and its copies, and that nobody is  *)
(* lost between the list and the emitter that ends it.  Delivery is about the *)
(* values: where one in the hand of an emitter has been, and whom it is on    *)
(* its way to.                                                              *)
EXTENDS SubjectState, SequenceTheorems, TLAPS

\* What is assumed of the constants.
Setup ==
  /\ Serialized = TRUE
  /\ Emitters \cap Observers = {} /\ NoOne \notin Emitters
  /\ Terminals \subseteq {"completed", "error"}
  /\ MaxCalls \in Nat

Joined == {"listed", "in_set_upstream", "subscribed"}
Locked == {"broadcast", "in_next", "end_all", "in_terminal"}
InCall == {"in_next", "in_terminal"}
Ending == {"end_all", "in_terminal"}

ControlTypes ==
  /\ m_state \in {"observers", "disposed"} \union Terminals
  /\ m_observers \in Seq(Observers)
  /\ m_serialized \in Emitters \union {NoOne}
  /\ pc \in [Emitters -> PcValues]
  /\ todo \in [Emitters -> Seq(Observers)]
  /\ sub \in [Observers -> Joined \union {"new", "late", "in_late", "refused"}]
  /\ upstream \subseteq Observers
  /\ observer \in [Observers -> {"open", "disposed"} \union Terminals]
  /\ inside \in [Observers -> SUBSET (Emitters \union Observers)]

LockHeld == \A e \in Emitters : pc[e] \in Locked <=> m_serialized = e

\* An emitter is in a callback of the observer whose turn it is, an observer's
\* own thread in set_upstream or in the call that tells it of an end long past.
EmitterInside ==
  /\ \A e \in Emitters, o \in Observers :
       e \in inside[o] <=> pc[e] \in InCall /\ Head(todo[e]) = o
  /\ \A e \in Emitters : pc[e] \in InCall => todo[e] # <<>>
SelfInside ==
  \A o, p \in Observers : p \in inside[o] => p = o /\ sub[o] \in {"in_set_upstream", "in_late"}

\* Whoever is on the list, or on a copy, has joined and is there once.
Lists ==
  /\ m_state # "observers" => m_observers = <<>>
  /\ IsInjective(m_observers) /\ \A o \in Range(m_observers) : sub[o] \in Joined
Copies ==
  \A e \in Emitters : IsInjective(todo[e]) /\ \A o \in Range(todo[e]) : sub[o] \in Joined

LateOnes ==
  \A o \in Observers :
    /\ sub[o] \in {"late", "in_late"} => m_state \in Terminals
    /\ sub[o] = "in_late" => observer[o] # "open"
Telling ==
  \A e \in Emitters :
    /\ pc[e] \in Ending /\ todo[e] # <<>> => m_state \in Terminals
    /\ pc[e] = "in_terminal" => observer[Head(todo[e])] # "open"

\* An observer that has joined and is open will be told of the end: it is on the
\* list, or on that of the emitter that took it.
NobodyForgotten ==
  \A o \in Observers : sub[o] \in Joined /\ observer[o] = "open" =>
    \/ m_state = "observers" /\ o \in Range(m_observers)
    \/ m_state = "disposed"
    \/ \E e \in Emitters : pc[e] \in Ending /\ o \in Range(todo[e])

Control ==
  /\ ControlTypes /\ LockHeld /\ EmitterInside /\ SelfInside
  /\ Lists /\ Copies /\ LateOnes /\ Telling /\ NobodyForgotten

controlVars == <<subject, pc, todo, sub, upstream, observer, inside>>

-----------------------------------------------------------------------------
(* Lists.                                                                   *)

\* The first of a list without repetition, and the others.
LEMMA First ==
  ASSUME NEW S, NEW s \in Seq(S), s # <<>>, IsInjective(s)
  PROVE  /\ Head(s) \in S /\ Tail(s) \in Seq(S)
         /\ Range(s) = {Head(s)} \union Range(Tail(s))
         /\ Head(s) \notin Range(Tail(s)) /\ IsInjective(Tail(s))
<1>1. Len(s) \in Nat /\ Len(s) # 0 /\ DOMAIN s = 1..Len(s) /\ Head(s) = s[1] /\ Head(s) \in S
  OBVIOUS
<1>2. Tail(s) \in Seq(S) /\ Len(Tail(s)) = Len(s) - 1 /\ DOMAIN Tail(s) = 1..Len(s) - 1
  BY <1>1
<1>3. \A i \in 1..Len(s) - 1 : Tail(s)[i] = s[i + 1]
  BY <1>1
<1>4. Range(Tail(s)) \subseteq Range(s) /\ Head(s) \in Range(s)
  BY <1>1, <1>2, <1>3 DEF Range
<1>5. ASSUME NEW x \in Range(s), x # Head(s) PROVE x \in Range(Tail(s))
  <2>1. PICK i \in 1..Len(s) : x = s[i]
    BY <1>1 DEF Range
  <2>2. i - 1 \in 1..Len(s) - 1 /\ Tail(s)[i - 1] = s[i]
    BY <1>1, <1>3, <1>5, <2>1
  <2> QED
    BY <1>2, <2>1, <2>2 DEF Range
<1>6. Head(s) \notin Range(Tail(s))
  BY <1>1, <1>2, <1>3 DEF Range, IsInjective
<1>7. IsInjective(Tail(s))
  BY <1>1, <1>2, <1>3 DEF IsInjective
<1> QED
  BY <1>1, <1>2, <1>4, <1>5, <1>6, <1>7

\* A list with one observer more.
LEMMA Added ==
  ASSUME NEW S, NEW s \in Seq(S), NEW x \in S
  PROVE  /\ Append(s, x) \in Seq(S) /\ Range(Append(s, x)) = Range(s) \union {x}
         /\ IsInjective(s) /\ x \notin Range(s) => IsInjective(Append(s, x))
<1>1. /\ Len(s) \in Nat /\ DOMAIN s = 1..Len(s)
      /\ Append(s, x) \in Seq(S) /\ DOMAIN Append(s, x) = 1..Len(s) + 1
      /\ \A i \in 1..Len(s) : Append(s, x)[i] = s[i]
      /\ Append(s, x)[Len(s) + 1] = x
  OBVIOUS
<1>2. Range(Append(s, x)) = Range(s) \union {x}
  <2>1. Range(Append(s, x)) \subseteq Range(s) \union {x}
    BY <1>1 DEF Range
  <2>2. Range(s) \subseteq Range(Append(s, x)) /\ x \in Range(Append(s, x))
    BY <1>1 DEF Range
  <2> QED
    BY <2>1, <2>2
<1>3. IsInjective(s) /\ x \notin Range(s) => IsInjective(Append(s, x))
  BY <1>1 DEF IsInjective, Range
<1> QED
  BY <1>1, <1>2, <1>3

\* cleanup_observers takes one observer off the list, and nobody else.
LEMMA OneLess ==
  ASSUME NEW S, NEW s \in Seq(S), IsInjective(s), NEW x
  PROVE  /\ Without(s, x) \in Seq(S) /\ IsInjective(Without(s, x))
         /\ Range(Without(s, x)) = Range(s) \ {x}
<1>0. Len(s) \in Nat /\ DOMAIN s = 1..Len(s)
  OBVIOUS
<1>1. CASE ~Contains(s, x)
  BY <1>0, <1>1 DEF Contains, Without, Range
<1>2. CASE Contains(s, x)
  <2> DEFINE at == CHOOSE i \in DOMAIN s : s[i] = x
             w == RemoveAt(s, at)
  <2>1. at \in 1..Len(s) /\ s[at] = x
    BY <1>0, <1>2 DEF Contains
  <2>2. Without(s, x) = w
    BY <1>2 DEF Without
  <2>3. SubSeq(s, 1, at - 1) \in Seq(S) /\ Len(SubSeq(s, 1, at - 1)) = at - 1
    BY <1>0, <2>1
  <2>4. SubSeq(s, at + 1, Len(s)) \in Seq(S) /\ Len(SubSeq(s, at + 1, Len(s))) = Len(s) - at
    BY <1>0, <2>1
  <2>5. w \in Seq(S) /\ Len(w) = Len(s) - 1 /\ DOMAIN w = 1..Len(s) - 1
    BY <1>0, <2>1, <2>3, <2>4 DEF RemoveAt
  <2>6. \A i \in 1..Len(s) - 1 : w[i] = IF i < at THEN s[i] ELSE s[i + 1]
    <3> DEFINE a == SubSeq(s, 1, at - 1)
               b == SubSeq(s, at + 1, Len(s))
    <3>1. a \in Seq(S) /\ Len(a) = at - 1 /\ b \in Seq(S) /\ Len(b) = Len(s) - at
      BY <2>3, <2>4
    <3>2. \A i \in 1..at - 1 : a[i] = s[i]
      BY <1>0, <2>1
    <3>3. \A i \in 1..Len(s) - at : b[i] = s[at + i]
      BY <1>0, <2>1
    <3>4. w = a \o b
      BY DEF RemoveAt
    <3> HIDE DEF a, b, w, at
    <3> SUFFICES ASSUME NEW i \in 1..Len(s) - 1 PROVE w[i] = IF i < at THEN s[i] ELSE s[i + 1]
      OBVIOUS
    <3>5. CASE i < at
      BY <1>0, <2>1, <3>1, <3>2, <3>4, <3>5
    <3>6. CASE i >= at
      <4>1. w[i] = b[i - (at - 1)]
        BY <1>0, <2>1, <3>1, <3>4, <3>6
      <4>2. i - (at - 1) \in 1..Len(s) - at /\ at + (i - (at - 1)) = i + 1
        BY <1>0, <2>1, <3>6
      <4> QED
        BY <1>0, <2>1, <3>3, <3>6, <4>1, <4>2
    <3> QED
      BY <1>0, <2>1, <3>5, <3>6
  <2> HIDE DEF at, w
  <2>7. Range(w) \subseteq Range(s) \ {x}
    BY <1>0, <2>1, <2>5, <2>6 DEF Range, IsInjective
  <2>8. ASSUME NEW y \in Range(s), y # x PROVE y \in Range(w)
    <3>1. PICK i \in 1..Len(s) : y = s[i]
      BY <1>0 DEF Range
    <3>2. CASE i < at
      BY <1>0, <2>1, <2>5, <2>6, <3>1, <3>2 DEF Range
    <3>3. CASE i > at
      <4>1. i - 1 \in 1..Len(s) - 1 /\ w[i - 1] = s[i]
        BY <1>0, <2>1, <2>6, <3>3
      <4> QED
        BY <2>5, <3>1, <4>1 DEF Range
    <3> QED
      BY <1>0, <2>1, <2>8, <3>1, <3>2, <3>3
  <2>9. IsInjective(w)
    <3>1. \A i, j \in 1..Len(s) : s[i] = s[j] => i = j
      BY <1>0 DEF IsInjective
    <3>2. ASSUME NEW i \in 1..Len(s) - 1, NEW j \in 1..Len(s) - 1, w[i] = w[j] PROVE i = j
      <4> DEFINE k == IF i < at THEN i ELSE i + 1
                 l == IF j < at THEN j ELSE j + 1
      <4>1. k \in 1..Len(s) /\ l \in 1..Len(s) /\ w[i] = s[k] /\ w[j] = s[l]
        BY <1>0, <2>1, <2>6
      <4>2. k = l
        BY <3>1, <3>2, <4>1
      <4> QED
        BY <1>0, <2>1, <4>2
    <3> QED
      BY <2>5, <3>2 DEF IsInjective
  <2> QED
    BY <2>2, <2>5, <2>7, <2>8, <2>9
<1> QED
  BY <1>1, <1>2

-----------------------------------------------------------------------------
(* Control: one lemma per action.                                           *)

\* One call of an observer begins, or ends, or nothing of this happens.
LEMMA Untouched ==
  ASSUME NEW o \in Observers, UNCHANGED <<sub[o], observer[o], inside[o]>>
  PROVE  UNCHANGED <<EmittingTo(o), Ended(o)>>
BY DEF EmittingTo, Ended

\* A step that calls nobody is a stutter of the contract.
LEMMA AllUntouched ==
  ASSUME UNCHANGED <<sub, observer, inside>>
  PROVE  ContractStep
BY Untouched DEF ContractStep

\* on_next is called.
LEMMA NextCallKeeps ==
  ASSUME Setup, Control, NEW e \in Emitters, NextCall(e)
  PROVE  Control' /\ ContractStep
<1> USE DEF Control, Setup
<1>1. /\ pc[e] = "idle" /\ pc' = [pc EXCEPT ![e] = "snapshot"]
      /\ UNCHANGED <<subject, todo, obs>>
  BY DEF NextCall, Call, Goto
<1>2. ControlTypes'
  BY <1>1 DEF ControlTypes, PcValues, subject, obs
<1>3. LockHeld' /\ EmitterInside' /\ SelfInside'
  BY <1>1 DEF ControlTypes, LockHeld, EmitterInside, SelfInside, Locked, InCall, subject, obs
<1>4. Lists' /\ Copies' /\ LateOnes'
  BY <1>1 DEF Lists, Copies, LateOnes, subject, obs
<1>5. Telling' /\ NobodyForgotten'
  BY <1>1 DEF ControlTypes, Telling, NobodyForgotten, Ending, subject, obs
<1>6. ContractStep
  BY <1>1, AllUntouched DEF obs
<1> QED
  BY <1>2, <1>3, <1>4, <1>5, <1>6

\* on_error or on_completed is called.
LEMMA TerminalCallKeeps ==
  ASSUME Setup, Control, NEW e \in Emitters, TerminalCall(e)
  PROVE  Control' /\ ContractStep
<1> USE DEF Control, Setup
<1>1. PICK k \in Terminals :
        pc[e] = "idle" /\ pc' = [pc EXCEPT ![e] = k] /\ UNCHANGED <<subject, todo, obs>>
  BY DEF TerminalCall, Call, Goto
<1>2. ControlTypes'
  BY <1>1 DEF ControlTypes, PcValues, subject, obs
<1>3. LockHeld' /\ EmitterInside' /\ SelfInside'
  BY <1>1 DEF ControlTypes, LockHeld, EmitterInside, SelfInside, Locked, InCall, subject, obs
<1>4. Lists' /\ Copies' /\ LateOnes'
  BY <1>1 DEF Lists, Copies, LateOnes, subject, obs
<1>5. Telling' /\ NobodyForgotten'
  BY <1>1 DEF ControlTypes, Telling, NobodyForgotten, Ending, subject, obs
<1>6. ContractStep
  BY <1>1, AllUntouched DEF obs
<1> QED
  BY <1>2, <1>3, <1>4, <1>5, <1>6

\* on_next copies the list, or finds that the subject has ended.
LEMMA NextSnapshotKeeps ==
  ASSUME Setup, Control, NEW e \in Emitters, NextSnapshot(e)
  PROVE  Control' /\ ContractStep
<1> USE DEF Control, Setup
<1>1. /\ pc[e] = "snapshot" /\ UNCHANGED <<subject, obs>>
      /\ \/ /\ m_state = "observers" /\ todo' = [todo EXCEPT ![e] = m_observers]
            /\ pc' = [pc EXCEPT ![e] = "serialize"]
         \/ UNCHANGED todo /\ pc' = [pc EXCEPT ![e] = "idle"]
  BY DEF NextSnapshot, Goto
<1>2. ControlTypes'
  <2>1. pc' \in [Emitters -> PcValues]
    BY <1>1 DEF ControlTypes, PcValues
  <2>2. todo' \in [Emitters -> Seq(Observers)]
    BY <1>1 DEF ControlTypes
  <2> QED
    BY <1>1, <2>1, <2>2 DEF ControlTypes, subject, obs
<1>3. LockHeld' /\ EmitterInside' /\ SelfInside'
  BY <1>1 DEF ControlTypes, LockHeld, EmitterInside, SelfInside, Locked, InCall, subject, obs
<1>4. Lists' /\ Copies' /\ LateOnes'
  BY <1>1 DEF ControlTypes, Lists, Copies, LateOnes, subject, obs
<1>5. Telling' /\ NobodyForgotten'
  BY <1>1 DEF ControlTypes, Telling, NobodyForgotten, Ending, subject, obs
<1>6. ContractStep
  BY <1>1, AllUntouched DEF obs
<1> QED
  BY <1>2, <1>3, <1>4, <1>5, <1>6

\* on_next gets m_serialized_mutex.
LEMMA SerializeNextKeeps ==
  ASSUME Setup, Control, NEW e \in Emitters, SerializeNext(e)
  PROVE  Control' /\ ContractStep
<1> USE DEF Control, Setup
<1>1. /\ pc[e] = "serialize" /\ pc' = [pc EXCEPT ![e] = "broadcast"]
      /\ m_serialized = NoOne /\ m_serialized' = e
      /\ UNCHANGED <<m_state, m_observers, todo, obs>>
  BY DEF SerializeNext, Goto
<1>2. ControlTypes'
  BY <1>1 DEF ControlTypes, PcValues, obs
<1>3. LockHeld' /\ EmitterInside' /\ SelfInside'
  BY <1>1 DEF ControlTypes, LockHeld, EmitterInside, SelfInside, Locked, InCall, obs
<1>4. Lists' /\ Copies' /\ LateOnes'
  BY <1>1 DEF Lists, Copies, LateOnes, obs
<1>5. Telling' /\ NobodyForgotten'
  BY <1>1 DEF ControlTypes, Telling, NobodyForgotten, Ending, obs
<1>6. ContractStep
  BY <1>1, AllUntouched DEF obs
<1> QED
  BY <1>2, <1>3, <1>4, <1>5, <1>6

\* The end of the loop of on_next, and of that of on_error and on_completed.
LEMMA NextReturnKeeps ==
  ASSUME Setup, Control, NEW e \in Emitters, NextReturn(e) \/ TerminalReturn(e)
  PROVE  Control' /\ ContractStep
<1> USE DEF Control, Setup
<1>1. /\ pc[e] \in {"broadcast", "end_all"} /\ todo[e] = <<>>
      /\ pc' = [pc EXCEPT ![e] = "idle"] /\ m_serialized' = NoOne
      /\ UNCHANGED <<m_state, m_observers, todo, obs>>
  BY DEF NextReturn, TerminalReturn, Goto
<1>2. ControlTypes'
  BY <1>1 DEF ControlTypes, PcValues, obs
<1>3. LockHeld' /\ EmitterInside' /\ SelfInside'
  BY <1>1 DEF ControlTypes, LockHeld, EmitterInside, SelfInside, Locked, InCall, obs
<1>4. Lists' /\ Copies' /\ LateOnes'
  BY <1>1 DEF Lists, Copies, LateOnes, obs
<1>5. Telling'
  BY <1>1 DEF ControlTypes, Telling, Ending, obs
<1>6. NobodyForgotten'
  <2>1. Range(todo[e]) = {}
    BY <1>1 DEF Range
  <2> QED
    BY <1>1, <2>1 DEF ControlTypes, NobodyForgotten, Ending, obs
<1>7. ContractStep
  BY <1>1, AllUntouched DEF obs
<1> QED
  BY <1>2, <1>3, <1>4, <1>5, <1>6, <1>7

\* Whose turn it is, is in the list of one emitter that has the mutex: nobody
\* else is calling.
LEMMA NobodyInside ==
  ASSUME Setup, Control, NEW e \in Emitters, pc[e] \in {"broadcast", "end_all"}, todo[e] # <<>>
  PROVE  EmittingTo(Head(todo[e])) = {}
<1> DEFINE o == Head(todo[e])
<1> USE DEF Control, Setup
<1>1. o \in Observers /\ o \in Range(todo[e])
  BY First DEF ControlTypes, Copies
<1>2. \A f \in Emitters : f \notin inside[o]
  BY <1>1 DEF LockHeld, EmitterInside, Locked, InCall
<1>3. o \in inside[o] => sub[o] = "in_set_upstream"
  BY <1>1 DEF SelfInside, Copies, Joined
<1>4. inside[o] \subseteq Emitters \union Observers
  BY <1>1 DEF ControlTypes
<1> QED
  BY <1>1, <1>2, <1>3, <1>4 DEF EmittingTo, SelfInside

\* An emitter that is in a callback is the only one in it.
LEMMA OneInside ==
  ASSUME Setup, Control, NEW e \in Emitters, pc[e] \in InCall
  PROVE  EmittingTo(Head(todo[e])) = {e}
<1> DEFINE o == Head(todo[e])
<1> USE DEF Control, Setup
<1>1. o \in Observers /\ o \in Range(todo[e]) /\ e \in inside[o]
  BY First DEF ControlTypes, Copies, EmitterInside
<1>2. \A f \in Emitters : f \in inside[o] => f = e
  BY <1>1 DEF LockHeld, EmitterInside, Locked, InCall
<1>3. o \in inside[o] => sub[o] = "in_set_upstream"
  BY <1>1 DEF SelfInside, Copies, Joined
<1>4. inside[o] \subseteq Emitters \union Observers /\ e \notin Observers
  BY <1>1 DEF ControlTypes
<1> QED
  BY <1>1, <1>2, <1>3, <1>4 DEF EmittingTo, SelfInside

\* An observer that was closed meanwhile is passed over.
LEMMA SkipKeeps ==
  ASSUME Setup, Control, NEW e \in Emitters, pc[e] \in {"broadcast", "end_all"}, todo[e] # <<>>,
         observer[Head(todo[e])] # "open", todo' = [todo EXCEPT ![e] = Tail(@)],
         UNCHANGED <<subject, pc, sub, upstream, observer, inside>>
  PROVE  Control' /\ ContractStep
<1> USE DEF Control, Setup
<1>0. /\ Tail(todo[e]) \in Seq(Observers) /\ IsInjective(Tail(todo[e]))
      /\ Range(todo[e]) = {Head(todo[e])} \union Range(Tail(todo[e]))
  BY First DEF ControlTypes, Copies
<1>2. ControlTypes'
  BY <1>0 DEF ControlTypes, subject
<1>3. LockHeld' /\ EmitterInside' /\ SelfInside'
  BY <1>0 DEF ControlTypes, LockHeld, EmitterInside, SelfInside, Locked, InCall, subject
<1>4. Lists' /\ Copies' /\ LateOnes'
  BY <1>0 DEF ControlTypes, Lists, Copies, LateOnes, subject
<1>5. Telling'
  BY <1>0 DEF ControlTypes, Telling, Ending, subject
<1>6. NobodyForgotten'
  <2>1. \A f \in Emitters, o \in Observers :
          observer[o] = "open" /\ o \in Range(todo[f]) => o \in Range(todo'[f])
    BY <1>0 DEF ControlTypes
  <2> QED
    BY <2>1 DEF NobodyForgotten, subject
<1>7. ContractStep
  BY AllUntouched
<1> QED
  BY <1>2, <1>3, <1>4, <1>5, <1>6, <1>7

\* The observer whose turn it is, is called.
LEMMA BeginKeeps ==
  ASSUME Setup, Control, NEW e \in Emitters, todo[e] # <<>>,
         observer[Head(todo[e])] = "open",
         inside' = [inside EXCEPT ![Head(todo[e])] = @ \union {e}],
         \/ pc[e] = "broadcast" /\ pc' = [pc EXCEPT ![e] = "in_next"] /\ UNCHANGED observer
         \/ /\ pc[e] = "end_all" /\ pc' = [pc EXCEPT ![e] = "in_terminal"]
            /\ observer' = [observer EXCEPT ![Head(todo[e])] = m_state],
         UNCHANGED <<subject, todo, sub, upstream>>
  PROVE  Control' /\ ContractStep
<1> DEFINE o == Head(todo[e])
<1> USE DEF Control, Setup
<1>1. o \in Observers /\ o \in Range(todo[e])
  BY First DEF ControlTypes, Copies
<1>2. pc[e] = "end_all" => m_state \in Terminals /\ m_state # "open"
  BY DEF Telling, Ending
<1>3. ControlTypes'
  <2>1. pc' \in [Emitters -> PcValues]
    BY DEF ControlTypes, PcValues
  <2>2. observer' \in [Observers -> {"open", "disposed"} \union Terminals]
    BY <1>2 DEF ControlTypes
  <2>3. inside' \in [Observers -> SUBSET (Emitters \union Observers)]
    BY <1>1 DEF ControlTypes
  <2> QED
    BY <2>1, <2>2, <2>3 DEF ControlTypes, subject
<1>4. LockHeld'
  BY DEF ControlTypes, LockHeld, Locked, subject
<1>5. EmitterInside' /\ SelfInside'
  BY <1>1 DEF ControlTypes, EmitterInside, SelfInside, InCall
<1>6. Lists' /\ Copies'
  BY DEF Lists, Copies, subject
<1>7. LateOnes'
  BY <1>2 DEF ControlTypes, LateOnes, subject
<1>8. Telling'
  <2>1. \A f \in Emitters : pc'[f] = "in_terminal" => f = e /\ pc[e] = "end_all"
    BY DEF ControlTypes, LockHeld, Locked
  <2>2. pc[e] = "end_all" => observer'[o] # "open"
    BY <1>1, <1>2 DEF ControlTypes
  <2>3. \A f \in Emitters : pc'[f] \in Ending => pc[f] \in Ending
    BY DEF ControlTypes, Ending
  <2> QED
    BY <2>1, <2>2, <2>3 DEF Telling, subject
<1>9. NobodyForgotten'
  BY <1>1, <1>2 DEF ControlTypes, NobodyForgotten, Ending, subject
<1>10. ContractStep
  <2> SUFFICES ASSUME NEW p \in Observers
               PROVE  Contract(p)!Next \/ UNCHANGED <<EmittingTo(p), Ended(p)>>
    BY DEF ContractStep
  <2>1. CASE p # o
    BY <2>1, <1>1, Untouched DEF ControlTypes
  <2>2. CASE p = o
    <3>1. EmittingTo(p) = {} /\ ~Ended(p)
      BY <2>2, NobodyInside DEF Ended
    <3>2. EmittingTo(p)' = {e}
      BY <2>2, <1>1, <3>1 DEF ControlTypes, EmittingTo
    <3>3. pc[e] = "broadcast" => Contract(p)!OnNext(e)
      BY <3>1, <3>2 DEF Contract!OnNext, Ended
    <3>4. pc[e] = "end_all" => Contract(p)!OnTerminal(e)
      BY <3>1, <3>2, <2>2, <1>1, <1>2 DEF Contract!OnTerminal, Ended, ControlTypes
    <3> QED
      BY <3>3, <3>4 DEF Contract!Next
  <2> QED
    BY <2>1, <2>2
<1> QED
  BY <1>3, <1>4, <1>5, <1>6, <1>7, <1>8, <1>9, <1>10

\* ... and returns.
LEMMA EndKeeps ==
  ASSUME Setup, Control, NEW e \in Emitters,
         inside' = [inside EXCEPT ![Head(todo[e])] = @ \ {e}],
         todo' = [todo EXCEPT ![e] = Tail(@)],
         \/ pc[e] = "in_next" /\ pc' = [pc EXCEPT ![e] = "broadcast"]
         \/ pc[e] = "in_terminal" /\ pc' = [pc EXCEPT ![e] = "end_all"],
         UNCHANGED <<subject, sub, upstream, observer>>
  PROVE  Control' /\ ContractStep
<1> DEFINE o == Head(todo[e])
<1> USE DEF Control, Setup
<1>0. todo[e] # <<>>
  BY DEF EmitterInside, InCall
<1>1. /\ o \in Observers /\ Tail(todo[e]) \in Seq(Observers) /\ IsInjective(Tail(todo[e]))
      /\ Range(todo[e]) = {o} \union Range(Tail(todo[e]))
  BY <1>0, First DEF ControlTypes, Copies
<1>2. ControlTypes'
  <2>1. pc' \in [Emitters -> PcValues]
    BY DEF ControlTypes, PcValues
  <2>2. inside' \in [Observers -> SUBSET (Emitters \union Observers)]
    BY <1>1 DEF ControlTypes
  <2> QED
    BY <1>1, <2>1, <2>2 DEF ControlTypes, subject
<1>3. LockHeld'
  BY DEF ControlTypes, LockHeld, Locked, subject
<1>4. EmitterInside' /\ SelfInside'
  BY <1>1 DEF ControlTypes, EmitterInside, SelfInside, InCall, LockHeld, Locked
<1>5. Lists' /\ Copies' /\ LateOnes'
  BY <1>1 DEF ControlTypes, Lists, Copies, LateOnes, subject
<1>6. Telling'
  BY <1>0, <1>1 DEF ControlTypes, Telling, Ending, subject
<1>7. NobodyForgotten'
  <2>1. \A f \in Emitters, p \in Observers :
          observer[p] = "open" /\ pc[f] \in Ending /\ p \in Range(todo[f])
            => pc'[f] \in Ending /\ p \in Range(todo'[f])
    BY <1>1 DEF ControlTypes, Telling, Ending
  <2> QED
    BY <2>1 DEF NobodyForgotten, subject
<1>8. ContractStep
  <2> SUFFICES ASSUME NEW p \in Observers
               PROVE  Contract(p)!Next \/ UNCHANGED <<EmittingTo(p), Ended(p)>>
    BY DEF ContractStep
  <2>1. CASE p # o
    BY <2>1, <1>1, Untouched DEF ControlTypes
  <2>2. CASE p = o
    <3>1. EmittingTo(p) = {e}
      BY <2>2, OneInside DEF InCall
    <3>2. EmittingTo(p)' = {} /\ UNCHANGED Ended(p)
      BY <2>2, <1>1, <3>1 DEF ControlTypes, EmittingTo, Ended
    <3>3. Contract(p)!Return(e)
      BY <3>1, <3>2 DEF Contract!Return
    <3> QED
      BY <3>3 DEF Contract!Next
  <2> QED
    BY <2>1, <2>2
<1> QED
  BY <1>2, <1>3, <1>4, <1>5, <1>6, <1>7, <1>8

\* on_next of an observer begins, or passes over one that is closed.
LEMMA NextEnterKeeps ==
  ASSUME Setup, Control, NEW e \in Emitters, NextEnter(e)
  PROVE  Control' /\ ContractStep
<1>1. CASE observer[Head(todo[e])] = "open"
  BY <1>1, BeginKeeps DEF NextEnter, Goto
<1>2. CASE observer[Head(todo[e])] # "open"
  BY <1>2, SkipKeeps DEF NextEnter
<1> QED
  BY <1>1, <1>2

\* So does the terminal call of an observer.
LEMMA TerminalEnterKeeps ==
  ASSUME Setup, Control, NEW e \in Emitters, TerminalEnter(e)
  PROVE  Control' /\ ContractStep
<1>1. CASE observer[Head(todo[e])] = "open"
  BY <1>1, BeginKeeps DEF TerminalEnter, Goto
<1>2. CASE observer[Head(todo[e])] # "open"
  BY <1>2, SkipKeeps DEF TerminalEnter
<1> QED
  BY <1>1, <1>2

\* A callback returns.
LEMMA LeaveKeeps ==
  ASSUME Setup, Control, NEW e \in Emitters, NextLeave(e) \/ TerminalLeave(e)
  PROVE  Control' /\ ContractStep
BY EndKeeps DEF NextLeave, TerminalLeave, Goto

\* The emitter that ends the subject takes the list, and nobody else has.
LEMMA TerminalExchangeKeeps ==
  ASSUME Setup, Control, NEW e \in Emitters, TerminalExchange(e)
  PROVE  Control' /\ ContractStep
<1> USE DEF Control, Setup
<1>1. /\ pc[e] \in Terminals /\ pc' = [pc EXCEPT ![e] = "end_all"]
      /\ m_serialized = NoOne /\ m_serialized' = e
      /\ todo' = [todo EXCEPT ![e] = m_observers]
      /\ UNCHANGED obs
  BY DEF TerminalExchange, Goto
<1>2. \/ m_state = "observers" /\ m_state' = pc[e] /\ m_observers' = <<>>
      \/ m_state # "observers" /\ m_observers = <<>> /\ UNCHANGED <<m_state, m_observers>>
  BY DEF TerminalExchange, Exchange, Lists
<1>3. ControlTypes'
  <2>1. pc' \in [Emitters -> PcValues]
    BY <1>1 DEF ControlTypes, PcValues
  <2>2. todo' \in [Emitters -> Seq(Observers)]
    BY <1>1 DEF ControlTypes
  <2>3. m_state' \in {"observers", "disposed"} \union Terminals /\ m_observers' \in Seq(Observers)
    <3>1. m_state' \in {"observers", "disposed"} \union Terminals
      BY <1>1, <1>2 DEF ControlTypes
    <3>2. m_observers' = <<>> \/ m_observers' = m_observers
      BY <1>2
    <3>3. <<>> \in Seq(Observers) /\ m_observers \in Seq(Observers)
      BY DEF ControlTypes
    <3> QED
      BY <3>1, <3>2, <3>3
  <2> QED
    BY <1>1, <2>1, <2>2, <2>3 DEF ControlTypes, obs
<1>4. LockHeld' /\ EmitterInside' /\ SelfInside'
  BY <1>1 DEF ControlTypes, LockHeld, EmitterInside, SelfInside, Locked, InCall, obs
<1>5. Lists'
  BY <1>1, <1>2 DEF Lists, obs, IsInjective, Range
<1>6. Copies'
  BY <1>1 DEF ControlTypes, Copies, Lists, obs
<1>7. LateOnes'
  BY <1>1, <1>2 DEF LateOnes, obs
<1>8. Telling'
  BY <1>1, <1>2 DEF ControlTypes, Telling, Ending, obs
<1>9. NobodyForgotten'
  <2> SUFFICES ASSUME NEW o \in Observers, sub[o] \in Joined, observer[o] = "open"
               PROVE  \/ m_state' = "disposed"
                      \/ \E f \in Emitters : pc'[f] \in Ending /\ o \in Range(todo'[f])
    BY <1>1 DEF NobodyForgotten, obs
  <2>1. CASE m_state = "observers" /\ o \in Range(m_observers)
    BY <1>1, <2>1 DEF ControlTypes, Ending
  <2>2. CASE m_state = "disposed"
    BY <1>2, <2>2
  <2>3. CASE \E f \in Emitters : pc[f] \in Ending /\ o \in Range(todo[f])
    BY <1>1, <2>3 DEF LockHeld, Locked, Ending
  <2> QED
    BY <2>1, <2>2, <2>3 DEF NobodyForgotten
<1>10. ContractStep
  BY <1>1, AllUntouched DEF obs
<1> QED
  BY <1>3, <1>4, <1>5, <1>6, <1>7, <1>8, <1>9, <1>10

\* The subject is disposed: the list is dropped, nobody is told.
LEMMA DisposeKeeps ==
  ASSUME Setup, Control, DisposeSubject
  PROVE  Control' /\ ContractStep
<1> USE DEF Control, Setup
<1>1. /\ m_state = "observers" /\ m_state' = "disposed" /\ m_observers' = <<>>
      /\ UNCHANGED <<m_serialized, pc, todo, sub, upstream, observer, inside>>
  BY DEF DisposeSubject, Exchange, emitter, obs
<1>2. ControlTypes'
  BY <1>1 DEF ControlTypes
<1>3. LockHeld' /\ EmitterInside' /\ SelfInside'
  BY <1>1 DEF LockHeld, EmitterInside, SelfInside
<1>4. Lists' /\ Copies'
  BY <1>1 DEF Lists, Copies, IsInjective, Range
<1>5. LateOnes' /\ Telling' /\ NobodyForgotten'
  BY <1>1 DEF LateOnes, Telling, NobodyForgotten
<1>6. ContractStep
  BY <1>1, AllUntouched
<1> QED
  BY <1>2, <1>3, <1>4, <1>5, <1>6

-----------------------------------------------------------------------------
(* ... and those of an observer.                                            *)

\* An observer joins the list, or finds that the subject has ended.
LEMMA SubscribeKeeps ==
  ASSUME Setup, Control, NEW o \in Observers, Subscribe(o)
  PROVE  Control' /\ ContractStep
<1> USE DEF Control, Setup
<1>1. /\ sub[o] = "new" /\ UNCHANGED <<m_state, m_serialized, pc, todo, upstream, observer, inside>>
      /\ \/ /\ m_state = "observers" /\ m_observers' = Append(m_observers, o)
            /\ sub' = [sub EXCEPT ![o] = "listed"]
         \/ /\ m_state = "disposed" /\ UNCHANGED m_observers
            /\ sub' = [sub EXCEPT ![o] = "refused"]
         \/ /\ m_state \in Terminals /\ UNCHANGED m_observers
            /\ sub' = [sub EXCEPT ![o] = "late"]
  BY DEF Subscribe, Become, ControlTypes, emitter
<1>2. /\ Append(m_observers, o) \in Seq(Observers)
      /\ Range(Append(m_observers, o)) = Range(m_observers) \union {o}
      /\ IsInjective(Append(m_observers, o))
  <2>1. o \notin Range(m_observers)
    BY <1>1 DEF Lists, Joined
  <2>2. m_observers \in Seq(Observers) /\ IsInjective(m_observers)
    BY DEF ControlTypes, Lists
  <2> QED
    BY <2>1, <2>2, Added
<1>3. ControlTypes'
  BY <1>1, <1>2 DEF ControlTypes, Joined
<1>4. LockHeld' /\ EmitterInside' /\ SelfInside'
  BY <1>1 DEF ControlTypes, LockHeld, EmitterInside, SelfInside
<1>j. \A p \in Observers : sub[p] \in Joined => sub'[p] \in Joined
  BY <1>1 DEF ControlTypes, Joined
<1>5. Lists'
  <2>1. CASE m_state = "observers" /\ m_observers' = Append(m_observers, o)
    <3>1. sub'[o] \in Joined
      BY <1>1, <2>1 DEF ControlTypes, Joined
    <3>2. \A p \in Range(m_observers) : p \in Observers /\ sub[p] \in Joined
      BY DEF ControlTypes, Lists, Range
    <3> QED
      BY <1>1, <1>2, <1>j, <2>1, <3>1, <3>2 DEF Lists
  <2>2. CASE m_state # "observers" /\ UNCHANGED m_observers
    BY <1>1, <1>j, <2>2 DEF Lists, Range
  <2> QED
    BY <1>1, <2>1, <2>2
<1>6. Copies'
  <2>1. \A e \in Emitters : \A p \in Range(todo[e]) : p \in Observers
    BY DEF ControlTypes, Range
  <2> QED
    BY <1>1, <1>j, <2>1 DEF Copies
<1>7. LateOnes' /\ Telling'
  BY <1>1 DEF ControlTypes, LateOnes, Telling
<1>8. NobodyForgotten'
  BY <1>1, <1>2 DEF ControlTypes, NobodyForgotten, Joined
<1>9. ContractStep
  <2> SUFFICES ASSUME NEW p \in Observers PROVE UNCHANGED <<EmittingTo(p), Ended(p)>>
    BY DEF ContractStep
  <2>1. o \notin inside[o]
    BY <1>1 DEF SelfInside
  <2> QED
    BY <1>1, <2>1 DEF ControlTypes, EmittingTo, Ended
<1> QED
  BY <1>3, <1>4, <1>5, <1>6, <1>7, <1>8, <1>9

\* set_upstream of an observer begins.
LEMMA UpstreamEnterKeeps ==
  ASSUME Setup, Control, NEW o \in Observers, UpstreamEnter(o)
  PROVE  Control' /\ ContractStep
<1> USE DEF Control, Setup
<1>1. /\ sub[o] = "listed" /\ sub' = [sub EXCEPT ![o] = "in_set_upstream"]
      /\ inside' = [inside EXCEPT ![o] = @ \union {o}]
      /\ UNCHANGED <<subject, pc, todo, upstream, observer>>
  BY DEF UpstreamEnter, Become, emitter
<1>2. ControlTypes'
  BY <1>1 DEF ControlTypes, Joined, subject
<1>3. LockHeld' /\ EmitterInside' /\ SelfInside'
  BY <1>1 DEF ControlTypes, LockHeld, EmitterInside, SelfInside, subject
<1>4. Lists' /\ Copies'
  BY <1>1 DEF ControlTypes, Lists, Copies, Joined, subject
<1>5. LateOnes' /\ Telling' /\ NobodyForgotten'
  BY <1>1 DEF ControlTypes, LateOnes, Telling, NobodyForgotten, Joined, subject
<1>6. ContractStep
  <2> SUFFICES ASSUME NEW p \in Observers PROVE UNCHANGED <<EmittingTo(p), Ended(p)>>
    BY DEF ContractStep
  <2>1. o \notin inside[o] /\ inside[o] \subseteq Emitters \union Observers
    BY <1>1 DEF ControlTypes, SelfInside
  <2>2. CASE p = o
    BY <1>1, <2>1, <2>2 DEF ControlTypes, EmittingTo, Ended
  <2>3. CASE p # o
    BY <1>1, <2>3, Untouched DEF ControlTypes
  <2> QED
    BY <2>2, <2>3
<1> QED
  BY <1>2, <1>3, <1>4, <1>5, <1>6

\* set_upstream returns; an observer that is closed by then leaves the list.
LEMMA UpstreamLeaveKeeps ==
  ASSUME Setup, Control, NEW o \in Observers, UpstreamLeave(o)
  PROVE  Control' /\ ContractStep
<1> USE DEF Control, Setup
<1>1. /\ sub[o] = "in_set_upstream" /\ sub' = [sub EXCEPT ![o] = "subscribed"]
      /\ inside' = [inside EXCEPT ![o] = @ \ {o}]
      /\ \/ observer[o] = "open" /\ upstream' = upstream \union {o} /\ UNCHANGED m_observers
         \/ observer[o] # "open" /\ m_observers' = Without(m_observers, o) /\ UNCHANGED upstream
      /\ UNCHANGED <<m_state, m_serialized, pc, todo, observer>>
  BY DEF UpstreamLeave, Become, emitter
<1>2. /\ m_observers' \in Seq(Observers) /\ IsInjective(m_observers')
      /\ Range(m_observers') \subseteq Range(m_observers)
      /\ \A p \in Range(m_observers) : observer[p] = "open" => p \in Range(m_observers')
      /\ m_observers = <<>> => m_observers' = <<>>
  <2>1. CASE observer[o] = "open"
    BY <1>1, <2>1 DEF ControlTypes, Lists
  <2>2. CASE observer[o] # "open"
    <3>1. m_observers = <<>> => Without(m_observers, o) = <<>>
      BY DEF Without, Contains
    <3> QED
      BY <1>1, <2>2, <3>1, OneLess DEF ControlTypes, Lists
  <2> QED
    BY <2>1, <2>2
<1>3. ControlTypes'
  BY <1>1, <1>2 DEF ControlTypes, Joined
<1>4. LockHeld' /\ EmitterInside' /\ SelfInside'
  BY <1>1 DEF ControlTypes, LockHeld, EmitterInside, SelfInside
<1>5. Lists' /\ Copies'
  BY <1>1, <1>2 DEF ControlTypes, Lists, Copies, Joined
<1>6. LateOnes' /\ Telling'
  BY <1>1 DEF ControlTypes, LateOnes, Telling
<1>7. NobodyForgotten'
  BY <1>1, <1>2 DEF ControlTypes, NobodyForgotten, Joined
<1>8. ContractStep
  <2> SUFFICES ASSUME NEW p \in Observers PROVE UNCHANGED <<EmittingTo(p), Ended(p)>>
    BY DEF ContractStep
  <2> QED
    BY <1>1 DEF ControlTypes, EmittingTo, Ended
<1> QED
  BY <1>3, <1>4, <1>5, <1>6, <1>7, <1>8

\* Who comes late is on no list, so nobody else calls.
LEMMA LateAlone ==
  ASSUME Setup, Control, NEW o \in Observers, sub[o] \in {"late", "in_late"}
  PROVE  inside[o] \subseteq {o} /\ (sub[o] = "late" => inside[o] = {})
<1> USE DEF Control, Setup
<1>1. ASSUME NEW e \in Emitters, e \in inside[o] PROVE FALSE
  <2>1. todo[e] # <<>> /\ Head(todo[e]) = o
    BY <1>1 DEF EmitterInside
  <2>2. o \in Range(todo[e])
    BY <2>1, First DEF ControlTypes, Copies
  <2> QED
    BY <2>2 DEF Copies, Joined
<1>2. inside[o] \subseteq Emitters \union Observers
  BY DEF ControlTypes
<1> QED
  BY <1>1, <1>2 DEF SelfInside

\* An observer that came too late is told of the end.
LEMMA LateEnterKeeps ==
  ASSUME Setup, Control, NEW o \in Observers, LateEnter(o)
  PROVE  Control' /\ ContractStep
<1> USE DEF Control, Setup
<1>1. /\ sub[o] = "late" /\ sub' = [sub EXCEPT ![o] = "in_late"]
      /\ \/ /\ observer[o] = "open" /\ observer' = [observer EXCEPT ![o] = m_state]
            /\ inside' = [inside EXCEPT ![o] = @ \union {o}]
         \/ observer[o] # "open" /\ UNCHANGED <<observer, inside>>
      /\ UNCHANGED <<subject, pc, todo, upstream>>
  BY DEF LateEnter, Become, emitter
<1>2. m_state \in Terminals /\ m_state # "open"
  BY <1>1 DEF LateOnes
<1>3. ControlTypes'
  <2>1. observer' \in [Observers -> {"open", "disposed"} \union Terminals]
    BY <1>1, <1>2 DEF ControlTypes
  <2>2. inside' \in [Observers -> SUBSET (Emitters \union Observers)]
    BY <1>1 DEF ControlTypes
  <2>3. sub' \in [Observers -> Joined \union {"new", "late", "in_late", "refused"}]
    BY <1>1 DEF ControlTypes
  <2> QED
    BY <1>1, <2>1, <2>2, <2>3 DEF ControlTypes, subject
<1>4. LockHeld' /\ EmitterInside' /\ SelfInside'
  BY <1>1 DEF ControlTypes, LockHeld, EmitterInside, SelfInside, subject
<1>5. Lists' /\ Copies'
  BY <1>1 DEF ControlTypes, Lists, Copies, Joined, subject
<1>6. LateOnes'
  BY <1>1, <1>2 DEF ControlTypes, LateOnes, subject
<1>7. Telling'
  <2>1. observer[o] = "open" => observer'[o] # "open"
    BY <1>1, <1>2 DEF ControlTypes
  <2>2. \A e \in Emitters : pc[e] = "in_terminal" => Head(todo[e]) # o /\ Head(todo[e]) \in Observers
    BY <1>1, LateAlone, First DEF ControlTypes, Copies, EmitterInside, InCall
  <2> QED
    BY <1>1, <2>1, <2>2 DEF ControlTypes, Telling, subject
<1>8. NobodyForgotten'
  BY <1>1, <1>2 DEF ControlTypes, NobodyForgotten, Joined, subject
<1>9. ContractStep
  <2> SUFFICES ASSUME NEW p \in Observers
               PROVE  Contract(p)!Next \/ UNCHANGED <<EmittingTo(p), Ended(p)>>
    BY DEF ContractStep
  <2>1. CASE p # o
    BY <1>1, <2>1, Untouched DEF ControlTypes
  <2>2. CASE p = o /\ observer[o] # "open"
    BY <1>1, <2>2 DEF ControlTypes, EmittingTo, Ended
  <2>3. CASE p = o /\ observer[o] = "open"
    <3>1. EmittingTo(p) = {} /\ ~Ended(p)
      BY <1>1, <2>3, LateAlone DEF EmittingTo, Ended
    <3>2. EmittingTo(p)' = {p} /\ Ended(p)'
      BY <1>1, <1>2, <2>3, LateAlone DEF ControlTypes, EmittingTo, Ended
    <3>3. Contract(p)!OnTerminal(p)
      BY <3>1, <3>2 DEF Contract!OnTerminal
    <3> QED
      BY <3>3 DEF Contract!Next
  <2> QED
    BY <2>1, <2>2, <2>3
<1> QED
  BY <1>3, <1>4, <1>5, <1>6, <1>7, <1>8, <1>9

\* It has been told.
LEMMA LateLeaveKeeps ==
  ASSUME Setup, Control, NEW o \in Observers, LateLeave(o)
  PROVE  Control' /\ ContractStep
<1> USE DEF Control, Setup
<1>1. /\ sub[o] = "in_late" /\ sub' = [sub EXCEPT ![o] = "subscribed"]
      /\ inside' = [inside EXCEPT ![o] = @ \ {o}]
      /\ UNCHANGED <<subject, pc, todo, upstream, observer>>
  BY DEF LateLeave, Become, emitter
<1>2. ControlTypes'
  BY <1>1 DEF ControlTypes, Joined, subject
<1>3. LockHeld' /\ EmitterInside' /\ SelfInside'
  BY <1>1 DEF ControlTypes, LockHeld, EmitterInside, SelfInside, subject
<1>4. Lists' /\ Copies'
  BY <1>1 DEF ControlTypes, Lists, Copies, Joined, subject
<1>5. LateOnes' /\ Telling' /\ NobodyForgotten'
  BY <1>1 DEF ControlTypes, LateOnes, Telling, NobodyForgotten, Joined, subject
<1>6. ContractStep
  <2> SUFFICES ASSUME NEW p \in Observers
               PROVE  Contract(p)!Next \/ UNCHANGED <<EmittingTo(p), Ended(p)>>
    BY DEF ContractStep
  <2>1. CASE p # o
    BY <1>1, <2>1, Untouched DEF ControlTypes
  <2>2. CASE p = o
    <3>1. inside[o] = {o} \/ inside[o] = {}
      BY <1>1, LateAlone
    <3>2. EmittingTo(p) = inside[o] /\ EmittingTo(p)' = {} /\ UNCHANGED Ended(p)
      BY <1>1, <2>2, <3>1 DEF ControlTypes, EmittingTo, Ended
    <3>3. inside[o] = {o} => Contract(p)!Return(p)
      BY <2>2, <3>2 DEF Contract!Return
    <3> QED
      BY <3>1, <3>2, <3>3 DEF Contract!Next
  <2> QED
    BY <2>1, <2>2
<1> QED
  BY <1>2, <1>3, <1>4, <1>5, <1>6

\* An observer is disposed from outside.
LEMMA UnsubscribeKeeps ==
  ASSUME Setup, Control, NEW o \in Observers, Unsubscribe(o)
  PROVE  Control' /\ ContractStep
<1> USE DEF Control, Setup
<1>1. /\ observer[o] = "open" /\ observer' = [observer EXCEPT ![o] = "disposed"]
      /\ UNCHANGED <<subject, pc, todo, sub, upstream, inside>>
  BY DEF Unsubscribe, emitter
<1>2. ControlTypes'
  BY <1>1 DEF ControlTypes, subject
<1>3. LockHeld' /\ EmitterInside' /\ SelfInside'
  BY <1>1 DEF ControlTypes, LockHeld, EmitterInside, SelfInside, subject
<1>4. Lists' /\ Copies'
  BY <1>1 DEF ControlTypes, Lists, Copies, subject
<1>5. LateOnes' /\ NobodyForgotten'
  BY <1>1 DEF ControlTypes, LateOnes, NobodyForgotten, subject
<1>6. Telling'
  BY <1>1 DEF ControlTypes, Telling, subject
<1>7. ContractStep
  <2> SUFFICES ASSUME NEW p \in Observers PROVE UNCHANGED <<EmittingTo(p), Ended(p)>>
    BY DEF ContractStep
  <2> QED
    BY <1>1 DEF ControlTypes, EmittingTo, Ended
<1> QED
  BY <1>2, <1>3, <1>4, <1>5, <1>6, <1>7

\* What a disposed observer leaves behind is taken off the list.
LEMMA CleanupKeeps ==
  ASSUME Setup, Control, NEW o \in Observers, CleanupObservers(o)
  PROVE  Control' /\ ContractStep
<1> USE DEF Control, Setup
<1>1. /\ observer[o] # "open" /\ upstream' = upstream \ {o}
      /\ m_observers' = Without(m_observers, o)
      /\ UNCHANGED <<m_state, m_serialized, pc, todo, sub, observer, inside>>
  BY DEF CleanupObservers, emitter
<1>2. /\ m_observers' \in Seq(Observers) /\ IsInjective(m_observers')
      /\ Range(m_observers') = Range(m_observers) \ {o}
      /\ m_observers = <<>> => m_observers' = <<>>
  <2>1. m_observers = <<>> => Without(m_observers, o) = <<>>
    BY DEF Without, Contains
  <2> QED
    BY <1>1, <2>1, OneLess DEF ControlTypes, Lists
<1>3. ControlTypes'
  BY <1>1, <1>2 DEF ControlTypes
<1>4. LockHeld' /\ EmitterInside' /\ SelfInside'
  BY <1>1 DEF LockHeld, EmitterInside, SelfInside
<1>5. Lists' /\ Copies'
  BY <1>1, <1>2 DEF Lists, Copies
<1>6. LateOnes' /\ Telling' /\ NobodyForgotten'
  BY <1>1, <1>2 DEF LateOnes, Telling, NobodyForgotten
<1>7. ContractStep
  BY <1>1, AllUntouched
<1> QED
  BY <1>3, <1>4, <1>5, <1>6, <1>7

\* No step of a subject takes Control away, or calls an observer out of turn.
LEMMA ControlStep ==
  ASSUME Setup, Control, Next \/ UNCHANGED controlVars
  PROVE  Control' /\ ContractStep
<1>1. ASSUME NEW e \in Emitters, Emit(e) \/ Handle(e) PROVE Control' /\ ContractStep
  BY <1>1, NextCallKeeps, TerminalCallKeeps, NextSnapshotKeeps, SerializeNextKeeps, NextEnterKeeps,
     LeaveKeeps, NextReturnKeeps, TerminalExchangeKeeps, TerminalEnterKeeps DEF Emit, Handle
<1>2. ASSUME NEW o \in Observers, Subscribe(o) \/ OnSubscribe(o) \/ Unsubscribe(o)
      PROVE  Control' /\ ContractStep
  BY <1>2, SubscribeKeeps, UpstreamEnterKeeps, UpstreamLeaveKeeps, LateEnterKeeps, LateLeaveKeeps,
     UnsubscribeKeeps, CleanupKeeps DEF OnSubscribe
<1>3. ASSUME UNCHANGED controlVars PROVE Control' /\ ContractStep
  <2>1. Control'
    BY <1>3
    DEF Control, ControlTypes, LockHeld, EmitterInside, SelfInside, Lists, Copies, LateOnes, Telling,
        NobodyForgotten, controlVars, subject
  <2>2. ContractStep
    BY <1>3, AllUntouched DEF controlVars
  <2> QED
    BY <2>1, <2>2
<1> QED
  BY <1>1, <1>2, <1>3, DisposeKeeps DEF Next

\* Control holds at the start, and the contract begins.
LEMMA ControlInit ==
  ASSUME Setup, Init
  PROVE  Control /\ ContractInit
<1> USE DEF Setup, Init
<1>1. ControlTypes /\ LockHeld /\ EmitterInside /\ SelfInside
  BY DEF ControlTypes, LockHeld, EmitterInside, SelfInside, PcValues, Locked, InCall, Joined
<1>2. Lists /\ Copies
  BY DEF Lists, Copies, IsInjective, Range
<1>3. LateOnes /\ Telling /\ NobodyForgotten
  BY DEF LateOnes, Telling, NobodyForgotten, Ending, Joined
<1>4. ContractInit
  BY DEF ContractInit, Contract!Init, EmittingTo, Ended
<1> QED
  BY <1>1, <1>2, <1>3, <1>4 DEF Control

\* Control says that nobody misses the end.
LEMMA EndReachesAll ==
  ASSUME Setup, Control
  PROVE  NobodyMissesTheEnd
BY DEF Setup, Control, NobodyForgotten, NobodyMissesTheEnd, Joined, Ending

-----------------------------------------------------------------------------
(* Delivery: the values.                                                    *)

ValueTypes ==
  /\ val \in [Emitters -> Values \union {NoValue}]
  /\ got \in [Observers -> Seq(Values)]
  /\ due \in [Values -> SUBSET Observers]
  /\ calls \in 0..MaxCalls /\ used \subseteq 1..calls

\* Every emitter in on_next has a value of its own.
ValuesApart ==
  /\ \A e \in Emitters : val[e] # NoValue <=> InOnNext(e)
  /\ \A e \in Emitters : InOnNext(e) => val[e] \in used
  /\ \A e, f \in Emitters : InOnNext(e) /\ val[e] = val[f] => e = f
  /\ \A o \in Observers : Range(got[o]) \subseteq used /\ IsInjective(got[o])

\* Who is still to get the value of an emitter, besides the one being called.
Pending(e) == Range(IF pc[e] = "in_next" THEN Tail(todo[e]) ELSE todo[e])

\* A value that is being delivered was not delivered before, and is the newest.
NotYet ==
  \A e \in Emitters, o \in Observers :
    /\ pc[e] \in {"snapshot", "serialize"} => val[e] \notin Range(got[o])
    /\ InOnNext(e) /\ o \in Pending(e) => val[e] \notin Range(got[o])
    /\ InOnNext(e) /\ val[e] \in Range(got[o]) => got[o][Len(got[o])] = val[e]

\* Who was there when on_next was called has the value, or is on the list that
\* the emitter will copy, or on its copy.
Carries(e, v, o) ==
  val[e] = v /\ (pc[e] = "snapshot" \/ (pc[e] \in {"serialize", "broadcast", "in_next"} /\ o \in Pending(e)))
OnItsWay ==
  /\ \A v \in used : \A o \in due[v] : sub[o] = "subscribed"
  /\ m_state = "observers" =>
       \A v \in used : \A o \in due[v] : observer[o] = "open" =>
         v \in Range(got[o]) \/ \E e \in Emitters : Carries(e, v, o)

Delivery == ValueTypes /\ ValuesApart /\ NotYet /\ OnItsWay /\ SameOrder

\* Values that were used are values.
LEMMA UsedValues == Setup /\ ValueTypes => used \subseteq Values
BY DEF Setup, ValueTypes, Values

\* Steps outside on_next.
LEMMA Elsewhere ==
  ASSUME Setup, Delivery, UNCHANGED <<val, got, used, due>>, calls' \in calls..MaxCalls,
         \A e \in Emitters : InOnNext(e) \/ InOnNext(e)' => pc'[e] = pc[e] /\ todo'[e] = todo[e],
         \A o \in Observers : sub[o] = "subscribed" => sub'[o] = "subscribed",
         \A o \in Observers : observer'[o] = "open" => observer[o] = "open",
         m_state' = "observers" => m_state = "observers"
  PROVE  Delivery'
<1> USE DEF Delivery
<1>1. ValueTypes'
  BY DEF ValueTypes
<1>2. ValuesApart'
  <2>1. \A e \in Emitters : InOnNext(e) <=> InOnNext(e)'
    BY DEF InOnNext
  <2> QED
    BY <2>1 DEF ValuesApart
<1>3. \A e \in Emitters : InOnNext(e) \/ InOnNext(e)' => InOnNext(e) /\ UNCHANGED <<pc[e], Pending(e)>>
  BY DEF InOnNext, Pending
<1>4. NotYet'
  BY <1>3 DEF NotYet, InOnNext
<1>5. OnItsWay'
  <2>1. \A e \in Emitters, v \in used, o \in Observers : Carries(e, v, o) => Carries(e, v, o)'
    BY <1>3 DEF Carries, InOnNext
  <2>2. \A v \in used : due[v] \subseteq Observers
    BY UsedValues DEF ValueTypes
  <2> QED
    BY <2>1, <2>2 DEF OnItsWay
<1>6. SameOrder'
  BY DEF SameOrder
<1> QED
  BY <1>1, <1>2, <1>4, <1>5, <1>6

\* A new value has been nowhere, and is newer than all.
LEMMA NextCallDelivers ==
  ASSUME Setup, Control, Delivery, NEW e \in Emitters, NextCall(e)
  PROVE  Delivery'
<1> USE DEF Delivery, Setup
<1>v. PICK v : v = calls + 1
  OBVIOUS
<1>1. /\ pc[e] = "idle" /\ pc' = [pc EXCEPT ![e] = "snapshot"]
      /\ calls < MaxCalls /\ calls' = v /\ val' = [val EXCEPT ![e] = v] /\ used' = used \union {v}
      /\ due' = [due EXCEPT ![v] = {o \in Observers : sub[o] = "subscribed" /\ observer[o] = "open"}]
      /\ UNCHANGED <<m_state, todo, sub, observer, got>>
  BY <1>v DEF NextCall, Call, Goto, subject, obs
<1>2. v \in Values /\ v \notin used /\ v # NoValue /\ used \subseteq Values
  BY <1>v, <1>1 DEF ValueTypes, Values, NoValue
<1>p. pc \in [Emitters -> PcValues]
  BY DEF Control, ControlTypes
<1>f. /\ ~InOnNext(e) /\ InOnNext(e)' /\ pc'[e] = "snapshot" /\ val'[e] = v
      /\ \A f \in Emitters \ {e} : (InOnNext(f)' <=> InOnNext(f)) /\ UNCHANGED <<pc[f], val[f], Pending(f)>>
  BY <1>1, <1>p DEF InOnNext, Pending, ValueTypes
<1>3. ValueTypes'
  BY <1>v, <1>1, <1>2 DEF ValueTypes
<1>4. ValuesApart'
  BY <1>1, <1>2, <1>f DEF ValuesApart
<1>5. NotYet'
  <2>1. \A o \in Observers : v \notin Range(got'[o])
    BY <1>1, <1>2 DEF ValuesApart
  <2> QED
    BY <1>1, <1>f, <2>1 DEF NotYet
<1>6. OnItsWay'
  <2>1. \A w \in used, o \in Observers : \A f \in Emitters : Carries(f, w, o) => Carries(f, w, o)'
    BY <1>f DEF Carries, InOnNext
  <2>2. \A w \in used : due'[w] = due[w] /\ due[w] \subseteq Observers
    BY <1>1, <1>2 DEF ValueTypes
  <2>3. \A o \in due'[v] : sub[o] = "subscribed"
    BY <1>1, <1>2 DEF ValueTypes
  <2>4. \A o \in due'[v] : Carries(e, v, o)'
    BY <1>f DEF Carries
  <2>5. \A w \in used' : \A o \in due'[w] : sub'[o] = "subscribed"
    BY <1>1, <2>2, <2>3 DEF OnItsWay
  <2>6. ASSUME m_state' = "observers", NEW w \in used', NEW o \in due'[w], observer'[o] = "open",
               w \notin Range(got'[o])
        PROVE  \E f \in Emitters : Carries(f, w, o)'
    <3>1. CASE w = v
      BY <2>4, <2>6, <3>1
    <3>2. CASE w \in used
      <4>1. \E f \in Emitters : Carries(f, w, o)
        BY <1>1, <2>2, <2>6, <3>2 DEF OnItsWay
      <4> QED
        BY <2>1, <2>2, <2>6, <3>2, <4>1
    <3> QED
      BY <1>1, <2>6, <3>1, <3>2
  <2> QED
    BY <2>5, <2>6 DEF OnItsWay
<1>7. SameOrder'
  BY <1>1 DEF SameOrder
<1> QED
  BY <1>3, <1>4, <1>5, <1>6, <1>7

\* Who was there when on_next was called is on the copy of the list.
LEMMA NextSnapshotDelivers ==
  ASSUME Setup, Control, Delivery, NEW e \in Emitters, NextSnapshot(e)
  PROVE  Delivery'
<1> USE DEF Delivery, Setup
<1>1. /\ pc[e] = "snapshot" /\ UNCHANGED <<m_state, m_observers, sub, observer, got, used, due, calls>>
      /\ \/ /\ m_state = "observers" /\ todo' = [todo EXCEPT ![e] = m_observers]
            /\ pc' = [pc EXCEPT ![e] = "serialize"] /\ UNCHANGED val
         \/ /\ ~(m_state = "observers" /\ m_observers # <<>>)
            /\ UNCHANGED todo /\ pc' = [pc EXCEPT ![e] = "idle"] /\ val' = [val EXCEPT ![e] = NoValue]
  BY DEF NextSnapshot, Goto, subject, obs, history
<1>p. pc \in [Emitters -> PcValues] /\ todo \in [Emitters -> Seq(Observers)]
  BY DEF Control, ControlTypes
<1>f. /\ InOnNext(e) /\ NoValue \notin Values
      /\ \A f \in Emitters \ {e} : (InOnNext(f)' <=> InOnNext(f)) /\ UNCHANGED <<pc[f], val[f], Pending(f)>>
  BY <1>1, <1>p DEF InOnNext, Pending, ValueTypes, Values, NoValue
<1>g. \/ pc'[e] = "serialize" /\ val'[e] = val[e] /\ InOnNext(e)' /\ Pending(e)' = Range(m_observers)
      \/ pc'[e] = "idle" /\ val'[e] = NoValue /\ ~InOnNext(e)'
  BY <1>1, <1>p DEF InOnNext, Pending, ValueTypes
<1>3. ValueTypes'
  BY <1>1 DEF ValueTypes
<1>4. ValuesApart'
  <2>1. \A f \in Emitters : InOnNext(f)' => InOnNext(f) /\ val'[f] = val[f]
    BY <1>f, <1>g
  <2>2. \A f \in Emitters : val'[f] # NoValue <=> InOnNext(f)'
    BY <1>f, <1>g DEF ValuesApart
  <2> QED
    BY <1>1, <2>1, <2>2 DEF ValuesApart
<1>5. NotYet'
  BY <1>1, <1>f, <1>g DEF NotYet
<1>6. OnItsWay'
  <2> SUFFICES ASSUME m_state = "observers", NEW v \in used, NEW o \in due[v], observer[o] = "open",
                      v \notin Range(got[o])
               PROVE  \E f \in Emitters : Carries(f, v, o)'
    BY <1>1 DEF OnItsWay
  <2>1. o \in Observers /\ o \in Range(m_observers)
    <3>1. o \in Observers /\ sub[o] = "subscribed"
      BY UsedValues DEF OnItsWay, ValueTypes
    <3>2. \A f \in Emitters : pc[f] \in Ending /\ o \in Range(todo[f]) => m_state \in Terminals
      BY DEF Control, Telling, Range
    <3> QED
      BY <3>1, <3>2 DEF Control, NobodyForgotten, Joined
  <2>2. PICK f \in Emitters : Carries(f, v, o)
    BY DEF OnItsWay
  <2>3. CASE f = e
    <3>1. m_observers # <<>>
      BY <2>1 DEF Range
    <3>2. pc'[e] = "serialize"
      BY <1>1, <1>p, <3>1
    <3>3. val'[e] = v /\ o \in Pending(e)'
      BY <1>g, <2>1, <2>2, <2>3, <3>2 DEF Carries
    <3> QED
      BY <2>3, <3>2, <3>3 DEF Carries
  <2>4. CASE f # e
    BY <1>f, <2>2, <2>4 DEF Carries
  <2> QED
    BY <2>3, <2>4
<1>7. SameOrder'
  BY <1>1 DEF SameOrder
<1> QED
  BY <1>3, <1>4, <1>5, <1>6, <1>7

\* Waiting for the mutex changes nothing about who is to be called.
LEMMA SerializeNextDelivers ==
  ASSUME Setup, Control, Delivery, NEW e \in Emitters, SerializeNext(e)
  PROVE  Delivery'
<1> USE DEF Delivery, Setup
<1>1. /\ pc[e] = "serialize" /\ pc' = [pc EXCEPT ![e] = "broadcast"]
      /\ UNCHANGED <<m_state, todo, val, sub, observer, got, used, due, calls>>
  BY DEF SerializeNext, Goto, obs, history
<1>p. pc \in [Emitters -> PcValues]
  BY DEF Control, ControlTypes
<1>f. /\ \A f \in Emitters : (InOnNext(f)' <=> InOnNext(f)) /\ UNCHANGED <<val[f], Pending(f)>>
      /\ \A f \in Emitters \ {e} : UNCHANGED pc[f]
      /\ pc'[e] = "broadcast"
  BY <1>1, <1>p DEF InOnNext, Pending
<1>3. ValueTypes'
  BY <1>1 DEF ValueTypes
<1>4. ValuesApart'
  BY <1>1, <1>f DEF ValuesApart
<1>5. NotYet'
  BY <1>1, <1>f DEF NotYet
<1>6. OnItsWay'
  <2>1. \A f \in Emitters, v \in used, o \in Observers : Carries(f, v, o) => Carries(f, v, o)'
    BY <1>1, <1>f DEF Carries
  <2>2. \A v \in used : due[v] \subseteq Observers
    BY UsedValues DEF ValueTypes
  <2> QED
    BY <1>1, <2>1, <2>2 DEF OnItsWay
<1>7. SameOrder'
  BY <1>1 DEF SameOrder
<1> QED
  BY <1>3, <1>4, <1>5, <1>6, <1>7

\* The observer whose turn it is has not had the value; those who have it had it
\* last, so that all of them have it in the same place.
LEMMA NextBeginDelivers ==
  ASSUME Setup, Control, Delivery, NEW e \in Emitters, NextEnter(e), observer[Head(todo[e])] = "open"
  PROVE  Delivery'
<1> USE DEF Delivery, Setup
<1>v. PICK o, v : o = Head(todo[e]) /\ v = val[e]
  OBVIOUS
<1>1. /\ pc[e] = "broadcast" /\ todo[e] # <<>> /\ pc' = [pc EXCEPT ![e] = "in_next"]
      /\ got' = [got EXCEPT ![o] = Append(@, v)]
      /\ UNCHANGED <<m_state, todo, val, sub, observer, used, due, calls>>
  BY <1>v DEF NextEnter, Goto, subject, history
<1>2. /\ o \in Observers /\ Range(todo[e]) = {o} \union Range(Tail(todo[e])) /\ o \notin Range(Tail(todo[e]))
      /\ pc \in [Emitters -> PcValues]
  BY <1>v, <1>1, First DEF Control, ControlTypes, Copies
<1>3. \A f \in Emitters \ {e} : pc[f] \notin {"broadcast", "in_next"}
  BY <1>1 DEF Control, LockHeld, Locked
<1>4. InOnNext(e) /\ Pending(e) = Range(todo[e]) /\ v \in used /\ v \in Values /\ v \notin Range(got[o])
  <2>1. InOnNext(e) /\ Pending(e) = Range(todo[e])
    BY <1>1 DEF InOnNext, Pending
  <2> QED
    BY <1>v, <1>2, <2>1, UsedValues DEF ValuesApart, NotYet
<1>5. /\ got[o] \in Seq(Values) /\ IsInjective(got[o]) /\ Range(got[o]) \subseteq used
      /\ got'[o] = Append(got[o], v) /\ \A p \in Observers \ {o} : got'[p] = got[p]
  BY <1>1, <1>2 DEF ValueTypes, ValuesApart
<1>6. /\ got'[o] \in Seq(Values) /\ IsInjective(got'[o]) /\ Range(got'[o]) = Range(got[o]) \union {v}
  BY <1>4, <1>5, Added
<1>7. Len(got'[o]) = Len(got[o]) + 1 /\ got'[o][Len(got'[o])] = v
  BY <1>4, <1>5
<1>f. /\ \A f \in Emitters : (InOnNext(f)' <=> InOnNext(f)) /\ UNCHANGED val[f]
      /\ \A f \in Emitters \ {e} : UNCHANGED <<pc[f], Pending(f)>>
      /\ pc'[e] = "in_next" /\ Pending(e)' = Range(Tail(todo[e]))
  BY <1>1, <1>2 DEF InOnNext, Pending
<1>8. ValueTypes'
  BY <1>1, <1>2, <1>4, <1>5, <1>6 DEF ValueTypes
<1>9. ValuesApart'
  <2>1. \A p \in Observers : Range(got'[p]) \subseteq used /\ IsInjective(got'[p])
    BY <1>4, <1>5, <1>6 DEF ValuesApart
  <2> QED
    BY <1>1, <1>f, <2>1 DEF ValuesApart
<1>10. NotYet'
  <2> SUFFICES ASSUME NEW f \in Emitters, NEW p \in Observers
               PROVE  /\ pc'[f] \in {"snapshot", "serialize"} => val[f] \notin Range(got'[p])
                      /\ InOnNext(f)' /\ p \in Pending(f)' => val[f] \notin Range(got'[p])
                      /\ InOnNext(f)' /\ val[f] \in Range(got'[p]) => got'[p][Len(got'[p])] = val[f]
    BY <1>f DEF NotYet
  <2>1. CASE f = e
    <3>1. pc'[f] \notin {"snapshot", "serialize"}
      BY <1>f, <2>1
    <3>2. p \in Pending(f)' => p # o /\ p \in Pending(e)
      BY <1>2, <1>4, <1>f, <2>1
    <3>3. val[f] = v
      BY <1>v, <2>1
    <3>4. CASE p = o
      BY <1>7, <3>1, <3>2, <3>3, <3>4
    <3>5. CASE p # o
      BY <1>v, <1>4, <1>5, <2>1, <3>1, <3>2, <3>5 DEF NotYet
    <3> QED
      BY <3>4, <3>5
  <2>2. CASE f # e
    <3>1. InOnNext(f)' => InOnNext(f) /\ pc[f] \in {"snapshot", "serialize"}
      BY <1>3, <1>f, <2>2 DEF InOnNext
    <3>2. InOnNext(f) => val[f] # v
      BY <1>v, <1>4, <2>2 DEF ValuesApart
    <3>3. InOnNext(f)' => val[f] \notin Range(got[p])
      BY <3>1 DEF NotYet
    <3>4. InOnNext(f)' => val[f] \notin Range(got'[p])
      BY <1>5, <1>6, <3>1, <3>2, <3>3
    <3>5. pc'[f] \in {"snapshot", "serialize"} => InOnNext(f)'
      BY DEF InOnNext
    <3> QED
      BY <3>4, <3>5
  <2> QED
    BY <2>1, <2>2
<1>11. OnItsWay'
  <2> SUFFICES ASSUME m_state = "observers", NEW w \in used, NEW p \in due[w], observer[p] = "open",
                      w \notin Range(got'[p])
               PROVE  \E f \in Emitters : Carries(f, w, p)'
    BY <1>1 DEF OnItsWay
  <2>1. p \in Observers
    BY UsedValues DEF ValueTypes
  <2>2. w \notin Range(got[p])
    BY <1>5, <1>6, <2>1
  <2>3. PICK f \in Emitters : Carries(f, w, p)
    BY <2>2 DEF OnItsWay
  <2>4. CASE f = e
    <3>1. w = v /\ p \in Pending(e)
      BY <1>v, <1>1, <2>3, <2>4 DEF Carries
    <3>2. p # o
      BY <1>6, <3>1
    <3>3. p \in Pending(e)' /\ pc'[e] = "in_next" /\ val'[e] = w
      BY <1>v, <1>1, <1>2, <1>4, <1>f, <3>1, <3>2
    <3> QED
      BY <3>3 DEF Carries
  <2>5. CASE f # e
    BY <1>f, <2>3, <2>5 DEF Carries
  <2> QED
    BY <2>4, <2>5
<1>12. SameOrder'
  <2>1. \A p \in Observers : DOMAIN got'[p] = 1..Len(got'[p]) /\ Len(got'[p]) \in Nat
    BY <1>8 DEF ValueTypes
  <2>2. \A p \in Observers : \A i \in DOMAIN got'[p] : got'[p][i] = v => i = Len(got'[p])
    <3> SUFFICES ASSUME NEW p \in Observers, NEW i \in DOMAIN got'[p], got'[p][i] = v
                 PROVE  i = Len(got'[p])
      OBVIOUS
    <3>1. got'[p][Len(got'[p])] = v
      <4>1. CASE p = o
        BY <1>7, <4>1
      <4>2. CASE p # o
        <5>1. v \in Range(got[p])
          BY <1>5, <4>2 DEF Range
        <5> QED
          BY <1>v, <1>4, <1>5, <4>2, <5>1 DEF NotYet
      <4> QED
        BY <4>1, <4>2
    <3>2. IsInjective(got'[p])
      BY <1>9 DEF ValuesApart
    <3>3. Len(got'[p]) \in DOMAIN got'[p]
      BY <2>1
    <3> QED
      BY <3>1, <3>2, <3>3 DEF IsInjective
  <2>3. \A p \in Observers : \A i \in DOMAIN got'[p] :
          got'[p][i] # v => i \in DOMAIN got[p] /\ got[p][i] = got'[p][i]
    <3> SUFFICES ASSUME NEW p \in Observers, NEW i \in DOMAIN got'[p], got'[p][i] # v
                 PROVE  i \in DOMAIN got[p] /\ got[p][i] = got'[p][i]
      OBVIOUS
    <3>1. CASE p = o
      <4>1. i # Len(got[o]) + 1 /\ i \in 1..Len(got[o]) + 1
        BY <1>7, <2>1, <3>1
      <4> QED
        BY <1>4, <1>5, <3>1, <4>1
    <3>2. CASE p # o
      BY <1>5, <3>2
    <3> QED
      BY <3>1, <3>2
  <2> SUFFICES ASSUME NEW p \in Observers, NEW q \in Observers,
                      NEW i \in DOMAIN got'[p], NEW j \in DOMAIN got'[p],
                      NEW k \in DOMAIN got'[q], NEW l \in DOMAIN got'[q],
                      i < j, got'[p][i] = got'[q][k], got'[p][j] = got'[q][l]
               PROVE  k < l
    BY DEF SameOrder
  <2>4. got'[p][i] # v
    BY <2>1, <2>2
  <2>5. CASE got'[p][j] = v
    <3>1. l = Len(got'[q])
      BY <2>2, <2>5
    <3>2. got'[q][k] # got'[q][l]
      BY <2>4, <2>5
    <3>3. k \in 1..Len(got'[q]) /\ Len(got'[q]) \in Nat
      BY <2>1
    <3>4. k # l
      BY <3>2
    <3> QED
      BY <3>1, <3>3, <3>4
  <2>6. CASE got'[p][j] # v
    BY <2>3, <2>4, <2>6 DEF SameOrder
  <2> QED
    BY <2>5, <2>6
<1> QED
  BY <1>8, <1>9, <1>10, <1>11, <1>12

\* A closed observer that is passed over is owed nothing.
LEMMA NextSkipDelivers ==
  ASSUME Setup, Control, Delivery, NEW e \in Emitters, NextEnter(e), observer[Head(todo[e])] # "open"
  PROVE  Delivery'
<1> USE DEF Delivery, Setup
<1>1. /\ pc[e] = "broadcast" /\ todo[e] # <<>> /\ todo' = [todo EXCEPT ![e] = Tail(@)]
      /\ UNCHANGED <<m_state, pc, val, sub, observer, got, used, due, calls>>
  BY DEF NextEnter, subject, history
<1>2. /\ Range(todo[e]) = {Head(todo[e])} \union Range(Tail(todo[e]))
      /\ todo \in [Emitters -> Seq(Observers)]
  BY <1>1, First DEF Control, ControlTypes, Copies
<1>f. /\ \A f \in Emitters : InOnNext(f)' <=> InOnNext(f)
      /\ \A f \in Emitters \ {e} : Pending(f)' = Pending(f)
      /\ Pending(e)' = Pending(e) \ {Head(todo[e])} \/ Pending(e)' = Pending(e)
  <2>1. \A f \in Emitters : InOnNext(f)' <=> InOnNext(f)
    BY <1>1 DEF InOnNext
  <2>2. \A f \in Emitters \ {e} : Pending(f)' = Pending(f)
    BY <1>1, <1>2 DEF Pending
  <2>3. Pending(e)' = Range(Tail(todo[e])) /\ Pending(e) = Range(todo[e])
    BY <1>1, <1>2 DEF Pending
  <2> QED
    BY <1>2, <2>1, <2>2, <2>3
<1>3. ValueTypes'
  BY <1>1 DEF ValueTypes
<1>4. ValuesApart'
  BY <1>1, <1>f DEF ValuesApart
<1>5. NotYet'
  BY <1>1, <1>f DEF NotYet
<1>6. OnItsWay'
  <2>1. \A f \in Emitters, v \in used, o \in Observers :
          observer[o] = "open" /\ Carries(f, v, o) => Carries(f, v, o)'
    BY <1>1, <1>f DEF Carries
  <2>2. \A v \in used : due[v] \subseteq Observers
    BY UsedValues DEF ValueTypes
  <2> QED
    BY <1>1, <2>1, <2>2 DEF OnItsWay
<1>7. SameOrder'
  BY <1>1 DEF SameOrder
<1> QED
  BY <1>3, <1>4, <1>5, <1>6, <1>7

\* The observer that was called has the value.
LEMMA NextLeaveDelivers ==
  ASSUME Setup, Control, Delivery, NEW e \in Emitters, NextLeave(e)
  PROVE  Delivery'
<1> USE DEF Delivery, Setup
<1>1. /\ pc[e] = "in_next" /\ todo' = [todo EXCEPT ![e] = Tail(@)]
      /\ pc' = [pc EXCEPT ![e] = "broadcast"]
      /\ UNCHANGED <<m_state, val, sub, observer, got, used, due, calls>>
  BY DEF NextLeave, Goto, subject, history
<1>2. pc \in [Emitters -> PcValues] /\ todo \in [Emitters -> Seq(Observers)]
  BY DEF Control, ControlTypes
<1>f. /\ \A f \in Emitters : (InOnNext(f)' <=> InOnNext(f)) /\ Pending(f)' = Pending(f)
      /\ \A f \in Emitters \ {e} : UNCHANGED pc[f]
      /\ pc'[e] = "broadcast"
  BY <1>1, <1>2 DEF InOnNext, Pending
<1>3. ValueTypes'
  BY <1>1 DEF ValueTypes
<1>4. ValuesApart'
  BY <1>1, <1>f DEF ValuesApart
<1>5. NotYet'
  BY <1>1, <1>f DEF NotYet
<1>6. OnItsWay'
  <2>1. \A f \in Emitters, v \in used, o \in Observers : Carries(f, v, o) => Carries(f, v, o)'
    BY <1>1, <1>f DEF Carries
  <2>2. \A v \in used : due[v] \subseteq Observers
    BY UsedValues DEF ValueTypes
  <2> QED
    BY <1>1, <2>1, <2>2 DEF OnItsWay
<1>7. SameOrder'
  BY <1>1 DEF SameOrder
<1> QED
  BY <1>3, <1>4, <1>5, <1>6, <1>7

\* An emitter that is through has given its value to everybody.
LEMMA NextReturnDelivers ==
  ASSUME Setup, Control, Delivery, NEW e \in Emitters, NextReturn(e)
  PROVE  Delivery'
<1> USE DEF Delivery, Setup
<1>1. /\ pc[e] = "broadcast" /\ todo[e] = <<>> /\ val' = [val EXCEPT ![e] = NoValue]
      /\ pc' = [pc EXCEPT ![e] = "idle"]
      /\ UNCHANGED <<m_state, todo, sub, observer, got, used, due, calls>>
  BY DEF NextReturn, Goto, obs, history
<1>2. pc \in [Emitters -> PcValues] /\ NoValue \notin Values
  BY DEF Control, ControlTypes, Values, NoValue
<1>f. /\ \A f \in Emitters \ {e} : (InOnNext(f)' <=> InOnNext(f)) /\ UNCHANGED <<pc[f], val[f], Pending(f)>>
      /\ pc'[e] = "idle" /\ ~InOnNext(e)' /\ val'[e] = NoValue /\ Pending(e) = {}
  <2>1. \A f \in Emitters \ {e} : (InOnNext(f)' <=> InOnNext(f)) /\ UNCHANGED <<pc[f], val[f], Pending(f)>>
    BY <1>1, <1>2 DEF InOnNext, Pending, ValueTypes
  <2>2. pc'[e] = "idle" /\ ~InOnNext(e)' /\ val'[e] = NoValue
    BY <1>1, <1>2 DEF InOnNext, ValueTypes
  <2>3. Pending(e) = Range(<<>>)
    BY <1>1 DEF Pending
  <2>4. Range(<<>>) = {}
    BY DEF Range
  <2> QED
    BY <2>1, <2>2, <2>3, <2>4
<1>3. ValueTypes'
  BY <1>1 DEF ValueTypes
<1>4. ValuesApart'
  <2>1. \A f \in Emitters : InOnNext(f)' => InOnNext(f) /\ val'[f] = val[f]
    BY <1>f
  <2>2. \A f \in Emitters : val'[f] # NoValue <=> InOnNext(f)'
    BY <1>f DEF ValuesApart
  <2> QED
    BY <1>1, <2>1, <2>2 DEF ValuesApart
<1>5. NotYet'
  BY <1>1, <1>f DEF NotYet
<1>6. OnItsWay'
  <2>1. \A f \in Emitters, v \in used, o \in Observers : Carries(f, v, o) => Carries(f, v, o)'
    BY <1>1, <1>f DEF Carries
  <2>2. \A v \in used : due[v] \subseteq Observers
    BY UsedValues DEF ValueTypes
  <2> QED
    BY <1>1, <2>1, <2>2 DEF OnItsWay
<1>7. SameOrder'
  BY <1>1 DEF SameOrder
<1> QED
  BY <1>3, <1>4, <1>5, <1>6, <1>7

\* Every step keeps Delivery.
LEMMA DeliveryStep ==
  ASSUME Setup, Control, Delivery, Next
  PROVE  Delivery'
<1> USE DEF Setup
<1>0. Delivery => calls \in Nat /\ calls \in calls..MaxCalls /\ (calls < MaxCalls => calls + 1 \in calls..MaxCalls)
  BY DEF Delivery, ValueTypes
<1>p. /\ pc \in [Emitters -> PcValues] /\ sub \in [Observers -> Joined \union {"new", "late", "in_late", "refused"}]
      /\ observer \in [Observers -> {"open", "disposed"} \union Terminals]
      /\ "snapshot" \notin Terminals /\ "serialize" \notin Terminals
      /\ "broadcast" \notin Terminals /\ "in_next" \notin Terminals /\ "open" \notin Terminals
      /\ "observers" \notin Terminals
  BY DEF Control, ControlTypes
<1>1. ASSUME NEW e \in Emitters, TerminalCall(e) PROVE Delivery'
  <2>1. PICK k \in Terminals : pc[e] = "idle" /\ pc' = [pc EXCEPT ![e] = k]
    BY <1>1 DEF TerminalCall, Call, Goto
  <2>2. /\ calls < MaxCalls /\ calls' = calls + 1
        /\ UNCHANGED <<m_state, todo, val, sub, observer, got, used, due>>
    BY <1>1 DEF TerminalCall, Call, subject, obs
  <2>3. \A f \in Emitters : InOnNext(f) \/ InOnNext(f)' => pc'[f] = pc[f]
    BY <1>p, <2>1 DEF InOnNext
  <2> QED
    BY <1>0, <2>2, <2>3, Elsewhere
<1>2. ASSUME NEW e \in Emitters, TerminalExchange(e) \/ TerminalEnter(e) \/ TerminalLeave(e) \/ TerminalReturn(e)
      PROVE  Delivery'
  <2>1. /\ pc[e] \in Terminals \union {"end_all", "in_terminal"}
        /\ pc' = [pc EXCEPT ![e] = pc'[e]] /\ pc'[e] \in {"idle", "end_all", "in_terminal"}
    BY <1>2, <1>p DEF TerminalExchange, TerminalEnter, TerminalLeave, TerminalReturn, Goto
  <2>2. /\ UNCHANGED <<val, sub, got, used, due, calls>>
        /\ \A f \in Emitters \ {e} : todo'[f] = todo[f]
    BY <1>2
    DEF TerminalExchange, TerminalEnter, TerminalLeave, TerminalReturn, obs, history, Control,
       ControlTypes
  <2>3. m_state' = "observers" => m_state = "observers"
    BY <1>2, <1>p
    DEF TerminalExchange, TerminalEnter, TerminalLeave, TerminalReturn, Exchange, subject
  <2>4. \A o \in Observers : observer'[o] = "open" => observer[o] = "open"
    BY <1>2, <1>p
    DEF TerminalExchange, TerminalEnter, TerminalLeave, TerminalReturn, obs
  <2>5. \A f \in Emitters : InOnNext(f) \/ InOnNext(f)' => pc'[f] = pc[f] /\ todo'[f] = todo[f]
    BY <1>p, <2>1, <2>2 DEF InOnNext
  <2> QED
    BY <1>0, <2>2, <2>3, <2>4, <2>5, Elsewhere
<1>3. ASSUME NEW o \in Observers, Subscribe(o) \/ OnSubscribe(o) \/ Unsubscribe(o) PROVE Delivery'
  <2>1. UNCHANGED <<m_state, pc, todo, val, got, used, due, calls>>
    BY <1>3
    DEF Subscribe, OnSubscribe, UpstreamEnter, UpstreamLeave, LateEnter, LateLeave, CleanupObservers,
        Unsubscribe, subject, emitter, history
  <2>2. \A p \in Observers : sub[p] = "subscribed" => sub'[p] = "subscribed"
    BY <1>3, <1>p
    DEF Subscribe, OnSubscribe, UpstreamEnter, UpstreamLeave, LateEnter, LateLeave, CleanupObservers,
        Unsubscribe, Become
  <2>3. \A p \in Observers : observer'[p] = "open" => observer[p] = "open"
    <3>1. CASE LateEnter(o)
      BY <1>p, <3>1 DEF LateEnter
    <3>2. CASE Unsubscribe(o)
      BY <1>p, <3>2 DEF Unsubscribe
    <3>3. CASE UNCHANGED observer
      BY <3>3
    <3> QED
      BY <1>3, <3>1, <3>2, <3>3
      DEF Subscribe, OnSubscribe, UpstreamEnter, UpstreamLeave, LateLeave, CleanupObservers
  <2> QED
    BY <1>0, <2>1, <2>2, <2>3, Elsewhere DEF InOnNext
<1>4. ASSUME DisposeSubject PROVE Delivery'
  <2>1. UNCHANGED <<pc, todo, val, sub, observer, got, used, due, calls>> /\ m_state' = "disposed"
    BY <1>4 DEF DisposeSubject, Exchange, emitter, obs, history
  <2> QED
    BY <1>0, <2>1, Elsewhere DEF InOnNext
<1>5. ASSUME NEW e \in Emitters, NextEnter(e) PROVE Delivery'
  BY <1>5, NextBeginDelivers, NextSkipDelivers
<1> QED
  BY <1>1, <1>2, <1>3, <1>4, <1>5, NextCallDelivers, NextSnapshotDelivers, SerializeNextDelivers,
     NextLeaveDelivers, NextReturnDelivers DEF Next, Emit, Handle

\* So does one that changes nothing.
LEMMA DeliveryStutters ==
  ASSUME Delivery, UNCHANGED vars
  PROVE  Delivery'
BY DEF Delivery, ValueTypes, ValuesApart, NotYet, OnItsWay, SameOrder, Pending, Carries, InOnNext,
   vars, subject, emitter, obs, history

\* Delivery holds at the start.
LEMMA DeliveryInit ==
  ASSUME Setup, Init
  PROVE  Delivery
<1> USE DEF Setup, Init
<1>1. ValueTypes
  BY DEF ValueTypes, Values, NoValue
<1>2. \A o \in Observers : got[o] = <<>> /\ Range(got[o]) = {} /\ IsInjective(got[o])
  BY DEF Range, IsInjective
<1>3. \A e \in Emitters : ~InOnNext(e) /\ val[e] = NoValue /\ pc[e] = "idle"
  BY DEF InOnNext
<1>4. ValuesApart
  BY <1>2, <1>3 DEF ValuesApart
<1>5. NotYet /\ OnItsWay
  BY <1>3 DEF NotYet, OnItsWay
<1>6. SameOrder
  BY <1>2 DEF SameOrder
<1> QED
  BY <1>1, <1>4, <1>5, <1>6 DEF Delivery

\* Delivery says that a value reaches everybody once.
LEMMA DeliveredOnce ==
  ASSUME Setup, Control, Delivery
  PROVE  ReachesEverybodyOnce
<1>1. \A o \in Observers : got[o] \in Seq(Values)
  BY DEF Delivery, ValueTypes
<1>2. \A o \in Observers, v \in Values : v \in Range(got[o]) => Contains(got[o], v)
  BY <1>1 DEF Range, Contains
<1>3. \A e \in Emitters, v \in used, o \in Observers : Carries(e, v, o) => val[e] = v /\ InOnNext(e)
  BY DEF Carries, InOnNext
<1>4. used \subseteq Values /\ \A v \in used : due[v] \subseteq Observers
  BY UsedValues DEF Delivery, ValueTypes
<1>5. \A o \in Observers : IsInjective(got[o])
  BY DEF Delivery, ValuesApart
<1>6. ASSUME m_state = "observers", NEW v \in used, \A e \in Emitters : val[e] = v => ~InOnNext(e),
             NEW o \in due[v], observer[o] = "open"
      PROVE  Contains(got[o], v)
  BY <1>2, <1>3, <1>4, <1>6 DEF Delivery, OnItsWay
<1> QED
  BY <1>5, <1>6 DEF ReachesEverybodyOnce

\* The type invariant of a subject_state.
LEMMA AllTypes ==
  ASSUME Setup, Control, Delivery
  PROVE  TypeOK
BY UsedValues DEF Control, Delivery, ControlTypes, ValueTypes, TypeOK, Joined
=============================================================================
