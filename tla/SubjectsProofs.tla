------------------------------ MODULE SubjectsProofs ------------------------------
(* Proofs about the subjects and the gRPC reactors, for any number of emitters, *)
(* observers, newcomers, calls and reads, and any limit of a store.            *)
(*                                                                           *)
(* A publish_subject has the invariant of SubjectStateProofs.  So has a replay *)
(* or behavior subject, as far as the values its observers got after joining   *)
(* go, and one of its own about the store and what was given from it before.   *)
(* A reactor has one of its own.                                              *)
EXTENDS MCSubjects, SequenceTheorems, FiniteSetTheorems, TLAPS

\* What an observer of a replay or behavior subject got after it joined the list.
live == [o \in Newcomers |-> IF sub[o] = "new" THEN <<>>
                             ELSE SubSeq(got[o], Len(stored[o].read) + 1, Len(got[o]))]

Pub == INSTANCE SubjectStateProofs WITH Serialized <- TRUE
Rep == INSTANCE SubjectStateProofs WITH Serialized <- TRUE, Observers <- Newcomers, got <- live

-----------------------------------------------------------------------------
(* The proofs are about a subject_state of their own: its steps and properties *)
(* are those of the instances in MCSubjects.                                  *)

\* Steps of the emitters of a publish_subject, by either instance.
LEMMA PublishEmitters ==
  ASSUME NEW e \in Emitters
  PROVE  /\ Publish!NextCall(e) <=> Pub!NextCall(e)
         /\ Publish!TerminalCall(e) <=> Pub!TerminalCall(e)
         /\ Publish!NextSnapshot(e) <=> Pub!NextSnapshot(e)
         /\ Publish!SerializeNext(e) <=> Pub!SerializeNext(e)
         /\ Publish!NextEnter(e) <=> Pub!NextEnter(e)
         /\ Publish!NextLeave(e) <=> Pub!NextLeave(e)
         /\ Publish!NextReturn(e) <=> Pub!NextReturn(e)
         /\ Publish!TerminalExchange(e) <=> Pub!TerminalExchange(e)
         /\ Publish!TerminalEnter(e) <=> Pub!TerminalEnter(e)
         /\ Publish!TerminalLeave(e) <=> Pub!TerminalLeave(e)
         /\ Publish!TerminalReturn(e) <=> Pub!TerminalReturn(e)
<1>1. Publish!NextCall(e) <=> Pub!NextCall(e)
  BY Zenon DEF Publish!Call, Publish!Goto, Publish!NextCall, Publish!obs, Publish!subject, Pub!Call,
     Pub!Goto, Pub!NextCall, Pub!obs, Pub!subject
<1>2. Publish!TerminalCall(e) <=> Pub!TerminalCall(e)
  BY Zenon DEF Publish!Call, Publish!Goto, Publish!TerminalCall, Publish!obs, Publish!subject,
     Pub!Call, Pub!Goto, Pub!TerminalCall, Pub!obs, Pub!subject
<1>3. Publish!NextSnapshot(e) <=> Pub!NextSnapshot(e)
  BY Zenon DEF Publish!Goto, Publish!NextSnapshot, Publish!NoValue, Publish!history, Publish!obs,
     Publish!subject, Pub!Goto, Pub!NextSnapshot, Pub!NoValue, Pub!history, Pub!obs, Pub!subject
<1>4. Publish!SerializeNext(e) <=> Pub!SerializeNext(e)
  BY Zenon DEF Publish!Goto, Publish!SerializeNext, Publish!history, Publish!obs, Pub!Goto,
     Pub!SerializeNext, Pub!history, Pub!obs
<1>5. Publish!NextEnter(e) <=> Pub!NextEnter(e)
  BY Zenon DEF Publish!Goto, Publish!NextEnter, Publish!history, Publish!subject, Pub!Goto,
     Pub!NextEnter, Pub!history, Pub!subject
<1>6. Publish!NextLeave(e) <=> Pub!NextLeave(e)
  BY Zenon DEF Publish!Goto, Publish!NextLeave, Publish!history, Publish!subject, Pub!Goto,
     Pub!NextLeave, Pub!history, Pub!subject
<1>7. Publish!NextReturn(e) <=> Pub!NextReturn(e)
  BY Zenon DEF Publish!Goto, Publish!NextReturn, Publish!NoValue, Publish!history, Publish!obs,
     Pub!Goto, Pub!NextReturn, Pub!NoValue, Pub!history, Pub!obs
<1>8. Publish!TerminalExchange(e) <=> Pub!TerminalExchange(e)
  BY Zenon DEF Publish!Exchange, Publish!Goto, Publish!TerminalExchange, Publish!history,
     Publish!obs, Pub!Exchange, Pub!Goto, Pub!TerminalExchange, Pub!history, Pub!obs
<1>9. Publish!TerminalEnter(e) <=> Pub!TerminalEnter(e)
  BY Zenon DEF Publish!Goto, Publish!TerminalEnter, Publish!history, Publish!subject, Pub!Goto,
     Pub!TerminalEnter, Pub!history, Pub!subject
<1>10. Publish!TerminalLeave(e) <=> Pub!TerminalLeave(e)
  BY Zenon DEF Publish!Goto, Publish!TerminalLeave, Publish!history, Publish!subject, Pub!Goto,
     Pub!TerminalLeave, Pub!history, Pub!subject
<1>11. Publish!TerminalReturn(e) <=> Pub!TerminalReturn(e)
  BY Zenon DEF Publish!Goto, Publish!TerminalReturn, Publish!history, Publish!obs, Pub!Goto,
     Pub!TerminalReturn, Pub!history, Pub!obs
<1> QED
  BY <1>1, <1>2, <1>3, <1>4, <1>5, <1>6, <1>7, <1>8, <1>9, <1>10, <1>11

\* Steps of its observers.
LEMMA PublishObservers ==
  ASSUME NEW o \in Observers
  PROVE  /\ Publish!Subscribe(o) <=> Pub!Subscribe(o)
         /\ Publish!UpstreamEnter(o) <=> Pub!UpstreamEnter(o)
         /\ Publish!UpstreamLeave(o) <=> Pub!UpstreamLeave(o)
         /\ Publish!LateEnter(o) <=> Pub!LateEnter(o)
         /\ Publish!LateLeave(o) <=> Pub!LateLeave(o)
         /\ Publish!Unsubscribe(o) <=> Pub!Unsubscribe(o)
         /\ Publish!CleanupObservers(o) <=> Pub!CleanupObservers(o)
<1>1. Publish!Subscribe(o) <=> Pub!Subscribe(o)
  BY Zenon DEF Publish!Become, Publish!Subscribe, Publish!emitter, Publish!history, Pub!Become,
     Pub!Subscribe, Pub!emitter, Pub!history
<1>2. Publish!UpstreamEnter(o) <=> Pub!UpstreamEnter(o)
  BY Zenon DEF Publish!Become, Publish!UpstreamEnter, Publish!emitter, Publish!history,
     Publish!subject, Pub!Become, Pub!UpstreamEnter, Pub!emitter, Pub!history, Pub!subject
<1>3. Publish!UpstreamLeave(o) <=> Pub!UpstreamLeave(o)
  BY Zenon DEF Publish!Become, Publish!Contains, Publish!RemoveAt, Publish!UpstreamLeave,
     Publish!Without, Publish!emitter, Publish!history, Pub!Become, Pub!Contains, Pub!RemoveAt,
     Pub!UpstreamLeave, Pub!Without, Pub!emitter, Pub!history
<1>4. Publish!LateEnter(o) <=> Pub!LateEnter(o)
  BY Zenon DEF Publish!Become, Publish!LateEnter, Publish!emitter, Publish!history, Publish!subject,
     Pub!Become, Pub!LateEnter, Pub!emitter, Pub!history, Pub!subject
<1>5. Publish!LateLeave(o) <=> Pub!LateLeave(o)
  BY Zenon DEF Publish!Become, Publish!LateLeave, Publish!emitter, Publish!history, Publish!subject,
     Pub!Become, Pub!LateLeave, Pub!emitter, Pub!history, Pub!subject
<1>6. Publish!Unsubscribe(o) <=> Pub!Unsubscribe(o)
  BY Zenon DEF Publish!Unsubscribe, Publish!emitter, Publish!history, Publish!subject,
     Pub!Unsubscribe, Pub!emitter, Pub!history, Pub!subject
<1>7. Publish!CleanupObservers(o) <=> Pub!CleanupObservers(o)
  BY Zenon DEF Publish!CleanupObservers, Publish!Contains, Publish!RemoveAt, Publish!Without,
     Publish!emitter, Publish!history, Pub!CleanupObservers, Pub!Contains, Pub!RemoveAt, Pub!Without,
     Pub!emitter, Pub!history
<1> QED
  BY <1>1, <1>2, <1>3, <1>4, <1>5, <1>6, <1>7

\* The emitters of a replay or behavior subject take those of a subject_state.
LEMMA ReplayEmitters ==
  ASSUME NEW e \in Emitters, UNCHANGED live
  PROVE  /\ Replay!NextCall(e) => Rep!NextCall(e)
         /\ Replay!TerminalCall(e) => Rep!TerminalCall(e)
         /\ Replay!NextSnapshot(e) => Rep!NextSnapshot(e)
         /\ Replay!SerializeNext(e) => Rep!SerializeNext(e)
         /\ Replay!NextLeave(e) => Rep!NextLeave(e)
         /\ Replay!NextReturn(e) => Rep!NextReturn(e)
         /\ Replay!TerminalExchange(e) => Rep!TerminalExchange(e)
         /\ Replay!TerminalEnter(e) => Rep!TerminalEnter(e)
         /\ Replay!TerminalLeave(e) => Rep!TerminalLeave(e)
         /\ Replay!TerminalReturn(e) => Rep!TerminalReturn(e)
<1>1. Replay!NextCall(e) => Rep!NextCall(e)
  BY Zenon DEF Replay!Call, Replay!Goto, Replay!NextCall, Replay!obs, Replay!subject, Rep!Call,
     Rep!Goto, Rep!NextCall, Rep!obs, Rep!subject
<1>2. Replay!TerminalCall(e) => Rep!TerminalCall(e)
  BY Zenon DEF Replay!Call, Replay!Goto, Replay!TerminalCall, Replay!obs, Replay!subject, Rep!Call,
     Rep!Goto, Rep!TerminalCall, Rep!obs, Rep!subject
<1>3. Replay!NextSnapshot(e) => Rep!NextSnapshot(e)
  BY Zenon DEF Replay!Goto, Replay!NextSnapshot, Replay!NoValue, Replay!history, Replay!obs,
     Replay!subject, Rep!Goto, Rep!NextSnapshot, Rep!NoValue, Rep!history, Rep!obs, Rep!subject
<1>4. Replay!SerializeNext(e) => Rep!SerializeNext(e)
  BY Zenon DEF Replay!Goto, Replay!SerializeNext, Replay!history, Replay!obs, Rep!Goto,
     Rep!SerializeNext, Rep!history, Rep!obs
<1>5. Replay!NextLeave(e) => Rep!NextLeave(e)
  BY Zenon DEF Replay!Goto, Replay!NextLeave, Replay!history, Replay!subject, Rep!Goto,
     Rep!NextLeave, Rep!history, Rep!subject
<1>6. Replay!NextReturn(e) => Rep!NextReturn(e)
  BY Zenon DEF Replay!Goto, Replay!NextReturn, Replay!NoValue, Replay!history, Replay!obs, Rep!Goto,
     Rep!NextReturn, Rep!NoValue, Rep!history, Rep!obs
<1>7. Replay!TerminalExchange(e) => Rep!TerminalExchange(e)
  BY Zenon DEF Replay!Exchange, Replay!Goto, Replay!TerminalExchange, Replay!history, Replay!obs,
     Rep!Exchange, Rep!Goto, Rep!TerminalExchange, Rep!history, Rep!obs
<1>8. Replay!TerminalEnter(e) => Rep!TerminalEnter(e)
  BY Zenon DEF Replay!Goto, Replay!TerminalEnter, Replay!history, Replay!subject, Rep!Goto,
     Rep!TerminalEnter, Rep!history, Rep!subject
<1>9. Replay!TerminalLeave(e) => Rep!TerminalLeave(e)
  BY Zenon DEF Replay!Goto, Replay!TerminalLeave, Replay!history, Replay!subject, Rep!Goto,
     Rep!TerminalLeave, Rep!history, Rep!subject
<1>10. Replay!TerminalReturn(e) => Rep!TerminalReturn(e)
  BY Zenon DEF Replay!Goto, Replay!TerminalReturn, Replay!history, Replay!obs, Rep!Goto,
     Rep!TerminalReturn, Rep!history, Rep!obs
<1> QED
  BY <1>1, <1>2, <1>3, <1>4, <1>5, <1>6, <1>7, <1>8, <1>9, <1>10

\* So do its observers, once they join.
LEMMA ReplayObservers ==
  ASSUME NEW o \in Newcomers, UNCHANGED live
  PROVE  /\ Replay!Subscribe(o) => Rep!Subscribe(o)
         /\ Replay!UpstreamEnter(o) => Rep!UpstreamEnter(o)
         /\ Replay!UpstreamLeave(o) => Rep!UpstreamLeave(o)
         /\ Replay!LateEnter(o) => Rep!LateEnter(o)
         /\ Replay!LateLeave(o) => Rep!LateLeave(o)
         /\ Replay!Unsubscribe(o) => Rep!Unsubscribe(o)
         /\ Replay!CleanupObservers(o) => Rep!CleanupObservers(o)
<1>1. Replay!Subscribe(o) => Rep!Subscribe(o)
  BY Zenon DEF Replay!Become, Replay!Subscribe, Replay!emitter, Replay!history, Rep!Become,
     Rep!Subscribe, Rep!emitter, Rep!history
<1>2. Replay!UpstreamEnter(o) => Rep!UpstreamEnter(o)
  BY Zenon DEF Replay!Become, Replay!UpstreamEnter, Replay!emitter, Replay!history, Replay!subject,
     Rep!Become, Rep!UpstreamEnter, Rep!emitter, Rep!history, Rep!subject
<1>3. Replay!UpstreamLeave(o) => Rep!UpstreamLeave(o)
  BY Zenon DEF Replay!Become, Replay!Contains, Replay!RemoveAt, Replay!UpstreamLeave, Replay!Without,
     Replay!emitter, Replay!history, Rep!Become, Rep!Contains, Rep!RemoveAt, Rep!UpstreamLeave,
     Rep!Without, Rep!emitter, Rep!history
<1>4. Replay!LateEnter(o) => Rep!LateEnter(o)
  BY Zenon DEF Replay!Become, Replay!LateEnter, Replay!emitter, Replay!history, Replay!subject,
     Rep!Become, Rep!LateEnter, Rep!emitter, Rep!history, Rep!subject
<1>5. Replay!LateLeave(o) => Rep!LateLeave(o)
  BY Zenon DEF Replay!Become, Replay!LateLeave, Replay!emitter, Replay!history, Replay!subject,
     Rep!Become, Rep!LateLeave, Rep!emitter, Rep!history, Rep!subject
<1>6. Replay!Unsubscribe(o) => Rep!Unsubscribe(o)
  BY Zenon DEF Replay!Unsubscribe, Replay!emitter, Replay!history, Replay!subject, Rep!Unsubscribe,
     Rep!emitter, Rep!history, Rep!subject
<1>7. Replay!CleanupObservers(o) => Rep!CleanupObservers(o)
  BY Zenon DEF Replay!CleanupObservers, Replay!Contains, Replay!RemoveAt, Replay!Without,
     Replay!emitter, Replay!history, Rep!CleanupObservers, Rep!Contains, Rep!RemoveAt, Rep!Without,
     Rep!emitter, Rep!history
<1> QED
  BY <1>1, <1>2, <1>3, <1>4, <1>5, <1>6, <1>7

\* The two instances agree on the start, on dispose() and on the properties.
LEMMA PublishProperties ==
  /\ Publish!DisposeSubject <=> Pub!DisposeSubject
  /\ Publish!Init <=> Pub!Init
  /\ Publish!TypeOK <=> Pub!TypeOK
  /\ Publish!SameOrder <=> Pub!SameOrder
  /\ Publish!ReachesEverybodyOnce <=> Pub!ReachesEverybodyOnce
  /\ Publish!NobodyMissesTheEnd <=> Pub!NobodyMissesTheEnd
<1>1. Publish!DisposeSubject <=> Pub!DisposeSubject
  BY Zenon DEF Publish!DisposeSubject, Pub!DisposeSubject, Publish!Exchange, Pub!Exchange,
     Publish!emitter, Pub!emitter, Publish!obs, Pub!obs, Publish!history, Pub!history
<1>2. Publish!Init <=> Pub!Init
  BY Zenon DEF Publish!Init, Pub!Init, Publish!NoValue, Pub!NoValue, Publish!Values, Pub!Values
<1>3. Publish!TypeOK <=> Pub!TypeOK
  BY Zenon DEF Publish!TypeOK, Pub!TypeOK, Publish!NoValue, Pub!NoValue, Publish!Values, Pub!Values,
     Publish!PcValues, Pub!PcValues
<1>4. Publish!SameOrder <=> Pub!SameOrder
  BY Zenon DEF Publish!SameOrder, Pub!SameOrder
<1>5. Publish!ReachesEverybodyOnce <=> Pub!ReachesEverybodyOnce
  BY Zenon DEF Publish!ReachesEverybodyOnce, Pub!ReachesEverybodyOnce, Publish!InOnNext, Pub!InOnNext,
     Publish!Contains, Pub!Contains, Publish!IsInjective, Pub!IsInjective
<1>6. Publish!NobodyMissesTheEnd <=> Pub!NobodyMissesTheEnd
  BY Zenon DEF Publish!NobodyMissesTheEnd, Pub!NobodyMissesTheEnd
<1> QED
  BY <1>1, <1>2, <1>3, <1>4, <1>5, <1>6

\* They agree on what the contract allows an observer of a publish_subject.
LEMMA PublishContract ==
  (Publish!ContractInit <=> Pub!ContractInit) /\ (Publish!ContractStep <=> Pub!ContractStep)
<1>1. ASSUME NEW o \in Observers PROVE Publish!Contract(o)!Next <=> Pub!Contract(o)!Next
  BY Zenon DEF Publish!Contract!Next, Pub!Contract!Next, Publish!Contract!OnNext, Pub!Contract!OnNext,
     Publish!Contract!OnTerminal, Pub!Contract!OnTerminal, Publish!Contract!Return, Pub!Contract!Return,
     Publish!EmittingTo, Pub!EmittingTo, Publish!Ended, Pub!Ended
<1>2. Publish!ContractStep <=> Pub!ContractStep
  BY Zenon, <1>1 DEF Publish!ContractStep, Pub!ContractStep, Publish!EmittingTo, Pub!EmittingTo,
     Publish!Ended, Pub!Ended
<1>3. Publish!ContractInit <=> Pub!ContractInit
  BY Zenon DEF Publish!ContractInit, Pub!ContractInit, Publish!Contract!Init, Pub!Contract!Init,
     Publish!EmittingTo, Pub!EmittingTo, Publish!Ended, Pub!Ended
<1> QED
  BY <1>2, <1>3

\* Every step of a publish_subject is one the proofs are about.
LEMMA PublishStep == Publish!Next => Pub!Next
<1>1. ASSUME NEW e \in Emitters, Publish!Emit(e) \/ Publish!Handle(e) PROVE Pub!Emit(e) \/ Pub!Handle(e)
  BY <1>1, PublishEmitters DEF Publish!Emit, Publish!Handle, Pub!Emit, Pub!Handle
<1>2. ASSUME NEW o \in Observers, Publish!Subscribe(o) \/ Publish!OnSubscribe(o) \/ Publish!Unsubscribe(o)
      PROVE  Pub!Subscribe(o) \/ Pub!OnSubscribe(o) \/ Pub!Unsubscribe(o)
  BY <1>2, PublishObservers DEF Publish!OnSubscribe, Pub!OnSubscribe
<1> QED
  BY <1>1, <1>2, PublishProperties DEF Publish!Next, Pub!Next

\* The start, dispose() and the end of a replay or behavior subject.
LEMMA ReplayProperties ==
  /\ UNCHANGED live /\ Replay!DisposeSubject => Rep!DisposeSubject
  /\ Replay!NobodyMissesTheEnd <=> Rep!NobodyMissesTheEnd
<1>1. UNCHANGED live /\ Replay!DisposeSubject => Rep!DisposeSubject
  BY Zenon DEF Replay!DisposeSubject, Rep!DisposeSubject, Replay!Exchange, Rep!Exchange,
     Replay!emitter, Rep!emitter, Replay!obs, Rep!obs, Replay!history, Rep!history
<1>2. Replay!NobodyMissesTheEnd <=> Rep!NobodyMissesTheEnd
  BY Zenon DEF Replay!NobodyMissesTheEnd, Rep!NobodyMissesTheEnd
<1> QED
  BY <1>1, <1>2

\* An observer that has not joined has nothing live.
LEMMA ReplayInit == Replay!Init => Rep!Init
<1> SUFFICES ASSUME Replay!Init PROVE Rep!Init
  OBVIOUS
<1>1. live = [o \in Newcomers |-> <<>>]
  BY DEF live, Replay!Init
<1> QED
  BY Zenon, <1>1 DEF Replay!Init, Rep!Init, Replay!NoValue, Rep!NoValue, Replay!Values, Rep!Values

\* What the contract allows one of its observers.
LEMMA ReplayContract ==
  (Replay!ContractInit <=> Rep!ContractInit) /\ (Replay!ContractStep <=> Rep!ContractStep)
<1>1. ASSUME NEW o \in Newcomers PROVE Replay!Contract(o)!Next <=> Rep!Contract(o)!Next
  BY Zenon DEF Replay!Contract!Next, Rep!Contract!Next, Replay!Contract!OnNext, Rep!Contract!OnNext,
     Replay!Contract!OnTerminal, Rep!Contract!OnTerminal, Replay!Contract!Return, Rep!Contract!Return,
     Replay!EmittingTo, Rep!EmittingTo, Replay!Ended, Rep!Ended
<1>2. Replay!ContractStep <=> Rep!ContractStep
  BY Zenon, <1>1 DEF Replay!ContractStep, Rep!ContractStep, Replay!EmittingTo, Rep!EmittingTo,
     Replay!Ended, Rep!Ended
<1>3. Replay!ContractInit <=> Rep!ContractInit
  BY Zenon DEF Replay!ContractInit, Rep!ContractInit, Replay!Contract!Init, Rep!Contract!Init,
     Replay!EmittingTo, Rep!EmittingTo, Replay!Ended, Rep!Ended
<1> QED
  BY <1>2, <1>3

-----------------------------------------------------------------------------
(* What a replay or behavior subject adds: the store and what is read of it.  *)

\* The assumptions of MCSubjects are those the proofs of a subject_state need.
LEMMA Setups == Pub!Setup /\ Rep!Setup
BY EmittersAssumption, TerminalsAssumption, BoundsAssumption DEF Pub!Setup, Rep!Setup

StoreTypes ==
  /\ kind \in {"replay", "timed", "behavior"}
  /\ val \in [Emitters -> Replay!Kept] /\ got \in [Newcomers -> Seq(Replay!Kept)]
  /\ calls \in 0..MaxCalls /\ used \subseteq Replay!Values
  /\ m_values \in Seq(Replay!Kept) /\ Len(m_values) <= (IF kind = "behavior" THEN 1 ELSE Limit)
  /\ replay \in [Newcomers -> Seq(Replay!Kept)]
  /\ stored \in [Newcomers -> [read : Seq(Replay!Kept), of : SUBSET Replay!Values]]
  /\ phase \in [Newcomers -> {"new", "replay", "done"}]
  /\ m_disposed \in BOOLEAN /\ quiet \subseteq Newcomers

\* The end of a sequence.
LEMMA Suffix ==
  ASSUME NEW S, NEW s \in Seq(S), NEW i \in 1..Len(s) + 1
  PROVE  SubSeq(s, i, Len(s)) \in Seq(S) /\ Len(SubSeq(s, i, Len(s))) = Len(s) + 1 - i
<1>1. Len(s) \in Nat /\ \A j \in i..Len(s) : j \in 1..Len(s) /\ s[j] \in S
  OBVIOUS
<1> QED
  BY <1>1

\* What is left of a store when some of it has expired.
LEMMA ExpiredShrinks ==
  ASSUME NEW S, NEW s \in Seq(S), NEW t \in Replay!Expired(s)
  PROVE  t \in Seq(S) /\ Len(t) <= Len(s)
<1>1. CASE kind = "timed"
  <2>1. PICK i \in 1..(Len(s) + 1) : t = SubSeq(s, i, Len(s))
    BY <1>1 DEF Replay!Expired
  <2> QED
    BY <2>1, Suffix
<1>2. CASE kind # "timed"
  BY <1>2 DEF Replay!Expired
<1> QED
  BY <1>1, <1>2

\* Room is made for one value.
LEMMA RoomForOne ==
  ASSUME NEW S, NEW s \in Seq(S)
  PROVE  /\ Replay!Room(s) \in Seq(S)
         /\ kind = "behavior" => Len(Replay!Room(s)) = 0
         /\ Len(s) <= Limit => Len(Replay!Room(s)) <= Limit - 1
<1> USE BoundsAssumption
<1>1. CASE kind = "behavior"
  BY <1>1 DEF Replay!Room
<1>2. CASE kind # "behavior" /\ Len(s) >= Limit
  <2>1. Len(s) - Limit + 2 \in 1..Len(s) + 1
    BY <1>2
  <2> QED
    BY <1>2, <2>1, Suffix DEF Replay!Room
<1>3. CASE kind # "behavior" /\ Len(s) < Limit
  BY <1>3 DEF Replay!Room
<1> QED
  BY <1>1, <1>2, <1>3

\* Every step keeps the types of the store, and its limit.
LEMMA StoreTypesStep ==
  ASSUME StoreTypes, Replay!ReplayNext
  PROVE  StoreTypes'
<1> USE BoundsAssumption DEF StoreTypes
<1>0a. 0 \in Replay!Kept /\ Replay!Values \subseteq Replay!Kept
  BY DEF Replay!Kept, Replay!NoValue
<1>1. ASSUME NEW e \in Emitters, Replay!StoreNext(e) PROVE StoreTypes'
  <2>1. /\ calls < MaxCalls /\ calls' = calls + 1 /\ val' = [val EXCEPT ![e] = calls + 1]
        /\ used' = used \union {calls + 1} /\ quiet' = {o \in quiet : ~Replay!Joining(o)}
        /\ UNCHANGED <<got, kind, m_disposed, replay, phase, stored>>
    BY <1>1 DEF Replay!StoreNext, Replay!NextCall, Replay!Call, Replay!obs
  <2>2. calls + 1 \in Replay!Values /\ calls + 1 \in Replay!Kept /\ calls' \in 0..MaxCalls
    BY <1>0a, <2>1 DEF Replay!Values
  <2>3. PICK values \in Replay!Expired(Replay!Room(m_values)) : m_values' = Append(values, calls + 1)
    BY <1>1 DEF Replay!StoreNext
  <2>4. /\ Replay!Room(m_values) \in Seq(Replay!Kept)
        /\ Len(Replay!Room(m_values)) <= (IF kind = "behavior" THEN 0 ELSE Limit - 1)
    BY RoomForOne
  <2>5. values \in Seq(Replay!Kept) /\ Len(values) <= (IF kind = "behavior" THEN 0 ELSE Limit - 1)
    BY <2>4, ExpiredShrinks
  <2>6. m_values' \in Seq(Replay!Kept) /\ Len(m_values') <= (IF kind = "behavior" THEN 1 ELSE Limit)
    BY <2>2, <2>3, <2>5
  <2> QED
    BY <2>1, <2>2, <2>6
<1>2. ASSUME NEW e \in Emitters, Replay!ReplayTerminalCall(e) PROVE StoreTypes'
  BY <1>2 DEF Replay!ReplayTerminalCall, Replay!TerminalCall, Replay!Call, Replay!subject, Replay!obs,
     Replay!store, Replay!replays
<1>3. ASSUME NEW e \in Emitters, Replay!ReplayHandle(e) \/ Replay!ReplayReturn(e) PROVE StoreTypes'
  <2>1. /\ UNCHANGED <<kind, calls, used, m_values, replay, stored, phase, quiet>>
        /\ m_disposed' \in BOOLEAN
    BY <1>3 DEF Replay!ReplayHandle, Replay!ReplayReturn, Replay!NextSnapshot, Replay!SerializeNext,
       Replay!NextEnter, Replay!NextLeave, Replay!NextReturn, Replay!TerminalExchange,
          Replay!TerminalEnter,
       Replay!TerminalLeave, Replay!TerminalReturn, Replay!history, Replay!store, Replay!replays
  <2>2. val' = val \/ val' = [val EXCEPT ![e] = 0]
    BY <1>3 DEF Replay!ReplayHandle, Replay!ReplayReturn, Replay!NextSnapshot, Replay!SerializeNext,
       Replay!NextEnter, Replay!NextLeave, Replay!NextReturn, Replay!TerminalExchange,
          Replay!TerminalEnter,
       Replay!TerminalLeave, Replay!TerminalReturn, Replay!NoValue
  <2>3. got' = got \/ \E o : got' = [got EXCEPT ![o] = Append(@, val[e])]
    BY <1>3 DEF Replay!ReplayHandle, Replay!ReplayReturn, Replay!NextSnapshot, Replay!SerializeNext,
       Replay!NextEnter, Replay!NextLeave, Replay!NextReturn, Replay!TerminalExchange,
          Replay!TerminalEnter,
       Replay!TerminalLeave, Replay!TerminalReturn, Replay!obs
  <2>4. val' \in [Emitters -> Replay!Kept]
    BY <1>0a, <2>2
  <2>5. got' \in [Newcomers -> Seq(Replay!Kept)]
    <3>1. ASSUME NEW o, got' = [got EXCEPT ![o] = Append(@, val[e])]
          PROVE  got' \in [Newcomers -> Seq(Replay!Kept)]
      <4>1. val[e] \in Replay!Kept
        OBVIOUS
      <4>2. \A p \in Newcomers : Append(got[p], val[e]) \in Seq(Replay!Kept)
        BY <4>1
      <4> QED
        BY <3>1, <4>2
    <3> QED
      BY <2>3, <3>1
  <2> QED
    BY <2>1, <2>4, <2>5
<1>4. ASSUME NEW o \in Newcomers, Replay!ReadStored(o) PROVE StoreTypes'
  <2>1. PICK values \in Replay!Expired(m_values) :
          LET given == IF kind = "behavior" /\ m_disposed THEN <<>> ELSE values IN
            /\ m_values' = values /\ replay' = [replay EXCEPT ![o] = given]
            /\ stored' = [stored EXCEPT ![o] = [read |-> given, of |-> used]]
    BY <1>4 DEF Replay!ReadStored
  <2>2. values \in Seq(Replay!Kept) /\ Len(values) <= Len(m_values)
    BY ExpiredShrinks
  <2>3. /\ phase' = [phase EXCEPT ![o] = "replay"]
        /\ quiet' = quiet \union {o} \/ quiet' = quiet
        /\ UNCHANGED <<kind, val, got, calls, used, m_disposed>>
    BY <1>4 DEF Replay!ReadStored, Replay!vars, Replay!emitter, Replay!obs, Replay!history
  <2>4. m_values' \in Seq(Replay!Kept) /\ Len(m_values') <= (IF kind = "behavior" THEN 1 ELSE Limit)
    BY <2>1, <2>2
  <2>5. replay' \in [Newcomers -> Seq(Replay!Kept)]
    BY <2>1, <2>2
  <2>6. stored' \in [Newcomers -> [read : Seq(Replay!Kept), of : SUBSET Replay!Values]]
    BY <2>1, <2>2
  <2> QED
    BY <2>3, <2>4, <2>5, <2>6
<1>5. ASSUME NEW o \in Newcomers, Replay!GiveStored(o) PROVE StoreTypes'
  <2>1. /\ UNCHANGED <<kind, val, calls, used, m_values, m_disposed, stored, quiet>>
        /\ \/ replay[o] = <<>> /\ phase' = [phase EXCEPT ![o] = "done"] /\ UNCHANGED <<got, replay>>
           \/ /\ replay[o] # <<>> /\ UNCHANGED phase /\ replay' = [replay EXCEPT ![o] = Tail(@)]
              /\ got' = got \/ got' = [got EXCEPT ![o] = Append(@, Head(replay[o]))]
    <3>1. UNCHANGED <<kind, val, calls, used, m_values, m_disposed, stored, quiet>>
      BY <1>5 DEF Replay!GiveStored, Replay!emitter, Replay!history, Replay!store
    <3>2. CASE observer[o] = "open"
      BY <1>5, <3>1, <3>2 DEF Replay!GiveStored
    <3>3. CASE observer[o] # "open"
      BY <1>5, <3>1, <3>3 DEF Replay!GiveStored
    <3> QED
      BY <3>2, <3>3
  <2>2. CASE replay[o] = <<>>
    BY <2>1, <2>2
  <2>3. CASE replay[o] # <<>>
    <3>1. Head(replay[o]) \in Replay!Kept /\ Tail(replay[o]) \in Seq(Replay!Kept)
      BY <2>3
    <3>2. got' \in [Newcomers -> Seq(Replay!Kept)]
      <4>1. Append(got[o], Head(replay[o])) \in Seq(Replay!Kept)
        BY <3>1
      <4> QED
        BY <2>1, <2>3, <4>1
    <3> QED
      BY <2>1, <2>3, <3>1, <3>2
  <2> QED
    BY <2>2, <2>3
<1>6. ASSUME NEW o \in Newcomers, Replay!ReplaySubscribe(o) \/ Replay!ReplayOnSubscribe(o)
      PROVE  StoreTypes'
  BY <1>6 DEF Replay!ReplaySubscribe, Replay!ReplayOnSubscribe, Replay!OnSubscribe, Replay!Subscribe,
     Replay!UpstreamEnter, Replay!UpstreamLeave, Replay!LateEnter, Replay!LateLeave, Replay!Unsubscribe,
     Replay!CleanupObservers, Replay!emitter, Replay!history, Replay!store, Replay!replays
<1>7. ASSUME Replay!ReplayDispose PROVE StoreTypes'
  BY <1>7 DEF Replay!ReplayDispose, Replay!DisposeSubject, Replay!vars, Replay!emitter, Replay!obs,
     Replay!history, Replay!store, Replay!replays
<1> QED
  BY <1>1, <1>2, <1>3, <1>4, <1>5, <1>6, <1>7 DEF Replay!ReplayNext

\* They hold at the start.
LEMMA StoreTypesInit == Replay!ReplayInit => StoreTypes
<1> SUFFICES ASSUME Replay!ReplayInit PROVE StoreTypes
  OBVIOUS
<1>1. 0 \in Replay!Kept /\ <<>> \in Seq(Replay!Kept) /\ <<0>> \in Seq(Replay!Kept)
  BY DEF Replay!Kept, Replay!NoValue
<1>2. m_values = <<>> \/ (kind = "behavior" /\ m_values = <<0>>)
  BY DEF Replay!ReplayInit, Replay!NoValue
<1>3. m_values \in Seq(Replay!Kept) /\ Len(m_values) <= (IF kind = "behavior" THEN 1 ELSE Limit)
  <2>1. Len(<<>>) = 0 /\ Len(<<0>>) = 1
    OBVIOUS
  <2>2. m_values \in Seq(Replay!Kept)
    BY <1>1, <1>2
  <2>3. CASE m_values = <<>>
    BY <2>1, <2>2, <2>3, BoundsAssumption
  <2>4. CASE kind = "behavior" /\ m_values = <<0>>
    BY <2>1, <2>2, <2>4
  <2> QED
    BY <1>2, <2>3, <2>4
<1>4. /\ val \in [Emitters -> Replay!Kept] /\ got \in [Newcomers -> Seq(Replay!Kept)]
      /\ calls \in 0..MaxCalls /\ used \subseteq Replay!Values
  BY <1>1, BoundsAssumption DEF Replay!ReplayInit, Replay!Init, Replay!NoValue
<1>5. /\ replay \in [Newcomers -> Seq(Replay!Kept)]
      /\ stored \in [Newcomers -> [read : Seq(Replay!Kept), of : SUBSET Replay!Values]]
  BY <1>1 DEF Replay!ReplayInit
<1> QED
  BY <1>3, <1>4, <1>5 DEF StoreTypes, Replay!ReplayInit

\* The type invariant of a replay or behavior subject.
LEMMA ReplayTypes ==
  ASSUME Rep!Control, StoreTypes
  PROVE  Replay!ReplayTypeOK
BY DEF Rep!Control, Rep!ControlTypes, Rep!PcValues, Replay!PcValues, StoreTypes, Replay!ReplayTypeOK

-----------------------------------------------------------------------------
(* What an observer of a replay or behavior subject is given before it joins.  *)

\* Values that are stored ones as far as these go; what is left of them to give.
Agree(values, whole) == \A i \in 1..Len(values) : i <= Len(whole) => values[i] = whole[i]
LeftOver(values, left, whole) ==
  /\ Len(values) + Len(left) = Len(whole)
  /\ \A i \in 1..Len(left) : left[i] = whole[Len(values) + i]

\* An observer is given the first of what is left.
LEMMA GiveOne ==
  ASSUME NEW S, NEW g \in Seq(S), NEW r \in Seq(S), NEW s \in Seq(S), r # <<>>,
         Agree(g, s), LeftOver(g, r, s)
  PROVE  /\ Agree(Append(g, Head(r)), s) /\ LeftOver(Append(g, Head(r)), Tail(r), s)
         /\ Append(g, Head(r)) \in Seq(S) /\ Len(Append(g, Head(r))) = Len(g) + 1
<1>1. PICK x \in S, t \in Seq(S) : x = Head(r) /\ t = Tail(r)
  BY HeadTailProperties
<1>2. /\ Len(t) = Len(r) - 1 /\ Len(r) \in Nat \ {0} /\ x = r[1]
      /\ \A i \in 1..Len(t) : t[i] = r[i + 1]
  BY <1>1, HeadTailProperties, EmptySeq
<1>3. PICK a \in Seq(S) : a = Append(g, x)
  BY AppendProperties
<1>4. /\ Len(a) = Len(g) + 1 /\ Len(g) \in Nat /\ Len(s) \in Nat /\ a[Len(g) + 1] = x
      /\ \A i \in 1..Len(g) : a[i] = g[i]
  BY <1>3, AppendProperties, LenProperties
<1>5. /\ Len(g) + Len(r) = Len(s) /\ \A i \in 1..Len(r) : r[i] = s[Len(g) + i]
      /\ \A i \in 1..Len(g) : i <= Len(s) => g[i] = s[i]
  BY DEF Agree, LeftOver
<1>6. r[1] = s[Len(g) + 1]
  BY <1>2, <1>5
<1>7. Agree(a, s)
  <2> SUFFICES ASSUME NEW i \in 1..Len(a), i <= Len(s) PROVE a[i] = s[i]
    BY DEF Agree
  <2>1. CASE i \in 1..Len(g)
    BY <1>4, <1>5, <2>1
  <2>2. CASE i = Len(g) + 1
    BY <1>2, <1>4, <1>6, <2>2
  <2> QED
    BY <1>4, <2>1, <2>2
<1>8. Len(a) + Len(t) = Len(s)
  <2>1. Len(g) + Len(r) = Len(s)
    BY <1>5
  <2>2. PICK i \in Nat, j \in Nat : i = Len(g) /\ j = Len(r)
    BY <1>2, <1>4
  <2>3. Len(a) = i + 1 /\ Len(t) = j - 1 /\ Len(s) = i + j
    BY <1>2, <1>4, <2>1, <2>2
  <2> QED
    BY ONLY <2>2, <2>3
<1>9. ASSUME NEW i \in 1..Len(t) PROVE t[i] = s[Len(a) + i]
  <2>1. i + 1 \in 1..Len(r) /\ Len(g) + (i + 1) = Len(a) + i
    BY <1>2, <1>4, <1>9
  <2>2. t[i] = r[i + 1] /\ r[i + 1] = s[Len(g) + (i + 1)]
    BY <1>2, <1>5, <1>9, <2>1
  <2> QED
    BY <2>1, <2>2
<1>10. LeftOver(a, t, s)
  BY <1>8, <1>9 DEF LeftOver
<1> QED
  BY <1>1, <1>3, <1>4, <1>7, <1>10

\* The part of a sequence after its first a elements, up to the b-th.
LEMMA PartOf ==
  ASSUME NEW S, NEW s \in Seq(S), NEW a \in Nat, NEW b \in Nat, a <= b, b <= Len(s),
         NEW p, p = SubSeq(s, a + 1, b)
  PROVE  p \in Seq(S) /\ Len(p) = b - a /\ \A i \in 1..b - a : p[i] = s[a + i]
<1>1. \A i \in a + 1..b : s[i] \in S
  BY LenProperties, ElementOfSeq
<1>2. /\ SubSeq(s, a + 1, b) \in Seq(S)
      /\ Len(SubSeq(s, a + 1, b)) = IF a + 1 <= b THEN b - (a + 1) + 1 ELSE 0
      /\ \A i \in 1..b - (a + 1) + 1 : SubSeq(s, a + 1, b)[i] = s[(a + 1) + i - 1]
  BY <1>1, SubSeqProperties
<1>3. /\ p \in Seq(S) /\ Len(p) = IF a + 1 <= b THEN b - (a + 1) + 1 ELSE 0
      /\ \A i \in 1..b - (a + 1) + 1 : p[i] = s[(a + 1) + i - 1]
  BY ONLY <1>2, p = SubSeq(s, a + 1, b), Zenon
<1>4. Len(p) = b - a
  BY <1>3
<1>5. ASSUME NEW i \in 1..b - a PROVE p[i] = s[a + i]
  <2>1. i \in 1..b - (a + 1) + 1 /\ (a + 1) + i - 1 = a + i
    OBVIOUS
  <2> QED
    BY <1>3, <2>1
<1> QED
  BY <1>3, <1>4, <1>5

\* A value that comes after all stored ones.
LEMMA AgreeGrows ==
  ASSUME NEW S, NEW g \in Seq(S), NEW s \in Seq(S), NEW x \in S, Agree(g, s), Len(s) <= Len(g)
  PROVE  /\ Agree(Append(g, x), s) /\ Len(s) <= Len(Append(g, x))
         /\ SubSeq(Append(g, x), Len(s) + 1, Len(Append(g, x)))
              = Append(SubSeq(g, Len(s) + 1, Len(g)), x)
<1>1. PICK a \in Seq(S) : a = Append(g, x)
  BY AppendProperties
<1>2. /\ Len(a) = Len(g) + 1 /\ Len(g) \in Nat /\ Len(s) \in Nat /\ a[Len(g) + 1] = x
      /\ \A i \in 1..Len(g) : a[i] = g[i] /\ g[i] \in S
  BY <1>1, AppendProperties, LenProperties, ElementOfSeq
<1>3. PICK n \in Nat, m \in Nat : n = Len(s) /\ m = Len(g)
  BY <1>2
<1>4. Agree(a, s)
  <2> SUFFICES ASSUME NEW i \in 1..Len(a), i <= Len(s) PROVE a[i] = s[i]
    BY DEF Agree
  <2>1. i \in 1..Len(g)
    BY <1>2
  <2> QED
    BY <1>2, <2>1 DEF Agree
<1>5. PICK u \in Seq(S) : u = SubSeq(g, n + 1, m) /\ Len(u) = m - n
                          /\ \A i \in 1..m - n : u[i] = g[n + i]
  <2>1. n <= m /\ m <= Len(g)
    BY <1>3
  <2>2. PICK v : v = SubSeq(g, n + 1, m)
    OBVIOUS
  <2>3. v \in Seq(S) /\ Len(v) = m - n /\ \A i \in 1..m - n : v[i] = g[n + i]
    BY <2>1, <2>2, PartOf
  <2> QED
    BY <2>2, <2>3
<1>6. PICK w \in Seq(S) : w = SubSeq(a, n + 1, m + 1) /\ Len(w) = m + 1 - n
                          /\ \A i \in 1..m + 1 - n : w[i] = a[n + i]
  <2>1. n <= m + 1 /\ m + 1 <= Len(a) /\ m + 1 \in Nat
    BY <1>2, <1>3
  <2>2. PICK v : v = SubSeq(a, n + 1, m + 1)
    OBVIOUS
  <2>3. v \in Seq(S) /\ Len(v) = m + 1 - n /\ \A i \in 1..m + 1 - n : v[i] = a[n + i]
    BY <2>1, <2>2, PartOf
  <2> QED
    BY <2>2, <2>3
<1>7. PICK z \in Seq(S) : z = Append(u, x) /\ Len(z) = m - n + 1 /\ z[m - n + 1] = x
                          /\ \A i \in 1..m - n : z[i] = u[i]
  <2>1. PICK v : v = Append(u, x)
    OBVIOUS
  <2>2. /\ v \in Seq(S) /\ Len(v) = Len(u) + 1 /\ v[Len(u) + 1] = x
        /\ \A i \in 1..Len(u) : v[i] = u[i]
    BY <2>1, AppendProperties
  <2>3. Len(u) = m - n
    BY <1>5
  <2>4. Len(v) = m - n + 1 /\ v[m - n + 1] = x /\ \A i \in 1..m - n : v[i] = u[i]
    BY ONLY Zenon, <2>2, <2>3
  <2> QED
    BY <2>1, <2>2, <2>4
<1>8. w = z
  <2>1. Len(w) = Len(z)
    BY <1>6, <1>7
  <2>2. ASSUME NEW i \in 1..Len(w) PROVE w[i] = z[i]
    <3>1. CASE i \in 1..m - n
      <4>1. n + i \in 1..Len(g) /\ i \in 1..m + 1 - n
        BY <1>3, <3>1
      <4> QED
        BY <1>2, <1>5, <1>6, <1>7, <3>1, <4>1
    <3>2. CASE i = m + 1 - n
      <4>1. n + i = Len(g) + 1 /\ i \in 1..m + 1 - n /\ i = m - n + 1
        BY <1>3, <1>6, <2>2, <3>2
      <4> QED
        BY <1>2, <1>6, <1>7, <4>1
    <3> QED
      BY <1>3, <1>6, <2>2, <3>1, <3>2
  <2> QED
    BY <2>1, <2>2, SeqEqual
<1>9. SubSeq(a, Len(s) + 1, Len(a)) = Append(SubSeq(g, Len(s) + 1, Len(g)), x)
  <2>1. Len(a) = m + 1 /\ Len(s) = n /\ Len(g) = m
    BY <1>2, <1>3
  <2> QED
    BY Zenon, <1>5, <1>6, <1>7, <1>8, <2>1
<1>10. Len(s) <= Len(a)
  BY <1>2
<1> QED
  BY Zenon, <1>1, <1>4, <1>9, <1>10

\* Its values so far are those of the store, then live ones; while it is open,
\* none of the store is left out.
GivenSoFar(at, joined, open, values, left, whole) ==
  /\ at # "done" => joined = "new"
  /\ at # "replay" => left = <<>>
  /\ at = "new" => values = <<>> /\ whole = <<>>
  /\ Agree(values, whole)
  /\ joined = "new" => Len(values) + Len(left) <= Len(whole)
  /\ joined = "new" /\ open => LeftOver(values, left, whole)
  /\ joined # "new" /\ open => Len(whole) <= Len(values)
Given(o) ==
  GivenSoFar(phase[o], sub[o], observer[o] = "open", got[o], replay[o], stored[o].read)
GivenInv == \A o \in Newcomers : Given(o)

\* Steps that do not touch what was given, and let nobody join.
Aside ==
  /\ UNCHANGED <<got, replay, stored, phase>>
  /\ \A o \in Newcomers : /\ sub'[o] = "new" <=> sub[o] = "new"
                          /\ observer'[o] = "open" => observer[o] = "open"

\* What an observer was given stays so while nothing of its own changes.
LEMMA SameGiven ==
  ASSUME GivenInv, NEW o \in Newcomers,
         UNCHANGED <<got[o], replay[o], stored[o], phase[o], sub[o], observer[o]>>
  PROVE  Given(o)'
<1>1. Given(o)
  BY DEF GivenInv
<1> QED
  BY Zenon, <1>1 DEF Given, GivenSoFar, Agree, LeftOver

\* Such a step changes nothing of what was given.
LEMMA AsideKeeps ==
  ASSUME GivenInv, Aside
  PROVE  GivenInv' /\ UNCHANGED live
<1>1. UNCHANGED live
  BY DEF Aside, live
<1>2. GivenInv'
  BY DEF Aside, GivenInv, Given, GivenSoFar, Agree, LeftOver
<1> QED
  BY <1>1, <1>2

\* An emitter that finds the observer open appends to its values.
Called(e) ==
  LET o == Head(todo[e]) IN
    /\ pc[e] = "broadcast" /\ todo[e] # <<>> /\ observer[o] = "open"
    /\ got' = [got EXCEPT ![o] = Append(@, val[e])]
    /\ UNCHANGED <<replay, stored, phase, sub, observer>>

\* Only an observer that has joined is called: the value is one it gets live.
LEMMA CalledKeeps ==
  ASSUME Rep!Control, StoreTypes, GivenInv, NEW e \in Emitters, Called(e)
  PROVE  GivenInv' /\ live' = [live EXCEPT ![Head(todo[e])] = Append(@, val[e])]
<1>0. PICK p : p = Head(todo[e])
  OBVIOUS
<1>1. p \in Newcomers /\ sub[p] # "new"
  <2>1. /\ todo[e] \in Seq(Newcomers) /\ todo[e] # <<>> /\ Rep!IsInjective(todo[e])
        /\ \A o \in Rep!Range(todo[e]) : sub[o] \in Rep!Joined
    BY DEF Rep!Control, Rep!ControlTypes, Rep!Copies, Called
  <2>2. Head(todo[e]) \in Newcomers /\ Head(todo[e]) \in Rep!Range(todo[e])
    BY <2>1, Rep!First
  <2>3. p \in Newcomers /\ p \in Rep!Range(todo[e])
    BY Zenon, <1>0, <2>2
  <2> QED
    BY <2>1, <2>3 DEF Rep!Joined
<1>2. /\ observer[p] = "open" /\ got' = [got EXCEPT ![p] = Append(@, val[e])]
      /\ UNCHANGED <<replay, stored, phase, sub, observer>>
  BY Zenon, <1>0 DEF Called
<1>3. /\ got \in [Newcomers -> Seq(Replay!Kept)] /\ val[e] \in Replay!Kept
      /\ \A o \in Newcomers : stored[o].read \in Seq(Replay!Kept)
  BY DEF StoreTypes
<1>4. Given(p)
  BY <1>1 DEF GivenInv
<1>5. PICK g \in Seq(Replay!Kept), s \in Seq(Replay!Kept), x \in Replay!Kept :
        g = got[p] /\ s = stored[p].read /\ x = val[e]
  BY <1>1, <1>3
<1>6. got'[p] = Append(g, x) /\ \A o \in Newcomers : o # p => got'[o] = got[o]
  BY <1>1, <1>2, <1>3, <1>5
<1>7. Agree(g, s) /\ Len(s) <= Len(g)
  BY <1>1, <1>2, <1>4, <1>5 DEF Given, GivenSoFar
<1>8. /\ Agree(Append(g, x), s) /\ Len(s) <= Len(Append(g, x))
      /\ SubSeq(Append(g, x), Len(s) + 1, Len(Append(g, x))) = Append(SubSeq(g, Len(s) + 1, Len(g)), x)
  BY <1>7, AgreeGrows
<1>9. ASSUME NEW o \in Newcomers PROVE Given(o)'
  <2>1. CASE o # p
    BY <1>2, <1>6, <1>9, <2>1, SameGiven
  <2>2. CASE o = p
    <3>1. /\ got'[o] = Append(g, x) /\ stored'[o].read = s /\ sub'[o] # "new"
          /\ phase'[o] = phase[o] /\ replay'[o] = replay[o]
      BY <1>1, <1>2, <1>5, <1>6, <2>2
    <3>2. phase[o] = "done" /\ replay[o] = <<>>
      BY <1>1, <1>4, <2>2 DEF Given, GivenSoFar
    <3>3. Agree(got'[o], stored'[o].read) /\ Len(stored'[o].read) <= Len(got'[o])
      BY ONLY Zenon, <1>8, <3>1
    <3>4. GivenSoFar(phase'[o], sub'[o], observer'[o] = "open", got'[o], replay'[o], stored'[o].read)
      BY <3>1, <3>2, <3>3 DEF GivenSoFar
    <3> QED
      BY <3>4 DEF Given, GivenSoFar, Agree, LeftOver
  <2> QED
    BY <2>1, <2>2
<1>10. ASSUME NEW o \in Newcomers
       PROVE  live'[o] = IF o = p THEN Append(live[o], x) ELSE live[o]
  <2>1. CASE o # p
    BY <1>2, <1>6, <1>10, <2>1 DEF live
  <2>2. CASE o = p
    <3>1. sub'[o] # "new" /\ sub[o] # "new" /\ got'[o] = Append(g, x) /\ stored'[o].read = s
      BY <1>1, <1>2, <1>5, <1>6, <2>2
    <3>2. live'[o] = SubSeq(Append(g, x), Len(s) + 1, Len(Append(g, x)))
      BY <3>1, <1>10 DEF live
    <3>3. live[o] = SubSeq(g, Len(s) + 1, Len(g))
      BY <3>1, <1>5, <1>10, <2>2 DEF live
    <3> QED
      BY ONLY Zenon, <1>8, <2>2, <3>2, <3>3
  <2> QED
    BY <2>1, <2>2
<1>11. live' = [live EXCEPT ![p] = Append(@, x)]
  <2>1. DOMAIN live = Newcomers /\ DOMAIN live' = Newcomers
    BY DEF live
  <2>2. live' = [o \in Newcomers |-> live'[o]]
    BY Zenon DEF live
  <2>3. live = [o \in Newcomers |-> live[o]]
    BY Zenon DEF live
  <2> QED
    BY <1>1, <1>10, <2>2, <2>3
<1> QED
  BY Zenon, <1>0, <1>5, <1>9, <1>11 DEF GivenInv

\* The store is read: the observer has yet to be given all of it.
LEMMA ReadStoredGives ==
  ASSUME StoreTypes, StoreTypes', GivenInv, NEW p \in Newcomers, Replay!ReadStored(p)
  PROVE  GivenInv' /\ UNCHANGED live
<1>1. PICK values \in Replay!Expired(m_values) :
        LET given == IF kind = "behavior" /\ m_disposed THEN <<>> ELSE values IN
          /\ replay' = [replay EXCEPT ![p] = given]
          /\ stored' = [stored EXCEPT ![p] = [read |-> given, of |-> used]]
  BY DEF Replay!ReadStored
<1>2. PICK s : s = IF kind = "behavior" /\ m_disposed THEN <<>> ELSE values
  OBVIOUS
<1>3. /\ phase[p] = "new" /\ phase' = [phase EXCEPT ![p] = "replay"]
      /\ UNCHANGED <<got, sub, observer>>
  BY DEF Replay!ReadStored, Replay!vars, Replay!obs
<1>4. /\ phase'[p] = "replay" /\ replay'[p] = s /\ stored'[p].read = s
      /\ \A o \in Newcomers : o # p =>
           phase'[o] = phase[o] /\ replay'[o] = replay[o] /\ stored'[o] = stored[o]
  BY <1>1, <1>2, <1>3 DEF StoreTypes
<1>5. got[p] = <<>> /\ sub[p] = "new" /\ replay[p] = <<>>
  BY <1>3 DEF GivenInv, Given, GivenSoFar
<1>6. Len(<<>>) = 0 /\ Len(s) \in Nat
  BY <1>4 DEF StoreTypes
<1>7. UNCHANGED live
  BY <1>3, <1>4, <1>5 DEF live
<1>8. ASSUME NEW o \in Newcomers PROVE Given(o)'
  <2>1. CASE o # p
    BY <1>3, <1>4, <1>8, <2>1, SameGiven
  <2>2. CASE o = p
    <3>1. /\ phase'[o] = "replay" /\ sub'[o] = "new" /\ got'[o] = <<>> /\ replay'[o] = s
          /\ stored'[o].read = s
      BY <1>3, <1>4, <1>5, <2>2
    <3>2. Len(got'[o]) = 0 /\ Len(replay'[o]) = Len(stored'[o].read)
      BY <1>6, <3>1
    <3>3. Agree(got'[o], stored'[o].read)
      BY <3>2 DEF Agree
    <3>4. LeftOver(got'[o], replay'[o], stored'[o].read)
      BY <1>6, <3>1, <3>2 DEF LeftOver
    <3>5. Len(got'[o]) + Len(replay'[o]) <= Len(stored'[o].read)
      BY <1>6, <3>1, <3>2
    <3>6. GivenSoFar(phase'[o], sub'[o], observer'[o] = "open", got'[o], replay'[o], stored'[o].read)
      BY <3>1, <3>3, <3>4, <3>5 DEF GivenSoFar
    <3> QED
      BY <3>6 DEF Given, GivenSoFar, Agree, LeftOver
  <2> QED
    BY <2>1, <2>2
<1> QED
  BY <1>7, <1>8 DEF GivenInv

\* One stored value is given, unless the observer has been closed.
LEMMA GiveStoredGives ==
  ASSUME StoreTypes, StoreTypes', GivenInv, NEW p \in Newcomers, Replay!GiveStored(p)
  PROVE  GivenInv' /\ UNCHANGED live
<1>1. phase[p] = "replay" /\ UNCHANGED <<stored, sub, observer>>
  BY DEF Replay!GiveStored
<1>2. Given(p) /\ sub[p] = "new"
  BY <1>1 DEF GivenInv, Given, GivenSoFar
<1>3. PICK g \in Seq(Replay!Kept), r \in Seq(Replay!Kept), s \in Seq(Replay!Kept) :
        g = got[p] /\ r = replay[p] /\ s = stored[p].read
  BY DEF StoreTypes
<1>4. Len(g) \in Nat /\ Len(r) \in Nat /\ Len(s) \in Nat
  BY LenProperties
<1>5. \A o \in Newcomers :
        o # p => got'[o] = got[o] /\ replay'[o] = replay[o] /\ phase'[o] = phase[o]
  BY DEF Replay!GiveStored, StoreTypes
<1>6. UNCHANGED live
  BY <1>1, <1>2, <1>5 DEF live
<1>7. /\ stored'[p].read = s /\ sub'[p] = "new" /\ observer'[p] = observer[p]
  BY <1>1, <1>2, <1>3
<1>8. Agree(g, s) /\ Len(g) + Len(r) <= Len(s) /\ (observer[p] = "open" => LeftOver(g, r, s))
  BY <1>2, <1>3 DEF Given, GivenSoFar
<1>9. PICK a \in Seq(Replay!Kept), u \in Seq(Replay!Kept) : a = got'[p] /\ u = replay'[p]
  BY DEF StoreTypes
<1>10. GivenSoFar(phase'[p], "new", observer[p] = "open", a, u, s)
  <2>1. CASE r = <<>>
    <3>1. phase'[p] = "done" /\ a = g /\ u = r
      BY <1>3, <1>9, <2>1 DEF Replay!GiveStored, StoreTypes
    <3> QED
      BY <1>8, <2>1, <3>1 DEF GivenSoFar
  <2>2. CASE r # <<>>
    <3>1. /\ phase'[p] = "replay" /\ u = Tail(r)
          /\ a = IF observer[p] = "open" THEN Append(g, Head(r)) ELSE g
      BY <1>1, <1>3, <1>9, <2>2 DEF Replay!GiveStored, StoreTypes
    <3>2. Len(u) = Len(r) - 1 /\ Len(r) > 0
      BY <2>2, <3>1, HeadTailProperties, EmptySeq
    <3>3. CASE observer[p] # "open"
      <4>1. a = g
        BY <3>1, <3>3
      <4>2. Len(a) + Len(u) <= Len(s)
        BY <1>4, <1>8, <3>2, <4>1
      <4> QED
        BY <1>8, <3>1, <3>3, <4>1, <4>2 DEF GivenSoFar
    <3>4. CASE observer[p] = "open"
      <4>1. a = Append(g, Head(r))
        BY <3>1, <3>4
      <4>2. Agree(a, s) /\ LeftOver(a, u, s) /\ Len(a) = Len(g) + 1
        <5>1. LeftOver(g, r, s)
          BY <1>8, <3>4
        <5>2. /\ Agree(Append(g, Head(r)), s) /\ LeftOver(Append(g, Head(r)), Tail(r), s)
              /\ Len(Append(g, Head(r))) = Len(g) + 1
          BY <1>8, <2>2, <5>1, GiveOne
        <5> QED
          BY Zenon, <3>1, <4>1, <5>2
      <4>3. Len(a) + Len(u) <= Len(s)
        BY <1>4, <1>8, <3>2, <4>2
      <4> QED
        BY <3>1, <4>2, <4>3 DEF GivenSoFar
    <3> QED
      BY <3>3, <3>4
  <2> QED
    BY <2>1, <2>2
<1>11. Given(p)'
  <2>1. GivenSoFar(phase'[p], sub'[p], observer'[p] = "open", got'[p], replay'[p], stored'[p].read)
    BY Zenon, <1>7, <1>9, <1>10
  <2> QED
    BY <2>1 DEF Given, GivenSoFar, Agree, LeftOver
<1> QED
  BY <1>1, <1>5, <1>6, <1>11, SameGiven DEF GivenInv

\* The observer joins when it has been given everything.
LEMMA JoinGives ==
  ASSUME Rep!Control, StoreTypes, GivenInv, NEW p \in Newcomers, Replay!ReplaySubscribe(p)
  PROVE  GivenInv' /\ UNCHANGED live
<1>1. /\ phase[p] = "done" /\ sub[p] = "new"
      /\ UNCHANGED <<got, replay, stored, phase, observer>>
      /\ \E label \in {"listed", "refused", "late"} : sub' = [sub EXCEPT ![p] = label]
  BY DEF Replay!ReplaySubscribe, Replay!Subscribe, Replay!Become, Replay!replays
<1>2. sub'[p] # "new" /\ \A o \in Newcomers : o # p => sub'[o] = sub[o]
  BY <1>1 DEF Rep!Control, Rep!ControlTypes
<1>3. PICK g \in Seq(Replay!Kept), s \in Seq(Replay!Kept) : g = got[p] /\ s = stored[p].read
  BY DEF StoreTypes
<1>4. Given(p) /\ replay[p] = <<>> /\ Len(<<>>) = 0 /\ Len(g) \in Nat /\ Len(s) \in Nat
  BY <1>1, LenProperties DEF GivenInv, Given, GivenSoFar
<1>5. Len(replay[p]) = 0
  BY Zenon, <1>4
<1>6. Agree(g, s) /\ Len(g) <= Len(s) /\ (observer[p] = "open" => Len(g) = Len(s))
  BY <1>1, <1>3, <1>4, <1>5 DEF Given, GivenSoFar, LeftOver
<1>7. SubSeq(g, Len(s) + 1, Len(g)) = <<>>
  BY <1>4, <1>6, SubSeqEmpty
<1>8. ASSUME NEW o \in Newcomers PROVE live'[o] = live[o]
  <2>1. CASE o # p
    BY <1>1, <1>2, <1>8, <2>1 DEF live
  <2>2. CASE o = p
    <3>1. live'[o] = SubSeq(g, Len(s) + 1, Len(g))
      BY <1>1, <1>2, <1>3, <1>8, <2>2 DEF live
    <3>2. live[o] = <<>>
      BY <1>1, <1>8, <2>2 DEF live
    <3> QED
      BY Zenon, <1>7, <3>1, <3>2
  <2> QED
    BY <2>1, <2>2
<1>9. UNCHANGED live
  <2>1. live' = [o \in Newcomers |-> live'[o]]
    BY Zenon DEF live
  <2>2. live = [o \in Newcomers |-> live[o]]
    BY Zenon DEF live
  <2> QED
    BY <1>8, <2>1, <2>2
<1>10. ASSUME NEW o \in Newcomers PROVE Given(o)'
  <2>1. CASE o # p
    BY <1>1, <1>2, <1>10, <2>1, SameGiven
  <2>2. CASE o = p
    <3>1. /\ phase'[o] = "done" /\ replay'[o] = <<>> /\ got'[o] = g /\ stored'[o].read = s
          /\ sub'[o] # "new" /\ observer'[o] = observer[p]
      BY <1>1, <1>2, <1>3, <1>4, <2>2
    <3>2. observer[p] = "open" => Len(s) <= Len(g)
      BY <1>4, <1>6
    <3>3. GivenSoFar(phase'[o], sub'[o], observer'[o] = "open", got'[o], replay'[o], stored'[o].read)
      BY <1>6, <3>1, <3>2 DEF GivenSoFar
    <3> QED
      BY <3>3 DEF Given, GivenSoFar, Agree, LeftOver
  <2> QED
    BY <2>1, <2>2
<1> QED
  BY <1>9, <1>10 DEF GivenInv

-----------------------------------------------------------------------------
(* The store holds the newest values.                                       *)

\* Numbers of a set in their order, and none between them and the largest left out.
TopOf(s, of) ==
  /\ \A i, j \in 1..Len(s) : i < j => s[i] < s[j]
  /\ \A i \in 1..Len(s) : s[i] \in of
  /\ \A i \in 1..Len(s) : \A v \in of : s[i] < v => \E j \in 1..Len(s) : v = s[j]

\* The end of such a sequence is one.
LEMMA TopSuffix ==
  ASSUME NEW S \in SUBSET Int, NEW s \in Seq(S), NEW of \in SUBSET Int, TopOf(s, of),
         NEW k \in 1..Len(s) + 1
  PROVE  TopOf(SubSeq(s, k, Len(s)), of)
<1>1. PICK t \in Seq(S) : /\ t = SubSeq(s, k, Len(s)) /\ Len(t) = Len(s) + 1 - k
                          /\ \A i \in 1..Len(t) : t[i] = s[k - 1 + i]
  <2>1. /\ SubSeq(s, k, Len(s)) \in Seq(S) /\ Len(SubSeq(s, k, Len(s))) = Len(s) + 1 - k
    BY Suffix
  <2>2. Len(s) \in Nat /\ \A i \in k..Len(s) : s[i] \in S
    BY LenProperties, ElementOfSeq
  <2>3. \A i \in 1..Len(s) - k + 1 : SubSeq(s, k, Len(s))[i] = s[k + i - 1]
    BY <2>2, SubSeqProperties
  <2>4. PICK t : t = SubSeq(s, k, Len(s))
    OBVIOUS
  <2>5. /\ t \in Seq(S) /\ Len(t) = Len(s) + 1 - k /\ \A i \in 1..Len(s) - k + 1 : t[i] = s[k + i - 1]
    BY Zenon, <2>1, <2>3, <2>4
  <2>6. \A i \in 1..Len(t) : t[i] = s[k - 1 + i]
    <3> TAKE i \in 1..Len(t)
    <3>1. i \in 1..Len(s) - k + 1 /\ k + i - 1 = k - 1 + i
      BY <2>2, <2>5
    <3> QED
      BY <2>5, <3>1
  <2> QED
    BY <2>4, <2>5, <2>6
<1>2. Len(s) \in Nat /\ \A i \in 1..Len(t) : k - 1 + i \in 1..Len(s)
  BY <1>1, LenProperties
<1>3. \A i \in 1..Len(s) : s[i] \in Int
  BY ElementOfSeq
<1>4. ASSUME NEW i \in 1..Len(t), NEW j \in 1..Len(t), i < j PROVE t[i] < t[j]
  <2>1. k - 1 + i < k - 1 + j
    BY <1>4
  <2> QED
    BY <1>1, <1>2, <2>1 DEF TopOf
<1>5. \A i \in 1..Len(t) : t[i] \in of
  BY <1>1, <1>2 DEF TopOf
<1>6. ASSUME NEW i \in 1..Len(t), NEW v \in of, t[i] < v PROVE \E j \in 1..Len(t) : v = t[j]
  <2>1. PICK m \in 1..Len(s) : m = k - 1 + i
    BY <1>2
  <2>2. s[m] < v
    BY <1>1, <1>6, <2>1
  <2>3. PICK j \in 1..Len(s) : v = s[j]
    BY <2>2 DEF TopOf
  <2>4. m < j
    <3>1. ~(j < m)
      <4> SUFFICES ASSUME j < m PROVE FALSE
        OBVIOUS
      <4>1. s[j] < s[m]
        BY DEF TopOf
      <4> QED
        BY <1>3, <2>2, <2>3, <4>1
    <3>2. j # m
      BY <1>3, <2>2, <2>3
    <3> QED
      BY <1>2, <3>1, <3>2
  <2>5. j - k + 1 \in 1..Len(t) /\ k - 1 + (j - k + 1) = j
    BY <1>1, <1>2, <2>1, <2>4
  <2> QED
    BY <1>1, <2>3, <2>5
<1>7. TopOf(t, of)
  BY <1>4, <1>5, <1>6 DEF TopOf
<1> QED
  BY Zenon, <1>1, <1>7

\* So is the sequence with a number that is larger than all.
LEMMA TopGrows ==
  ASSUME NEW S \in SUBSET Int, NEW s \in Seq(S), NEW of \in SUBSET Int, TopOf(s, of),
         NEW x \in S, \A v \in of : v < x
  PROVE  TopOf(Append(s, x), of \union {x})
<1>1. PICK t \in Seq(S) : t = Append(s, x)
  BY AppendProperties
<1>2. /\ Len(t) = Len(s) + 1 /\ t[Len(s) + 1] = x /\ \A i \in 1..Len(s) : t[i] = s[i]
      /\ Len(s) \in Nat
  BY <1>1, AppendProperties, LenProperties
<1>3. PICK n \in Nat : n = Len(s)
  BY <1>2
<1>4. /\ Len(t) = n + 1 /\ t[n + 1] = x /\ \A i \in 1..n : t[i] = s[i]
  BY <1>2, <1>3
<1>5. \A i \in 1..n : s[i] \in of /\ s[i] < x /\ s[i] \in Int
  BY <1>3 DEF TopOf
<1>6. ASSUME NEW i \in 1..n + 1, NEW j \in 1..n + 1, i < j PROVE t[i] < t[j]
  <2>1. i \in 1..n
    BY <1>6
  <2>2. CASE j = n + 1
    BY <1>4, <1>5, <2>1, <2>2
  <2>3. CASE j \in 1..n
    BY <1>3, <1>4, <1>6, <2>1, <2>3 DEF TopOf
  <2> QED
    BY <2>2, <2>3
<1>7. \A i \in 1..n + 1 : t[i] \in of \union {x}
  BY <1>4, <1>5
<1>8. ASSUME NEW i \in 1..n + 1, NEW v \in of \union {x}, t[i] < v
      PROVE  \E j \in 1..n + 1 : v = t[j]
  <2>1. CASE v = x
    BY <1>4, <2>1
  <2>2. CASE v # x
    <3>1. v \in of /\ v < x /\ v \in Int
      BY <2>2
    <3>2. i # n + 1
      BY <1>4, <1>8, <3>1
    <3>3. i \in 1..n
      BY <3>2
    <3>4. PICK j \in 1..n : v = s[j]
      BY <1>3, <1>4, <1>8, <3>1, <3>3 DEF TopOf
    <3> QED
      BY <1>4, <3>4
  <2> QED
    BY <2>1, <2>2
<1>9. TopOf(t, of \union {x})
  BY <1>4, <1>6, <1>7, <1>8 DEF TopOf
<1> QED
  BY Zenon, <1>1, <1>9

\* The cardinality of the module that counts is that of the library.
LEMMA SameCardinality == \A of : Replay!Cardinality(of) = Cardinality(of)
BY Zenon DEF Replay!Cardinality, Cardinality

\* So many are the newest: no more than those before one in the store are newer.
LEMMA TopIsNewest ==
  ASSUME NEW S \in SUBSET Int, NEW s \in Seq(S), NEW of \in SUBSET Int, IsFiniteSet(of), TopOf(s, of)
  PROVE  Replay!ToSet(s) = Replay!Newest(of, Len(s))
<1>1. PICK n \in Nat : n = Len(s) /\ DOMAIN s = 1..n
  BY LenProperties
<1>2. PICK R : R = {s[i] : i \in 1..n}
  OBVIOUS
<1>3. Replay!ToSet(s) = R
  BY <1>1, <1>2 DEF Replay!ToSet
<1>4. /\ R \subseteq of /\ R \subseteq Int
      /\ \A r \in R, v \in of : r < v => v \in R
  <2>1. R \subseteq of
    BY <1>1, <1>2 DEF TopOf
  <2>2. ASSUME NEW r \in R, NEW v \in of, r < v PROVE v \in R
    <3>1. PICK i \in 1..n : r = s[i]
      BY <1>2
    <3>2. \E j \in 1..n : v = s[j]
      BY <1>1, <2>2, <3>1 DEF TopOf
    <3> QED
      BY <1>2, <3>2
  <2> QED
    BY <2>1, <2>2
<1>5. s \in Bijection(1..n, R)
  <2>1. s \in [1..n -> R]
    BY <1>1, <1>2, LenProperties
  <2>2. ASSUME NEW i \in 1..n, NEW j \in 1..n, i # j PROVE s[i] # s[j]
    <3>1. i < j \/ j < i
      BY <2>2
    <3>2. s[i] < s[j] \/ s[j] < s[i]
      BY <1>1, <3>1 DEF TopOf
    <3>3. s[i] \in Int /\ s[j] \in Int
      BY <1>2, <1>4
    <3> QED
      BY <3>2, <3>3
  <2>3. \A r \in R : \E i \in 1..n : s[i] = r
    BY <1>2
  <2> QED
    BY <2>1, <2>2, <2>3 DEF Bijection, Injection, Surjection, IsInjective
<1>6. IsFiniteSet(R) /\ Cardinality(R) = n
  <2>1. IsFiniteSet(1..n) /\ Cardinality(1..n) = n
    BY FS_Interval
  <2>2. ExistsBijection(1..n, R)
    BY <1>5 DEF ExistsBijection
  <2> QED
    BY <2>1, <2>2, FS_Bijection
<1>7. ASSUME NEW v \in R PROVE v \in of /\ Cardinality({w \in of : v < w}) < n
  <2>1. {w \in of : v < w} \subseteq R \ {v}
    <3>1. ASSUME NEW w \in of, v < w PROVE w \in R /\ w # v
      <4>1. w \in R
        BY <1>4, <3>1
      <4>2. v \in Int /\ w \in Int
        BY <1>4
      <4> QED
        BY <3>1, <4>1, <4>2
    <3> QED
      BY <3>1
  <2>2. IsFiniteSet(R \ {v}) /\ Cardinality(R \ {v}) = n - 1
    BY <1>6, FS_RemoveElement
  <2>3. Cardinality({w \in of : v < w}) <= n - 1 /\ Cardinality({w \in of : v < w}) \in Nat
    BY <2>1, <2>2, FS_Subset, FS_CardinalityType
  <2> QED
    BY <1>4, <2>3
<1>8. ASSUME NEW v \in of, v \notin R PROVE ~(Cardinality({w \in of : v < w}) < n)
  <2>1. R \subseteq {w \in of : v < w}
    BY <1>4, <1>8
  <2>2. IsFiniteSet({w \in of : v < w})
    BY FS_Subset
  <2>3. n <= Cardinality({w \in of : v < w}) /\ Cardinality({w \in of : v < w}) \in Nat
    BY <1>6, <2>1, <2>2, FS_Subset, FS_CardinalityType
  <2> QED
    BY <2>3
<1>9. R = {v \in of : Cardinality({w \in of : v < w}) < n}
  BY <1>7, <1>8
<1>10. R = Replay!Newest(of, n)
  BY Zenon, <1>9, SameCardinality DEF Replay!Newest
<1> QED
  BY Zenon, <1>1, <1>3, <1>10

\* The values of a store are the newest of those there have been; a
\* replay_subject without a duration has as many as it has room for.
Recent(s, of) ==
  /\ TopOf(s, IF kind = "behavior" THEN of \union {Replay!NoValue} ELSE of)
  /\ kind = "behavior" => Len(s) = 1
  /\ kind = "replay" => Len(s) = Limit \/ \A v \in of : \E i \in 1..Len(s) : v = s[i]

StoreInv ==
  /\ used \subseteq 1..calls
  /\ Recent(m_values, used)
  /\ \A o \in Newcomers :
       /\ stored[o].of \subseteq used /\ Len(stored[o].read) <= Limit
       /\ phase[o] # "new" =>
            \/ Recent(stored[o].read, stored[o].of)
            \/ kind = "behavior" /\ m_disposed /\ stored[o].read = <<>>

\* What is stored are numbers, the initial value of a behavior_subject the least.
LEMMA KeptNumbers == Replay!Kept \in SUBSET Int /\ Replay!Values \in SUBSET Int /\ Replay!NoValue = 0
BY BoundsAssumption DEF Replay!Kept, Replay!Values, Replay!NoValue

\* What expires does not change this, nor does another value.
LEMMA ExpiredRecent ==
  ASSUME NEW s \in Seq(Replay!Kept), NEW of \in SUBSET Int, Recent(s, of), NEW t \in Replay!Expired(s)
  PROVE  Recent(t, of)
<1>1. CASE kind = "timed"
  <2>1. PICK k \in 1..(Len(s) + 1) : t = SubSeq(s, k, Len(s))
    BY <1>1 DEF Replay!Expired
  <2>2. TopOf(s, of)
    BY <1>1 DEF Recent
  <2>3. TopOf(SubSeq(s, k, Len(s)), of)
    BY <2>2, TopSuffix, KeptNumbers
  <2>4. TopOf(t, of)
    BY Zenon, <2>1, <2>3
  <2> QED
    BY <1>1, <2>4 DEF Recent
<1>2. CASE kind # "timed"
  BY <1>2 DEF Replay!Expired
<1> QED
  BY <1>1, <1>2

\* The value that comes last is the newest; room for it is made at the front.
LEMMA KeptRecent ==
  ASSUME kind \in {"replay", "timed", "behavior"},
         NEW s \in Seq(Replay!Kept), Len(s) <= Limit, NEW of \in SUBSET Int, Recent(s, of),
         NEW t \in Replay!Expired(Replay!Room(s)),
         NEW x \in Replay!Kept, x > 0, \A v \in of : v < x
  PROVE  Recent(Append(t, x), of \union {x})
<1> USE BoundsAssumption
<1>0. PICK S : S = Replay!Kept
  OBVIOUS
<1>a. S \in SUBSET Int /\ s \in Seq(S) /\ x \in S /\ Replay!NoValue = 0
  BY KeptNumbers, <1>0
<1>1. CASE kind = "behavior"
  <2>1. t = <<>>
    BY <1>1 DEF Replay!Room, Replay!Expired
  <2>2. <<>> \in Seq(S) /\ Len(<<>>) = 0
    BY EmptySeq
  <2>3. PICK all \in SUBSET Int : all = of \union {0}
    <3>1. ASSUME NEW v \in of PROVE v \in Int
      OBVIOUS
    <3>2. of \union {0} \subseteq Int
      BY ONLY <3>1
    <3> QED
      BY ONLY <3>2
  <2>4. \A v \in all : v < x
    BY <2>3
  <2>a. TopOf(<<>>, all)
    BY <2>2 DEF TopOf
  <2>b. TopOf(Append(<<>>, x), all \union {x})
    BY <1>a, <2>2, <2>4, <2>a, TopGrows
  <2>5. TopOf(Append(<<>>, x), (of \union {0}) \union {x})
    BY Zenon, <2>3, <2>b
  <2>6. Len(Append(<<>>, x)) = 1
    BY <1>a, <2>2, AppendProperties
  <2>7. (of \union {0}) \union {x} = (of \union {x}) \union {0}
    OBVIOUS
  <2>8. TopOf(Append(t, x), (of \union {x}) \union {0}) /\ Len(Append(t, x)) = 1
    BY Zenon, <2>1, <2>5, <2>6, <2>7
  <2> QED
    BY <1>1, <1>a, <2>8 DEF Recent
<1>2. CASE kind # "behavior"
  <2>1. PICK k \in 1..Len(s) + 1 : /\ Replay!Room(s) = SubSeq(s, k, Len(s))
                                   /\ IF Len(s) >= Limit THEN k = Len(s) - Limit + 2 ELSE k = 1
    <3>1. CASE Len(s) >= Limit
      <4>1. Len(s) - Limit + 2 \in 1..Len(s) + 1
        BY <3>1
      <4> QED
        BY <1>2, <3>1, <4>1 DEF Replay!Room
    <3>2. CASE ~(Len(s) >= Limit)
      <4>1. 1 \in 1..Len(s) + 1
        BY LenProperties
      <4>2. SubSeq(s, 1, Len(s)) = s
        BY SubSeqFull
      <4> QED
        BY <1>2, <3>2, <4>1, <4>2 DEF Replay!Room
    <3> QED
      BY <3>1, <3>2
  <2>2. PICK r \in Seq(S) : r = Replay!Room(s) /\ Len(r) = Len(s) + 1 - k
    BY <1>0, <2>1, Suffix
  <2>3. TopOf(s, of)
    BY <1>2 DEF Recent
  <2>4. TopOf(SubSeq(s, k, Len(s)), of)
    BY <1>a, <2>3, TopSuffix
  <2>5. TopOf(r, of)
    BY Zenon, <2>1, <2>2, <2>4
  <2>6. TopOf(t, of) /\ t \in Seq(S)
    <3>1. CASE kind = "timed"
      <4>1. PICK j \in 1..(Len(r) + 1) : t = SubSeq(r, j, Len(r))
        BY <2>2, <3>1 DEF Replay!Expired
      <4>2. TopOf(SubSeq(r, j, Len(r)), of) /\ SubSeq(r, j, Len(r)) \in Seq(S)
        BY <1>a, <2>5, TopSuffix, Suffix
      <4> QED
        BY Zenon, <4>1, <4>2
    <3>2. CASE kind # "timed"
      <4>1. t = r
        BY <2>2, <3>2 DEF Replay!Expired
      <4> QED
        BY <2>5, <4>1
    <3> QED
      BY <3>1, <3>2
  <2>7. TopOf(Append(t, x), of \union {x})
    BY <1>a, <2>6, TopGrows
  <2>8. CASE kind = "replay"
    <3>1. t = r
      BY <2>2, <2>8 DEF Replay!Expired
    <3>2. PICK u \in Seq(S) : u = Append(t, x)
      BY <1>a, <2>6, AppendProperties
    <3>3. /\ Len(u) = Len(t) + 1 /\ u[Len(t) + 1] = x /\ \A i \in 1..Len(t) : u[i] = t[i]
          /\ Len(t) \in Nat
      BY <1>a, <2>6, <3>2, AppendProperties, LenProperties
    <3>4. CASE Len(s) >= Limit
      <4>1. Len(u) = Limit
        BY <2>1, <2>2, <3>1, <3>3, <3>4, LenProperties
      <4>2. Len(Append(t, x)) = Limit
        BY Zenon, <3>2, <4>1
      <4> QED
        BY <2>7, <2>8, <4>2 DEF Recent
    <3>5. CASE ~(Len(s) >= Limit)
      <4>1. t = s
        BY <1>2, <2>2, <3>1, <3>5 DEF Replay!Room
      <4>2. \A v \in of : \E i \in 1..Len(s) : v = s[i]
        BY <2>8, <3>5 DEF Recent
      <4>3. \A v \in of \union {x} : \E i \in 1..Len(u) : v = u[i]
        BY <3>3, <4>1, <4>2
      <4>4. \A v \in of \union {x} : \E i \in 1..Len(Append(t, x)) : v = Append(t, x)[i]
        BY Zenon, <3>2, <4>3
      <4> QED
        BY <2>7, <2>8, <4>4 DEF Recent
    <3> QED
      BY <3>4, <3>5
  <2> QED
    BY <1>2, <2>7, <2>8 DEF Recent
<1> QED
  BY <1>1, <1>2

\* The store of an observer that has read one stays as it is.
StoredBy(o) ==
  /\ stored[o].of \subseteq used /\ Len(stored[o].read) <= Limit
  /\ phase[o] # "new" =>
       \/ Recent(stored[o].read, stored[o].of)
       \/ kind = "behavior" /\ m_disposed /\ stored[o].read = <<>>

\* A store that was read stays so while nothing of its observer changes.
LEMMA SameStored ==
  ASSUME StoreInv, NEW o \in Newcomers, UNCHANGED <<kind, stored[o]>>, used \subseteq used',
         phase'[o] # "new" => phase[o] # "new", m_disposed => m_disposed'
  PROVE  StoredBy(o)'
<1>1. StoredBy(o)
  BY DEF StoreInv, StoredBy
<1>2. Recent(stored[o].read, stored[o].of) => Recent(stored[o].read, stored[o].of)'
  BY DEF Recent, TopOf
<1> QED
  BY <1>1, <1>2 DEF StoredBy

\* So do all while the store itself stays.
LEMMA SameStore ==
  ASSUME StoreInv, UNCHANGED <<kind, m_values, used, calls, stored>>,
         \A o \in Newcomers : phase'[o] # "new" => phase[o] # "new", m_disposed => m_disposed'
  PROVE  StoreInv'
<1>1. ASSUME NEW o \in Newcomers PROVE StoredBy(o)'
  BY <1>1, SameStored
<1>2. used' \subseteq 1..calls'
  BY DEF StoreInv
<1>3. Recent(m_values, used)'
  BY DEF StoreInv, Recent, TopOf
<1> QED
  BY <1>1, <1>2, <1>3 DEF StoreInv, StoredBy

\* Every step keeps the store what it is.
LEMMA StoreInvStep ==
  ASSUME StoreTypes, StoreInv, Replay!ReplayNext
  PROVE  StoreInv'
<1> USE BoundsAssumption
<1>1. ASSUME NEW e \in Emitters, Replay!StoreNext(e) PROVE StoreInv'
  <2>1. /\ calls < MaxCalls /\ calls' = calls + 1 /\ used' = used \union {calls + 1}
        /\ UNCHANGED <<kind, m_disposed, phase, stored>>
    BY <1>1 DEF Replay!StoreNext, Replay!NextCall, Replay!Call, Replay!obs
  <2>2. PICK values \in Replay!Expired(Replay!Room(m_values)) : m_values' = Append(values, calls + 1)
    BY <1>1 DEF Replay!StoreNext
  <2>3. PICK x \in Nat : x = calls + 1
    BY DEF StoreTypes
  <2>4. x \in Replay!Kept /\ x > 0
    BY <2>1, <2>3 DEF StoreTypes, Replay!Kept, Replay!Values
  <2>5. used \in SUBSET Int /\ used \subseteq 1..calls /\ \A v \in used : v < x
    BY <2>3 DEF StoreInv, StoreTypes
  <2>6. /\ kind \in {"replay", "timed", "behavior"} /\ m_values \in Seq(Replay!Kept)
        /\ Len(m_values) <= Limit /\ Recent(m_values, used)
    BY DEF StoreTypes, StoreInv
  <2>7. Recent(Append(values, x), used \union {x})
    BY <2>4, <2>5, <2>6, KeptRecent
  <2>8. Recent(m_values', used')
    BY Zenon, <2>1, <2>2, <2>3, <2>7
  <2>9. Recent(m_values, used)'
    BY <2>1, <2>8 DEF Recent, TopOf
  <2>10. used' \subseteq 1..calls' /\ used \subseteq used'
    BY <2>1, <2>5 DEF StoreTypes
  <2>11. ASSUME NEW o \in Newcomers PROVE StoredBy(o)'
    BY <2>1, <2>10, <2>11, SameStored
  <2> QED
    BY <2>9, <2>10, <2>11 DEF StoreInv, StoredBy
<1>2. ASSUME NEW e \in Emitters, Replay!ReplayTerminalCall(e) PROVE StoreInv'
  <2>1. calls < MaxCalls /\ calls' = calls + 1 /\ UNCHANGED <<used, kind, m_values, m_disposed, stored, phase>>
    BY <1>2 DEF Replay!ReplayTerminalCall, Replay!TerminalCall, Replay!Call, Replay!store, Replay!replays
  <2>2. used' \subseteq 1..calls'
    BY <2>1 DEF StoreInv, StoreTypes
  <2>3. Recent(m_values, used)'
    BY <2>1 DEF StoreInv, Recent, TopOf
  <2>4. ASSUME NEW o \in Newcomers PROVE StoredBy(o)'
    BY <2>1, <2>4, SameStored
  <2> QED
    BY <2>2, <2>3, <2>4 DEF StoreInv, StoredBy
<1>3. ASSUME NEW e \in Emitters, Replay!ReplayHandle(e) \/ Replay!ReplayReturn(e) PROVE StoreInv'
  <2>1. /\ UNCHANGED <<kind, m_values, used, calls, stored, phase>>
        /\ m_disposed => m_disposed'
    BY <1>3 DEF Replay!ReplayHandle, Replay!ReplayReturn, Replay!NextSnapshot, Replay!SerializeNext,
       Replay!NextEnter, Replay!NextLeave, Replay!NextReturn, Replay!TerminalExchange,
       Replay!TerminalEnter, Replay!TerminalLeave, Replay!TerminalReturn, Replay!history,
       Replay!store, Replay!replays
  <2> QED
    BY <2>1, SameStore
<1>4. ASSUME NEW p \in Newcomers, Replay!ReadStored(p) PROVE StoreInv'
  <2>1. PICK values \in Replay!Expired(m_values) :
          LET given == IF kind = "behavior" /\ m_disposed THEN <<>> ELSE values IN
            /\ m_values' = values
            /\ stored' = [stored EXCEPT ![p] = [read |-> given, of |-> used]]
    BY <1>4 DEF Replay!ReadStored
  <2>2. PICK s : s = IF kind = "behavior" /\ m_disposed THEN <<>> ELSE values
    OBVIOUS
  <2>3. UNCHANGED <<used, calls, kind, m_disposed>> /\ phase' = [phase EXCEPT ![p] = "replay"]
    BY <1>4 DEF Replay!ReadStored, Replay!vars, Replay!history
  <2>4. /\ stored'[p] = [read |-> s, of |-> used]
        /\ \A o \in Newcomers : o # p => stored'[o] = stored[o] /\ phase'[o] = phase[o]
    BY <2>1, <2>2, <2>3 DEF StoreTypes
  <2>5. used \in SUBSET Int /\ m_values \in Seq(Replay!Kept) /\ Recent(m_values, used)
    BY KeptNumbers DEF StoreTypes, StoreInv
  <2>6. Recent(values, used)
    BY <2>5, ExpiredRecent
  <2>7. Len(values) <= Limit /\ Len(<<>>) = 0
    <3>1. Len(m_values) <= Limit
      BY DEF StoreTypes
    <3>2. values \in Seq(Replay!Kept) /\ Len(values) <= Len(m_values)
      BY <2>5, ExpiredShrinks
    <3> QED
      BY <2>5, <3>1, <3>2, LenProperties
  <2>8. StoredBy(p)'
    <3>1. stored'[p].read = s /\ stored'[p].of = used
      BY <2>4
    <3>2. Len(s) <= Limit
      BY <2>2, <2>7
    <3>3. Recent(s, used) \/ (kind = "behavior" /\ m_disposed /\ s = <<>>)
      BY <2>2, <2>6
    <3>4. Recent(s, used) => Recent(stored[p].read, stored[p].of)'
      BY <2>3, <3>1 DEF Recent, TopOf
    <3> QED
      BY <2>3, <3>1, <3>2, <3>3, <3>4 DEF StoredBy
  <2>9. ASSUME NEW o \in Newcomers, o # p PROVE StoredBy(o)'
    BY <2>3, <2>4, <2>9, SameStored
  <2>10. Recent(m_values, used)'
    BY <2>1, <2>3, <2>6 DEF Recent, TopOf
  <2>11. used' \subseteq 1..calls'
    BY <2>3 DEF StoreInv
  <2> QED
    BY <2>8, <2>9, <2>10, <2>11 DEF StoreInv, StoredBy
<1>5. ASSUME NEW p \in Newcomers, Replay!GiveStored(p) PROVE StoreInv'
  <2>1. /\ UNCHANGED <<kind, m_values, used, calls, stored, m_disposed>> /\ phase[p] = "replay"
        /\ phase' = phase \/ phase' = [phase EXCEPT ![p] = "done"]
    BY <1>5 DEF Replay!GiveStored, Replay!store, Replay!history
  <2>2. \A o \in Newcomers : phase'[o] # "new" => phase[o] # "new"
    BY <2>1 DEF StoreTypes
  <2> QED
    BY <2>1, <2>2, SameStore
<1>6. ASSUME NEW o \in Newcomers, Replay!ReplaySubscribe(o) \/ Replay!ReplayOnSubscribe(o)
      PROVE  StoreInv'
  <2>1. UNCHANGED <<kind, m_values, used, calls, stored, m_disposed, phase>>
    BY <1>6 DEF Replay!ReplaySubscribe, Replay!ReplayOnSubscribe, Replay!OnSubscribe, Replay!Subscribe,
       Replay!UpstreamEnter, Replay!UpstreamLeave, Replay!LateEnter, Replay!LateLeave,
       Replay!Unsubscribe, Replay!CleanupObservers, Replay!history, Replay!store, Replay!replays
  <2> QED
    BY <2>1, SameStore
<1>7. ASSUME Replay!ReplayDispose PROVE StoreInv'
  <2>1. UNCHANGED <<kind, m_values, used, calls, stored, phase>> /\ (m_disposed => m_disposed')
    BY <1>7 DEF Replay!ReplayDispose, Replay!DisposeSubject, Replay!vars, Replay!history,
       Replay!store, Replay!replays
  <2> QED
    BY <2>1, SameStore
<1> QED
  BY <1>1, <1>2, <1>3, <1>4, <1>5, <1>6, <1>7 DEF Replay!ReplayNext

\* And so it is at the start.
LEMMA StoreInvInit == Replay!ReplayInit => StoreInv
<1> SUFFICES ASSUME Replay!ReplayInit PROVE StoreInv
  OBVIOUS
<1> USE BoundsAssumption
<1>1. Len(<<>>) = 0 /\ Len(<<0>>) = 1 /\ <<0>>[1] = 0
  OBVIOUS
<1>2. used = {} /\ calls = 0 /\ \A o \in Newcomers : phase[o] = "new" /\ stored[o] = [read |-> <<>>, of |-> {}]
  BY DEF Replay!ReplayInit, Replay!Init
<1>3. Recent(m_values, {})
  <2>1. CASE kind = "behavior"
    <3>1. m_values = <<0>>
      BY <2>1 DEF Replay!ReplayInit, Replay!NoValue
    <3>2. TopOf(<<0>>, {0}) /\ {} \union {0} = {0}
      BY <1>1 DEF TopOf
    <3>3. TopOf(m_values, {} \union {0}) /\ Len(m_values) = 1
      BY Zenon, <1>1, <3>1, <3>2
    <3> QED
      BY <2>1, <3>3, KeptNumbers DEF Recent
  <2>2. CASE kind # "behavior"
    <3>1. m_values = <<>> /\ Len(m_values) = 0
      BY <1>1, <2>2 DEF Replay!ReplayInit
    <3>2. TopOf(m_values, {})
      BY <3>1 DEF TopOf
    <3> QED
      BY <2>2, <3>2 DEF Recent
  <2> QED
    BY <2>1, <2>2
<1>4. \A o \in Newcomers : stored[o].of \subseteq used /\ Len(stored[o].read) <= Limit
  BY <1>1, <1>2
<1> QED
  BY <1>2, <1>3, <1>4 DEF StoreInv

-----------------------------------------------------------------------------
(* Observers no on_next was under way for while they joined.                *)

\* Until it has joined nothing new was emitted; no value that was there before
\* reaches it again.
Quiet(o) ==
  /\ phase[o] # "new" /\ stored[o].of \subseteq used
  /\ Replay!Joining(o) => used = stored[o].of
  /\ Rep!Range(live[o]) \intersect stored[o].of = {}
  /\ \A e \in Emitters : Rep!InOnNext(e) => val[e] \notin stored[o].of
QuietInv == quiet \subseteq Newcomers /\ \A o \in quiet : Quiet(o)

\* Once it has joined, a later value is with it or on its way to it.
Hears(o) == sub[o] \in Rep!Joined /\ observer[o] = "open"
Follows(o) ==
  \A v \in used \ stored[o].of : v \in Rep!Range(live[o]) \/ \E e \in Emitters : Rep!Carries(e, v, o)
FollowsInv == m_state = "observers" => \A o \in quiet : Hears(o) => Follows(o)

\* Steps that bring nothing into a hand, and give only what was in one.
LEMMA KeepsQuiet ==
  ASSUME QuietInv, UNCHANGED <<used, stored, quiet>>,
         \A o \in quiet : /\ phase'[o] = "new" => phase[o] = "new"
                          /\ Replay!Joining(o)' => Replay!Joining(o),
         \A e \in Emitters : Rep!InOnNext(e)' => Rep!InOnNext(e) /\ val'[e] = val[e],
         \A o \in quiet : \A x \in Rep!Range(live'[o]) :
           x \in Rep!Range(live[o]) \/ \E e \in Emitters : Rep!InOnNext(e) /\ x = val[e]
  PROVE  QuietInv'
<1>1. ASSUME NEW o \in quiet PROVE Quiet(o)'
  <2>1. Quiet(o) /\ stored'[o] = stored[o] /\ used' = used
    BY DEF QuietInv
  <2>2. Rep!Range(live'[o]) \intersect stored'[o].of = {}
    BY <2>1 DEF Quiet
  <2>3. Rep!Range(live[o])' = Rep!Range(live'[o])
    BY Zenon DEF Rep!Range
  <2>4. (Rep!Range(live[o]) \intersect stored[o].of)' = {}
    BY Zenon, <2>2, <2>3
  <2>5. \A e \in Emitters : Rep!InOnNext(e)' => val'[e] \notin stored'[o].of
    BY <2>1 DEF Quiet
  <2> QED
    BY <2>1, <2>4, <2>5 DEF Quiet
<1> QED
  BY <1>1 DEF QuietInv

\* Steps that lose nothing of what is on its way.
LEMMA KeepsFollowing ==
  ASSUME FollowsInv, UNCHANGED <<used, stored, quiet>>,
         m_state' = "observers" => m_state = "observers",
         \A o \in quiet : Hears(o)' /\ m_state' = "observers" => Hears(o) \/ used = stored[o].of,
         \A o \in quiet : \A v \in Rep!Range(live[o]) : v \in Rep!Range(live'[o]),
         \A o \in quiet : Hears(o) /\ Hears(o)' /\ m_state = "observers" =>
           \A e \in Emitters, v \in used :
             Rep!Carries(e, v, o) => Rep!Carries(e, v, o)' \/ v \in Rep!Range(live'[o])
  PROVE  FollowsInv'
<1>1. ASSUME NEW o \in quiet, m_state' = "observers", Hears(o)' PROVE Follows(o)'
  <2>1. Rep!Range(live[o])' = Rep!Range(live'[o])
    BY Zenon DEF Rep!Range
  <2>2. CASE used = stored[o].of
    BY <2>2 DEF Follows
  <2>3. CASE Hears(o)
    <3>1. Follows(o)
      BY <1>1, <2>3 DEF FollowsInv
    <3>2. ASSUME NEW v \in used \ stored[o].of
          PROVE  v \in Rep!Range(live'[o]) \/ \E e \in Emitters : Rep!Carries(e, v, o)'
      BY <1>1, <2>3, <3>1, <3>2 DEF Follows
    <3>3. UNCHANGED <<used, stored>>
      OBVIOUS
    <3> QED
      BY Zenon, <2>1, <3>2, <3>3 DEF Follows
  <2> QED
    BY <1>1, <2>2, <2>3
<1> QED
  BY <1>1 DEF FollowsInv

\* The steps of an emitter after the call.
Emission(e) == Replay!ReplayTerminalCall(e) \/ Replay!ReplayHandle(e) \/ Replay!ReplayReturn(e)

\* What they leave alone, and whom they may give a value.
LEMMA EmissionFrame ==
  ASSUME Rep!Control, StoreTypes, NEW e \in Emitters, Emission(e)
  PROVE  /\ UNCHANGED <<used, stored, quiet, phase, sub, replay>>
         /\ m_state' = "observers" => m_state = "observers"
         /\ \A o \in Newcomers : observer'[o] = "open" => observer[o] = "open"
         /\ \A f \in Emitters : Rep!InOnNext(f)' => Rep!InOnNext(f) /\ val'[f] = val[f]
         /\ UNCHANGED got \/ Called(e)
<1> USE TerminalsAssumption
<1>0. /\ pc \in [Emitters -> Rep!PcValues] /\ val \in [Emitters -> Replay!Kept]
      /\ observer \in [Newcomers -> {"open", "disposed"} \union Terminals]
      /\ Rep!Telling
  BY DEF Rep!Control, Rep!ControlTypes, StoreTypes
<1>1. ASSUME Replay!ReplayTerminalCall(e)
      PROVE  /\ UNCHANGED <<used, stored, quiet, phase, sub, replay, m_state, observer, val, got>>
             /\ \E k \in Terminals : pc' = [pc EXCEPT ![e] = k]
  BY <1>1 DEF Replay!ReplayTerminalCall, Replay!TerminalCall, Replay!Goto, Replay!subject, Replay!obs,
     Replay!replays
<1>2. ASSUME Replay!NextSnapshot(e) \/ Replay!SerializeNext(e) \/ Replay!NextLeave(e)
               \/ Replay!NextReturn(e)
      PROVE  UNCHANGED <<used, sub, m_state, observer, got>> /\ Rep!InOnNext(e)
  BY <1>2 DEF Replay!NextSnapshot, Replay!SerializeNext, Replay!NextLeave, Replay!NextReturn,
     Replay!subject, Replay!obs, Replay!history, Rep!InOnNext
<1>3. ASSUME Replay!NextEnter(e)
      PROVE  UNCHANGED <<used, sub, m_state, observer, val>> /\ Rep!InOnNext(e)
  BY <1>3 DEF Replay!NextEnter, Replay!subject, Replay!history, Rep!InOnNext
<1>4. ASSUME Replay!TerminalExchange(e) \/ Replay!TerminalEnter(e) \/ Replay!TerminalLeave(e)
               \/ Replay!TerminalReturn(e)
      PROVE  UNCHANGED <<used, sub, got, val>>
  BY <1>4 DEF Replay!TerminalExchange, Replay!TerminalEnter, Replay!TerminalLeave,
     Replay!TerminalReturn, Replay!obs, Replay!history
<1>5. ASSUME Replay!ReplayHandle(e) \/ Replay!ReplayReturn(e)
      PROVE  UNCHANGED <<stored, quiet, phase, replay>>
  BY <1>5 DEF Replay!ReplayHandle, Replay!ReplayReturn, Replay!replays
<1>6. ASSUME Replay!NextSnapshot(e) \/ Replay!SerializeNext(e) \/ Replay!NextLeave(e)
               \/ Replay!NextReturn(e)
      PROVE  \/ pc' = [pc EXCEPT ![e] = "idle"] /\ val' = [val EXCEPT ![e] = Replay!NoValue]
             \/ (\E k : pc' = [pc EXCEPT ![e] = k]) /\ UNCHANGED val
  BY <1>6 DEF Replay!NextSnapshot, Replay!SerializeNext, Replay!NextLeave, Replay!NextReturn, Replay!Goto
<1>7. ASSUME Replay!NextEnter(e) PROVE pc' = pc \/ pc' = [pc EXCEPT ![e] = "in_next"]
  BY <1>7 DEF Replay!NextEnter, Replay!Goto
<1>8. ASSUME Replay!TerminalExchange(e) \/ Replay!TerminalEnter(e) \/ Replay!TerminalLeave(e)
               \/ Replay!TerminalReturn(e)
      PROVE  pc' = pc \/ \E k \in {"end_all", "in_terminal", "idle"} : pc' = [pc EXCEPT ![e] = k]
  BY <1>8 DEF Replay!TerminalExchange, Replay!TerminalEnter, Replay!TerminalLeave,
     Replay!TerminalReturn, Replay!Goto
<1>9. UNCHANGED <<used, stored, quiet, phase, sub, replay>>
  BY <1>1, <1>2, <1>3, <1>4, <1>5 DEF Emission, Replay!ReplayHandle, Replay!ReplayReturn
<1>10. m_state' = "observers" => m_state = "observers"
  <2>1. CASE Replay!TerminalExchange(e)
    BY <2>1 DEF Replay!TerminalExchange, Replay!Exchange
  <2>2. CASE Replay!TerminalEnter(e) \/ Replay!TerminalLeave(e) \/ Replay!TerminalReturn(e)
    BY <2>2 DEF Replay!TerminalEnter, Replay!TerminalLeave, Replay!TerminalReturn, Replay!subject
  <2> QED
    BY <1>1, <1>2, <1>3, <2>1, <2>2 DEF Emission, Replay!ReplayHandle, Replay!ReplayReturn
<1>11. \A o \in Newcomers : observer'[o] = "open" => observer[o] = "open"
  <2>1. CASE Replay!TerminalEnter(e)
    <3>1. UNCHANGED observer \/ observer' = [observer EXCEPT ![Head(todo[e])] = m_state]
      BY <2>1 DEF Replay!TerminalEnter
    <3>2. pc[e] = "end_all" /\ todo[e] # <<>>
      BY <2>1 DEF Replay!TerminalEnter
    <3>3. m_state \in Terminals
      BY <1>0, <3>2 DEF Rep!Telling, Rep!Ending
    <3> QED
      BY <1>0, <3>1, <3>3
  <2>2. CASE Replay!TerminalExchange(e) \/ Replay!TerminalLeave(e) \/ Replay!TerminalReturn(e)
    BY <2>2 DEF Replay!TerminalExchange, Replay!TerminalLeave, Replay!TerminalReturn, Replay!obs
  <2> QED
    BY <1>1, <1>2, <1>3, <2>1, <2>2 DEF Emission, Replay!ReplayHandle, Replay!ReplayReturn
<1>12. ASSUME NEW f \in Emitters, Rep!InOnNext(f)' PROVE Rep!InOnNext(f) /\ val'[f] = val[f]
  <2>1. CASE Replay!ReplayTerminalCall(e)
    BY <1>0, <1>1, <1>12, <2>1 DEF Rep!InOnNext
  <2>2. CASE Replay!NextSnapshot(e) \/ Replay!SerializeNext(e) \/ Replay!NextLeave(e)
               \/ Replay!NextReturn(e)
    <3>1. Rep!InOnNext(e)
      BY <1>2, <2>2
    <3> QED
      BY <1>0, <1>6, <1>12, <2>2, <3>1 DEF Rep!InOnNext
  <2>3. CASE Replay!NextEnter(e)
    BY <1>0, <1>3, <1>7, <1>12, <2>3 DEF Rep!InOnNext
  <2>4. CASE Replay!TerminalExchange(e) \/ Replay!TerminalEnter(e) \/ Replay!TerminalLeave(e)
               \/ Replay!TerminalReturn(e)
    BY <1>0, <1>4, <1>8, <1>12, <2>4 DEF Rep!InOnNext
  <2> QED
    BY <2>1, <2>2, <2>3, <2>4 DEF Emission, Replay!ReplayHandle, Replay!ReplayReturn
<1>13. UNCHANGED got \/ Called(e)
  <2>1. CASE Replay!NextEnter(e)
    BY <1>3, <1>5, <1>9, <2>1 DEF Replay!NextEnter, Called
  <2> QED
    BY <1>1, <1>2, <1>4, <2>1 DEF Emission, Replay!ReplayHandle, Replay!ReplayReturn
<1> QED
  BY <1>9, <1>10, <1>11, <1>12, <1>13

\* A value that is on its way stays so, unless it arrives.
LEMMA EmissionCarries ==
  ASSUME Rep!Control, StoreTypes, NEW e \in Emitters, Emission(e),
         NEW o \in Newcomers, Hears(o), Hears(o)', m_state = "observers",
         NEW f \in Emitters, NEW v, Rep!Carries(f, v, o)
  PROVE  Rep!Carries(f, v, o)' \/ (Called(e) /\ o = Head(todo[e]) /\ v = val[e])
<1> USE TerminalsAssumption DEF Rep!Carries, Rep!Pending
<1>0. /\ pc \in [Emitters -> Rep!PcValues] /\ val \in [Emitters -> Replay!Kept]
      /\ todo \in [Emitters -> Seq(Newcomers)] /\ Rep!Copies /\ Rep!Telling /\ Rep!NobodyForgotten
  BY DEF Rep!Control, Rep!ControlTypes, StoreTypes
<1>1. CASE f # e
  <2>1. pc'[f] = pc[f] /\ val'[f] = val[f] /\ todo'[f] = todo[f]
    <3>1. CASE Replay!ReplayTerminalCall(e)
      BY <1>0, <1>1, <3>1 DEF Replay!ReplayTerminalCall, Replay!TerminalCall, Replay!Goto
    <3>2. CASE Replay!ReplayHandle(e) \/ Replay!ReplayReturn(e)
      BY <1>0, <1>1, <3>2 DEF Replay!ReplayHandle, Replay!ReplayReturn, Replay!NextSnapshot,
         Replay!SerializeNext, Replay!NextEnter, Replay!NextLeave, Replay!NextReturn,
         Replay!TerminalExchange, Replay!TerminalEnter, Replay!TerminalLeave,
         Replay!TerminalReturn, Replay!Goto
    <3> QED
      BY <3>1, <3>2 DEF Emission
  <2> QED
    BY <2>1
<1>2. CASE f = e
  <2>0. Rep!InOnNext(e) /\ v = val[e]
    BY <1>2 DEF Rep!InOnNext
  <2>a. todo[e] \in Seq(Newcomers) /\ Rep!IsInjective(todo[e])
    BY <1>0 DEF Rep!Copies
  <2>1. CASE Replay!NextSnapshot(e)
    <3>1. o \in Rep!Range(m_observers)
      <4>1. ~ \E g \in Emitters : pc[g] \in Rep!Ending /\ o \in Rep!Range(todo[g])
        <5> SUFFICES ASSUME NEW g \in Emitters, pc[g] \in Rep!Ending, o \in Rep!Range(todo[g])
                     PROVE  FALSE
          OBVIOUS
        <5>1. todo[g] # <<>>
          BY DEF Rep!Range
        <5> QED
          BY <1>0, <5>1 DEF Rep!Telling
      <4> QED
        BY <1>0, <4>1 DEF Rep!NobodyForgotten, Hears
    <3>2. m_observers # <<>>
      BY <3>1 DEF Rep!Range
    <3>3. todo'[e] = m_observers /\ pc'[e] = "serialize" /\ val'[e] = val[e]
      BY <1>0, <2>1, <3>2 DEF Replay!NextSnapshot, Replay!Goto
    <3> QED
      BY <1>2, <2>0, <3>1, <3>3
  <2>2. CASE Replay!SerializeNext(e)
    <3>1. pc[e] = "serialize" /\ pc'[e] = "broadcast" /\ val'[e] = val[e] /\ todo'[e] = todo[e]
      BY <1>0, <2>2 DEF Replay!SerializeNext, Replay!Goto
    <3> QED
      BY <1>2, <3>1
  <2>3. CASE Replay!NextEnter(e)
    <3>1. pc[e] = "broadcast" /\ todo[e] # <<>> /\ val' = val
      BY <2>3 DEF Replay!NextEnter
    <3>2. Rep!Range(todo[e]) = {Head(todo[e])} \union Rep!Range(Tail(todo[e]))
      BY <2>a, <3>1, Rep!First
    <3>3. o \in Rep!Range(todo[e])
      BY <1>2, <3>1
    <3>4. CASE observer[Head(todo[e])] = "open"
      <4>1. pc'[e] = "in_next" /\ todo' = todo
        BY <1>0, <2>3, <3>4 DEF Replay!NextEnter, Replay!Goto
      <4>2. CASE o = Head(todo[e])
        <5>1. UNCHANGED <<replay, stored, phase, sub, observer>>
          BY <2>3, EmissionFrame DEF Replay!NextEnter
        <5>2. Called(e)
          BY <2>3, <3>4, <5>1 DEF Called, Replay!NextEnter
        <5> QED
          BY <2>0, <4>2, <5>2
      <4>3. CASE o # Head(todo[e])
        BY <1>2, <2>0, <3>1, <3>2, <3>3, <4>1, <4>3
      <4> QED
        BY <4>2, <4>3
    <3>5. CASE observer[Head(todo[e])] # "open"
      <4>1. pc' = pc /\ todo'[e] = Tail(todo[e])
        BY <1>0, <2>3, <3>5 DEF Replay!NextEnter
      <4>2. o # Head(todo[e])
        BY <3>5 DEF Hears
      <4> QED
        BY <1>2, <2>0, <3>1, <3>2, <3>3, <4>1, <4>2
    <3> QED
      BY <3>4, <3>5
  <2>4. CASE Replay!NextLeave(e)
    <3>1. pc[e] = "in_next" /\ pc'[e] = "broadcast" /\ val' = val /\ todo'[e] = Tail(todo[e])
      BY <1>0, <2>4 DEF Replay!NextLeave, Replay!Goto
    <3> QED
      BY <1>2, <3>1
  <2>5. ~Replay!NextReturn(e)
    <3> SUFFICES ASSUME Replay!NextReturn(e) PROVE FALSE
      OBVIOUS
    <3>1. pc[e] = "broadcast" /\ todo[e] = <<>>
      BY DEF Replay!NextReturn
    <3>2. o \in Rep!Range(todo[e])
      BY <1>2, <3>1
    <3> QED
      BY <3>1, <3>2 DEF Rep!Range
  <2>6. ~Replay!ReplayTerminalCall(e) /\ ~Replay!TerminalExchange(e) /\ ~Replay!TerminalEnter(e)
        /\ ~Replay!TerminalLeave(e) /\ ~Replay!TerminalReturn(e)
    BY <2>0 DEF Rep!InOnNext, Replay!ReplayTerminalCall, Replay!TerminalCall, Replay!Call,
       Replay!TerminalExchange, Replay!TerminalEnter, Replay!TerminalLeave, Replay!TerminalReturn
  <2> QED
    BY <2>1, <2>2, <2>3, <2>4, <2>5, <2>6 DEF Emission, Replay!ReplayHandle, Replay!ReplayReturn
<1> QED
  BY <1>1, <1>2

\* An emitter's steps.
LEMMA EmissionKeeps ==
  ASSUME Rep!Control, Rep!Delivery, StoreTypes, GivenInv, QuietInv, FollowsInv,
         NEW e \in Emitters, Emission(e)
  PROVE  /\ GivenInv' /\ QuietInv' /\ FollowsInv'
         /\ \/ UNCHANGED live
            \/ Called(e) /\ live' = [live EXCEPT ![Head(todo[e])] = Append(@, val[e])]
<1>1. /\ UNCHANGED <<used, stored, quiet, phase, sub, replay>>
      /\ m_state' = "observers" => m_state = "observers"
      /\ \A o \in Newcomers : observer'[o] = "open" => observer[o] = "open"
      /\ \A f \in Emitters : Rep!InOnNext(f)' => Rep!InOnNext(f) /\ val'[f] = val[f]
      /\ UNCHANGED got \/ Called(e)
  BY EmissionFrame
<1>2. quiet \subseteq Newcomers
  BY DEF QuietInv
<1>3. \A o \in quiet : /\ phase'[o] = "new" => phase[o] = "new"
                       /\ Replay!Joining(o)' => Replay!Joining(o)
                       /\ Hears(o)' => Hears(o)
  BY <1>1, <1>2 DEF Replay!Joining, Hears
<1>4. CASE ~Called(e)
  <2>1. Aside
    BY <1>1, <1>4 DEF Aside
  <2>2. GivenInv' /\ UNCHANGED live
    BY <2>1, AsideKeeps
  <2>3. QuietInv'
    BY <1>1, <1>3, <2>2, KeepsQuiet
  <2>4. \A o \in quiet : Hears(o) /\ Hears(o)' /\ m_state = "observers" =>
          \A f \in Emitters, v \in used : Rep!Carries(f, v, o) => Rep!Carries(f, v, o)'
    BY <1>2, <1>4, EmissionCarries
  <2>5. FollowsInv'
    BY <1>1, <1>3, <2>2, <2>4, KeepsFollowing
  <2> QED
    BY <2>2, <2>3, <2>5
<1>5. CASE Called(e)
  <2>1. GivenInv' /\ live' = [live EXCEPT ![Head(todo[e])] = Append(@, val[e])]
    BY <1>5, CalledKeeps
  <2>2. PICK p : p = Head(todo[e])
    OBVIOUS
  <2>3. live' = [live EXCEPT ![p] = Append(@, val[e])]
    BY Zenon, <2>1, <2>2
  <2>4. Rep!InOnNext(e) /\ val[e] \in Replay!Values /\ live \in [Newcomers -> Seq(Replay!Values)]
    <3>1. Rep!InOnNext(e)
      BY <1>5 DEF Called, Rep!InOnNext
    <3>2. val[e] \in Rep!Values /\ live \in [Newcomers -> Seq(Rep!Values)]
      BY <3>1 DEF Rep!Delivery, Rep!ValueTypes, Rep!ValuesApart
    <3> QED
      BY <3>1, <3>2 DEF Rep!Values, Replay!Values
  <2>5. \A o \in Newcomers :
          /\ o # p => live'[o] = live[o]
          /\ o = p => Rep!Range(live'[o]) = Rep!Range(live[o]) \union {val[e]}
    <3>1. \A o \in Newcomers : o # p => live'[o] = live[o]
      BY <2>3, <2>4
    <3>2. ASSUME p \in Newcomers PROVE Rep!Range(live'[p]) = Rep!Range(live[p]) \union {val[e]}
      <4>1. live'[p] = Append(live[p], val[e])
        BY <2>3, <2>4, <3>2
      <4>2. Rep!Range(Append(live[p], val[e])) = Rep!Range(live[p]) \union {val[e]}
        BY <2>4, <3>2, Rep!Added
      <4> QED
        BY Zenon, <4>1, <4>2
    <3> QED
      BY <3>1, <3>2
  <2>6. \A o \in quiet : \A x \in Rep!Range(live'[o]) :
          x \in Rep!Range(live[o]) \/ \E f \in Emitters : Rep!InOnNext(f) /\ x = val[f]
    <3> SUFFICES ASSUME NEW o \in quiet, NEW x \in Rep!Range(live'[o])
                 PROVE  x \in Rep!Range(live[o]) \/ x = val[e]
      BY <2>4
    <3>1. o \in Newcomers
      BY <1>2
    <3>2. CASE o = p
      BY Zenon, <2>5, <3>1, <3>2
    <3>3. CASE o # p
      BY Zenon, <2>5, <3>1, <3>3
    <3> QED
      BY <3>2, <3>3
  <2>7. \A o \in quiet : \A v \in Rep!Range(live[o]) : v \in Rep!Range(live'[o])
    <3> SUFFICES ASSUME NEW o \in quiet, NEW v \in Rep!Range(live[o]) PROVE v \in Rep!Range(live'[o])
      OBVIOUS
    <3>1. o \in Newcomers
      BY <1>2
    <3>2. CASE o = p
      BY Zenon, <2>5, <3>1, <3>2
    <3>3. CASE o # p
      BY Zenon, <2>5, <3>1, <3>3
    <3> QED
      BY <3>2, <3>3
  <2>8. QuietInv'
    BY <1>1, <1>3, <2>6, KeepsQuiet
  <2>9. \A o \in quiet : Hears(o) /\ Hears(o)' /\ m_state = "observers" =>
          \A f \in Emitters, v \in used :
            Rep!Carries(f, v, o) => Rep!Carries(f, v, o)' \/ v \in Rep!Range(live'[o])
    <3> SUFFICES ASSUME NEW o \in quiet, Hears(o), Hears(o)', m_state = "observers",
                        NEW f \in Emitters, NEW v \in used, Rep!Carries(f, v, o)
                 PROVE  Rep!Carries(f, v, o)' \/ v \in Rep!Range(live'[o])
      OBVIOUS
    <3>1. o \in Newcomers
      BY <1>2
    <3>2. Rep!Carries(f, v, o)' \/ (o = Head(todo[e]) /\ v = val[e])
      BY <3>1, EmissionCarries
    <3>3. CASE o = Head(todo[e]) /\ v = val[e]
      <4>1. o = p
        BY Zenon, <2>2, <3>3
      <4>2. Rep!Range(live'[o]) = Rep!Range(live[o]) \union {val[e]}
        BY Zenon, <2>5, <3>1, <4>1
      <4> QED
        BY Zenon, <3>3, <4>2
    <3> QED
      BY <3>2, <3>3
  <2>10. FollowsInv'
    BY <1>1, <1>3, <2>7, <2>9, KeepsFollowing
  <2> QED
    BY <1>5, <2>1, <2>8, <2>10
<1> QED
  BY <1>4, <1>5

\* A call of on_next: the value is new to everybody, and whoever is joining is
\* not quiet any more.
LEMMA StoreKeeps ==
  ASSUME Rep!Control, StoreTypes, StoreInv, GivenInv, QuietInv, FollowsInv,
         NEW e \in Emitters, Replay!StoreNext(e)
  PROVE  GivenInv' /\ QuietInv' /\ FollowsInv' /\ UNCHANGED live
<1> USE BoundsAssumption
<1>1. /\ pc[e] = "idle" /\ pc' = [pc EXCEPT ![e] = "snapshot"] /\ val' = [val EXCEPT ![e] = calls + 1]
      /\ used' = used \union {calls + 1} /\ quiet' = {o \in quiet : ~Replay!Joining(o)}
      /\ UNCHANGED <<got, sub, observer, m_state, todo, replay, phase, stored>>
  BY DEF Replay!StoreNext, Replay!NextCall, Replay!Call, Replay!Goto, Replay!subject, Replay!obs
<1>2. /\ pc \in [Emitters -> Rep!PcValues] /\ val \in [Emitters -> Replay!Kept] /\ calls \in Nat
      /\ used \subseteq 1..calls /\ quiet \subseteq Newcomers
  BY DEF Rep!Control, Rep!ControlTypes, StoreTypes, StoreInv
<1>3. Aside
  BY <1>1 DEF Aside
<1>4. GivenInv' /\ UNCHANGED live
  BY <1>3, AsideKeeps
<1>5. calls + 1 \notin used
  BY <1>2
<1>6. ASSUME NEW o \in quiet' PROVE Quiet(o)'
  <2>1. o \in quiet /\ Quiet(o) /\ ~Replay!Joining(o)' /\ ~Replay!Joining(o)
    BY <1>1 DEF QuietInv, Replay!Joining
  <2>2. phase'[o] # "new" /\ stored'[o].of \subseteq used'
    BY <1>1, <2>1 DEF Quiet
  <2>3. (Rep!Range(live[o]) \intersect stored[o].of)' = {}
    BY Zenon, <1>1, <1>4, <2>1 DEF Quiet, Rep!Range
  <2>4. ASSUME NEW f \in Emitters, Rep!InOnNext(f)' PROVE val'[f] \notin stored'[o].of
    <3>1. CASE f = e
      BY <1>1, <1>2, <1>5, <2>1, <3>1 DEF Quiet
    <3>2. CASE f # e
      BY <1>1, <1>2, <2>1, <2>4, <3>2 DEF Quiet, Rep!InOnNext
    <3> QED
      BY <3>1, <3>2
  <2> QED
    BY <2>1, <2>2, <2>3, <2>4 DEF Quiet
<1>7. ASSUME NEW o \in quiet', m_state' = "observers", Hears(o)' PROVE Follows(o)'
  <2>1. o \in quiet /\ Follows(o)
    BY <1>1, <1>7 DEF FollowsInv, Hears
  <2>2. Rep!Range(live[o])' = Rep!Range(live[o])
    BY Zenon, <1>4 DEF Rep!Range
  <2>3. ASSUME NEW f \in Emitters, NEW v, Rep!Carries(f, v, o) PROVE Rep!Carries(f, v, o)'
    <3>1. f # e
      BY <1>1, <2>3 DEF Rep!Carries
    <3>2. pc'[f] = pc[f] /\ val'[f] = val[f] /\ todo' = todo
      BY <1>1, <1>2, <3>1
    <3> QED
      BY <2>3, <3>2 DEF Rep!Carries, Rep!Pending
  <2>4. ASSUME NEW v \in used' \ stored'[o].of
        PROVE  v \in Rep!Range(live[o])' \/ \E f \in Emitters : Rep!Carries(f, v, o)'
    <3>1. CASE v = calls + 1
      <4>1. PICK n : n = calls + 1
        OBVIOUS
      <4>2. val'[e] = n /\ pc'[e] = "snapshot"
        BY <1>1, <1>2, <4>1
      <4>3. v = n
        BY <3>1, <4>1
      <4>4. Rep!Carries(e, v, o)'
        BY <4>2, <4>3 DEF Rep!Carries
      <4> QED
        BY <4>4
    <3>2. CASE v # calls + 1
      <4>1. v \in used \ stored[o].of
        BY <1>1, <2>4, <3>2
      <4>2. v \in Rep!Range(live[o]) \/ \E f \in Emitters : Rep!Carries(f, v, o)
        BY <2>1, <4>1 DEF Follows
      <4> QED
        BY <2>2, <2>3, <4>2
    <3> QED
      BY <3>1, <3>2
  <2> QED
    BY <2>4 DEF Follows
<1>8. QuietInv'
  <2>1. quiet' \subseteq Newcomers
    BY <1>1, <1>2
  <2> QED
    BY <1>6, <2>1 DEF QuietInv
<1>9. FollowsInv'
  BY <1>7 DEF FollowsInv
<1> QED
  BY <1>4, <1>8, <1>9

\* Steps of those that come and go, and the disposal of the subject.
LEMMA AsideFollows ==
  ASSUME QuietInv, FollowsInv, UNCHANGED live, UNCHANGED <<used, stored, quiet, pc, val, todo>>,
         \A o \in quiet : /\ phase'[o] = "new" => phase[o] = "new"
                          /\ Replay!Joining(o)' => Replay!Joining(o),
         m_state' = "observers" => m_state = "observers",
         \A o \in quiet : Hears(o)' /\ m_state' = "observers" => Hears(o) \/ used = stored[o].of
  PROVE  QuietInv' /\ FollowsInv'
<1>1. \A e \in Emitters : Rep!InOnNext(e)' => Rep!InOnNext(e) /\ val'[e] = val[e]
  BY DEF Rep!InOnNext
<1>2. QuietInv'
  BY <1>1, KeepsQuiet
<1>3. \A o \in quiet : \A e \in Emitters, v \in used : Rep!Carries(e, v, o) => Rep!Carries(e, v, o)'
  BY DEF Rep!Carries, Rep!Pending
<1>4. FollowsInv'
  BY <1>3, KeepsFollowing
<1> QED
  BY <1>2, <1>4

\* An observer that reads the store is quiet if nobody is in on_next.
LEMMA ReadKeeps ==
  ASSUME Rep!Control, StoreTypes, StoreTypes', GivenInv, QuietInv, FollowsInv,
         NEW p \in Newcomers, Replay!ReadStored(p)
  PROVE  GivenInv' /\ QuietInv' /\ FollowsInv' /\ UNCHANGED live
<1>1. GivenInv' /\ UNCHANGED live
  BY ReadStoredGives
<1>2. /\ phase[p] = "new" /\ phase' = [phase EXCEPT ![p] = "replay"]
      /\ stored'[p].of = used /\ \A o \in Newcomers : o # p => stored'[o] = stored[o]
      /\ quiet' = IF \A e \in Emitters : pc[e] = "idle" THEN quiet \union {p} ELSE quiet
      /\ UNCHANGED <<used, pc, val, todo, sub, observer, got, m_state>>
  BY DEF Replay!ReadStored, Replay!vars, Replay!subject, Replay!emitter, Replay!obs, Replay!history,
     StoreTypes
<1>3. sub[p] = "new" /\ live[p] = <<>>
  BY <1>2 DEF GivenInv, Given, GivenSoFar, live
<1>4. p \notin quiet /\ quiet \subseteq Newcomers
  BY <1>2 DEF QuietInv, Quiet
<1>5. ASSUME NEW o \in quiet PROVE Quiet(o)' /\ (m_state' = "observers" /\ Hears(o)' => Follows(o)')
  <2>1. o # p /\ o \in Newcomers /\ Quiet(o)
    BY <1>4 DEF QuietInv
  <2>2. /\ stored'[o] = stored[o] /\ phase'[o] = phase[o] /\ live'[o] = live[o] /\ used' = used
        /\ sub'[o] = sub[o] /\ observer'[o] = observer[o] /\ pc' = pc /\ val' = val /\ todo' = todo
    BY <1>1, <1>2, <2>1 DEF StoreTypes
  <2>3. Quiet(o)'
    BY <2>1, <2>2 DEF Quiet, Replay!Joining, Rep!InOnNext, Rep!Range
  <2>4. ASSUME m_state' = "observers", Hears(o)' PROVE Follows(o)'
    <3>1. Follows(o)
      BY <1>2, <2>2, <2>4 DEF FollowsInv, Hears
    <3> QED
      BY <2>2, <3>1 DEF Follows, Rep!Range, Rep!Carries, Rep!Pending
  <2> QED
    BY <2>3, <2>4
<1>6. ASSUME \A e \in Emitters : pc[e] = "idle"
      PROVE  Quiet(p)' /\ ~Hears(p)'
  <2>1. phase'[p] = "replay" /\ sub'[p] = "new" /\ live'[p] = <<>> /\ stored'[p].of = used'
    BY <1>1, <1>2, <1>3 DEF StoreTypes
  <2>2. Rep!Range(live[p])' = {}
    BY <2>1 DEF Rep!Range
  <2>3. \A e \in Emitters : ~Rep!InOnNext(e)'
    BY <1>2, <1>6 DEF Rep!InOnNext
  <2>4. ~Hears(p)'
    BY <2>1 DEF Hears, Rep!Joined
  <2> QED
    BY <2>1, <2>2, <2>3, <2>4 DEF Quiet
<1>7. QuietInv'
  BY <1>2, <1>4, <1>5, <1>6 DEF QuietInv
<1>8. FollowsInv'
  <2> SUFFICES ASSUME m_state' = "observers", NEW o \in quiet', Hears(o)' PROVE Follows(o)'
    BY DEF FollowsInv
  <2>1. o \in quiet
    BY <1>2, <1>6
  <2> QED
    BY <1>5, <2>1
<1> QED
  BY <1>1, <1>7, <1>8

\* One that is given of the store is as quiet as before.
LEMMA GiveKeeps ==
  ASSUME StoreTypes, StoreTypes', GivenInv, QuietInv, FollowsInv,
         NEW p \in Newcomers, Replay!GiveStored(p)
  PROVE  GivenInv' /\ QuietInv' /\ FollowsInv' /\ UNCHANGED live
<1>1. GivenInv' /\ UNCHANGED live
  BY GiveStoredGives
<1>2. /\ UNCHANGED <<used, stored, quiet, pc, val, todo, sub, observer, m_state>>
      /\ phase[p] = "replay" /\ (phase' = phase \/ phase' = [phase EXCEPT ![p] = "done"])
  BY DEF Replay!GiveStored, Replay!subject, Replay!emitter, Replay!history
<1>3. sub[p] = "new" /\ quiet \subseteq Newcomers
  BY <1>2 DEF GivenInv, Given, GivenSoFar, QuietInv
<1>4. \A o \in quiet : /\ phase'[o] = "new" => phase[o] = "new"
                       /\ Replay!Joining(o)' => Replay!Joining(o)
                       /\ Hears(o)' => Hears(o)
  BY <1>2, <1>3 DEF Replay!Joining, Hears, StoreTypes
<1> QED
  BY <1>1, <1>2, <1>4, AsideFollows

\* One that joins has all values there are, or one is on its way to it.
LEMMA JoinKeeps ==
  ASSUME Rep!Control, StoreTypes, GivenInv, QuietInv, FollowsInv,
         NEW p \in Newcomers, Replay!ReplaySubscribe(p)
  PROVE  GivenInv' /\ QuietInv' /\ FollowsInv' /\ UNCHANGED live
<1>1. GivenInv' /\ UNCHANGED live
  BY JoinGives
<1>2. /\ phase[p] = "done" /\ sub[p] = "new"
      /\ UNCHANGED <<used, stored, quiet, pc, val, todo, phase, observer, m_state>>
      /\ \E label \in {"listed", "refused", "late"} : sub' = [sub EXCEPT ![p] = label]
  BY DEF Replay!ReplaySubscribe, Replay!Subscribe, Replay!Become, Replay!emitter, Replay!history,
     Replay!replays
<1>3. quiet \subseteq Newcomers /\ (p \in quiet => used = stored[p].of)
  BY <1>2 DEF QuietInv, Quiet, Replay!Joining
<1>4. \A o \in Newcomers : o # p => sub'[o] = sub[o]
  BY <1>2 DEF Rep!Control, Rep!ControlTypes
<1>5. sub'[p] # "new"
  BY <1>2 DEF Rep!Control, Rep!ControlTypes
<1>6. \A o \in quiet : /\ phase'[o] = "new" => phase[o] = "new"
                       /\ Replay!Joining(o)' => Replay!Joining(o)
                       /\ Hears(o)' => Hears(o) \/ used = stored[o].of
  BY <1>2, <1>3, <1>4, <1>5 DEF Replay!Joining, Hears
<1> QED
  BY <1>1, <1>2, <1>6, AsideFollows

\* No list comes back, nobody joins or opens again.
NobodyOpens ==
  /\ m_state' = "observers" => m_state = "observers"
  /\ \A o \in Newcomers :
       /\ sub'[o] = "new" <=> sub[o] = "new"
       /\ observer'[o] = "open" => observer[o] = "open"
       /\ sub'[o] \in Rep!Joined /\ observer'[o] = "open" => sub[o] \in Rep!Joined

\* Steps of those that leave or are late, and dispose().
LEMMA ComeAndGoKeeps ==
  ASSUME Rep!Control, GivenInv, QuietInv, FollowsInv,
         (\E o \in Newcomers : Replay!ReplayOnSubscribe(o)) \/ Replay!ReplayDispose
  PROVE  GivenInv' /\ QuietInv' /\ FollowsInv' /\ UNCHANGED live
<1>1. UNCHANGED <<used, stored, quiet, pc, val, todo, phase, got, replay>>
  BY DEF Replay!ReplayOnSubscribe, Replay!OnSubscribe, Replay!UpstreamEnter, Replay!UpstreamLeave,
     Replay!LateEnter, Replay!LateLeave, Replay!CleanupObservers, Replay!Unsubscribe,
     Replay!ReplayDispose, Replay!DisposeSubject, Replay!vars, Replay!emitter, Replay!obs,
     Replay!history, Replay!replays
<1>2. /\ observer \in [Newcomers -> {"open", "disposed"} \union Terminals] /\ Rep!LateOnes
      /\ sub \in [Newcomers -> Rep!Joined \union {"new", "late", "in_late", "refused"}]
  BY DEF Rep!Control, Rep!ControlTypes
<1>3. NobodyOpens
  <2>1. CASE Replay!ReplayDispose
    BY <2>1 DEF Replay!ReplayDispose, Replay!DisposeSubject, Replay!Exchange, Replay!vars,
       Replay!subject, Replay!obs, NobodyOpens
  <2>2. ASSUME NEW p \in Newcomers, Replay!UpstreamEnter(p) \/ Replay!UpstreamLeave(p)
        PROVE  /\ UNCHANGED <<m_state, observer>> /\ sub[p] \in Rep!Joined
               /\ \E k \in Rep!Joined : sub' = [sub EXCEPT ![p] = k]
    BY <2>2 DEF Replay!UpstreamEnter, Replay!UpstreamLeave, Replay!Become, Replay!subject, Rep!Joined
  <2>3. ASSUME NEW p \in Newcomers, Replay!LateEnter(p)
        PROVE  /\ UNCHANGED m_state /\ sub[p] = "late" /\ sub' = [sub EXCEPT ![p] = "in_late"]
               /\ (observer' = observer \/ observer' = [observer EXCEPT ![p] = m_state])
               /\ observer'[p] # "open"
    BY <1>2, <2>3, TerminalsAssumption DEF Replay!LateEnter, Replay!Become, Replay!subject, Rep!LateOnes
  <2>4. ASSUME NEW p \in Newcomers, Replay!LateLeave(p)
        PROVE  /\ UNCHANGED <<m_state, observer>> /\ observer[p] # "open" /\ sub[p] = "in_late"
               /\ sub' = [sub EXCEPT ![p] = "subscribed"]
    BY <1>2, <2>4 DEF Replay!LateLeave, Replay!Become, Replay!subject, Rep!LateOnes
  <2>5. ASSUME NEW p \in Newcomers, Replay!CleanupObservers(p) \/ Replay!Unsubscribe(p)
        PROVE  /\ UNCHANGED <<m_state, sub>>
               /\ (observer' = observer \/ observer' = [observer EXCEPT ![p] = "disposed"])
    BY <2>5 DEF Replay!CleanupObservers, Replay!Unsubscribe, Replay!subject
  <2>6. ASSUME NEW p \in Newcomers, Replay!ReplayOnSubscribe(p)
        PROVE  Replay!UpstreamEnter(p) \/ Replay!UpstreamLeave(p) \/ Replay!LateEnter(p)
                 \/ Replay!LateLeave(p) \/ Replay!CleanupObservers(p) \/ Replay!Unsubscribe(p)
    BY <2>6 DEF Replay!ReplayOnSubscribe, Replay!OnSubscribe
  <2>7. ASSUME NEW p \in Newcomers, Replay!UpstreamEnter(p) \/ Replay!UpstreamLeave(p) PROVE NobodyOpens
    BY <1>2, <2>2, <2>7 DEF Rep!Joined, NobodyOpens
  <2>8. ASSUME NEW p \in Newcomers, Replay!LateEnter(p) PROVE NobodyOpens
    BY <1>2, <2>3, <2>8 DEF Rep!Joined, NobodyOpens
  <2>9. ASSUME NEW p \in Newcomers, Replay!LateLeave(p) PROVE NobodyOpens
    BY <1>2, <2>4, <2>9 DEF Rep!Joined, NobodyOpens
  <2>10. ASSUME NEW p \in Newcomers, Replay!CleanupObservers(p) \/ Replay!Unsubscribe(p) PROVE NobodyOpens
    BY <1>2, <2>5, <2>10 DEF Rep!Joined, NobodyOpens
  <2> QED
    BY <2>1, <2>6, <2>7, <2>8, <2>9, <2>10
<1>4. quiet \subseteq Newcomers
  BY DEF QuietInv
<1>5. Aside
  BY <1>1, <1>3 DEF Aside, NobodyOpens
<1>6. GivenInv' /\ UNCHANGED live
  BY <1>5, AsideKeeps
<1>7. \A o \in quiet : /\ phase'[o] = "new" => phase[o] = "new"
                       /\ Replay!Joining(o)' => Replay!Joining(o)
                       /\ Hears(o)' => Hears(o)
  BY <1>1, <1>3, <1>4 DEF Replay!Joining, Hears, NobodyOpens
<1>8. m_state' = "observers" => m_state = "observers"
  BY <1>3 DEF NobodyOpens
<1> QED
  BY <1>1, <1>6, <1>7, <1>8, AsideFollows

\* What holds of a replay or behavior subject besides.
ReplayInv == StoreTypes /\ GivenInv /\ StoreInv /\ QuietInv /\ FollowsInv

\* A step of one is a step of its subject_state, as far as those that joined
\* can tell.
LEMMA ReplayStep ==
  ASSUME Rep!Control, Rep!Delivery, ReplayInv, Replay!ReplayNext
  PROVE  ReplayInv' /\ (Rep!Next \/ UNCHANGED Rep!vars)
<1> USE DEF ReplayInv
<1>0. StoreTypes' /\ StoreInv'
  BY StoreTypesStep, StoreInvStep
<1>1. ASSUME NEW e \in Emitters, Replay!StoreNext(e) PROVE ReplayInv' /\ Rep!Next
  <2>1. GivenInv' /\ QuietInv' /\ FollowsInv' /\ UNCHANGED live
    BY <1>1, StoreKeeps
  <2>2. Rep!NextCall(e)
    BY <1>1, <2>1, ReplayEmitters DEF Replay!StoreNext
  <2> QED
    BY <1>0, <2>1, <2>2 DEF Rep!Next, Rep!Emit
<1>2. ASSUME NEW e \in Emitters, Emission(e) PROVE ReplayInv' /\ Rep!Next
  <2>1. /\ GivenInv' /\ QuietInv' /\ FollowsInv'
        /\ \/ UNCHANGED live
           \/ Called(e) /\ live' = [live EXCEPT ![Head(todo[e])] = Append(@, val[e])]
    BY <1>2, EmissionKeeps
  <2>2. CASE Replay!NextEnter(e)
    <3>1. Rep!NextEnter(e)
      <4>1. CASE observer[Head(todo[e])] = "open"
        <5>1. Called(e)
          <6>1. UNCHANGED <<replay, stored, phase, sub, observer>>
            BY <1>2, <2>2, EmissionFrame DEF Replay!NextEnter
          <6> QED
            BY <2>2, <4>1, <6>1 DEF Replay!NextEnter, Called
        <5>2. live' = [live EXCEPT ![Head(todo[e])] = Append(@, val[e])]
          BY <5>1, CalledKeeps
        <5> QED
          BY Zenon, <2>2, <4>1, <5>2 DEF Replay!NextEnter, Rep!NextEnter, Replay!Goto, Rep!Goto,
             Replay!subject, Rep!subject, Replay!history, Rep!history
      <4>2. CASE observer[Head(todo[e])] # "open"
        <5>1. UNCHANGED live
          BY <2>1, <4>2 DEF Called
        <5> QED
          BY Zenon, <2>2, <4>2, <5>1 DEF Replay!NextEnter, Rep!NextEnter, Replay!Goto, Rep!Goto,
             Replay!subject, Rep!subject, Replay!history, Rep!history
      <4> QED
        BY <4>1, <4>2
    <3> QED
      BY <1>0, <2>1, <3>1 DEF Rep!Next, Rep!Handle
  <2>3. CASE Replay!NextSnapshot(e) \/ Replay!SerializeNext(e) \/ Replay!NextLeave(e)
               \/ Replay!NextReturn(e) \/ Replay!TerminalCall(e) \/ Replay!TerminalExchange(e)
               \/ Replay!TerminalEnter(e) \/ Replay!TerminalLeave(e) \/ Replay!TerminalReturn(e)
    <3>1. UNCHANGED <<got, sub, stored>>
      <4>1. UNCHANGED <<sub, stored>>
        BY <1>2, EmissionFrame
      <4> QED
        BY <2>3, <4>1 DEF Replay!NextSnapshot, Replay!SerializeNext, Replay!NextLeave,
           Replay!NextReturn, Replay!TerminalCall, Replay!TerminalExchange, Replay!TerminalEnter,
           Replay!TerminalLeave, Replay!TerminalReturn, Replay!obs
    <3>2. UNCHANGED live
      BY <3>1 DEF live
    <3>3. Rep!Emit(e) \/ Rep!Handle(e)
      BY <2>3, <3>2, ReplayEmitters DEF Rep!Emit, Rep!Handle
    <3> QED
      BY <1>0, <2>1, <3>3 DEF Rep!Next
  <2> QED
    BY <1>2, <2>2, <2>3 DEF Emission, Replay!ReplayTerminalCall, Replay!ReplayHandle, Replay!ReplayReturn
<1>3. ASSUME NEW o \in Newcomers, Replay!ReadStored(o) \/ Replay!GiveStored(o)
      PROVE  ReplayInv' /\ UNCHANGED Rep!vars
  <2>1. GivenInv' /\ QuietInv' /\ FollowsInv' /\ UNCHANGED live
    BY <1>0, <1>3, ReadKeeps, GiveKeeps
  <2>2. UNCHANGED Rep!vars
    BY <1>3, <2>1 DEF Replay!ReadStored, Replay!GiveStored, Replay!vars, Replay!subject,
       Replay!emitter, Replay!obs, Replay!history, Rep!vars, Rep!subject, Rep!emitter, Rep!obs,
       Rep!history
  <2> QED
    BY <1>0, <2>1, <2>2
<1>4. ASSUME NEW o \in Newcomers, Replay!ReplaySubscribe(o) PROVE ReplayInv' /\ Rep!Next
  <2>1. GivenInv' /\ QuietInv' /\ FollowsInv' /\ UNCHANGED live
    BY <1>4, JoinKeeps
  <2>2. Rep!Subscribe(o)
    BY <1>4, <2>1, ReplayObservers DEF Replay!ReplaySubscribe
  <2> QED
    BY <1>0, <2>1, <2>2 DEF Rep!Next
<1>5. ASSUME NEW o \in Newcomers, Replay!ReplayOnSubscribe(o) PROVE ReplayInv' /\ Rep!Next
  <2>1. GivenInv' /\ QuietInv' /\ FollowsInv' /\ UNCHANGED live
    BY <1>5, ComeAndGoKeeps
  <2>2. Rep!OnSubscribe(o) \/ Rep!Unsubscribe(o)
    BY <1>5, <2>1, ReplayObservers DEF Replay!ReplayOnSubscribe, Replay!OnSubscribe, Rep!OnSubscribe
  <2> QED
    BY <1>0, <2>1, <2>2 DEF Rep!Next
<1>6. ASSUME Replay!ReplayDispose PROVE ReplayInv' /\ (Rep!Next \/ UNCHANGED Rep!vars)
  <2>1. GivenInv' /\ QuietInv' /\ FollowsInv' /\ UNCHANGED live
    BY <1>6, ComeAndGoKeeps
  <2>2. Rep!DisposeSubject \/ UNCHANGED Rep!vars
    BY <1>6, <2>1, ReplayProperties DEF Replay!ReplayDispose, Replay!vars, Replay!subject,
       Replay!emitter, Replay!obs, Replay!history, Rep!vars, Rep!subject, Rep!emitter, Rep!obs,
       Rep!history
  <2> QED
    BY <1>0, <2>1, <2>2 DEF Rep!Next
<1> QED
  BY <1>1, <1>2, <1>3, <1>4, <1>5, <1>6 DEF Replay!ReplayNext, Emission

\* Nothing has been given at the start.
LEMMA ReplayInvInit == Replay!ReplayInit => ReplayInv
<1> SUFFICES ASSUME Replay!ReplayInit PROVE ReplayInv
  OBVIOUS
<1>1. Len(<<>>) = 0
  OBVIOUS
<1>2. /\ quiet = {}
      /\ \A o \in Newcomers : /\ phase[o] = "new" /\ sub[o] = "new" /\ replay[o] = <<>> /\ got[o] = <<>>
                              /\ stored[o].read = <<>>
  BY DEF Replay!ReplayInit, Replay!Init
<1>3. GivenInv
  <2>1. GivenSoFar("new", "new", TRUE, <<>>, <<>>, <<>>) /\ GivenSoFar("new", "new", FALSE, <<>>, <<>>, <<>>)
    BY <1>1 DEF GivenSoFar, Agree, LeftOver
  <2>2. \A o \in Newcomers : observer[o] = "open"
    BY DEF Replay!ReplayInit, Replay!Init
  <2>3. ASSUME NEW o \in Newcomers PROVE Given(o)
    <3>1. GivenSoFar(phase[o], sub[o], TRUE, got[o], replay[o], stored[o].read)
      BY Zenon, <1>2, <2>1
    <3> QED
      BY <2>2, <3>1 DEF Given
  <2> QED
    BY <2>3 DEF GivenInv
<1>4. QuietInv /\ FollowsInv
  BY <1>2 DEF QuietInv, FollowsInv
<1> QED
  BY <1>3, <1>4, StoreTypesInit, StoreInvInit DEF ReplayInv

\* A stutter.
LEMMA ReplayStutters ==
  ASSUME ReplayInv, UNCHANGED <<pc, calls, kind, ofSubject, ofReplay>>
  PROVE  ReplayInv' /\ UNCHANGED Rep!vars
<1> USE DEF ofSubject, ofReplay
<1>1. StoreTypes' /\ StoreInv'
  <2>1. StoreTypes'
    BY DEF ReplayInv, StoreTypes
  <2>2. \A o \in Newcomers : phase'[o] # "new" => phase[o] # "new"
    OBVIOUS
  <2>3. StoreInv'
    BY <2>2, SameStore DEF ReplayInv
  <2> QED
    BY <2>1, <2>3
<1>2. UNCHANGED live
  BY DEF live
<1>3. GivenInv'
  BY DEF ReplayInv, GivenInv, Given, GivenSoFar, Agree, LeftOver
<1>4. QuietInv' /\ FollowsInv'
  BY <1>2 DEF ReplayInv, QuietInv, Quiet, Replay!Joining, Rep!InOnNext, Rep!Range, FollowsInv, Follows,
     Hears, Rep!Carries, Rep!Pending
<1>5. UNCHANGED Rep!vars
  BY <1>2 DEF Rep!vars, Rep!subject, Rep!emitter, Rep!obs, Rep!history
<1> QED
  BY <1>1, <1>3, <1>4, <1>5 DEF ReplayInv

\* The values an observer has, one by one: stored ones, then live ones.
LEMMA GotApart ==
  ASSUME Rep!Control, Rep!Delivery, ReplayInv, NEW o \in quiet
  PROVE  Replay!IsInjective(got[o])
<1>1. /\ o \in Newcomers /\ Quiet(o) /\ Given(o)
  BY DEF ReplayInv, QuietInv, GivenInv
<1>2. PICK g \in Seq(Replay!Kept), s \in Seq(Replay!Kept) : g = got[o] /\ s = stored[o].read
  BY <1>1 DEF ReplayInv, StoreTypes
<1>3. PICK n \in Nat, m \in Nat : n = Len(s) /\ m = Len(g) /\ DOMAIN g = 1..m
  BY LenProperties
<1>4. \A i \in 1..m : i <= n => g[i] = s[i]
  BY <1>1, <1>2, <1>3 DEF Given, GivenSoFar, Agree
<1>5. /\ \A i, j \in 1..n : i < j => s[i] < s[j]
      /\ \A i \in 1..n : s[i] \in stored[o].of \union {0} /\ s[i] \in Int
  <2>1. CASE Recent(s, stored[o].of)
    <3>1. TopOf(s, IF kind = "behavior" THEN stored[o].of \union {0} ELSE stored[o].of)
      BY <2>1, KeptNumbers DEF Recent
    <3>2. \A i \in 1..Len(s) : s[i] \in Int
      BY ElementOfSeq, KeptNumbers
    <3> QED
      BY <1>3, <3>1, <3>2 DEF TopOf
  <2>2. CASE s = <<>>
    BY <1>3, <2>2, EmptySeq
  <2>3. Recent(s, stored[o].of) \/ s = <<>>
    BY <1>1, <1>2 DEF ReplayInv, StoreInv, Quiet
  <2> QED
    BY <2>1, <2>2, <2>3
<1>6. ASSUME NEW i \in 1..m, NEW j \in 1..m, i < j PROVE g[i] # g[j]
  <2>1. CASE j <= n
    <3>1. i \in 1..n /\ j \in 1..n /\ g[i] = s[i] /\ g[j] = s[j]
      BY <1>4, <1>6, <2>1
    <3>2. s[i] < s[j] /\ s[i] \in Int
      BY <1>5, <1>6, <3>1
    <3> QED
      BY <3>1, <3>2
  <2>2. CASE n < j
    <3>1. sub[o] # "new"
      <4> SUFFICES ASSUME sub[o] = "new" PROVE FALSE
        OBVIOUS
      <4>1. m + Len(replay[o]) <= n /\ Len(replay[o]) \in Nat
        BY <1>1, <1>2, <1>3, LenProperties DEF Given, GivenSoFar, ReplayInv, StoreTypes
      <4> QED
        BY <2>2, <4>1
    <3>2. PICK l : l = live[o] /\ l = SubSeq(g, n + 1, m)
      BY <1>1, <1>2, <1>3, <3>1 DEF live
    <3>3. Len(l) = m - n /\ \A k \in 1..m - n : l[k] = g[n + k]
      <4>1. n <= m /\ m <= Len(g)
        BY <1>3, <2>2
      <4> QED
        BY <3>2, <4>1, PartOf
    <3>4. l \in Seq(Rep!Values) /\ Rep!IsInjective(l) /\ Rep!Range(l) \intersect stored[o].of = {}
      BY Zenon, <1>1, <3>2 DEF Rep!Delivery, Rep!ValueTypes, Rep!ValuesApart, Quiet
    <3>5. DOMAIN l = 1..m - n /\ \A k \in 1..m - n : l[k] \in Rep!Values
      BY <3>3, <3>4, LenProperties, ElementOfSeq
    <3>6. j - n \in 1..m - n /\ g[j] = l[j - n]
      <4>1. j - n \in 1..m - n /\ n + (j - n) = j
        BY <2>2
      <4> QED
        BY <3>3, <4>1
    <3>7. CASE i <= n
      <4>1. g[i] \in stored[o].of \union {0}
        BY <1>4, <1>5, <3>7
      <4>2. l[j - n] \in Rep!Range(l) /\ l[j - n] # 0
        BY <3>5, <3>6, BoundsAssumption DEF Rep!Range, Rep!Values
      <4> QED
        BY <3>4, <3>6, <4>1, <4>2
    <3>8. CASE n < i
      <4>1. i - n \in 1..m - n /\ n + (i - n) = i /\ i - n # j - n
        BY <1>6, <3>8
      <4>2. g[i] = l[i - n]
        BY <3>3, <4>1
      <4>3. l[i - n] # l[j - n]
        BY <3>4, <3>5, <3>6, <4>1 DEF Rep!IsInjective
      <4> QED
        BY <3>6, <4>2, <4>3
    <3> QED
      BY <3>7, <3>8
  <2> QED
    BY <2>1, <2>2
<1>7. ASSUME NEW i \in 1..m, NEW j \in 1..m, g[i] = g[j] PROVE i = j
  <2>1. ~(i < j) /\ ~(j < i)
    BY <1>6, <1>7
  <2> QED
    BY <2>1
<1> QED
  BY <1>2, <1>3, <1>7 DEF Replay!IsInjective

\* What it read of the store.
LEMMA ReadIsNewest ==
  ASSUME ReplayInv, NEW o \in quiet
  PROVE  /\ \A i \in 2..Len(stored[o].read) : stored[o].read[i - 1] < stored[o].read[i]
         /\ CASE kind = "replay" ->
                   Replay!ToSet(stored[o].read) = Replay!Newest(stored[o].of, Limit)
              [] kind = "timed" ->
                   \E n \in 0..Limit : Replay!ToSet(stored[o].read) = Replay!Newest(stored[o].of, n)
              [] kind = "behavior" ->
                   \/ m_disposed
                   \/ Replay!ToSet(stored[o].read) = Replay!Newest(stored[o].of \union {Replay!NoValue}, 1)
<1> USE BoundsAssumption
<1>1. o \in Newcomers /\ phase[o] # "new"
  BY DEF ReplayInv, QuietInv, Quiet
<1>2. PICK s \in Seq(Replay!Kept), of \in SUBSET Replay!Values : s = stored[o].read /\ of = stored[o].of
  BY <1>1 DEF ReplayInv, StoreTypes
<1>3. /\ kind \in {"replay", "timed", "behavior"} /\ Len(s) <= Limit /\ Len(s) \in Nat
      /\ Recent(s, of) \/ (kind = "behavior" /\ m_disposed /\ s = <<>>)
  BY <1>1, <1>2, LenProperties DEF ReplayInv, StoreTypes, StoreInv
<1>4. of \in SUBSET Int /\ IsFiniteSet(of) /\ IsFiniteSet(of \union {0})
  <2>1. IsFiniteSet(Replay!Values)
    BY FS_Interval DEF Replay!Values
  <2> QED
    BY <2>1, FS_Subset, FS_AddElement, KeptNumbers
<1>5. CASE ~Recent(s, of)
  <2>1. kind = "behavior" /\ m_disposed /\ Len(s) = 0
    BY <1>3, <1>5, EmptySeq
  <2> QED
    BY <1>2, <2>1
<1>6. CASE Recent(s, of)
  <2>1. PICK all \in SUBSET Int : all = IF kind = "behavior" THEN of \union {0} ELSE of
    <3>1. of \union {0} \subseteq Int
      BY ONLY <1>4
    <3> QED
      BY <1>4, <3>1
  <2>2. IsFiniteSet(all) /\ TopOf(s, all)
    BY <1>4, <1>6, <2>1, KeptNumbers DEF Recent
  <2>3. Replay!ToSet(s) = Replay!Newest(all, Len(s))
    BY <2>2, TopIsNewest, KeptNumbers
  <2>4. \A i \in 2..Len(s) : s[i - 1] < s[i]
    BY <1>3, <2>2 DEF TopOf
  <2>5. CASE kind = "replay"
    <3>1. all = of
      BY <2>1, <2>5
    <3>2. CASE Len(s) = Limit
      BY Zenon, <1>2, <2>3, <2>4, <2>5, <3>1, <3>2
    <3>3. CASE \A v \in of : \E i \in 1..Len(s) : v = s[i]
      <4>1. of \subseteq Replay!ToSet(s)
        BY <3>3, LenProperties DEF Replay!ToSet
      <4>2. \A v \in of : Replay!Cardinality({w \in of : v < w}) < Len(s)
        BY <2>3, <3>1, <4>1 DEF Replay!Newest
      <4>3. ASSUME NEW v \in of PROVE Replay!Cardinality({w \in of : v < w}) < Limit
        <5>1. IsFiniteSet({w \in of : v < w})
          BY <1>4, FS_Subset
        <5>2. Cardinality({w \in of : v < w}) \in Nat
          BY <5>1, FS_CardinalityType
        <5>3. Replay!Cardinality({w \in of : v < w}) = Cardinality({w \in of : v < w})
          BY SameCardinality
        <5> QED
          BY <1>3, <4>2, <5>2, <5>3
      <4>4. Replay!Newest(of, Limit) = of
        BY <4>3 DEF Replay!Newest
      <4>5. Replay!ToSet(s) \subseteq of
        BY <2>3, <3>1 DEF Replay!Newest
      <4>6. Replay!ToSet(s) = Replay!Newest(of, Limit)
        BY Zenon, <4>1, <4>4, <4>5
      <4> QED
        BY Zenon, <1>2, <2>4, <2>5, <4>6
    <3> QED
      BY <1>6, <2>5, <3>2, <3>3 DEF Recent
  <2>6. CASE kind = "timed"
    <3>1. all = of /\ Len(s) \in 0..Limit
      BY <1>3, <2>1, <2>6
    <3> QED
      BY <1>2, <2>3, <2>4, <2>6, <3>1
  <2>7. CASE kind = "behavior"
    <3>1. all = of \union {Replay!NoValue} /\ Len(s) = 1
      BY <1>6, <2>1, <2>7, KeptNumbers DEF Recent
    <3>2. Replay!ToSet(s) = Replay!Newest(of \union {Replay!NoValue}, 1)
      BY Zenon, <2>3, <3>1
    <3> QED
      BY <1>2, <2>4, <2>7, <3>2
  <2> QED
    BY <1>3, <2>5, <2>6, <2>7
<1> QED
  BY <1>5, <1>6

\* And what it has and hears then.
LEMMA HeardInOrder ==
  ASSUME Rep!Control, Rep!Delivery, ReplayInv, NEW o \in quiet, observer[o] = "open"
  PROVE  /\ Replay!IsPrefix(SubSeq(stored[o].read, 1, Len(stored[o].read) - Len(replay[o])), got[o])
         /\ sub[o] = "subscribed" /\ m_state = "observers" =>
              \A v \in used \ stored[o].of :
                Replay!Contains(got[o], v) \/ \E e \in Emitters : val[e] = v /\ Replay!InOnNext(e)
<1>1. /\ o \in Newcomers /\ Quiet(o) /\ Given(o)
  BY DEF ReplayInv, QuietInv, GivenInv
<1>2. PICK g \in Seq(Replay!Kept), s \in Seq(Replay!Kept), r \in Seq(Replay!Kept) :
        g = got[o] /\ s = stored[o].read /\ r = replay[o]
  BY <1>1 DEF ReplayInv, StoreTypes
<1>3. PICK n \in Nat, m \in Nat, k \in Nat :
        n = Len(s) /\ m = Len(g) /\ k = Len(r) /\ DOMAIN g = 1..m
  BY LenProperties
<1>4. Agree(g, s)
  BY <1>1, <1>2 DEF Given, GivenSoFar
<1>5. n - k \in 0..n /\ n - k <= m
  <2>1. CASE sub[o] = "new"
    <3>1. m + k = n
      BY <1>1, <1>2, <1>3, <2>1 DEF Given, GivenSoFar, LeftOver
    <3> QED
      BY <3>1
  <2>2. CASE sub[o] # "new"
    <3>1. r = <<>> /\ n <= m
      BY <1>1, <1>2, <1>3, <2>2 DEF Given, GivenSoFar
    <3>2. k = 0
      BY <1>3, <3>1, EmptySeq
    <3> QED
      BY <3>1, <3>2
  <2> QED
    BY <2>1, <2>2
<1>6. Replay!IsPrefix(SubSeq(s, 1, n - k), g)
  <2>1. PICK c \in Nat : c = n - k /\ c <= n /\ c <= m
    BY <1>5
  <2>2. PICK p : p = SubSeq(s, 0 + 1, c)
    OBVIOUS
  <2>3. PICK q : q = SubSeq(g, 0 + 1, c)
    OBVIOUS
  <2>4. 0 <= c /\ c <= Len(s) /\ c <= Len(g) /\ 0 \in Nat
    BY <1>3, <2>1
  <2>5. p \in Seq(Replay!Kept) /\ Len(p) = c - 0 /\ \A i \in 1..c - 0 : p[i] = s[0 + i]
    BY <2>2, <2>4, PartOf
  <2>6. q \in Seq(Replay!Kept) /\ Len(q) = c - 0 /\ \A i \in 1..c - 0 : q[i] = g[0 + i]
    BY <2>3, <2>4, PartOf
  <2>7. Len(p) = c /\ Len(q) = c /\ p = SubSeq(s, 1, c) /\ q = SubSeq(g, 1, c)
    BY <2>2, <2>3, <2>5, <2>6
  <2>8. ASSUME NEW i \in 1..c PROVE p[i] = q[i]
    <3>1. i \in 1..c - 0 /\ 0 + i = i /\ i \in 1..Len(g) /\ i <= Len(s)
      BY <1>3, <2>1
    <3>2. g[i] = s[i]
      BY <1>4, <3>1 DEF Agree
    <3> QED
      BY <2>5, <2>6, <3>1, <3>2
  <2>9. p = q
    BY <2>5, <2>6, <2>7, <2>8, SeqEqual
  <2>10. SubSeq(p, 1, Len(p)) = p
    BY <2>5, SubSeqFull
  <2>11. Len(p) <= Len(g) /\ SubSeq(p, 1, Len(p)) = SubSeq(g, 1, Len(p))
    <3>1. Len(p) <= Len(g)
      BY <1>3, <2>1, <2>7
    <3> QED
      BY Zenon, <2>7, <2>9, <2>10, <3>1
  <2>12. Replay!IsPrefix(p, g)
    BY <2>11 DEF Replay!IsPrefix
  <2> QED
    BY Zenon, <2>1, <2>7, <2>12
<1>7. ASSUME sub[o] = "subscribed", m_state = "observers", NEW v \in used \ stored[o].of
      PROVE  Replay!Contains(g, v) \/ \E e \in Emitters : val[e] = v /\ Replay!InOnNext(e)
  <2>1. v \in Rep!Range(live[o]) \/ \E e \in Emitters : Rep!Carries(e, v, o)
    BY <1>7 DEF ReplayInv, FollowsInv, Hears, Follows, Rep!Joined
  <2>2. CASE \E e \in Emitters : Rep!Carries(e, v, o)
    BY <2>2 DEF Rep!Carries, Replay!InOnNext
  <2>3. CASE v \in Rep!Range(live[o])
    <3>1. PICK l : l = live[o] /\ l = SubSeq(g, n + 1, m)
      BY <1>1, <1>2, <1>3, <1>7 DEF live
    <3>2. n <= m /\ m <= Len(g)
      <4>1. Len(s) <= Len(g)
        BY <1>1, <1>2, <1>7 DEF Given, GivenSoFar
      <4> QED
        BY <1>3, <4>1
    <3>4. l \in Seq(Replay!Kept) /\ Len(l) = m - n /\ \A i \in 1..m - n : l[i] = g[n + i]
      BY <3>1, <3>2, PartOf
    <3>5. PICK i \in 1..Len(l) : v = l[i]
      <4>1. DOMAIN l = 1..Len(l) /\ v \in Rep!Range(l)
        BY <2>3, <3>1, <3>4, LenProperties
      <4> QED
        BY <4>1 DEF Rep!Range
    <3>6. i \in 1..m - n /\ n + i \in 1..m
      BY <3>4, <3>5
    <3>7. v = g[n + i]
      BY <3>4, <3>5, <3>6
    <3> QED
      BY <1>3, <3>6, <3>7 DEF Replay!Contains
  <2> QED
    BY <2>1, <2>2, <2>3
<1>8. Replay!IsPrefix(SubSeq(stored[o].read, 1, Len(stored[o].read) - Len(replay[o])), got[o])
  BY Zenon, <1>2, <1>3, <1>6
<1>9. g = got[o]
  BY <1>2
<1> QED
  BY Zenon, <1>7, <1>8, <1>9

\* Together.
LEMMA ReplayHolds ==
  ASSUME Rep!Control, Rep!Delivery, ReplayInv
  PROVE  Replay!StoredThenLive
BY Zenon, GotApart, ReadIsNewest, HeardInOrder DEF Replay!StoredThenLive

-----------------------------------------------------------------------------
(* The reactors of rppgrpc.                                                 *)

Rest(s) == IF s = <<>> THEN <<>> ELSE Tail(s)

\* After a write has failed nothing is under way, and never will be: the queue
\* keeps the message that failed, and only the first of a queue is started.
WriterInv ==
  /\ \A p \in Emitters : pc[p] = "write" => message[p] \in 1..WriterCalls
  /\ ~failed => (m_write # <<>> <=> writing = 1) /\ accepted = written \o Rest(m_write)
  /\ failed => writing = 0 /\ m_write # <<>>
  /\ Reactor!IsPrefix(written, accepted)

\* A subject that is open has not ended the writer.
FinishInv ==
  /\ Reactor!HasWriter /\ m_subject = "open" => m_finished = "no"
  /\ Reactor!HasWriter /\ ~failed /\ "CANCELLED" \notin Range(finish) =>
       /\ Len(finish) = IF m_finished # "no" /\ m_write = <<>> THEN 1 ELSE 0
       /\ finish # <<>> => written = accepted

ReactorInv == Reactor!TypeOK /\ WriterInv /\ FinishInv /\ Reactor!EndsWithTheCall

\* A sequence with one element more.
LEMMA Grows ==
  ASSUME NEW S, NEW s \in Seq(S), NEW x \in S
  PROVE  /\ Append(s, x) \in Seq(S) /\ Append(s, x) # <<>> /\ Len(Append(s, x)) = Len(s) + 1
         /\ Range(Append(s, x)) = Range(s) \union {x}
<1>1. Append(s, x) \in Seq(S) /\ Append(s, x) # <<>> /\ Len(Append(s, x)) = Len(s) + 1
  <2>1. Append(s, x) \in Seq(S)
    OBVIOUS
  <2>2. Len(Append(s, x)) = Len(s) + 1 /\ Len(s) \in Nat /\ Len(<<>>) = 0
    OBVIOUS
  <2>3. ASSUME Append(s, x) = <<>> PROVE FALSE
    <3>1. Len(Append(s, x)) = 0
      BY ONLY <2>2, <2>3, Zenon
    <3> QED
      BY <2>2, <3>1
  <2> QED
    BY ONLY <2>1, <2>2, <2>3
<1>2. /\ DOMAIN s = 1..Len(s) /\ Len(s) \in Nat /\ DOMAIN Append(s, x) = 1..Len(s) + 1
      /\ \A i \in 1..Len(s) : Append(s, x)[i] = s[i]
      /\ Append(s, x)[Len(s) + 1] = x
  OBVIOUS
<1>3. Range(Append(s, x)) \subseteq Range(s) \union {x}
  BY <1>2 DEF Range
<1>4. Range(s) \subseteq Range(Append(s, x)) /\ x \in Range(Append(s, x))
  BY <1>2 DEF Range
<1> QED
  BY <1>1, <1>3, <1>4

\* A prefix stays one when the sequence grows.
LEMMA PrefixGrows ==
  ASSUME NEW S, NEW s \in Seq(S), NEW t \in Seq(S), NEW x \in S, Reactor!IsPrefix(s, t)
  PROVE  Reactor!IsPrefix(s, Append(t, x))
BY DEF Reactor!IsPrefix

\* A sequence begins with its first part.
LEMMA PrefixOf ==
  ASSUME NEW S, NEW s \in Seq(S), NEW t \in Seq(S)
  PROVE  Reactor!IsPrefix(s, s \o t)
BY DEF Reactor!IsPrefix

\* A queue is its first message and the rest.
LEMMA HeadAndTail ==
  ASSUME NEW S, NEW q \in Seq(S), q # <<>>
  PROVE  /\ Tail(q) \in Seq(S) /\ Len(Tail(q)) = Len(q) - 1
         /\ q = <<q[1]>> \o Tail(q)
OBVIOUS

\* The last message leaves the queue.
LEMMA LastWrite ==
  ASSUME NEW S, NEW q \in Seq(S), q # <<>>, ~(Len(q) > 1), NEW w \in Seq(S)
  PROVE  Tail(q) = <<>> /\ w \o Tail(q) = w
<1>1. Len(q) = 1
  <2>1. Len(q) \in Nat /\ Len(q) # 0
    BY EmptySeq, LenProperties
  <2>2. \A n \in Nat : n # 0 /\ ~(n > 1) => n = 1
    OBVIOUS
  <2> QED
    BY <2>1, <2>2
<1>2. Tail(q) \in Seq(S) /\ Len(Tail(q)) = 0
  BY <1>1
<1>3. Tail(q) = <<>>
  BY <1>2, EmptySeq
<1> QED
  BY <1>3, ConcatEmptySeq

\* The next message becomes the first of the queue, and is written.
LEMMA NextWrite ==
  ASSUME NEW S, NEW q \in Seq(S), Len(q) > 1, NEW w \in Seq(S)
  PROVE  /\ Tail(q) \in Seq(S) /\ Tail(q) # <<>> /\ q[2] \in S
         /\ Tail(Tail(q)) \in Seq(S)
         /\ w \o Tail(q) = Append(w, q[2]) \o Tail(Tail(q))
<1>1. q # <<>>
  OBVIOUS
<1>2. Tail(q) \in Seq(S) /\ Len(Tail(q)) = Len(q) - 1 /\ Tail(q)[1] = q[2]
  BY <1>1
<1>2a. Tail(q) # <<>>
  <2>1. PICK t : t = Tail(q)
    OBVIOUS
  <2>2. t \in Seq(S) /\ Len(t) # 0
    BY <1>2, <2>1
  <2> QED
    BY <2>1, <2>2, EmptySeq
<1>3. q[2] \in S
  BY ElementOfSeq
<1>4. Tail(Tail(q)) \in Seq(S) /\ Tail(q) = <<q[2]>> \o Tail(Tail(q))
  BY <1>2, <1>2a, HeadAndTail
<1>5. <<q[2]>> \in Seq(S)
  BY <1>3
<1>6. \A t \in Seq(S) : w \o (<<q[2]>> \o t) = (w \o <<q[2]>>) \o t
  <2> TAKE t \in Seq(S)
  <2>1. PICK u : u = <<q[2]>>
    OBVIOUS
  <2>2. u \in Seq(S)
    BY <2>1, <1>5
  <2>3. w \o (u \o t) = (w \o u) \o t
    BY <2>2, ConcatAssociative
  <2> QED
    BY <2>1, <2>3
<1>7. w \o <<q[2]>> = Append(w, q[2])
  BY <1>3, AppendIsConcat
<1> QED
  BY <1>2, <1>2a, <1>3, <1>4, <1>6, <1>7

\* A message queued behind others.
LEMMA QueuedWrite ==
  ASSUME NEW S, NEW q \in Seq(S), q # <<>>, NEW w \in Seq(S), NEW x \in S
  PROVE  w \o Tail(Append(q, x)) = Append(w \o Tail(q), x)
<1>1. Tail(Append(q, x)) = Append(Tail(q), x)
  BY HeadTailAppend
<1>2. Tail(q) \in Seq(S) /\ <<x>> \in Seq(S)
  OBVIOUS
<1>3. \A t \in Seq(S) : Append(t, x) = t \o <<x>> /\ w \o t \in Seq(S)
  BY AppendIsConcat, ConcatProperties
<1>4. \A t \in Seq(S) : w \o Append(t, x) = Append(w \o t, x)
  <2> TAKE t \in Seq(S)
  <2>1. PICK u : u = <<x>>
    OBVIOUS
  <2>2. w \o (t \o u) = (w \o t) \o u
    BY <1>2, <2>1, ConcatAssociative
  <2>3. Append(w \o t, x) = (w \o t) \o u /\ Append(t, x) = t \o u
    BY <1>3, <2>1
  <2> QED
    BY <2>2, <2>3
<1> QED
  BY <1>1, <1>2, <1>4

\* An emission that found the subject open has a message of its own.
LEMMA EmitKeeps ==
  ASSUME ReactorInv, NEW p \in Emitters, Reactor!Emit(p)
  PROVE  ReactorInv'
<1> USE BoundsAssumption DEF ReactorInv
<1>1. /\ calls < WriterCalls /\ calls' = calls + 1
      /\ pc' = [pc EXCEPT ![p] = "write"] /\ message' = [message EXCEPT ![p] = calls + 1]
      /\ UNCHANGED <<kind, m_write, m_finished, m_subject, writing, reading, written, finish, call, failed,
                     observable, read, accepted>>
  BY DEF Reactor!Emit, Reactor!stream, Reactor!reader
<1>2. Reactor!TypeOK'
  BY <1>1 DEF Reactor!TypeOK
<1>3. WriterInv'
  BY <1>1 DEF Reactor!TypeOK, WriterInv
<1>4. FinishInv' /\ Reactor!EndsWithTheCall'
  BY <1>1 DEF FinishInv, Reactor!EndsWithTheCall, Reactor!HasWriter
<1> QED
  BY <1>2, <1>3, <1>4

\* The first of an empty queue is started, any other waits.
LEMMA OnNextKeeps ==
  ASSUME ReactorInv, NEW p \in Emitters, Reactor!OnNext(p)
  PROVE  ReactorInv'
<1> USE BoundsAssumption DEF ReactorInv
<1>1. /\ pc[p] = "write" /\ pc' = [pc EXCEPT ![p] = "idle"] /\ message' = [message EXCEPT ![p] = 0]
      /\ UNCHANGED <<kind, m_finished, m_subject, reading, finish, call, failed, observable, read, calls>>
  BY DEF Reactor!OnNext, Reactor!reader
<1>2. Reactor!EndsWithTheCall'
  BY <1>1 DEF Reactor!EndsWithTheCall, Reactor!HasWriter
<1>3. \A q \in Emitters : pc'[q] = "write" => message'[q] \in 1..WriterCalls
  BY <1>1 DEF Reactor!TypeOK, WriterInv
<1>4. CASE m_finished # "no"
  <2>1. UNCHANGED <<m_write, writing, written, accepted>>
    BY <1>4 DEF Reactor!OnNext
  <2>2. Reactor!TypeOK'
    BY <1>1, <2>1 DEF Reactor!TypeOK
  <2>3. WriterInv'
    BY <1>1, <1>3, <2>1 DEF WriterInv
  <2>4. FinishInv'
    BY <1>1, <2>1 DEF FinishInv, Reactor!HasWriter
  <2> QED
    BY <1>2, <2>2, <2>3, <2>4
<1>5. CASE m_finished = "no"
  <2> DEFINE m == message[p]
  <2>0. PICK S : S = 1..WriterCalls
    OBVIOUS
  <2>1. /\ m_write' = Append(m_write, m) /\ accepted' = Append(accepted, m)
        /\ \/ m_write = <<>> /\ writing' = writing + 1 /\ written' = Append(written, m)
           \/ m_write # <<>> /\ UNCHANGED <<writing, written>>
    BY <1>5 DEF Reactor!OnNext, Reactor!StartWrite
  <2>2. m \in S /\ m_write \in Seq(S) /\ accepted \in Seq(S) /\ written \in Seq(S)
    BY <1>1, <2>0 DEF Reactor!TypeOK, WriterInv
  <2>3. m_write' \in Seq(S) /\ m_write' # <<>> /\ accepted' \in Seq(S)
    BY <2>1, <2>2, Grows
  <2>4. CASE m_write = <<>>
    <3>1. ~failed /\ writing = 0 /\ accepted = written
      BY <2>2, <2>4 DEF Reactor!TypeOK, WriterInv, Rest
    <3>2. writing' = 1 /\ written' = accepted' /\ Rest(m_write') = <<>>
      BY <2>1, <2>2, <2>4, <3>1 DEF Rest
    <3>3. accepted' = written' \o Rest(m_write')
      BY <2>3, <3>2
    <3>4. Reactor!IsPrefix(written', accepted')
      BY <2>3, <3>2 DEF Reactor!IsPrefix
    <3>5. Reactor!TypeOK'
      BY SMTT(40), <1>1, <2>0, <2>3, <3>2 DEF Reactor!TypeOK
    <3>6. WriterInv'
      BY <1>1, <1>3, <2>3, <3>1, <3>2, <3>3, <3>4 DEF WriterInv
    <3>7. FinishInv'
      BY <1>1, <1>5, <3>2 DEF FinishInv, Reactor!HasWriter
    <3> QED
      BY <1>2, <3>5, <3>6, <3>7
  <2>5. CASE m_write # <<>>
    <3>1. UNCHANGED <<writing, written>>
      BY <2>1, <2>5
    <3>2. written \o Tail(Append(m_write, m)) = Append(written \o Tail(m_write), m)
      BY <2>2, <2>5, QueuedWrite
    <3>3. ~failed => accepted' = written' \o Rest(m_write')
      BY <2>1, <2>3, <2>5, <3>1, <3>2 DEF WriterInv, Rest
    <3>4. Reactor!IsPrefix(written', accepted')
      BY <2>1, <2>2, <3>1, PrefixGrows DEF WriterInv
    <3>5. Reactor!TypeOK'
      BY <1>1, <2>0, <2>3, <3>1 DEF Reactor!TypeOK
    <3>6. WriterInv'
      BY <1>1, <1>3, <2>3, <2>5, <3>1, <3>3, <3>4 DEF WriterInv
    <3>7. FinishInv'
      BY <1>1, <1>5, <2>3, <3>1 DEF FinishInv, Reactor!HasWriter, Reactor!TypeOK
    <3> QED
      BY <1>2, <3>5, <3>6, <3>7
  <2> QED
    BY <2>4, <2>5
<1> QED
  BY <1>4, <1>5 DEF Reactor!TypeOK

\* The end is passed on at once when nothing is queued.
LEMMA OnTerminalKeeps ==
  ASSUME ReactorInv, NEW p \in Emitters, Reactor!OnTerminal(p)
  PROVE  ReactorInv'
<1> USE BoundsAssumption DEF ReactorInv
<1>1. /\ Reactor!HasWriter /\ calls < WriterCalls /\ calls' = calls + 1
      /\ m_subject = "open" /\ m_subject' = "ended"
      /\ UNCHANGED <<kind, m_write, pc, message, writing, reading, written, call, failed, observable, read,
                     accepted>>
  BY DEF Reactor!OnTerminal, Reactor!reader
<1>2. PICK how \in {"completed", "error"} :
        /\ m_finished' = how
        /\ IF m_write = <<>>
           THEN Reactor!FinishWrites(IF how = "error" THEN "INTERNAL" ELSE "OK")
           ELSE UNCHANGED finish
  BY DEF Reactor!OnTerminal
<1>3. \/ m_write # <<>> /\ finish' = finish
      \/ /\ m_write = <<>>
         /\ \E status \in {"OK", "INTERNAL", "writes_done"} : finish' = Append(finish, status)
  BY <1>2 DEF Reactor!FinishWrites
<1>4. finish \in Seq({"OK", "INTERNAL", "CANCELLED", "writes_done"})
  BY DEF Reactor!TypeOK
<1>5. Reactor!TypeOK'
  <2>1. finish' \in Seq({"OK", "INTERNAL", "CANCELLED", "writes_done"})
    BY <1>3, <1>4
  <2> QED
    BY <1>1, <1>2, <2>1 DEF Reactor!TypeOK
<1>6. WriterInv' /\ Reactor!EndsWithTheCall'
  BY <1>1 DEF WriterInv, Reactor!EndsWithTheCall, Reactor!HasWriter
<1>7. FinishInv'
  <2> SUFFICES ASSUME ~failed, "CANCELLED" \notin Range(finish')
               PROVE  /\ Len(finish') = IF m_write = <<>> THEN 1 ELSE 0
                      /\ finish' # <<>> => written = accepted
    BY <1>1, <1>2 DEF FinishInv
  <2>1. CASE m_write # <<>>
    <3>1. finish' = finish /\ Len(finish) = 0
      BY <1>1, <1>3, <2>1 DEF FinishInv
    <3> QED
      BY <1>4, <2>1, <3>1
  <2>2. CASE m_write = <<>>
    <3>1. PICK status \in {"OK", "INTERNAL", "writes_done"} : finish' = Append(finish, status)
      BY <1>3, <2>2
    <3>2. Range(finish') = Range(finish) \union {status} /\ Len(finish') = Len(finish) + 1
      BY <1>4, <3>1, Grows
    <3>3. Len(finish) = 0
      BY <1>1, <3>2 DEF FinishInv
    <3>4. written = accepted
      BY <2>2 DEF WriterInv, Rest, Reactor!TypeOK
    <3> QED
      BY <2>2, <3>2, <3>3, <3>4
  <2> QED
    BY <2>1, <2>2
<1> QED
  BY <1>5, <1>6, <1>7

\* The next message is started, or the end that waited for the last passed on.
LEMMA OnWriteDoneKeeps ==
  ASSUME ReactorInv, Reactor!OnWriteDone
  PROVE  ReactorInv'
<1> USE BoundsAssumption DEF ReactorInv
<1>0. PICK S : S = 1..WriterCalls
  OBVIOUS
<1>1. /\ writing > 0 /\ m_write' = Tail(m_write)
      /\ UNCHANGED <<kind, m_finished, m_subject, pc, message, reading, call, failed, observable, read, calls,
                     accepted>>
  BY DEF Reactor!OnWriteDone, Reactor!reader
<1>2. /\ m_write \in Seq(S) /\ written \in Seq(S) /\ accepted \in Seq(S) /\ writing = 1
      /\ finish \in Seq({"OK", "INTERNAL", "CANCELLED", "writes_done"})
  BY <1>0, <1>1 DEF Reactor!TypeOK
<1>2a. /\ ~failed /\ m_write # <<>> /\ accepted = written \o Tail(m_write)
  BY <1>2 DEF WriterInv, Rest
<1>3. Reactor!EndsWithTheCall'
  BY <1>1 DEF Reactor!EndsWithTheCall, Reactor!HasWriter
<1>4. CASE Len(m_write) > 1
  <2>1. written' = Append(written, m_write[2]) /\ UNCHANGED <<writing, finish>>
    BY <1>4 DEF Reactor!OnWriteDone
  <2>2. /\ m_write' \in Seq(S) /\ m_write' # <<>> /\ m_write[2] \in S
        /\ Tail(m_write') \in Seq(S)
        /\ accepted = Append(written, m_write[2]) \o Tail(m_write')
    BY <1>1, <1>2, <1>2a, <1>4, NextWrite
  <2>3. written' \in Seq(S) /\ accepted' = written' \o Tail(m_write')
    BY <1>1, <1>2, <2>1, <2>2
  <2>4. Reactor!IsPrefix(written', accepted')
    BY <2>2, <2>3, PrefixOf
  <2>5. Reactor!TypeOK'
    BY <1>0, <1>1, <1>2, <2>1, <2>2, <2>3 DEF Reactor!TypeOK
  <2>6. WriterInv'
    BY <1>1, <1>2, <1>2a, <2>1, <2>2, <2>3, <2>4 DEF WriterInv, Rest
  <2>7. FinishInv'
    <3>1. Reactor!HasWriter' <=> Reactor!HasWriter
      BY <1>1 DEF Reactor!HasWriter
    <3>2. Reactor!HasWriter /\ "CANCELLED" \notin Range(finish) => Len(finish) = 0
      BY <1>2a DEF FinishInv
    <3>3. Len(finish) = 0 => finish = <<>>
      BY <1>2
    <3> QED
      BY <1>1, <1>2a, <2>1, <2>2, <3>1, <3>2, <3>3 DEF FinishInv
  <2> QED
    BY <1>3, <2>5, <2>6, <2>7
<1>5. CASE ~(Len(m_write) > 1)
  <2>1. m_write' = <<>> /\ accepted = written
    BY <1>1, <1>2, <1>2a, <1>5, LastWrite
  <2>2. /\ writing' = writing - 1 /\ UNCHANGED written
        /\ \/ m_finished # "no" /\ \E status \in {"OK", "writes_done"} : finish' = Append(finish, status)
           \/ m_finished = "no" /\ finish' = finish
    BY <1>5 DEF Reactor!OnWriteDone, Reactor!FinishWrites
  <2>3. finish' \in Seq({"OK", "INTERNAL", "CANCELLED", "writes_done"})
    <3>1. PICK T : T = {"OK", "INTERNAL", "CANCELLED", "writes_done"}
      OBVIOUS
    <3>2. finish \in Seq(T) /\ "OK" \in T /\ "writes_done" \in T
      BY <1>2, <3>1
    <3>3. finish' \in Seq(T)
      BY <2>2, <3>2, Grows
    <3> QED
      BY <3>1, <3>3
  <2>4. m_write' \in Seq(S) /\ writing' = 0
    BY <1>2, <2>1, <2>2
  <2>5. Reactor!TypeOK'
    BY <1>0, <1>1, <1>2, <2>2, <2>3, <2>4 DEF Reactor!TypeOK
  <2>6. accepted' = written' \o Rest(m_write') /\ Reactor!IsPrefix(written', accepted')
    <3>1. written' = accepted' /\ Rest(m_write') = <<>> /\ written' \in Seq(S)
      BY <1>1, <1>2, <2>1, <2>2 DEF Rest
    <3> QED
      BY <3>1 DEF Reactor!IsPrefix
  <2>7. WriterInv'
    BY <1>1, <1>2, <1>2a, <2>1, <2>4, <2>6 DEF WriterInv
  <2>8. FinishInv'
    <3>1. Reactor!HasWriter' <=> Reactor!HasWriter
      BY <1>1 DEF Reactor!HasWriter
    <3>2. Reactor!HasWriter /\ "CANCELLED" \notin Range(finish) => Len(finish) = 0
      BY <1>2a DEF FinishInv
    <3>3. CASE m_finished # "no"
      <4>1. PICK status \in {"OK", "writes_done"} : finish' = Append(finish, status)
        BY <2>2, <3>3
      <4>2. Range(finish') = Range(finish) \union {status} /\ Len(finish') = Len(finish) + 1
        BY <1>2, <4>1, Grows
      <4> QED
        BY <1>1, <1>2a, <2>1, <2>2, <3>1, <3>2, <3>3, <4>2 DEF FinishInv
    <3>4. CASE m_finished = "no"
      <4>1. Len(finish) = 0 => finish = <<>>
        BY <1>2
      <4> QED
        BY <1>1, <1>2a, <2>1, <2>2, <3>1, <3>2, <3>4, <4>1 DEF FinishInv
    <3> QED
      BY <3>3, <3>4
  <2> QED
    BY <1>3, <2>5, <2>7, <2>8
<1> QED
  BY <1>4, <1>5

\* Nothing is started any more after a failure.
LEMMA OnWriteFailedKeeps ==
  ASSUME ReactorInv, Reactor!OnWriteFailed
  PROVE  ReactorInv'
<1> USE BoundsAssumption DEF ReactorInv
<1>1. /\ writing > 0 /\ writing' = writing - 1 /\ failed'
      /\ finish' = finish \/ finish' = Append(finish, "OK")
      /\ UNCHANGED <<kind, m_write, m_finished, m_subject, pc, message, reading, written, call,
                     observable, read, calls, accepted>>
  BY DEF Reactor!OnWriteFailed, Reactor!writer, Reactor!reader
<1>2. /\ writing = 1 /\ writing' = 0 /\ m_write # <<>>
  BY <1>1 DEF WriterInv, Reactor!TypeOK
<1>3. finish' \in Seq({"OK", "INTERNAL", "CANCELLED", "writes_done"})
  <2>1. PICK T : T = {"OK", "INTERNAL", "CANCELLED", "writes_done"}
    OBVIOUS
  <2>2. finish \in Seq(T) /\ "OK" \in T
    BY <2>1 DEF Reactor!TypeOK
  <2>3. finish' \in Seq(T)
    BY <1>1, <2>2, Grows
  <2> QED
    BY <2>1, <2>3
<1>4. failed' = TRUE
  BY DEF Reactor!OnWriteFailed
<1>5. Reactor!TypeOK'
  BY <1>1, <1>2, <1>3, <1>4 DEF Reactor!TypeOK
<1>6. WriterInv' /\ FinishInv' /\ Reactor!EndsWithTheCall'
  BY <1>1, <1>2 DEF WriterInv, FinishInv, Reactor!EndsWithTheCall, Reactor!HasWriter
<1> QED
  BY <1>5, <1>6

\* Reading leaves the writer alone.
LEMMA OnReadDoneKeeps ==
  ASSUME ReactorInv, Reactor!OnReadDone
  PROVE  ReactorInv'
<1> USE BoundsAssumption DEF ReactorInv
<1>1. /\ read < MaxReads /\ read' = (IF observable = "open" THEN read + 1 ELSE read)
      /\ UNCHANGED <<kind, m_write, m_finished, m_subject, pc, message, writing, reading, written,
                     finish, call, failed, observable, calls, accepted>>
  BY DEF Reactor!OnReadDone, Reactor!writer, Reactor!stream
<1>2. read' \in 0..MaxReads
  <2>1. read \in 0..MaxReads
    BY DEF Reactor!TypeOK
  <2>2. \A n \in 0..MaxReads : n < MaxReads => n + 1 \in 0..MaxReads
    OBVIOUS
  <2> QED
    BY <1>1, <2>1, <2>2
<1>3. Reactor!TypeOK'
  BY <1>1, <1>2 DEF Reactor!TypeOK
<1>4. WriterInv' /\ FinishInv' /\ Reactor!EndsWithTheCall'
  BY <1>1 DEF WriterInv, FinishInv, Reactor!EndsWithTheCall, Reactor!HasWriter
<1> QED
  BY <1>3, <1>4

\* Only a reactor without a writer finishes when reading is through.
LEMMA OnReadFailedKeeps ==
  ASSUME ReactorInv, Reactor!OnReadFailed
  PROVE  ReactorInv'
<1> USE BoundsAssumption DEF ReactorInv
<1>1. /\ reading > 0 /\ reading' = reading - 1
      /\ finish' = IF kind = "server_read" THEN Append(finish, "OK") ELSE finish
      /\ UNCHANGED <<kind, m_write, m_finished, m_subject, pc, message, writing, written, call,
                     failed, observable, read, calls, accepted>>
  BY DEF Reactor!OnReadFailed, Reactor!writer, Reactor!reader
<1>2. finish' \in Seq({"OK", "INTERNAL", "CANCELLED", "writes_done"})
  <2>1. PICK T : T = {"OK", "INTERNAL", "CANCELLED", "writes_done"}
    OBVIOUS
  <2>2. finish \in Seq(T) /\ "OK" \in T
    BY <2>1 DEF Reactor!TypeOK
  <2>3. finish' \in Seq(T)
    BY <1>1, <2>2, Grows
  <2> QED
    BY <2>1, <2>3
<1>3. Reactor!TypeOK'
  BY <1>1, <1>2 DEF Reactor!TypeOK
<1>4. Reactor!HasWriter => finish' = finish
  BY <1>1 DEF Reactor!HasWriter
<1>5. WriterInv' /\ FinishInv' /\ Reactor!EndsWithTheCall'
  BY <1>1, <1>4 DEF WriterInv, FinishInv, Reactor!EndsWithTheCall, Reactor!HasWriter
<1> QED
  BY <1>3, <1>5

\* A cancelled call is finished with CANCELLED.
LEMMA OnCancelKeeps ==
  ASSUME ReactorInv, Reactor!OnCancel
  PROVE  ReactorInv'
<1> USE BoundsAssumption DEF ReactorInv
<1>1. /\ call' = "cancelled" /\ Reactor!EndObservable("error")
      /\ m_subject' = IF Reactor!HasWriter /\ m_subject = "open" THEN "disposed" ELSE m_subject
      /\ finish' = IF Reactor!HasWriter THEN Append(finish, "CANCELLED") ELSE finish
      /\ UNCHANGED <<kind, m_write, m_finished, pc, message, writing, reading, written, failed,
                     read, calls, accepted>>
  BY DEF Reactor!OnCancel
<1>2. /\ finish' \in Seq({"OK", "INTERNAL", "CANCELLED", "writes_done"})
      /\ Reactor!HasWriter => "CANCELLED" \in Range(finish')
  <2>1. PICK T : T = {"OK", "INTERNAL", "CANCELLED", "writes_done"}
    OBVIOUS
  <2>2. finish \in Seq(T) /\ "CANCELLED" \in T
    BY <2>1 DEF Reactor!TypeOK
  <2>3. finish' \in Seq(T) /\ (Reactor!HasWriter => "CANCELLED" \in Range(finish'))
    BY <1>1, <2>2, Grows
  <2> QED
    BY <2>1, <2>3
<1>3. observable' \in {"open", "completed", "error"} /\ (observable # "open" => observable' # "open")
  BY <1>1 DEF Reactor!EndObservable, Reactor!TypeOK
<1>4. m_subject' \in {"open", "ended", "disposed"} /\ (m_subject # "open" => m_subject' # "open")
  BY <1>1 DEF Reactor!TypeOK
<1>5. Reactor!HasWriter' <=> Reactor!HasWriter
  BY <1>1 DEF Reactor!HasWriter
<1>6. Reactor!TypeOK'
  BY <1>1, <1>2, <1>3, <1>4 DEF Reactor!TypeOK
<1>7. WriterInv'
  BY <1>1 DEF WriterInv
<1>8. FinishInv'
  BY <1>1, <1>2, <1>4, <1>5 DEF FinishInv
<1>9. Reactor!EndsWithTheCall'
  BY <1>1 DEF Reactor!EndsWithTheCall
<1> QED
  BY <1>6, <1>7, <1>8, <1>9

\* The end of the call ends the observable and the subject.
LEMMA OnDoneKeeps ==
  ASSUME ReactorInv, Reactor!OnDone
  PROVE  ReactorInv'
<1> USE BoundsAssumption DEF ReactorInv
<1>1. /\ call' = "done"
      /\ m_subject' = IF Reactor!HasWriter /\ m_subject = "open" THEN "disposed" ELSE m_subject
      /\ UNCHANGED <<kind, m_write, m_finished, pc, message, writing, reading, written, finish,
                     failed, read, calls, accepted>>
  BY DEF Reactor!OnDone
<1>2. PICK how \in {"completed", "error"} : Reactor!EndObservable(how)
  BY DEF Reactor!OnDone
<1>3. observable' \in {"completed", "error"}
  BY <1>2 DEF Reactor!EndObservable, Reactor!TypeOK
<1>4. /\ m_subject' \in {"open", "ended", "disposed"}
      /\ m_subject # "open" => m_subject' # "open"
      /\ Reactor!HasWriter => m_subject' # "open"
  BY <1>1 DEF Reactor!TypeOK
<1>5. Reactor!HasWriter' <=> Reactor!HasWriter
  BY <1>1 DEF Reactor!HasWriter
<1>6. Reactor!TypeOK'
  BY <1>1, <1>3, <1>4 DEF Reactor!TypeOK
<1>7. WriterInv'
  BY <1>1 DEF WriterInv
<1>8. FinishInv'
  BY <1>1, <1>4, <1>5 DEF FinishInv
<1>9. Reactor!EndsWithTheCall'
  BY <1>3, <1>4, <1>5 DEF Reactor!EndsWithTheCall
<1> QED
  BY <1>6, <1>7, <1>8, <1>9

\* Every step of a reactor keeps its invariant.
LEMMA ReactorStep ==
  ASSUME ReactorInv, Reactor!Next \/ UNCHANGED <<kind, pc, calls, ofReactor>>
  PROVE  ReactorInv'
<1>1. CASE UNCHANGED <<kind, pc, calls, ofReactor>>
  <2>1. UNCHANGED <<kind, m_write, m_finished, m_subject, pc, message, writing, reading, written,
                    finish, call, failed, observable, read, calls, accepted>>
    BY <1>1 DEF ofReactor
  <2>2. Reactor!TypeOK'
    BY <2>1 DEF ReactorInv, Reactor!TypeOK
  <2>3. WriterInv' /\ FinishInv' /\ Reactor!EndsWithTheCall'
    BY <2>1 DEF ReactorInv, WriterInv, FinishInv, Reactor!EndsWithTheCall, Reactor!HasWriter
  <2> QED
    BY <2>2, <2>3 DEF ReactorInv
<1>2. CASE Reactor!Next
  <2>1. ASSUME NEW p \in Emitters, Reactor!Emit(p) \/ Reactor!OnNext(p) \/ Reactor!OnTerminal(p)
        PROVE  ReactorInv'
    BY <2>1, EmitKeeps, OnNextKeeps, OnTerminalKeeps
  <2>2. CASE \E p \in Emitters : Reactor!Emit(p) \/ Reactor!OnNext(p) \/ Reactor!OnTerminal(p)
    BY <2>1, <2>2
  <2> QED
    BY <1>2, <2>2, OnWriteDoneKeeps, OnWriteFailedKeeps, OnReadDoneKeeps, OnReadFailedKeeps,
       OnCancelKeeps, OnDoneKeeps DEF Reactor!Next
<1> QED
  BY <1>1, <1>2

\* The invariant holds of a new reactor.
LEMMA ReactorStart == Reactor!Init => ReactorInv
<1> SUFFICES ASSUME Reactor!Init PROVE ReactorInv
  OBVIOUS
<1> USE BoundsAssumption DEF Reactor!Init
<1>1. /\ <<>> \in Seq(1..WriterCalls)
      /\ <<>> \in Seq({"OK", "INTERNAL", "CANCELLED", "writes_done"})
      /\ Len(<<>>) = 0 /\ <<>> \o <<>> = <<>>
  OBVIOUS
<1>2. Reactor!TypeOK
  <2>1. /\ pc \in [Emitters -> {"idle", "write"}] /\ message \in [Emitters -> 0..WriterCalls]
        /\ reading \in 0..1 /\ writing \in 0..1 /\ read \in 0..MaxReads /\ calls \in 0..WriterCalls
    OBVIOUS
  <2> QED
    BY <1>1, <2>1 DEF Reactor!TypeOK
<1>3. WriterInv
  BY <1>1 DEF WriterInv, Rest, Reactor!IsPrefix
<1>4. FinishInv /\ Reactor!EndsWithTheCall
  BY <1>1 DEF FinishInv, Reactor!EndsWithTheCall
<1> QED
  BY <1>2, <1>3, <1>4 DEF ReactorInv

\* What is stated of a reactor follows from it.
LEMMA ReactorProperties ==
  ASSUME ReactorInv
  PROVE  /\ Reactor!TypeOK /\ Reactor!OneWriteInOrder /\ Reactor!FinishesAfterLastWrite
         /\ Reactor!EndsWithTheCall
<1>1. writing <= 1
  BY DEF ReactorInv, Reactor!TypeOK
<1>2. Reactor!OneWriteInOrder
  BY <1>1 DEF ReactorInv, WriterInv, Rest, Reactor!OneWriteInOrder
<1>3. Reactor!ToSet(finish) = Range(finish)
  BY DEF Reactor!ToSet, Range
<1>4. Reactor!FinishesAfterLastWrite
  BY <1>3 DEF ReactorInv, FinishInv, Reactor!FinishesAfterLastWrite
<1> QED
  BY <1>2, <1>4 DEF ReactorInv

-----------------------------------------------------------------------------
(* The three families together.                                            *)

AllInv ==
  /\ family \in {"publish", "replay", "reactor"}
  /\ family = "publish" => Pub!Control /\ Pub!Delivery
  /\ family = "replay" => Rep!Control /\ Rep!Delivery /\ ReplayInv
  /\ family = "reactor" => ReactorInv

\* The invariant holds at the start of each family.
LEMMA AllInit == Init => AllInv /\ (family = "publish" => Publish!ContractInit)
<1>1. ASSUME family = "publish", Publish!Init PROVE AllInv /\ Publish!ContractInit
  <2>1. Pub!Init
    BY <1>1, PublishProperties
  <2>2. Pub!Control /\ Pub!ContractInit /\ Pub!Delivery
    BY <2>1, Setups, Pub!ControlInit, Pub!DeliveryInit
  <2> QED
    BY <1>1, <2>2, PublishContract DEF AllInv
<1>2. ASSUME family = "replay", Replay!ReplayInit PROVE AllInv
  <2>1. Replay!Init
    BY <1>2 DEF Replay!ReplayInit
  <2>2. Rep!Init
    BY <2>1, ReplayInit
  <2>3. Rep!Control /\ Rep!Delivery
    BY <2>2, Setups, Rep!ControlInit, Rep!DeliveryInit
  <2> QED
    BY <1>2, <2>3, ReplayInvInit DEF AllInv
<1>3. ASSUME family = "reactor", Reactor!Init PROVE AllInv
  BY <1>3, ReactorStart DEF AllInv
<1> QED
  BY <1>1, <1>2, <1>3 DEF Init

\* What every step keeps, and that it is one the contract allows.
LEMMA AllStep ==
  ASSUME AllInv, [Next]_vars
  PROVE  /\ AllInv'
         /\ family = "publish" => Publish!ContractStep
         /\ family = "replay" => Replay!ContractStep
<1>0. UNCHANGED family
  BY DEF Next, vars
<1>1. CASE family = "publish"
  <2>1. Publish!Next \/ UNCHANGED <<pc, calls, ofSubject>>
    BY <1>1 DEF Next, vars
  <2>2. Pub!Next \/ UNCHANGED Pub!vars
    BY <2>1, PublishStep DEF ofSubject, Pub!vars, Pub!subject, Pub!emitter, Pub!obs, Pub!history
  <2>3. Pub!Next \/ UNCHANGED Pub!controlVars
    BY <2>2 DEF Pub!vars, Pub!controlVars, Pub!subject, Pub!emitter, Pub!obs
  <2>4. Pub!Control /\ Pub!Delivery
    BY <1>1 DEF AllInv
  <2>5. Pub!Control' /\ Pub!ContractStep
    BY <2>3, <2>4, Setups, Pub!ControlStep
  <2>6. Pub!Delivery'
    BY <2>2, <2>4, Setups, Pub!DeliveryStep, Pub!DeliveryStutters
  <2> QED
    BY <1>0, <1>1, <2>5, <2>6, PublishContract DEF AllInv
<1>2. CASE family = "replay"
  <2>1. Replay!ReplayNext \/ UNCHANGED <<pc, calls, kind, ofSubject, ofReplay>>
    BY <1>2 DEF Next, vars
  <2>2. Rep!Control /\ Rep!Delivery /\ ReplayInv
    BY <1>2 DEF AllInv
  <2>3. ReplayInv' /\ (Rep!Next \/ UNCHANGED Rep!vars)
    BY <2>1, <2>2, ReplayStep, ReplayStutters
  <2>4. Rep!Next \/ UNCHANGED Rep!controlVars
    BY <2>3 DEF Rep!vars, Rep!controlVars, Rep!subject, Rep!emitter, Rep!obs
  <2>5. Rep!Control' /\ Rep!ContractStep
    BY <2>2, <2>4, Setups, Rep!ControlStep
  <2>6. Rep!Delivery'
    BY <2>2, <2>3, Setups, Rep!DeliveryStep, Rep!DeliveryStutters
  <2> QED
    BY <1>0, <1>2, <2>3, <2>5, <2>6, ReplayContract DEF AllInv
<1>3. CASE family = "reactor"
  <2>1. Reactor!Next \/ UNCHANGED <<kind, pc, calls, ofReactor>>
    BY <1>3 DEF Next, vars
  <2>2. ReactorInv'
    BY <1>3, <2>1, ReactorStep DEF AllInv
  <2> QED
    BY <1>0, <1>3, <2>2 DEF AllInv
<1> QED
  BY <1>1, <1>2, <1>3 DEF AllInv

\* The invariant of the three families holds in every reachable state.
LEMMA AllAlways == Spec => []AllInv
<1>1. AllInv /\ [Next]_vars => AllInv'
  BY AllStep
<1> QED
  BY AllInit, <1>1, PTL DEF Spec

\* What is stated of a publish_subject follows from its invariant.
LEMMA PublishHolds ==
  ASSUME Pub!Control, Pub!Delivery
  PROVE  /\ Publish!TypeOK /\ Publish!SameOrder /\ Publish!ReachesEverybodyOnce
         /\ Publish!NobodyMissesTheEnd
<1>1. Pub!TypeOK
  BY Setups, Pub!AllTypes
<1>2. Pub!SameOrder
  BY DEF Pub!Delivery
<1>3. Pub!ReachesEverybodyOnce
  BY Setups, Pub!DeliveredOnce
<1>4. Pub!NobodyMissesTheEnd
  BY Setups, Pub!EndReachesAll
<1> QED
  BY <1>1, <1>2, <1>3, <1>4, PublishProperties

\* What is stated of the three families follows from theirs.
LEMMA AllHolds ==
  ASSUME AllInv
  PROVE  TypeOK /\ SameOrder /\ ReachesEverybodyOnce /\ NobodyMissesTheEnd /\ StoredThenLive
<1> USE DEF TypeOK, SameOrder, ReachesEverybodyOnce, NobodyMissesTheEnd, StoredThenLive
<1>1. CASE family = "publish"
  BY <1>1, PublishHolds DEF AllInv
<1>2. CASE family = "replay"
  <2>1. Rep!Control /\ Rep!Delivery /\ ReplayInv
    BY <1>2 DEF AllInv
  <2>2. Replay!ReplayTypeOK
    BY <2>1, ReplayTypes DEF ReplayInv
  <2>3. Replay!NobodyMissesTheEnd
    BY <2>1, Setups, Rep!EndReachesAll, ReplayProperties
  <2>4. Replay!StoredThenLive
    BY <2>1, ReplayHolds
  <2> QED
    BY <1>2, <2>2, <2>3, <2>4
<1>3. CASE family = "reactor"
  BY <1>3, ReactorProperties DEF AllInv
<1> QED
  BY <1>1, <1>2, <1>3 DEF AllInv

\* The variables of a subject, of a replay or behavior subject and of a reactor
\* keep their types, and a store its limit.
THEOREM TypeCorrect == Spec => []TypeOK
BY AllAlways, AllHolds, PTL

\* Two observers of a serialized_publish_subject never see two values in
\* different orders, whoever emits them and whoever comes and goes.
THEOREM OneOrder == Spec => []SameOrder
BY AllAlways, AllHolds, PTL

\* A value reaches each observer that was there once; a gRPC stream has one
\* write under way, each message once and in order, and one end, after the last.
THEOREM DeliversOnce == Spec => []ReachesEverybodyOnce
BY AllAlways, AllHolds, PTL

\* An observer that subscribes while a subject ends hears of the end like the
\* others; with the call of a reactor, its observable and its producers end.
THEOREM EndHeard == Spec => []NobodyMissesTheEnd
BY AllAlways, AllHolds, PTL

\* An observer of a replay or behavior subject that joined between two on_next
\* gets the newest stored values in their order, the stored ones first, then
\* every later one, none twice.
THEOREM StoredFirst == Spec => []StoredThenLive
BY AllAlways, AllHolds, PTL

\* What an observer of a subject sees is what the abstract specification of a
\* stream allows: serial calls, and none after a terminal one.
THEOREM ObserversSeeAStream == Spec => FollowsContract
<1>1. AllInv /\ [Next]_vars =>
        [CASE family = "publish" -> Publish!ContractStep
           [] family = "replay" -> Replay!ContractStep
           [] family = "reactor" -> TRUE]_vars
  <2> SUFFICES ASSUME AllInv, [Next]_vars
               PROVE  CASE family = "publish" -> Publish!ContractStep
                        [] family = "replay" -> Replay!ContractStep
                        [] family = "reactor" -> TRUE
    OBVIOUS
  <2> QED
    BY AllStep DEF AllInv
<1>2. Init => (family = "publish" => Publish!ContractInit)
  BY AllInit
<1> QED
  BY AllAlways, <1>1, <1>2, PTL DEF Spec, FollowsContract

=============================================================================
