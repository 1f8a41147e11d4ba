---------------------------- MODULE ReplaySubject ----------------------------
(***************************************************************************)
(* replay_subject and behavior_subject: a subject_state that also keeps the *)
(* last values and gives them to an observer before it subscribes.  The     *)
(* store has a mutex of its own, so that keeping a value and telling the    *)
(* observers, and reading the store and joining the list, are two steps     *)
(* each.  The duration limit of a replay_subject may drop any number of its *)
(* oldest values whenever the store is touched.                             *)
(***************************************************************************)
EXTENDS SubjectState, FiniteSets

CONSTANTS Limit  \* bound of the store, at least one

VARIABLES
  kind,        \* "replay", "timed" (a replay_subject with a duration), "behavior"
  m_values,    \* the store, oldest first
  m_disposed,  \* is_disposed() of the state
  replay,      \* per observer: stored values it has still to be given
  phase,       \* per observer: "new", "replay", "done" with them
  stored,      \* history: what it read, and the values there had been by then
  quiet        \* history: observers no on_next was under way for while they joined

store == <<kind, m_values, m_disposed>>
replays == <<replay, phase, stored, quiet>>
replayVars == <<vars, store, replays>>

ReplayInit ==
  /\ Init
  /\ kind \in {"replay", "timed", "behavior"}
  /\ m_values = IF kind = "behavior" THEN <<NoValue>> ELSE <<>>
  /\ m_disposed = FALSE
  /\ replay = [o \in Observers |-> <<>>]
  /\ phase = [o \in Observers |-> "new"]
  /\ stored = [o \in Observers |-> [read |-> <<>>, of |-> {}]]
  /\ quiet = {}

\* deduce_timepoint(): what has expired goes.
Expired(values) ==
  IF kind = "timed"
  THEN {SubSeq(values, i, Len(values)) : i \in 1..(Len(values) + 1)}
  ELSE {values}

\* Mutant: a full store drops its newest value.
RoomNewest(values) ==
  IF kind = "behavior" THEN <<>>
  ELSE IF Len(values) >= Limit THEN SubSeq(values, 1, Limit - 1) ELSE values

\* add_value(): room is made first; a behavior_subject assigns its one value.
Room(values) ==
  IF kind = "behavior" THEN <<>>
  ELSE IF Len(values) >= Limit THEN SubSeq(values, Len(values) - Limit + 2, Len(values)) ELSE values

-----------------------------------------------------------------------------
Joining(o) == phase[o] = "replay" \/ (phase[o] = "done" /\ sub[o] = "new")

\* on_next of the subject: the value is kept, then the observers are told.
StoreNext(e) ==
  /\ ~m_disposed /\ NextCall(e)
  /\ \E values \in Expired(Room(m_values)) : m_values' = Append(values, calls + 1)
  /\ quiet' = {o \in quiet : ~Joining(o)}
  /\ UNCHANGED <<kind, m_disposed, replay, phase, stored>>

ReplayTerminalCall(e) == ~m_disposed /\ TerminalCall(e) /\ UNCHANGED <<store, replays>>

\* The dispose() behind on_error and on_completed.
ReplayReturn(e) == TerminalReturn(e) /\ m_disposed' = TRUE /\ UNCHANGED <<kind, m_values, replays>>

ReplayHandle(e) ==
  /\ NextSnapshot(e) \/ SerializeNext(e) \/ NextEnter(e) \/ NextLeave(e) \/ NextReturn(e)
     \/ TerminalExchange(e) \/ TerminalEnter(e) \/ TerminalLeave(e)
  /\ UNCHANGED <<store, replays>>

\* dispose() of the subject: the flag, then the list.
ReplayDispose ==
  \/ ~m_disposed /\ m_disposed' = TRUE /\ UNCHANGED <<vars, kind, m_values, replays>>
  \/ m_disposed /\ DisposeSubject /\ UNCHANGED <<store, replays>>

-----------------------------------------------------------------------------
\* get_observable(): a copy of the store; a behavior_subject that is disposed
\* has nothing to give.
ReadStored(o) ==
  /\ phase[o] = "new"
  /\ \E values \in Expired(m_values) :
       LET read == IF kind = "behavior" /\ m_disposed THEN <<>> ELSE values IN
         /\ m_values' = values
         /\ replay' = [replay EXCEPT ![o] = read]
         /\ stored' = [stored EXCEPT ![o] = [read |-> read, of |-> used]]
  /\ phase' = [phase EXCEPT ![o] = "replay"]
  /\ quiet' = IF \A e \in Emitters : pc[e] = "idle" THEN quiet \union {o} ELSE quiet
  /\ UNCHANGED <<vars, kind, m_disposed>>

\* Nobody else knows the observer yet, so one step a value.
GiveStored(o) ==
  /\ phase[o] = "replay"
  /\ IF replay[o] = <<>>
     THEN phase' = [phase EXCEPT ![o] = "done"] /\ UNCHANGED <<got, replay>>
     ELSE /\ got' = [got EXCEPT ![o] = IF observer[o] = "open" THEN Append(@, Head(replay[o])) ELSE @]
          /\ replay' = [replay EXCEPT ![o] = Tail(@)]
          /\ UNCHANGED phase
  /\ UNCHANGED <<subject, emitter, sub, upstream, observer, inside, history, store, stored, quiet>>

ReplaySubscribe(o) ==
  /\ phase[o] = "done" /\ Subscribe(o)
  /\ UNCHANGED <<store, replays>>

ReplayOnSubscribe(o) == (OnSubscribe(o) \/ Unsubscribe(o)) /\ UNCHANGED <<store, replays>>

ReplayNext ==
  \/ \E e \in Emitters : StoreNext(e) \/ ReplayTerminalCall(e) \/ ReplayHandle(e) \/ ReplayReturn(e)
  \/ \E o \in Observers :
       ReadStored(o) \/ GiveStored(o) \/ ReplaySubscribe(o) \/ ReplayOnSubscribe(o)
  \/ ReplayDispose

ReplaySpec == ReplayInit /\ [][ReplayNext]_replayVars

-----------------------------------------------------------------------------
Kept == Values \union {NoValue}

ReplayTypeOK ==
  /\ m_state \in {"observers", "disposed"} \union Terminals
  /\ m_observers \in Seq(Observers)
  /\ pc \in [Emitters -> PcValues]
  /\ got \in [Observers -> Seq(Kept)]
  /\ m_values \in Seq(Kept) /\ Len(m_values) <= (IF kind = "behavior" THEN 1 ELSE Limit)
  /\ replay \in [Observers -> Seq(Kept)] /\ stored \in [Observers -> [read : Seq(Kept), of : SUBSET Values]]
  /\ phase \in [Observers -> {"new", "replay", "done"}]
  /\ m_disposed \in BOOLEAN /\ quiet \subseteq Observers

\* The newest n of the values that were emitted, one by one.
Newest(values, n) == {v \in values : Cardinality({w \in values : v < w}) < n}

\* An observer that joins while no on_next is under way is given the newest
\* values there are, in order, at most Limit of them and without a gap, and goes
\* on from there: it has none twice, and misses none that comes later.
StoredThenLive ==
  \A o \in quiet :
    LET read == stored[o].read
        given == Len(read) - Len(replay[o]) IN
      /\ \A i \in 2..Len(read) : read[i - 1] < read[i]
      /\ CASE kind = "replay" -> ToSet(read) = Newest(stored[o].of, Limit)
           [] kind = "timed" -> \E n \in 0..Limit : ToSet(read) = Newest(stored[o].of, n)
           [] kind = "behavior" -> m_disposed \/ ToSet(read) = Newest(stored[o].of \union {NoValue}, 1)
      /\ IsInjective(got[o])
      /\ observer[o] = "open" => IsPrefix(SubSeq(read, 1, given), got[o])
      /\ observer[o] = "open" /\ sub[o] = "subscribed" /\ m_state = "observers" =>
           \A v \in used \ stored[o].of :
             Contains(got[o], v) \/ \E e \in Emitters : val[e] = v /\ InOnNext(e)
=============================================================================
