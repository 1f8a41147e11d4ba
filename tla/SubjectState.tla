---------------------------- MODULE SubjectState ----------------------------
(***************************************************************************)
(* rpp::subjects::details::subject_state: the list of observers behind      *)
(* publish_subject (Serialized = FALSE: one emitting thread) and            *)
(* serialized_publish_subject (TRUE: any number), and behind every subject  *)
(* of the library.  Emitters call on_next, on_error, on_completed and       *)
(* dispose of the subject; every observer subscribes and unsubscribes from  *)
(* a thread of its own, at any moment of an emission.                       *)
(*                                                                         *)
(* A section of m_mutex makes no callback and is one step.  The list is     *)
(* only appended to, and replaced when an observer leaves, so an iterator   *)
(* with a size, which is what on_next keeps after it unlocks, is a copy of  *)
(* the list.  A callback of an observer takes two steps, its begin and end. *)
(***************************************************************************)
EXTENDS Integers, Sequences, SequencesExt

CONSTANTS Emitters, Observers, NoOne, Serialized,
          Terminals, \* "completed", "error": on_completed and on_error differ
                     \* only in what they tell and leave behind
          MaxCalls  \* bound: on_next, on_error and on_completed calls in total

\* The values of the stream: each on_next has its own, the number of its call.
Values == 1..MaxCalls
NoValue == 0

VARIABLES
  m_state,         \* "observers", or how the subject ended
  m_observers,     \* the list m_state holds while it is "observers"
  m_serialized,    \* who holds m_serialized_mutex
  pc, val, todo,   \* per emitter: label, value in hand, observers left to call
  sub,             \* per observer: how far on_subscribe and dispose() are
  upstream,        \* observers whose disposable is in their observer
  observer,        \* "open", or how the observer was closed
  inside,          \* per observer: who is in one of its callbacks
  got,             \* per observer: values received, in order
  used,            \* history: values some on_next was called with
  due,             \* history: observers there when on_next of a value was called
  calls

subject == <<m_state, m_observers, m_serialized>>
emitter == <<pc, val, todo>>
obs == <<sub, upstream, observer, inside, got>>
history == <<used, due, calls>>
vars == <<subject, emitter, obs, history>>

Init ==
  /\ m_state = "observers"
  /\ m_observers = <<>>
  /\ m_serialized = NoOne
  /\ pc = [e \in Emitters |-> "idle"]
  /\ val = [e \in Emitters |-> NoValue]
  /\ todo = [e \in Emitters |-> <<>>]
  /\ sub = [o \in Observers |-> "new"]
  /\ upstream = {}
  /\ observer = [o \in Observers |-> "open"]
  /\ inside = [o \in Observers |-> {}]
  /\ got = [o \in Observers |-> <<>>]
  /\ used = {}
  /\ due = [v \in Values |-> {}]
  /\ calls = 0

Goto(e, label) == pc' = [pc EXCEPT ![e] = label]
Become(o, label) == sub' = [sub EXCEPT ![o] = label]

\* exchange_observers_under_lock_if_there: only a list is replaced.
Exchange(next) ==
  IF m_state = "observers"
  THEN m_state' = next /\ m_observers' = <<>>
  ELSE UNCHANGED <<m_state, m_observers>>

-----------------------------------------------------------------------------
(* on_next                                                                  *)

Call(e) == pc[e] = "idle" /\ calls < MaxCalls /\ calls' = calls + 1

NextCall(e) ==
  /\ Call(e)
  /\ LET v == calls + 1 IN
       /\ val' = [val EXCEPT ![e] = v]
       /\ used' = used \union {v}
       /\ due' = [due EXCEPT ![v] = {o \in Observers : sub[o] = "subscribed" /\ observer[o] = "open"}]
  /\ Goto(e, "snapshot")
  /\ UNCHANGED <<subject, todo, obs>>

NextSnapshot(e) ==
  /\ pc[e] = "snapshot"
  /\ IF m_state = "observers" /\ m_observers # <<>>
     THEN todo' = [todo EXCEPT ![e] = m_observers] /\ Goto(e, "serialize") /\ UNCHANGED val
     ELSE val' = [val EXCEPT ![e] = NoValue] /\ Goto(e, "idle") /\ UNCHANGED todo
  /\ UNCHANGED <<subject, obs, history>>

\* Mutant: m_serialized_mutex is not taken.
SerializeNextUnlocked(e) ==
  /\ pc[e] = "serialize"
  /\ m_serialized' = e
  /\ Goto(e, "broadcast")
  /\ UNCHANGED <<m_state, m_observers, val, todo, obs, history>>

SerializeNext(e) ==
  /\ pc[e] = "serialize"
  /\ Serialized => m_serialized = NoOne
  /\ m_serialized' = e
  /\ Goto(e, "broadcast")
  /\ UNCHANGED <<m_state, m_observers, val, todo, obs, history>>

\* The observer itself drops the call once it is closed.
NextEnter(e) ==
  /\ pc[e] = "broadcast" /\ todo[e] # <<>>
  /\ LET o == Head(todo[e]) IN
       IF observer[o] = "open"
       THEN /\ inside' = [inside EXCEPT ![o] = @ \union {e}]
            /\ got' = [got EXCEPT ![o] = Append(@, val[e])]
            /\ Goto(e, "in_next") /\ UNCHANGED todo
       ELSE /\ todo' = [todo EXCEPT ![e] = Tail(@)]
            /\ UNCHANGED <<inside, got, pc>>
  /\ UNCHANGED <<subject, val, sub, upstream, observer, history>>

NextLeave(e) ==
  /\ pc[e] = "in_next"
  /\ inside' = [inside EXCEPT ![Head(todo[e])] = @ \ {e}]
  /\ todo' = [todo EXCEPT ![e] = Tail(@)]
  /\ Goto(e, "broadcast")
  /\ UNCHANGED <<subject, val, sub, upstream, observer, got, history>>

\* The end of the loop of on_next releases m_serialized_mutex.
NextReturn(e) ==
  /\ pc[e] = "broadcast" /\ todo[e] = <<>>
  /\ m_serialized' = NoOne
  /\ Goto(e, "idle")
  /\ val' = [val EXCEPT ![e] = NoValue]
  /\ UNCHANGED <<m_state, m_observers, todo, obs, history>>

-----------------------------------------------------------------------------
(* on_error and on_completed                                                *)

TerminalCall(e) ==
  /\ Call(e)
  /\ \E k \in Terminals : Goto(e, k)
  /\ UNCHANGED <<subject, val, todo, obs, used, due>>

\* Mutant: the observers are told without m_serialized_mutex.
TerminalExchangeUnlocked(e) ==
  /\ pc[e] \in Terminals
  /\ m_serialized' = e
  /\ todo' = [todo EXCEPT ![e] = m_observers]
  /\ Exchange(pc[e])
  /\ Goto(e, "end_all")
  /\ UNCHANGED <<val, obs, history>>

\* Mutant: the list is copied, and the state stays what it is.
TerminalExchangeMissing(e) ==
  /\ pc[e] \in Terminals
  /\ Serialized => m_serialized = NoOne
  /\ m_serialized' = e
  /\ todo' = [todo EXCEPT ![e] = m_observers]
  /\ Goto(e, "end_all")
  /\ UNCHANGED <<m_state, m_observers, val, obs, history>>

\* m_serialized_mutex, then the list under m_mutex; of two terminal calls the
\* second finds no list.
TerminalExchange(e) ==
  /\ pc[e] \in Terminals
  /\ Serialized => m_serialized = NoOne
  /\ m_serialized' = e
  /\ todo' = [todo EXCEPT ![e] = m_observers]
  /\ Exchange(pc[e])
  /\ Goto(e, "end_all")
  /\ UNCHANGED <<val, obs, history>>

TerminalEnter(e) ==
  /\ pc[e] = "end_all" /\ todo[e] # <<>>
  /\ LET o == Head(todo[e]) IN
       IF observer[o] = "open"
       THEN /\ inside' = [inside EXCEPT ![o] = @ \union {e}]
            /\ observer' = [observer EXCEPT ![o] = m_state]
            /\ Goto(e, "in_terminal") /\ UNCHANGED todo
       ELSE /\ todo' = [todo EXCEPT ![e] = Tail(@)]
            /\ UNCHANGED <<inside, observer, pc>>
  /\ UNCHANGED <<subject, val, sub, upstream, got, history>>

TerminalLeave(e) ==
  /\ pc[e] = "in_terminal"
  /\ inside' = [inside EXCEPT ![Head(todo[e])] = @ \ {e}]
  /\ todo' = [todo EXCEPT ![e] = Tail(@)]
  /\ Goto(e, "end_all")
  /\ UNCHANGED <<subject, val, sub, upstream, observer, got, history>>

\* The dispose() after the loop finds no list to exchange.
TerminalReturn(e) ==
  /\ pc[e] = "end_all" /\ todo[e] = <<>>
  /\ m_serialized' = NoOne
  /\ Goto(e, "idle")
  /\ UNCHANGED <<m_state, m_observers, val, todo, obs, history>>

\* dispose() of the subject itself: the list is dropped, nobody is told.
DisposeSubject ==
  /\ m_state = "observers"
  /\ Exchange("disposed")
  /\ UNCHANGED <<m_serialized, emitter, obs, history>>

-----------------------------------------------------------------------------
(* on_subscribe                                                             *)

\* Mutant: a newcomer is put on the list of an ended subject as well.
SubscribeUnchecked(o) ==
  /\ sub[o] = "new"
  /\ m_observers' = Append(m_observers, o) /\ Become(o, "listed")
  /\ UNCHANGED <<m_state, m_serialized, emitter, upstream, observer, inside, got, history>>

Subscribe(o) ==
  /\ sub[o] = "new"
  /\ IF m_state = "observers"
     THEN m_observers' = Append(m_observers, o) /\ Become(o, "listed")
     ELSE /\ UNCHANGED m_observers
          /\ Become(o, IF m_state = "disposed" THEN "refused" ELSE "late")
  /\ UNCHANGED <<m_state, m_serialized, emitter, upstream, observer, inside, got, history>>

\* cleanup_observers: a copy of the list without one observer, who is on it at
\* most once.
Without(list, o) ==
  IF Contains(list, o) THEN RemoveAt(list, CHOOSE i \in DOMAIN list : list[i] = o) ELSE list

\* After the unlock the observer gets its upstream; an emitter that finds it in
\* the list may be calling it meanwhile.
UpstreamEnter(o) ==
  /\ sub[o] = "listed"
  /\ inside' = [inside EXCEPT ![o] = @ \union {o}]
  /\ Become(o, "in_set_upstream")
  /\ UNCHANGED <<subject, emitter, upstream, observer, got, history>>

\* A closed observer disposes what it is given: it leaves the list.
UpstreamLeave(o) ==
  /\ sub[o] = "in_set_upstream"
  /\ inside' = [inside EXCEPT ![o] = @ \ {o}]
  /\ IF observer[o] = "open"
     THEN upstream' = upstream \union {o} /\ UNCHANGED m_observers
     ELSE m_observers' = Without(m_observers, o) /\ UNCHANGED upstream
  /\ Become(o, "subscribed")
  /\ UNCHANGED <<m_state, m_serialized, emitter, observer, got, history>>

\* A subscriber of an ended subject is told so at once.
LateEnter(o) ==
  /\ sub[o] = "late"
  /\ IF observer[o] = "open"
     THEN /\ observer' = [observer EXCEPT ![o] = m_state]
          /\ inside' = [inside EXCEPT ![o] = @ \union {o}]
     ELSE UNCHANGED <<observer, inside>>
  /\ Become(o, "in_late")
  /\ UNCHANGED <<subject, emitter, upstream, got, history>>

LateLeave(o) ==
  /\ sub[o] = "in_late"
  /\ inside' = [inside EXCEPT ![o] = @ \ {o}]
  /\ Become(o, "subscribed")
  /\ UNCHANGED <<subject, emitter, upstream, observer, got, history>>

\* The subscriber disposes its side: the observer is closed at once, and the
\* disposable it was given, if any, takes it off the list.
Unsubscribe(o) ==
  /\ observer[o] = "open"
  /\ observer' = [observer EXCEPT ![o] = "disposed"]
  /\ UNCHANGED <<subject, emitter, sub, upstream, inside, got, history>>

\* Mutant: the copy of the list stops at the observer that leaves.
CleanupTruncates(o) ==
  /\ observer[o] # "open" /\ o \in upstream
  /\ upstream' = upstream \ {o}
  /\ m_observers' = IF Contains(m_observers, o)
                    THEN SubSeq(m_observers, 1, SelectInSeq(m_observers, LAMBDA p : p = o) - 1)
                    ELSE m_observers
  /\ UNCHANGED <<m_state, m_serialized, emitter, sub, observer, inside, got, history>>

CleanupObservers(o) ==
  /\ observer[o] # "open" /\ o \in upstream
  /\ upstream' = upstream \ {o}
  /\ m_observers' = Without(m_observers, o)
  /\ UNCHANGED <<m_state, m_serialized, emitter, sub, observer, inside, got, history>>

-----------------------------------------------------------------------------
Emit(e) == NextCall(e) \/ TerminalCall(e)
Handle(e) ==
  \/ NextSnapshot(e) \/ SerializeNext(e) \/ NextEnter(e) \/ NextLeave(e) \/ NextReturn(e)
  \/ TerminalExchange(e) \/ TerminalEnter(e) \/ TerminalLeave(e)
  \/ TerminalReturn(e)
OnSubscribe(o) ==
  UpstreamEnter(o) \/ UpstreamLeave(o) \/ LateEnter(o) \/ LateLeave(o) \/ CleanupObservers(o)

Next ==
  \/ \E e \in Emitters : Emit(e) \/ Handle(e)
  \/ \E o \in Observers : Subscribe(o) \/ OnSubscribe(o) \/ Unsubscribe(o)
  \/ DisposeSubject

Spec == Init /\ [][Next]_vars

-----------------------------------------------------------------------------
PcValues == {"idle", "snapshot", "serialize", "broadcast", "in_next", 
             "end_all", "in_terminal"} \union Terminals

TypeOK ==
  /\ m_state \in {"observers", "disposed"} \union Terminals
  /\ m_observers \in Seq(Observers)
  /\ m_serialized \in Emitters \union {NoOne}
  /\ pc \in [Emitters -> PcValues]
  /\ val \in [Emitters -> Values \union {NoValue}]
  /\ todo \in [Emitters -> Seq(Observers)]
  /\ sub \in [Observers -> {"new", "listed", "in_set_upstream", "late", "in_late", "refused", "subscribed"}]
  /\ upstream \subseteq Observers
  /\ observer \in [Observers -> {"open", "disposed"} \union Terminals]
  /\ inside \in [Observers -> SUBSET (Emitters \union Observers)]
  /\ got \in [Observers -> Seq(Values)]
  /\ used \subseteq Values
  /\ due \in [Values -> SUBSET Observers]
  /\ calls \in 0..MaxCalls

\* The emissions every single observer sees follow the observable contract,
\* with any number of emitters (serialized_publish_subject).
EmittingTo(o) == IF sub[o] = "in_set_upstream" THEN inside[o] \ {o} ELSE inside[o]
Ended(o) == observer[o] \in Terminals
Contract(o) == INSTANCE RxContract WITH
  Callers <- Emitters \union {o}, inside <- EmittingTo(o), terminated <- Ended(o)
ContractInit == \A o \in Observers : Contract(o)!Init
ContractStep == \A o \in Observers : Contract(o)!Next \/ UNCHANGED <<EmittingTo(o), Ended(o)>>
FollowsContract == ContractInit /\ [][ContractStep]_vars

\* Two observers never disagree on the order of two values both received.
SameOrder ==
  \A o, p \in Observers :
    \A i, j \in DOMAIN got[o] : \A k, l \in DOMAIN got[p] :
      i < j /\ got[o][i] = got[p][k] /\ got[o][j] = got[p][l] => k < l

\* An observer whose subscribe() had returned when on_next was called has the
\* value when on_next returns, unless the observer or the subject ended in
\* between, and nobody has a value twice: neither the copies of the list nor the
\* observers that join and leave lose or double a call.
InOnNext(e) == pc[e] \in {"snapshot", "serialize", "broadcast", "in_next"}
ReachesEverybodyOnce ==
  /\ m_state = "observers" =>
       \A v \in used :
         (\A e \in Emitters : val[e] = v => ~InOnNext(e))
           => \A o \in due[v] : observer[o] = "open" => Contains(got[o], v)
  /\ \A o \in Observers : IsInjective(got[o])

\* Nobody misses the end: once the calls under way are over, every observer
\* that subscribed, before, while or after the subject ended, has ended too.
NobodyMissesTheEnd ==
  m_state \in Terminals /\ (\A e \in Emitters : pc[e] # "end_all" /\ pc[e] # "in_terminal") =>
    \A o \in Observers : sub[o] \in {"listed", "in_set_upstream", "subscribed"} => observer[o] # "open"
=============================================================================
