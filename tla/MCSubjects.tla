------------------------------ MODULE MCSubjects ------------------------------
(* The subjects and what is built on one: a behaviour is one of a serialized *)
(* publish_subject with observers that come and go, a replay or behavior      *)
(* subject that one of them joins, and a gRPC reactor.                        *)
EXTENDS Integers, Sequences, TLC

CONSTANTS Emitters, Observers, Newcomers, Terminals, NoOne,
          MaxCalls,    \* bound: calls of a subject
          Limit,       \* bound of the store of a replay_subject
          WriterCalls, \* bound: calls of the observer of a reactor
          MaxReads     \* bound: messages a reactor is brought

ASSUME EmittersAssumption ==
  Emitters \intersect (Observers \union Newcomers) = {} /\ NoOne \notin Emitters
ASSUME TerminalsAssumption == Terminals \subseteq {"completed", "error"}
ASSUME BoundsAssumption ==
  MaxCalls \in Nat /\ Limit \in Nat \ {0} /\ WriterCalls \in Nat /\ MaxReads \in Nat

VARIABLES
  family,
  m_state, m_observers, m_serialized, pc, val, todo, sub, upstream, observer, inside, got,
  used, due, calls,
  kind, m_values, m_disposed, replay, phase, stored, quiet,
  m_write, m_finished, m_subject, message, writing, reading, written, finish, observable,
  read, call, failed, accepted

Publish == INSTANCE SubjectState WITH Serialized <- TRUE
Replay == INSTANCE ReplaySubject WITH Serialized <- TRUE, Observers <- Newcomers
Reactor == INSTANCE Reactors WITH Producers <- Emitters, MaxCalls <- WriterCalls

ofSubject == <<m_state, m_observers, m_serialized, val, todo, sub, upstream, observer, inside, got, used, due>>
ofReplay == <<m_values, m_disposed, replay, phase, stored, quiet>>
ofReactor == <<m_write, m_finished, m_subject, message, writing, reading, written, finish,
               observable, read, call, failed, accepted>>
vars == <<family, pc, calls, kind, ofSubject, ofReplay, ofReactor>>

\* The others' variables, where they are not used.
NoSubject ==
  /\ m_state = "" /\ m_observers = "" /\ m_serialized = "" /\ val = "" /\ todo = "" /\ sub = ""
  /\ upstream = "" /\ observer = "" /\ inside = "" /\ got = "" /\ used = "" /\ due = ""
NoReplay ==
  m_values = "" /\ m_disposed = "" /\ replay = "" /\ phase = "" /\ stored = "" /\ quiet = ""
NoReactor ==
  /\ m_write = "" /\ m_finished = "" /\ m_subject = "" /\ message = "" /\ writing = ""
  /\ reading = "" /\ written = "" /\ finish = "" /\ observable = "" /\ read = "" /\ call = ""
  /\ failed = "" /\ accepted = ""

Init ==
  \/ family = "publish" /\ Publish!Init /\ kind = "" /\ NoReplay /\ NoReactor
  \/ family = "replay" /\ Replay!ReplayInit /\ NoReactor
  \/ family = "reactor" /\ Reactor!Init /\ NoSubject /\ NoReplay

Next ==
  /\ UNCHANGED family
  /\ \/ family = "publish" /\ Publish!Next /\ UNCHANGED <<kind, ofReplay, ofReactor>>
     \/ family = "replay" /\ Replay!ReplayNext /\ UNCHANGED ofReactor
     \/ family = "reactor" /\ Reactor!Next /\ UNCHANGED <<ofSubject, ofReplay>>

Spec == Init /\ [][Next]_vars

Symmetry == Permutations(Emitters) \union Permutations(Observers)

-----------------------------------------------------------------------------
TypeOK ==
  CASE family = "publish" -> Publish!TypeOK
    [] family = "replay" -> Replay!ReplayTypeOK
    [] family = "reactor" -> Reactor!TypeOK

\* Observers of one subject agree on the order of values.
SameOrder == family = "publish" => Publish!SameOrder

\* A value reaches every observer that was there, once; a message reaches the gRPC
\* stream once, in order, and the call is finished once, after the last of them.
ReachesEverybodyOnce ==
  CASE family = "publish" -> Publish!ReachesEverybodyOnce
    [] family = "replay" -> TRUE
    [] family = "reactor" -> Reactor!OneWriteInOrder /\ Reactor!FinishesAfterLastWrite

\* An observer that joins is given the newest values, then every later one.
StoredThenLive == family = "replay" => Replay!StoredThenLive

\* Everybody hears of the end, whenever it comes.
NobodyMissesTheEnd ==
  CASE family = "publish" -> Publish!NobodyMissesTheEnd
    [] family = "replay" -> Replay!NobodyMissesTheEnd
    [] family = "reactor" -> Reactor!EndsWithTheCall

\* What every observer sees of a subject is a legal sequence of serial calls.
FollowsContract ==
  /\ family = "publish" => Publish!ContractInit
  /\ [][CASE family = "publish" -> Publish!ContractStep
          [] family = "replay" -> Replay!ContractStep
          [] family = "reactor" -> TRUE]_vars
=============================================================================
