------------------------------- MODULE Connectable -------------------------------
(***************************************************************************)
(* publish() | ref_count(): connectable_observable::connect() and the         *)
(* observable of ref_count(), with one refcount_disposable for each time the  *)
(* source is connected to.  Every observer subscribes on a thread of its own  *)
(* and leaves on another; the source runs on its own thread and may end.      *)
(* A refcount_disposable is what RefCountDisposable has shown of it: release() *)
(* of the last handle marks the count, then disposes, then unsubscribes.      *)
(***************************************************************************)
EXTENDS Naturals, Integers, FiniteSets

CONSTANTS Observers, Nobody,
          MaxWrappers  \* bound: disposables connect() is called with

Wrappers == 1..MaxWrappers
Empty == 0
s_disposed == -1

VARIABLES
  mutex,        \* of the state of ref_count: who is in on_subscribe
  ref,          \* its disposable
  connection,   \* the disposable of the connectable_observable
  made,         \* wrappers so far
  by_user,      \* wrappers of explicit connect() calls
  m_refcount,   \* per wrapper
  disposed,     \* wrappers that are disposed
  live,         \* wrappers that hold a subscription to the source
  m_subject,    \* "open" or "ended": the source has completed or failed
  pc,           \* of each subscribing thread, and of the user of connect()
  handle,       \* per observer: the wrapper it holds a handle of
  upstream,     \* per observer: the wrapper it is to connect with
  leaving,      \* of the thread that disposes of an observer's subscription
  closed        \* observers that are closed, by their user or by the end

ref_count == <<mutex, ref>>
disposables == <<made, by_user, m_refcount, disposed, live>>
subscriber == <<pc, handle, upstream>>
vars == <<ref_count, connection, disposables, m_subject, subscriber, leaving, closed>>

Callers == Observers \union {Nobody}

Init ==
  /\ mutex = Nobody /\ ref = Empty /\ connection = Empty
  /\ made = 0 /\ by_user = {} /\ m_refcount = [w \in Wrappers |-> 0]
  /\ disposed = {} /\ live = {} /\ m_subject = "open"
  /\ pc = [o \in Callers |-> "new"]
  /\ handle = [o \in Observers |-> Empty] /\ upstream = [o \in Callers |-> Empty]
  /\ leaving = [o \in Observers |-> "no"] /\ closed = {}

Goto(o, label) == pc' = [pc EXCEPT ![o] = label]
IsDisposed(w) == w = Empty \/ w \in disposed

-----------------------------------------------------------------------------
(* ref_count_on_subscribe_t::subscribe                                      *)

\* on_subscribe: a disposable that is not disposed, or a new one.
Lock(o) ==
  /\ pc[o] = "new" /\ mutex = Nobody
  /\ mutex' = o
  /\ Goto(o, IF IsDisposed(ref) THEN "make" ELSE "add_ref")
  /\ UNCHANGED <<ref, connection, disposables, m_subject, handle, upstream, leaving, closed>>

Make(o) ==
  /\ pc[o] = "make" /\ made < MaxWrappers
  /\ made' = made + 1 /\ ref' = made + 1
  /\ m_refcount' = [m_refcount EXCEPT ![made + 1] = 1]
  /\ handle' = [handle EXCEPT ![o] = made + 1]
  /\ upstream' = [upstream EXCEPT ![o] = made + 1]
  /\ mutex' = Nobody /\ Goto(o, "set_upstream")
  /\ UNCHANGED <<connection, by_user, disposed, live, m_subject, leaving, closed>>

\* add_ref() of a disposable whose last handle is going gives an empty one.
AddRef(o) ==
  /\ pc[o] = "add_ref"
  /\ IF m_refcount[ref] = s_disposed
     THEN UNCHANGED <<m_refcount, handle>>
     ELSE /\ m_refcount' = [m_refcount EXCEPT ![ref] = @ + 1]
          /\ handle' = [handle EXCEPT ![o] = ref]
  /\ mutex' = Nobody /\ Goto(o, "set_upstream")
  /\ UNCHANGED <<ref, connection, made, by_user, disposed, live, m_subject, upstream, leaving, closed>>

\* A closed observer disposes the handle it is given.
SetUpstream(o) ==
  /\ pc[o] = "set_upstream"
  /\ leaving' = [leaving EXCEPT ![o] = IF o \in closed THEN "release" ELSE @]
  /\ Goto(o, "subscribe")
  /\ UNCHANGED <<ref_count, connection, disposables, m_subject, handle, upstream, closed>>

\* The subject takes the observer, or ends it at once.
SubscribeSubject(o) ==
  /\ pc[o] = "subscribe"
  /\ Goto(o, IF IsDisposed(upstream[o]) THEN "subscribed" ELSE "connect")
  /\ IF m_subject = "ended" /\ o \notin closed
     THEN closed' = closed \union {o} /\ leaving' = [leaving EXCEPT ![o] = "release"]
     ELSE UNCHANGED <<closed, leaving>>
  /\ UNCHANGED <<ref_count, connection, disposables, m_subject, handle, upstream>>

-----------------------------------------------------------------------------
(* connectable_observable::connect, by ref_count or by a user               *)

\* The user of connect() has a wrapper of its own, and may dispose of it.
ConnectCall ==
  /\ pc[Nobody] = "new" /\ made < MaxWrappers
  /\ made' = made + 1 /\ by_user' = by_user \union {made + 1}
  /\ upstream' = [upstream EXCEPT ![Nobody] = made + 1]
  /\ Goto(Nobody, "connect")
  /\ UNCHANGED <<ref_count, connection, m_refcount, disposed, live, m_subject, handle, leaving, closed>>

\* Mutant: a connection there is does not keep another one from being made.
ConnectAgain(o) ==
  /\ pc[o] = "connect"
  /\ IF m_subject = "ended"
     THEN UNCHANGED connection /\ Goto(o, "subscribed")
     ELSE connection' = upstream[o] /\ Goto(o, "source")
  /\ UNCHANGED <<ref_count, disposables, m_subject, handle, upstream, leaving, closed>>

\* Under the mutex: nothing to do for a subject that has ended or a connection
\* that is there.
Connect(o) ==
  /\ pc[o] = "connect"
  /\ IF m_subject = "ended" \/ ~IsDisposed(connection)
     THEN UNCHANGED connection /\ Goto(o, "subscribed")
     ELSE connection' = upstream[o] /\ Goto(o, "source")
  /\ UNCHANGED <<ref_count, disposables, m_subject, handle, upstream, leaving, closed>>

\* subscribe(wrapper, observer): a disposed wrapper subscribes to nothing.
SubscribeSource(o) ==
  /\ pc[o] = "source"
  /\ live' = IF upstream[o] \in disposed THEN live ELSE live \union {upstream[o]}
  /\ Goto(o, "subscribed")
  /\ UNCHANGED <<ref_count, connection, made, by_user, m_refcount, disposed, m_subject,
                 handle, upstream, leaving, closed>>

DisposeConnection ==
  /\ pc[Nobody] = "subscribed" /\ upstream[Nobody] \notin disposed
  /\ disposed' = disposed \union {upstream[Nobody]}
  /\ UNCHANGED <<ref_count, connection, made, by_user, m_refcount, live, m_subject,
                 subscriber, leaving, closed>>

\* What a disposed wrapper held is unsubscribed.
Unsubscribe(w) ==
  /\ w \in disposed /\ w \in live
  /\ live' = live \ {w}
  /\ UNCHANGED <<ref_count, connection, made, by_user, m_refcount, disposed, m_subject,
                 subscriber, leaving, closed>>

-----------------------------------------------------------------------------
(* The end of a subscription                                                *)

Installed(o) == pc[o] \in {"subscribe", "connect", "source", "subscribed"}

\* The user leaves, at any moment; the handle goes if it is there already.
Leave(o) ==
  /\ o \notin closed /\ pc[o] # "new"
  /\ closed' = closed \union {o}
  /\ leaving' = [leaving EXCEPT ![o] = IF Installed(o) THEN "release" ELSE @]
  /\ UNCHANGED <<ref_count, connection, disposables, m_subject, subscriber>>

\* The source ends: the subject does, and with it every observer that has
\* subscribed; then the wrapper of the subscription is disposed.
SourceEnds(w) ==
  /\ w \in live \ disposed /\ m_subject = "open"
  /\ m_subject' = "ended"
  /\ LET told == {o \in Observers \ closed : pc[o] \in {"connect", "source", "subscribed"}} IN
       /\ closed' = closed \union told
       /\ leaving' = [o \in Observers |-> IF o \in told THEN "release" ELSE leaving[o]]
  /\ disposed' = disposed \union {w}
  /\ m_refcount' = [m_refcount EXCEPT ![w] = s_disposed]
  /\ UNCHANGED <<ref_count, connection, made, by_user, live, subscriber>>

\* release() of the handle
Release(o) ==
  /\ leaving[o] = "release"
  /\ LET w == handle[o] IN
     \/ /\ w = Empty \/ (w # Empty /\ m_refcount[w] = s_disposed)
        /\ leaving' = [leaving EXCEPT ![o] = "done"] /\ UNCHANGED m_refcount
     \/ /\ w # Empty /\ m_refcount[w] > 1
        /\ m_refcount' = [m_refcount EXCEPT ![w] = @ - 1]
        /\ leaving' = [leaving EXCEPT ![o] = "done"]
     \/ /\ w # Empty /\ m_refcount[w] = 1
        /\ m_refcount' = [m_refcount EXCEPT ![w] = s_disposed]
        /\ leaving' = [leaving EXCEPT ![o] = "dispose"]
  /\ UNCHANGED <<ref_count, connection, made, by_user, disposed, live, m_subject, subscriber, closed>>

DisposeLast(o) ==
  /\ leaving[o] = "dispose"
  /\ disposed' = disposed \union {handle[o]}
  /\ leaving' = [leaving EXCEPT ![o] = "done"]
  /\ UNCHANGED <<ref_count, connection, made, by_user, m_refcount, live, m_subject, subscriber, closed>>

Subscribe(o) == Lock(o) \/ Make(o) \/ AddRef(o) \/ SetUpstream(o) \/ SubscribeSubject(o)

Next ==
  \/ \E o \in Observers : Subscribe(o) \/ Leave(o) \/ Release(o) \/ DisposeLast(o)
  \/ \E o \in Callers : Connect(o) \/ SubscribeSource(o)
  \/ ConnectCall \/ DisposeConnection
  \/ \E w \in Wrappers : Unsubscribe(w) \/ SourceEnds(w)

Spec == Init /\ [][Next]_vars

-----------------------------------------------------------------------------
TypeOK ==
  /\ mutex \in Callers /\ {ref, connection} \subseteq Wrappers \union {Empty}
  /\ made \in 0..MaxWrappers /\ by_user \subseteq Wrappers
  /\ m_refcount \in [Wrappers -> 0..Cardinality(Observers) \union {s_disposed}]
  /\ disposed \subseteq Wrappers /\ live \subseteq Wrappers /\ m_subject \in {"open", "ended"}
  /\ pc \in [Callers -> {"new", "make", "add_ref", "set_upstream", "subscribe", "connect",
                         "source", "subscribed"}]
  /\ handle \in [Observers -> Wrappers \union {Empty}]
  /\ upstream \in [Callers -> Wrappers \union {Empty}]
  /\ leaving \in [Observers -> {"no", "release", "dispose", "done"}]
  /\ closed \subseteq Observers

\* The subject is not serialized: however subscriptions, connect() and the last
\* release race, the source is never subscribed to twice at a time but for one
\* that is being unsubscribed.
OneConnection == Cardinality(live \ disposed) <= 1

Quiet ==
  /\ \A o \in Callers : pc[o] \in {"new", "subscribed"}
  /\ \A o \in Observers : leaving[o] \in {"no", "done"}
  /\ live \intersect disposed = {}

\* "Connects on the first subscription and unsubscribes on last unsubscription":
\* when all have left, and no user has connected, nothing is subscribed to the
\* source; and an observer that holds a handle keeps its disposable alive.
LastOneDisconnects ==
  /\ Quiet /\ (\A o \in Observers : o \in closed \/ pc[o] = "new") => live \subseteq by_user
  /\ \A o \in Observers :
       handle[o] # Empty /\ leaving[o] \in {"no", "release"} /\ m_subject = "open" =>
         handle[o] \notin disposed

\* ... and an observer that stays, of a source that goes on, is connected to it,
\* as long as no user of connect() takes a hand in it.
StaysConnected ==
  Quiet /\ m_subject = "open" /\ by_user = {} =>
    \A o \in Observers : pc[o] = "subscribed" /\ o \notin closed => live # {}
=============================================================================
