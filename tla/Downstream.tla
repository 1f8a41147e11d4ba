------------------------------ MODULE Downstream ------------------------------
(***************************************************************************)
(* The observer at the end of a chain, as an operator that calls it from    *)
(* several threads sees it.  rpp::details::observer_impl looks at           *)
(* is_disposed() before a callback and disposes the upstreams it was given  *)
(* after a terminal one; nothing in it excludes two threads.  The first     *)
(* upstream is the operator's state (disposed); outer are those it is given *)
(* later, past the operator.                                                *)
(***************************************************************************)
EXTENDS Integers, Sequences, FiniteSets, SequencesExt

CONSTANTS Threads,  \* threads that call the observer
          Links     \* subscriptions that can be disposed

VARIABLES
  closed,        \* the observer's is_disposed()
  ended,         \* the terminal call it got: "no", "completed" or "error"
  inside,        \* threads in one of its callbacks
  got,           \* values it received, in order
  held,          \* subscriptions the operator's state holds
  outer,         \* subscriptions the observer itself holds
  disposed,      \* the operator's state is disposed
  unsubscribed,  \* subscriptions that have been disposed
  pc,            \* per thread: its place in a call
  user           \* the subscriber's own dispose()

calls == <<closed, ended, inside, got>>
links == <<held, outer, disposed, unsubscribed>>
downstream == <<calls, links, user>>

DownstreamInit ==
  /\ closed = FALSE /\ ended = "no" /\ inside = {} /\ got = <<>>
  /\ held = {} /\ outer = {} /\ disposed = FALSE /\ unsubscribed = {}
  /\ user = "subscribed"

Goto(t, label) == pc' = [pc EXCEPT ![t] = label]

\* composite_disposable::add of the operator's state: a disposed one disposes
\* the newcomer.
Hold(l) ==
  /\ held' = IF disposed THEN held ELSE held \union {l}
  /\ unsubscribed' = IF disposed THEN unsubscribed \union {l} ELSE unsubscribed
  /\ UNCHANGED <<outer, disposed>>

\* composite_disposable::clear and dispose
ClearHeld == held' = {} /\ unsubscribed' = unsubscribed \union held /\ UNCHANGED <<outer, disposed>>
DisposeState ==
  disposed' = TRUE /\ held' = {} /\ unsubscribed' = unsubscribed \union held /\ UNCHANGED outer
DisposeUpstreams ==
  /\ disposed' = TRUE /\ held' = {} /\ outer' = {}
  /\ unsubscribed' = unsubscribed \union held \union outer

-----------------------------------------------------------------------------
(* One callback each: it begins if the observer is not disposed, and the     *)
(* thread goes on at the place named.                                        *)

BeginNext(t, v, in, after) ==
  /\ IF closed THEN UNCHANGED calls /\ Goto(t, after)
     ELSE /\ inside' = inside \union {t} /\ got' = Append(got, v)
          /\ UNCHANGED <<closed, ended>> /\ Goto(t, in)
  /\ UNCHANGED <<links, user>>

EndNext(t, after) ==
  /\ inside' = inside \ {t}
  /\ Goto(t, after)
  /\ UNCHANGED <<closed, ended, got, links, user>>

BeginTerminal(t, how, in, after) ==
  /\ IF closed THEN UNCHANGED calls /\ Goto(t, after)
     ELSE /\ inside' = inside \union {t} /\ ended' = how
          /\ UNCHANGED <<closed, got>> /\ Goto(t, in)
  /\ UNCHANGED <<links, user>>

EndTerminal(t, after) ==
  /\ inside' = inside \ {t} /\ closed' = TRUE
  /\ DisposeUpstreams
  /\ Goto(t, after)
  /\ UNCHANGED <<ended, got, user>>

-----------------------------------------------------------------------------
(* The subscriber leaves at any time: its own flag first, then the upstreams. *)

UserDispose ==
  /\ user = "subscribed"
  /\ closed' = TRUE /\ user' = "disposing"
  /\ UNCHANGED <<ended, inside, got, links, pc>>

UserDisposeUpstream ==
  /\ user = "disposing"
  /\ DisposeUpstreams /\ user' = "gone"
  /\ UNCHANGED <<calls, pc>>

User == UserDispose \/ UserDisposeUpstream

-----------------------------------------------------------------------------
DownstreamTypeOK ==
  /\ closed \in BOOLEAN /\ ended \in {"no", "completed", "error"}
  /\ inside \subseteq Threads
  /\ held \subseteq Links /\ outer \subseteq Links /\ unsubscribed \subseteq Links
  /\ disposed \in BOOLEAN
  /\ user \in {"subscribed", "disposing", "gone"}

Contract == INSTANCE RxContract WITH Callers <- Threads, terminated <- ended # "no"
=============================================================================
