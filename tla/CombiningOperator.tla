-------------------------- MODULE CombiningOperator --------------------------
(***************************************************************************)
(* What merge, concat and switch_on_next share.  A base observable emits    *)
(* inner observables; each of these sources runs on a thread of its own and *)
(* calls its own observer serially.  The operator's state is one disposable *)
(* with the downstream observer behind a mutex (value_with_mutex) and the   *)
(* sources' upstream disposables; disposing the downstream observer         *)
(* disposes that state, and with it the sources.  The composite disposables *)
(* involved are atomic here: CompositeDisposable has their steps.           *)
(*                                                                         *)
(* The operators extend this module; the actions below leave their own      *)
(* variables to them.                                                       *)
(***************************************************************************)
EXTENDS Integers, FiniteSets

CONSTANTS Inners,    \* inner observables the base may emit
          Base, NoOne,
          MaxEmits   \* bound: values of one inner observable

Sources == Inners \union {Base}

ASSUME SourcesAssumption ==
  IsFiniteSet(Inners) /\ Base \notin Inners /\ NoOne \notin Inners \union {Base}
ASSUME MaxEmitsAssumption == MaxEmits \in Nat

VARIABLES
  mutex,         \* the source that holds the mutex of the downstream observer
  observer,      \* downstream: "open", or how it was closed
  inside,        \* sources in a callback of the downstream observer
  delivered,     \* values the downstream observer got, per inner observable
  held,          \* upstream disposables the operator's state holds
  disposed,      \* the operator's state is disposed
  unsubscribed,  \* sources whose disposable is disposed
  pc, arg,       \* per source: its place in a call, the inner it works on
  emitted,       \* values it has emitted
  subscribed,    \* sources that have been subscribed to
  finished,      \* how the source ended: "no", "completed" or "error"
  user           \* the subscriber's own dispose()

downstream == <<observer, inside, delivered>>
subscriptions == <<held, disposed, unsubscribed>>
sources == <<arg, emitted, subscribed, finished>>
common == <<mutex, downstream, subscriptions, sources, pc, user>>

CommonInit ==
  /\ mutex = NoOne
  /\ observer = "open"
  /\ inside = {}
  /\ delivered = [i \in Inners |-> 0]
  /\ held = {Base}
  /\ disposed = FALSE
  /\ unsubscribed = {}
  /\ pc = [s \in Sources |-> "idle"]
  /\ arg = [s \in Sources |-> NoOne]
  /\ emitted = [i \in Inners |-> 0]
  /\ subscribed = {Base}
  /\ finished = [s \in Sources |-> "no"]
  /\ user = "subscribed"

\* The places of a source that the operators share.
CommonLabels == {"idle", "next", "in_next", "completed", "error", "in_terminal", "ignored", "done"}

Goto(s, label) == pc' = [pc EXCEPT ![s] = label]

\* The source is between two calls and has not ended.
Running(s) == s \in subscribed /\ finished[s] = "no" /\ pc[s] = "idle"

-----------------------------------------------------------------------------
(* on_next of an inner observer: the value goes downstream under the mutex. *)

EmitNext(i) ==
  /\ emitted[i] < MaxEmits
  /\ emitted' = [emitted EXCEPT ![i] = @ + 1]
  /\ Goto(i, "next")
  /\ UNCHANGED <<mutex, downstream, subscriptions, arg, subscribed, finished, user>>

\* Mutant: on_next reaches the observer without its mutex.
NextEnterUnlocked(i) ==
  /\ pc[i] = "next"
  /\ mutex' = i
  /\ IF observer = "open"
     THEN inside' = inside \union {i} /\ delivered' = [delivered EXCEPT ![i] = @ + 1]
     ELSE UNCHANGED <<inside, delivered>>
  /\ Goto(i, "in_next")
  /\ UNCHANGED <<observer, subscriptions, sources, user>>

\* The downstream observer ignores the call if it is closed by now.
NextEnter(i) ==
  /\ pc[i] = "next" /\ mutex = NoOne
  /\ mutex' = i
  /\ IF observer = "open"
     THEN inside' = inside \union {i} /\ delivered' = [delivered EXCEPT ![i] = @ + 1]
     ELSE UNCHANGED <<inside, delivered>>
  /\ Goto(i, "in_next")
  /\ UNCHANGED <<observer, subscriptions, sources, user>>

NextLeave(i) ==
  /\ pc[i] = "in_next"
  /\ mutex' = NoOne
  /\ inside' = inside \ {i}
  /\ Goto(i, "idle")
  /\ UNCHANGED <<observer, delivered, subscriptions, sources, user>>

-----------------------------------------------------------------------------
(* The end of a source, and of the result.                                  *)

EmitTerminal(s, how, label) ==
  /\ finished' = [finished EXCEPT ![s] = how]
  /\ Goto(s, label)
  /\ UNCHANGED <<mutex, downstream, subscriptions, arg, emitted, subscribed, user>>

\* Everything the operator's state, a composite_disposable, holds is disposed with it
\* (that of switch_on_next is none, and has steps of its own).
DisposeState ==
  /\ disposed' = TRUE
  /\ unsubscribed' = unsubscribed \union held
  /\ held' = {}

\* The source calls on_completed or on_error of the downstream observer.
TerminalEnter(s) ==
  /\ pc[s] \in {"completed", "error"} /\ mutex = NoOne
  /\ mutex' = s
  /\ IF observer = "open"
     THEN observer' = pc[s] /\ inside' = inside \union {s} /\ Goto(s, "in_terminal")
     ELSE UNCHANGED <<observer, inside>> /\ Goto(s, "ignored")
  /\ UNCHANGED <<delivered, subscriptions, sources, user>>

\* Before the mutex is released the observer disposes its upstream, which is
\* the operator's state.
TerminalLeave(s) ==
  /\ pc[s] = "in_terminal"
  /\ mutex' = NoOne
  /\ inside' = inside \ {s}
  /\ DisposeState
  /\ Goto(s, "done")
  /\ UNCHANGED <<observer, delivered, sources, user>>

TerminalIgnored(s) ==
  /\ pc[s] = "ignored"
  /\ mutex' = NoOne
  /\ Goto(s, "done")
  /\ UNCHANGED <<downstream, subscriptions, sources, user>>

-----------------------------------------------------------------------------
(* The subscriber disposes its side at any time: the observer first, then   *)
(* the operator's state among its upstreams.                                *)

UserDispose ==
  /\ user = "subscribed"
  /\ observer' = IF observer = "open" THEN "disposed" ELSE observer
  /\ user' = "disposing"
  /\ UNCHANGED <<mutex, inside, delivered, subscriptions, sources, pc>>

UserDisposeUpstream ==
  /\ user = "disposing"
  /\ DisposeState
  /\ user' = "gone"
  /\ UNCHANGED <<mutex, downstream, sources, pc>>

User == UserDispose \/ UserDisposeUpstream

DeliverUnderMutex(s) ==
  \/ s \in Inners /\ (NextEnter(s) \/ NextLeave(s))
  \/ TerminalEnter(s) \/ TerminalIgnored(s)

Deliver(s) == DeliverUnderMutex(s) \/ TerminalLeave(s)

-----------------------------------------------------------------------------
CommonTypeOK ==
  /\ mutex \in Sources \union {NoOne}
  /\ observer \in {"open", "completed", "error", "disposed"}
  /\ inside \subseteq Sources
  /\ delivered \in [Inners -> 0..MaxEmits]
  /\ held \subseteq Sources
  /\ disposed \in BOOLEAN
  /\ unsubscribed \subseteq Sources
  /\ arg \in [Sources -> Inners \union {NoOne}]
  /\ emitted \in [Inners -> 0..MaxEmits]
  /\ subscribed \subseteq Sources
  /\ finished \in [Sources -> {"no", "completed", "error"}]
  /\ user \in {"subscribed", "disposing", "dispose_base", "dispose_inner", "gone"}

\* "All RPP operators follow this contract" (observables.hpp): what the
\* downstream observer sees of any number of concurrent sources is serial and
\* ends once.
Contract == INSTANCE RxContract WITH
  Callers <- Sources, terminated <- observer \in {"completed", "error"}
FollowsContract == Contract!Spec

\* When the result has ended or the subscriber has left, every source that was
\* ever subscribed has been unsubscribed, also the one whose subscription
\* raced with the end.
NoSourceLeaks ==
  disposed => held = {} /\ subscribed \subseteq unsubscribed
=============================================================================
