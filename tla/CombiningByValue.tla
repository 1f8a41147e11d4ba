--------------------------- MODULE CombiningByValue ---------------------------
(***************************************************************************)
(* zip, combine_latest, with_latest_from and take_until: observables known   *)
(* from the start, whose values are combined.  The others are subscribed to  *)
(* first, then Main, the observable the operator is applied to; each calls   *)
(* from a thread of its own.  Thread 0 is the subscriber's.  Of take_until's  *)
(* sources, those that are not Main are its notifier.                        *)
(***************************************************************************)
EXTENDS Downstream

CONSTANTS NumSources,  \* observables combined
          MaxEmits     \* bound: values of one of them

Kinds == {"zip", "combine_latest", "with_latest_from", "take_until"}
Sources == 1..NumSources
Main == 1
Others == Sources \ {Main}
NoOne == -1

VARIABLES
  kind,
  mutex,         \* who holds the downstream observer's mutex, or NoOne
  values,        \* per source, the values stored: zip's deque, or the latest one
  needed,        \* m_on_completed_needed
  m_stopped,     \* take_until
  result,        \* what with_latest_from has combined and not passed on yet
  emitted, finished

stored == <<values, needed, m_stopped, result>>
sources == <<emitted, finished>>
vars == <<downstream, pc, kind, mutex, stored, sources>>

\* Mutant: the counter starts at the number of the other observables.
NeededByOthers == NumSources - 1

\* The counter starts at the number of observables.
Needed == NumSources

Init ==
  /\ DownstreamInit
  /\ kind \in Kinds
  /\ mutex = NoOne
  /\ values = [s \in Sources |-> <<>>]
  /\ needed = Needed /\ m_stopped = FALSE /\ result = <<>>
  /\ emitted = [s \in Sources |-> 0]
  /\ finished = [s \in Sources |-> "no"]
  /\ pc = [t \in Threads |-> IF t = 0 THEN "subscribe" ELSE "none"]

Jump(t, label) == Goto(t, label) /\ UNCHANGED <<downstream, mutex, stored>>

-----------------------------------------------------------------------------
(* subscribe_impl, and the calls of the sources.                            *)

\* The others in their order, then the observer for Main is returned.
Subscribe ==
  /\ pc[0] = "subscribe"
  /\ \E s \in Sources :
       /\ pc[s] = "none"
       /\ \A r \in Others : s = Main \/ r < s => pc[r] # "none"
       /\ pc' = [pc EXCEPT ![s] = "idle", ![0] = IF s = Main THEN "done" ELSE "subscribe"]
       /\ Hold(s)
  /\ UNCHANGED <<calls, user, mutex, stored, sources>>

Listening(s) == pc[s] = "idle" /\ ~disposed

\* What on_next of this source's observer does first.
OnNext(s) ==
  CASE kind \in {"zip", "combine_latest"} -> "next"
    [] kind = "with_latest_from" -> IF s = Main THEN "combine" ELSE "store"
    [] kind = "take_until" -> IF s = Main THEN "check" ELSE "stop_completed"

OnCompleted(s) ==
  CASE kind \in {"zip", "combine_latest"} -> "decrement"
    [] kind = "with_latest_from" -> IF s = Main THEN "completed" ELSE "release"
    [] kind = "take_until" -> "stop_completed"

OnError == IF kind = "take_until" THEN "stop_error" ELSE "error"

SourceNext(s) ==
  /\ Listening(s) /\ emitted[s] < MaxEmits
  /\ emitted' = [emitted EXCEPT ![s] = @ + 1]
  /\ Jump(s, OnNext(s))
  /\ UNCHANGED finished

SourceEnds(s) ==
  /\ Listening(s)
  /\ \E how \in {"completed", "error"} :
       /\ finished' = [finished EXCEPT ![s] = how]
       /\ Jump(s, IF how = "error" THEN OnError ELSE OnCompleted(s))
  /\ UNCHANGED emitted

-----------------------------------------------------------------------------
(* on_next                                                                  *)

AllPresent(v) == \A s \in Sources : v[s] # <<>>
Fronts(v) == [s \in Sources |-> Head(v[s])]

\* What is stored when a value comes; and after a result: zip takes its values
\* out again.
Stored(s) ==
  [values EXCEPT ![s] = IF kind = "zip" THEN Append(@, emitted[s]) ELSE <<emitted[s]>>]
Passed(v) == IF kind = "zip" THEN [s \in Sources |-> Tail(v[s])] ELSE v

\* Mutant: the sources find the observer without its mutex.
NextUnlocked(s) ==
  /\ pc[s] = "next"
  /\ LET v == Stored(s) IN
     IF AllPresent(v)
     THEN values' = Passed(v) /\ BeginNext(s, Fronts(v), "in_next", "idle")
     ELSE values' = v /\ Goto(s, "idle") /\ UNCHANGED downstream
  /\ UNCHANGED <<mutex, needed, m_stopped, result, sources>>

\* The value is stored and, once there is one of each, the selector's result
\* passed on, all under the observer's mutex, which an observer that is disposed
\* gives back at once.
NextUnderLock(s) ==
  /\ pc[s] = "next" /\ mutex = NoOne
  /\ LET v == Stored(s) IN
     IF AllPresent(v)
     THEN /\ values' = Passed(v)
          /\ BeginNext(s, Fronts(v), "in_next", "idle")
          /\ mutex' = IF closed THEN NoOne ELSE s
     ELSE /\ values' = v /\ Goto(s, "idle")
          /\ UNCHANGED <<downstream, mutex>>
  /\ UNCHANGED <<needed, m_stopped, result, sources>>

\* The selector throws: the value is stored, and observer_impl passes the
\* exception to on_error when the lock has gone with the stack.
SelectorThrows(s) ==
  /\ (pc[s] = "next" /\ mutex = NoOne) \/ pc[s] = "combine"
  /\ AllPresent(Stored(s))
  /\ values' = IF pc[s] = "next" THEN Stored(s) ELSE values
  /\ finished' = [finished EXCEPT ![s] = "error"]
  /\ Goto(s, "error")
  /\ UNCHANGED <<downstream, mutex, needed, m_stopped, result, emitted>>

\* with_latest_from: an inner observer stores under the mutex of its value,
\* Main's combines under those of all values ...
StoreLatest(s) ==
  /\ pc[s] = "store"
  /\ values' = [values EXCEPT ![s] = <<emitted[s]>>]
  /\ Goto(s, "idle")
  /\ UNCHANGED <<downstream, mutex, needed, m_stopped, result, sources>>

Combine ==
  /\ pc[Main] = "combine"
  /\ IF AllPresent(Stored(Main))
     THEN result' = Fronts(Stored(Main)) /\ Goto(Main, "deliver")
     ELSE UNCHANGED result /\ Goto(Main, "idle")
  /\ UNCHANGED <<downstream, mutex, values, needed, m_stopped, sources>>

\* take_until looks at m_stopped before it takes the mutex.
CheckStopped ==
  /\ pc[Main] = "check"
  /\ result' = [s \in Sources |-> emitted[Main]]
  /\ Goto(Main, IF m_stopped THEN "idle" ELSE "deliver")
  /\ UNCHANGED <<downstream, mutex, values, needed, m_stopped, sources>>

\* ... and both pass on what they have under the observer's mutex.
Deliver ==
  /\ pc[Main] = "deliver" /\ mutex = NoOne
  /\ BeginNext(Main, result, "in_next", "idle")
  /\ mutex' = IF closed THEN NoOne ELSE Main
  /\ UNCHANGED <<stored, sources>>

LeaveNext(s) ==
  /\ pc[s] = "in_next"
  /\ EndNext(s, "idle")
  /\ mutex' = NoOne
  /\ UNCHANGED <<stored, sources>>

-----------------------------------------------------------------------------
(* The end.                                                                 *)

Decrement(s) ==
  /\ pc[s] = "decrement"
  /\ needed' = needed - 1
  /\ Goto(s, IF needed = 1 THEN "completed" ELSE "release")
  /\ UNCHANGED <<downstream, mutex, values, m_stopped, result, sources>>

\* take_until: stop_return_was_stopped(); the first ends the result.
Stop(s) ==
  /\ pc[s] \in {"stop_completed", "stop_error"}
  /\ m_stopped' = TRUE
  /\ Goto(s, IF m_stopped THEN "release" ELSE IF pc[s] = "stop_error" THEN "error" ELSE "completed")
  /\ UNCHANGED <<downstream, mutex, values, needed, result, sources>>

EnterTerminal(s) ==
  /\ pc[s] \in {"completed", "error"} /\ mutex = NoOne
  /\ BeginTerminal(s, pc[s], "in_terminal", "release")
  /\ mutex' = IF closed THEN NoOne ELSE s
  /\ UNCHANGED <<stored, sources>>

LeaveTerminal(s) ==
  /\ pc[s] = "in_terminal"
  /\ EndTerminal(s, "release")
  /\ mutex' = NoOne
  /\ UNCHANGED <<stored, sources>>

\* The source's own observer disposes its upstream when it has ended; the
\* notifier's goes on after a value.
Release(s) ==
  /\ pc[s] = "release"
  /\ IF finished[s] = "no" THEN Goto(s, "idle") /\ UNCHANGED unsubscribed
     ELSE Goto(s, "done") /\ unsubscribed' = unsubscribed \union {s}
  /\ UNCHANGED <<calls, held, outer, disposed, user, mutex, stored, sources>>

-----------------------------------------------------------------------------
Handle(s) ==
  \/ NextUnderLock(s) \/ SelectorThrows(s) \/ (s \in Others /\ StoreLatest(s))
  \/ s = Main /\ (Combine \/ CheckStopped \/ Deliver)
  \/ LeaveNext(s) \/ Decrement(s) \/ Stop(s)
  \/ EnterTerminal(s) \/ LeaveTerminal(s) \/ Release(s)

Call(s) == SourceNext(s) \/ SourceEnds(s)

Next ==
  /\ \/ Subscribe
     \/ \E s \in Sources : Handle(s) \/ Call(s)
     \/ User /\ UNCHANGED <<mutex, stored, sources>>
  /\ UNCHANGED kind

\* Sources inside a call are run; one calls when it likes.
Fairness ==
  /\ WF_vars(Subscribe /\ UNCHANGED kind)
  /\ \A s \in Sources : WF_vars(Handle(s) /\ UNCHANGED kind)

Spec == Init /\ [][Next]_vars
FairSpec == Spec /\ Fairness

-----------------------------------------------------------------------------
TypeOK ==
  /\ DownstreamTypeOK
  /\ kind \in Kinds /\ mutex \in Sources \union {NoOne}
  /\ values \in [Sources -> Seq(1..MaxEmits)]
  /\ needed \in 0..NumSources /\ m_stopped \in BOOLEAN
  /\ emitted \in [Sources -> 0..MaxEmits]
  /\ finished \in [Sources -> {"no", "completed", "error"}]

\* What each operator makes of its sources, however their calls interleave:
\* zip pairs values by position; combine_latest moves on by one value of one
\* source at a time, none skipped but one that the selector threw at, whose error
\* is on its way; with_latest_from passes on each value of Main from the first
\* that finds all others, and never an older latest value; take_until passes on
\* what comes before the notifier.
ThrewAt(s, v) == finished[s] = "error" /\ v = emitted[s]
Combines ==
  \A i \in 1..Len(got) :
    /\ kind = "zip" => \A s \in Sources : got[i][s] = i
    /\ kind = "take_until" => got[i][Main] = i
    /\ i > 1 /\ kind \in {"combine_latest", "with_latest_from"} =>
         LET older == got[i - 1] newer == got[i] IN
         /\ \A s \in Sources : newer[s] >= older[s]
         /\ kind = "with_latest_from" => newer[Main] = older[Main] + 1
         /\ kind = "combine_latest" =>
              \E s \in Sources :
                /\ newer[s] = older[s] + 1
                /\ \A r \in Sources \ {s} :
                     newer[r] = older[r] \/ (newer[r] = older[r] + 1 /\ ThrewAt(r, newer[r]))

Over == ended # "no" \/ closed

\* A completed result is complete: nothing that was due is missing from it.
CompletesWhole ==
  ended = "completed" =>
    /\ kind \in {"zip", "combine_latest"} => \A s \in Sources : finished[s] = "completed"
    /\ kind = "zip" => \E s \in Sources : Len(got) = emitted[s]
    /\ kind = "combine_latest" /\ (\A s \in Sources : emitted[s] > 0) =>
         got # <<>> /\ Last(got) = emitted
    /\ kind = "with_latest_from" =>
         finished[Main] = "completed" /\ (got # <<>> => Last(got)[Main] = emitted[Main])
    /\ kind = "take_until" /\ (\A s \in Others : emitted[s] = 0 /\ finished[s] = "no") =>
         Len(got) = emitted[Main]

\* Nothing stays subscribed under a disposed state, and an ended source is
\* released at once.
NoSourceLeaks ==
  \A s \in Sources :
    /\ disposed /\ pc[s] # "none" => s \in unsubscribed
    /\ pc[s] = "done" => s \in unsubscribed

FollowsContract == Contract!Spec

\* The result ends when its sources leave it nothing to do.
Due ==
  \/ kind \in {"zip", "combine_latest"} /\ \A s \in Sources : finished[s] = "completed"
  \/ \E s \in Sources : finished[s] = "error"
  \/ kind \in {"with_latest_from", "take_until"} /\ finished[Main] # "no"
  \/ kind = "take_until" /\ \E s \in Others : emitted[s] > 0 \/ finished[s] # "no"
EndsWhenDue == Due ~> Over
=============================================================================
