------------------------------- MODULE Repeating -------------------------------
(***************************************************************************)
(* retry, repeat and concat of a container (rpp::source::concat), retry_when *)
(* and repeat_when: each time the observable ends the way RepeatsOn says,    *)
(* drain() subscribes to it, or to the next one, again.  on_error_resume_next *)
(* subscribes once more, to its fallback, without drain().                  *)
(*                                                                         *)
(* Attempt k runs on thread k and may end before the subscribe() that        *)
(* started it returns; then the thread in drain() has to loop, and otherwise *)
(* thread k drains.  A source that ends inside subscribe() on the same       *)
(* thread is the case in which the draining thread does nothing meanwhile.   *)
(* Thread 0 is the subscriber's.                                            *)
(***************************************************************************)
EXTENDS Downstream

CONSTANTS MaxAttempts,  \* bound: subscriptions
          MaxEmits,     \* bound: values of one attempt
          MaxCount,     \* bound: the argument of retry, or items of the container
          Width         \* values of the counter's type (size_t)

ASSUME AttemptsAssumption == MaxAttempts \in Nat /\ MaxEmits \in Nat
ASSUME ThreadsAssumption == Threads = 0..MaxAttempts /\ Links = -MaxAttempts..MaxAttempts
ASSUME CountAssumption == Width \in Nat \ {0} /\ MaxCount \in 0..Width - 1

RepeatsOn ==
  [retry |-> "error", retry_when |-> "error", on_error_resume_next |-> "error",
   concat |-> "completed", repeat_when |-> "completed"]
Kinds == DOMAIN RepeatsOn
Attempts == 1..MaxAttempts
Notifier(k) == -k
Unlimited == -1

VARIABLES
  kind,          \* which operator this is
  asked,         \* retry's argument or the size of the container, or Unlimited
  left,          \* state->count, or the items the iterator has before it
  attempt,       \* subscriptions so far
  is_inside_drain,
  emitted        \* per attempt

counters == <<left, attempt, is_inside_drain>>
vars == <<downstream, pc, kind, asked, counters, emitted>>

Init ==
  /\ DownstreamInit
  /\ kind \in Kinds
  /\ asked \in {Unlimited} \union (IF kind \in {"retry", "concat"} THEN 0..MaxCount ELSE {})
  /\ left = IF kind = "retry" /\ asked # Unlimited THEN (asked + 1) % Width ELSE asked
  /\ attempt = 0 /\ is_inside_drain = FALSE
  /\ emitted = [k \in Attempts |-> 0]
  /\ pc = [t \in Threads |->
       IF t # 0 THEN "none" ELSE IF kind = "on_error_resume_next" THEN "subscribe" ELSE "check"]

\* Nothing but the place of one thread changes.
Jump(t, label) == Goto(t, label) /\ UNCHANGED <<downstream, counters, emitted>>

-----------------------------------------------------------------------------
(* drain(), on whichever thread it runs.                                    *)

\* Mutant: the count is never taken down.
CheckUncounted(t) ==
  /\ pc[t] = "check"
  /\ Goto(t, IF disposed THEN "done" ELSE "store")
  /\ UNCHANGED <<downstream, counters, emitted>>

Check(t) ==
  /\ pc[t] = "check"
  /\ \/ disposed /\ Goto(t, "done") /\ UNCHANGED left
     \/ ~disposed /\ kind = "concat" /\ left = 0 /\ Goto(t, "completed") /\ UNCHANGED left
     \/ /\ ~disposed /\ (kind = "concat" => left # 0)
        /\ left' = IF asked = Unlimited THEN left ELSE (left - 1) % Width
        /\ Goto(t, "store")
  /\ UNCHANGED <<downstream, attempt, is_inside_drain, emitted>>

Store(t) ==
  /\ pc[t] = "store"
  /\ is_inside_drain' = TRUE
  /\ Goto(t, "subscribe")
  /\ UNCHANGED <<downstream, left, attempt, emitted>>

\* set_upstream of the inner observer adds to the state; the source's own
\* thread may call from now on.
Subscribe(t) ==
  /\ pc[t] = "subscribe" /\ attempt < MaxAttempts
  /\ attempt' = attempt + 1
  /\ pc' = [pc EXCEPT ![t] = "leave", ![attempt + 1] = "idle"]
  /\ Hold(attempt + 1)
  /\ UNCHANGED <<calls, user, left, is_inside_drain, emitted>>

\* Whatever subscribe() throws goes to the observer.
SubscribeThrows(t) == pc[t] \in {"subscribe", "notify", "resume"} /\ Jump(t, "thrown")

\* Mutant: the answer of exchange() is not looked at.
LeaveLoops(t) ==
  /\ pc[t] = "leave"
  /\ is_inside_drain' = FALSE
  /\ Goto(t, IF kind = "on_error_resume_next" THEN "done" ELSE "check")
  /\ UNCHANGED <<downstream, left, attempt, emitted>>

\* is_inside_drain.exchange(false) after subscribe()
Leave(t) ==
  /\ pc[t] = "leave"
  /\ is_inside_drain' = FALSE
  /\ Goto(t, IF is_inside_drain \/ kind = "on_error_resume_next" THEN "done" ELSE "check")
  /\ UNCHANGED <<downstream, left, attempt, emitted>>

Drain(t) ==
  Check(t) \/ Store(t) \/ Subscribe(t) \/ SubscribeThrows(t) \/ Leave(t)

-----------------------------------------------------------------------------
(* Attempt k: its observer, and that of its notifier.                       *)

\* on_error_resume_next gives the fallback the downstream observer itself.
Fallback(k) == kind = "on_error_resume_next" /\ k > 1
Listening(k) == pc[k] = "idle" /\ (IF Fallback(k) THEN ~closed ELSE ~disposed)

SourceNext(k) ==
  /\ Listening(k) /\ emitted[k] < MaxEmits
  /\ emitted' = [emitted EXCEPT ![k] = @ + 1]
  /\ Goto(k, "next")
  /\ UNCHANGED <<downstream, counters>>

\* What on_error, or on_completed, of an observer that repeats does first.
Again ==
  IF kind \in {"retry_when", "repeat_when"} THEN "notify"
  ELSE IF kind = "on_error_resume_next" THEN "resume"
  ELSE IF kind = "retry" /\ left = 0 THEN "error" ELSE "clear"

SourceEnds(k) ==
  /\ Listening(k)
  /\ \E how \in {"completed", "error"} :
       Jump(k, IF how = RepeatsOn[kind] /\ ~Fallback(k) THEN Again ELSE how)

\* The notifier is subscribed to; its first value repeats, its end ends.
Notify(k) ==
  /\ pc[k] = "notify"
  /\ Hold(Notifier(k)) /\ Goto(k, "waiting")
  /\ UNCHANGED <<calls, user, counters, emitted>>

NotifierCalls(k) ==
  /\ pc[k] = "waiting" /\ ~disposed
  /\ \E label \in {"clear", "completed", "error"} : Jump(k, label)

\* Mutant: the disposables of the attempt that ended stay in the state.
ClearForgets(k) == pc[k] = "clear" /\ Jump(k, "exchange")

\* state->clear(): the attempt that ended is disposed, and its notifier.
Clear(k) ==
  /\ pc[k] = "clear"
  /\ ClearHeld /\ Goto(k, "exchange")
  /\ UNCHANGED <<calls, user, counters, emitted>>

\* Mutant: the flag is left to the thread in drain().
ExchangeKeeps(k) ==
  /\ pc[k] = "exchange"
  /\ Goto(k, IF is_inside_drain THEN "done" ELSE "check")
  /\ UNCHANGED <<downstream, counters, emitted>>

\* is_inside_drain.exchange(false) in the observer that repeats
Exchange(k) ==
  /\ pc[k] = "exchange"
  /\ is_inside_drain' = FALSE
  /\ Goto(k, IF is_inside_drain THEN "done" ELSE "check")
  /\ UNCHANGED <<downstream, left, attempt, emitted>>

\* on_error of on_error_resume_next: set_upstream of the fallback reaches the
\* downstream observer, then the state is disposed.
Resume(k) ==
  /\ pc[k] = "resume" /\ attempt < MaxAttempts
  /\ attempt' = attempt + 1
  /\ pc' = [pc EXCEPT ![k] = "dispose", ![attempt + 1] = "idle"]
  /\ outer' = IF closed THEN outer ELSE outer \union {attempt + 1}
  /\ unsubscribed' = IF closed THEN unsubscribed \union {attempt + 1} ELSE unsubscribed
  /\ UNCHANGED <<held, disposed, calls, user, left, is_inside_drain, emitted>>

DisposeResumed(k) ==
  /\ pc[k] = "dispose"
  /\ DisposeState /\ Goto(k, "done")
  /\ UNCHANGED <<calls, user, counters, emitted>>

SourceStep(k) ==
  \/ Notify(k) \/ Clear(k) \/ Exchange(k) \/ Resume(k) \/ DisposeResumed(k)

Calls(k) == SourceNext(k) \/ SourceEnds(k) \/ NotifierCalls(k)

-----------------------------------------------------------------------------
\* What any thread does in a callback of the downstream observer.
Deliver(t) ==
  /\ \/ pc[t] = "next" /\ BeginNext(t, t, "in_next", "idle")
     \/ pc[t] = "in_next" /\ EndNext(t, "idle")
     \/ pc[t] \in {"completed", "error"} /\ BeginTerminal(t, pc[t], "in_terminal", "done")
     \/ pc[t] = "thrown" /\ BeginTerminal(t, "error", "in_terminal", "done")
     \/ pc[t] = "in_terminal" /\ EndTerminal(t, "done")
  /\ UNCHANGED <<counters, emitted>>

Handle(t) == Drain(t) \/ Deliver(t) \/ (t \in Attempts /\ SourceStep(t))

Next ==
  /\ \/ \E t \in Threads : Handle(t)
     \/ \E k \in Attempts : Calls(k)
     \/ User /\ UNCHANGED <<counters, emitted>>
  /\ UNCHANGED <<kind, asked>>

\* Threads inside a call are run; a source calls when it likes.
Fairness ==
  \A t \in Threads : WF_vars(Handle(t) /\ UNCHANGED <<kind, asked>>)

Spec == Init /\ [][Next]_vars
FairSpec == Spec /\ Fairness

-----------------------------------------------------------------------------
Places ==
  {"none", "check", "store", "subscribe", "leave", "idle", "next", "in_next", "notify", "waiting",
   "clear", "exchange", "resume", "dispose", "completed", "error", "thrown", "in_terminal", "done"}

TypeOK ==
  /\ DownstreamTypeOK /\ pc \in [Threads -> Places]
  /\ kind \in Kinds /\ asked \in 0..MaxCount \union {Unlimited}
  /\ left \in 0..Width - 1 \union {Unlimited}
  /\ attempt \in 0..MaxAttempts /\ is_inside_drain \in BOOLEAN
  /\ emitted \in [Attempts -> 0..MaxEmits]

\* A source that may still call, or a notifier that has not called.
Live(k) == pc[k] \in {"idle", "next", "in_next", "notify", "waiting"}
Draining(t) == pc[t] \in {"check", "store", "subscribe"}

\* state->count and the iterator are plain data, and attempts must not overlap:
\* of all threads one drains or one source is live, never two of any of them.
OneAtATime ==
  \A s, t \in Threads :
    /\ Draining(s) /\ Draining(t) => s = t
    /\ Live(s) /\ Live(t) => s = t
    /\ ~(Draining(s) /\ Live(t))

\* retry(n) gives up after n + 1 failures, for n = max too, where its counter
\* wraps around; a container of n observables takes n subscriptions.
ExactAttempts ==
  asked # Unlimited =>
    /\ attempt <= IF kind = "retry" THEN asked + 1 ELSE asked
    /\ \A t \in Threads :
         /\ kind = "retry" /\ pc[t] = "error" => attempt = asked + 1
         /\ kind = "concat" /\ pc[t] = "completed" => attempt = asked

\* A repeated observable is unsubscribed before the next attempt is made, and
\* nothing is left subscribed under a result that has ended or that nobody wants.
NoAttemptLeaks ==
  \A k \in 1..attempt :
    /\ (k < attempt \/ disposed) /\ kind # "on_error_resume_next" => k \in unsubscribed
    /\ (ended # "no" /\ inside = {}) \/ user = "gone" => k \in unsubscribed /\ held = {}

\* All attempts together are one observable.
FollowsContract == Contract!Spec

\* An attempt that ended so that another is due is followed by that attempt,
\* whichever of the two threads sees the other first.
Due ==
  /\ attempt \in 1..MaxAttempts - 1 /\ ~disposed /\ ~closed /\ ended = "no"
  /\ pc[attempt] \in {"clear", "exchange", "check", "store", "subscribe", "done"}
NeverStalls == Due ~> ~Due
=============================================================================
