-------------------------- MODULE ScheduledOperator --------------------------
(***************************************************************************)
(* What delay, observe_on, debounce and timeout share.  A source calls the  *)
(* operator's observer serially from a thread of its own; the operator      *)
(* schedules a task on a worker of a scheduler, which runs tasks one after  *)
(* another on its thread, none before its time point and none whose handler *)
(* is disposed (NewThread is such a worker).  Both threads call the         *)
(* downstream observer, and the subscriber may leave at any time.           *)
(*                                                                         *)
(* The clock is bounded: a time point past its last instant is the last     *)
(* instant.  None of these operators ever has two tasks waiting.            *)
(***************************************************************************)
EXTENDS Integers, Sequences, FiniteSets

CONSTANTS MaxTime,   \* bound: the last instant of the clock
          MaxEmits,  \* bound: on_next calls of the source
          Period     \* the duration the operator was made with

ASSUME TimeAssumption == MaxTime \in Nat /\ Period \in Nat
ASSUME EmitsAssumption == MaxEmits \in Nat

Source == "source"
Worker == "worker"
Fallback == "fallback"  \* the thread of timeout's second observable
Threads == {Source, Worker, Fallback}
NoOne == "nobody"
NoTime == -1
NoValue == 0
Times == 0..MaxTime
Capped(t) == IF t > MaxTime THEN MaxTime ELSE t

VARIABLES
  now,           \* the clock
  task,          \* time point of the task that waits in the worker, or NoTime
  mutex,         \* who holds the mutex the operator calls its observer under
  closed,        \* the downstream observer's is_disposed()
  ended,         \* what the subscriber was told last: "no", "completed", "error"
  inside,        \* threads in a callback of the downstream observer
  got,           \* values the subscriber received, in order
  pc, val,       \* per thread: its place in a call, the value in hand
  at,            \* history: when the operator took each value
  finished,      \* how the source ended: "no", "completed" or "error"
  disposed,      \* the operator's state is disposed, and the source unsubscribed
  user           \* the subscriber's own dispose()

downstream == <<closed, ended, inside, got>>
threads == <<pc, val>>
common == <<now, task, mutex, downstream, threads, at, finished, disposed, user>>

CommonInit ==
  /\ now = 0
  /\ mutex = NoOne
  /\ closed = FALSE /\ ended = "no" /\ inside = {} /\ got = <<>>
  /\ pc = [t \in Threads |-> "idle"]
  /\ val = [t \in Threads |-> NoValue]
  /\ at = <<>>
  /\ finished = "no"
  /\ disposed = FALSE
  /\ user = "subscribed"

Goto(t, label) == pc' = [pc EXCEPT ![t] = label]

-----------------------------------------------------------------------------
(* The downstream observer: a call begins if it is not disposed, and it is   *)
(* disposed, with the operator's state, when a terminal call ends.          *)

BeginNext(t, v) == inside' = inside \union {t} /\ got' = Append(got, v) /\ UNCHANGED <<closed, ended>>
BeginTerminal(t, how) == inside' = inside \union {t} /\ ended' = how /\ UNCHANGED <<closed, got>>
EndNext(t) == inside' = inside \ {t} /\ UNCHANGED <<closed, ended, got, disposed>>
EndTerminal(t) ==
  inside' = inside \ {t} /\ closed' = TRUE /\ disposed' = TRUE /\ UNCHANGED <<ended, got>>

-----------------------------------------------------------------------------
(* The source, which calls while the operator's observer is not disposed.   *)

Listening == pc[Source] = "idle" /\ finished = "no" /\ ~disposed

SourceNext ==
  /\ Listening /\ Len(at) < MaxEmits
  /\ val' = [val EXCEPT ![Source] = Len(at) + 1]
  /\ Goto(Source, "next")
  /\ UNCHANGED <<now, task, mutex, downstream, at, finished, disposed, user>>

SourceTerminal ==
  /\ Listening
  /\ \E how \in {"completed", "error"} : finished' = how /\ Goto(Source, how)
  /\ UNCHANGED <<now, task, mutex, downstream, val, at, disposed, user>>

-----------------------------------------------------------------------------
(* The worker, the clock and the subscriber.                                *)

\* The task is taken out of the queue at its time point, and dropped if its
\* handler is disposed.
RunTask ==
  /\ pc[Worker] = "idle" /\ task # NoTime /\ now >= task
  /\ task' = NoTime
  /\ IF disposed THEN UNCHANGED pc ELSE Goto(Worker, "run")
  /\ UNCHANGED <<now, mutex, downstream, val, at, finished, disposed, user>>

Tick ==
  /\ now < MaxTime
  /\ now' = now + 1
  /\ UNCHANGED <<task, mutex, downstream, threads, at, finished, disposed, user>>

UserDispose ==
  /\ user = "subscribed"
  /\ closed' = TRUE
  /\ user' = "disposing"
  /\ UNCHANGED <<now, task, mutex, ended, inside, got, threads, at, finished, disposed>>

UserDisposeUpstream ==
  /\ user = "disposing"
  /\ disposed' = TRUE
  /\ user' = "gone"
  /\ UNCHANGED <<now, task, mutex, downstream, threads, at, finished>>

Shared == SourceNext \/ SourceTerminal \/ RunTask \/ Tick \/ UserDispose \/ UserDisposeUpstream

-----------------------------------------------------------------------------
CommonTypeOK ==
  /\ now \in Times /\ task \in Times \union {NoTime}
  /\ mutex \in Threads \union {NoOne}
  /\ closed \in BOOLEAN /\ ended \in {"no", "completed", "error"}
  /\ inside \subseteq Threads
  /\ got \in Seq(1..MaxEmits)
  /\ val \in [Threads -> 0..MaxEmits]
  /\ at \in Seq(Times) /\ Len(at) <= MaxEmits
  /\ finished \in {"no", "completed", "error"}
  /\ disposed \in BOOLEAN
  /\ user \in {"subscribed", "disposing", "gone"}

\* "All built-in RPP observables/operators emit emissions serially"
\* (observables.hpp): the two threads never call the downstream observer at the
\* same time, nor after a terminal call.
Contract == INSTANCE RxContract WITH Callers <- Threads, terminated <- ended # "no"
=============================================================================
