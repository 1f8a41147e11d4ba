---------------------------- MODULE ScheduledProofs ----------------------------
(***************************************************************************)
(* TLAPS proofs about delay, observe_on, debounce and timeout, for any       *)
(* clock, duration and number of values.  The threads' places and the values *)
(* on their way are the invariants: what waits in the queue of delay, in the *)
(* hand of a thread or in the value of debounce is tied to what the source   *)
(* has emitted and the subscriber received.                                  *)
(***************************************************************************)
EXTENDS MCScheduled, TLAPS

Places ==
  {"idle", "next", "completed", "error", "schedule", "clear", "done", "in_error", "run", "again",
   "in_next", "in_terminal", "flush", "in_flush", "complete", "unlock", "subscribe", "running"}

Delays == operator \in {"delay", "observe_on"}

\* The source calls serially, and is not done with the value in its hand.
SourceInv ==
  /\ pc \in [Threads -> Places]
  /\ pc[Source] = "idle" => finished = "no"
  /\ pc[Source] = "next" => finished = "no" /\ val[Source] = Len(at) + 1 /\ Len(at) < MaxEmits
  /\ pc[Source] \in {"completed", "error"} => finished = pc[Source]
  /\ \A i \in 1..Len(at) : at[i] <= now

-----------------------------------------------------------------------------
(* delay and observe_on.                                                     *)

\* An error of observe_on passes what waits.
Passes == operator = "observe_on" /\ finished = "error"

\* All that has been put into the queue: the values, and the end after them.
Ended == finished # "no" /\ ~Passes /\ pc[Source] \in {"schedule", "clear", "done"}
Total == Len(at) + (IF Ended THEN 1 ELSE 0)

Due(times, k) == Capped(times[k] + Period)

\* The queue holds the last of it, in order.
QueueInv ==
  /\ Len(queue) <= Total
  /\ \A i \in 1..Len(queue) :
       LET k == Total - Len(queue) + i IN
         IF k <= Len(at)
         THEN queue[i].kind = "next" /\ queue[i].value = k /\ queue[i].time_point = Due(at, k)
         ELSE queue[i].kind = finished
  /\ Passes /\ pc[Source] # "error" => queue = <<>>

\* One task at a time: to be scheduled, scheduled or running.
TaskInv ==
  /\ pc[Source] = "schedule" => queue # <<>> /\ task = NoTime /\ pc[Worker] = "idle" /\ is_active
  /\ task # NoTime => pc[Worker] = "idle" /\ is_active
  /\ pc[Worker] # "idle" => is_active
  /\ pc[Source] \in {"idle", "next", "completed", "error", "schedule", "clear", "done", "in_error"}
  /\ pc[Worker] \in {"idle", "run", "again", "next", "completed", "error", "in_next", "in_terminal"}
  /\ pc[Source] = "in_error" => Passes /\ mutex = Source
  /\ mutex \in {NoOne, Source}
  /\ pc[Source] \in {"clear", "done"} => finished # "no"

\* What the worker holds comes next, and it is time for it.
HandInv ==
  /\ Len(got) <= Len(at)
  /\ \A i \in 1..Len(got) : got[i] = i /\ now >= Due(at, i)
  /\ pc[Worker] = "next" /\ ~closed =>
       val[Worker] = Len(got) + 1 /\ Len(got) < Len(at) /\ now >= Due(at, Len(got) + 1)
  /\ pc[Worker] \in {"completed", "error"} => finished = pc[Worker] /\ Ended /\ queue = <<>>

\* Nothing is lost before the observer is closed or an error passes.
OnItsWay == IF pc[Worker] \in {"next", "completed", "error", "in_terminal"} THEN 1 ELSE 0
FlowInv ==
  ~closed /\ ~(Passes /\ pc[Source] # "error") => Len(got) + OnItsWay + Len(queue) = Total

EndInv ==
  /\ ended # "no" => closed \/ pc[Worker] = "in_terminal" \/ pc[Source] = "in_error"
  /\ pc[Worker] = "in_terminal" => ended # "no" /\ Ended
  /\ ended = "completed" \/ (ended = "error" /\ operator = "delay") =>
       Len(got) = Len(at) /\ Ended /\ (closed \/ pc[Worker] = "in_terminal")

DelayInv ==
  /\ queue \in Seq(D!Emission) /\ is_active \in BOOLEAN
  /\ QueueInv /\ TaskInv /\ HandInv /\ FlowInv /\ EndInv
  /\ operator = "delay" =>
       inside = IF pc[Worker] \in {"in_next", "in_terminal"} THEN {Worker} ELSE {}

-----------------------------------------------------------------------------
(* debounce.                                                                 *)

Flushing == {"flush", "in_flush", "complete", "in_terminal", "unlock"}

\* The mutex names the thread that calls the observer.
LockInv ==
  /\ pc[Source] \in {"idle", "next", "completed", "error", "done"} \union Flushing
  /\ pc[Worker] \in {"idle", "run", "next", "in_next"}
  /\ mutex = Source <=> pc[Source] \in Flushing
  /\ mutex = Worker <=> pc[Worker] = "in_next"
  /\ mutex # Fallback
  /\ inside = {t \in Threads : pc[t] \in {"in_next", "in_flush", "in_terminal"}}
  /\ pc[Source] \in Flushing \union {"done"} => finished # "no"
  /\ pc[Source] \in {"unlock", "done"} => closed
  /\ ended # "no" => closed \/ pc[Source] = "in_terminal"
  /\ pc[Fallback] = "idle"

\* A Period passed after value v without another.
Quiet(v) ==
  \/ v = Len(at) /\ now >= Due(at, v)
  \/ v < Len(at) /\ at[v + 1] >= Due(at, v)

\* What waits is the latest value; what the worker took was the latest for a Period.
WaitInv ==
  /\ m_value_to_be_emitted \in 0..MaxEmits
  /\ m_time_when_value_should_be_emitted \in Times \union {NoTime}
  /\ m_value_to_be_emitted # NoValue =>
       /\ m_value_to_be_emitted = Len(at)
       /\ m_time_when_value_should_be_emitted = Due(at, Len(at))
       /\ \A i \in 1..Len(got) : got[i] < Len(at)
       /\ pc[Worker] = "next" => val[Worker] < Len(at)
  /\ pc[Worker] = "next" =>
       /\ val[Worker] \in 1..Len(at) /\ Quiet(val[Worker])
       /\ pc[Source] \notin Flushing \union {"done"} => \A i \in 1..Len(got) : got[i] < val[Worker]
  /\ pc[Source] = "flush" =>
       /\ val[Source] = Len(at) /\ Len(at) > 0 /\ finished = "completed"
       /\ m_value_to_be_emitted = NoValue
       /\ \A i \in 1..Len(got) : got[i] < Len(at)

QuietInv ==
  /\ \A i \in 1..Len(got) : got[i] \in 1..Len(at)
  /\ \A i \in 1..Len(got) : Quiet(got[i]) \/ (got[i] = Len(at) /\ finished = "completed")
  /\ \A i \in 1..Len(got) - 1 : got[i] < got[i + 1]

DebounceInv == LockInv /\ WaitInv /\ QuietInv

-----------------------------------------------------------------------------
(* timeout.                                                                  *)

\* The source has the mutex for every call, the task from the moment it gives
\* the observer away; only a period without a value lets it do so.
TimeoutInv ==
  /\ timeout \in Times /\ handed \in BOOLEAN
  /\ pc[Source] \in {"idle", "next", "completed", "error", "in_next", "in_terminal", "done"}
  /\ pc[Worker] \in {"idle", "run", "subscribe", "in_terminal", "unlock"}
  /\ pc[Fallback] \in {"idle", "running", "in_terminal", "done"}
  /\ pc[Source] \in {"in_next", "in_terminal"} => mutex = Source
  /\ pc[Worker] \in {"subscribe", "in_terminal", "unlock"} => mutex = Worker
  /\ pc[Worker] \in {"subscribe", "in_terminal", "unlock"} \/ pc[Fallback] # "idle" => handed
  /\ pc[Source] = "in_next" => finished = "no"
  /\ handed => disposed
  /\ ended # "no" => disposed \/ pc[Source] = "in_terminal"
  /\ pc[Source] # "in_next" => \A i \in 1..Len(at) : timeout >= Due(at, i)

-----------------------------------------------------------------------------
IInv ==
  /\ TypeOK
  /\ SourceInv
  /\ Delays => DelayInv
  /\ operator = "debounce" => DebounceInv
  /\ operator = "timeout" => TimeoutInv
  /\ operator # "timeout" => ~handed

-----------------------------------------------------------------------------
LEMMA TypesAgree ==
  TypeOK <=>
    /\ operator \in {"delay", "observe_on", "debounce", "timeout"}
    /\ CommonTypeOK
    /\ queue \in Seq(D!Emission) /\ is_active \in BOOLEAN
    /\ m_value_to_be_emitted \in 0..MaxEmits
    /\ m_time_when_value_should_be_emitted \in Times \union {NoTime}
    /\ timeout \in Times /\ handed \in BOOLEAN
  BY DEF TypeOK, CommonTypeOK, D!TypeOK, B!TypeOK, T!TypeOK, D!CommonTypeOK, B!CommonTypeOK, T!CommonTypeOK,
    Times, Threads, NoOne, NoTime, Source, Worker, Fallback,
    D!Times, D!Threads, D!NoOne, D!NoTime, D!Source, D!Worker, D!Fallback,
    B!Times, B!Threads, B!NoOne, B!NoTime, B!Source, B!Worker, B!Fallback,
    T!Times, T!Threads, T!NoOne, T!NoTime, T!Source, T!Worker, T!Fallback


USE TimeAssumption, EmitsAssumption
DEF Threads, NoOne, NoTime, NoValue, Source, Worker, Fallback, Times, Goto,
    D!Threads, D!NoOne, D!NoTime, D!NoValue, D!Source, D!Worker, D!Fallback, D!Times, D!Goto,
    B!Threads, B!NoOne, B!NoTime, B!NoValue, B!Source, B!Worker, B!Fallback, B!Times, B!Goto,
    T!Threads, T!NoOne, T!NoTime, T!NoValue, T!Source, T!Worker, T!Fallback, T!Times, T!Goto

LEMMA Emission == D!Emission = [kind : {"next", "completed", "error"}, value : 0..MaxEmits, time_point : Times]
  BY DEF D!Emission



-----------------------------------------------------------------------------
(* Steps that leave a part of the invariant of delay alone.                  *)

Types ==
  /\ pc \in [Threads -> Places] /\ at \in Seq(Times) /\ now \in Times /\ got \in Seq(1..MaxEmits)
  /\ val \in [Threads -> 0..MaxEmits] /\ queue \in Seq(D!Emission) /\ is_active \in BOOLEAN

LEMMA Lengths == ASSUME Types PROVE Len(queue) \in Nat /\ Len(at) \in Nat /\ Len(got) \in Nat
  BY DEF Types

LEMMA TotalType == ASSUME Types PROVE Total \in Nat /\ Total \in {Len(at), Len(at) + 1}
  BY Lengths DEF Total

LEMMA QueueFrame ==
  ASSUME Types, QueueInv, UNCHANGED <<queue, at>>, Ended' <=> Ended, finished' = finished \/ ~Ended,
         Passes' /\ pc'[Source] # "error" => Passes /\ pc[Source] # "error"
  PROVE  QueueInv' /\ Total' = Total
<1>1. Total' = Total
  BY DEF Total
<1>2. \A i \in 1..Len(queue) : ~Ended => Total - Len(queue) + i <= Len(at)
  BY Lengths DEF Total
<1> QED
  BY <1>1, <1>2 DEF QueueInv

LEMMA HandFrame ==
  ASSUME Types, HandInv, UNCHANGED <<got, at>>, val'[Worker] = val[Worker], now' \in Times, now <= now', closed => closed',
         pc'[Worker] \in {"next", "completed", "error"} =>
           pc'[Worker] = pc[Worker] /\ (pc[Worker] # "next" => (Ended => Ended') /\ UNCHANGED <<finished, queue>>)
  PROVE  HandInv'
<1>1. \A k \in 1..Len(at) : Due(at, k) \in Times
  BY DEF Types, Due, Capped
<1>2. \A i \in 1..Len(got) : i \in 1..Len(at)
  BY Lengths DEF HandInv
<1>3. \A k \in 1..Len(at) : now >= Due(at, k) => now' >= Due(at, k)
  BY <1>1 DEF Types
<1>4. Len(got) < Len(at) => Len(got) + 1 \in 1..Len(at)
  BY Lengths
<1> QED
  BY <1>2, <1>3, <1>4 DEF HandInv

LEMMA FlowFrame ==
  ASSUME FlowInv, UNCHANGED <<got, queue>>, OnItsWay' = OnItsWay, Total' = Total, closed => closed',
         Passes /\ pc[Source] # "error" => Passes' /\ pc'[Source] # "error"
  PROVE  FlowInv'
BY DEF FlowInv

LEMMA EndFrame ==
  ASSUME EndInv, UNCHANGED <<ended, got, at, operator>>, Ended => Ended', closed => closed',
         pc[Worker] = "in_terminal" => pc'[Worker] = "in_terminal" \/ closed',
         pc'[Worker] = "in_terminal" => pc[Worker] = "in_terminal",
         pc[Source] = "in_error" => pc'[Source] = "in_error" \/ closed'
  PROVE  EndInv'
BY DEF EndInv

-----------------------------------------------------------------------------
(* The steps of delay and of observe_on, one by one.                         *)

LEMMA TypesFollow ==
  ASSUME CommonTypeOK, SourceInv, DelayInv
  PROVE  Types /\ QueueInv /\ TaskInv /\ HandInv /\ FlowInv /\ EndInv
  BY DEF CommonTypeOK, SourceInv, DelayInv, Types

\* What the shared steps leave of the types and of the source's place.
LEMMA SharedKeeps ==
  ASSUME CommonTypeOK, SourceInv, Shared
  PROVE  CommonTypeOK' /\ SourceInv'
<1> USE DEF downstream, threads
<1>1. CASE SourceNext
  <2>1. CommonTypeOK'
    BY <1>1 DEF SourceNext, CommonTypeOK
  <2>2. SourceInv'
    BY <1>1 DEF SourceNext, SourceInv, CommonTypeOK, Listening, Places
  <2> QED
    BY <2>1, <2>2
<1>2. CASE SourceTerminal
  <2>1. CommonTypeOK'
    BY <1>2 DEF SourceTerminal, CommonTypeOK
  <2>2. SourceInv'
    BY <1>2 DEF SourceTerminal, SourceInv, Listening, Places
  <2> QED
    BY <2>1, <2>2
<1>3. CASE RunTask
  <2>1. CommonTypeOK'
    BY <1>3 DEF RunTask, CommonTypeOK
  <2>2. SourceInv'
    BY <1>3 DEF RunTask, SourceInv, Places
  <2> QED
    BY <2>1, <2>2
<1>4. CASE Tick
  <2>1. CommonTypeOK' /\ now' = now + 1 /\ now \in Nat /\ UNCHANGED <<at, pc, val, finished>> /\ at \in Seq(Times)
    BY <1>4 DEF Tick, CommonTypeOK
  <2>2. \A i \in 1..Len(at) : at[i] <= now => at[i] <= now + 1
    BY <2>1
  <2>3. SourceInv'
    BY <2>1, <2>2 DEF SourceInv
  <2> QED
    BY <2>1, <2>3
<1>5. CASE UserDispose \/ UserDisposeUpstream
  <2>1. CommonTypeOK'
    BY <1>5 DEF UserDispose, UserDisposeUpstream, CommonTypeOK
  <2>2. SourceInv'
    BY <1>5 DEF UserDispose, UserDisposeUpstream, SourceInv
  <2> QED
    BY <2>1, <2>2
<1> QED
  BY <1>1, <1>2, <1>3, <1>4, <1>5 DEF Shared

LEMMA DelayShared ==
  ASSUME CommonTypeOK, SourceInv, DelayInv, Delays, SharedStep
  PROVE  DelayInv'
<1> USE DEF downstream, threads, ofDelay
<1>0. Types /\ QueueInv /\ TaskInv /\ HandInv /\ FlowInv /\ EndInv
  BY TypesFollow
<1>1. UNCHANGED <<operator, queue, is_active, at, got, ended, inside, mutex>>
  BY DEF SharedStep, Shared, SourceNext, SourceTerminal, RunTask, Tick, UserDispose, UserDisposeUpstream
<1>2. /\ val'[Worker] = val[Worker] /\ now' \in Times /\ now <= now' /\ (closed => closed')
      /\ pc'[Worker] \in {pc[Worker], "run"} /\ (pc'[Worker] # pc[Worker] => pc[Worker] = "idle")
  BY <1>0 DEF SharedStep, Shared, SourceNext, SourceTerminal, RunTask, Tick, UserDispose, UserDisposeUpstream, Types
<1>3. \/ UNCHANGED <<pc, finished>>
      \/ UNCHANGED finished /\ pc[Source] = "idle" /\ pc'[Source] = "next"
      \/ pc[Source] = "idle" /\ finished = "no" /\ finished' # "no" /\ pc'[Source] = finished' /\ finished' \in {"completed", "error"}
      \/ UNCHANGED finished /\ pc[Worker] = "idle" /\ pc' = [pc EXCEPT !["worker"] = "run"]
  BY <1>0 DEF SharedStep, Shared, SourceNext, SourceTerminal, RunTask, Tick, UserDispose, UserDisposeUpstream, Types, Listening
<1>4. /\ Ended' <=> Ended
      /\ finished' = finished \/ ~Ended
      /\ Passes' /\ pc'[Source] # "error" <=> Passes /\ pc[Source] # "error"
  BY <1>0, <1>1, <1>3 DEF Ended, Passes, Types, SourceInv
<1>5. QueueInv' /\ Total' = Total
  BY <1>0, <1>1, <1>4, QueueFrame
<1>6. HandInv'
  BY <1>0, <1>1, <1>2, <1>3, <1>4, HandFrame DEF HandInv
<1>7. FlowInv'
  BY <1>0, <1>1, <1>2, <1>4, <1>5, FlowFrame DEF OnItsWay
<1>e. /\ pc[Source] = "in_error" => pc'[Source] = "in_error"
      /\ pc'[Worker] = "in_terminal" <=> pc[Worker] = "in_terminal"
  BY <1>0, <1>2, <1>3 DEF Types
<1>8. EndInv'
  BY <1>0, <1>1, <1>2, <1>4, <1>e, EndFrame
<1>9. TaskInv'
  BY <1>0, <1>1 DEF TaskInv, SharedStep, Shared, SourceNext, SourceTerminal, RunTask, Tick, UserDispose, UserDisposeUpstream, Types, Passes, Listening
<1>10. (operator = "delay" => inside = IF pc[Worker] \in {"in_next", "in_terminal"} THEN {Worker} ELSE {})'
  BY <1>1, <1>2 DEF DelayInv, Delays
<1> QED
  BY <1>0, <1>1, <1>5, <1>6, <1>7, <1>8, <1>9, <1>10 DEF DelayInv, Types, D!Emission

LEMMA EmplaceKeeps ==
  ASSUME CommonTypeOK, SourceInv, DelayInv, Delays, D!Emplace, UNCHANGED operator
  PROVE  CommonTypeOK' /\ SourceInv' /\ DelayInv'
<1> DEFINE emission == [kind |-> pc[Source], value |-> val[Source], time_point |-> Capped(now + Period)]
<1>0. Types /\ QueueInv /\ TaskInv /\ HandInv /\ FlowInv /\ EndInv
  BY TypesFollow
<1>n. Len(queue) \in Nat /\ Len(at) \in Nat /\ Len(got) \in Nat
  BY <1>0, Lengths
<1>1. /\ pc[Source] \in {"next", "completed", "error"} /\ mutex = NoOne
      /\ operator = "observe_on" => pc[Source] # "error"
      /\ queue' = Append(queue, emission)
      /\ at' = IF pc[Source] = "next" THEN Append(at, now) ELSE at
      /\ is_active' = TRUE
      /\ pc' = [pc EXCEPT !["source"] = IF ~is_active THEN "schedule" ELSE IF finished = "no" THEN "idle" ELSE "clear"]
      /\ UNCHANGED <<now, task, mutex, closed, ended, inside, got, val, finished, disposed, user, operator>>
  BY DEF D!Emplace, D!AfterEmplace, D!downstream, D!Capped, Capped
<1>2. pc'[Worker] = pc[Worker] /\ pc'[Source] \in {"schedule", IF finished = "no" THEN "idle" ELSE "clear"}
  BY <1>0, <1>1 DEF Types
<1>3. emission \in D!Emission
  BY <1>0, <1>1, Emission DEF Capped, Types
<1>4. queue' \in Seq(D!Emission) /\ Len(queue') = Len(queue) + 1 /\ queue'[Len(queue) + 1] = emission
      /\ \A i \in 1..Len(queue) : queue'[i] = queue[i]
  BY <1>0, <1>1, <1>3 DEF Types
<1>5. TaskInv'
  <2>1. queue' # <<>>
    BY <1>4, <1>n
  <2> QED
    BY <1>0, <1>1, <2>1 DEF TaskInv, Types, Passes, SourceInv
<1>6. (operator = "delay" => inside = IF pc[Worker] \in {"in_next", "in_terminal"} THEN {Worker} ELSE {})'
  BY <1>1, <1>2 DEF DelayInv, Delays
<1>7. CASE pc[Source] = "next"
  <2>1. /\ finished = "no" /\ val[Source] = Len(at) + 1 /\ Len(at) < MaxEmits /\ Len(at') = Len(at) + 1 /\ at'[Len(at) + 1] = now
        /\ at' \in Seq(Times)
        /\ \A i \in 1..Len(at) : at'[i] = at[i] /\ at[i] <= now
    BY <1>0, <1>1, <1>7 DEF SourceInv, Types
  <2>2. CommonTypeOK'
    BY <1>1, <2>1 DEF CommonTypeOK
  <2>3. SourceInv'
    <3>1. pc' \in [Threads -> Places] /\ pc'[Source] \in {"schedule", "idle"} /\ finished' = "no"
      BY <1>0, <1>1, <1>2, <2>1 DEF Types, Places
    <3>2. \A i \in 1..Len(at') : at'[i] <= now
      <4>1. now <= now
        BY <1>0 DEF Types
      <4>2. \A i \in 1..Len(at') : i = Len(at) + 1 \/ i \in 1..Len(at)
        BY <1>n, <2>1
      <4> QED
        BY <2>1, <4>1, <4>2
    <3> QED
      BY <1>1, <3>1, <3>2 DEF SourceInv
  <2>4. ~Passes /\ ~Ended /\ Total = Len(at) /\ ~Passes' /\ ~Ended' /\ Total' = Len(at) + 1
    BY <1>1, <2>1 DEF Passes, Ended, Total
  <2>5. \A k \in 1..Len(at) : Due(at', k) = Due(at, k)
    BY <2>1 DEF Due
  <2>6. QueueInv'
    <3>1. Len(queue') <= Total'
      BY <1>0, <1>n, <1>4, <2>4 DEF QueueInv
    <3>2. ASSUME NEW i \in 1..Len(queue')
          PROVE  LET k == Total' - Len(queue') + i IN
                   /\ k <= Len(at')
                   /\ queue'[i].kind = "next" /\ queue'[i].value = k /\ queue'[i].time_point = Due(at', k)
      <4>1. CASE i = Len(queue) + 1
        BY <1>n, <1>4, <1>7, <2>1, <2>4, <4>1 DEF Due
      <4>2. CASE i \in 1..Len(queue)
        <5> DEFINE k == Len(at) - Len(queue) + i
        <5>1. k \in 1..Len(at) /\ Total' - Len(queue') + i = k
          BY <1>0, <1>n, <1>4, <2>4, <4>2 DEF QueueInv
        <5>2. queue[i].kind = "next" /\ queue[i].value = k /\ queue[i].time_point = Due(at, k)
          BY <1>0, <2>4, <4>2, <5>1 DEF QueueInv
        <5>3. queue'[i] = queue[i] /\ Due(at', k) = Due(at, k)
          BY <1>4, <2>5, <4>2, <5>1
        <5> QED
          BY <1>n, <2>1, <5>1, <5>2, <5>3
      <4> QED
        BY <1>n, <1>4, <4>1, <4>2
    <3> QED
      BY <2>4, <3>1, <3>2 DEF QueueInv
  <2>7. HandInv'
    <3>1. \A i \in 1..Len(got) : i \in 1..Len(at)
      BY <1>0, <1>n DEF HandInv
    <3>2. Len(got) < Len(at) => Len(got) + 1 \in 1..Len(at)
      BY <1>n
    <3>3. pc[Worker] \notin {"completed", "error"}
      BY <1>0, <2>4 DEF HandInv
    <3> QED
      BY <1>0, <1>1, <1>2, <1>n, <2>1, <2>5, <3>1, <3>2, <3>3 DEF HandInv
  <2>8. FlowInv'
    <3>1. OnItsWay' = OnItsWay /\ OnItsWay \in Nat
      BY <1>2 DEF OnItsWay
    <3> QED
      BY <1>0, <1>1, <1>n, <1>4, <2>4, <3>1 DEF FlowInv
  <2>9. EndInv'
    <3>1. pc[Worker] # "in_terminal" /\ ~(ended = "completed" \/ (ended = "error" /\ operator = "delay"))
      BY <1>0, <2>4 DEF EndInv
    <3>2. pc[Source] # "in_error"
      BY <1>7
    <3> QED
      BY <1>0, <1>1, <1>2, <3>1, <3>2 DEF EndInv
  <2> QED
    BY <1>1, <1>4, <1>5, <1>6, <2>2, <2>3, <2>6, <2>7, <2>8, <2>9 DEF DelayInv, D!Emission
<1>8. CASE pc[Source] \in {"completed", "error"}
  <2>a. finished = pc[Source] /\ finished # "no" /\ UNCHANGED at /\ pc'[Source] \in {"schedule", "clear"}
    BY <1>1, <1>2, <1>8 DEF SourceInv
  <2>b. ~Passes /\ ~Passes'
    BY <1>1, <2>a DEF Passes
  <2>c. ~Ended /\ Ended'
    BY <1>1, <1>8, <2>a, <2>b DEF Ended
  <2>1. /\ finished = pc[Source] /\ finished # "no" /\ UNCHANGED at /\ ~Passes /\ ~Passes' /\ ~Ended /\ Ended'
        /\ Total = Len(at) /\ Total' = Len(at) + 1 /\ pc'[Source] \in {"schedule", "clear"}
    BY <1>n, <2>a, <2>b, <2>c DEF Total
  <2>d. Total = Len(at) /\ Total' = Len(at) + 1 /\ ~Passes /\ ~Passes'
    BY <2>1
  <2>2. CommonTypeOK'
    BY <1>1, <2>1 DEF CommonTypeOK
  <2>3. SourceInv'
    <3>1. pc' \in [Threads -> Places]
      BY <1>0, <1>1 DEF Types, Places
    <3> QED
      BY <1>1, <2>1, <3>1 DEF SourceInv
  <2>6. QueueInv'
    <3>1. Len(queue') <= Total'
      BY <1>0, <1>n, <1>4, <2>1 DEF QueueInv
    <3>2. ASSUME NEW i \in 1..Len(queue')
          PROVE  LET k == Total' - Len(queue') + i IN
                   IF k <= Len(at)
                   THEN queue'[i].kind = "next" /\ queue'[i].value = k /\ queue'[i].time_point = Due(at, k)
                   ELSE queue'[i].kind = finished
      <4>1. CASE i = Len(queue) + 1
        BY <1>n, <1>4, <2>1, <4>1
      <4>2. CASE i \in 1..Len(queue)
        <5> DEFINE k == Len(at) - Len(queue) + i
        <5>1. k \in 1..Len(at) /\ Total' - Len(queue') + i = k
          BY <1>0, <1>n, <1>4, <2>1, <4>2 DEF QueueInv
        <5>2. queue[i].kind = "next" /\ queue[i].value = k /\ queue[i].time_point = Due(at, k)
          BY <1>0, <2>d, <4>2, <5>1 DEF QueueInv
        <5>3. queue'[i] = queue[i]
          BY <1>4, <4>2
        <5> QED
          BY <1>n, <5>1, <5>2, <5>3
      <4> QED
        BY <1>n, <1>4, <4>1, <4>2
    <3> QED
      BY <1>1, <2>1, <3>1, <3>2 DEF QueueInv
  <2>7. HandInv'
    <3>1. pc[Worker] \notin {"completed", "error"}
      BY <1>0, <2>1 DEF HandInv
    <3> QED
      BY <1>0, <1>1, <1>2, <2>1, <3>1, HandFrame DEF Types
  <2>8. FlowInv'
    <3>1. OnItsWay' = OnItsWay /\ OnItsWay \in Nat
      BY <1>2 DEF OnItsWay
    <3> QED
      BY <1>0, <1>1, <1>n, <1>4, <2>d, <3>1 DEF FlowInv
  <2>9. EndInv'
    BY <1>0, <1>1, <1>2, <1>8, <2>1, EndFrame
  <2> QED
    BY <1>1, <1>4, <1>5, <1>6, <2>2, <2>3, <2>6, <2>7, <2>8, <2>9 DEF DelayInv, D!Emission
<1> QED
  BY <1>1, <1>7, <1>8

\* A step that brings nothing in or out of the operator's hands.
LEMMA PartsFrame ==
  ASSUME Types, QueueInv, HandInv, FlowInv, EndInv,
         UNCHANGED <<queue, at, got, ended, finished, operator, now>>, val'[Worker] = val[Worker], closed => closed',
         Ended' <=> Ended, Passes' /\ pc'[Source] # "error" <=> Passes /\ pc[Source] # "error",
         \/ pc'[Worker] = pc[Worker]
         \/ /\ pc[Worker] \notin {"next", "completed", "error", "in_terminal"}
            /\ pc'[Worker] \notin {"next", "completed", "error", "in_terminal"},
         pc[Source] = "in_error" => pc'[Source] = "in_error" \/ closed'
  PROVE  QueueInv' /\ HandInv' /\ FlowInv' /\ EndInv'
<1>1. QueueInv' /\ Total' = Total
  BY QueueFrame
<1>2. HandInv'
  <2>1. now' \in Times /\ now <= now'
    BY DEF Types
  <2> QED
    BY <2>1, HandFrame
<1>3. FlowInv'
  BY <1>1, FlowFrame DEF OnItsWay
<1>4. EndInv'
  BY EndFrame
<1> QED
  BY <1>1, <1>2, <1>3, <1>4

LEMMA SourceFrame ==
  ASSUME SourceInv, UNCHANGED <<at, now, finished>>, pc' \in [Threads -> Places],
         \/ pc'[Source] \notin {"idle", "next", "completed", "error"}
         \/ pc'[Source] = pc[Source] /\ val'[Source] = val[Source]
         \/ pc'[Source] = "idle" /\ finished = "no"
  PROVE  SourceInv'
BY DEF SourceInv

LEMMA FirstType ==
  ASSUME queue \in Seq(D!Emission), queue # <<>>
  PROVE  /\ Head(queue) = queue[1] /\ Head(queue) \in D!Emission /\ Len(queue) \in Nat \ {0}
         /\ Head(queue).kind \in {"next", "completed", "error"} /\ Head(queue).value \in 0..MaxEmits
         /\ Head(queue).time_point \in Times
<1>1. Head(queue) = queue[1] /\ Head(queue) \in D!Emission /\ Len(queue) \in Nat \ {0}
  OBVIOUS
<1> QED
  BY <1>1, Emission

LEMMA ScheduleKeeps ==
  ASSUME CommonTypeOK, SourceInv, DelayInv, Delays, D!Schedule, UNCHANGED operator
  PROVE  CommonTypeOK' /\ SourceInv' /\ DelayInv'
<1>0. Types /\ QueueInv /\ TaskInv /\ HandInv /\ FlowInv /\ EndInv
  BY TypesFollow
<1>1. /\ pc[Source] = "schedule" /\ task' = Head(queue).time_point
      /\ pc' = [pc EXCEPT !["source"] = IF finished = "no" THEN "idle" ELSE "clear"]
      /\ UNCHANGED <<now, mutex, closed, ended, inside, got, val, at, finished, disposed, user, operator, queue, is_active>>
  BY DEF D!Schedule, D!AfterEmplace, D!downstream, D!own
<1>2. queue # <<>> /\ Head(queue) \in D!Emission /\ task' \in Times
  BY <1>0, <1>1, FirstType DEF TaskInv, Types
<1>3. pc'[Worker] = pc[Worker] /\ pc'[Source] \in {"idle", "clear"} /\ pc' \in [Threads -> Places]
      /\ (pc'[Source] = "idle" <=> finished = "no")
  BY <1>0, <1>1 DEF Types, Places
<1>4. CommonTypeOK'
  BY <1>1, <1>2 DEF CommonTypeOK
<1>5. SourceInv'
  BY <1>1, <1>3, SourceFrame
<1>6. (Ended' <=> Ended) /\ (Passes' <=> Passes) /\ (Passes' /\ pc'[Source] # "error" <=> Passes /\ pc[Source] # "error")
  BY <1>1, <1>3 DEF Ended, Passes
<1>7. QueueInv' /\ HandInv' /\ FlowInv' /\ EndInv'
  BY <1>0, <1>1, <1>3, <1>6, PartsFrame
<1>8. TaskInv'
  BY <1>0, <1>1, <1>3 DEF TaskInv
<1> QED
  BY <1>1, <1>3, <1>4, <1>5, <1>7, <1>8 DEF DelayInv, D!Emission

LEMMA ErrorEnterKeeps ==
  ASSUME CommonTypeOK, SourceInv, DelayInv, Delays, D!ErrorEnter, UNCHANGED operator
  PROVE  CommonTypeOK' /\ SourceInv' /\ DelayInv'
<1>0. Types /\ QueueInv /\ TaskInv /\ HandInv /\ FlowInv /\ EndInv
  BY TypesFollow
<1>1. /\ pc[Source] = "error" /\ operator = "observe_on" /\ mutex = NoOne /\ queue' = <<>>
      /\ \/ /\ closed /\ pc' = [pc EXCEPT !["source"] = "clear"]
            /\ UNCHANGED <<mutex, ended, inside>>
         \/ /\ ~closed /\ pc' = [pc EXCEPT !["source"] = "in_error"]
            /\ mutex' = Source /\ ended' = "error" /\ inside' = inside \union {Source}
      /\ UNCHANGED <<now, closed, got, task, val, at, finished, disposed, user, operator, is_active>>
  BY DEF D!ErrorEnter, D!downstream, D!BeginTerminal
<1>2. pc'[Worker] = pc[Worker] /\ pc'[Source] \in {"in_error", "clear"} /\ pc' \in [Threads -> Places]
      /\ (pc'[Source] = "in_error" => mutex' = Source) /\ mutex' \in {NoOne, Source}
      /\ (~closed => pc'[Source] = "in_error")
  BY <1>0, <1>1 DEF Types, Places
<1>3. finished = "error" /\ Passes /\ Passes' /\ ~Ended /\ ~Ended' /\ Total' = Len(at)
  BY <1>1 DEF SourceInv, Passes, Ended, Total
<1>4. CommonTypeOK'
  BY <1>1 DEF CommonTypeOK
<1>5. SourceInv'
  BY <1>1, <1>2, SourceFrame
<1>6. QueueInv'
  <2>1. Len(queue') = 0 /\ Len(at) \in Nat
    BY <1>0, <1>1, Lengths
  <2> QED
    BY <1>1, <1>3, <2>1 DEF QueueInv
<1>7. HandInv'
  <2>1. pc[Worker] \notin {"completed", "error"}
    BY <1>0, <1>3 DEF HandInv
  <2>2. now' \in Times /\ now <= now'
    BY <1>0, <1>1 DEF Types
  <2> QED
    BY <1>0, <1>1, <1>2, <2>1, <2>2, HandFrame
<1>8. FlowInv'
  BY <1>2, <1>3 DEF FlowInv
<1>9. EndInv'
  <2>1. pc[Worker] # "in_terminal" /\ ended # "completed"
    BY <1>0, <1>3 DEF EndInv
  <2>2. ended # "no" => closed
    BY <1>0, <1>1, <2>1 DEF EndInv
  <2> QED
    BY <1>1, <1>2, <2>1, <2>2 DEF EndInv
<1>10. TaskInv'
  BY <1>0, <1>1, <1>2, <1>3 DEF TaskInv
<1>11. queue' \in Seq(D!Emission)
  BY <1>1
<1> QED
  BY <1>0, <1>1, <1>4, <1>5, <1>6, <1>7, <1>8, <1>9, <1>10, <1>11 DEF DelayInv, D!Emission, Types

LEMMA ErrorLeaveKeeps ==
  ASSUME CommonTypeOK, SourceInv, DelayInv, Delays, D!ErrorLeave, UNCHANGED operator
  PROVE  CommonTypeOK' /\ SourceInv' /\ DelayInv'
<1>0. Types /\ QueueInv /\ TaskInv /\ HandInv /\ FlowInv /\ EndInv
  BY TypesFollow
<1>1. /\ pc[Source] = "in_error" /\ pc' = [pc EXCEPT !["source"] = "clear"]
      /\ closed' = TRUE /\ disposed' = TRUE /\ inside' = inside \ {Source} /\ mutex' = NoOne
      /\ UNCHANGED <<now, ended, got, task, val, at, finished, user, operator, queue, is_active>>
  BY DEF D!ErrorLeave, D!EndTerminal, D!own
<1>2. pc'[Worker] = pc[Worker] /\ pc'[Source] = "clear" /\ pc' \in [Threads -> Places]
  BY <1>0, <1>1 DEF Types, Places
<1>3. Passes /\ Passes' /\ operator = "observe_on" /\ finished # "no"
  BY <1>0, <1>1 DEF TaskInv, Passes
<1>4. CommonTypeOK'
  BY <1>1 DEF CommonTypeOK
<1>5. SourceInv'
  BY <1>1, <1>2, SourceFrame
<1>6. (Ended' <=> Ended) /\ (Passes' /\ pc'[Source] # "error" <=> Passes /\ pc[Source] # "error")
  BY <1>1, <1>2, <1>3 DEF Ended
<1>7. QueueInv' /\ HandInv' /\ FlowInv' /\ EndInv'
  BY <1>0, <1>1, <1>2, <1>6, PartsFrame
<1>8. TaskInv'
  BY <1>0, <1>1, <1>2, <1>3 DEF TaskInv
<1> QED
  BY <1>0, <1>1, <1>3, <1>4, <1>5, <1>7, <1>8 DEF DelayInv, D!Emission, Types

LEMMA ClearKeeps ==
  ASSUME CommonTypeOK, SourceInv, DelayInv, Delays, D!Clear, UNCHANGED operator
  PROVE  CommonTypeOK' /\ SourceInv' /\ DelayInv'
<1>0. Types /\ QueueInv /\ TaskInv /\ HandInv /\ FlowInv /\ EndInv
  BY TypesFollow
<1>1. /\ pc[Source] = "clear" /\ pc' = [pc EXCEPT !["source"] = "done"]
      /\ UNCHANGED <<now, closed, ended, inside, got, task, val, at, finished, mutex, disposed, user, operator, queue, is_active>>
  BY DEF D!Clear, D!own, D!downstream
<1>2. pc'[Worker] = pc[Worker] /\ pc'[Source] = "done" /\ pc' \in [Threads -> Places]
  BY <1>0, <1>1 DEF Types, Places
<1>4. CommonTypeOK'
  BY <1>1 DEF CommonTypeOK
<1>5. SourceInv'
  BY <1>1, <1>2, SourceFrame
<1>6. (Ended' <=> Ended) /\ (Passes' <=> Passes) /\ (Passes' /\ pc'[Source] # "error" <=> Passes /\ pc[Source] # "error")
  BY <1>1, <1>2 DEF Ended, Passes
<1>7. QueueInv' /\ HandInv' /\ FlowInv' /\ EndInv'
  BY <1>0, <1>1, <1>2, <1>6, PartsFrame
<1>8. TaskInv'
  BY <1>0, <1>1, <1>2 DEF TaskInv
<1> QED
  BY <1>0, <1>1, <1>2, <1>4, <1>5, <1>7, <1>8 DEF DelayInv, D!Emission, Types

\* The task ends, or is scheduled again.
LEMMA DrainPauseKeeps ==
  ASSUME CommonTypeOK, SourceInv, DelayInv, Delays, D!DrainEmpty \/ D!DrainLater, UNCHANGED operator
  PROVE  CommonTypeOK' /\ SourceInv' /\ DelayInv'
<1>0. Types /\ QueueInv /\ TaskInv /\ HandInv /\ FlowInv /\ EndInv
  BY TypesFollow
<1>1. /\ pc[Worker] \in {"run", "again"} /\ pc' = [pc EXCEPT !["worker"] = "idle"]
      /\ \/ queue = <<>> /\ is_active' = FALSE /\ task' = task
         \/ queue # <<>> /\ is_active' = is_active /\ task' = Head(queue).time_point
      /\ UNCHANGED <<now, closed, ended, inside, got, val, at, finished, mutex, disposed, user, operator, queue>>
  BY DEF D!DrainEmpty, D!DrainLater, D!Draining, D!own, D!downstream
<1>2. pc'[Source] = pc[Source] /\ pc'[Worker] = "idle" /\ pc' \in [Threads -> Places]
  BY <1>0, <1>1 DEF Types, Places
<1>3. task' = task \/ task' \in Times
  BY <1>0, <1>1, FirstType DEF Types
<1>4. CommonTypeOK'
  BY <1>1, <1>3 DEF CommonTypeOK
<1>5. SourceInv'
  BY <1>1, <1>2, SourceFrame
<1>6. (Ended' <=> Ended) /\ (Passes' /\ pc'[Source] # "error" <=> Passes /\ pc[Source] # "error")
  BY <1>1, <1>2 DEF Ended, Passes
<1>7. QueueInv' /\ HandInv' /\ FlowInv' /\ EndInv'
  <2>1. pc[Worker] \notin {"next", "completed", "error", "in_terminal"} /\ val'[Worker] = val[Worker]
    BY <1>1
  <2>2. pc'[Worker] \notin {"next", "completed", "error", "in_terminal"}
    BY <1>2
  <2>3. pc[Source] = "in_error" => pc'[Source] = "in_error" \/ closed'
    BY <1>2
  <2> QED
    BY <1>0, <1>1, <1>6, <2>1, <2>2, <2>3, PartsFrame
<1>8. TaskInv'
  <2>1. pc[Source] # "schedule" /\ task = NoTime
    BY <1>0, <1>1 DEF TaskInv
  <2>2. Passes' <=> Passes
    BY <1>1 DEF Passes
  <2> QED
    BY <1>0, <1>1, <1>2, <2>1, <2>2 DEF TaskInv
<1>9. is_active' \in BOOLEAN /\ queue' \in Seq(D!Emission)
  BY <1>0, <1>1 DEF Types
<1> QED
  BY <1>0, <1>1, <1>2, <1>4, <1>5, <1>7, <1>8, <1>9 DEF DelayInv, D!Emission

LEMMA DrainNextKeeps ==
  ASSUME CommonTypeOK, SourceInv, DelayInv, Delays, D!DrainNext, UNCHANGED operator
  PROVE  CommonTypeOK' /\ SourceInv' /\ DelayInv'
<1>0. Types /\ QueueInv /\ TaskInv /\ HandInv /\ FlowInv /\ EndInv
  BY TypesFollow
<1>1. /\ pc[Worker] = "run" /\ mutex = NoOne /\ queue # <<>> /\ Head(queue).time_point <= now
      /\ val' = [val EXCEPT !["worker"] = Head(queue).value]
      /\ pc' = [pc EXCEPT !["worker"] = Head(queue).kind]
      /\ queue' = Tail(queue)
      /\ UNCHANGED <<now, task, closed, ended, inside, got, at, finished, mutex, disposed, user, operator, is_active>>
  BY DEF D!DrainNext, D!Draining, D!downstream
<1>2. /\ Head(queue) = queue[1] /\ Len(queue) \in Nat \ {0}
      /\ Head(queue).kind \in {"next", "completed", "error"} /\ Head(queue).value \in 0..MaxEmits
      /\ Head(queue).time_point \in Times
  BY <1>0, <1>1, FirstType DEF Types
<1>3. /\ pc'[Source] = pc[Source] /\ pc'[Worker] = Head(queue).kind /\ pc' \in [Threads -> Places]
      /\ val'[Source] = val[Source] /\ val'[Worker] = Head(queue).value /\ val' \in [Threads -> 0..MaxEmits]
  BY <1>0, <1>1, <1>2 DEF Types, Places
<1>4. /\ queue' \in Seq(D!Emission) /\ Len(queue') = Len(queue) - 1
      /\ \A i \in 1..Len(queue') : i + 1 \in 1..Len(queue) /\ queue'[i] = queue[i + 1]
  BY <1>0, <1>1 DEF Types
<1>5. CommonTypeOK'
  BY <1>1, <1>3 DEF CommonTypeOK
<1>6. SourceInv'
  BY <1>1, <1>3, SourceFrame
<1>7. ~(Passes /\ pc[Source] # "error")
  BY <1>0, <1>1 DEF QueueInv
<1>8. (Ended' <=> Ended) /\ (Passes' <=> Passes) /\ Total' = Total
  BY <1>1, <1>3 DEF Ended, Passes, Total
<1>q. Len(queue) \in Nat /\ Len(queue) > 0 /\ Len(queue') = Len(queue) - 1
  BY <1>2, <1>4
<1>n. Len(at) \in Nat /\ Len(got) \in Nat /\ Total \in Nat /\ (Total = Len(at) \/ Total = Len(at) + 1)
      /\ Len(queue) <= Total /\ (~Ended => Total = Len(at))
  BY <1>0, Lengths, TotalType DEF QueueInv, Total
<1>9. QueueInv'
  <2>1. Len(queue') <= Total'
    BY <1>2, <1>4, <1>8, <1>n
  <2>2. ASSUME NEW i \in 1..Len(queue')
        PROVE  LET k == Total' - Len(queue') + i IN
                 IF k <= Len(at)
                 THEN queue'[i].kind = "next" /\ queue'[i].value = k /\ queue'[i].time_point = Due(at, k)
                 ELSE queue'[i].kind = finished
    <3> DEFINE k == Total - Len(queue) + (i + 1)
    <3>1. i + 1 \in 1..Len(queue) /\ queue'[i] = queue[i + 1]
      BY <1>4
    <3>2. IF k <= Len(at)
          THEN queue[i + 1].kind = "next" /\ queue[i + 1].value = k /\ queue[i + 1].time_point = Due(at, k)
          ELSE queue[i + 1].kind = finished
      BY <1>0, <3>1 DEF QueueInv
    <3>3. Total' - Len(queue') + i = k
      BY <1>2, <1>4, <1>8, <1>n
    <3> QED
      BY <3>1, <3>2, <3>3
  <2> QED
    BY <1>1, <1>3, <1>7, <1>8, <2>1, <2>2 DEF QueueInv
<1> DEFINE first == Total - Len(queue) + 1
<1>10. IF first <= Len(at)
       THEN Head(queue).kind = "next" /\ Head(queue).value = first /\ Head(queue).time_point = Due(at, first)
       ELSE Head(queue).kind = finished
  <2>1. 1 \in 1..Len(queue)
    BY <1>2
  <2> QED
    BY <1>0, <1>2, <2>1 DEF QueueInv
<1>11. ~closed => first = Len(got) + 1
  <2>1. OnItsWay = 0
    BY <1>1 DEF OnItsWay
  <2> QED
    BY <1>0, <1>2, <1>7, <1>n, <2>1 DEF FlowInv
<1>12. HandInv'
  <2>1. Len(got) <= Len(at) /\ \A i \in 1..Len(got) : got[i] = i /\ now >= Due(at, i)
    BY <1>0 DEF HandInv
  <2>2. ASSUME Head(queue).kind = "next", ~closed
        PROVE  Head(queue).value = Len(got) + 1 /\ Len(got) < Len(at) /\ now >= Due(at, Len(got) + 1)
    <3>1. finished # "next"
      BY DEF CommonTypeOK
    <3>2. first <= Len(at) /\ first = Len(got) + 1
      BY <1>10, <1>11, <2>2, <3>1
    <3>3. Due(at, first) \in Times /\ Due(at, first) <= now
      BY <1>1, <1>2, <1>10, <3>2
    <3>4. Head(queue).value = first
      BY <1>10, <3>2
    <3>5. Len(got) < Len(at)
      BY <1>n, <3>2
    <3>6. now \in Nat
      BY <1>0 DEF Types
    <3>7. now >= Due(at, first)
      BY <3>3, <3>6
    <3> HIDE DEF first
    <3> QED
      BY <3>2, <3>4, <3>5, <3>7
  <2>3. ASSUME Head(queue).kind # "next"
        PROVE  Head(queue).kind = finished /\ Ended /\ queue' = <<>>
    <3>1. ~(first <= Len(at)) /\ Head(queue).kind = finished
      BY <1>10, <2>3
    <3>a. Total = Len(at) + 1 /\ Len(queue) = 1
      BY <1>q, <1>n, <3>1
    <3>2. Ended /\ Len(queue) = 1
      BY <1>n, <3>a
    <3>3. queue' = <<>>
      BY <1>4, <3>2
    <3> QED
      BY <3>1, <3>2, <3>3
  <2> QED
    BY <1>1, <1>2, <1>3, <1>8, <2>1, <2>2, <2>3 DEF HandInv
<1>13. FlowInv'
  <2>1. OnItsWay = 0 /\ OnItsWay' = 1
    BY <1>1, <1>2, <1>3 DEF OnItsWay
  <2>2. ~closed => Len(got) + Len(queue) = Total
    BY <1>0, <1>2, <1>7, <1>n, <2>1 DEF FlowInv
  <2>3. ~closed => Len(got) + 1 + Len(queue') = Total
    BY <1>q, <1>n, <2>2
  <2> QED
    BY <1>1, <1>8, <2>1, <2>3 DEF FlowInv
<1>14. EndInv'
  <2>1. pc[Worker] # "in_terminal" /\ pc'[Worker] # "in_terminal"
    BY <1>1, <1>2, <1>3
  <2> QED
    BY <1>0, <1>1, <1>3, <1>8, <2>1, EndFrame
<1>15. TaskInv'
  BY <1>0, <1>1, <1>2, <1>3, <1>8 DEF TaskInv
<1>16. (operator = "delay" => inside = IF pc[Worker] \in {"in_next", "in_terminal"} THEN {Worker} ELSE {})'
  BY <1>1, <1>2, <1>3 DEF DelayInv
<1> QED
  BY <1>0, <1>1, <1>4, <1>5, <1>6, <1>9, <1>12, <1>13, <1>14, <1>15, <1>16 DEF DelayInv, D!Emission, Types

LEMMA DeliverEnterKeeps ==
  ASSUME CommonTypeOK, SourceInv, DelayInv, Delays, D!DeliverEnter, UNCHANGED operator
  PROVE  CommonTypeOK' /\ SourceInv' /\ DelayInv'
<1>0. Types /\ QueueInv /\ TaskInv /\ HandInv /\ FlowInv /\ EndInv
  BY TypesFollow
<1>n. Len(queue) \in Nat /\ Len(at) \in Nat /\ Len(got) \in Nat
  BY <1>0, Lengths
<1>1. /\ pc[Worker] \in {"next", "completed", "error"}
      /\ UNCHANGED <<now, task, mutex, val, at, finished, closed, disposed, user, operator, queue, is_active>>
  BY DEF D!DeliverEnter, D!downstream, D!own, D!BeginNext, D!BeginTerminal
<1>2. ASSUME NEW p \in {"again", "in_next", "in_terminal"}, pc' = [pc EXCEPT !["worker"] = p]
      PROVE  pc'[Source] = pc[Source] /\ pc'[Worker] = p /\ pc' \in [Threads -> Places] /\ SourceInv'
             /\ (Ended' <=> Ended) /\ (Passes' <=> Passes) /\ TaskInv' /\ QueueInv' /\ Total' = Total
  <2>1. pc'[Source] = pc[Source] /\ pc'[Worker] = p /\ pc' \in [Threads -> Places]
    BY <1>0, <1>2 DEF Types, Places
  <2>2. SourceInv'
    BY <1>1, <2>1, SourceFrame
  <2>3. (Ended' <=> Ended) /\ (Passes' <=> Passes)
    BY <1>1, <2>1 DEF Ended, Passes
  <2>4. TaskInv'
    BY <1>0, <1>1, <2>1, <2>3 DEF TaskInv
  <2>5. QueueInv' /\ Total' = Total
    BY <1>0, <1>1, <2>1, <2>3, QueueFrame
  <2> QED
    BY <2>1, <2>2, <2>3, <2>4, <2>5
<1>3. CASE closed
  <2>1. pc' = [pc EXCEPT !["worker"] = "again"] /\ UNCHANGED <<ended, inside, got>>
    BY <1>3 DEF D!DeliverEnter, D!downstream
  <2>2. pc'[Source] = pc[Source] /\ pc'[Worker] = "again" /\ SourceInv' /\ (Ended' <=> Ended) /\ TaskInv' /\ QueueInv'
    BY <1>2, <2>1
  <2>3. CommonTypeOK'
    BY <1>1, <2>1 DEF CommonTypeOK
  <2>4. HandInv'
    <3>1. now' \in Times /\ now <= now'
      BY <1>0, <1>1 DEF Types
    <3> QED
      BY <1>0, <1>1, <2>1, <2>2, <3>1, HandFrame
  <2>5. FlowInv'
    BY <1>1, <1>3 DEF FlowInv
  <2>6. EndInv'
    BY <1>0, <1>1, <1>3, <2>1, <2>2, EndFrame
  <2>7. (operator = "delay" => inside = IF pc[Worker] \in {"in_next", "in_terminal"} THEN {Worker} ELSE {})'
    BY <1>1, <2>1, <2>2 DEF DelayInv
  <2> QED
    BY <1>0, <1>1, <2>2, <2>3, <2>4, <2>5, <2>6, <2>7 DEF DelayInv, D!Emission, Types
<1>4. CASE ~closed /\ pc[Worker] = "next"
  <2>1. /\ pc' = [pc EXCEPT !["worker"] = "in_next"] /\ inside' = inside \union {Worker}
        /\ got' = Append(got, val[Worker]) /\ UNCHANGED ended
    BY <1>4 DEF D!DeliverEnter, D!BeginNext
  <2>2. pc'[Source] = pc[Source] /\ pc'[Worker] = "in_next" /\ SourceInv' /\ (Ended' <=> Ended) /\ TaskInv' /\ QueueInv'
        /\ (Passes' <=> Passes) /\ Total' = Total
    BY <1>2, <2>1
  <2>3. val[Worker] = Len(got) + 1 /\ Len(got) < Len(at) /\ now >= Due(at, Len(got) + 1)
    BY <1>0, <1>4 DEF HandInv
  <2>4. Len(at) <= MaxEmits
    BY DEF CommonTypeOK
  <2>5. /\ got' \in Seq(1..MaxEmits) /\ Len(got') = Len(got) + 1 /\ got'[Len(got) + 1] = Len(got) + 1
        /\ \A i \in 1..Len(got) : got'[i] = got[i]
    <3>1. val[Worker] \in 1..MaxEmits
      BY <1>0, <1>n, <2>3, <2>4 DEF Types
    <3> QED
      BY <1>0, <2>1, <2>3, <3>1 DEF Types
  <2>6. CommonTypeOK'
    BY <1>1, <2>1, <2>5 DEF CommonTypeOK
  <2>7. HandInv'
    <3>1. Len(got') <= Len(at)
      BY <1>n, <2>3, <2>5
    <3>2. ASSUME NEW i \in 1..Len(got') PROVE got'[i] = i /\ now >= Due(at, i)
      <4>1. CASE i = Len(got) + 1
        BY <2>3, <2>5, <4>1
      <4>2. CASE i \in 1..Len(got)
        BY <1>0, <2>5, <4>2 DEF HandInv
      <4> QED
        BY <1>n, <2>5, <4>1, <4>2
    <3> QED
      BY <1>1, <2>2, <3>1, <3>2 DEF HandInv
  <2>8. FlowInv'
    <3>1. OnItsWay = 1 /\ OnItsWay' = 0
      BY <1>4, <2>2 DEF OnItsWay
    <3>2. Passes' /\ pc'[Source] # "error" <=> Passes /\ pc[Source] # "error"
      BY <2>2
    <3> QED
      BY <1>0, <1>1, <1>n, <2>2, <2>5, <3>1, <3>2 DEF FlowInv
  <2>9. EndInv'
    <3>1. ~(ended = "completed" \/ (ended = "error" /\ operator = "delay"))
      BY <1>0, <1>n, <2>3 DEF EndInv
    <3> QED
      BY <1>0, <1>1, <1>4, <2>1, <2>2, <3>1 DEF EndInv
  <2>10. (operator = "delay" => inside = IF pc[Worker] \in {"in_next", "in_terminal"} THEN {Worker} ELSE {})'
    BY <1>1, <1>4, <2>1, <2>2 DEF DelayInv
  <2> QED
    BY <1>0, <1>1, <2>2, <2>6, <2>7, <2>8, <2>9, <2>10 DEF DelayInv, D!Emission, Types
<1>5. CASE ~closed /\ pc[Worker] \in {"completed", "error"}
  <2>1. /\ pc' = [pc EXCEPT !["worker"] = "in_terminal"] /\ inside' = inside \union {Worker}
        /\ ended' = pc[Worker] /\ UNCHANGED got
    BY <1>5 DEF D!DeliverEnter, D!BeginTerminal
  <2>2. pc'[Source] = pc[Source] /\ pc'[Worker] = "in_terminal" /\ SourceInv' /\ (Ended' <=> Ended) /\ TaskInv' /\ QueueInv'
        /\ (Passes' <=> Passes) /\ Total' = Total
    BY <1>2, <2>1
  <2>3. finished = pc[Worker] /\ Ended /\ queue = <<>> /\ ~Passes
    BY <1>0, <1>5 DEF HandInv, Ended
  <2>4. CommonTypeOK'
    BY <1>1, <1>5, <2>1 DEF CommonTypeOK
  <2>5. HandInv'
    <3>1. now' \in Times /\ now <= now'
      BY <1>0, <1>1 DEF Types
    <3> QED
      BY <1>0, <1>1, <2>1, <2>2, <3>1, HandFrame
  <2>6. OnItsWay = 1 /\ OnItsWay' = 1
    BY <1>5, <2>2 DEF OnItsWay
  <2>7. Len(got) = Len(at)
    <3>1. Len(got) + OnItsWay + Len(queue) = Total
      BY <1>0, <1>5, <2>3 DEF FlowInv
    <3>2. Len(queue) = 0 /\ Total = Len(at) + 1
      BY <2>3 DEF Total
    <3> QED
      BY <1>n, <2>6, <3>1, <3>2
  <2>8. FlowInv'
    BY <1>0, <1>1, <2>1, <2>2, <2>3, <2>6, FlowFrame
  <2>9. EndInv'
    BY <1>1, <2>1, <2>2, <2>3, <2>7 DEF EndInv
  <2>10. (operator = "delay" => inside = IF pc[Worker] \in {"in_next", "in_terminal"} THEN {Worker} ELSE {})'
    BY <1>1, <1>5, <2>1, <2>2 DEF DelayInv
  <2> QED
    BY <1>0, <1>1, <2>1, <2>2, <2>4, <2>5, <2>8, <2>9, <2>10 DEF DelayInv, D!Emission, Types
<1> QED
  BY <1>1, <1>3, <1>4, <1>5

LEMMA DeliverLeaveKeeps ==
  ASSUME CommonTypeOK, SourceInv, DelayInv, Delays, D!DeliverLeave, UNCHANGED operator
  PROVE  CommonTypeOK' /\ SourceInv' /\ DelayInv'
<1>0. Types /\ QueueInv /\ TaskInv /\ HandInv /\ FlowInv /\ EndInv
  BY TypesFollow
<1>1. /\ pc[Worker] \in {"in_next", "in_terminal"} /\ pc' = [pc EXCEPT !["worker"] = "again"]
      /\ inside' = inside \ {Worker}
      /\ closed' = (closed \/ pc[Worker] = "in_terminal") /\ disposed' = (disposed \/ pc[Worker] = "in_terminal")
      /\ UNCHANGED <<now, ended, got, task, val, at, finished, mutex, user, operator, queue, is_active>>
  BY DEF D!DeliverLeave, D!EndNext, D!EndTerminal, D!own, CommonTypeOK
<1>2. pc'[Source] = pc[Source] /\ pc'[Worker] = "again" /\ pc' \in [Threads -> Places] /\ (closed => closed')
  BY <1>0, <1>1 DEF Types, Places
<1>3. CommonTypeOK'
  BY <1>1 DEF CommonTypeOK
<1>4. SourceInv'
  BY <1>1, <1>2, SourceFrame
<1>5. (Ended' <=> Ended) /\ (Passes' <=> Passes)
  BY <1>1, <1>2 DEF Ended, Passes
<1>6. QueueInv' /\ Total' = Total
  BY <1>0, <1>1, <1>2, <1>5, QueueFrame
<1>7. HandInv'
  <2>1. now' \in Times /\ now <= now'
    BY <1>0, <1>1 DEF Types
  <2> QED
    BY <1>0, <1>1, <1>2, <2>1, HandFrame
<1>8. FlowInv'
  <2>1. CASE pc[Worker] = "in_terminal"
    BY <1>1, <2>1 DEF FlowInv
  <2>2. CASE pc[Worker] = "in_next"
    <3>1. OnItsWay' = OnItsWay
      BY <1>2, <2>2 DEF OnItsWay
    <3> QED
      BY <1>0, <1>1, <1>2, <1>5, <1>6, <3>1, FlowFrame
  <2> QED
    BY <1>1, <2>1, <2>2
<1>9. EndInv'
  BY <1>0, <1>1, <1>2, <1>5, EndFrame
<1>10. TaskInv'
  BY <1>0, <1>1, <1>2, <1>5 DEF TaskInv
<1>11. (operator = "delay" => inside = IF pc[Worker] \in {"in_next", "in_terminal"} THEN {Worker} ELSE {})'
  BY <1>1, <1>2 DEF DelayInv
<1> QED
  BY <1>0, <1>1, <1>2, <1>3, <1>4, <1>6, <1>7, <1>8, <1>9, <1>10, <1>11 DEF DelayInv, D!Emission, Types

LEMMA DelayKeeps ==
  ASSUME CommonTypeOK, SourceInv, DelayInv, Delays, UNCHANGED operator, D!SourceStep \/ D!WorkerStep
  PROVE  CommonTypeOK' /\ SourceInv' /\ DelayInv'
BY EmplaceKeeps, ScheduleKeeps, ErrorEnterKeeps, ErrorLeaveKeeps, ClearKeeps, DrainPauseKeeps, DrainNextKeeps,
   DeliverEnterKeeps, DeliverLeaveKeeps DEF D!SourceStep, D!WorkerStep

-----------------------------------------------------------------------------
(* The steps of debounce.                                                    *)

Values ==
  /\ pc \in [Threads -> Places] /\ at \in Seq(Times) /\ Len(at) \in Nat /\ now \in Times
  /\ got \in Seq(1..MaxEmits) /\ Len(got) \in Nat /\ val \in [Threads -> 0..MaxEmits]

LEMMA ValuesFollow ==
  ASSUME CommonTypeOK, SourceInv, DebounceInv
  PROVE  Values /\ LockInv /\ WaitInv /\ QuietInv
  BY DEF CommonTypeOK, SourceInv, DebounceInv, Values

LEMMA DueType == ASSUME Values, NEW v \in 1..Len(at) PROVE Due(at, v) \in Times /\ at[v] \in Times
  BY DEF Values, Due, Capped

LEMMA QuietStays ==
  ASSUME Values, UNCHANGED at, now' \in Times, now <= now', NEW v \in 1..Len(at), Quiet(v)
  PROVE  \/ v = Len(at') /\ now' >= Due(at', v)
         \/ v < Len(at') /\ at'[v + 1] >= Due(at', v)
  BY DueType DEF Quiet, Values

LEMMA QuietGrows ==
  ASSUME Values, at' = Append(at, now), NEW v \in 1..Len(at), Quiet(v)
  PROVE  v < Len(at') /\ at'[v + 1] >= Due(at', v)
<1>1. Len(at') = Len(at) + 1 /\ at'[Len(at) + 1] = now /\ \A i \in 1..Len(at) : at'[i] = at[i]
  BY DEF Values
<1>2. Due(at', v) = Due(at, v) /\ Due(at, v) \in Times
  BY <1>1, DueType DEF Due
<1>3. CASE v = Len(at) /\ now >= Due(at, v)
  BY <1>1, <1>2, <1>3 DEF Values
<1>4. CASE v < Len(at) /\ at[v + 1] >= Due(at, v)
  <2>1. v + 1 \in 1..Len(at)
    BY <1>4 DEF Values
  <2> QED
    BY <1>1, <1>2, <1>4, <2>1 DEF Values
<1> QED
  BY <1>3, <1>4 DEF Quiet

LEMMA QuietFrame ==
  ASSUME Values, QuietInv, UNCHANGED <<got, at>>, now' \in Times, now <= now',
         finished = "completed" => finished' = "completed"
  PROVE  QuietInv'
<1>1. ASSUME NEW i \in 1..Len(got), Quiet(got[i]) PROVE Quiet(got[i])'
  <2>1. got[i] \in 1..Len(at) /\ got'[i] = got[i]
    BY DEF QuietInv
  <2> QED
    BY <1>1, <2>1, QuietStays DEF Quiet
<1> QED
  BY <1>1 DEF QuietInv

LEMMA WaitFrame ==
  ASSUME Values, WaitInv, UNCHANGED <<got, at, m_value_to_be_emitted, m_time_when_value_should_be_emitted>>,
         now' \in Times, now <= now',
         pc'[Worker] = "next" => pc[Worker] = "next" /\ val'[Worker] = val[Worker],
         pc[Source] \in Flushing \union {"done"} => pc'[Source] \in Flushing \union {"done"},
         pc'[Source] # "flush"
  PROVE  WaitInv'
<1>1. ASSUME pc'[Worker] = "next" PROVE Quiet(val[Worker])' /\ val[Worker] \in 1..Len(at) /\ val'[Worker] = val[Worker]
  <2>1. val[Worker] \in 1..Len(at) /\ Quiet(val[Worker]) /\ val'[Worker] = val[Worker]
    BY <1>1 DEF WaitInv
  <2> QED
    BY <2>1, QuietStays DEF Quiet
<1> QED
  BY <1>1 DEF WaitInv

LEMMA DebounceShared ==
  ASSUME CommonTypeOK, SourceInv, DebounceInv, SharedStep
  PROVE  DebounceInv'
<1> USE DEF downstream, threads, ofDebounce
<1>0. Values /\ LockInv /\ WaitInv /\ QuietInv
  BY ValuesFollow
<1>1. UNCHANGED <<m_value_to_be_emitted, m_time_when_value_should_be_emitted, at, got, ended, inside, mutex>>
  BY DEF SharedStep, Shared, SourceNext, SourceTerminal, RunTask, Tick, UserDispose, UserDisposeUpstream
<1>2. /\ val'[Worker] = val[Worker] /\ now' \in Times /\ now <= now' /\ (closed => closed')
  BY <1>0 DEF SharedStep, Shared, SourceNext, SourceTerminal, RunTask, Tick, UserDispose, UserDisposeUpstream, Values
<1>3. \/ UNCHANGED <<pc, finished, val>>
      \/ UNCHANGED finished /\ pc[Source] = "idle" /\ pc' = [pc EXCEPT !["source"] = "next"]
      \/ /\ pc[Source] = "idle" /\ finished = "no" /\ finished' \in {"completed", "error"}
         /\ pc' = [pc EXCEPT !["source"] = finished']
      \/ UNCHANGED finished /\ pc[Worker] = "idle" /\ pc' = [pc EXCEPT !["worker"] = "run"]
  BY DEF SharedStep, Shared, SourceNext, SourceTerminal, RunTask, Tick, UserDispose, UserDisposeUpstream, Listening
<1>4. LockInv'
  BY <1>0, <1>1, <1>2, <1>3 DEF LockInv, Values, Flushing
<1>5. QuietInv'
  <2>1. finished = "completed" => finished' = "completed"
    BY <1>3
  <2> QED
    BY <1>0, <1>1, <1>2, <2>1, QuietFrame
<1>6. WaitInv'
  <2>1. CASE UNCHANGED <<pc, finished, val>>
    <3>1. CASE pc[Worker] = "next"
      <4>1. val[Worker] \in 1..Len(at) /\ Quiet(val[Worker])
        BY <1>0, <3>1 DEF WaitInv
      <4>2. Quiet(val[Worker])'
        BY <1>0, <1>1, <1>2, <2>1, <4>1, QuietStays DEF Quiet
      <4> QED
        BY <1>0, <1>1, <2>1, <4>2 DEF WaitInv
    <3>2. CASE pc[Worker] # "next"
      BY <1>0, <1>1, <2>1, <3>2 DEF WaitInv
    <3> QED
      BY <3>1, <3>2
  <2>2. CASE pc[Source] = "idle" /\ pc' = [pc EXCEPT !["source"] = "next"]
    BY <1>0, <1>1, <1>2, <2>2, WaitFrame DEF Values, Flushing
  <2>3. CASE pc[Source] = "idle" /\ finished' \in {"completed", "error"} /\ pc' = [pc EXCEPT !["source"] = finished']
    BY <1>0, <1>1, <1>2, <2>3, WaitFrame DEF Values, Flushing
  <2>4. CASE pc[Worker] = "idle" /\ pc' = [pc EXCEPT !["worker"] = "run"] /\ UNCHANGED finished
    <3>1. pc'[Source] = pc[Source] /\ pc'[Worker] = "run" /\ pc[Worker] # "next" /\ UNCHANGED val
      BY <1>0, <2>4 DEF Values, SharedStep, Shared, SourceNext, SourceTerminal, RunTask, Tick, UserDispose, UserDisposeUpstream
    <3> QED
      BY <1>0, <1>1, <2>4, <3>1 DEF WaitInv
  <2> QED
    BY <1>3, <2>1, <2>2, <2>3, <2>4
<1> QED
  BY <1>4, <1>5, <1>6 DEF DebounceInv

LEMMA DebounceEmplace ==
  ASSUME CommonTypeOK, SourceInv, DebounceInv, B!Emplace
  PROVE  CommonTypeOK' /\ SourceInv' /\ DebounceInv'
<1>0. Values /\ LockInv /\ WaitInv /\ QuietInv
  BY ValuesFollow
<1>1. /\ pc[Source] = "next" /\ at' = Append(at, now) /\ m_value_to_be_emitted' = val[Source]
      /\ m_time_when_value_should_be_emitted' = Capped(now + Period)
      /\ task' \in {task, Capped(now + Period)} /\ pc' = [pc EXCEPT !["source"] = "idle"]
      /\ UNCHANGED <<now, mutex, closed, ended, inside, got, val, finished, disposed, user>>
  BY DEF B!Emplace, B!downstream, B!Capped, Capped
<1>2. finished = "no" /\ val[Source] = Len(at) + 1 /\ Len(at) < MaxEmits
  BY <1>1 DEF SourceInv
<1>3. Capped(now + Period) \in Times
  BY <1>0 DEF Values, Capped
<1>4. /\ Len(at') = Len(at) + 1 /\ at'[Len(at) + 1] = now /\ at' \in Seq(Times)
      /\ \A i \in 1..Len(at) : at'[i] = at[i]
  BY <1>0, <1>1 DEF Values
<1>5. pc'[Source] = "idle" /\ pc'[Worker] = pc[Worker] /\ pc'[Fallback] = pc[Fallback] /\ pc' \in [Threads -> Places]
  BY <1>0, <1>1 DEF Values, Places
<1>6. CommonTypeOK'
  BY <1>0, <1>1, <1>2, <1>3, <1>4 DEF CommonTypeOK, Values
<1>7. SourceInv'
  <2>1. \A i \in 1..Len(at') : at'[i] <= now
    <3>1. now <= now
      BY <1>0 DEF Values
    <3>2. \A i \in 1..Len(at') : i = Len(at) + 1 \/ i \in 1..Len(at)
      BY <1>0, <1>4 DEF Values
    <3> QED
      BY <1>4, <3>1, <3>2 DEF SourceInv
  <2> QED
    BY <1>1, <1>2, <1>5, <2>1 DEF SourceInv
<1>8. LockInv'
  BY <1>0, <1>1, <1>5 DEF LockInv, Values, Flushing
<1>9. QuietInv'
  <2>1. ASSUME NEW i \in 1..Len(got)
        PROVE  got[i] \in 1..Len(at') /\ got[i] < Len(at') /\ at'[got[i] + 1] >= Due(at', got[i])
    <3>1. got[i] \in 1..Len(at) /\ Quiet(got[i])
      BY <1>0, <1>2 DEF QuietInv
    <3>2. got[i] < Len(at') /\ at'[got[i] + 1] >= Due(at', got[i])
      BY <1>0, <1>1, <3>1, QuietGrows
    <3> QED
      BY <1>0, <1>4, <3>1, <3>2 DEF Values
  <2> QED
    BY <1>0, <1>1, <2>1 DEF QuietInv, Quiet
<1>10. WaitInv'
  <2>1. /\ m_value_to_be_emitted' \in 0..MaxEmits /\ m_value_to_be_emitted' = Len(at')
        /\ m_time_when_value_should_be_emitted' = Due(at', Len(at'))
    BY <1>0, <1>1, <1>2, <1>4 DEF Due, Values
  <2>2. \A i \in 1..Len(got') : got'[i] < Len(at')
    BY <1>0, <1>1, <1>4 DEF QuietInv, Values
  <2>3. ASSUME pc'[Worker] = "next"
        PROVE  /\ val'[Worker] < Len(at') /\ val'[Worker] \in 1..Len(at') /\ Quiet(val[Worker])'
               /\ \A i \in 1..Len(got') : got'[i] < val'[Worker]
    <3>1. /\ val[Worker] \in 1..Len(at) /\ Quiet(val[Worker])
          /\ \A i \in 1..Len(got) : got[i] < val[Worker]
      BY <1>0, <1>1, <1>5, <2>3 DEF WaitInv, Flushing
    <3>2. val[Worker] < Len(at') /\ at'[val[Worker] + 1] >= Due(at', val[Worker])
      BY <1>0, <1>1, <3>1, QuietGrows
    <3>3. val[Worker] \in 1..Len(at')
      BY <1>0, <1>4, <3>1 DEF Values
    <3> QED
      BY <1>1, <3>1, <3>2, <3>3 DEF Quiet
  <2> QED
    BY <1>3, <1>1, <1>5, <2>1, <2>2, <2>3 DEF WaitInv
<1> QED
  BY <1>6, <1>7, <1>8, <1>9, <1>10 DEF DebounceInv

\* The source, once it has the mutex.
LEMMA DebounceCompletedLock ==
  ASSUME CommonTypeOK, SourceInv, DebounceInv, B!CompletedLock
  PROVE  CommonTypeOK' /\ SourceInv' /\ DebounceInv'
<1>0. Values /\ LockInv /\ WaitInv /\ QuietInv
  BY ValuesFollow
<1>1. /\ pc[Source] = "completed" /\ mutex = NoOne /\ mutex' = Source
      /\ val' = [val EXCEPT !["source"] = m_value_to_be_emitted] /\ m_value_to_be_emitted' = NoValue
      /\ pc' = [pc EXCEPT !["source"] = IF m_value_to_be_emitted = NoValue THEN "complete" ELSE "flush"]
      /\ UNCHANGED <<now, task, closed, ended, inside, got, at, finished, disposed, user, m_time_when_value_should_be_emitted>>
  BY DEF B!CompletedLock, B!downstream
<1>2. /\ pc'[Source] = (IF m_value_to_be_emitted = NoValue THEN "complete" ELSE "flush")
      /\ pc'[Worker] = pc[Worker] /\ pc'[Fallback] = pc[Fallback] /\ pc' \in [Threads -> Places]
      /\ val'[Worker] = val[Worker] /\ val'[Source] = m_value_to_be_emitted /\ val' \in [Threads -> 0..MaxEmits]
  BY <1>0, <1>1 DEF Values, Places, WaitInv
<1>3. finished = "completed"
  BY <1>1 DEF SourceInv
<1>4. CommonTypeOK'
  BY <1>1, <1>2 DEF CommonTypeOK
<1>5. SourceInv'
  BY <1>1, <1>2, SourceFrame
<1>6. LockInv'
  BY <1>0, <1>1, <1>2, <1>3 DEF LockInv, Flushing
<1>7. QuietInv'
  <2>1. now' \in Times /\ now <= now'
    BY <1>0, <1>1 DEF Values
  <2> QED
    BY <1>0, <1>1, <2>1, QuietFrame
<1>8. WaitInv'
  <2>1. ASSUME pc'[Worker] = "next" PROVE val[Worker] \in 1..Len(at) /\ Quiet(val[Worker]) /\ Quiet(val[Worker])'
    <3>1. val[Worker] \in 1..Len(at) /\ Quiet(val[Worker])
      BY <1>0, <1>2, <2>1 DEF WaitInv
    <3> QED
      BY <1>1, <1>2, <3>1 DEF Quiet, Due
  <2>2. ASSUME pc'[Source] = "flush"
        PROVE  val'[Source] = Len(at) /\ Len(at) > 0 /\ \A i \in 1..Len(got) : got[i] < Len(at)
    <3>1. m_value_to_be_emitted # NoValue /\ m_value_to_be_emitted \in 0..MaxEmits
      BY <1>0, <1>2, <2>2 DEF WaitInv
    <3>2. m_value_to_be_emitted = Len(at) /\ \A i \in 1..Len(got) : got[i] < Len(at)
      BY <1>0, <3>1 DEF WaitInv
    <3> QED
      BY <1>0, <1>2, <3>1, <3>2 DEF Values
  <2> QED
    BY <1>0, <1>1, <1>2, <1>3, <2>1, <2>2 DEF WaitInv, Flushing
<1> QED
  BY <1>4, <1>5, <1>6, <1>7, <1>8 DEF DebounceInv

LEMMA DebounceFlushEnter ==
  ASSUME CommonTypeOK, SourceInv, DebounceInv, B!FlushEnter
  PROVE  CommonTypeOK' /\ SourceInv' /\ DebounceInv'
<1>0. Values /\ LockInv /\ WaitInv /\ QuietInv
  BY ValuesFollow
<1>1. /\ pc[Source] = "flush"
      /\ \/ closed /\ pc' = [pc EXCEPT !["source"] = "complete"] /\ UNCHANGED <<got, inside>>
         \/ /\ ~closed /\ pc' = [pc EXCEPT !["source"] = "in_flush"]
            /\ inside' = inside \union {Source} /\ got' = Append(got, val[Source])
      /\ UNCHANGED <<now, task, mutex, val, at, finished, disposed, user, closed, ended,
                     m_value_to_be_emitted, m_time_when_value_should_be_emitted>>
  BY DEF B!FlushEnter, B!downstream, B!own, B!BeginNext
<1>2. /\ pc'[Source] \in {"complete", "in_flush"} /\ (pc'[Source] = "complete" <=> closed)
      /\ pc'[Worker] = pc[Worker] /\ pc'[Fallback] = pc[Fallback] /\ pc' \in [Threads -> Places]
  BY <1>0, <1>1 DEF Values, Places
<1>3. /\ val[Source] = Len(at) /\ Len(at) \in 1..MaxEmits /\ finished = "completed" /\ m_value_to_be_emitted = NoValue
      /\ \A i \in 1..Len(got) : got[i] < Len(at)
  BY <1>0, <1>1 DEF WaitInv, Values, CommonTypeOK
<1>4. got' \in Seq(1..MaxEmits)
  <2>1. val[Source] \in 1..MaxEmits /\ got \in Seq(1..MaxEmits)
    BY <1>0, <1>3 DEF Values
  <2> QED
    BY <1>1, <2>1
<1>5. CommonTypeOK'
  BY <1>1, <1>4 DEF CommonTypeOK
<1>6. SourceInv'
  BY <1>1, <1>2, SourceFrame
<1>7. LockInv'
  BY <1>0, <1>1, <1>2 DEF LockInv, Flushing
<1>8. QuietInv'
  <2>0. now' \in Times /\ now <= now'
    BY <1>0, <1>1 DEF Values
  <2>1. CASE UNCHANGED got
    BY <1>0, <1>1, <2>0, <2>1, QuietFrame
  <2>2. CASE got' = Append(got, val[Source])
    <3>1. /\ Len(got') = Len(got) + 1 /\ got'[Len(got) + 1] = Len(at)
          /\ \A i \in 1..Len(got) : got'[i] = got[i]
      BY <1>0, <1>3, <2>2 DEF Values
    <3>2. ASSUME NEW i \in 1..Len(got')
          PROVE  got'[i] \in 1..Len(at) /\ (Quiet(got[i])' \/ (got'[i] = Len(at) /\ finished = "completed"))
      <4>1. CASE i = Len(got) + 1
        BY <1>3, <3>1, <4>1
      <4>2. CASE i \in 1..Len(got)
        <5>1. got[i] \in 1..Len(at) /\ (Quiet(got[i]) \/ (got[i] = Len(at) /\ finished = "completed"))
          BY <1>0, <4>2 DEF QuietInv
        <5> QED
          BY <1>1, <3>1, <4>2, <5>1 DEF Quiet, Due
      <4> QED
        BY <1>0, <3>1, <4>1, <4>2 DEF Values
    <3>3. \A i \in 1..Len(got') - 1 : got'[i] < got'[i + 1]
      <4>1. ASSUME NEW i \in 1..Len(got') - 1 PROVE i \in 1..Len(got) /\ (i # Len(got) => i \in 1..Len(got) - 1 /\ i + 1 \in 1..Len(got))
        BY <1>0, <3>1 DEF Values
      <4> QED
        BY <1>0, <1>3, <3>1, <4>1 DEF QuietInv
    <3> QED
      BY <1>1, <3>2, <3>3 DEF QuietInv
  <2> QED
    BY <1>1, <2>1, <2>2
<1>9. WaitInv'
  <2>1. ASSUME pc'[Worker] = "next" PROVE val[Worker] \in 1..Len(at) /\ Quiet(val[Worker])'
    <3>1. val[Worker] \in 1..Len(at) /\ Quiet(val[Worker])
      BY <1>0, <1>2, <2>1 DEF WaitInv
    <3> QED
      BY <1>1, <3>1 DEF Quiet, Due
  <2> QED
    BY <1>0, <1>1, <1>2, <1>3, <2>1 DEF WaitInv, Flushing
<1> QED
  BY <1>5, <1>6, <1>7, <1>8, <1>9 DEF DebounceInv

\* The end: from the flush, or from on_error, to the unlock.
LEMMA DebounceTerminal ==
  ASSUME CommonTypeOK, SourceInv, DebounceInv,
         B!FlushLeave \/ B!ErrorLock \/ B!TerminalEnter \/ B!TerminalLeave \/ B!Unlock
  PROVE  CommonTypeOK' /\ SourceInv' /\ DebounceInv'
<1>0. Values /\ LockInv /\ WaitInv /\ QuietInv
  BY ValuesFollow
<1>1. /\ UNCHANGED <<now, task, got, val, at, finished, user, m_value_to_be_emitted, m_time_when_value_should_be_emitted>>
      /\ (closed => closed')
      /\ \/ /\ pc[Source] = "in_flush" /\ pc' = [pc EXCEPT !["source"] = "complete"]
            /\ inside' = inside \ {Source} /\ UNCHANGED <<mutex, closed, ended, disposed>>
         \/ /\ pc[Source] = "error" /\ pc' = [pc EXCEPT !["source"] = "complete"]
            /\ mutex = NoOne /\ mutex' = Source /\ UNCHANGED <<inside, closed, ended, disposed>>
         \/ /\ pc[Source] = "complete" /\ closed /\ pc' = [pc EXCEPT !["source"] = "unlock"]
            /\ UNCHANGED <<mutex, inside, closed, ended, disposed>>
         \/ /\ pc[Source] = "complete" /\ ~closed /\ pc' = [pc EXCEPT !["source"] = "in_terminal"]
            /\ inside' = inside \union {Source} /\ ended' = finished /\ UNCHANGED <<mutex, closed, disposed>>
         \/ /\ pc[Source] = "in_terminal" /\ pc' = [pc EXCEPT !["source"] = "unlock"]
            /\ inside' = inside \ {Source} /\ closed' = TRUE /\ disposed' = TRUE /\ UNCHANGED <<mutex, ended>>
         \/ /\ pc[Source] = "unlock" /\ pc' = [pc EXCEPT !["source"] = "done"]
            /\ mutex' = NoOne /\ UNCHANGED <<inside, closed, ended, disposed>>
  BY DEF B!FlushLeave, B!ErrorLock, B!TerminalEnter, B!TerminalLeave, B!Unlock, B!downstream, B!own, B!BeginNext,
     B!BeginTerminal, B!EndNext, B!EndTerminal
<1>2. /\ pc'[Source] \in {"complete", "unlock", "in_terminal", "done"} /\ pc'[Worker] = pc[Worker]
      /\ pc' \in [Threads -> Places] /\ pc'[Fallback] = pc[Fallback]
  BY <1>0, <1>1 DEF Values, Places
<1>3. CommonTypeOK'
  <2>1. inside' \subseteq Threads /\ mutex' \in Threads \union {NoOne} /\ closed' \in BOOLEAN
        /\ ended' \in {"no", "completed", "error"} /\ disposed' \in BOOLEAN
    BY <1>1 DEF CommonTypeOK
  <2> QED
    BY <1>1, <2>1 DEF CommonTypeOK
<1>4. SourceInv'
  BY <1>1, <1>2, SourceFrame
<1>5. LockInv'
  <2>1. finished # "no"
    BY <1>0, <1>1 DEF LockInv, SourceInv, Flushing
  <2>2. CASE pc[Source] = "in_flush"
    BY <1>0, <1>1, <1>2, <2>1, <2>2 DEF LockInv, Flushing
  <2>3. CASE pc[Source] = "error"
    BY <1>0, <1>1, <1>2, <2>1, <2>3 DEF LockInv, Flushing
  <2>4. CASE pc[Source] = "complete"
    BY <1>0, <1>1, <1>2, <2>1, <2>4 DEF LockInv, Flushing
  <2>5. CASE pc[Source] = "in_terminal"
    BY <1>0, <1>1, <1>2, <2>1, <2>5 DEF LockInv, Flushing
  <2>6. CASE pc[Source] = "unlock"
    BY <1>0, <1>1, <1>2, <2>1, <2>6 DEF LockInv, Flushing
  <2> QED
    BY <1>1, <2>2, <2>3, <2>4, <2>5, <2>6
<1>6. now' \in Times /\ now <= now'
  BY <1>0, <1>1 DEF Values
<1>7. QuietInv'
  BY <1>0, <1>1, <1>6, QuietFrame
<1>8. WaitInv'
  <2>1. pc'[Source] # "flush" /\ (pc[Source] \in Flushing \union {"done"} => pc'[Source] \in Flushing \union {"done"})
    BY <1>2 DEF Flushing
  <2> QED
    BY <1>0, <1>1, <1>2, <1>6, <2>1, WaitFrame
<1> QED
  BY <1>3, <1>4, <1>5, <1>7, <1>8 DEF DebounceInv

\* The task that finds nothing to do, or a later time point.
LEMMA DebounceExtractPause ==
  ASSUME CommonTypeOK, SourceInv, DebounceInv, B!ExtractNothing \/ B!ExtractTime
  PROVE  CommonTypeOK' /\ SourceInv' /\ DebounceInv'
<1>0. Values /\ LockInv /\ WaitInv /\ QuietInv
  BY ValuesFollow
<1>1. /\ pc[Worker] = "run" /\ pc' = [pc EXCEPT !["worker"] = "idle"]
      /\ task' \in {task, m_time_when_value_should_be_emitted}
      /\ UNCHANGED <<now, mutex, closed, ended, inside, got, val, at, finished, disposed, user,
                     m_value_to_be_emitted, m_time_when_value_should_be_emitted>>
  BY DEF B!ExtractNothing, B!ExtractTime, B!downstream, B!own
<1>2. pc'[Source] = pc[Source] /\ pc'[Worker] = "idle" /\ pc'[Fallback] = pc[Fallback] /\ pc' \in [Threads -> Places]
  BY <1>0, <1>1 DEF Values, Places
<1>3. CommonTypeOK'
  BY <1>0, <1>1 DEF CommonTypeOK, WaitInv
<1>4. SourceInv'
  BY <1>1, <1>2, SourceFrame
<1>5. LockInv'
  BY <1>0, <1>1, <1>2 DEF LockInv, Flushing
<1>6. now' \in Times /\ now <= now'
  BY <1>0, <1>1 DEF Values
<1>7. QuietInv'
  BY <1>0, <1>1, <1>6, QuietFrame
<1>8. WaitInv'
  BY <1>0, <1>1, <1>2 DEF WaitInv
<1> QED
  BY <1>3, <1>4, <1>5, <1>7, <1>8 DEF DebounceInv

LEMMA DebounceExtractValue ==
  ASSUME CommonTypeOK, SourceInv, DebounceInv, B!ExtractValue
  PROVE  CommonTypeOK' /\ SourceInv' /\ DebounceInv'
<1>0. Values /\ LockInv /\ WaitInv /\ QuietInv
  BY ValuesFollow
<1>1. /\ pc[Worker] = "run" /\ pc' = [pc EXCEPT !["worker"] = "next"]
      /\ m_value_to_be_emitted # NoValue /\ m_time_when_value_should_be_emitted <= now
      /\ val' = [val EXCEPT !["worker"] = m_value_to_be_emitted]
      /\ m_value_to_be_emitted' = NoValue /\ m_time_when_value_should_be_emitted' = NoTime
      /\ UNCHANGED <<now, task, mutex, closed, ended, inside, got, at, finished, disposed, user>>
  BY DEF B!ExtractValue, B!NothingToEmit, B!downstream
<1>2. /\ m_value_to_be_emitted = Len(at) /\ Len(at) \in 1..MaxEmits
      /\ m_time_when_value_should_be_emitted = Due(at, Len(at)) /\ \A i \in 1..Len(got) : got[i] < Len(at)
  BY <1>0, <1>1 DEF WaitInv
<1>3. /\ pc'[Source] = pc[Source] /\ pc'[Worker] = "next" /\ pc'[Fallback] = pc[Fallback] /\ pc' \in [Threads -> Places]
      /\ val'[Source] = val[Source] /\ val'[Worker] = Len(at) /\ val' \in [Threads -> 0..MaxEmits]
  BY <1>0, <1>1, <1>2 DEF Values, Places
<1>4. CommonTypeOK'
  BY <1>1, <1>3 DEF CommonTypeOK
<1>5. SourceInv'
  BY <1>1, <1>3, SourceFrame
<1>6. LockInv'
  BY <1>0, <1>1, <1>3 DEF LockInv, Flushing
<1>7. now' \in Times /\ now <= now'
  BY <1>0, <1>1 DEF Values
<1>8. QuietInv'
  BY <1>0, <1>1, <1>7, QuietFrame
<1>9. WaitInv'
  <2>1. Quiet(val[Worker])'
    <3>1. Due(at, Len(at)) \in Times
      BY <1>0, <1>2, DueType DEF Values
    <3>2. now >= Due(at, Len(at))
      BY <1>0, <1>1, <1>2, <3>1 DEF Values
    <3> QED
      BY <1>1, <1>3, <3>2 DEF Quiet
  <2>2. val'[Worker] \in 1..Len(at)
    BY <1>2, <1>3
  <2>3. pc[Source] # "flush"
    BY <1>0, <1>1 DEF WaitInv
  <2> QED
    BY <1>1, <1>2, <1>3, <2>1, <2>2, <2>3 DEF WaitInv
<1> QED
  BY <1>4, <1>5, <1>6, <1>8, <1>9 DEF DebounceInv

LEMMA DebounceDeliverEnter ==
  ASSUME CommonTypeOK, SourceInv, DebounceInv, B!DeliverEnter
  PROVE  CommonTypeOK' /\ SourceInv' /\ DebounceInv'
<1>0. Values /\ LockInv /\ WaitInv /\ QuietInv
  BY ValuesFollow
<1>1. /\ pc[Worker] = "next" /\ mutex = NoOne
      /\ \/ closed /\ pc' = [pc EXCEPT !["worker"] = "idle"] /\ UNCHANGED <<got, inside, mutex>>
         \/ /\ ~closed /\ pc' = [pc EXCEPT !["worker"] = "in_next"] /\ mutex' = Worker
            /\ inside' = inside \union {Worker} /\ got' = Append(got, val[Worker])
      /\ UNCHANGED <<now, task, val, at, finished, disposed, user, closed, ended,
                     m_value_to_be_emitted, m_time_when_value_should_be_emitted>>
  BY DEF B!DeliverEnter, B!downstream, B!own, B!BeginNext
<1>2. /\ pc'[Worker] \in {"idle", "in_next"} /\ (pc'[Worker] = "idle" <=> closed)
      /\ pc'[Source] = pc[Source] /\ pc'[Fallback] = pc[Fallback] /\ pc' \in [Threads -> Places]
  BY <1>0, <1>1 DEF Values, Places
<1>3. pc[Source] \notin Flushing
  BY <1>0, <1>1 DEF LockInv
<1>4. val[Worker] \in 1..Len(at) /\ Quiet(val[Worker])
  BY <1>0, <1>1 DEF WaitInv
<1>5. ~closed => \A i \in 1..Len(got) : got[i] < val[Worker]
  BY <1>0, <1>1, <1>3 DEF WaitInv, LockInv
<1>6. got' \in Seq(1..MaxEmits)
  <2>1. val[Worker] \in 1..MaxEmits /\ got \in Seq(1..MaxEmits)
    BY <1>0, <1>4 DEF Values, CommonTypeOK
  <2> QED
    BY <1>1, <2>1
<1>7. CommonTypeOK'
  BY <1>1, <1>6 DEF CommonTypeOK
<1>8. SourceInv'
  BY <1>1, <1>2, SourceFrame
<1>9. LockInv'
  BY <1>0, <1>1, <1>2, <1>3 DEF LockInv, Flushing
<1>10. QuietInv'
  <2>0. now' \in Times /\ now <= now'
    BY <1>0, <1>1 DEF Values
  <2>1. CASE closed
    BY <1>0, <1>1, <2>0, <2>1, QuietFrame
  <2>2. CASE ~closed
    <3>1. /\ Len(got') = Len(got) + 1 /\ got'[Len(got) + 1] = val[Worker]
          /\ \A i \in 1..Len(got) : got'[i] = got[i]
      BY <1>0, <1>1, <2>2 DEF Values
    <3>2. ASSUME NEW i \in 1..Len(got')
          PROVE  got'[i] \in 1..Len(at) /\ (Quiet(got[i])' \/ (got'[i] = Len(at) /\ finished = "completed"))
      <4>1. CASE i = Len(got) + 1
        BY <1>1, <1>4, <3>1, <4>1 DEF Quiet, Due
      <4>2. CASE i \in 1..Len(got)
        <5>1. got[i] \in 1..Len(at) /\ (Quiet(got[i]) \/ (got[i] = Len(at) /\ finished = "completed"))
          BY <1>0, <4>2 DEF QuietInv
        <5> QED
          BY <1>1, <3>1, <4>2, <5>1 DEF Quiet, Due
      <4>3. i = Len(got) + 1 \/ i \in 1..Len(got)
        BY <1>0, <3>1 DEF Values
      <4> QED
        BY <4>1, <4>2, <4>3
    <3>3. \A i \in 1..Len(got') - 1 : got'[i] < got'[i + 1]
      <4>1. ASSUME NEW i \in 1..Len(got') - 1
            PROVE  i \in 1..Len(got) /\ (i # Len(got) => i \in 1..Len(got) - 1 /\ i + 1 \in 1..Len(got))
        BY <1>0, <3>1 DEF Values
      <4> QED
        BY <1>0, <1>5, <2>2, <3>1, <4>1 DEF QuietInv
    <3> QED
      BY <1>1, <3>2, <3>3 DEF QuietInv
  <2> QED
    BY <2>1, <2>2
<1>11. WaitInv'
  <2>1. m_value_to_be_emitted # NoValue => \A i \in 1..Len(got') : got'[i] < Len(at)
    <3>1. CASE closed
      BY <1>0, <1>1, <3>1 DEF WaitInv
    <3>2. CASE ~closed
      <4>1. /\ Len(got') = Len(got) + 1 /\ got'[Len(got) + 1] = val[Worker]
            /\ \A i \in 1..Len(got) : got'[i] = got[i]
        BY <1>0, <1>1, <3>2 DEF Values
      <4>2. \A i \in 1..Len(got') : i = Len(got) + 1 \/ i \in 1..Len(got)
        BY <1>0, <4>1 DEF Values
      <4> QED
        BY <1>0, <1>1, <4>1, <4>2 DEF WaitInv
    <3> QED
      BY <3>1, <3>2
  <2>2. pc[Source] # "flush" /\ pc'[Source] # "flush" /\ pc'[Worker] # "next"
    BY <1>2, <1>3 DEF Flushing
  <2> QED
    BY <1>0, <1>1, <2>1, <2>2 DEF WaitInv
<1> QED
  BY <1>7, <1>8, <1>9, <1>10, <1>11 DEF DebounceInv

LEMMA DebounceDeliverLeave ==
  ASSUME CommonTypeOK, SourceInv, DebounceInv, B!DeliverLeave
  PROVE  CommonTypeOK' /\ SourceInv' /\ DebounceInv'
<1>0. Values /\ LockInv /\ WaitInv /\ QuietInv
  BY ValuesFollow
<1>1. /\ pc[Worker] = "in_next" /\ pc' = [pc EXCEPT !["worker"] = "idle"]
      /\ inside' = inside \ {Worker} /\ mutex' = NoOne
      /\ UNCHANGED <<now, task, closed, ended, got, val, at, finished, disposed, user,
                     m_value_to_be_emitted, m_time_when_value_should_be_emitted>>
  BY DEF B!DeliverLeave, B!own, B!EndNext
<1>2. pc'[Source] = pc[Source] /\ pc'[Worker] = "idle" /\ pc'[Fallback] = pc[Fallback] /\ pc' \in [Threads -> Places]
  BY <1>0, <1>1 DEF Values, Places
<1>3. CommonTypeOK'
  BY <1>1 DEF CommonTypeOK
<1>4. SourceInv'
  BY <1>1, <1>2, SourceFrame
<1>5. LockInv'
  BY <1>0, <1>1, <1>2 DEF LockInv, Flushing
<1>6. now' \in Times /\ now <= now'
  BY <1>0, <1>1 DEF Values
<1>7. QuietInv'
  BY <1>0, <1>1, <1>6, QuietFrame
<1>8. WaitInv'
  BY <1>0, <1>1, <1>2 DEF WaitInv
<1> QED
  BY <1>3, <1>4, <1>5, <1>7, <1>8 DEF DebounceInv

LEMMA DebounceKeeps ==
  ASSUME CommonTypeOK, SourceInv, DebounceInv, B!SourceStep \/ B!WorkerStep
  PROVE  CommonTypeOK' /\ SourceInv' /\ DebounceInv'
BY DebounceEmplace, DebounceCompletedLock, DebounceFlushEnter, DebounceTerminal, DebounceExtractPause,
   DebounceExtractValue, DebounceDeliverEnter, DebounceDeliverLeave DEF B!SourceStep, B!WorkerStep

-----------------------------------------------------------------------------
(* The steps of timeout.                                                     *)

Clocked == pc \in [Threads -> Places] /\ at \in Seq(Times) /\ Len(at) \in Nat /\ now \in Times

\* The time point is moved past every value: none is later than now.
LEMMA DueByNow ==
  ASSUME Clocked, NEW i \in 1..Len(at), at[i] <= now
  PROVE  Capped(now + Period) \in Times /\ Capped(now + Period) >= Due(at, i)
<1>1. at[i] \in Times /\ now \in Times
  BY DEF Clocked
<1> QED
  BY <1>1 DEF Due, Capped

LEMMA TimeoutShared ==
  ASSUME CommonTypeOK, SourceInv, TimeoutInv, SharedStep
  PROVE  TimeoutInv'
<1> USE DEF downstream, threads, ofTimeout
<1>1. UNCHANGED <<timeout, handed, at, ended, mutex>> /\ (disposed => disposed')
  BY DEF SharedStep, Shared, SourceNext, SourceTerminal, RunTask, Tick, UserDispose, UserDisposeUpstream
<1>2. pc \in [Threads -> Places]
  BY DEF SourceInv
<1>3. \/ UNCHANGED <<pc, finished>>
      \/ UNCHANGED finished /\ pc[Source] = "idle" /\ pc' = [pc EXCEPT !["source"] = "next"]
      \/ /\ pc[Source] = "idle" /\ finished = "no" /\ finished' \in {"completed", "error"}
         /\ pc' = [pc EXCEPT !["source"] = finished']
      \/ UNCHANGED finished /\ pc[Worker] = "idle" /\ pc' = [pc EXCEPT !["worker"] = "run"]
  BY DEF SharedStep, Shared, SourceNext, SourceTerminal, RunTask, Tick, UserDispose, UserDisposeUpstream, Listening
<1>4. pc[Source] # "in_next" => \A i \in 1..Len(at) : timeout >= Due(at, i)
  BY DEF TimeoutInv
<1>5. pc'[Source] # "in_next" => pc[Source] # "in_next"
  BY <1>2, <1>3
<1>6. pc'[Source] # "in_next" => \A i \in 1..Len(at') : timeout' >= Due(at', i)
  BY <1>1, <1>4, <1>5
<1> QED
  BY <1>1, <1>2, <1>3, <1>6 DEF TimeoutInv

LEMMA TimeoutNextEnter ==
  ASSUME CommonTypeOK, SourceInv, TimeoutInv, T!NextEnter
  PROVE  CommonTypeOK' /\ SourceInv' /\ TimeoutInv'
<1>0. Clocked /\ val[Source] \in 0..MaxEmits
  BY DEF Clocked, CommonTypeOK, SourceInv
<1>1. /\ pc[Source] = "next" /\ mutex = NoOne /\ mutex' = Source /\ at' = Append(at, now)
      /\ pc' = [pc EXCEPT !["source"] = "in_next"]
      /\ \/ inside' = inside \union {Source} /\ got' = Append(got, val[Source])
         \/ UNCHANGED <<inside, got>>
      /\ UNCHANGED <<now, task, val, finished, disposed, user, closed, ended, timeout, handed>>
  BY DEF T!NextEnter, T!downstream, T!own, T!BeginNext
<1>2. finished = "no" /\ val[Source] = Len(at) + 1 /\ Len(at) < MaxEmits
  BY <1>1 DEF SourceInv
<1>3. Len(at') = Len(at) + 1 /\ at' \in Seq(Times) /\ at'[Len(at) + 1] = now /\ \A i \in 1..Len(at) : at'[i] = at[i]
  BY <1>0, <1>1 DEF Clocked
<1>4. got' \in Seq(1..MaxEmits)
  <2>1. val[Source] \in 1..MaxEmits /\ got \in Seq(1..MaxEmits)
    BY <1>0, <1>2 DEF Clocked, CommonTypeOK
  <2>2. Append(got, val[Source]) \in Seq(1..MaxEmits)
    BY <2>1
  <2> QED
    BY <1>1, <2>1, <2>2
<1>5. /\ pc'[Source] = "in_next" /\ pc'[Worker] = pc[Worker] /\ pc'[Fallback] = pc[Fallback]
      /\ pc' \in [Threads -> Places]
  BY <1>0, <1>1 DEF Clocked, Places
<1>6. CommonTypeOK'
  <2>1. Len(at') <= MaxEmits
    BY <1>0, <1>2, <1>3 DEF Clocked
  <2>2. inside' \subseteq Threads
    BY <1>1 DEF CommonTypeOK
  <2> QED
    BY <1>1, <1>3, <1>4, <2>1, <2>2 DEF CommonTypeOK
<1>7. SourceInv'
  <2>1. \A i \in 1..Len(at') : i = Len(at) + 1 \/ i \in 1..Len(at)
    BY <1>0, <1>3 DEF Clocked
  <2>2. now <= now
    BY <1>0 DEF Clocked
  <2>3. \A i \in 1..Len(at') : at'[i] <= now
    BY <1>3, <2>1, <2>2 DEF SourceInv
  <2> QED
    BY <1>1, <1>5, <2>3 DEF SourceInv
<1>8. TimeoutInv'
  BY <1>1, <1>2, <1>5 DEF TimeoutInv
<1> QED
  BY <1>6, <1>7, <1>8

LEMMA TimeoutNextLeave ==
  ASSUME CommonTypeOK, SourceInv, TimeoutInv, T!NextLeave
  PROVE  CommonTypeOK' /\ SourceInv' /\ TimeoutInv'
<1>0. Clocked
  BY DEF Clocked, CommonTypeOK, SourceInv
<1>1. /\ pc[Source] = "in_next" /\ mutex' = NoOne /\ timeout' = Capped(now + Period)
      /\ pc' = [pc EXCEPT !["source"] = "idle"] /\ inside' = inside \ {Source}
      /\ UNCHANGED <<now, task, val, at, finished, disposed, user, closed, ended, got, handed>>
  BY DEF T!NextLeave, T!EndNext, T!Capped, Capped
<1>2. /\ pc'[Source] = "idle" /\ pc'[Worker] = pc[Worker] /\ pc'[Fallback] = pc[Fallback]
      /\ pc' \in [Threads -> Places]
  BY <1>0, <1>1 DEF Clocked, Places
<1>3. finished = "no"
  BY <1>1 DEF TimeoutInv
<1>4. timeout' \in Times
  BY <1>0, <1>1 DEF Clocked, Capped
<1>5. \A i \in 1..Len(at) : timeout' >= Due(at, i)
  BY <1>0, <1>1, DueByNow DEF SourceInv
<1>6. CommonTypeOK'
  BY <1>1 DEF CommonTypeOK
<1>7. SourceInv'
  BY <1>1, <1>2, <1>3, SourceFrame
<1>8. TimeoutInv'
  <2>1. pc[Worker] \notin {"subscribe", "in_terminal", "unlock"}
    BY <1>1 DEF TimeoutInv
  <2>2. pc'[Source] # "in_next" => \A i \in 1..Len(at') : timeout' >= Due(at', i)
    BY <1>1, <1>5
  <2> QED
    BY <1>1, <1>2, <1>4, <2>1, <2>2 DEF TimeoutInv
<1> QED
  BY <1>6, <1>7, <1>8

LEMMA TimeoutTerminal ==
  ASSUME CommonTypeOK, SourceInv, TimeoutInv, T!TerminalEnter \/ T!TerminalLeave
  PROVE  CommonTypeOK' /\ SourceInv' /\ TimeoutInv'
<1>0. Clocked
  BY DEF Clocked, CommonTypeOK, SourceInv
<1>1. /\ \/ /\ pc[Source] \in {"completed", "error"} /\ pc' = [pc EXCEPT !["source"] = "done"]
            /\ UNCHANGED <<mutex, inside, ended, closed, disposed>>
         \/ /\ pc[Source] \in {"completed", "error"} /\ pc' = [pc EXCEPT !["source"] = "in_terminal"]
            /\ mutex = NoOne /\ mutex' = Source /\ inside' = inside \union {Source} /\ ended' = finished
            /\ UNCHANGED <<closed, disposed>>
         \/ /\ pc[Source] = "in_terminal" /\ pc' = [pc EXCEPT !["source"] = "done"]
            /\ mutex' = NoOne /\ inside' = inside \ {Source} /\ closed' = TRUE /\ disposed' = TRUE
            /\ UNCHANGED ended
      /\ UNCHANGED <<now, task, val, at, finished, user, got, timeout, handed>>
  BY DEF T!TerminalEnter, T!TerminalLeave, T!downstream, T!own, T!BeginTerminal, T!EndTerminal
<1>2. /\ pc'[Source] \in {"done", "in_terminal"} /\ pc'[Worker] = pc[Worker] /\ pc'[Fallback] = pc[Fallback]
      /\ pc' \in [Threads -> Places]
  BY <1>0, <1>1 DEF Clocked, Places
<1>3. CommonTypeOK'
  <2>1. /\ inside' \subseteq Threads /\ mutex' \in Threads \union {NoOne} /\ closed' \in BOOLEAN
        /\ ended' \in {"no", "completed", "error"} /\ disposed' \in BOOLEAN
    BY <1>1 DEF CommonTypeOK
  <2> QED
    BY <1>1, <2>1 DEF CommonTypeOK
<1>4. SourceInv'
  BY <1>1, <1>2, SourceFrame
<1>5. TimeoutInv'
  <2>1. pc'[Source] # "in_next" => \A i \in 1..Len(at') : timeout' >= Due(at', i)
    BY <1>1 DEF TimeoutInv
  <2> QED
    BY <1>0, <1>1, <1>2, <2>1 DEF TimeoutInv, Clocked
<1> QED
  BY <1>3, <1>4, <1>5

\* The task, and the fallback observable, touch no value of the source.
LEMMA TimeoutWorker ==
  ASSUME CommonTypeOK, SourceInv, TimeoutInv, T!WorkerStep
  PROVE  CommonTypeOK' /\ SourceInv' /\ TimeoutInv'
<1>0. Clocked
  BY DEF Clocked, CommonTypeOK, SourceInv
<1>1. /\ UNCHANGED <<now, val, at, finished, user, got, timeout>>
      /\ \/ /\ pc[Worker] = "run" /\ pc' = [pc EXCEPT !["worker"] = "idle"] /\ task' \in {task, timeout}
            /\ UNCHANGED <<mutex, inside, ended, closed, disposed, handed>>
         \/ /\ pc[Worker] = "run" /\ pc' = [pc EXCEPT !["worker"] = "subscribe"]
            /\ mutex = NoOne /\ mutex' = Worker /\ disposed' = TRUE /\ handed' = TRUE
            /\ UNCHANGED <<task, inside, ended, closed>>
         \/ /\ pc[Worker] = "subscribe" /\ pc' = [pc EXCEPT !["worker"] = "unlock"]
            /\ UNCHANGED <<task, mutex, inside, ended, closed, disposed, handed>>
         \/ /\ pc[Worker] = "subscribe" /\ pc' = [pc EXCEPT !["worker"] = "in_terminal"]
            /\ inside' = inside \union {Worker} /\ ended' \in {"completed", "error"}
            /\ UNCHANGED <<task, mutex, closed, disposed, handed>>
         \/ /\ pc[Worker] = "subscribe" /\ pc' = [pc EXCEPT !["worker"] = "unlock", !["fallback"] = "running"]
            /\ UNCHANGED <<task, mutex, inside, ended, closed, disposed, handed>>
         \/ /\ pc[Fallback] = "running" /\ pc' = [pc EXCEPT !["fallback"] = "done"]
            /\ UNCHANGED <<task, mutex, inside, ended, closed, disposed, handed>>
         \/ /\ pc[Fallback] = "running" /\ pc' = [pc EXCEPT !["fallback"] = "in_terminal"]
            /\ inside' = inside \union {Fallback} /\ ended' = "completed"
            /\ UNCHANGED <<task, mutex, closed, disposed, handed>>
         \/ /\ pc[Worker] = "in_terminal" /\ pc' = [pc EXCEPT !["worker"] = "unlock"]
            /\ inside' = inside \ {Worker} /\ closed' = TRUE /\ disposed' = TRUE /\ UNCHANGED <<task, mutex, ended, handed>>
         \/ /\ pc[Fallback] = "in_terminal" /\ pc' = [pc EXCEPT !["fallback"] = "done"]
            /\ inside' = inside \ {Fallback} /\ closed' = TRUE /\ disposed' = TRUE /\ UNCHANGED <<task, mutex, ended, handed>>
         \/ /\ pc[Worker] = "unlock" /\ pc' = [pc EXCEPT !["worker"] = "idle"] /\ mutex' = NoOne
            /\ UNCHANGED <<task, inside, ended, closed, disposed, handed>>
  BY DEF T!WorkerStep, T!TaskAgain, T!TaskTooLate, T!TaskHandsOver, T!FallbackAtOnce, T!FallbackLater, T!FallbackEnter,
     T!FallbackLeave, T!TaskUnlock, T!downstream, T!own, T!BeginTerminal, T!EndTerminal
<1>2. pc'[Source] = pc[Source] /\ pc' \in [Threads -> Places]
  BY <1>0, <1>1 DEF Clocked, Places
<1>3. CommonTypeOK'
  <2>1. /\ inside' \subseteq Threads /\ mutex' \in Threads \union {NoOne} /\ closed' \in BOOLEAN
        /\ ended' \in {"no", "completed", "error"} /\ disposed' \in BOOLEAN /\ task' \in Times \union {NoTime}
    BY <1>1 DEF CommonTypeOK, TimeoutInv
  <2> QED
    BY <1>1, <2>1 DEF CommonTypeOK
<1>4. SourceInv'
  BY <1>1, <1>2, SourceFrame
<1>5. TimeoutInv'
  <2>1. pc'[Source] # "in_next" => \A i \in 1..Len(at') : timeout' >= Due(at', i)
    BY <1>1, <1>2 DEF TimeoutInv
  <2>2. /\ pc'[Worker] \in {"idle", "run", "subscribe", "in_terminal", "unlock"}
        /\ pc'[Fallback] \in {"idle", "running", "in_terminal", "done"}
    BY <1>0, <1>1 DEF TimeoutInv, Clocked
  <2>3. pc[Source] \in {"in_next", "in_terminal"} => mutex' = Source
    BY <1>0, <1>1 DEF TimeoutInv, Clocked
  <2>4. pc'[Worker] \in {"subscribe", "in_terminal", "unlock"} => mutex' = Worker
    <3>1. pc[Worker] \in {"subscribe", "in_terminal", "unlock"} => mutex = Worker
      BY DEF TimeoutInv
    <3>2. pc \in [Threads -> Places]
      BY <1>0 DEF Clocked
    <3> QED
      BY <1>1, <3>1, <3>2
  <2>5. pc'[Worker] \in {"subscribe", "in_terminal", "unlock"} \/ pc'[Fallback] # "idle" => handed'
    <3>1. pc[Worker] \in {"subscribe", "in_terminal", "unlock"} \/ pc[Fallback] # "idle" => handed
      BY DEF TimeoutInv
    <3>2. pc \in [Threads -> Places]
      BY <1>0 DEF Clocked
    <3> QED
      BY <1>1, <3>1, <3>2
  <2>6. (handed' => disposed') /\ handed' \in BOOLEAN
    <3>1. (handed => disposed) /\ handed \in BOOLEAN
      BY DEF TimeoutInv
    <3>a. handed' = handed \/ (handed' = TRUE /\ disposed' = TRUE)
      BY <1>1
    <3>b. disposed' = disposed \/ disposed' = TRUE
      BY <1>1
    <3>c. handed' \in BOOLEAN
      BY <3>1, <3>a
    <3>d. ASSUME handed' PROVE disposed'
      <4>1. CASE disposed' = TRUE
        BY <4>1
      <4>2. CASE handed' = handed /\ disposed' = disposed
        <5>1. handed
          BY <3>d, <4>2, Zenon
        <5>2. disposed
          BY <3>1, <5>1
        <5> QED
          BY <4>2, <5>2, Zenon
      <4> QED
        BY <3>a, <3>b, <4>1, <4>2
    <3> QED
      BY <3>c, <3>d
  <2>7. ended' # "no" => disposed' \/ pc'[Source] = "in_terminal"
    BY <1>0, <1>1, <1>2 DEF TimeoutInv, Clocked
  <2> QED
    BY <1>1, <1>2, <2>1, <2>2, <2>3, <2>4, <2>5, <2>6, <2>7 DEF TimeoutInv
<1> QED
  BY <1>3, <1>4, <1>5

LEMMA TimeoutKeeps ==
  ASSUME CommonTypeOK, SourceInv, TimeoutInv, T!SourceStep \/ T!WorkerStep
  PROVE  CommonTypeOK' /\ SourceInv' /\ TimeoutInv'
BY TimeoutNextEnter, TimeoutNextLeave, TimeoutTerminal, TimeoutWorker DEF T!SourceStep

-----------------------------------------------------------------------------
(* The invariant of the whole.                                               *)

LEMMA TypesNext ==
  ASSUME operator' \in {"delay", "observe_on", "debounce", "timeout"}, CommonTypeOK',
         queue' \in Seq(D!Emission), is_active' \in BOOLEAN,
         m_value_to_be_emitted' \in 0..MaxEmits, m_time_when_value_should_be_emitted' \in Times \union {NoTime},
         timeout' \in Times, handed' \in BOOLEAN
  PROVE  TypeOK'
  BY DEF TypeOK, CommonTypeOK, D!TypeOK, B!TypeOK, T!TypeOK, D!CommonTypeOK, B!CommonTypeOK, T!CommonTypeOK,
    D!Emission

LEMMA Initially == Init => IInv
<1> SUFFICES ASSUME Init PROVE IInv
  OBVIOUS
<1>1. /\ CommonInit /\ operator \in {"delay", "observe_on", "debounce", "timeout"}
      /\ queue = <<>> /\ is_active = FALSE
      /\ m_value_to_be_emitted = NoValue /\ m_time_when_value_should_be_emitted = NoTime
      /\ handed = FALSE
      /\ operator = "timeout" => task = Capped(Period) /\ timeout = Capped(Period)
      /\ operator # "timeout" => task = NoTime /\ timeout = 0
  BY DEF Init, D!Init, B!Init, T!Init, CommonInit, D!CommonInit, B!CommonInit, T!CommonInit, T!Capped, Capped
<1>2. /\ now = 0 /\ mutex = NoOne /\ closed = FALSE /\ ended = "no" /\ inside = {} /\ got = <<>> /\ at = <<>>
      /\ pc = [t \in Threads |-> "idle"] /\ val = [t \in Threads |-> NoValue] /\ finished = "no"
      /\ disposed = FALSE /\ user = "subscribed"
  BY <1>1 DEF CommonInit
<1>3. Capped(Period) \in Times /\ 0 \in Times
  BY DEF Capped
<1>4. TypeOK
  <2>1. <<>> \in Seq(Times) /\ <<>> \in Seq(1..MaxEmits) /\ <<>> \in Seq(D!Emission)
    OBVIOUS
  <2>2. task \in Times \union {NoTime} /\ timeout \in Times
    BY <1>1, <1>3
  <2>3. Len(at) = 0 /\ inside \subseteq Threads /\ val \in [Threads -> 0..MaxEmits]
    BY <1>2
  <2>a. closed \in BOOLEAN /\ disposed \in BOOLEAN
    BY <1>2
  <2>b. is_active \in BOOLEAN /\ handed \in BOOLEAN
    BY <1>1
  <2>c. mutex \in Threads \union {NoOne} /\ now \in Times /\ got \in Seq(1..MaxEmits) /\ at \in Seq(Times)
    BY <1>2, <1>3, <2>1
  <2>4. CommonTypeOK
    BY <1>2, <2>2, <2>3, <2>a, <2>c DEF CommonTypeOK
  <2>5. m_value_to_be_emitted \in 0..MaxEmits /\ m_time_when_value_should_be_emitted \in Times \union {NoTime}
        /\ queue \in Seq(D!Emission)
    BY <1>1, <2>1
  <2> QED
    BY <1>1, <2>2, <2>b, <2>4, <2>5, TypesAgree
<1>5. Len(at) = 0 /\ Len(got) = 0 /\ Len(queue) = 0
  BY <1>1, <1>2
<1>6. SourceInv
  BY <1>2, <1>5 DEF SourceInv, Places
<1>7. ASSUME Delays PROVE DelayInv
  <2>1. ~Ended /\ ~Passes /\ Total = 0 /\ OnItsWay = 0
    BY <1>2, <1>5 DEF Ended, Passes, Total, OnItsWay
  <2>2. QueueInv
    BY <1>1, <1>5, <2>1 DEF QueueInv
  <2>a. pc[Source] = "idle" /\ pc[Worker] = "idle" /\ task = NoTime
    BY <1>1, <1>2, <1>7 DEF Delays
  <2>3. TaskInv
    BY <1>2, <2>a DEF TaskInv
  <2>4. HandInv /\ EndInv
    BY <1>2, <1>5, <2>a DEF HandInv, EndInv
  <2>5. FlowInv
    BY <1>5, <2>1 DEF FlowInv
  <2>6. queue \in Seq(D!Emission) /\ is_active \in BOOLEAN
    BY <1>4, TypesAgree
  <2> QED
    BY <1>2, <2>a, <2>2, <2>3, <2>4, <2>5, <2>6 DEF DelayInv
<1>8. DebounceInv
  <2>1. LockInv
    BY <1>2 DEF LockInv, Flushing
  <2>2. WaitInv /\ QuietInv
    BY <1>1, <1>2, <1>5 DEF WaitInv, QuietInv
  <2> QED
    BY <2>1, <2>2 DEF DebounceInv
<1>9. TimeoutInv
  <2>1. timeout \in Times /\ handed \in BOOLEAN /\ ~handed
    BY <1>1, <1>3
  <2> QED
    BY <1>2, <1>5, <2>1 DEF TimeoutInv
<1> QED
  BY <1>1, <1>4, <1>6, <1>7, <1>8, <1>9 DEF IInv

LEMMA Inductive == IInv /\ [Next]_vars => IInv'
<1> SUFFICES ASSUME IInv, [Next]_vars PROVE IInv'
  OBVIOUS
<1>1. /\ operator \in {"delay", "observe_on", "debounce", "timeout"} /\ CommonTypeOK
      /\ queue \in Seq(D!Emission) /\ is_active \in BOOLEAN
      /\ m_value_to_be_emitted \in 0..MaxEmits /\ m_time_when_value_should_be_emitted \in Times \union {NoTime}
      /\ timeout \in Times /\ handed \in BOOLEAN
  BY TypesAgree DEF IInv
<1>2. SourceInv /\ (Delays => DelayInv) /\ (operator = "debounce" => DebounceInv) /\ (operator = "timeout" => TimeoutInv)
      /\ (operator # "timeout" => ~handed)
  BY DEF IInv
<1>3. CASE UNCHANGED vars
  <2>1. TypeOK' /\ SourceInv'
    BY <1>3 DEF IInv, vars, common, downstream, threads, ofDelay, ofDebounce, ofTimeout, TypeOK, D!TypeOK, B!TypeOK, T!TypeOK,
       D!CommonTypeOK, B!CommonTypeOK, T!CommonTypeOK, SourceInv, D!Emission
  <2>2. Delays => DelayInv'
    BY <1>2, <1>3 DEF vars, common, downstream, threads, ofDelay, ofDebounce, ofTimeout, DelayInv, D!Emission, QueueInv, TaskInv,
       HandInv, FlowInv, EndInv, Ended, Passes, Total, OnItsWay, Due
  <2>3. operator = "debounce" => DebounceInv'
    BY <1>2, <1>3 DEF vars, common, downstream, threads, ofDelay, ofDebounce, ofTimeout, DebounceInv, LockInv, WaitInv, QuietInv,
       Quiet, Due
  <2>4. operator = "timeout" => TimeoutInv'
    BY <1>2, <1>3 DEF vars, common, downstream, threads, ofDelay, ofDebounce, ofTimeout, TimeoutInv, Due
  <2>5. UNCHANGED <<operator, handed>>
    BY <1>3 DEF vars, ofTimeout
  <2> QED
    BY <1>2, <2>1, <2>2, <2>3, <2>4, <2>5 DEF IInv, Delays
<1>4. CASE SharedStep
  <2>1. UNCHANGED <<operator, queue, is_active, m_value_to_be_emitted, m_time_when_value_should_be_emitted, timeout, handed>>
    BY <1>4 DEF SharedStep, ofDelay, ofDebounce, ofTimeout
  <2>2. CommonTypeOK' /\ SourceInv'
    BY <1>1, <1>2, <1>4, SharedKeeps DEF SharedStep
  <2>3. TypeOK'
    BY <1>1, <2>1, <2>2, TypesNext DEF D!Emission
  <2>4. (Delays => DelayInv') /\ (operator = "debounce" => DebounceInv') /\ (operator = "timeout" => TimeoutInv')
    BY <1>1, <1>2, <1>4, DelayShared, DebounceShared, TimeoutShared
  <2> QED
    BY <1>2, <2>1, <2>2, <2>3, <2>4 DEF IInv, Delays
<1>5. CASE Delays /\ (D!SourceStep \/ D!WorkerStep) /\ UNCHANGED <<operator, ofDebounce, ofTimeout>>
  <2>1. UNCHANGED <<operator, m_value_to_be_emitted, m_time_when_value_should_be_emitted, timeout, handed>>
    BY <1>5 DEF ofDebounce, ofTimeout
  <2>2. CommonTypeOK' /\ SourceInv' /\ DelayInv'
    BY <1>1, <1>2, <1>5, <2>1, DelayKeeps
  <2>3. queue' \in Seq(D!Emission) /\ is_active' \in BOOLEAN
    BY <2>2 DEF DelayInv, D!Emission
  <2>4. TypeOK'
    BY <1>1, <2>1, <2>2, <2>3, TypesNext
  <2> QED
    BY <1>2, <1>5, <2>1, <2>2, <2>4 DEF IInv, Delays
<1>6. CASE operator = "debounce" /\ (B!SourceStep \/ B!WorkerStep) /\ UNCHANGED <<operator, ofDelay, ofTimeout>>
  <2>1. UNCHANGED <<operator, queue, is_active, timeout, handed>>
    BY <1>6 DEF ofDelay, ofTimeout
  <2>2. CommonTypeOK' /\ SourceInv' /\ DebounceInv'
    BY <1>1, <1>2, <1>6, DebounceKeeps
  <2>3. m_value_to_be_emitted' \in 0..MaxEmits /\ m_time_when_value_should_be_emitted' \in Times \union {NoTime}
    BY <2>2 DEF DebounceInv, WaitInv
  <2>4. TypeOK'
    BY <1>1, <2>1, <2>2, <2>3, TypesNext
  <2> QED
    BY <1>2, <1>6, <2>1, <2>2, <2>4 DEF IInv, Delays
<1>7. CASE operator = "timeout" /\ (T!SourceStep \/ T!WorkerStep) /\ UNCHANGED <<operator, ofDelay, ofDebounce>>
  <2>1. UNCHANGED <<operator, queue, is_active, m_value_to_be_emitted, m_time_when_value_should_be_emitted>>
    BY <1>7 DEF ofDelay, ofDebounce
  <2>2. CommonTypeOK' /\ SourceInv' /\ TimeoutInv'
    BY <1>1, <1>2, <1>7, TimeoutKeeps
  <2>3. timeout' \in Times /\ handed' \in BOOLEAN
    BY <2>2 DEF TimeoutInv
  <2>4. TypeOK'
    BY <1>1, <2>1, <2>2, <2>3, TypesNext
  <2> QED
    BY <1>2, <1>7, <2>1, <2>2, <2>4 DEF IInv, Delays
<1> QED
  BY <1>3, <1>4, <1>5, <1>6, <1>7 DEF Next, SourceStep, WorkerStep, DelayStep, DebounceStep, TimeoutStep, Delays

LEMMA Always == FairSpec => []IInv
<1> QED
  BY Initially, Inductive, PTL DEF FairSpec

-----------------------------------------------------------------------------
(* What is promised.                                                         *)

\* The variables of the operators and of the two threads stay in their types,
\* for every length of the run.
THEOREM TypesOK == FairSpec => []TypeOK
<1>1. IInv => TypeOK
  BY DEF IInv
<1> QED
  BY <1>1, Always, PTL

\* delay and observe_on pass the values on in their order, none before its time
\* point, and a delayed end after all of them.
THEOREM DelayShifts == FairSpec => []Shifts
<1>1. IInv => Shifts
  <2> SUFFICES ASSUME IInv, Delays PROVE D!Shifts
    BY DEF Shifts, Delays
  <2>1. HandInv /\ EndInv
    BY DEF IInv, DelayInv
  <2>2. \A i \in 1..Len(got) : got[i] = i /\ now >= D!Capped(at[i] + Period)
    BY <2>1 DEF HandInv, Due, Capped, D!Capped
  <2>3. ended = "completed" \/ (ended = "error" /\ operator # "observe_on") => Len(got) = Len(at)
    BY <2>1 DEF EndInv, Delays
  <2> QED
    BY <2>2, <2>3 DEF D!Shifts
<1> QED
  BY <1>1, Always, PTL

\* debounce passes on a value only if it was the last one for a Period, or the
\* last one of a source that completed, and keeps the order.
THEOREM DebounceWaits == FairSpec => []OnlyAfterQuiet
<1>1. IInv => OnlyAfterQuiet
  <2> SUFFICES ASSUME IInv, operator = "debounce" PROVE B!OnlyAfterQuiet
    BY DEF OnlyAfterQuiet
  <2>1. QuietInv /\ Len(got) \in Nat
    BY TypesAgree DEF IInv, DebounceInv, CommonTypeOK
  <2>2. ASSUME NEW i \in 1..Len(got), i < Len(got) PROVE got[i] < got[i + 1]
    BY <2>1, <2>2 DEF QuietInv
  <2>3. ASSUME NEW i \in 1..Len(got)
        PROVE  \/ got[i] = Len(at) /\ (finished = "completed" \/ now >= B!Capped(at[got[i]] + Period))
               \/ got[i] < Len(at) /\ at[got[i] + 1] >= B!Capped(at[got[i]] + Period)
    BY <2>1 DEF QuietInv, Quiet, Due, Capped, B!Capped
  <2> QED
    BY <2>2, <2>3 DEF B!OnlyAfterQuiet
<1> QED
  BY <1>1, Always, PTL

\* timeout: once the task has given the observer away the source ends nothing,
\* and it gives nothing away before a whole Period without a value.
LEMMA HandsOverOnce ==
  ASSUME IInv, [Next]_vars
  PROVE  /\ handed /\ pc[Source] \in {"completed", "error"} /\ pc'[Source] # pc[Source] => UNCHANGED ended
         /\ handed' # handed => ended = "no" /\ \A i \in 1..Len(at) : now >= T!Capped(at[i] + Period)
<1>0. SourceInv /\ (operator = "timeout" => TimeoutInv) /\ (operator # "timeout" => ~handed) /\ pc \in [Threads -> Places]
      /\ CommonTypeOK
  BY TypesAgree DEF IInv, SourceInv
<1>1. CASE UNCHANGED <<pc, handed>>
  BY <1>1
<1>2. CASE UNCHANGED <<ended, handed>>
  BY <1>2
<1>3. CASE operator # "timeout" /\ UNCHANGED handed
  BY <1>0, <1>3
<1>4. CASE operator = "timeout" /\ (T!TerminalEnter \/ T!TerminalLeave \/ T!FallbackAtOnce \/ T!FallbackEnter)
  <2>1. UNCHANGED handed
    BY <1>4 DEF T!TerminalEnter, T!TerminalLeave, T!FallbackAtOnce, T!FallbackEnter, T!own
  <2>2. handed => disposed
    BY <1>0, <1>4 DEF TimeoutInv
  <2>3. handed /\ pc[Source] \in {"completed", "error"} /\ pc'[Source] # pc[Source] => UNCHANGED ended
    <3>1. CASE T!TerminalEnter
      BY <2>2, <3>1 DEF T!TerminalEnter, T!downstream
    <3>2. CASE T!TerminalLeave
      BY <3>2 DEF T!TerminalLeave, T!EndTerminal
    <3>3. CASE T!FallbackAtOnce \/ T!FallbackEnter
      BY <1>0, <3>3 DEF T!FallbackAtOnce, T!FallbackEnter
    <3> QED
      BY <1>4, <3>1, <3>2, <3>3
  <2> QED
    BY <2>1, <2>3
<1>5. CASE operator = "timeout" /\ T!TaskHandsOver
  <2>1. pc[Worker] = "run" /\ mutex = NoOne /\ now >= timeout /\ ~disposed /\ UNCHANGED ended
    BY <1>5 DEF T!TaskHandsOver, T!downstream
  <2>2. ended = "no" /\ pc[Source] # "in_next"
    BY <1>0, <1>5, <2>1 DEF TimeoutInv
  <2>3. ASSUME NEW i \in 1..Len(at) PROVE now >= T!Capped(at[i] + Period)
    <3>1. timeout >= Due(at, i) /\ timeout \in Times /\ at[i] \in Times /\ now \in Times
      BY <1>0, <1>5, <2>2 DEF TimeoutInv, CommonTypeOK
    <3>2. Due(at, i) = T!Capped(at[i] + Period) /\ Due(at, i) \in Times
      BY <3>1 DEF Due, Capped, T!Capped
    <3> QED
      BY <2>1, <3>1, <3>2
  <2> QED
    BY <2>1, <2>2, <2>3
<1>6. CASE UNCHANGED vars
  BY <1>1, <1>6 DEF vars, common, threads, ofTimeout
<1>7. CASE SharedStep
  BY <1>2, <1>7 DEF SharedStep, Shared, SourceNext, SourceTerminal, RunTask, Tick, UserDispose, UserDisposeUpstream, downstream, ofTimeout
<1>8. CASE operator # "timeout" /\ UNCHANGED ofTimeout
  BY <1>3, <1>8 DEF ofTimeout
<1>9. CASE operator = "timeout" /\ (T!SourceStep \/ T!WorkerStep)
  <2>1. CASE T!NextEnter \/ T!NextLeave \/ T!TaskAgain \/ T!TaskTooLate \/ T!FallbackLater \/ T!FallbackLeave \/ T!TaskUnlock
    BY <1>2, <2>1 DEF T!NextEnter, T!NextLeave, T!TaskAgain, T!TaskTooLate, T!FallbackLater, T!FallbackLeave, T!TaskUnlock,
       T!downstream, T!own, T!BeginNext, T!EndNext, T!EndTerminal
  <2> QED
    BY <1>4, <1>5, <1>9, <2>1 DEF T!SourceStep, T!WorkerStep
<1> QED
  BY <1>6, <1>7, <1>8, <1>9 DEF Next, SourceStep, WorkerStep, DelayStep, DebounceStep, TimeoutStep

THEOREM TimeoutHandsOver == FairSpec => OneSideEnds
<1>1. IInv /\ [Next]_vars =>
        [/\ handed /\ pc[Source] \in {"completed", "error"} /\ pc'[Source] # pc[Source] => UNCHANGED ended
         /\ handed' # handed => ended = "no" /\ \A i \in 1..Len(at) : now >= T!Capped(at[i] + Period)]_T!vars
  BY HandsOverOnce
<1> QED
  BY <1>1, Always, PTL DEF FairSpec, OneSideEnds, T!OneSideEnds

\* The calls of delay and of debounce follow one another: while one side is
\* inside, or has ended, the other begins none.
LEMMA DelayCallsInTurn ==
  ASSUME CommonTypeOK, SourceInv, DelayInv, operator = "delay", D!SourceStep \/ D!WorkerStep
  PROVE  Contract!Next \/ UNCHANGED <<inside, ended>>
<1>0. TaskInv /\ EndInv /\ ~Passes /\ pc[Source] # "in_error"
      /\ inside = IF pc[Worker] \in {"in_next", "in_terminal"} THEN {Worker} ELSE {}
  BY DEF DelayInv, TaskInv, Passes
<1>1. CASE D!ErrorEnter
  BY <1>1 DEF D!ErrorEnter
<1>2. CASE D!ErrorLeave
  BY <1>0, <1>2 DEF D!ErrorLeave
<1>3. CASE D!DeliverEnter
  <2>1. UNCHANGED <<inside, ended>> \/ (~closed /\ inside' = inside \union {Worker} /\ pc[Worker] \in {"next", "completed", "error"}
          /\ (UNCHANGED ended \/ (ended' = pc[Worker] /\ pc[Worker] # "next")))
    <3>1. CASE closed
      BY <1>3, <3>1 DEF D!DeliverEnter, D!downstream
    <3>2. CASE ~closed /\ pc[Worker] = "next"
      <4>1. D!BeginNext(Worker, val[Worker])
        BY <1>3, <3>2 DEF D!DeliverEnter
      <4>2. inside' = inside \union {Worker} /\ UNCHANGED ended
        BY <4>1 DEF D!BeginNext
      <4> QED
        BY <3>2, <4>2
    <3>3. CASE ~closed /\ pc[Worker] # "next"
      BY <1>3, <3>3 DEF D!DeliverEnter, D!BeginTerminal
    <3> QED
      BY <3>1, <3>2, <3>3
  <2>2. CASE ~closed /\ inside' = inside \union {Worker} /\ pc[Worker] \in {"next", "completed", "error"}
             /\ (UNCHANGED ended \/ (ended' = pc[Worker] /\ pc[Worker] # "next"))
    <3>1. inside = {} /\ ended = "no" /\ inside' = {Worker}
      BY <1>0, <2>2 DEF EndInv
    <3>2. UNCHANGED ended \/ ended' # "no"
      BY <2>2
    <3>3. Contract!OnNext(Worker) \/ Contract!OnTerminal(Worker)
      BY <3>1, <3>2 DEF Contract!OnNext, Contract!OnTerminal
    <3> QED
      BY <3>3 DEF Contract!Next
  <2> QED
    BY <2>1, <2>2
<1>4. CASE D!DeliverLeave
  <2>1. inside = {Worker} /\ inside' = {} /\ UNCHANGED ended
    BY <1>0, <1>4 DEF D!DeliverLeave, D!EndNext, D!EndTerminal
  <2>2. Contract!Return(Worker)
    BY <2>1 DEF Contract!Return
  <2> QED
    BY <2>2 DEF Contract!Next
<1>5. CASE D!Emplace \/ D!Schedule \/ D!Clear \/ D!DrainEmpty \/ D!DrainLater \/ D!DrainNext
  BY <1>5 DEF D!Emplace, D!Schedule, D!Clear, D!DrainEmpty, D!DrainLater, D!DrainNext, D!downstream
<1> QED
  BY <1>1, <1>2, <1>3, <1>4, <1>5 DEF D!SourceStep, D!WorkerStep

LEMMA DebounceCallsInTurn ==
  ASSUME CommonTypeOK, SourceInv, DebounceInv, B!SourceStep \/ B!WorkerStep
  PROVE  Contract!Next \/ UNCHANGED <<inside, ended>>
<1>0. LockInv
  BY DEF DebounceInv
<1>1. ASSUME NEW t \in {Source, Worker}, ~closed, inside' = inside \union {t}, UNCHANGED ended \/ ended' # "no",
             pc[t] \notin {"in_next", "in_flush", "in_terminal"},
             pc[Source] \in Flushing \/ mutex = NoOne, t = Source => pc[Source] \in Flushing, t = Worker => mutex = NoOne
      PROVE  Contract!Next
  <2>1. inside = {} /\ pc[Source] # "in_terminal"
    BY <1>0, <1>1 DEF LockInv, Flushing
  <2>2. ended = "no"
    BY <1>0, <1>1, <2>1 DEF LockInv
  <2>3. Contract!OnNext(t) \/ Contract!OnTerminal(t)
    BY <1>1, <2>1, <2>2 DEF Contract!OnNext, Contract!OnTerminal
  <2> QED
    BY <2>3 DEF Contract!Next
<1>2. ASSUME NEW t \in {Source, Worker}, inside' = inside \ {t}, UNCHANGED ended,
             pc[t] \in {"in_next", "in_flush", "in_terminal"}
      PROVE  Contract!Next
  <2>1. inside = {t}
    BY <1>0, <1>2 DEF LockInv, Flushing
  <2>2. Contract!Return(t)
    BY <1>2, <2>1 DEF Contract!Return
  <2> QED
    BY <2>2 DEF Contract!Next
<1>3. CASE B!FlushEnter
  BY <1>1, <1>3 DEF B!FlushEnter, B!BeginNext, B!downstream, Flushing
<1>4. CASE B!TerminalEnter
  <2>1. finished # "no"
    BY <1>0, <1>4 DEF B!TerminalEnter, LockInv, Flushing
  <2> QED
    BY <1>1, <1>4, <2>1 DEF B!TerminalEnter, B!BeginTerminal, B!downstream, Flushing
<1>5. CASE B!DeliverEnter
  BY <1>1, <1>5 DEF B!DeliverEnter, B!BeginNext, B!downstream
<1>6. CASE B!FlushLeave
  BY <1>2, <1>6 DEF B!FlushLeave, B!EndNext
<1>7. CASE B!TerminalLeave
  BY <1>2, <1>7 DEF B!TerminalLeave, B!EndTerminal
<1>8. CASE B!DeliverLeave
  BY <1>2, <1>8 DEF B!DeliverLeave, B!EndNext
<1>9. CASE B!Emplace \/ B!CompletedLock \/ B!ErrorLock \/ B!Unlock \/ B!ExtractNothing \/ B!ExtractTime \/ B!ExtractValue
  BY <1>9 DEF B!Emplace, B!CompletedLock, B!ErrorLock, B!Unlock, B!ExtractNothing, B!ExtractTime, B!ExtractValue, B!downstream
<1> QED
  BY <1>3, <1>4, <1>5, <1>6, <1>7, <1>8, <1>9 DEF B!SourceStep, B!WorkerStep

\* delay and debounce refine the observable contract, though two threads call
\* the observer: for every length of the run, and any duration.
THEOREM Serialised == FairSpec => FollowsContract
<1>1. Init => Contract!Init
  <2>1. Init => CommonInit
    BY DEF Init, D!Init, B!Init, T!Init, CommonInit, D!CommonInit, B!CommonInit, T!CommonInit
  <2> QED
    BY <2>1 DEF CommonInit, Contract!Init
<1>2. IInv /\ [Next]_vars =>
        [(operator \in {"delay", "debounce"} => Contract!Next)]_<<inside, ended>>
  <2> SUFFICES ASSUME IInv, [Next]_vars, operator \in {"delay", "debounce"}
               PROVE  Contract!Next \/ UNCHANGED <<inside, ended>>
    OBVIOUS
  <2>0. CommonTypeOK /\ SourceInv /\ (operator = "delay" => DelayInv) /\ (operator = "debounce" => DebounceInv)
    BY TypesAgree DEF IInv, Delays
  <2>1. CASE UNCHANGED vars
    BY <2>1 DEF vars, common, downstream
  <2>2. CASE SharedStep
    BY <2>2 DEF SharedStep, Shared, SourceNext, SourceTerminal, RunTask, Tick, UserDispose, UserDisposeUpstream, downstream
  <2>3. CASE operator = "delay" /\ (D!SourceStep \/ D!WorkerStep)
    BY <2>0, <2>3, DelayCallsInTurn
  <2>4. CASE operator = "debounce" /\ (B!SourceStep \/ B!WorkerStep)
    BY <2>0, <2>4, DebounceCallsInTurn
  <2> QED
    BY <2>1, <2>2, <2>3, <2>4 DEF Next, SourceStep, WorkerStep, DelayStep, DebounceStep, TimeoutStep
<1> QED
  BY <1>1, <1>2, Always, PTL DEF FairSpec, FollowsContract
=============================================================================
