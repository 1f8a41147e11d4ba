------------------------------- MODULE Debounce -------------------------------
(***************************************************************************)
(* rpp::operators::debounce: a value is passed on when nothing newer came   *)
(* for a Period.  One task waits for the time point that every new value    *)
(* moves.  Sections of m_mutex, which make no callback, are steps; the      *)
(* variable mutex is the one of the downstream observer.                    *)
(***************************************************************************)
EXTENDS ScheduledOperator

VARIABLES m_value_to_be_emitted,                \* or NoValue
          m_time_when_value_should_be_emitted   \* or NoTime

own == <<m_value_to_be_emitted, m_time_when_value_should_be_emitted>>
vars == <<common, own>>

Init ==
  /\ CommonInit
  /\ task = NoTime
  /\ m_value_to_be_emitted = NoValue
  /\ m_time_when_value_should_be_emitted = NoTime

-----------------------------------------------------------------------------
\* emplace_safe: the time point is moved; the task is scheduled if there is none.
Emplace ==
  /\ pc[Source] = "next"
  /\ at' = Append(at, now)
  /\ m_value_to_be_emitted' = val[Source]
  /\ m_time_when_value_should_be_emitted' = Capped(now + Period)
  /\ task' = IF m_time_when_value_should_be_emitted = NoTime THEN Capped(now + Period) ELSE task
  /\ Goto(Source, "idle")
  /\ UNCHANGED <<now, mutex, downstream, val, finished, disposed, user>>

\* Mutant: what waits is passed on, whether anything does or not.
CompletedLockUnchecked ==
  /\ pc[Source] = "completed" /\ mutex = NoOne
  /\ mutex' = Source
  /\ val' = [val EXCEPT ![Source] = m_value_to_be_emitted]
  /\ m_value_to_be_emitted' = NoValue
  /\ Goto(Source, "flush")
  /\ UNCHANGED <<now, task, downstream, at, finished, disposed, user,
                 m_time_when_value_should_be_emitted>>

\* on_completed locks the observer, then takes what waits.
CompletedLock ==
  /\ pc[Source] = "completed" /\ mutex = NoOne
  /\ mutex' = Source
  /\ val' = [val EXCEPT ![Source] = m_value_to_be_emitted]
  /\ m_value_to_be_emitted' = NoValue
  /\ Goto(Source, IF m_value_to_be_emitted = NoValue THEN "complete" ELSE "flush")
  /\ UNCHANGED <<now, task, downstream, at, finished, disposed, user,
                 m_time_when_value_should_be_emitted>>

FlushEnter ==
  /\ pc[Source] = "flush"
  /\ IF closed THEN Goto(Source, "complete") /\ UNCHANGED downstream
               ELSE Goto(Source, "in_flush") /\ BeginNext(Source, val[Source])
  /\ UNCHANGED <<now, task, mutex, val, at, finished, disposed, user, own>>

FlushLeave ==
  /\ pc[Source] = "in_flush"
  /\ EndNext(Source)
  /\ Goto(Source, "complete")
  /\ UNCHANGED <<now, task, mutex, val, at, finished, user, own>>

ErrorLock ==
  /\ pc[Source] = "error" /\ mutex = NoOne
  /\ mutex' = Source
  /\ Goto(Source, "complete")
  /\ UNCHANGED <<now, task, downstream, val, at, finished, disposed, user, own>>

TerminalEnter ==
  /\ pc[Source] = "complete"
  /\ IF closed THEN Goto(Source, "unlock") /\ UNCHANGED downstream
               ELSE Goto(Source, "in_terminal") /\ BeginTerminal(Source, finished)
  /\ UNCHANGED <<now, task, mutex, val, at, finished, disposed, user, own>>

TerminalLeave ==
  /\ pc[Source] = "in_terminal"
  /\ EndTerminal(Source)
  /\ Goto(Source, "unlock")
  /\ UNCHANGED <<now, task, mutex, val, at, finished, user, own>>

Unlock ==
  /\ pc[Source] = "unlock"
  /\ mutex' = NoOne
  /\ Goto(Source, "done")
  /\ UNCHANGED <<now, task, downstream, val, at, finished, disposed, user, own>>

-----------------------------------------------------------------------------
(* extract_value_or_time, the begin of the task.                            *)

NothingToEmit ==
  m_time_when_value_should_be_emitted = NoTime \/ m_value_to_be_emitted = NoValue

ExtractNothing ==
  /\ pc[Worker] = "run" /\ NothingToEmit
  /\ Goto(Worker, "idle")
  /\ UNCHANGED <<now, task, mutex, downstream, val, at, finished, disposed, user, own>>

\* A newer value has moved the time point: the task waits for that one.
ExtractTime ==
  /\ pc[Worker] = "run" /\ ~NothingToEmit
  /\ m_time_when_value_should_be_emitted > now
  /\ task' = m_time_when_value_should_be_emitted
  /\ Goto(Worker, "idle")
  /\ UNCHANGED <<now, mutex, downstream, val, at, finished, disposed, user, own>>

\* Mutant: the value is taken at the time point the task was made with.
ExtractValueStale ==
  /\ pc[Worker] = "run" /\ ~NothingToEmit
  /\ val' = [val EXCEPT ![Worker] = m_value_to_be_emitted]
  /\ m_value_to_be_emitted' = NoValue
  /\ m_time_when_value_should_be_emitted' = NoTime
  /\ Goto(Worker, "next")
  /\ UNCHANGED <<now, task, mutex, downstream, at, finished, disposed, user>>

ExtractValue ==
  /\ pc[Worker] = "run" /\ ~NothingToEmit
  /\ m_time_when_value_should_be_emitted <= now
  /\ val' = [val EXCEPT ![Worker] = m_value_to_be_emitted]
  /\ m_value_to_be_emitted' = NoValue
  /\ m_time_when_value_should_be_emitted' = NoTime
  /\ Goto(Worker, "next")
  /\ UNCHANGED <<now, task, mutex, downstream, at, finished, disposed, user>>

\* Mutant: the observer is called without its mutex.
DeliverEnterUnlocked ==
  /\ pc[Worker] = "next"
  /\ IF closed
     THEN Goto(Worker, "idle") /\ UNCHANGED <<mutex, downstream>>
     ELSE UNCHANGED mutex /\ BeginNext(Worker, val[Worker]) /\ Goto(Worker, "in_next")
  /\ UNCHANGED <<now, task, val, at, finished, disposed, user, own>>

DeliverEnter ==
  /\ pc[Worker] = "next" /\ mutex = NoOne
  /\ IF closed
     THEN Goto(Worker, "idle") /\ UNCHANGED <<mutex, downstream>>
     ELSE mutex' = Worker /\ BeginNext(Worker, val[Worker]) /\ Goto(Worker, "in_next")
  /\ UNCHANGED <<now, task, val, at, finished, disposed, user, own>>

DeliverLeave ==
  /\ pc[Worker] = "in_next"
  /\ EndNext(Worker)
  /\ mutex' = NoOne
  /\ Goto(Worker, "idle")
  /\ UNCHANGED <<now, task, val, at, finished, user, own>>

-----------------------------------------------------------------------------
SourceStep ==
  \/ Emplace \/ CompletedLock \/ FlushEnter \/ FlushLeave
  \/ ErrorLock \/ TerminalEnter \/ TerminalLeave \/ Unlock
WorkerStep ==
  ExtractNothing \/ ExtractTime \/ ExtractValue \/ DeliverEnter \/ DeliverLeave

Next == (Shared /\ UNCHANGED own) \/ SourceStep \/ WorkerStep

Spec == Init /\ [][Next]_vars

-----------------------------------------------------------------------------
TypeOK ==
  /\ CommonTypeOK
  /\ m_value_to_be_emitted \in 0..MaxEmits
  /\ m_time_when_value_should_be_emitted \in Times \union {NoTime}

\* "Only emit emission if specified period of time has passed without any other
\* emission": a value that the subscriber got was the last one for a Period,
\* or the last one of a source that completed, and the order is kept.
OnlyAfterQuiet ==
  \A i \in 1..Len(got) :
    /\ i < Len(got) => got[i] < got[i + 1]
    /\ \/ got[i] = Len(at) /\ (finished = "completed" \/ now >= Capped(at[got[i]] + Period))
       \/ got[i] < Len(at) /\ at[got[i] + 1] >= Capped(at[got[i]] + Period)
=============================================================================
