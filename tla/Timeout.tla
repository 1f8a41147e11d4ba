-------------------------------- MODULE Timeout --------------------------------
(***************************************************************************)
(* rpp::operators::timeout: when the source is silent for a Period, a task  *)
(* disposes it and gives the observer to the fallback observable.  Both     *)
(* happens under the mutex of the observer, under which the source calls.   *)
(***************************************************************************)
EXTENDS ScheduledOperator

VARIABLES timeout,   \* the time point observer_with_timeout holds
          handed     \* the observer has been moved to the fallback observable

own == <<timeout, handed>>
vars == <<common, own>>

\* The task is scheduled with the operator.
Init ==
  /\ CommonInit
  /\ task = Capped(Period)
  /\ timeout = Capped(Period)
  /\ handed = FALSE

-----------------------------------------------------------------------------
\* on_next does not look again, under the mutex, whether the state is disposed:
\* the call may reach an observer that has been moved from, which is undefined;
\* either it does nothing or it is a call of the subscriber all the same.
NextEnter ==
  /\ pc[Source] = "next" /\ mutex = NoOne
  /\ mutex' = Source
  /\ at' = Append(at, now)
  /\ \/ ~closed /\ BeginNext(Source, val[Source])
     \/ (closed \/ handed) /\ UNCHANGED downstream
  /\ Goto(Source, "in_next")
  /\ UNCHANGED <<now, task, val, finished, disposed, user, own>>

NextLeave ==
  /\ pc[Source] = "in_next"
  /\ EndNext(Source)
  /\ timeout' = Capped(now + Period)
  /\ mutex' = NoOne
  /\ Goto(Source, "idle")
  /\ UNCHANGED <<now, task, val, at, finished, user, handed>>

\* Mutant: on_error and on_completed do not look again either.
TerminalEnterUnchecked ==
  /\ pc[Source] \in {"completed", "error"} /\ mutex = NoOne
  /\ IF closed
     THEN Goto(Source, "done") /\ UNCHANGED <<mutex, downstream>>
     ELSE mutex' = Source /\ BeginTerminal(Source, finished) /\ Goto(Source, "in_terminal")
  /\ UNCHANGED <<now, task, val, at, finished, disposed, user, own>>

\* on_error and on_completed do look again.
TerminalEnter ==
  /\ pc[Source] \in {"completed", "error"} /\ mutex = NoOne
  /\ IF disposed \/ closed
     THEN Goto(Source, "done") /\ UNCHANGED <<mutex, downstream>>
     ELSE mutex' = Source /\ BeginTerminal(Source, finished) /\ Goto(Source, "in_terminal")
  /\ UNCHANGED <<now, task, val, at, finished, disposed, user, own>>

TerminalLeave ==
  /\ pc[Source] = "in_terminal"
  /\ EndTerminal(Source)
  /\ mutex' = NoOne
  /\ Goto(Source, "done")
  /\ UNCHANGED <<now, task, val, at, finished, user, own>>

-----------------------------------------------------------------------------
\* The task: there was a value meanwhile, so it waits for the new time point.
TaskAgain ==
  /\ pc[Worker] = "run" /\ mutex = NoOne /\ now < timeout
  /\ task' = timeout
  /\ Goto(Worker, "idle")
  /\ UNCHANGED <<now, mutex, downstream, val, at, finished, disposed, user, own>>

TaskTooLate ==
  /\ pc[Worker] = "run" /\ mutex = NoOne /\ now >= timeout /\ disposed
  /\ Goto(Worker, "idle")
  /\ UNCHANGED <<now, task, mutex, downstream, val, at, finished, disposed, user, own>>

\* The source is unsubscribed and the observer handed over, under its mutex.
TaskHandsOver ==
  /\ pc[Worker] = "run" /\ mutex = NoOne /\ now >= timeout /\ ~disposed
  /\ mutex' = Worker
  /\ disposed' = TRUE
  /\ handed' = TRUE
  /\ Goto(Worker, "subscribe")
  /\ UNCHANGED <<now, task, downstream, val, at, finished, user, timeout>>

\* subscribe() of the fallback: it ends the observable at once, on the worker's
\* thread, or leaves that to a thread of its own.
FallbackAtOnce ==
  /\ pc[Worker] = "subscribe"
  /\ IF closed THEN UNCHANGED downstream /\ Goto(Worker, "unlock")
               ELSE \E how \in {"completed", "error"} : BeginTerminal(Worker, how) /\ Goto(Worker, "in_terminal")
  /\ UNCHANGED <<now, task, mutex, val, at, finished, disposed, user, own>>

FallbackLater ==
  /\ pc[Worker] = "subscribe"
  /\ pc' = [pc EXCEPT ![Worker] = "unlock", ![Fallback] = "running"]
  /\ UNCHANGED <<now, task, mutex, downstream, val, at, finished, disposed, user, own>>

FallbackEnter ==
  /\ pc[Fallback] = "running"
  /\ IF closed THEN UNCHANGED downstream /\ Goto(Fallback, "done")
               ELSE BeginTerminal(Fallback, "completed") /\ Goto(Fallback, "in_terminal")
  /\ UNCHANGED <<now, task, mutex, val, at, finished, disposed, user, own>>

FallbackLeave ==
  \E t \in {Worker, Fallback} :
    /\ pc[t] = "in_terminal"
    /\ EndTerminal(t)
    /\ Goto(t, IF t = Worker THEN "unlock" ELSE "done")
    /\ UNCHANGED <<now, task, mutex, val, at, finished, user, own>>

TaskUnlock ==
  /\ pc[Worker] = "unlock"
  /\ mutex' = NoOne
  /\ Goto(Worker, "idle")
  /\ UNCHANGED <<now, task, downstream, val, at, finished, disposed, user, own>>

-----------------------------------------------------------------------------
SourceStep == NextEnter \/ NextLeave \/ TerminalEnter \/ TerminalLeave
WorkerStep ==
  \/ TaskAgain \/ TaskTooLate \/ TaskHandsOver
  \/ FallbackAtOnce \/ FallbackLater \/ FallbackEnter \/ FallbackLeave \/ TaskUnlock

Next == (Shared /\ UNCHANGED own) \/ SourceStep \/ WorkerStep

Spec == Init /\ [][Next]_vars

-----------------------------------------------------------------------------
TypeOK ==
  /\ CommonTypeOK
  /\ timeout \in Times
  /\ handed \in BOOLEAN

\* One side ends what the subscriber sees: a source that completes or fails
\* while the task gives the observer away does so before, or not at all, and
\* the task gives nothing away before a whole Period without a value has passed.
OneSideEnds ==
  [][ /\ handed /\ pc[Source] \in {"completed", "error"} /\ pc'[Source] # pc[Source] => UNCHANGED ended
      /\ handed' # handed =>
           ended = "no" /\ \A i \in 1..Len(at) : now >= Capped(at[i] + Period) ]_vars
=============================================================================
