--------------------------------- MODULE Delay ---------------------------------
(***************************************************************************)
(* rpp::operators::delay, and observe_on (ClearOnError): what the source    *)
(* calls waits in a queue, from which one task at a time feeds the          *)
(* observer.  The mutex guards the queue; the observer is called without it *)
(* by the task, and with it by the on_error of observe_on.                  *)
(***************************************************************************)
EXTENDS ScheduledOperator

VARIABLES ClearOnError,  \* the template parameter: delay FALSE, observe_on TRUE
          queue,         \* emissions that wait, each with its time point
          is_active      \* a task is scheduled or drains the queue

own == <<ClearOnError, queue, is_active>>
vars == <<common, own>>

Init ==
  /\ CommonInit
  /\ task = NoTime
  /\ ClearOnError \in BOOLEAN
  /\ queue = <<>>
  /\ is_active = FALSE

Emission == [kind : {"next", "completed", "error"}, value : 0..MaxEmits, time_point : Times]

-----------------------------------------------------------------------------
\* What follows the call of emplace: a terminal call clears the upstream.
AfterEmplace == IF finished = "no" THEN "idle" ELSE "clear"

\* emplace_safe: whoever finds no task active has to schedule one.
Emplace ==
  /\ pc[Source] \in {"next", "completed", "error"}
  /\ ClearOnError => pc[Source] # "error"
  /\ mutex = NoOne
  /\ queue' = Append(queue, [kind |-> pc[Source], value |-> val[Source],
                             time_point |-> Capped(now + Period)])
  /\ at' = IF pc[Source] = "next" THEN Append(at, now) ELSE at
  /\ is_active' = TRUE
  /\ Goto(Source, IF is_active THEN AfterEmplace ELSE "schedule")
  /\ UNCHANGED <<now, task, mutex, downstream, val, finished, disposed, user, ClearOnError>>

\* The emission that made the task active may be taken by nobody else, so its
\* time point is the first in the queue still.
Schedule ==
  /\ pc[Source] = "schedule"
  /\ task' = Head(queue).time_point
  /\ Goto(Source, AfterEmplace)
  /\ UNCHANGED <<now, mutex, downstream, val, at, finished, disposed, user, own>>

\* observe_on forwards an error at once, from the source's thread.
ErrorEnter ==
  /\ pc[Source] = "error" /\ ClearOnError
  /\ mutex = NoOne
  /\ queue' = <<>>
  /\ IF closed
     THEN Goto(Source, "clear") /\ UNCHANGED <<mutex, downstream>>
     ELSE mutex' = Source /\ BeginTerminal(Source, "error") /\ Goto(Source, "in_error")
  /\ UNCHANGED <<now, task, val, at, finished, disposed, user, ClearOnError, is_active>>

ErrorLeave ==
  /\ pc[Source] = "in_error"
  /\ EndTerminal(Source)
  /\ mutex' = NoOne
  /\ Goto(Source, "clear")
  /\ UNCHANGED <<now, task, val, at, finished, user, own>>

\* clear() of the state, after a terminal call, disposes what is upstream.
Clear ==
  /\ pc[Source] = "clear"
  /\ Goto(Source, "done")
  /\ UNCHANGED <<now, task, mutex, downstream, val, at, finished, disposed, user, own>>

-----------------------------------------------------------------------------
(* drain_queue, the task.  "again" is just_schedule: after one emission the  *)
(* task goes back to the scheduler for the next.                            *)

Draining == pc[Worker] \in {"run", "again"} /\ mutex = NoOne

\* Mutant: the task ends and leaves is_active behind.
DrainEmptyStaysActive ==
  /\ Draining /\ queue = <<>>
  /\ Goto(Worker, "idle")
  /\ UNCHANGED <<now, task, mutex, downstream, val, at, finished, disposed, user, own>>

DrainEmpty ==
  /\ Draining /\ queue = <<>>
  /\ is_active' = FALSE
  /\ Goto(Worker, "idle")
  /\ UNCHANGED <<now, task, mutex, downstream, val, at, finished, disposed, user, ClearOnError, queue>>

DrainLater ==
  /\ Draining /\ queue # <<>>
  /\ pc[Worker] = "again" \/ Head(queue).time_point > now
  /\ task' = Head(queue).time_point
  /\ Goto(Worker, "idle")
  /\ UNCHANGED <<now, mutex, downstream, val, at, finished, disposed, user, own>>

\* Mutant: an emission is taken whatever its time point.
DrainNextEarly ==
  /\ Draining /\ queue # <<>>
  /\ val' = [val EXCEPT ![Worker] = Head(queue).value]
  /\ Goto(Worker, Head(queue).kind)
  /\ queue' = Tail(queue)
  /\ UNCHANGED <<now, task, mutex, downstream, at, finished, disposed, user, ClearOnError, is_active>>

DrainNext ==
  /\ Draining /\ queue # <<>>
  /\ pc[Worker] = "run" /\ Head(queue).time_point <= now
  /\ val' = [val EXCEPT ![Worker] = Head(queue).value]
  /\ Goto(Worker, Head(queue).kind)
  /\ queue' = Tail(queue)
  /\ UNCHANGED <<now, task, mutex, downstream, at, finished, disposed, user, ClearOnError, is_active>>

\* The emission reaches the observer, with no mutex held.
DeliverEnter ==
  /\ pc[Worker] \in {"next", "completed", "error"}
  /\ IF closed
     THEN Goto(Worker, "again") /\ UNCHANGED downstream
     ELSE /\ Goto(Worker, IF pc[Worker] = "next" THEN "in_next" ELSE "in_terminal")
          /\ IF pc[Worker] = "next" THEN BeginNext(Worker, val[Worker])
                                    ELSE BeginTerminal(Worker, pc[Worker])
  /\ UNCHANGED <<now, task, mutex, val, at, finished, disposed, user, own>>

DeliverLeave ==
  /\ pc[Worker] \in {"in_next", "in_terminal"}
  /\ IF pc[Worker] = "in_next" THEN EndNext(Worker) ELSE EndTerminal(Worker)
  /\ Goto(Worker, "again")
  /\ UNCHANGED <<now, task, mutex, val, at, finished, user, own>>

-----------------------------------------------------------------------------
SourceStep == Emplace \/ Schedule \/ ErrorEnter \/ ErrorLeave \/ Clear
WorkerStep == DrainEmpty \/ DrainLater \/ DrainNext \/ DeliverEnter \/ DeliverLeave

Next == (Shared /\ UNCHANGED own) \/ SourceStep \/ WorkerStep

Spec == Init /\ [][Next]_vars

-----------------------------------------------------------------------------
TypeOK ==
  /\ CommonTypeOK
  /\ queue \in Seq(Emission)
  /\ is_active \in BOOLEAN

\* delay shifts the whole observable: the subscriber gets the values in their
\* order, none before its time, and a delayed end only after all of them; the
\* immediate error of observe_on may drop values, but never reorders them.
Shifts ==
  /\ \A i \in 1..Len(got) : got[i] = i /\ now >= Capped(at[i] + Period)
  /\ ended = "completed" \/ (ended = "error" /\ ~ClearOnError) => Len(got) = Len(at)
=============================================================================
