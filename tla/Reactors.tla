------------------------------- MODULE Reactors -------------------------------
(***************************************************************************)
(* The reactors of rppgrpc: base_writer passes the emissions of an observer  *)
(* to a gRPC stream that takes one write at a time, base_reader makes an      *)
(* observable of what the stream brings.  The six reactors differ in the      *)
(* halves they have and in what they do when an operation fails, when the     *)
(* call is cancelled and when the writer is finished.                        *)
(*                                                                         *)
(* gRPC is external and known by its use here: an operation that was started  *)
(* is answered by one On...Done(ok), OnDone comes last, once the call is       *)
(* finished and nothing is under way, OnCancel at most once before it.  A     *)
(* section of m_write_mutex is one step.                                    *)
(***************************************************************************)
EXTENDS Integers, Sequences, FiniteSets, SequencesExt

CONSTANTS Producers, \* threads that emit into get_observer()
          MaxCalls,  \* bound: their calls
          MaxReads   \* bound: messages the stream brings

Servers == {"server_bidi", "server_write", "server_read"}
Clients == {"client_bidi", "client_write", "client_read"}
Kinds == Servers \union Clients

VARIABLES
  kind,        \* which of the reactors
  m_write,     \* messages not yet written, the one under way first
  m_finished,  \* what ended the writer: "no", "completed" or "error"
  m_subject,   \* the subject behind get_observer(): "open", "ended", "disposed"
  pc, message, \* per producer: its place in a call, the message in hand
  writing,     \* operations under way: writes
  reading,     \* ... and reads
  written,     \* messages StartWrite was called with, in order
  finish,      \* statuses of Finish, and "writes_done" of StartWritesDone
  observable,  \* get_observable(): "open", "completed", "error"
  read,        \* messages it has emitted
  call,        \* the RPC: "open", "cancelled", "done"
  failed,      \* an operation has failed
  calls, accepted  \* history: calls, messages the writer has taken

writer == <<m_write, m_finished, m_subject, pc, message>>
stream == <<writing, reading, written, finish, call, failed>>
reader == <<observable, read>>
vars == <<kind, writer, stream, reader, calls, accepted>>

HasWriter == kind \notin {"server_read", "client_read"}
HasReader == kind \notin {"server_write", "client_write"}

\* The constructor, or init() of a client, starts the first read.
Init ==
  /\ kind \in Kinds
  /\ m_write = <<>> /\ m_finished = "no" /\ m_subject = "open"
  /\ pc = [p \in Producers |-> "idle"] /\ message = [p \in Producers |-> 0]
  /\ writing = 0 /\ reading = IF HasReader THEN 1 ELSE 0
  /\ written = <<>> /\ finish = <<>>
  /\ observable = "open" /\ read = 0
  /\ call = "open" /\ failed = FALSE
  /\ calls = 0 /\ accepted = <<>>

StartWrite(m) == writing' = writing + 1 /\ written' = Append(written, m)

\* finish_writes: a server finishes the call, a client its half of it.
FinishWrites(status) == finish' = Append(finish, IF kind \in Servers THEN status ELSE "writes_done")

-----------------------------------------------------------------------------
(* base_writer: the emissions, on the threads of the producers              *)

\* on_next of the subject looks for the writer before it waits for its turn.
Emit(p) ==
  /\ HasWriter /\ call # "done" /\ pc[p] = "idle" /\ calls < MaxCalls
  /\ calls' = calls + 1
  /\ m_subject = "open"
  /\ pc' = [pc EXCEPT ![p] = "write"] /\ message' = [message EXCEPT ![p] = calls + 1]
  /\ UNCHANGED <<kind, m_write, m_finished, m_subject, stream, reader, accepted>>

\* The queue takes the message; the first of a queue is started at once.  An
\* observer that was completed meanwhile drops it.
OnNext(p) ==
  /\ pc[p] = "write"
  /\ pc' = [pc EXCEPT ![p] = "idle"] /\ message' = [message EXCEPT ![p] = 0]
  /\ IF m_finished # "no" THEN UNCHANGED <<m_write, writing, written, accepted>>
     ELSE /\ m_write' = Append(m_write, message[p])
          /\ accepted' = Append(accepted, message[p])
          /\ IF m_write = <<>> THEN StartWrite(message[p]) ELSE UNCHANGED <<writing, written>>
  /\ UNCHANGED <<kind, m_finished, m_subject, reading, finish, call, failed, reader, calls>>

\* on_error and on_completed: the call is finished now, or after the last write.
OnTerminal(p) ==
  /\ HasWriter /\ call # "done" /\ pc[p] = "idle" /\ calls < MaxCalls
  /\ m_subject = "open" /\ calls' = calls + 1
  /\ m_subject' = "ended"
  /\ \E how \in {"completed", "error"} :
       /\ m_finished' = how
       /\ IF m_write = <<>>
          THEN FinishWrites(IF how = "error" THEN "INTERNAL" ELSE "OK")
          ELSE UNCHANGED finish
  /\ UNCHANGED <<kind, m_write, pc, message, writing, reading, written, call, failed, reader, accepted>>

-----------------------------------------------------------------------------
(* The answers of gRPC                                                      *)

\* handle_write_done: the next message, or the end that waited for the last.
OnWriteDone ==
  /\ writing > 0
  /\ m_write' = Tail(m_write)
  /\ IF Len(m_write) > 1
     THEN written' = Append(written, m_write[2]) /\ UNCHANGED <<writing, finish>>
     ELSE /\ writing' = writing - 1 /\ UNCHANGED written
          /\ IF m_finished # "no" THEN FinishWrites("OK") ELSE UNCHANGED finish
  /\ UNCHANGED <<kind, m_finished, m_subject, pc, message, reading, call, failed, reader, calls, accepted>>

\* OnWriteDone(false): only server_write_reactor does anything about it.
OnWriteFailed ==
  /\ writing > 0
  /\ writing' = writing - 1 /\ failed' = TRUE
  /\ finish' = IF kind = "server_write" THEN Append(finish, "OK") ELSE finish
  /\ UNCHANGED <<kind, writer, reading, written, call, reader, calls, accepted>>

\* The observable's subject drops what comes after its end.
OnReadDone ==
  /\ reading > 0 /\ read < MaxReads
  /\ read' = IF observable = "open" THEN read + 1 ELSE read
  /\ UNCHANGED <<kind, writer, stream, observable, calls, accepted>>

\* OnReadDone(false): the other side is through; server_read_reactor finishes.
OnReadFailed ==
  /\ reading > 0
  /\ reading' = reading - 1
  /\ finish' = IF kind = "server_read" THEN Append(finish, "OK") ELSE finish
  /\ UNCHANGED <<kind, writer, writing, written, call, failed, reader, calls, accepted>>

EndObservable(how) == observable' = IF observable = "open" THEN how ELSE observable

\* OnCancel of a server: the writer is off, the observable fails, Finish.
OnCancel ==
  /\ kind \in Servers /\ call = "open"
  /\ call' = "cancelled"
  /\ m_subject' = IF HasWriter /\ m_subject = "open" THEN "disposed" ELSE m_subject
  /\ EndObservable("error")
  /\ finish' = IF HasWriter THEN Append(finish, "CANCELLED") ELSE finish
  /\ UNCHANGED <<kind, m_write, m_finished, pc, message, writing, reading, written, failed, read, calls, accepted>>

\* OnDone: the status of a client may be an error.  The reactor deletes itself;
\* an emission that is under way then has nothing to work on, and is left out.
OnDone ==
  /\ call # "done" /\ writing = 0 /\ reading = 0
  /\ kind \in Servers => finish # <<>>
  /\ \A p \in Producers : pc[p] = "idle"
  /\ call' = "done"
  /\ m_subject' = IF HasWriter /\ m_subject = "open" THEN "disposed" ELSE m_subject
  /\ \E how \in IF kind \in Servers THEN {"completed"} ELSE {"completed", "error"} : EndObservable(how)
  /\ UNCHANGED <<kind, m_write, m_finished, pc, message, writing, reading, written, finish,
                 failed, read, calls, accepted>>

Next ==
  \/ \E p \in Producers : Emit(p) \/ OnNext(p) \/ OnTerminal(p)
  \/ OnWriteDone \/ OnWriteFailed \/ OnReadDone \/ OnReadFailed \/ OnCancel \/ OnDone

Spec == Init /\ [][Next]_vars

-----------------------------------------------------------------------------
TypeOK ==
  /\ kind \in Kinds
  /\ m_write \in Seq(1..MaxCalls) /\ m_finished \in {"no", "completed", "error"}
  /\ m_subject \in {"open", "ended", "disposed"}
  /\ pc \in [Producers -> {"idle", "write"}] /\ message \in [Producers -> 0..MaxCalls]
  /\ writing \in 0..1 /\ reading \in 0..1
  /\ written \in Seq(1..MaxCalls) /\ accepted \in Seq(1..MaxCalls)
  /\ finish \in Seq({"OK", "INTERNAL", "CANCELLED", "writes_done"})
  /\ observable \in {"open", "completed", "error"} /\ read \in 0..MaxReads
  /\ call \in {"open", "cancelled", "done"} /\ failed \in BOOLEAN /\ calls \in 0..MaxCalls

\* However many threads emit, the stream has one write under way at most, of the
\* first message in the queue, and gets the messages once each, in the order the
\* writer took them: what is not in the queue any more has been written.
OneWriteInOrder ==
  /\ writing <= 1 /\ IsPrefix(written, accepted)
  /\ ~failed => /\ m_write # <<>> <=> writing = 1
                /\ accepted = written \o (IF m_write = <<>> THEN <<>> ELSE Tail(m_write))

\* As long as nothing fails and nobody cancels, the call is finished once, when
\* the writer has ended and its last message is through, and not forgotten then.
FinishesAfterLastWrite ==
  HasWriter /\ ~failed /\ call # "cancelled" /\ "CANCELLED" \notin ToSet(finish) =>
    /\ Len(finish) = IF m_finished # "no" /\ m_write = <<>> THEN 1 ELSE 0
    /\ finish # <<>> => written = accepted

\* The observable always ends, and the producers are cut off, when the call does.
EndsWithTheCall ==
  call = "done" => observable # "open" /\ (HasWriter => m_subject # "open")
=============================================================================
