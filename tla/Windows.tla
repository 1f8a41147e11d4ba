------------------------------- MODULE Windows -------------------------------
(***************************************************************************)
(* window, window_toggle and group_by: operators that hand out observables.  *)
(* Each window is a subject (SubjectState has its inside) that the operator   *)
(* feeds; a group is a window that is never closed.  Everybody who listens,   *)
(* the subscriber of the result and one per window here, has a handle of one *)
(* refcount_disposable (RefCountDisposable has its inside); when the last is  *)
(* gone the source is unsubscribed.                                         *)
(*                                                                         *)
(* The source, window_toggle's openings and the closing observable of each   *)
(* window call from threads of their own.  A thread works off the calls it   *)
(* has to make, todo, one after the other; somebody may subscribe to a       *)
(* window, or leave, between any two and inside any of them.                 *)
(***************************************************************************)
EXTENDS Integers, Sequences, FiniteSets, SequencesExt

CONSTANTS MaxWindows,  \* bound: windows opened
          MaxValues,   \* bound: values of the source, per operator
          Size         \* the argument of window, and the number of keys of group_by

Kinds == {"window", "window_toggle", "group_by"}
Wins == 1..MaxWindows
Outer == 0               \* the observer of the result
Targets == Wins \union {Outer}
Source == -1
Openings == -2
Parties == Wins \union {Source, Openings}  \* w: the closing observable of w
NoOne == 0

VARIABLES
  kind,       \* "window", "window_toggle" or "group_by"
  mutex,      \* window_toggle's mutex
  value,      \* values of the source so far
  items,      \* m_items_in_current_window
  listed,     \* windows the operator has an observer of, in order
  subject,    \* per window: "none", "open", how it ended, or "disposed"
  offered,    \* windows the subscriber of the result has been given
  closed,     \* observers that are disposed, or that nothing can reach
  told,       \* per observer: "no", "completed" or "error"
  got,        \* per window: what its observer received
  inside,     \* per observer: threads in a callback of it
  joined,     \* windows that were open when somebody subscribed to them
  handles,    \* handles of the refcount_disposable
  disposed,   \* the refcount_disposable, and with it the source
  todo, pc,   \* per thread: calls to make, and the handler that makes them
  sent        \* history: values passed to each window

windows == <<listed, subject, items, sent>>
observers == <<offered, closed, told, got, inside, joined>>
sharing == <<handles, disposed>>
vars == <<kind, mutex, value, windows, observers, sharing, todo, pc>>

Init ==
  /\ kind \in Kinds
  /\ mutex = NoOne /\ value = 0
  /\ items = Size  \* so that the first value opens a window
  /\ listed = <<>> /\ subject = [w \in Wins |-> "none"] /\ sent = [w \in Wins |-> <<>>]
  /\ offered = {} /\ closed = {} /\ joined = {}
  /\ told = [o \in Targets |-> "no"]
  /\ got = [w \in Wins |-> <<>>]
  /\ inside = [o \in Targets |-> {}]
  /\ handles = {Outer} /\ disposed = FALSE
  /\ todo = [t \in Parties |-> <<>>]
  /\ pc = [t \in Parties |-> IF t \in Wins THEN "none" ELSE "idle"]

\* A call to make: of which observer, and what; w is the window offered.
Call(o, how, w) == [to |-> o, how |-> how, w |-> w]
Pass(w) == Call(w, "next", Outer)
Offer(w) == Call(Outer, "next", w)
End(o, how) == Call(o, how, Outer)
EndAll(how) == [i \in 1..Len(listed) |-> End(listed[i], how)] \o <<End(Outer, how)>>

Go(t, label, calls) == pc' = [pc EXCEPT ![t] = label] /\ todo' = [todo EXCEPT ![t] = calls]
Opened == {w \in Wins : subject[w] # "none"}
Fresh == Cardinality(Opened) + 1

\* window_toggle's handlers run under its mutex, the others have one caller.
Lock(t) ==
  IF kind = "window_toggle" THEN mutex = NoOne /\ mutex' = t ELSE UNCHANGED mutex
Unlock(t) == mutex' = IF mutex = t THEN NoOne ELSE mutex

\* refcount_disposable: the last handle disposes the source and all subjects.
Release(o) ==
  /\ handles' = handles \ {o}
  /\ disposed' = (disposed \/ handles \subseteq {o})
\* window_toggle offers a window before it adds the subject.
Added(w) == ~(pc[Openings] = "opening" /\ w = Fresh - 1)
DisposeSubjects ==
  subject' = [w \in Wins |->
    IF disposed' /\ subject[w] = "open" /\ Added(w) THEN "disposed" ELSE subject[w]]

-----------------------------------------------------------------------------
(* One call: a subject passes it on to its observer if it is open, and an    *)
(* observer takes it if it is not disposed.                                 *)

Open(o) == o = Outer \/ subject[o] = "open"
Taken(o) == o \notin closed /\ Open(o) /\ (o = Outer \/ o \in joined)
InCall(t) == todo[t] # <<>> /\ t \in inside[Head(todo[t]).to]

BeginCall(t) ==
  /\ todo[t] # <<>> /\ ~InCall(t)
  /\ LET c == Head(todo[t])
         toWindow == c.to # Outer /\ Open(c.to)
     IN
     /\ IF Taken(c.to)
        THEN /\ inside' = [inside EXCEPT ![c.to] = @ \union {t}]
             /\ told' = [told EXCEPT ![c.to] = IF c.how = "next" THEN @ ELSE c.how]
             /\ got' = IF toWindow /\ c.how = "next"
                       THEN [got EXCEPT ![c.to] = Append(@, value)] ELSE got
             /\ offered' = offered \union ({c.w} \ {Outer})
             /\ UNCHANGED todo
        ELSE todo' = [todo EXCEPT ![t] = Tail(@)] /\ UNCHANGED <<inside, told, got, offered>>
     /\ sent' = IF toWindow /\ c.how = "next"
                THEN [sent EXCEPT ![c.to] = Append(@, value)] ELSE sent
     /\ subject' = IF toWindow /\ c.how # "next"
                   THEN [subject EXCEPT ![c.to] = c.how] ELSE subject
  /\ UNCHANGED <<mutex, value, listed, items, closed, joined, sharing, pc>>

\* After a terminal call the observer disposes its handle.
EndCall(t) ==
  /\ InCall(t)
  /\ LET c == Head(todo[t]) IN
     /\ inside' = [inside EXCEPT ![c.to] = @ \ {t}]
     /\ IF c.how = "next" THEN UNCHANGED <<closed, sharing, subject>>
        ELSE closed' = closed \union {c.to} /\ Release(c.to) /\ DisposeSubjects
  /\ todo' = [todo EXCEPT ![t] = Tail(@)]
  /\ UNCHANGED <<mutex, value, listed, items, sent, offered, told, got, joined, pc>>

-----------------------------------------------------------------------------
(* The observer of the source.                                              *)

Rest == UNCHANGED <<observers, sharing>>

\* window: the first value opens a window; the last completes it, and the
\* operator has no observer of it any more.
WindowNext ==
  LET opens == items = Size
      w == IF opens THEN Fresh ELSE Last(listed)
      n == IF opens THEN 1 ELSE items + 1
  IN /\ w \in Wins
     /\ listed' = IF n = Size THEN <<>> ELSE <<w>>
     /\ subject' = [subject EXCEPT ![w] = IF opens THEN "open" ELSE @]
     /\ items' = n
     /\ Go(Source, "calling",
           (IF opens THEN <<Offer(w)>> ELSE <<>>) \o <<Pass(w)>> \o
           (IF n = Size THEN <<End(w, "completed")>> ELSE <<>>))

\* group_by: a key that is new opens a group, unless nobody takes the result;
\* Size keys in turn, and group w has key w.
GroupNext ==
  LET w == (value % Size) + 1
      known == Contains(listed, w)
      opens == ~known /\ Outer \notin closed
  IN /\ listed' = IF opens THEN Append(listed, w) ELSE listed
     /\ subject' = [subject EXCEPT ![w] = IF opens THEN "open" ELSE @]
     /\ Go(Source, "calling",
           (IF opens THEN <<Offer(w)>> ELSE <<>>) \o
           (IF opens \/ known THEN <<Pass(w)>> ELSE <<>>))
     /\ UNCHANGED items

\* window_toggle: all windows get the value.
ToggleNext ==
  /\ Go(Source, "calling", [i \in 1..Len(listed) |-> Pass(listed[i])])
  /\ UNCHANGED <<listed, subject, items>>

SourceNext ==
  /\ pc[Source] = "idle" /\ ~disposed /\ value < MaxValues[kind]
  /\ value' = value + 1
  /\ Lock(Source)
  /\ \/ kind = "window" /\ WindowNext
     \/ kind = "group_by" /\ GroupNext
     \/ kind = "window_toggle" /\ ToggleNext
  /\ UNCHANGED sent /\ Rest

\* The end goes to all windows first, then to the subscriber of the result.
SourceEnds ==
  /\ pc[Source] = "idle" /\ ~disposed
  /\ Lock(Source)
  /\ \E how \in {"completed", "error"} : Go(Source, "ending", EndAll(how))
  /\ UNCHANGED <<value, windows>> /\ Rest

\* All calls are made.
Return(t) ==
  /\ pc[t] \in {"calling", "ending"} /\ todo[t] = <<>>
  /\ Unlock(t)
  /\ Go(t, IF pc[t] = "calling" THEN "idle" ELSE "done", <<>>)
  /\ UNCHANGED <<value, windows>> /\ Rest

-----------------------------------------------------------------------------
(* window_toggle's openings and closings.                                   *)

\* on_new_subject: the window is listed and offered under the mutex.
OpeningNext ==
  /\ kind = "window_toggle" /\ pc[Openings] = "idle" /\ ~disposed /\ Fresh \in Wins
  /\ Lock(Openings)
  /\ listed' = Append(listed, Fresh)
  /\ subject' = [subject EXCEPT ![Fresh] = "open"]
  /\ Go(Openings, "opening", <<Offer(Fresh)>>)
  /\ UNCHANGED <<value, items, sent>> /\ Rest

\* The mutex is back; the subject is added to the refcount_disposable, which
\* may be disposed by now, and the closing observable is subscribed to.
OpeningAdds ==
  /\ pc[Openings] = "opening" /\ todo[Openings] = <<>>
  /\ Unlock(Openings)
  /\ pc' = [pc EXCEPT ![Openings] = "idle", ![Fresh - 1] = "idle"]
  /\ subject' = [subject EXCEPT ![Fresh - 1] = IF disposed /\ @ = "open" THEN "disposed" ELSE @]
  /\ UNCHANGED <<value, listed, items, sent, todo>> /\ Rest

\* An error of openings or of a closing is everybody's; the end of openings is
\* nobody's.  The observer of a closing is disposed with its window.
OpeningOrClosingError(t) ==
  /\ kind = "window_toggle" /\ pc[t] = "idle"
  /\ IF t = Openings THEN ~disposed ELSE subject[t] = "open"
  /\ Lock(t)
  /\ Go(t, "ending", EndAll("error"))
  /\ UNCHANGED <<value, windows>> /\ Rest

\* A value or the end of a closing observable completes its window, without the
\* mutex ...
Closing(w) ==
  /\ pc[w] = "idle" /\ subject[w] = "open"
  /\ Go(w, "closing", <<End(w, "completed")>>)
  /\ UNCHANGED <<mutex, value, windows>> /\ Rest

\* ... and its observer is erased under it.
Erase(w) ==
  /\ pc[w] = "closing" /\ todo[w] = <<>> /\ mutex = NoOne
  /\ listed' = RemoveFirst(listed, w)
  /\ Go(w, "done", <<>>)
  /\ UNCHANGED <<mutex, value, subject, items, sent>> /\ Rest

-----------------------------------------------------------------------------
(* Subscribers.                                                             *)

\* The observable of a window has a weak pointer to its subject, which lives as
\* long as somebody has the observer of it; that of a group has the subject.
There(w) ==
  \/ kind = "group_by" \/ Contains(listed, w)
  \/ \E t \in Parties : \E i \in 1..Len(todo[t]) : todo[t][i].to = w

\* add_ref, then on_subscribe of the subject: one that has ended says so; one
\* that is gone or disposed says nothing.  Nor does one that is open though the
\* refcount_disposable is disposed, whoever joins it: the source is unsubscribed
\* and OpeningAdds will dispose it.
SubscribeWindow(w) ==
  /\ w \in offered \ (joined \union closed)
  /\ IF subject[w] = "open" /\ ~disposed
     THEN /\ joined' = joined \union {w} /\ handles' = handles \union {w}
          /\ UNCHANGED <<told, closed>>
     ELSE /\ closed' = closed \union {w}
          /\ told' = [told EXCEPT ![w] =
               IF There(w) /\ subject[w] \in {"completed", "error"} THEN subject[w] ELSE "no"]
          /\ UNCHANGED <<joined, handles>>
  /\ UNCHANGED <<mutex, value, windows, offered, got, inside, disposed, todo, pc>>

Leave(o) ==
  /\ o \in ({Outer} \union joined) \ closed
  /\ closed' = closed \union {o}
  /\ Release(o) /\ DisposeSubjects
  /\ UNCHANGED <<mutex, value, listed, items, sent, offered, told, got, inside, joined, todo, pc>>

-----------------------------------------------------------------------------
Handle(t) ==
  \/ BeginCall(t) \/ EndCall(t) \/ Return(t)
  \/ t = Openings /\ OpeningAdds
  \/ t \in Wins /\ Erase(t)

Next ==
  /\ \/ SourceNext \/ SourceEnds
     \/ OpeningNext \/ \E t \in Parties \ {Source} : OpeningOrClosingError(t)
     \/ \E w \in Wins : Closing(w) \/ SubscribeWindow(w)
     \/ \E o \in Targets : Leave(o)
     \/ \E t \in Parties : Handle(t)
  /\ UNCHANGED kind

Spec == Init /\ [][Next]_vars

-----------------------------------------------------------------------------
TypeOK ==
  /\ mutex \in Parties \union {NoOne}
  /\ value \in 0..MaxValues[kind] /\ items \in 1..Size
  /\ \A w \in Wins : subject[w] \in {"none", "open", "completed", "error", "disposed"}
  /\ offered \subseteq Opened /\ joined \subseteq offered
  /\ handles \subseteq {Outer} \union joined
  /\ disposed \in BOOLEAN
  /\ \A t \in Parties : pc[t] \in {"none", "idle", "calling", "ending", "opening", "closing", "done"}

\* The source lives exactly as long as somebody listens, to the result or to any
\* window: nobody is cut off because somebody else left, and the last to leave
\* unsubscribes it.
SourceKept == disposed <=> {Outer} \union joined \subseteq closed

\* Which window a value belongs to, whoever comes and goes: of window and of
\* group_by each value has its own, and of window_toggle a window has all values
\* between two moments.  An observer has all of that from when it joined.
Belongs(w, v) == IF kind = "window" THEN ((v - 1) \div Size) + 1 = w ELSE ((v - 1) % Size) + 1 = w

EachValueInItsWindow ==
  \A w \in Wins :
    /\ IsSuffix(got[w], sent[w]) \/ w \in closed \/ told[w] # "no"
    /\ \A i \in 1..Len(sent[w]) :
         IF kind = "window_toggle" THEN i > 1 => sent[w][i] = sent[w][i - 1] + 1
         ELSE Belongs(w, sent[w][i]) /\ (i > 1 => sent[w][i] > sent[w][i - 1])
    /\ kind = "window" /\ subject[w] = "completed" /\ pc[Source] # "ending" /\ pc[Source] # "done" =>
         Len(sent[w]) = Size

\* Of window and group_by, one call at a time for every observer, and none after
\* the last.
Serial ==
  kind # "window_toggle" =>
    \A o \in Targets : Cardinality(inside[o]) <= 1

\* observables.hpp: built-in operators emit emissions serially.
SerialToggle == \A w \in joined : Cardinality(inside[w]) <= 1

\* Whoever listens to a window is told how it ended, by the time the source's end
\* or its own closing has been dealt with.
WindowsEnd ==
  \A w \in joined :
    pc[Source] = "done" \/ pc[w] = "done" =>
      w \in closed \/ inside[w] # {}
=============================================================================
