----------------------------- MODULE MCOperators -----------------------------
(* The operators that have no CombiningOperator or ScheduledOperator behind    *)
(* them: a behaviour is one of a repeating operator, of one that combines       *)
(* values, of one that hands out windows, of a chain of two sequential ones,    *)
(* and of as_blocking().  All but the third have the same observer downstream. *)
EXTENDS Repeating

CONSTANTS NumSources,   \* observables combined by value
          SourceEmits,  \* bound: values of one of them, and of one that is waited for
          NumWindows,   \* bound: windows opened
          WindowSize,   \* the argument of window, and the number of keys of group_by
          WindowValues  \* bound: values of the source of windows, per operator

VARIABLES
  family,
  c_pc, c_kind, mutex, values, needed, m_stopped, result, c_emitted, finished,
  w_kind, w_mutex, value, items, listed, subject, offered, w_closed, told, w_got, w_inside, joined,
  handles, w_disposed, todo, w_pc, w_sent,
  pipe, source, bad, quirk, nth, chain, sent, end, phase,
  b_pc, place, installed, m_completed, b_emitted

DefLinks == -MaxAttempts..MaxAttempts

Combining == INSTANCE CombiningByValue WITH
  MaxEmits <- SourceEmits, Threads <- 0..NumSources, Links <- 0..NumSources,
  pc <- c_pc, kind <- c_kind, emitted <- c_emitted

\* Bounds: two windows are filled, three values come back to the first group, and
\* a value comes to a toggled window after another.
TwoWindows == [window |-> 2 * WindowSize, group_by |-> 3, window_toggle |-> 2]

ASSUME NumSourcesAssumption == NumSources \in Nat \ {0}
\* The observer is one: among its threads are one per source, and as_blocking's.
ASSUME ThreadsShared == 2 <= MaxAttempts /\ NumSources <= MaxAttempts
ASSUME SourceEmitsAssumption == SourceEmits \in Nat
ASSUME WindowsAssumption ==
  NumWindows \in Nat /\ WindowSize \in 1..NumWindows
  /\ WindowValues \in [{"window", "group_by", "window_toggle"} -> Nat]

Window == INSTANCE Windows WITH
  MaxWindows <- NumWindows, Size <- WindowSize, MaxValues <- WindowValues,
  kind <- w_kind, mutex <- w_mutex, closed <- w_closed, got <- w_got, inside <- w_inside,
  disposed <- w_disposed, pc <- w_pc, sent <- w_sent

Chain == INSTANCE Sequential WITH Numbers <- {1, 2}, MaxLength <- 3, MaxArgument <- 2

Blocking == INSTANCE Blocking WITH
  MaxEmits <- SourceEmits, Threads <- 0..2, Links <- {}, pc <- b_pc, emitted <- b_emitted

ofRepeating == <<pc, kind, asked, counters, emitted>>
ofCombining == <<c_pc, c_kind, mutex, values, needed, m_stopped, result, c_emitted, finished>>
ofWindow == <<w_kind, w_mutex, value, items, listed, subject, offered, w_closed, told, w_got, w_inside,
              joined, handles, w_disposed, todo, w_pc, w_sent>>
ofChain == <<pipe, source, bad, quirk, nth, chain, sent, end, phase>>
ofBlocking == <<b_pc, place, installed, m_completed, b_emitted>>
allVars == <<family, downstream, ofRepeating, ofCombining, ofWindow, ofChain, ofBlocking>>

\* The others' variables, where they are not used.
NoRepeating ==
  /\ pc = [t \in Threads |-> "done"] /\ kind = "retry" /\ asked = Unlimited /\ left = Unlimited
  /\ attempt = 0 /\ is_inside_drain = FALSE /\ emitted = [k \in Attempts |-> 0]
NoCombining ==
  /\ c_pc = "" /\ c_kind = "" /\ mutex = "" /\ values = "" /\ needed = "" /\ m_stopped = ""
  /\ result = "" /\ c_emitted = "" /\ finished = [s \in Combining!Sources |-> "no"]
NoWindow ==
  /\ w_kind = "" /\ w_mutex = "" /\ value = "" /\ items = "" /\ listed = "" /\ subject = ""
  /\ offered = "" /\ w_closed = "" /\ told = "" /\ w_got = "" /\ w_inside = "" /\ joined = ""
  /\ handles = "" /\ w_disposed = "" /\ todo = "" /\ w_pc = "" /\ w_sent = ""
NoChain ==
  /\ pipe = "" /\ source = "" /\ bad = "" /\ quirk = "" /\ nth = "" /\ chain = "" /\ sent = ""
  /\ end = "" /\ phase = ""

NoBlocking == b_pc = "" /\ place = "" /\ installed = "" /\ m_completed = "" /\ b_emitted = ""

AllInit ==
  \/ /\ family = "repeating" /\ Init
     /\ NoCombining /\ NoWindow /\ NoChain /\ NoBlocking
  \/ /\ family = "combining" /\ Combining!Init
     /\ NoRepeating /\ NoWindow /\ NoChain /\ NoBlocking
  \/ /\ family = "window" /\ Window!Init /\ DownstreamInit
     /\ NoRepeating /\ NoCombining /\ NoChain /\ NoBlocking
  \/ /\ family = "chain" /\ Chain!Init /\ DownstreamInit
     /\ NoRepeating /\ NoCombining /\ NoWindow /\ NoBlocking
  \/ /\ family = "blocking" /\ Blocking!Init
     /\ NoRepeating /\ NoCombining /\ NoWindow /\ NoChain

OfRepeating(A) ==
  family = "repeating" /\ A /\ UNCHANGED <<family, ofCombining, ofWindow, ofChain, ofBlocking>>
OfCombining(A) ==
  family = "combining" /\ A /\ UNCHANGED <<family, ofRepeating, ofWindow, ofChain, ofBlocking>>
OfBlocking(A) ==
  family = "blocking" /\ A /\ UNCHANGED <<family, ofRepeating, ofCombining, ofWindow, ofChain>>

AllNext ==
  \/ OfRepeating(Next)
  \/ OfCombining(Combining!Next)
  \/ /\ family = "window" /\ Window!Next
     /\ UNCHANGED <<family, downstream, ofRepeating, ofCombining, ofChain, ofBlocking>>
  \/ /\ family = "chain" /\ Chain!Next
     /\ UNCHANGED <<family, downstream, ofRepeating, ofCombining, ofWindow, ofBlocking>>
  \/ OfBlocking(Blocking!Next)

AllSpec == AllInit /\ [][AllNext]_allVars

\* The fairness of Repeating, of CombiningByValue and of Blocking.
AllFairSpec ==
  /\ AllSpec
  /\ \A t \in Threads : WF_allVars(OfRepeating(Handle(t) /\ UNCHANGED <<kind, asked>>))
  /\ WF_allVars(OfCombining(Combining!Subscribe /\ UNCHANGED c_kind))
  /\ \A s \in Combining!Sources : WF_allVars(OfCombining(Combining!Handle(s) /\ UNCHANGED c_kind))
  /\ WF_allVars(OfBlocking(Blocking!Call /\ UNCHANGED place))
  /\ \A t \in 0..2 : WF_allVars(OfBlocking(Blocking!Handle(t) /\ UNCHANGED place))

-----------------------------------------------------------------------------
\* Everything has the type its module gives it.
TypesOK ==
  CASE family = "repeating" -> TypeOK
    [] family = "combining" -> Combining!TypeOK
    [] family = "window" -> Window!TypeOK
    [] family = "chain" -> Chain!TypeOK
    [] family = "blocking" -> Blocking!TypeOK

\* What is delivered is what the operator is defined to make of its sources,
\* however they interleave, and a source that can look is not asked for more.
DeliversAsDefined ==
  CASE family = "repeating" -> TRUE
    [] family = "combining" -> Combining!Combines
    [] family = "window" -> Window!EachValueInItsWindow /\ Window!Serial
    [] family = "chain" -> Chain!ResultAsDefined /\ Chain!AsksNoMore
    [] family = "blocking" -> TRUE

\* It ends when it should: after exactly the attempts asked for, with everything
\* that was due, and in every window; a call that blocks returns after the end.
EndsAsDefined ==
  CASE family = "repeating" -> ExactAttempts
    [] family = "combining" -> Combining!CompletesWhole
    [] family = "window" -> Window!WindowsEnd
    [] family = "chain" -> Chain!FinallyOnce
    [] family = "blocking" -> Blocking!ReturnsAfterTheEnd

\* Nothing stays subscribed that nobody listens to, and nothing is unsubscribed
\* that somebody does.
NothingLeaks ==
  CASE family = "repeating" -> NoAttemptLeaks
    [] family = "combining" -> Combining!NoSourceLeaks
    [] family = "window" -> Window!SourceKept
    [] family \in {"chain", "blocking"} -> TRUE

\* What is due comes: the next attempt, the end of a result whose sources leave it
\* nothing to do, the return of a call that waits for an end that has come
\* (NeverStalls, EndsWhenDue and the return of as_blocking in one).
WhatIsDueComes ==
  Due \/ (family = "combining" /\ Combining!Due) \/ (family = "blocking" /\ Blocking!Due)
    ~> CASE family = "combining" -> Combining!Over
         [] family = "blocking" -> b_pc[Blocking!Caller] = "returned"
         [] OTHER -> ~Due
=============================================================================
