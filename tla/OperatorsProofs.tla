--------------------------- MODULE OperatorsProofs ---------------------------
(* Proofs about the operators of MCOperators: about Repeating, for any number *)
(* of attempts, values and repetitions; CombiningByValue, for any number of   *)
(* sources and values; Blocking; and, with the lemmas of WindowsProofs, about *)
(* a behaviour of any of the families, whichever it is of (AllInv).            *)
(*                                                                         *)
(* Token: one thread has anything to do with the source or the observer of a *)
(* repeating operator, and is_inside_drain says, between subscribe() and its *)
(* return, whether the other thread of the two that may go on has been there. *)
(* SourcesApart: the thread in a callback of a combining operator has mutex. *)
(* CombiningInv: what is stored of each source is what it has sent and nobody *)
(* has been passed on yet; what has been passed on is what Combines says.    *)
(* BlockingInv: the subscriber waits until the terminal call is over.        *)
EXTENDS WindowsProofs, TLAPS

\* The thread drains, is a source that may call, or is in what such a call does.
Active(t) == pc[t] \notin {"none", "done", "leave", "dispose"}
OnlyResumes == kind = "on_error_resume_next"

OneActive == \A s, t \in Threads : Active(s) /\ Active(t) => s = t
OneLeaves == \A s, t \in Threads : pc[s] = "leave" /\ pc[t] = "leave" => s = t
LeaveIsLast == \A s, t \in Threads : pc[s] = "leave" => ~Draining(t)
FlagDown ==
  ~OnlyResumes =>
    \A s, t \in Threads : pc[s] = "leave" /\ ~is_inside_drain => ~Active(t)
FlagUp == ~OnlyResumes => \A t \in Threads : pc[t] = "subscribe" => is_inside_drain
NoDrain ==
  OnlyResumes =>
    \A t \in Threads : pc[t] \notin {"check", "store", "clear", "exchange", "notify", "waiting"}
NoResume == ~OnlyResumes => \A t \in Threads : pc[t] \notin {"resume", "dispose"}
NotYet == \A k \in Attempts : k > attempt => pc[k] = "none"

Token == OneActive /\ OneLeaves /\ LeaveIsLast /\ FlagDown /\ FlagUp /\ NoDrain /\ NoResume /\ NotYet

-----------------------------------------------------------------------------
\* Nothing has a wrong type to begin with, and no step gives it one.
LEMMA TypesInit == Init => TypeOK
<1> SUFFICES ASSUME Init PROVE TypeOK
  OBVIOUS
<1> USE AttemptsAssumption, ThreadsAssumption, CountAssumption
<1>1. asked \in 0..MaxCount \union {Unlimited}
  BY DEF Init
<1>2. left \in 0..Width - 1 \union {Unlimited}
  BY <1>1 DEF Init, Unlimited
<1>3. pc \in [Threads -> Places] /\ emitted \in [Attempts -> 0..MaxEmits]
  BY DEF Init, Places
<1>4. DownstreamTypeOK
  BY DEF Init, DownstreamInit, DownstreamTypeOK
<1>5. kind \in Kinds
  BY DEF Init
<1>6. attempt \in 0..MaxAttempts
  BY DEF Init
<1>7. is_inside_drain \in BOOLEAN
  BY DEF Init
<1> QED
  BY <1>1, <1>2, <1>3, <1>4, <1>5, <1>6, <1>7 DEF TypeOK

\* Every step of a repeating operator keeps the types.
LEMMA TypesStep == TypeOK /\ [Next]_vars => TypeOK'
<1> SUFFICES ASSUME TypeOK, [Next]_vars PROVE TypeOK'
  OBVIOUS
<1> USE AttemptsAssumption, ThreadsAssumption, CountAssumption
    DEF TypeOK, DownstreamTypeOK, Places, Goto, Jump, downstream, calls, links, counters
<1>1. CASE UNCHANGED vars
  BY <1>1 DEF vars
<1>2. ASSUME NEW t \in Threads, Check(t), UNCHANGED <<kind, asked>> PROVE TypeOK'
  BY <1>2 DEF Check, Unlimited
<1>3. ASSUME NEW t \in Threads, Store(t) \/ SubscribeThrows(t) \/ Leave(t),
             UNCHANGED <<kind, asked>>
      PROVE TypeOK'
  BY <1>3 DEF Store, SubscribeThrows, Leave
<1>s. ASSUME NEW t \in Threads, Subscribe(t), UNCHANGED <<kind, asked>> PROVE TypeOK'
  <2>1. attempt + 1 \in Links
    BY <1>s DEF Subscribe
  <2> QED
    BY <1>s, <2>1 DEF Subscribe, Hold
<1>4. ASSUME NEW t \in Threads, Deliver(t), UNCHANGED <<kind, asked>> PROVE TypeOK'
  BY <1>4, Zenon DEF Deliver, BeginNext, EndNext, BeginTerminal, EndTerminal, DisposeUpstreams
<1>5. ASSUME NEW k \in Attempts, SourceStep(k), UNCHANGED <<kind, asked>> PROVE TypeOK'
  <2>1. k \in Threads /\ Notifier(k) \in Links
    BY DEF Attempts, Notifier
  <2>2. ASSUME Notify(k) PROVE TypeOK'
    BY <1>5, <2>1, <2>2 DEF Notify, Hold
  <2>3. ASSUME Clear(k) \/ Exchange(k) \/ DisposeResumed(k) PROVE TypeOK'
    BY <1>5, <2>1, <2>3 DEF Clear, Exchange, DisposeResumed, ClearHeld, DisposeState
  <2>4. ASSUME Resume(k) PROVE TypeOK'
    <3>1. attempt + 1 \in Links
      BY <2>4 DEF Resume
    <3> QED
      BY <1>5, <2>4, <3>1 DEF Resume
  <2> QED
    BY <1>5, <2>2, <2>3, <2>4 DEF SourceStep
<1>6. ASSUME NEW k \in Attempts, Calls(k), UNCHANGED <<kind, asked>> PROVE TypeOK'
  <2>1. k \in Threads
    BY DEF Attempts
  <2>2. Again \in Places
    BY DEF Again
  <2>3. ASSUME SourceNext(k) PROVE TypeOK'
    BY <1>6, <2>1, <2>3 DEF SourceNext
  <2>4. ASSUME SourceEnds(k) PROVE TypeOK'
    BY <1>6, <2>1, <2>2, <2>4 DEF SourceEnds
  <2>5. ASSUME NotifierCalls(k) PROVE TypeOK'
    BY <1>6, <2>1, <2>5 DEF NotifierCalls
  <2> QED
    BY <1>6, <2>3, <2>4, <2>5 DEF Calls
<1>7. CASE User /\ UNCHANGED <<counters, emitted, kind, asked>>
  BY <1>7 DEF User, UserDispose, UserDisposeUpstream, DisposeUpstreams
<1> QED
  BY <1>1, <1>2, <1>3, <1>s, <1>4, <1>5, <1>6, <1>7 DEF Next, Handle, Drain

\* Every variable keeps its type, whatever the argument of retry wraps around to.
THEOREM TypeCorrect == Spec => []TypeOK
BY TypesInit, TypesStep, PTL DEF Spec

-----------------------------------------------------------------------------
\* What Token says of the places is all that a step of another kind disturbs.
LEMMA TokenStep == TypeOK /\ Token /\ [Next]_vars => Token'
<1> SUFFICES ASSUME TypeOK, Token, [Next]_vars PROVE Token'
  OBVIOUS
<1> USE AttemptsAssumption, ThreadsAssumption
<1> USE DEF Token, OneActive, OneLeaves, LeaveIsLast, FlagDown, FlagUp, NoDrain, NoResume, NotYet, Active,
            Draining, OnlyResumes
<1>t. pc \in [Threads -> Places] /\ attempt \in 0..MaxAttempts /\ is_inside_drain \in BOOLEAN
  BY DEF TypeOK
<1>a. \A k \in Attempts : k \in Threads
  BY DEF Attempts
<1>1. CASE UNCHANGED vars
  BY <1>1 DEF vars, counters
<1>2. ASSUME NEW t \in Threads, Check(t), UNCHANGED <<kind, asked>> PROVE Token'
  BY <1>2, <1>t, <1>a DEF Check, Goto
<1>3. ASSUME NEW t \in Threads, Store(t), UNCHANGED <<kind, asked>> PROVE Token'
  BY <1>3, <1>t, <1>a DEF Store, Goto
<1>4. ASSUME NEW t \in Threads, Subscribe(t), UNCHANGED <<kind, asked>> PROVE Token'
  BY <1>4, <1>t, <1>a DEF Subscribe, Attempts
<1>5. ASSUME NEW t \in Threads, SubscribeThrows(t), UNCHANGED <<kind, asked>> PROVE Token'
  BY <1>5, <1>t, <1>a DEF SubscribeThrows, Jump, Goto, counters
<1>6. ASSUME NEW t \in Threads, Leave(t), UNCHANGED <<kind, asked>> PROVE Token'
  BY <1>6, <1>t, <1>a DEF Leave, Goto
<1>7. ASSUME NEW t \in Threads, Deliver(t), UNCHANGED <<kind, asked>> PROVE Token'
  <2>1. pc[t] \in {"next", "in_next", "completed", "error", "thrown", "in_terminal"}
    BY <1>7 DEF Deliver
  <2>2. \E label \in {"in_next", "idle", "in_terminal", "done"} : pc' = [pc EXCEPT ![t] = label]
    BY <1>7 DEF Deliver, BeginNext, EndNext, BeginTerminal, EndTerminal, Goto
  <2>3. UNCHANGED <<attempt, is_inside_drain, kind>>
    BY <1>7 DEF Deliver, counters
  <2> QED
    BY <2>1, <2>2, <2>3, <1>t, <1>a
<1>8. ASSUME NEW k \in Attempts, SourceStep(k), UNCHANGED <<kind, asked>> PROVE Token'
  <2>1. CASE Notify(k)
    BY <1>8, <2>1, <1>t, <1>a DEF Notify, Goto, counters
  <2>2. CASE Clear(k)
    BY <1>8, <2>2, <1>t, <1>a DEF Clear, Goto, counters
  <2>3. CASE Exchange(k)
    BY <1>8, <2>3, <1>t, <1>a DEF Exchange, Goto
  <2>4. CASE Resume(k)
    BY <1>8, <2>4, <1>t, <1>a DEF Resume, Attempts
  <2>5. CASE DisposeResumed(k)
    BY <1>8, <2>5, <1>t, <1>a DEF DisposeResumed, Goto, counters
  <2> QED
    BY <1>8, <2>1, <2>2, <2>3, <2>4, <2>5 DEF SourceStep
<1>9. ASSUME NEW k \in Attempts, Calls(k), UNCHANGED <<kind, asked>> PROVE Token'
  <2>1. CASE SourceNext(k)
    BY <1>9, <2>1, <1>t, <1>a DEF SourceNext, Listening, Goto, counters
  <2>2. CASE SourceEnds(k)
    BY <1>9, <2>2, <1>t, <1>a DEF SourceEnds, Listening, Again, Jump, Goto, counters
  <2>3. CASE NotifierCalls(k)
    BY <1>9, <2>3, <1>t, <1>a DEF NotifierCalls, Jump, Goto, counters
  <2> QED
    BY <1>9, <2>1, <2>2, <2>3 DEF Calls
<1>10. CASE User /\ UNCHANGED <<counters, emitted, kind, asked>>
  BY <1>10 DEF User, UserDispose, UserDisposeUpstream, counters
<1> QED
  BY <1>1, <1>2, <1>3, <1>4, <1>5, <1>6, <1>7, <1>8, <1>9, <1>10 DEF Next, Handle, Drain

\* Only the subscriber is active in the beginning.
LEMMA TokenInit == Init => Token
BY ThreadsAssumption
DEF Init, Token, OneActive, OneLeaves, LeaveIsLast, FlagDown, FlagUp, NoDrain, NoResume, NotYet, Active,
    Draining, OnlyResumes, Attempts

\* Types and token are invariant.
LEMMA Tokens == Spec => [](TypeOK /\ Token)
BY TokenInit, TypeCorrect, TokenStep, PTL DEF Spec

\* Who is active has the token, so no two attempts are.
LEMMA TokenSafe == Token => OneAtATime
BY DEF Token, OneActive, Active, OneAtATime, Draining, Live

\* Two threads never drain at once, two attempts are never live at once, and
\* nobody drains while an attempt is live, so that the counter and the iterator,
\* which are plain data, are used by one thread at a time.
THEOREM NoOverlap == Spec => []OneAtATime
BY TokenSafe, Tokens, PTL

-----------------------------------------------------------------------------
\* inside is where the threads are, and after the terminal call is made nobody
\* begins another one: the observer is closed, or a thread is still in it.
Inside == inside = {t \in Threads : pc[t] \in {"in_next", "in_terminal"}}
Ended == ended # "no" => closed \/ \E t \in Threads : pc[t] = "in_terminal"
Serial == Inside /\ Ended

\* Only the callbacks themselves touch what the contract is about.
Apart == {"in_next", "in_terminal"}
\* A step outside of a callback to outside of one leaves the calls of the observer apart.
LEMMA Elsewhere ==
  ASSUME TypeOK, Serial, NEW t \in Threads, pc[t] \notin Apart,
         NEW label \in Places \ Apart, pc' = [pc EXCEPT ![t] = label], UNCHANGED calls
  PROVE  Serial'
BY DEF TypeOK, Serial, Inside, Ended, Apart, calls

\* So does one that moves two threads.
LEMMA ElsewhereTwo ==
  ASSUME TypeOK, Serial, NEW t \in Threads, pc[t] \notin Apart, NEW u \in Threads, pc[u] \notin Apart,
         NEW label \in Places \ Apart,
         pc' = [pc EXCEPT ![t] = label, ![u] = "idle"], UNCHANGED calls
  PROVE  Serial'
BY DEF TypeOK, Serial, Inside, Ended, Apart, calls

\* An attempt that calls the observer is the one that may.
LEMMA DeliverIsSerial ==
  ASSUME TypeOK, Token, Serial, NEW t \in Threads, Deliver(t)
  PROVE  Serial' /\ [Contract!Next]_<<inside, ended # "no">>
<1> USE DEF TypeOK, DownstreamTypeOK, Serial, Inside, Ended, Token, OneActive, Active, calls
<1>1. ASSUME pc[t] = "next", BeginNext(t, t, "in_next", "idle")
      PROVE  Serial' /\ [Contract!Next]_<<inside, ended # "no">>
  <2>1. CASE closed
    BY <1>1, <2>1 DEF BeginNext, Goto
  <2>2. CASE ~closed
    <3>1. inside = {} /\ ended = "no"
      BY <1>1, <2>2
    <3>2. Contract!OnNext(t)
      BY <1>1, <2>2, <3>1 DEF BeginNext, Contract!OnNext
    <3> QED
      BY <1>1, <2>2, <3>1, <3>2 DEF BeginNext, Goto, Contract!Next
  <2> QED
    BY <2>1, <2>2
<1>2. ASSUME pc[t] \in {"completed", "error", "thrown"}, NEW how \in {"completed", "error"},
             BeginTerminal(t, how, "in_terminal", "done")
      PROVE  Serial' /\ [Contract!Next]_<<inside, ended # "no">>
  <2>1. CASE closed
    BY <1>2, <2>1 DEF BeginTerminal, Goto
  <2>2. CASE ~closed
    <3>1. inside = {} /\ ended = "no"
      BY <1>2, <2>2
    <3>2. Contract!OnTerminal(t)
      BY <1>2, <2>2, <3>1 DEF BeginTerminal, Contract!OnTerminal
    <3> QED
      BY <1>2, <2>2, <3>1, <3>2 DEF BeginTerminal, Goto, Contract!Next
  <2> QED
    BY <2>1, <2>2
<1>3. ASSUME pc[t] = "in_next", EndNext(t, "idle")
      PROVE  Serial' /\ [Contract!Next]_<<inside, ended # "no">>
  <2>1. inside = {t}
    BY <1>3
  <2>2. Contract!Return(t)
    BY <1>3, <2>1 DEF EndNext, Contract!Return
  <2> QED
    BY <1>3, <2>1, <2>2 DEF EndNext, Goto, Contract!Next
<1>4. ASSUME pc[t] = "in_terminal", EndTerminal(t, "done")
      PROVE  Serial' /\ [Contract!Next]_<<inside, ended # "no">>
  <2>1. inside = {t}
    BY <1>4
  <2>2. Contract!Return(t)
    BY <1>4, <2>1 DEF EndTerminal, Contract!Return
  <2> QED
    BY <1>4, <2>1, <2>2 DEF EndTerminal, Goto, Contract!Next
<1> QED
  BY <1>1, <1>2, <1>3, <1>4 DEF Deliver

\* The calls of the observer stay apart, and each step is one of the contract.
LEMMA SerialStep ==
  TypeOK /\ Token /\ Serial /\ [Next]_vars => Serial' /\ [Contract!Next]_<<inside, ended # "no">>
<1> SUFFICES ASSUME TypeOK, Token, Serial, [Next]_vars
             PROVE  Serial' /\ [Contract!Next]_<<inside, ended # "no">>
  OBVIOUS
<1>1. CASE UNCHANGED vars
  BY <1>1 DEF vars, downstream, calls, Serial, Inside, Ended
<1>2. ASSUME NEW t \in Threads, Deliver(t) PROVE Serial' /\ [Contract!Next]_<<inside, ended # "no">>
  BY <1>2, DeliverIsSerial
<1>3. ASSUME NEW t \in Threads, Drain(t) PROVE Serial' /\ UNCHANGED calls
  <2>1. CASE Subscribe(t)
    <3>1. attempt + 1 \in Threads /\ pc[attempt + 1] \notin Apart /\ pc[t] \notin Apart
      BY <2>1, ThreadsAssumption, AttemptsAssumption DEF Subscribe, TypeOK, Token, NotYet, Attempts, Apart
    <3> QED
      BY <2>1, <3>1, ElsewhereTwo DEF Subscribe, Places, Apart
  <2>2. CASE ~Subscribe(t)
    <3>1. UNCHANGED calls /\ pc[t] \notin Apart
      BY <1>3, <2>2 DEF Drain, Check, Store, SubscribeThrows, Leave, Jump, downstream, Apart
    <3>2. \E label \in Places \ Apart : pc' = [pc EXCEPT ![t] = label]
      BY <1>3, <2>2 DEF Drain, Check, Store, SubscribeThrows, Leave, Jump, Goto, Places, Apart
    <3> QED
      BY <3>1, <3>2, Elsewhere
  <2> QED
    BY <2>1, <2>2
<1>4. ASSUME NEW k \in Attempts, SourceStep(k) \/ Calls(k) PROVE Serial' /\ UNCHANGED calls
  <2>k. k \in Threads
    BY ThreadsAssumption, AttemptsAssumption DEF Attempts
  <2>1. CASE Resume(k)
    <3>1. attempt + 1 \in Threads /\ pc[attempt + 1] \notin Apart /\ pc[k] \notin Apart
      BY <2>1, ThreadsAssumption, AttemptsAssumption DEF Resume, TypeOK, Token, NotYet, Attempts, Apart
    <3> QED
      BY <2>1, <2>k, <3>1, ElsewhereTwo DEF Resume, Places, Apart
  <2>2. CASE ~Resume(k)
    <3>1. UNCHANGED calls /\ pc[k] \notin Apart
      BY <1>4, <2>2
      DEF SourceStep, Calls, Notify, Clear, Exchange, DisposeResumed, SourceNext, SourceEnds,
          NotifierCalls,
          Listening, Jump, downstream, Apart
    <3>2. \E label \in Places \ Apart : pc' = [pc EXCEPT ![k] = label]
      BY <1>4, <2>2
      DEF SourceStep, Calls, Notify, Clear, Exchange, DisposeResumed, SourceNext, SourceEnds,
          NotifierCalls,
          Again, Jump, Goto, Places, Apart
    <3> QED
      BY <2>k, <3>1, <3>2, Elsewhere
  <2> QED
    BY <2>1, <2>2
<1>5. ASSUME User PROVE Serial' /\ [Contract!Next]_<<inside, ended # "no">>
  BY <1>5 DEF User, UserDispose, UserDisposeUpstream, calls, Serial, Inside, Ended
<1> QED
  BY <1>1, <1>2, <1>3, <1>4, <1>5 DEF Next, Handle, calls

\* Nobody is in a callback in the beginning.
LEMMA SerialInit == Init => Serial /\ Contract!Init
BY ThreadsAssumption DEF Init, DownstreamInit, Serial, Inside, Ended, Contract!Init

\* All the attempts together are one observable: its calls are serial, and the
\* terminal one is the last.
THEOREM Refines == Spec => FollowsContract
BY SerialInit, Tokens, SerialStep, PTL DEF Spec, FollowsContract, Contract!Spec

-----------------------------------------------------------------------------
\* What the counter says of the attempts made, wherever the next one is decided.
\* A full counter is 0: retry(max) begins with that, and the first decrement
\* wraps it around to max.
Total == IF kind = "retry" THEN asked + 1 ELSE asked
Settled(t) ==
  \/ pc[t] \in {"check", "idle", "next", "in_next", "clear", "exchange", "error", "completed"}
  \/ pc[t] = "leave" /\ ~is_inside_drain
Repeats(t) == pc[t] \in {"check", "clear", "exchange", "leave"}
Left == IF Total - attempt = Width THEN 0 ELSE Total - attempt

CountOf(t) ==
  /\ pc[t] \notin {"notify", "waiting", "resume", "dispose"}
  /\ pc[t] \in {"store", "subscribe"} => attempt < Total /\ left = Total - attempt - 1
  /\ Settled(t) => left = Left
  /\ Settled(t) /\ Repeats(t) /\ kind = "retry" => attempt < Total
  /\ kind = "retry" /\ pc[t] = "error" => attempt = Total
  /\ kind = "concat" /\ pc[t] = "completed" => attempt = Total

Counted ==
  asked # Unlimited =>
    kind \in {"retry", "concat"} /\ attempt <= Total /\ \A t \in Threads : CountOf(t)

\* Arithmetic of a counter of w values.
LEMMA Wraps ==
  ASSUME NEW w \in Nat \ {0}
  PROVE  /\ \A n \in 0..w - 1 : n % w = n
         /\ w % w = 0
         /\ (0 - 1) % w = w - 1
OBVIOUS

\* The places of others are as good after a step of t as before it.
LEMMA CountedStep == TypeOK /\ Token /\ Counted /\ [Next]_vars => Counted'
<1> SUFFICES ASSUME TypeOK, Token, Counted, [Next]_vars, asked' # Unlimited PROVE Counted'
  BY DEF Counted
<1> USE AttemptsAssumption, ThreadsAssumption, CountAssumption
<1> USE DEF Counted, CountOf, Settled, Repeats, Left, Total
<1>u. UNCHANGED <<kind, asked>> /\ asked \in 0..MaxCount /\ kind \in {"retry", "concat"}
  BY DEF Next, vars, TypeOK, Unlimited
<1>t. /\ pc \in [Threads -> Places] /\ attempt \in 0..MaxAttempts
      /\ left \in 0..Width - 1 \union {Unlimited}
  BY DEF TypeOK
<1>a. \A k \in Attempts : k \in Threads
  BY DEF Attempts
<1>1. CASE UNCHANGED vars
  BY <1>1, <1>u DEF vars, counters
<1>2. ASSUME NEW t \in Threads, Check(t) PROVE Counted'
  <2>1. left = Left
    BY <1>2, <1>u DEF Check
  <2>2. CASE disposed \/ (kind = "concat" /\ left = 0)
    BY <1>2, <1>u, <1>t, <2>1, <2>2 DEF Check, Goto
  <2>3. CASE ~disposed /\ (kind = "concat" => left # 0)
    <3>1. attempt < Total
      BY <1>2, <1>u, <1>t, <2>1, <2>3 DEF Check
    <3>2. left' = (left - 1) % Width
      BY <1>2, <1>u, <2>3 DEF Check
    <3>3. left' = Total - attempt - 1
      <4>1. CASE Total - attempt = Width
        <5>1. left' = (0 - 1) % Width
          BY <2>1, <3>2, <4>1
        <5> QED
          BY <4>1, <5>1, Wraps
      <4>2. CASE Total - attempt # Width
        <5>1. left - 1 \in 0..Width - 1 /\ left - 1 = Total - attempt - 1
          BY <1>u, <1>t, <2>1, <3>1, <4>2
        <5> QED
          BY <3>2, <5>1, Wraps
      <4> QED
        BY <4>1, <4>2
    <3> QED
      BY <1>2, <1>u, <1>t, <2>3, <3>1, <3>3 DEF Check, Goto, Token, OneActive, Active, FlagDown,
          OnlyResumes
  <2> QED
    BY <1>2, <2>2, <2>3 DEF Check
<1>3. ASSUME NEW t \in Threads, Store(t) PROVE Counted'
  BY <1>3, <1>u, <1>t DEF Store, Goto, Token, LeaveIsLast, Draining
<1>4. ASSUME NEW t \in Threads, Subscribe(t) PROVE Counted'
  BY <1>4, <1>u, <1>t DEF Subscribe, Token, OneActive, LeaveIsLast, FlagUp, NotYet, Active, Draining,
      OnlyResumes, Attempts
<1>5. ASSUME NEW t \in Threads, SubscribeThrows(t) PROVE Counted'
  BY <1>5, <1>u, <1>t DEF SubscribeThrows, Jump, Goto, counters
<1>6. ASSUME NEW t \in Threads, Leave(t) PROVE Counted'
  BY <1>6, <1>u, <1>t DEF Leave, Goto, Token, OneLeaves
<1>7. ASSUME NEW t \in Threads, Deliver(t) PROVE Counted'
  <2>1. \/ pc[t] \in {"next", "in_next"} /\ pc' = [pc EXCEPT ![t] = "in_next"]
        \/ pc[t] \in {"next", "in_next"} /\ pc' = [pc EXCEPT ![t] = "idle"]
        \/ pc' = [pc EXCEPT ![t] = "in_terminal"]
        \/ pc' = [pc EXCEPT ![t] = "done"]
    BY <1>7 DEF Deliver, BeginNext, EndNext, BeginTerminal, EndTerminal, Goto
  <2>2. UNCHANGED <<left, attempt, is_inside_drain>>
    BY <1>7 DEF Deliver, counters
  <2> QED
    BY <2>1, <2>2, <1>u, <1>t
<1>8. ASSUME NEW k \in Attempts, SourceStep(k) PROVE Counted'
  <2>1. CASE Clear(k)
    BY <2>1, <1>u, <1>t, <1>a DEF Clear, Goto, counters
  <2>2. CASE Exchange(k)
    BY <2>2, <1>u, <1>t, <1>a DEF Exchange, Goto
  <2>3. CASE Notify(k) \/ Resume(k) \/ DisposeResumed(k)
    BY <2>3, <1>u, <1>a DEF Notify, Resume, DisposeResumed
  <2> QED
    BY <1>8, <2>1, <2>2, <2>3 DEF SourceStep
<1>9. ASSUME NEW k \in Attempts, Calls(k) PROVE Counted'
  <2>1. CASE SourceNext(k)
    BY <2>1, <1>u, <1>t, <1>a DEF SourceNext, Listening, Goto, counters
  <2>2. CASE SourceEnds(k)
    <3>1. attempt \in Nat \ {0} /\ left = Left /\ left = Total - attempt
      BY <2>2, <1>u, <1>t, <1>a DEF SourceEnds, Listening, Token, NotYet, Attempts
    <3>2. UNCHANGED <<left, attempt, is_inside_drain>>
      BY <2>2 DEF SourceEnds, Jump, counters
    <3>3. \/ kind = "retry" /\ left = 0 /\ pc' = [pc EXCEPT ![k] = "error"]
          \/ ~(kind = "retry" /\ left = 0) /\ pc' = [pc EXCEPT ![k] = "clear"]
          \/ kind = "retry" /\ pc' = [pc EXCEPT ![k] = "completed"]
          \/ kind = "concat" /\ pc' = [pc EXCEPT ![k] = "error"]
      <4>1. RepeatsOn["retry"] = "error" /\ RepeatsOn["concat"] = "completed"
        BY DEF RepeatsOn
      <4>2. PICK how \in {"completed", "error"} :
              pc' = [pc EXCEPT ![k] = IF how = RepeatsOn[kind] /\ ~Fallback(k) THEN Again ELSE how]
        BY <2>2 DEF SourceEnds, Jump, Goto
      <4>3. ~Fallback(k)
        BY <1>u DEF Fallback
      <4>4. CASE kind = "retry"
        BY <4>1, <4>2, <4>3, <4>4 DEF Again
      <4>5. CASE kind = "concat"
        BY <4>1, <4>2, <4>3, <4>5 DEF Again
      <4> QED
        BY <1>u, <4>4, <4>5
    <3> QED
      BY <2>2, <3>1, <3>2, <3>3, <1>u, <1>t, <1>a
  <2>3. CASE NotifierCalls(k)
    BY <2>3, <1>u, <1>a DEF NotifierCalls
  <2> QED
    BY <1>9, <2>1, <2>2, <2>3 DEF Calls
<1>10. ASSUME User, UNCHANGED <<counters, emitted>> PROVE Counted'
  BY <1>10, <1>u DEF User, UserDispose, UserDisposeUpstream, counters
<1> QED
  BY <1>1, <1>2, <1>3, <1>4, <1>5, <1>6, <1>7, <1>8, <1>9, <1>10 DEF Next, Handle, Drain

\* No attempt has been made in the beginning.
LEMMA CountedInit == Init => Counted
<1> SUFFICES ASSUME Init, asked # Unlimited PROVE Counted
  BY DEF Counted
<1> USE AttemptsAssumption, ThreadsAssumption, CountAssumption
<1>1. asked \in 0..MaxCount /\ kind \in {"retry", "concat"} /\ attempt = 0
  BY DEF Init
<1>2. left = Left
  <2>1. kind = "retry" => left = (asked + 1) % Width
    BY <1>1 DEF Init
  <2>2. kind = "concat" => left = asked
    BY <1>1 DEF Init
  <2>3. CASE kind = "retry" /\ asked + 1 = Width
    <3>1. (asked + 1) % Width = 0
      BY <2>3, Wraps
    <3> QED
      BY <1>1, <2>1, <2>3, <3>1 DEF Left, Total
  <2>4. CASE kind = "retry" /\ asked + 1 # Width
    <3>1. asked + 1 \in 0..Width - 1
      BY <1>1, <2>4
    <3>2. (asked + 1) % Width = asked + 1
      BY <3>1, Wraps
    <3> QED
      BY <1>1, <2>1, <2>4, <3>2 DEF Left, Total
  <2>5. CASE kind = "concat"
    BY <1>1, <2>2, <2>5 DEF Left, Total
  <2> QED
    BY <1>1, <2>3, <2>4, <2>5
<1>3. \A t \in Threads : pc[t] = IF t = 0 THEN "check" ELSE "none"
  BY <1>1 DEF Init
<1> QED
  BY <1>1, <1>2, <1>3 DEF Counted, CountOf, Settled, Repeats, Total

\* A result that has ended has had the attempts that were counted.
LEMMA CountedSafe == Counted => ExactAttempts
BY DEF Counted, CountOf, Total, ExactAttempts

\* retry(n) makes n + 1 attempts before it gives up and concat of n observables
\* subscribes to n, also for the n with which the counter wraps around.
THEOREM Exact == Spec => []ExactAttempts
BY CountedInit, CountedSafe, Tokens, CountedStep, PTL DEF Spec

-----------------------------------------------------------------------------
\* Where every attempt is: held by the state, by the observer (the fallback of
\* on_error_resume_next), or unsubscribed.
Somewhere == \A k \in 1..attempt : k \in held \union outer \union unsubscribed
StateEmpty == disposed => held = {}
NoOuter == ~OnlyResumes => outer = {}
Cleared ==
  ~OnlyResumes =>
    \A t \in Threads :
      pc[t] \in {"exchange", "check", "store", "subscribe"} \/ (pc[t] = "leave" /\ ~is_inside_drain)
        => held = {}
OlderGone == ~OnlyResumes => \A k \in 1..attempt : k < attempt => k \in unsubscribed
Dead == disposed /\ closed /\ outer = {}
DeadAtEnd == ended # "no" => Dead \/ \E t \in Threads : pc[t] = "in_terminal"
DeadWhenGone == (user = "gone" => Dead) /\ (user = "disposing" => closed)

Released ==
  Somewhere /\ StateEmpty /\ NoOuter /\ Cleared /\ OlderGone /\ DeadAtEnd /\ DeadWhenGone

\* An attempt is unsubscribed before the next one, and with the result.
LEMMA ReleasedStep == TypeOK /\ Token /\ Released /\ [Next]_vars => Released'
<1> SUFFICES ASSUME TypeOK, Token, Released, [Next]_vars PROVE Released'
  OBVIOUS
<1> USE AttemptsAssumption, ThreadsAssumption
<1> USE DEF Released, Somewhere, StateEmpty, NoOuter, Cleared, OlderGone, DeadAtEnd, DeadWhenGone,
            Dead, OnlyResumes, downstream, calls, links, counters
<1>u. UNCHANGED <<kind, asked>>
  BY DEF Next, vars
<1>t. pc \in [Threads -> Places] /\ attempt \in 0..MaxAttempts
  BY DEF TypeOK
<1>a. \A k \in Attempts : k \in Threads
  BY DEF Attempts
<1>1. CASE UNCHANGED vars
  BY <1>1 DEF vars
<1>2. ASSUME NEW t \in Threads, Check(t) PROVE Released'
  BY <1>2, <1>u, <1>t DEF Check, Goto
<1>3. ASSUME NEW t \in Threads, Store(t) PROVE Released'
  BY <1>3, <1>u, <1>t DEF Store, Goto
<1>4. ASSUME NEW t \in Threads, Subscribe(t) PROVE Released'
  BY <1>4, <1>u, <1>t DEF Subscribe, Hold, Token, LeaveIsLast, FlagUp, NotYet, Draining, Attempts,
      OneActive, Active
<1>5. ASSUME NEW t \in Threads, SubscribeThrows(t) PROVE Released'
  BY <1>5, <1>u, <1>t DEF SubscribeThrows, Jump, Goto
<1>6. ASSUME NEW t \in Threads, Leave(t) PROVE Released'
  BY <1>6, <1>u, <1>t DEF Leave, Goto, Token, OneLeaves
<1>7. ASSUME NEW t \in Threads, Deliver(t) PROVE Released'
  <2>1. CASE pc[t] = "next" /\ BeginNext(t, t, "in_next", "idle")
    BY <1>7, <2>1, <1>u, <1>t DEF Deliver, BeginNext, Goto
  <2>2. CASE pc[t] = "in_next" /\ EndNext(t, "idle")
    BY <1>7, <2>2, <1>u, <1>t DEF Deliver, EndNext, Goto
  <2>3. ASSUME NEW how \in {"completed", "error"}, pc[t] \in {"completed", "error", "thrown"},
               BeginTerminal(t, how, "in_terminal", "done")
        PROVE  Released'
    BY <1>7, <2>3, <1>u, <1>t DEF Deliver, BeginTerminal, Goto
  <2>4. CASE pc[t] = "in_terminal" /\ EndTerminal(t, "done")
    BY <1>7, <2>4, <1>u, <1>t DEF Deliver, EndTerminal, DisposeUpstreams, Goto
  <2> QED
    BY <1>7, <2>1, <2>2, <2>3, <2>4 DEF Deliver
<1>8. ASSUME NEW k \in Attempts, SourceStep(k) PROVE Released'
  <2>1. CASE Notify(k)
    BY <2>1, <1>u, <1>t, <1>a DEF Notify, Hold, Goto, Token, OneActive, FlagDown, NoDrain, Active
  <2>2. CASE Clear(k)
    BY <2>2, <1>u, <1>t, <1>a DEF Clear, ClearHeld, Goto
  <2>3. CASE Exchange(k)
    BY <2>3, <1>u, <1>t, <1>a DEF Exchange, Goto
  <2>4. CASE Resume(k)
    BY <2>4, <1>u, <1>t, <1>a DEF Resume, Token, NoResume, NotYet, Attempts
  <2>5. CASE DisposeResumed(k)
    BY <2>5, <1>u, <1>t, <1>a DEF DisposeResumed, DisposeState, Goto
  <2> QED
    BY <1>8, <2>1, <2>2, <2>3, <2>4, <2>5 DEF SourceStep
<1>9. ASSUME NEW k \in Attempts, Calls(k) PROVE Released'
  <2>1. CASE SourceNext(k)
    BY <2>1, <1>u, <1>t, <1>a DEF SourceNext, Listening, Goto
  <2>2. CASE SourceEnds(k)
    BY <2>2, <1>u, <1>t, <1>a DEF SourceEnds, Listening, Again, Jump, Goto
  <2>3. CASE NotifierCalls(k)
    BY <2>3, <1>u, <1>t, <1>a DEF NotifierCalls, Jump, Goto
  <2> QED
    BY <1>9, <2>1, <2>2, <2>3 DEF Calls
<1>10. ASSUME User, UNCHANGED <<counters, emitted>> PROVE Released'
  BY <1>10, <1>u DEF User, UserDispose, UserDisposeUpstream, DisposeUpstreams
<1> QED
  BY <1>1, <1>2, <1>3, <1>4, <1>5, <1>6, <1>7, <1>8, <1>9, <1>10 DEF Next, Handle, Drain

\* Nothing is subscribed in the beginning.
LEMMA ReleasedInit == Init => Released
BY DEF Init, DownstreamInit, Released, Somewhere, StateEmpty, NoOuter, Cleared, OlderGone, Dead,
       DeadAtEnd, DeadWhenGone

\* No attempt but the latest is subscribed.
LEMMA ReleasedSafe == TypeOK /\ Serial /\ Released => NoAttemptLeaks
BY DEF Serial, Inside, Released, Somewhere, StateEmpty, NoOuter, OlderGone, Dead, DeadAtEnd,
       DeadWhenGone, OnlyResumes, NoAttemptLeaks

\* An attempt is unsubscribed before the next one is made, and every attempt is
\* when the result has ended or its subscriber has left.
THEOREM NoLeaks == Spec => []NoAttemptLeaks
BY ReleasedInit, ReleasedSafe, SerialInit, Tokens, SerialStep, ReleasedStep, PTL DEF Spec

-----------------------------------------------------------------------------
(* The operators that combine values, for any number of sources.             *)

USE NumSourcesAssumption

CombiningApart == {"in_next", "in_terminal"}

CombiningInside == inside = {s \in Combining!Sources : c_pc[s] \in CombiningApart}
Locked == \A s \in Combining!Sources : c_pc[s] \in CombiningApart <=> mutex = s
CombiningEnded == ended # "no" => closed \/ \E s \in Combining!Sources : c_pc[s] = "in_terminal"
CombiningLabels ==
  {"none", "subscribe", "idle", "next", "combine", "store", "check", "deliver", "decrement", "release",
   "stop_completed", "stop_error", "completed", "error", "in_next", "in_terminal", "done"}
SourcesApart ==
  /\ c_pc \in [(0..NumSources) -> CombiningLabels]
  /\ CombiningInside /\ Locked /\ CombiningEnded

\* What a call of a source begins with is outside of the mutex.
LEMMA FirstSteps ==
  ASSUME c_kind \in Combining!Kinds, NEW s \in Combining!Sources
  PROVE  {Combining!OnNext(s), Combining!OnCompleted(s), Combining!OnError}
        \subseteq CombiningLabels \ CombiningApart
<1>1. Combining!OnNext(s) \in CombiningLabels \ CombiningApart
  BY DEF Combining!OnNext, Combining!Kinds, CombiningApart, CombiningLabels
<1>2. Combining!OnCompleted(s) \in CombiningLabels \ CombiningApart
  BY DEF Combining!OnCompleted, Combining!Kinds, CombiningApart, CombiningLabels
<1>3. Combining!OnError \in CombiningLabels \ CombiningApart
  BY DEF Combining!OnError, CombiningApart, CombiningLabels
<1> QED
  BY <1>1, <1>2, <1>3

\* A step of a source outside the callbacks.
LEMMA CombiningElsewhere ==
  ASSUME SourcesApart, NEW s \in Combining!Sources, c_pc[s] \notin CombiningApart,
         NEW label \in CombiningLabels \ CombiningApart,
         c_pc' = [c_pc EXCEPT ![s] = label], UNCHANGED <<Combining!calls, mutex>>
  PROVE  SourcesApart'
BY DEF SourcesApart, CombiningInside, Locked, CombiningEnded, CombiningApart,
      CombiningLabels, Combining!calls, Combining!Sources

\* A source with the free mutex calls on_next.
LEMMA BeginsNext ==
  ASSUME SourcesApart, NEW s \in Combining!Sources, c_pc[s] \notin CombiningApart,
         mutex = Combining!NoOne, NEW v,
         Combining!BeginNext(s, v, "in_next", "idle"), mutex' = IF closed THEN Combining!NoOne ELSE s
  PROVE  SourcesApart' /\ [Combining!Contract!Next]_<<inside, ended # "no">>
<1> USE
  DEF SourcesApart, CombiningInside, Locked, CombiningEnded, CombiningApart,
      Combining!Sources, Combining!NoOne, CombiningLabels, Combining!BeginNext, Combining!Goto,
      Combining!calls
<1>1. CASE closed
  BY <1>1
<1>2. CASE ~closed
  <2>1. inside = {} /\ ended = "no"
    BY <1>2
  <2>2. s \in (0..NumSources)
    OBVIOUS
  <2>3. Combining!Contract!OnNext(s)
    BY <1>2, <2>1 DEF Combining!Contract!OnNext
  <2>4. Combining!Contract!Next
    BY <2>2, <2>3 DEF Combining!Contract!Next
  <2>5. SourcesApart'
    BY <1>2, <2>1, <2>2
  <2> QED
    BY <2>4, <2>5
<1> QED
  BY <1>1, <1>2

\* A source with the free mutex ends the result.
LEMMA BeginsTerminal ==
  ASSUME SourcesApart, NEW s \in Combining!Sources, c_pc[s] \notin CombiningApart,
         mutex = Combining!NoOne, NEW how, how # "no",
         Combining!BeginTerminal(s, how, "in_terminal", "release"),
         mutex' = IF closed THEN Combining!NoOne ELSE s
  PROVE  SourcesApart' /\ [Combining!Contract!Next]_<<inside, ended # "no">>
<1> USE
  DEF SourcesApart, CombiningInside, Locked, CombiningEnded, CombiningApart,
      Combining!Sources, Combining!NoOne, CombiningLabels, Combining!BeginTerminal, Combining!Goto,
      Combining!calls
<1>1. CASE closed
  BY <1>1
<1>2. CASE ~closed
  <2>1. inside = {} /\ ended = "no"
    BY <1>2
  <2>2. s \in (0..NumSources)
    OBVIOUS
  <2>3. Combining!Contract!OnTerminal(s)
    BY <1>2, <2>1 DEF Combining!Contract!OnTerminal
  <2>4. Combining!Contract!Next
    BY <2>2, <2>3 DEF Combining!Contract!Next
  <2>5. SourcesApart'
    BY <1>2, <2>1, <2>2
  <2> QED
    BY <2>4, <2>5
<1> QED
  BY <1>1, <1>2

\* A source returns from the observer and gives the mutex back.
LEMMA Returns ==
  ASSUME SourcesApart, NEW s \in Combining!Sources,
         \/ c_pc[s] = "in_next" /\ Combining!EndNext(s, "idle")
         \/ c_pc[s] = "in_terminal" /\ Combining!EndTerminal(s, "release"),
         mutex' = Combining!NoOne
  PROVE  SourcesApart' /\ [Combining!Contract!Next]_<<inside, ended # "no">>
<1> USE
  DEF SourcesApart, CombiningInside, Locked, CombiningEnded, CombiningApart,
      Combining!Sources, Combining!NoOne, CombiningLabels, Combining!EndNext, Combining!EndTerminal,
      Combining!Goto
<1>1. inside = {s}
  OBVIOUS
<1>2. s \in (0..NumSources) /\ Combining!Contract!Return(s)
  BY <1>1 DEF Combining!Contract!Return
<1>3. Combining!Contract!Next
  BY <1>2 DEF Combining!Contract!Next
<1>4. SourcesApart'
  BY <1>1
<1> QED
  BY <1>3, <1>4

\* Sources stay apart, and each step is one of the contract.
LEMMA CombiningSerialStep ==
  c_kind \in Combining!Kinds /\ SourcesApart /\ [Combining!Next]_(Combining!vars)
    => (c_kind \in Combining!Kinds)' /\ SourcesApart' /\ [Combining!Contract!Next]_<<inside,
                                                                                     ended # "no">>
<1> SUFFICES ASSUME c_kind \in Combining!Kinds, SourcesApart, [Combining!Next]_(Combining!vars)
             PROVE  SourcesApart' /\ [Combining!Contract!Next]_<<inside, ended # "no">>
  BY DEF Combining!Next, Combining!vars
<1>1. CASE UNCHANGED Combining!vars
  BY <1>1
    DEF Combining!vars, Combining!downstream, Combining!calls, SourcesApart, CombiningInside, Locked,
        CombiningEnded
<1>2. CASE Combining!Subscribe
  <2>1. PICK s \in Combining!Sources : c_pc[s] = "none" /\
          c_pc' = [c_pc EXCEPT ![s] = "idle", ![0] = IF s = Combining!Main THEN "done" ELSE "subscribe"]
    BY <1>2 DEF Combining!Subscribe
  <2>2. UNCHANGED <<Combining!calls, mutex>> /\ c_pc[0] = "subscribe"
    BY <1>2 DEF Combining!Subscribe
  <2> QED
    BY <2>1, <2>2
      DEF SourcesApart, CombiningInside, Locked, CombiningEnded, CombiningApart,
          CombiningLabels, Combining!calls, Combining!Sources
<1>3. ASSUME NEW s \in Combining!Sources, Combining!Call(s)
      PROVE SourcesApart' /\ [Combining!Contract!Next]_<<inside, ended # "no">>
  <2>1. UNCHANGED <<Combining!calls, mutex>> /\ c_pc[s] \notin CombiningApart
    BY <1>3
      DEF Combining!Call, Combining!SourceNext, Combining!SourceEnds, Combining!Listening,
          Combining!Jump, Combining!downstream, CombiningApart
  <2>2. \E label \in {Combining!OnNext(s), Combining!OnCompleted(s), Combining!OnError} :
        c_pc' = [c_pc EXCEPT ![s] = label]
    BY <1>3
      DEF Combining!Call, Combining!SourceNext, Combining!SourceEnds, Combining!Jump, Combining!Goto
  <2>3. SourcesApart'
    BY <2>1, <2>2, FirstSteps, CombiningElsewhere
  <2> QED
    BY <2>1, <2>3 DEF Combining!calls
<1>4. ASSUME NEW s \in Combining!Sources, Combining!Handle(s)
      PROVE SourcesApart' /\ [Combining!Contract!Next]_<<inside, ended # "no">>
  <2>1. CASE Combining!NextUnderLock(s)
    <3>1. CASE Combining!AllPresent(Combining!Stored(s))
      BY <2>1, <3>1, BeginsNext DEF Combining!NextUnderLock, CombiningApart
    <3>2. CASE ~Combining!AllPresent(Combining!Stored(s))
      <4>1. SourcesApart' /\ UNCHANGED Combining!calls
        BY <2>1, <3>2, CombiningElsewhere
          DEF Combining!NextUnderLock, Combining!downstream, Combining!Goto, CombiningApart,
              CombiningLabels
      <4> QED
        BY <4>1 DEF Combining!calls
    <3> QED
      BY <3>1, <3>2
  <2>2. CASE s = Combining!Main /\ Combining!Deliver
    BY <2>2, BeginsNext DEF Combining!Deliver, CombiningApart
  <2>3. CASE Combining!EnterTerminal(s)
    BY <2>3, BeginsTerminal DEF Combining!EnterTerminal, CombiningApart
  <2>4. CASE Combining!LeaveNext(s) \/ Combining!LeaveTerminal(s)
    BY <2>4, Returns DEF Combining!LeaveNext, Combining!LeaveTerminal
  <2>5. CASE Combining!SelectorThrows(s) \/ Combining!StoreLatest(s) \/ Combining!Decrement(s)
        \/ Combining!Stop(s) \/ Combining!Release(s)
    <3>1. UNCHANGED <<Combining!calls, mutex>> /\ c_pc[s] \notin CombiningApart
      BY <2>5
        DEF Combining!SelectorThrows, Combining!StoreLatest, Combining!Decrement, Combining!Stop,
            Combining!Release, Combining!Jump, Combining!downstream, CombiningApart
    <3>2. \E label \in CombiningLabels \ CombiningApart : c_pc' = [c_pc EXCEPT ![s] = label]
      BY <2>5
        DEF Combining!SelectorThrows, Combining!StoreLatest, Combining!Decrement, Combining!Stop,
            Combining!Release, Combining!Jump, Combining!Goto, CombiningApart, CombiningLabels
    <3>3. SourcesApart'
      BY <3>1, <3>2, CombiningElsewhere
    <3> QED
      BY <3>1, <3>3 DEF Combining!calls
  <2>6. CASE s = Combining!Main /\ (Combining!Combine \/ Combining!CheckStopped)
    <3>1. UNCHANGED <<Combining!calls, mutex>> /\ c_pc[s] \notin CombiningApart
      BY <2>6 DEF Combining!Combine, Combining!CheckStopped, Combining!downstream, CombiningApart
    <3>2. \E label \in CombiningLabels \ CombiningApart : c_pc' = [c_pc EXCEPT ![s] = label]
      BY <2>6
        DEF Combining!Combine, Combining!CheckStopped, Combining!Goto, CombiningApart, CombiningLabels
    <3>3. SourcesApart'
      BY <3>1, <3>2, CombiningElsewhere
    <3> QED
      BY <3>1, <3>3 DEF Combining!calls
  <2> QED
    BY <1>4, <2>1, <2>2, <2>3, <2>4, <2>5, <2>6 DEF Combining!Handle
<1>5. ASSUME Combining!User, UNCHANGED mutex
      PROVE SourcesApart' /\ [Combining!Contract!Next]_<<inside, ended # "no">>
  BY <1>5
    DEF Combining!User, Combining!UserDispose, Combining!UserDisposeUpstream, Combining!calls,
        SourcesApart, CombiningInside, Locked, CombiningEnded
<1> QED
  BY <1>1, <1>2, <1>3, <1>4, <1>5 DEF Combining!Next

\* zip, combine_latest, with_latest_from and take_until obey the observable
\* contract with any number of sources on threads of their own: their calls of
\* the observer do not overlap, and nothing follows the terminal one.
THEOREM CombiningRefines == Combining!Spec => Combining!FollowsContract
<1>1. Combining!Init => c_kind \in Combining!Kinds /\ SourcesApart /\ Combining!Contract!Init
  BY DEF Combining!Init, Combining!DownstreamInit, SourcesApart, CombiningInside, Locked,
        CombiningEnded, CombiningApart, Combining!Sources, Combining!NoOne, CombiningLabels,
        Combining!Contract!Init
<1> QED
  BY <1>1, CombiningSerialStep, PTL
    DEF Combining!Spec, Combining!FollowsContract, Combining!Contract!Spec

-----------------------------------------------------------------------------
\* A source that was subscribed to is held by the state or unsubscribed.
CombiningSomewhere == \A s \in Combining!Sources : c_pc[s] # "none" => s \in held \union unsubscribed
CombiningStateEmpty == disposed => held = {}
DoneGone == \A s \in Combining!Sources : c_pc[s] = "done" => s \in unsubscribed
CombiningReleased == CombiningSomewhere /\ CombiningStateEmpty /\ DoneGone

\* Steps that leave the links alone, or only add to what is unsubscribed.
LEMMA Kept ==
  ASSUME SourcesApart, CombiningReleased, NEW s \in Combining!Sources, c_pc[s] # "none",
         NEW label \in CombiningLabels \ {"none", "done"}, c_pc' = [c_pc EXCEPT ![s] = label],
         held' \subseteq held, held \subseteq held' \union unsubscribed',
         unsubscribed \subseteq unsubscribed', disposed' => held' = {}
  PROVE  CombiningReleased'
BY DEF SourcesApart, CombiningReleased, CombiningSomewhere, CombiningStateEmpty, DoneGone,
      Combining!Sources

\* What the state holds or has disposed of stays all that is subscribed.
LEMMA CombiningReleasedStep ==
  c_kind \in Combining!Kinds /\ SourcesApart /\ CombiningReleased
        /\ [Combining!Next]_(Combining!vars) => CombiningReleased'
<1> SUFFICES ASSUME c_kind \in Combining!Kinds, SourcesApart, CombiningReleased,
      [Combining!Next]_(Combining!vars)
      PROVE CombiningReleased'
  OBVIOUS
<1>1. CASE UNCHANGED Combining!vars
  BY <1>1
    DEF Combining!vars, Combining!downstream, Combining!links, CombiningReleased, CombiningSomewhere,
        CombiningStateEmpty, DoneGone
<1>2. CASE Combining!Subscribe
  <2>1. PICK s \in Combining!Sources : c_pc[s] = "none" /\ Combining!Hold(s) /\
          c_pc' = [c_pc EXCEPT ![s] = "idle", ![0] = IF s = Combining!Main THEN "done" ELSE "subscribe"]
    BY <1>2 DEF Combining!Subscribe
  <2> QED
    BY <2>1
      DEF SourcesApart, CombiningReleased, CombiningSomewhere, CombiningStateEmpty,
          DoneGone, Combining!Hold, Combining!Sources
<1>3. ASSUME NEW s \in Combining!Sources, Combining!Call(s) PROVE CombiningReleased'
  <2>1. UNCHANGED Combining!links /\ c_pc[s] = "idle"
    BY <1>3
      DEF Combining!Call, Combining!SourceNext, Combining!SourceEnds, Combining!Listening,
          Combining!Jump, Combining!downstream
  <2>2. \E label \in {Combining!OnNext(s), Combining!OnCompleted(s), Combining!OnError} :
        c_pc' = [c_pc EXCEPT ![s] = label]
    BY <1>3
      DEF Combining!Call, Combining!SourceNext, Combining!SourceEnds, Combining!Jump, Combining!Goto
  <2>3. {Combining!OnNext(s), Combining!OnCompleted(s), Combining!OnError}
        \subseteq CombiningLabels \ {"none", "done"}
    <3>1. Combining!OnNext(s) \in CombiningLabels \ {"none", "done"}
      BY DEF Combining!OnNext, Combining!Kinds, CombiningLabels
    <3>2. Combining!OnCompleted(s) \in CombiningLabels \ {"none", "done"}
      BY DEF Combining!OnCompleted, Combining!Kinds, CombiningLabels
    <3>3. Combining!OnError \in CombiningLabels \ {"none", "done"}
      BY DEF Combining!OnError, CombiningLabels
    <3> QED
      BY <3>1, <3>2, <3>3
  <2> QED
    BY <2>1, <2>2, <2>3, Kept DEF Combining!links, CombiningReleased, CombiningStateEmpty
<1>4. ASSUME NEW s \in Combining!Sources, Combining!Handle(s) PROVE CombiningReleased'
  <2>1. CASE Combining!NextUnderLock(s) \/ (s = Combining!Main /\ Combining!Deliver)
        \/ Combining!EnterTerminal(s)
    <3>1. UNCHANGED Combining!links /\ c_pc[s] # "none"
      BY <2>1
        DEF Combining!NextUnderLock, Combining!Deliver, Combining!EnterTerminal, Combining!BeginNext,
            Combining!BeginTerminal, Combining!downstream
    <3>2. \E label \in CombiningLabels \ {"none", "done"} : c_pc' = [c_pc EXCEPT ![s] = label]
      BY <2>1
        DEF Combining!NextUnderLock, Combining!Deliver, Combining!EnterTerminal, Combining!BeginNext,
            Combining!BeginTerminal, Combining!Goto, CombiningLabels
    <3> QED
      BY <3>1, <3>2, Kept DEF Combining!links, CombiningReleased, CombiningStateEmpty
  <2>2. CASE Combining!LeaveNext(s) \/ Combining!LeaveTerminal(s)
    <3>1. \/ UNCHANGED Combining!links
          \/ disposed' = TRUE /\ held' = {} /\ unsubscribed' = unsubscribed \union held \union outer
      BY <2>2
        DEF Combining!LeaveNext, Combining!LeaveTerminal, Combining!EndNext, Combining!EndTerminal,
            Combining!DisposeUpstreams, Combining!links
    <3>2. c_pc[s] # "none" /\ \E label \in CombiningLabels \ {"none", "done"} :
          c_pc' = [c_pc EXCEPT ![s] = label]
      BY <2>2
        DEF Combining!LeaveNext, Combining!LeaveTerminal, Combining!EndNext, Combining!EndTerminal,
            Combining!Goto, CombiningLabels
    <3>3. /\ held' \subseteq held /\ held \subseteq held' \union unsubscribed'
          /\ unsubscribed \subseteq unsubscribed'
      BY <3>1 DEF Combining!links
    <3>4. disposed' => held' = {}
      BY <3>1 DEF Combining!links, CombiningReleased, CombiningStateEmpty
    <3> QED
      BY <3>2, <3>3, <3>4, Kept
  <2>3. CASE Combining!SelectorThrows(s) \/ Combining!StoreLatest(s) \/ Combining!Decrement(s)
        \/ Combining!Stop(s)
             \/ (s = Combining!Main /\ (Combining!Combine \/ Combining!CheckStopped))
    <3>1. UNCHANGED Combining!links /\ c_pc[s] # "none"
      BY <2>3
        DEF Combining!SelectorThrows, Combining!StoreLatest, Combining!Decrement, Combining!Stop,
            Combining!Combine, Combining!CheckStopped, Combining!Jump, Combining!downstream
    <3>2. \E label \in CombiningLabels \ {"none", "done"} : c_pc' = [c_pc EXCEPT ![s] = label]
      BY <2>3
        DEF Combining!SelectorThrows, Combining!StoreLatest, Combining!Decrement, Combining!Stop,
            Combining!Combine, Combining!CheckStopped, Combining!Jump, Combining!Goto, CombiningLabels
    <3> QED
      BY <3>1, <3>2, Kept DEF Combining!links, CombiningReleased, CombiningStateEmpty
  <2>4. CASE Combining!Release(s)
    <3>1. CASE finished[s] = "no"
      BY <2>4, <3>1, Kept
        DEF Combining!Release, Combining!Goto, CombiningLabels, CombiningReleased, CombiningStateEmpty
    <3>2. CASE finished[s] # "no"
      BY <2>4, <3>2
      DEF Combining!Release, Combining!Goto, SourcesApart, CombiningReleased, CombiningSomewhere,
          CombiningStateEmpty, DoneGone, Combining!Sources
    <3> QED
      BY <3>1, <3>2
  <2> QED
    BY <1>4, <2>1, <2>2, <2>3, <2>4 DEF Combining!Handle
<1>5. ASSUME Combining!User PROVE CombiningReleased'
  BY <1>5
  DEF Combining!User, Combining!UserDispose, Combining!UserDisposeUpstream,
      Combining!DisposeUpstreams, Combining!links, CombiningReleased, CombiningSomewhere,
      CombiningStateEmpty, DoneGone
<1> QED
  BY <1>1, <1>2, <1>3, <1>4, <1>5 DEF Combining!Next

\* Nobody has the mutex, and nothing is subscribed, in the beginning.
LEMMA CombiningApartInit ==
  Combining!Init => c_kind \in Combining!Kinds /\ SourcesApart /\ CombiningReleased
<1> SUFFICES ASSUME Combining!Init
    PROVE c_kind \in Combining!Kinds /\ SourcesApart /\ CombiningReleased
  OBVIOUS
<1>1. \A s \in Combining!Sources : s \in (0..NumSources) /\ c_pc[s] = "none"
  BY DEF Combining!Init, Combining!Sources
<1>2. SourcesApart
  BY DEF Combining!Init, Combining!DownstreamInit, SourcesApart, CombiningInside,
        Locked, CombiningEnded, CombiningApart, CombiningLabels, Combining!Sources, Combining!NoOne
<1> QED
  BY <1>1, <1>2
    DEF Combining!Init, Combining!DownstreamInit, CombiningReleased, CombiningSomewhere,
        CombiningStateEmpty, DoneGone

\* Nothing is subscribed under a disposed state.
LEMMA CombiningReleasedSafe == CombiningReleased => Combining!NoSourceLeaks
BY DEF CombiningReleased, CombiningSomewhere, CombiningStateEmpty, DoneGone, Combining!NoSourceLeaks

\* A source that has ended is unsubscribed, and every source is, also one that is
\* still being subscribed to, once the operator's state is disposed.
THEOREM CombiningNoLeaks == Combining!Spec => []Combining!NoSourceLeaks
BY CombiningApartInit, CombiningReleasedSafe, CombiningSerialStep, CombiningReleasedStep, PTL
   DEF Combining!Spec
-----------------------------------------------------------------------------
(* as_blocking().                                                            *)

BlockingInside == {"in_next", "in_terminal"}
BlockingLabels ==
  {"set_upstream", "subscribe", "check", "wait", "asleep", "complete", "notify", "idle", "task",
   "emit", "in_next", "in_terminal", "gone", "returned"}

\* Only one thread emits: the caller, or the runner that it has started.
OneEmits ==
  /\ b_pc \in [0..2 -> BlockingLabels]
  /\ b_pc[0] \in {"set_upstream", "subscribe", "emit", "in_next", "in_terminal"} => b_pc[1] = "idle"
  /\ b_pc[2] \in {"idle", "complete", "notify", "gone"}
  /\ inside = {t \in 0..2 : b_pc[t] \in BlockingInside}

\* The observer is closed by its last call or by the subscriber, and the
\* disposable the caller waits for is disposed of after that.
ClosedFirst ==
  /\ \A t \in 0..2 : b_pc[t] = "in_terminal" => ended # "no"
  /\ closed /\ user = "subscribed" => ended # "no" /\ inside = {}
  /\ user # "subscribed" => closed
  /\ disposed \/ m_completed => closed
  /\ \A t \in 0..2 : b_pc[t] = "complete" => disposed
  /\ b_pc[0] = "returned" => disposed \/ m_completed

BlockingInv == OneEmits /\ ClosedFirst /\ Blocking!TypeOK

\* In the beginning the subscriber has called as_blocking() and nobody emits.
LEMMA BlockingInit ==
  Blocking!Init => BlockingInv
BY DEF Blocking!Init, Blocking!DownstreamInit, Blocking!TypeOK, Blocking!DownstreamTypeOK, Blocking!Caller,
       BlockingInv, OneEmits, ClosedFirst, BlockingInside, BlockingLabels

\* Every step keeps that one thread emits and the subscriber waits for its end.
LEMMA BlockingStep ==
  ASSUME BlockingInv, [Blocking!Next]_(Blocking!vars) PROVE BlockingInv'
<1> USE DEF BlockingInv, OneEmits, ClosedFirst, BlockingInside, BlockingLabels,
            Blocking!TypeOK, Blocking!DownstreamTypeOK,
            Blocking!Caller, Blocking!Runner, Blocking!Subscriber, Blocking!Goto, Blocking!Jump,
            Blocking!downstream, Blocking!calls, Blocking!links, Blocking!own, Blocking!After
<1>1. CASE UNCHANGED Blocking!vars
  BY <1>1 DEF Blocking!vars
<1>2. CASE Blocking!SetUpstream /\ UNCHANGED place
  <2>1. b_pc[0] = "set_upstream" /\ b_pc' = [b_pc EXCEPT ![0] = "subscribe"]
        /\ UNCHANGED <<closed, ended, inside, got, held, outer, unsubscribed, user, place, b_emitted>>
    BY <1>2 DEF Blocking!SetUpstream
  <2>2. \/ closed /\ disposed' = TRUE /\ m_completed' = TRUE /\ UNCHANGED installed
        \/ ~closed /\ installed' = TRUE /\ UNCHANGED <<disposed, m_completed>>
    BY <1>2 DEF Blocking!SetUpstream
  <2>3. OneEmits'
    BY <2>1
  <2>4. ClosedFirst'
    BY <2>1, <2>2
  <2>5. Blocking!TypeOK'
    BY <2>1, <2>2
  <2> QED
    BY <2>3, <2>4, <2>5
<1>3. CASE Blocking!Subscribe
  BY <1>3 DEF Blocking!Subscribe
<1>4. CASE Blocking!Check
  BY <1>4 DEF Blocking!Check
<1>5. CASE Blocking!Wait
  BY <1>5 DEF Blocking!Wait
<1>6. CASE Blocking!SpuriousWake
  BY <1>6 DEF Blocking!SpuriousWake
<1>7. CASE Blocking!RunTask
  BY <1>7 DEF Blocking!RunTask
<1>8. CASE Blocking!SubscribeReturns
  BY <1>8 DEF Blocking!SubscribeReturns
<1>9. CASE Blocking!Leave
  BY <1>9 DEF Blocking!Leave, Blocking!UserDispose
<1>10. CASE Blocking!LeaveUpstream
  <2>1. user = "disposing" /\ user' = "gone"
        /\ UNCHANGED <<closed, ended, inside, got, held, outer, unsubscribed, place, installed, m_completed, b_emitted>>
    BY <1>10 DEF Blocking!LeaveUpstream, Blocking!DisposeBlocking
  <2>2. PICK label \in {"complete", "gone"} : b_pc' = [b_pc EXCEPT ![2] = label]
    BY <1>10 DEF Blocking!LeaveUpstream, Blocking!DisposeBlocking
  <2>3. /\ closed /\ disposed' \in BOOLEAN /\ (disposed => disposed' = TRUE)
        /\ b_pc'[2] = "complete" => disposed' = TRUE
    <3>1. user = "disposing" /\ b_pc \in [0..2 -> BlockingLabels] /\ disposed \in BOOLEAN
      BY <1>10 DEF Blocking!LeaveUpstream
    <3>2. CASE installed
      <4>1. disposed' = TRUE
        BY <1>10, <3>2 DEF Blocking!LeaveUpstream, Blocking!DisposeBlocking
      <4> QED
        BY <3>1, <4>1
    <3>3. CASE ~installed
      <4>1. UNCHANGED disposed /\ b_pc' = [b_pc EXCEPT ![2] = "gone"]
        BY <1>10, <3>3 DEF Blocking!LeaveUpstream
      <4> QED
        BY <3>1, <4>1
    <3> QED
      BY <3>2, <3>3
  <2>4. OneEmits'
    BY <2>1, <2>2
  <2>5. ClosedFirst'
    BY <2>1, <2>2, <2>3
  <2>6. Blocking!TypeOK'
    BY <2>1, <2>2, <2>3
  <2> QED
    BY <2>4, <2>5, <2>6
<1>11. ASSUME NEW t \in {0, 1}, Blocking!EmitNext(t) PROVE BlockingInv'
  BY <1>11 DEF Blocking!EmitNext, Blocking!BeginNext
<1>12. ASSUME NEW t \in {0, 1}, Blocking!EmitTerminal(t) PROVE BlockingInv'
  <2>1. PICK how \in {"completed", "error"} : Blocking!BeginTerminal(t, how, "in_terminal", Blocking!After(t))
    BY <1>12 DEF Blocking!EmitTerminal
  <2> QED
    BY <1>12, <2>1 DEF Blocking!EmitTerminal, Blocking!BeginTerminal
<1>13. ASSUME NEW t \in 0..2, Blocking!NextLeave(t) PROVE BlockingInv'
  BY <1>13 DEF Blocking!NextLeave, Blocking!EndNext
<1>14. ASSUME NEW t \in 0..2, Blocking!TerminalLeave(t) PROVE BlockingInv'
  BY <1>14 DEF Blocking!TerminalLeave, Blocking!DisposeBlocking
<1>15. ASSUME NEW t \in 0..2, Blocking!Complete(t) PROVE BlockingInv'
  BY <1>15 DEF Blocking!Complete
<1>16. ASSUME NEW t \in 0..2, Blocking!Notify(t) PROVE BlockingInv'
  BY <1>16 DEF Blocking!Notify
<1> QED
  BY <1>1, <1>2, <1>3, <1>4, <1>5, <1>6, <1>7, <1>8, <1>9, <1>10, <1>11, <1>12, <1>13, <1>14, <1>15,
     <1>16 DEF Blocking!Next, Blocking!Call, Blocking!Handle

\* The call of as_blocking() returns after the end.
LEMMA BlockingSafe ==
  BlockingInv => Blocking!TypeOK /\ Blocking!ReturnsAfterTheEnd
BY DEF BlockingInv, OneEmits, ClosedFirst, Blocking!ReturnsAfterTheEnd, Blocking!Caller
-----------------------------------------------------------------------------
(* What the operators that combine values make of them, for any number of    *)
(* sources and values.                                                      *)

Main == Combining!Main
Mixing == c_kind \in {"zip", "combine_latest"}

CombiningTypes ==
  /\ Combining!TypeOK /\ got \in Seq([Combining!Sources -> Nat])

\* What the place of a source says of it.
PlaceOf(s) ==
  /\ c_pc[s] \in {"next", "decrement"} => Mixing
  /\ c_pc[s] = "store" => c_kind = "with_latest_from" /\ s # Main
  /\ c_pc[s] = "combine" => c_kind = "with_latest_from" /\ s = Main
  /\ c_pc[s] = "check" => c_kind = "take_until" /\ s = Main
  /\ c_pc[s] \in {"stop_completed", "stop_error"} => c_kind = "take_until"
  /\ c_pc[s] = "deliver" => ~Mixing /\ s = Main
  /\ c_pc[s] \in {"none", "idle", "next", "store", "combine", "check", "deliver", "in_next"} =>
       finished[s] = "no"
  /\ c_pc[s] \in {"next", "store", "combine", "check", "deliver"} => c_emitted[s] > 0
  /\ c_pc[s] = "decrement" => finished[s] = "completed"
  /\ c_pc[s] \in {"stop_error", "error"} => finished[s] = "error"
  /\ c_pc[s] = "completed" =>
       /\ Mixing => finished[s] = "completed"
       /\ c_kind = "with_latest_from" => s = Main /\ finished[s] = "completed"
  /\ c_pc[s] \in {"stop_completed", "completed", "release", "in_terminal"} =>
       finished[s] # "no" \/ (c_kind = "take_until" /\ s # Main /\ c_emitted[s] > 0)
CombiningPlaces == \A s \in Combining!Sources : PlaceOf(s)

\* The counter of completions counts the sources that have not been counted.
Uncounted == {s \in Combining!Sources : finished[s] # "completed" \/ c_pc[s] = "decrement"}
CompletionsCounted ==
  /\ needed = IF Mixing THEN Cardinality(Uncounted) ELSE NumSources
  /\ Mixing /\ (ended = "completed" \/ \E s \in Combining!Sources : c_pc[s] = "completed") => Uncounted = {}

CombiningBase == SourcesApart /\ CombiningTypes /\ CombiningPlaces /\ CompletionsCounted

\* The values of a source that its observer is through with, but for passing on
\* what zip and combine_latest make of them.
Taken(s) == IF c_pc[s] \in {"next", "combine", "check", "deliver"} THEN c_emitted[s] - 1 ELSE c_emitted[s]

\* zip: the deques hold what has not been passed on, and one of them is empty.
ZipQueues ==
  \A s \in Combining!Sources :
    /\ Taken(s) = Len(got) + Len(values[s])
    /\ \A j \in 1..Len(values[s]) : values[s][j] = Len(got) + j
ZipOneEmpty ==
  \E s \in Combining!Sources : values[s] = <<>> \/ finished[s] = "error"
ZipKept == c_kind = "zip" /\ ~closed => ZipQueues /\ ZipOneEmpty

\* combine_latest: the last result is of what is stored, or the selector threw.
LatestStored ==
  \A s \in Combining!Sources : values[s] = IF Taken(s) = 0 THEN <<>> ELSE <<Taken(s)>>
LatestPassedOn ==
  got # <<>> =>
    \A s \in Combining!Sources :
      /\ Taken(s) > 0
      /\ \/ got[Len(got)][s] = Taken(s)
         \/ finished[s] = "error" /\ got[Len(got)][s] = Taken(s) - 1
LatestNotYet ==
  got = <<>> => \E s \in Combining!Sources : Taken(s) = 0 \/ finished[s] = "error"
LatestKept == c_kind = "combine_latest" /\ ~closed => LatestStored /\ LatestPassedOn /\ LatestNotYet

\* with_latest_from: Main's last value has been passed on, with what came first.
WithStored ==
  \A s \in Combining!Sources :
    values[s] # <<>> => s # Main /\ \E v \in 1..c_emitted[s] : values[s] = <<v>>
WithPassedOn ==
  got # <<>> =>
    /\ finished[Main] = "error" \/ got[Len(got)][Main] = Taken(Main)
    /\ \A s \in Combining!Others : values[s] # <<>> /\ got[Len(got)][s] <= values[s][1]
WithResult ==
  c_pc[Main] = "deliver" =>
    /\ result[Main] = c_emitted[Main]
    /\ \A s \in Combining!Others : values[s] # <<>> /\ result[s] <= values[s][1]
    /\ got # <<>> => \A s \in Combining!Others : got[Len(got)][s] <= result[s]
WithKept == c_kind = "with_latest_from" /\ ~closed => WithStored /\ WithPassedOn /\ WithResult

\* take_until: all of Main's values have been passed on until it is stopped.
Quiet == \A s \in Combining!Others : c_emitted[s] = 0 /\ finished[s] = "no"
UntilPassedOn == ~m_stopped \/ Quiet => Len(got) = Taken(Main)
UntilResult == c_pc[Main] = "deliver" => Len(got) = Taken(Main) /\ result[Main] = c_emitted[Main]
UntilKept == c_kind = "take_until" /\ ~closed => UntilPassedOn /\ UntilResult
UntilStopped ==
  c_kind = "take_until" /\ (m_stopped \/ ended = "completed") /\ Quiet => finished[Main] # "no"

ResultTyped == c_pc[Main] = "deliver" => result \in [Combining!Sources -> Nat]

CombiningOpen == ZipKept /\ LatestKept /\ WithKept /\ UntilKept
CombiningWhole == UntilStopped /\ Combining!Combines /\ Combining!CompletesWhole

CombiningRest ==
  CombiningTypes /\ CombiningPlaces /\ CompletionsCounted /\ ResultTyped /\ CombiningOpen /\ CombiningWhole
CombiningInv == SourcesApart /\ CombiningRest

\* Finite sets, one element fewer.
LEMMA CountSources ==
  /\ IsFiniteSet(Combining!Sources) /\ Cardinality(Combining!Sources) = NumSources
  /\ \A T \in SUBSET Combining!Sources :
       /\ IsFiniteSet(T) /\ Cardinality(T) \in 0..NumSources /\ (Cardinality(T) = 0 <=> T = {})
       /\ \A s \in T : Cardinality(T \ {s}) = Cardinality(T) - 1
<1>1. IsFiniteSet(Combining!Sources) /\ Cardinality(Combining!Sources) = NumSources
  <2>1. 1 \in Int /\ NumSources \in Int /\ NumSources >= 1
    BY NumSourcesAssumption
  <2>2. /\ IsFiniteSet(1..NumSources)
        /\ Cardinality(1..NumSources) = IF 1 > NumSources THEN 0 ELSE NumSources - 1 + 1
    BY <2>1, FS_Interval
  <2>3. IsFiniteSet(1..NumSources) /\ Cardinality(1..NumSources) = NumSources
    BY <2>1, <2>2
  <2> QED
    BY <2>3 DEF Combining!Sources
<1>2. ASSUME NEW T \in SUBSET Combining!Sources
      PROVE  /\ IsFiniteSet(T) /\ Cardinality(T) \in 0..NumSources /\ (Cardinality(T) = 0 <=> T = {})
             /\ \A s \in T : Cardinality(T \ {s}) = Cardinality(T) - 1
  <2>1. IsFiniteSet(T) /\ Cardinality(T) <= NumSources
    BY <1>1, FS_Subset
  <2>2. Cardinality(T) \in Nat
    BY <2>1, FS_CardinalityType
  <2>3. Cardinality(T) = 0 <=> T = {}
    BY <2>1, FS_EmptySet
  <2>4. \A s \in T : Cardinality(T \ {s}) = Cardinality(T) - 1
    BY <2>1, FS_RemoveElement
  <2> QED
    BY <2>1, <2>2, <2>3, <2>4
<1> QED
  BY <1>1, <1>2


\* What a step leaves of what is counted and of what the places say.
LEMMA CountKept ==
  ASSUME CompletionsCounted, CombiningTypes, NEW s \in Combining!Sources,
         UNCHANGED <<c_kind, needed>>,
         Mixing => Uncounted' = Uncounted,
         ended' = "completed" => ended = "completed" \/ c_pc[s] = "completed",
         Mixing /\ c_pc'[s] = "completed" => c_pc[s] = "completed",
         \A r \in Combining!Sources \ {s} : c_pc'[r] = c_pc[r]
  PROVE  CompletionsCounted'
<1>1. Mixing' = Mixing
  BY DEF Mixing
<1>2. CASE ~Mixing
  BY <1>1, <1>2 DEF CompletionsCounted
<1>3. CASE Mixing
  <2>1. needed' = Cardinality(Uncounted')
    BY <1>3 DEF CompletionsCounted
  <2>2. ASSUME ended' = "completed" \/ \E r \in Combining!Sources : c_pc'[r] = "completed"
        PROVE  Uncounted' = {}
    <3>1. ended = "completed" \/ \E r \in Combining!Sources : c_pc[r] = "completed"
      BY <1>3, <2>2
    <3> QED
      BY <1>3, <3>1 DEF CompletionsCounted
  <2> QED
    BY <1>1, <1>3, <2>1, <2>2 DEF CompletionsCounted
<1> QED
  BY <1>2, <1>3

\* A source that moves leaves the others where they are.
LEMMA PlacesKept ==
  ASSUME CombiningPlaces, NEW s \in Combining!Sources, PlaceOf(s)', UNCHANGED c_kind,
         \A r \in Combining!Sources \ {s} :
           c_pc'[r] = c_pc[r] /\ finished'[r] = finished[r] /\ c_emitted'[r] = c_emitted[r]
  PROVE  CombiningPlaces'
<1> SUFFICES ASSUME NEW r \in Combining!Sources, r # s PROVE PlaceOf(r)'
  BY DEF CombiningPlaces
<1>1. c_pc'[r] = c_pc[r] /\ finished'[r] = finished[r] /\ c_emitted'[r] = c_emitted[r] /\ PlaceOf(r)
  BY DEF CombiningPlaces
<1> QED
  BY <1>1 DEF PlaceOf, Mixing

\* Once the result has ended, what it was made of stays as it was.
SourcesGoOn ==
  \A s \in Combining!Sources :
    /\ finished[s] # "no" => finished'[s] = finished[s] /\ c_emitted'[s] = c_emitted[s]
    /\ c_emitted'[s] >= c_emitted[s]

\* The result of zip and combine_latest completes after all sources have.
LEMMA AllCompleted ==
  ASSUME CombiningBase, Mixing, ended = "completed" \/ \E r \in Combining!Sources : c_pc[r] = "completed",
         NEW s \in Combining!Sources
  PROVE  finished[s] = "completed" /\ c_pc[s] # "decrement"
BY DEF CombiningBase, CompletionsCounted, Uncounted

\* The notifier of take_until that has said nothing yet had said nothing before.
LEMMA QuietBefore ==
  ASSUME CombiningTypes, CombiningTypes', SourcesGoOn, Quiet' PROVE Quiet
<1> SUFFICES ASSUME NEW s \in Combining!Others PROVE c_emitted[s] = 0 /\ finished[s] = "no"
  BY DEF Quiet
<1>1. s \in Combining!Sources /\ c_emitted[s] \in Nat /\ c_emitted'[s] = 0 /\ finished'[s] = "no"
  BY SourceEmitsAssumption DEF Quiet, CombiningTypes, Combining!TypeOK, Combining!Others
<1> QED
  BY <1>1 DEF SourcesGoOn

\* The observable an operator is applied to is one of its sources.
LEMMA MainIsSource == Main \in Combining!Sources
  BY NumSourcesAssumption DEF Main, Combining!Main, Combining!Sources

\* A step of one source that passes nothing on leaves the result what it should be.
LEMMA CombiningWholeKept ==
  ASSUME CombiningBase, CombiningWhole, CombiningTypes', SourcesGoOn,
         UNCHANGED <<c_kind, got, ended>>, m_stopped' => m_stopped \/ (Quiet => finished[Main] # "no")
  PROVE  CombiningWhole'
<1> USE MainIsSource
<1>t. CombiningTypes
  BY DEF CombiningBase
<1>1. UntilStopped'
  <2> SUFFICES ASSUME UntilStopped, c_kind = "take_until", m_stopped' \/ ended = "completed", Quiet
               PROVE  finished'[Main] # "no"
    BY <1>t, QuietBefore DEF UntilStopped, CombiningWhole
  <2>1. finished[Main] # "no"
    BY DEF UntilStopped
  <2> QED
    BY <2>1 DEF SourcesGoOn
<1>2. Combining!Combines'
  <2>1. \A s \in Combining!Sources : \A v : Combining!ThrewAt(s, v) => Combining!ThrewAt(s, v)'
    BY DEF Combining!ThrewAt, SourcesGoOn
  <2>2. Combining!Combines /\ c_kind' = c_kind /\ got' = got
    BY DEF CombiningWhole
  <2> SUFFICES ASSUME NEW i \in 1..Len(got), i > 1, c_kind = "combine_latest"
               PROVE  \E s \in Combining!Sources :
                        /\ got[i][s] = got[i - 1][s] + 1
                        /\ \A r \in Combining!Sources \ {s} :
                             \/ got[i][r] = got[i - 1][r]
                             \/ got[i][r] = got[i - 1][r] + 1 /\ Combining!ThrewAt(r, got[i][r])'
    BY <2>2 DEF Combining!Combines
  <2>3. PICK s \in Combining!Sources :
          /\ got[i][s] = got[i - 1][s] + 1
          /\ \A r \in Combining!Sources \ {s} :
               \/ got[i][r] = got[i - 1][r]
               \/ got[i][r] = got[i - 1][r] + 1 /\ Combining!ThrewAt(r, got[i][r])
    BY <2>2 DEF Combining!Combines
  <2> QED
    BY <2>1, <2>2, <2>3
<1>3. Combining!CompletesWhole'
  <2> SUFFICES ASSUME ended = "completed" PROVE Combining!CompletesWhole'
    BY DEF Combining!CompletesWhole
  <2>1. CASE Mixing
    <3>1. \A s \in Combining!Sources : finished[s] = "completed"
      BY <2>1, AllCompleted
    <3>2. \A s \in Combining!Sources : finished'[s] = "completed" /\ c_emitted'[s] = c_emitted[s]
      BY <3>1 DEF SourcesGoOn
    <3>3. c_emitted' = c_emitted
      BY <1>t, <3>2 DEF CombiningTypes, Combining!TypeOK
    <3> QED
      BY <2>1, <3>2, <3>3 DEF CombiningWhole, Combining!CompletesWhole, Mixing
  <2>2. CASE c_kind = "with_latest_from"
    BY <2>2 DEF CombiningWhole, Combining!CompletesWhole, SourcesGoOn, Main
  <2>3. CASE c_kind = "take_until"
    <3> SUFFICES ASSUME Quiet' PROVE Len(got) = c_emitted'[Main]
      BY <2>3 DEF Combining!CompletesWhole, Main, Quiet
    <3>1. Quiet
      BY <1>t, QuietBefore
    <3>2. finished[Main] # "no" /\ Len(got) = c_emitted[Main]
      BY <2>3, <3>1 DEF CombiningWhole, UntilStopped, Combining!CompletesWhole, Main, Quiet
    <3> QED
      BY <3>2 DEF SourcesGoOn
  <2> QED
    BY <1>t, <2>1, <2>2, <2>3 DEF CombiningTypes, Combining!TypeOK, Combining!Kinds, Mixing
<1> QED
  BY <1>1, <1>2, <1>3 DEF CombiningWhole

\* A step that neither stores nor passes on.
LEMMA CombiningOpenKept ==
  ASSUME CombiningBase, CombiningOpen, CombiningTypes', SourcesGoOn,
         UNCHANGED <<c_kind, got>>, ~closed' => values' = values, closed => closed',
         m_stopped => m_stopped',
         \A s \in Combining!Sources : ~closed' /\ (Mixing \/ s = Main) => Taken(s)' = Taken(s),
         c_pc'[Main] = "deliver" =>
           c_pc[Main] = "deliver" /\ result' = result /\ c_emitted'[Main] = c_emitted[Main]
  PROVE  CombiningOpen'
<1> USE MainIsSource
<1>t. CombiningTypes
  BY DEF CombiningBase
<1>f. \A s \in Combining!Sources : finished[s] # "no" => finished'[s] = finished[s]
  BY DEF SourcesGoOn
<1> SUFFICES ASSUME ~closed, ~closed', values' = values PROVE CombiningOpen'
  BY DEF CombiningOpen, ZipKept, LatestKept, WithKept, UntilKept
<1>1. ASSUME c_kind = "zip" PROVE ZipQueues' /\ ZipOneEmpty'
  <2>1. ZipQueues /\ ZipOneEmpty
    BY <1>1 DEF CombiningOpen, ZipKept
  <2>2. ZipQueues'
    <3>1. \A s \in Combining!Sources : Taken(s)' = Taken(s)
      BY <1>1 DEF Mixing
    <3> QED
      BY <2>1, <3>1 DEF ZipQueues
  <2> QED
    BY <1>f, <2>1, <2>2 DEF ZipOneEmpty
<1>2. ASSUME c_kind = "combine_latest" PROVE LatestStored' /\ LatestPassedOn' /\ LatestNotYet'
  <2>1. LatestStored /\ LatestPassedOn /\ LatestNotYet
    BY <1>2 DEF CombiningOpen, LatestKept
  <2>2. \A s \in Combining!Sources : Taken(s)' = Taken(s)
    BY <1>2 DEF Mixing
  <2>3. LatestStored'
    BY <2>1, <2>2 DEF LatestStored
  <2>4. LatestPassedOn'
    BY <1>f, <2>1, <2>2 DEF LatestPassedOn
  <2>5. LatestNotYet'
    BY <1>f, <2>1, <2>2 DEF LatestNotYet
  <2> QED
    BY <2>3, <2>4, <2>5
<1>3. ASSUME c_kind = "with_latest_from" PROVE WithStored' /\ WithPassedOn' /\ WithResult'
  <2>1. WithStored /\ WithPassedOn /\ WithResult
    BY <1>3 DEF CombiningOpen, WithKept
  <2>2. WithStored'
    <3> SUFFICES ASSUME NEW s \in Combining!Sources, values[s] # <<>>
                 PROVE  s # Main /\ \E v \in 1..c_emitted'[s] : values[s] = <<v>>
      BY DEF WithStored
    <3>1. PICK v \in 1..c_emitted[s] : values[s] = <<v>>
      BY <2>1 DEF WithStored
    <3>2. c_emitted[s] \in Int /\ c_emitted'[s] \in Int /\ c_emitted'[s] >= c_emitted[s]
      BY <1>t, SourceEmitsAssumption DEF CombiningTypes, Combining!TypeOK, SourcesGoOn
    <3>3. v \in 1..c_emitted'[s]
      BY <3>1, <3>2
    <3> QED
      BY <2>1, <3>1, <3>3 DEF WithStored
  <2>3. WithPassedOn'
    BY <1>f, <2>1 DEF WithPassedOn
  <2>4. WithResult'
    BY <2>1 DEF WithResult
  <2> QED
    BY <2>2, <2>3, <2>4
<1>4. ASSUME c_kind = "take_until" PROVE UntilPassedOn' /\ UntilResult'
  <2>1. UntilPassedOn /\ UntilResult
    BY <1>4 DEF CombiningOpen, UntilKept
  <2>2. Quiet' => Quiet
    BY <1>t, QuietBefore
  <2>3. UntilPassedOn'
    BY <1>4, <2>1, <2>2 DEF UntilPassedOn
  <2>4. UntilResult'
    BY <2>1 DEF UntilResult
  <2> QED
    BY <2>3, <2>4
<1> QED
  BY <1>1, <1>2, <1>3, <1>4 DEF CombiningOpen, ZipKept, LatestKept, WithKept, UntilKept

\* Of what thread s is at, nothing else changes.
OnlyAt(s) ==
  /\ \A r \in Combining!Sources \ {s} :
       c_pc'[r] = c_pc[r] /\ finished'[r] = finished[r] /\ c_emitted'[r] = c_emitted[r]
  /\ finished[s] # "no" => finished'[s] = finished[s] /\ c_emitted'[s] = c_emitted[s]
  /\ c_emitted'[s] >= c_emitted[s]

\* A source that ends calls no more, and none takes a value back.
LEMMA OnlyAtGoesOn ==
  ASSUME CombiningTypes, NEW s \in Combining!Sources, OnlyAt(s) PROVE SourcesGoOn
<1> SUFFICES ASSUME NEW r \in Combining!Sources, r # s
             PROVE  /\ finished[r] # "no" => finished'[r] = finished[r] /\ c_emitted'[r] = c_emitted[r]
                    /\ c_emitted'[r] >= c_emitted[r]
  BY DEF SourcesGoOn, OnlyAt
<1>1. c_emitted[r] \in Int
  BY SourceEmitsAssumption DEF CombiningTypes, Combining!TypeOK
<1> QED
  BY <1>1 DEF OnlyAt

\* A step of one source that passes nothing on and stores nothing.
LEMMA CombiningQuietStep ==
  ASSUME CombiningInv, NEW s \in Combining!Sources, OnlyAt(s),
         CombiningTypes', PlaceOf(s)', CompletionsCounted',
         UNCHANGED <<c_kind, got, ended, result>>, ~closed' => values' = values, closed => closed',
         m_stopped => m_stopped', m_stopped' => m_stopped \/ (Quiet => finished[Main] # "no"),
         ~closed' /\ (Mixing \/ s = Main) => Taken(s)' = Taken(s),
         c_pc'[s] = "deliver" => c_pc[s] = "deliver" /\ c_emitted'[s] = c_emitted[s]
  PROVE  CombiningRest'
<1>b. CombiningBase /\ CombiningOpen /\ CombiningWhole /\ ResultTyped /\ CombiningTypes /\ CombiningPlaces
  BY DEF CombiningInv, CombiningRest, CombiningBase
<1>g. SourcesGoOn
  BY <1>b, OnlyAtGoesOn
<1>1. CombiningPlaces'
  BY <1>b, PlacesKept DEF OnlyAt
<1>2. c_pc'[Main] = "deliver" =>
        c_pc[Main] = "deliver" /\ result' = result /\ c_emitted'[Main] = c_emitted[Main]
  BY MainIsSource DEF OnlyAt
<1>3. \A r \in Combining!Sources : ~closed' /\ (Mixing \/ r = Main) => Taken(r)' = Taken(r)
  BY DEF OnlyAt, Taken
<1>4. CombiningWhole'
  BY <1>b, <1>g, CombiningWholeKept
<1>5. CombiningOpen'
  BY <1>b, <1>g, <1>2, <1>3, CombiningOpenKept
<1>6. ResultTyped'
  BY <1>b, <1>2 DEF ResultTyped
<1> QED
  BY <1>1, <1>4, <1>5, <1>6 DEF CombiningRest

\* A source emits.
LEMMA CombiningSourceNext ==
  ASSUME CombiningInv, UNCHANGED c_kind, NEW s \in Combining!Sources, Combining!SourceNext(s)
  PROVE  CombiningRest'
<1>b. CombiningTypes /\ CombiningPlaces /\ CompletionsCounted /\ PlaceOf(s) /\ SourcesApart
  BY DEF CombiningInv, CombiningRest, CombiningPlaces
<1>1. /\ c_pc[s] = "idle" /\ c_emitted[s] \in Nat /\ c_emitted[s] < SourceEmits
      /\ c_emitted' = [c_emitted EXCEPT ![s] = c_emitted[s] + 1]
      /\ c_pc' = [c_pc EXCEPT ![s] = Combining!OnNext(s)] /\ finished' = finished
      /\ UNCHANGED <<closed, ended, inside, got, held, outer, disposed, unsubscribed, user,
                     mutex, values, needed, m_stopped, result>>
  BY <1>b, SourceEmitsAssumption
     DEF Combining!SourceNext, Combining!Listening, Combining!Jump, Combining!Goto, Combining!stored,
         Combining!downstream, Combining!calls, Combining!links, CombiningTypes, Combining!TypeOK
<1>2. c_pc'[s] = Combining!OnNext(s) /\ c_emitted'[s] = c_emitted[s] + 1 /\ finished[s] = "no"
  BY <1>b, <1>1 DEF SourcesApart, Combining!Sources, CombiningTypes, Combining!TypeOK, PlaceOf
<1>3. OnlyAt(s)
  BY <1>1, <1>2, <1>b DEF OnlyAt, SourcesApart, Combining!Sources, CombiningTypes, Combining!TypeOK
<1>4. CombiningTypes'
  <2>1. c_emitted' \in [Combining!Sources -> 0..SourceEmits]
    BY <1>1, <1>b, SourceEmitsAssumption DEF CombiningTypes, Combining!TypeOK
  <2> QED
    BY <1>1, <1>b, <2>1 DEF CombiningTypes, Combining!TypeOK, Combining!DownstreamTypeOK
<1>5. /\ Combining!OnNext(s) \in {"next", "combine", "store", "check", "stop_completed"}
      /\ Combining!OnNext(s) = "next" <=> Mixing
      /\ Combining!OnNext(s) = "store" => c_kind = "with_latest_from" /\ s # Main
      /\ Combining!OnNext(s) = "combine" => c_kind = "with_latest_from" /\ s = Main
      /\ Combining!OnNext(s) = "check" => c_kind = "take_until" /\ s = Main
      /\ Combining!OnNext(s) = "stop_completed" => c_kind = "take_until" /\ s # Main
  BY <1>b DEF Combining!OnNext, CombiningTypes, Combining!TypeOK, Combining!Kinds, Mixing, Main
<1>6. PlaceOf(s)'
  BY <1>1, <1>2, <1>5 DEF PlaceOf, Mixing
<1>7. CompletionsCounted'
  <2>1. Uncounted' = Uncounted
    BY <1>1, <1>2, <1>3, <1>5 DEF Uncounted, OnlyAt
  <2> QED
    BY <1>b, <1>1, <1>2, <1>3, <1>5, <2>1, CountKept DEF OnlyAt
<1>8. Mixing \/ s = Main => Taken(s)' = Taken(s)
  BY <1>1, <1>2, <1>5 DEF Taken
<1> QED
  BY <1>1, <1>2, <1>3, <1>4, <1>5, <1>6, <1>7, <1>8, CombiningQuietStep

\* A source ends.
LEMMA CombiningSourceEnds ==
  ASSUME CombiningInv, UNCHANGED c_kind, NEW s \in Combining!Sources, Combining!SourceEnds(s)
  PROVE  CombiningRest'
<1>b. CombiningTypes /\ CombiningPlaces /\ CompletionsCounted /\ PlaceOf(s) /\ SourcesApart
  BY DEF CombiningInv, CombiningRest, CombiningPlaces
<1>0. PICK how \in {"completed", "error"} :
        /\ finished' = [finished EXCEPT ![s] = how]
        /\ c_pc' = [c_pc EXCEPT ![s] = IF how = "error" THEN Combining!OnError ELSE Combining!OnCompleted(s)]
  BY DEF Combining!SourceEnds, Combining!Jump, Combining!Goto
<1> DEFINE label == IF how = "error" THEN Combining!OnError ELSE Combining!OnCompleted(s)
<1>1. /\ c_pc[s] = "idle" /\ c_emitted' = c_emitted /\ c_emitted[s] \in Nat
      /\ UNCHANGED <<closed, ended, inside, got, held, outer, disposed, unsubscribed, user,
                     mutex, values, needed, m_stopped, result>>
  BY <1>b, SourceEmitsAssumption
     DEF Combining!SourceEnds, Combining!Listening, Combining!Jump, Combining!Goto, Combining!stored,
         Combining!downstream, Combining!calls, Combining!links, CombiningTypes, Combining!TypeOK
<1>2. c_pc'[s] = label /\ finished'[s] = how /\ finished[s] = "no"
  BY <1>b, <1>0, <1>1 DEF SourcesApart, Combining!Sources, CombiningTypes, Combining!TypeOK, PlaceOf
<1>3. OnlyAt(s)
  BY <1>0, <1>1, <1>2, <1>b DEF OnlyAt, SourcesApart, Combining!Sources, CombiningTypes, Combining!TypeOK
<1>4. CombiningTypes'
  <2>1. finished' \in [Combining!Sources -> {"no", "completed", "error"}]
    BY <1>0, <1>b DEF CombiningTypes, Combining!TypeOK
  <2> QED
    BY <1>1, <1>b, <2>1 DEF CombiningTypes, Combining!TypeOK, Combining!DownstreamTypeOK
<1>5. /\ label \in {"decrement", "completed", "release", "stop_completed", "stop_error", "error"}
      /\ label \in {"stop_error", "error"} <=> how = "error"
      /\ label = "decrement" <=> Mixing /\ how = "completed"
      /\ label = "completed" => c_kind = "with_latest_from" /\ s = Main
      /\ label = "release" => c_kind = "with_latest_from" /\ s # Main
      /\ label \in {"stop_completed", "stop_error"} <=> c_kind = "take_until"
  BY <1>b DEF Combining!OnCompleted, Combining!OnError, CombiningTypes, Combining!TypeOK, Combining!Kinds,
              Mixing, Main
<1> HIDE DEF label
<1>6. PlaceOf(s)'
  BY <1>1, <1>2, <1>5 DEF PlaceOf, Mixing
<1>7. CompletionsCounted'
  <2>1. Mixing => Uncounted' = Uncounted
    BY <1>1, <1>2, <1>3, <1>5 DEF Uncounted, OnlyAt
  <2> QED
    BY <1>b, <1>1, <1>2, <1>3, <1>5, <2>1, CountKept DEF OnlyAt, Mixing
<1>8. Taken(s)' = Taken(s)
  BY <1>1, <1>2, <1>5 DEF Taken
<1> QED
  BY <1>1, <1>2, <1>3, <1>4, <1>5, <1>6, <1>7, <1>8, CombiningQuietStep

\* What is the same for every step of the source's own: its place, and no value.
LEMMA CombiningAt ==
  ASSUME SourcesApart, CombiningTypes, NEW s \in Combining!Sources, NEW label,
         c_pc' = [c_pc EXCEPT ![s] = label], UNCHANGED <<c_emitted, finished>>
  PROVE  /\ OnlyAt(s) /\ c_pc'[s] = label /\ c_emitted'[s] = c_emitted[s] /\ finished'[s] = finished[s]
         /\ c_emitted[s] \in Nat
<1>1. c_pc'[s] = label /\ \A r \in Combining!Sources \ {s} : c_pc'[r] = c_pc[r]
  BY DEF SourcesApart, Combining!Sources
<1>2. \A r \in Combining!Sources : c_emitted[r] \in Nat
  BY SourceEmitsAssumption DEF CombiningTypes, Combining!TypeOK
<1> QED
  BY <1>1, <1>2 DEF OnlyAt

\* A callback returns, and the notifier of take_until goes on or the source is done.
LEMMA CombiningReturns ==
  ASSUME CombiningInv, UNCHANGED c_kind, NEW s \in Combining!Sources,
         Combining!LeaveNext(s) \/ Combining!LeaveTerminal(s) \/ Combining!Release(s)
  PROVE  CombiningRest'
<1>b. CombiningTypes /\ CombiningPlaces /\ CompletionsCounted /\ PlaceOf(s) /\ SourcesApart
  BY DEF CombiningInv, CombiningRest, CombiningPlaces
<1>1. /\ UNCHANGED <<ended, got, values, needed, m_stopped, result, c_emitted, finished>>
      /\ c_pc[s] \in {"in_next", "in_terminal", "release"}
  BY DEF Combining!LeaveNext, Combining!LeaveTerminal, Combining!Release, Combining!EndNext,
         Combining!EndTerminal, Combining!stored, Combining!sources, Combining!calls
<1>2. closed => closed'
  BY DEF Combining!LeaveNext, Combining!LeaveTerminal, Combining!Release, Combining!EndNext,
         Combining!EndTerminal, Combining!calls
<1>3. PICK label \in {"idle", "release", "done"} :
        /\ c_pc' = [c_pc EXCEPT ![s] = label]
        /\ label = "idle" => c_pc[s] = "in_next" \/ finished[s] = "no"
        /\ label = "release" => c_pc[s] = "in_terminal"
  BY DEF Combining!LeaveNext, Combining!LeaveTerminal, Combining!Release, Combining!EndNext,
         Combining!EndTerminal, Combining!Goto
<1>4. OnlyAt(s) /\ c_pc'[s] = label /\ c_emitted'[s] = c_emitted[s] /\ finished'[s] = finished[s]
      /\ c_emitted[s] \in Nat
  BY <1>b, <1>1, <1>3, CombiningAt
<1>5. CombiningTypes'
  <2>1. /\ closed' \in BOOLEAN /\ mutex' \in Combining!Sources \union {Combining!NoOne}
        /\ inside' \subseteq 0..NumSources /\ held' \subseteq 0..NumSources /\ outer' \subseteq 0..NumSources
        /\ unsubscribed' \subseteq 0..NumSources /\ disposed' \in BOOLEAN
        /\ user' \in {"subscribed", "disposing", "gone"}
    <3> USE <1>b DEF Combining!links, Combining!calls, CombiningTypes, Combining!TypeOK,
                     Combining!DownstreamTypeOK
    <3>1. CASE Combining!LeaveNext(s)
      BY <3>1 DEF Combining!LeaveNext, Combining!EndNext
    <3>2. CASE Combining!LeaveTerminal(s)
      BY <3>2 DEF Combining!LeaveTerminal, Combining!EndTerminal, Combining!DisposeUpstreams
    <3>3. CASE Combining!Release(s)
      <4>1. s \in 0..NumSources
        BY DEF Combining!Sources
      <4>2. unsubscribed' = unsubscribed \/ unsubscribed' = unsubscribed \union {s}
        BY <3>3 DEF Combining!Release
      <4>3. UNCHANGED <<closed, mutex, inside, held, outer, disposed, user>>
        BY <3>3 DEF Combining!Release
      <4> QED
        BY <4>1, <4>2, <4>3
    <3> QED
      BY <3>1, <3>2, <3>3
  <2> QED
    BY <1>1, <1>b, <2>1 DEF CombiningTypes, Combining!TypeOK, Combining!DownstreamTypeOK
<1>6. PlaceOf(s)'
  BY <1>b, <1>1, <1>3, <1>4 DEF PlaceOf, Mixing
<1>7. CompletionsCounted'
  <2>1. Uncounted' = Uncounted
    BY <1>1, <1>3, <1>4 DEF Uncounted, OnlyAt
  <2> QED
    BY <1>b, <1>1, <1>3, <1>4, <2>1, CountKept DEF OnlyAt
<1>8. Taken(s)' = Taken(s)
  BY <1>1, <1>3, <1>4 DEF Taken
<1> QED
  BY <1>1, <1>2, <1>3, <1>4, <1>5, <1>6, <1>7, <1>8, CombiningQuietStep

\* The source that has the counter at 1 ends the result, and all have completed.
LEMMA CombiningDecrement ==
  ASSUME CombiningInv, UNCHANGED c_kind, NEW s \in Combining!Sources, Combining!Decrement(s)
  PROVE  CombiningRest'
<1>b. CombiningTypes /\ CombiningPlaces /\ CompletionsCounted /\ PlaceOf(s) /\ SourcesApart
  BY DEF CombiningInv, CombiningRest, CombiningPlaces
<1> DEFINE label == IF needed = 1 THEN "completed" ELSE "release"
<1>1. /\ c_pc[s] = "decrement" /\ needed' = needed - 1 /\ c_pc' = [c_pc EXCEPT ![s] = label]
      /\ UNCHANGED <<closed, ended, inside, got, held, outer, disposed, unsubscribed, user,
                     mutex, values, m_stopped, result, c_emitted, finished>>
  BY DEF Combining!Decrement, Combining!Goto, Combining!sources, Combining!downstream, Combining!calls,
         Combining!links
<1>4. OnlyAt(s) /\ c_pc'[s] = label /\ c_emitted'[s] = c_emitted[s] /\ finished'[s] = finished[s]
      /\ c_emitted[s] \in Nat
  BY <1>b, <1>1, CombiningAt
<1>5. label \in {"completed", "release"} /\ (label = "completed" <=> needed = 1)
  OBVIOUS
<1> HIDE DEF label
<1>m. Mixing /\ finished[s] = "completed" /\ Mixing'
  BY <1>b, <1>1 DEF PlaceOf, Mixing
<1>u. Uncounted \subseteq Combining!Sources /\ s \in Uncounted /\ Uncounted' = Uncounted \ {s}
  <2>1. Uncounted \subseteq Combining!Sources /\ s \in Uncounted
    BY <1>1 DEF Uncounted
  <2>2. \A r \in Combining!Sources \ {s} : r \in Uncounted' <=> r \in Uncounted
    BY <1>1, <1>4 DEF Uncounted, OnlyAt
  <2>3. s \notin Uncounted' /\ Uncounted' \subseteq Combining!Sources
    BY <1>m, <1>4, <1>5 DEF Uncounted
  <2> QED
    BY <2>1, <2>2, <2>3
<1>c. /\ needed = Cardinality(Uncounted) /\ needed \in 1..NumSources
      /\ needed' = Cardinality(Uncounted') /\ (needed' = 0 <=> Uncounted' = {})
  <2>1. needed = Cardinality(Uncounted)
    BY <1>b, <1>m DEF CompletionsCounted
  <2>2. Cardinality(Uncounted) \in 0..NumSources /\ (Cardinality(Uncounted) = 0 <=> Uncounted = {})
        /\ Cardinality(Uncounted \ {s}) = Cardinality(Uncounted) - 1
    BY <1>u, CountSources
  <2>3. Cardinality(Uncounted') = Cardinality(Uncounted) - 1
    BY <1>u, <2>2
  <2>4. Uncounted' \subseteq Combining!Sources
    BY <1>u
  <2>5. Cardinality(Uncounted') = 0 <=> Uncounted' = {}
    BY <2>4, CountSources
  <2> QED
    BY <1>1, <1>u, <2>1, <2>2, <2>3, <2>5, NumSourcesAssumption
<1>6. CombiningTypes'
  <2>1. needed' \in 0..NumSources
    BY <1>1, <1>c, NumSourcesAssumption
  <2> QED
    BY <1>b, <1>1, <2>1 DEF CombiningTypes, Combining!TypeOK, Combining!DownstreamTypeOK
<1>7. PlaceOf(s)'
  BY <1>m, <1>4, <1>5 DEF PlaceOf, Mixing
<1>8. CompletionsCounted'
  <2>1. ASSUME ended' = "completed" \/ \E r \in Combining!Sources : c_pc'[r] = "completed"
        PROVE  Uncounted' = {}
    <3>1. CASE ended = "completed" \/ \E r \in Combining!Sources : c_pc[r] = "completed"
      BY <1>b, <1>m, <1>u, <3>1 DEF CompletionsCounted
    <3>2. CASE ~(ended = "completed" \/ \E r \in Combining!Sources : c_pc[r] = "completed")
      <4>1. c_pc'[s] = "completed"
        BY <1>1, <1>4, <2>1, <3>2 DEF OnlyAt
      <4>2. needed' = 0
        BY <1>1, <1>4, <1>5, <4>1
      <4> QED
        BY <1>c, <4>2
    <3> QED
      BY <3>1, <3>2
  <2> QED
    BY <1>m, <1>c, <2>1 DEF CompletionsCounted
<1>9. Taken(s)' = Taken(s)
  BY <1>1, <1>4, <1>5 DEF Taken
<1> QED
  BY <1>1, <1>4, <1>5, <1>6, <1>7, <1>8, <1>9, CombiningQuietStep

\* The next source is subscribed to.
LEMMA CombiningSubscribe ==
  ASSUME CombiningInv, UNCHANGED c_kind, Combining!Subscribe PROVE CombiningRest'
<1>b. CombiningTypes /\ CombiningPlaces /\ CompletionsCounted /\ SourcesApart
  BY DEF CombiningInv, CombiningRest
<1>0. PICK s \in Combining!Sources :
        /\ c_pc[s] = "none" /\ Combining!Hold(s)
        /\ c_pc' = [c_pc EXCEPT ![s] = "idle", ![0] = IF s = Combining!Main THEN "done" ELSE "subscribe"]
  BY DEF Combining!Subscribe
<1>1. UNCHANGED <<closed, ended, inside, got, outer, disposed, user,
                  mutex, values, needed, m_stopped, result, c_emitted, finished>>
  BY <1>0 DEF Combining!Subscribe, Combining!calls, Combining!stored, Combining!sources, Combining!Hold
<1>2. c_pc'[s] = "idle" /\ \A r \in Combining!Sources \ {s} : c_pc'[r] = c_pc[r]
  BY <1>b, <1>0 DEF SourcesApart, Combining!Sources
<1>3. \A r \in Combining!Sources : c_emitted[r] \in Nat
  BY <1>b, SourceEmitsAssumption DEF CombiningTypes, Combining!TypeOK
<1>4. OnlyAt(s)
  BY <1>1, <1>2, <1>3 DEF OnlyAt
<1>p. PlaceOf(s)
  BY <1>b DEF CombiningPlaces
<1>5. CombiningTypes'
  <2>1. held' \subseteq 0..NumSources /\ unsubscribed' \subseteq 0..NumSources
    BY <1>b, <1>0 DEF Combining!Hold, CombiningTypes, Combining!TypeOK, Combining!DownstreamTypeOK,
                      Combining!Sources
  <2> QED
    BY <1>b, <1>1, <2>1 DEF CombiningTypes, Combining!TypeOK, Combining!DownstreamTypeOK
<1>6. PlaceOf(s)'
  BY <1>0, <1>1, <1>2, <1>p DEF PlaceOf, Mixing
<1>7. CompletionsCounted'
  <2>1. Uncounted' = Uncounted
    BY <1>0, <1>1, <1>2 DEF Uncounted
  <2> QED
    BY <1>b, <1>1, <1>2, <2>1, CountKept
<1>8. Taken(s)' = Taken(s)
  BY <1>0, <1>1, <1>2 DEF Taken
<1> QED
  BY <1>1, <1>2, <1>4, <1>5, <1>6, <1>7, <1>8, CombiningQuietStep

\* The subscriber leaves, or nothing happens.
LEMMA CombiningUser ==
  ASSUME CombiningInv, UNCHANGED <<c_kind, c_pc, mutex, ended, got, values, needed, m_stopped, result, c_emitted, finished>>,
         Combining!User \/ UNCHANGED Combining!downstream
  PROVE  CombiningRest'
<1>b. CombiningTypes /\ CombiningPlaces /\ CompletionsCounted /\ SourcesApart
  BY DEF CombiningInv, CombiningRest
<1>1. \A r \in Combining!Sources : c_emitted[r] \in Nat
  BY <1>b, SourceEmitsAssumption DEF CombiningTypes, Combining!TypeOK
<1>2. OnlyAt(Main) /\ Main \in Combining!Sources /\ PlaceOf(Main) /\ Taken(Main)' = Taken(Main)
  BY <1>b, <1>1, MainIsSource DEF OnlyAt, CombiningPlaces, Taken
<1>3. /\ closed => closed'
      /\ closed' \in BOOLEAN /\ inside' \subseteq 0..NumSources /\ held' \subseteq 0..NumSources
      /\ outer' \subseteq 0..NumSources /\ unsubscribed' \subseteq 0..NumSources /\ disposed' \in BOOLEAN
      /\ user' \in {"subscribed", "disposing", "gone"}
  BY <1>b DEF Combining!User, Combining!UserDispose, Combining!UserDisposeUpstream,
              Combining!DisposeUpstreams, Combining!downstream, Combining!calls, Combining!links,
              CombiningTypes, Combining!TypeOK, Combining!DownstreamTypeOK
<1>4. CombiningTypes'
  BY <1>b, <1>3 DEF CombiningTypes, Combining!TypeOK, Combining!DownstreamTypeOK
<1>5. PlaceOf(Main)'
  BY <1>2 DEF PlaceOf, Mixing
<1>6. CompletionsCounted'
  <2>1. Uncounted' = Uncounted
    BY DEF Uncounted
  <2> QED
    BY <1>b, <1>2, <2>1, CountKept
<1> QED
  BY <1>2, <1>3, <1>4, <1>5, <1>6, CombiningQuietStep

\* take_until is stopped by what ends it, or by the notifier.
LEMMA CombiningStop ==
  ASSUME CombiningInv, UNCHANGED c_kind, NEW s \in Combining!Sources, Combining!Stop(s)
  PROVE  CombiningRest'
<1>b. CombiningTypes /\ CombiningPlaces /\ CompletionsCounted /\ PlaceOf(s) /\ SourcesApart
  BY DEF CombiningInv, CombiningRest, CombiningPlaces
<1> DEFINE label == IF m_stopped THEN "release" ELSE IF c_pc[s] = "stop_error" THEN "error" ELSE "completed"
<1>1. /\ c_pc[s] \in {"stop_completed", "stop_error"} /\ m_stopped' = TRUE
      /\ c_pc' = [c_pc EXCEPT ![s] = label]
      /\ UNCHANGED <<closed, ended, inside, got, held, outer, disposed, unsubscribed, user,
                     mutex, values, needed, result, c_emitted, finished>>
  BY DEF Combining!Stop, Combining!Goto, Combining!sources, Combining!downstream, Combining!calls,
         Combining!links
<1>2. OnlyAt(s) /\ c_pc'[s] = label /\ c_emitted'[s] = c_emitted[s] /\ finished'[s] = finished[s]
      /\ c_emitted[s] \in Nat
  BY <1>b, <1>1, CombiningAt
<1>3. label \in {"completed", "release", "error"} /\ (label = "error" => c_pc[s] = "stop_error")
  OBVIOUS
<1> HIDE DEF label
<1>4. c_kind = "take_until" /\ ~Mixing /\ ~Mixing'
      /\ (finished[s] # "no" \/ (s # Main /\ c_emitted[s] > 0))
      /\ (c_pc[s] = "stop_error" => finished[s] = "error")
  BY <1>b, <1>1 DEF PlaceOf, Mixing
<1>5. CombiningTypes'
  BY <1>b, <1>1 DEF CombiningTypes, Combining!TypeOK, Combining!DownstreamTypeOK
<1>6. PlaceOf(s)'
  BY <1>2, <1>3, <1>4 DEF PlaceOf
<1>7. CompletionsCounted'
  BY <1>b, <1>1, <1>4 DEF CompletionsCounted
<1>8. Taken(s)' = Taken(s)
  BY <1>1, <1>2, <1>3 DEF Taken
<1>9. Quiet => finished[Main] # "no"
  <2> SUFFICES ASSUME Quiet PROVE finished[Main] # "no"
    OBVIOUS
  <2>1. s \notin Combining!Others
    BY <1>4 DEF Quiet
  <2>2. s = Main
    BY <2>1 DEF Combining!Others, Main
  <2> QED
    BY <1>4, <2>2
<1> QED
  BY <1>1, <1>2, <1>3, <1>5, <1>6, <1>7, <1>8, <1>9, CombiningQuietStep

\* What a completed result has, before anything else can happen.
LEMMA CombiningCompletes ==
  ASSUME CombiningInv, NEW s \in Combining!Sources, c_pc[s] = "completed", ~closed,
         UNCHANGED <<c_kind, got, c_emitted, finished>>
  PROVE  /\ Combining!CompletesWhole'
         /\ c_kind = "take_until" /\ Quiet => finished[Main] # "no"
<1>b. CombiningBase /\ CombiningTypes /\ PlaceOf(s) /\ CombiningOpen
  BY DEF CombiningInv, CombiningRest, CombiningPlaces, CombiningBase
<1>a. \A r \in Combining!Sources :
        c_emitted[r] \in Nat /\ (finished[r] # "no" => Taken(r) = c_emitted[r])
  <2> SUFFICES ASSUME NEW r \in Combining!Sources
               PROVE  c_emitted[r] \in Nat /\ (finished[r] # "no" => Taken(r) = c_emitted[r])
    OBVIOUS
  <2>1. PlaceOf(r) /\ c_emitted[r] \in Nat
    BY <1>b, SourceEmitsAssumption DEF CombiningBase, CombiningPlaces, CombiningTypes, Combining!TypeOK
  <2> QED
    BY <2>1 DEF PlaceOf, Taken
<1>g. Len(got) \in Nat /\ (got # <<>> => Combining!Last(got) = got[Len(got)] /\ Len(got) \in 1..Len(got)
                                        /\ got[Len(got)] \in [Combining!Sources -> Nat])
  BY <1>b DEF CombiningTypes, Combining!Last
<1>1. ASSUME c_kind = "zip"
      PROVE  (\A r \in Combining!Sources : finished[r] = "completed")
             /\ \E r \in Combining!Sources : Len(got) = c_emitted[r]
  <2>1. \A r \in Combining!Sources : finished[r] = "completed"
    BY <1>b, <1>1, AllCompleted DEF Mixing
  <2>2. PICK r \in Combining!Sources : values[r] = <<>>
    BY <1>b, <1>1, <2>1 DEF CombiningOpen, ZipKept, ZipOneEmpty
  <2>3. Taken(r) = Len(got) + Len(values[r])
    BY <1>b, <1>1 DEF CombiningOpen, ZipKept, ZipQueues
  <2>4. Len(values[r]) = 0
    BY <2>2
  <2> QED
    BY <1>a, <1>g, <2>1, <2>3, <2>4
<1>2. ASSUME c_kind = "combine_latest"
      PROVE  /\ \A r \in Combining!Sources : finished[r] = "completed"
             /\ (\A r \in Combining!Sources : c_emitted[r] > 0) => got # <<>> /\ Combining!Last(got) = c_emitted
  <2>1. \A r \in Combining!Sources : finished[r] = "completed" /\ Taken(r) = c_emitted[r]
    BY <1>a, <1>b, <1>2, AllCompleted DEF Mixing
  <2> SUFFICES ASSUME \A r \in Combining!Sources : c_emitted[r] > 0
               PROVE  got # <<>> /\ Combining!Last(got) = c_emitted
    BY <2>1
  <2>2. LatestPassedOn /\ LatestNotYet
    BY <1>b, <1>2 DEF CombiningOpen, LatestKept
  <2>3. got # <<>>
    BY <1>a, <2>1, <2>2 DEF LatestNotYet
  <2>4. \A r \in Combining!Sources : got[Len(got)][r] = c_emitted[r]
    BY <2>1, <2>2, <2>3 DEF LatestPassedOn
  <2>5. c_emitted \in [Combining!Sources -> 0..SourceEmits]
    BY <1>b DEF CombiningTypes, Combining!TypeOK
  <2> QED
    BY <1>g, <2>3, <2>4, <2>5
<1>3. ASSUME c_kind = "with_latest_from"
      PROVE  finished[Main] = "completed" /\ (got # <<>> => Combining!Last(got)[Main] = c_emitted[Main])
  <2>1. s = Main /\ finished[Main] = "completed"
    BY <1>b, <1>3 DEF PlaceOf
  <2>2. WithPassedOn
    BY <1>b, <1>3 DEF CombiningOpen, WithKept
  <2> QED
    BY <1>a, <1>g, <2>1, <2>2 DEF WithPassedOn
<1>4. ASSUME c_kind = "take_until", Quiet
      PROVE  finished[Main] # "no" /\ Len(got) = c_emitted[Main]
  <2>1. finished[s] # "no" \/ (s # Main /\ c_emitted[s] > 0)
    BY <1>b, <1>4 DEF PlaceOf
  <2>2. s \notin Combining!Others
    BY <1>4, <2>1 DEF Quiet
  <2>3. s = Main
    BY <2>2 DEF Combining!Others, Main
  <2>4. UntilPassedOn
    BY <1>b, <1>4 DEF CombiningOpen, UntilKept
  <2> QED
    BY <1>4, <1>a, <2>1, <2>3, <2>4 DEF UntilPassedOn
<1>5. Combining!CompletesWhole'
  <2>k. c_kind \in {"zip", "combine_latest", "with_latest_from", "take_until"}
    BY <1>b DEF CombiningTypes, Combining!TypeOK, Combining!Kinds
  <2>l. Combining!Last(got)' = Combining!Last(got)
    BY DEF Combining!Last
  <2>1. CASE c_kind = "zip"
    BY <1>1, <2>1 DEF Combining!CompletesWhole
  <2>2. CASE c_kind = "combine_latest"
    <3>1. (\A r \in Combining!Sources : c_emitted'[r] > 0) => got' # <<>> /\ Combining!Last(got)' = c_emitted'
      BY <1>2, <2>2, <2>l
    <3> QED
      BY <1>2, <2>2, <3>1 DEF Combining!CompletesWhole
  <2>3. CASE c_kind = "with_latest_from"
    <3>1. finished'[Main] = "completed" /\ (got' # <<>> => Combining!Last(got)'[Main] = c_emitted'[Main])
      BY <1>3, <2>3, <2>l
    <3> QED
      BY <2>3, <3>1 DEF Combining!CompletesWhole, Main
  <2>4. CASE c_kind = "take_until"
    BY <1>4, <2>4 DEF Combining!CompletesWhole, Main, Quiet
  <2> QED
    BY <2>k, <2>1, <2>2, <2>3, <2>4
<1> QED
  BY <1>4, <1>5

\* A terminal call begins, if the observer is not disposed.
LEMMA CombiningEnterTerminal ==
  ASSUME CombiningInv, UNCHANGED c_kind, NEW s \in Combining!Sources, Combining!EnterTerminal(s)
  PROVE  CombiningRest'
<1>b. CombiningTypes /\ CombiningPlaces /\ CompletionsCounted /\ PlaceOf(s) /\ SourcesApart
      /\ CombiningBase /\ CombiningOpen /\ CombiningWhole /\ ResultTyped
  BY DEF CombiningInv, CombiningRest, CombiningPlaces, CombiningBase
<1>1. /\ c_pc[s] \in {"completed", "error"} /\ mutex' \in {Combining!NoOne, s}
      /\ UNCHANGED <<closed, got, held, outer, disposed, unsubscribed, user,
                     values, needed, m_stopped, result, c_emitted, finished>>
      /\ Combining!BeginTerminal(s, c_pc[s], "in_terminal", "release")
  BY DEF Combining!EnterTerminal, Combining!BeginTerminal, Combining!stored, Combining!sources,
         Combining!calls, Combining!links
<1>2. PICK label \in {"release", "in_terminal"} :
        /\ c_pc' = [c_pc EXCEPT ![s] = label]
        /\ \/ closed /\ UNCHANGED <<ended, inside>>
           \/ ~closed /\ ended' = c_pc[s] /\ inside' = inside \union {s}
  BY <1>1 DEF Combining!BeginTerminal, Combining!Goto, Combining!calls
<1>3. OnlyAt(s) /\ c_pc'[s] = label /\ c_emitted'[s] = c_emitted[s] /\ finished'[s] = finished[s]
      /\ c_emitted[s] \in Nat
  BY <1>b, <1>1, <1>2, CombiningAt
<1>4. CombiningTypes'
  <2>0. s \in 0..NumSources /\ inside \subseteq 0..NumSources /\ ended \in {"no", "completed", "error"}
    BY <1>b DEF CombiningTypes, Combining!TypeOK, Combining!DownstreamTypeOK, Combining!Sources
  <2>1. inside' \subseteq 0..NumSources /\ ended' \in {"no", "completed", "error"}
    BY <1>1, <1>2, <2>0
  <2>2. mutex' \in Combining!Sources \union {Combining!NoOne}
    BY <1>1
  <2> QED
    BY <1>b, <1>1, <2>1, <2>2 DEF CombiningTypes, Combining!TypeOK, Combining!DownstreamTypeOK
<1>5. PlaceOf(s)'
  BY <1>b, <1>1, <1>2, <1>3 DEF PlaceOf, Mixing
<1>6. CompletionsCounted'
  <2>1. Uncounted' = Uncounted
    BY <1>1, <1>2, <1>3 DEF Uncounted, OnlyAt
  <2>2. ended' = "completed" => ended = "completed" \/ c_pc[s] = "completed"
    BY <1>2
  <2> QED
    BY <1>b, <1>1, <1>2, <1>3, <2>1, <2>2, CountKept DEF OnlyAt
<1>7. Taken(s)' = Taken(s)
  BY <1>1, <1>2, <1>3 DEF Taken
<1>8. CASE closed
  BY <1>1, <1>2, <1>3, <1>4, <1>5, <1>6, <1>7, <1>8, CombiningQuietStep
<1>9. CASE ~closed
  <2>g. SourcesGoOn
    BY <1>b, <1>3, OnlyAtGoesOn
  <2>1. CombiningPlaces'
    BY <1>b, <1>3, <1>5, PlacesKept DEF OnlyAt
  <2>2. c_pc'[Main] = "deliver" =>
          c_pc[Main] = "deliver" /\ result' = result /\ c_emitted'[Main] = c_emitted[Main]
    BY <1>1, <1>2, <1>3, MainIsSource DEF OnlyAt
  <2>3. \A r \in Combining!Sources : Mixing \/ r = Main => Taken(r)' = Taken(r)
    BY <1>3, <1>7 DEF OnlyAt, Taken
  <2>5. CombiningOpen'
    BY <1>1, <1>b, <1>4, <2>g, <2>2, <2>3, CombiningOpenKept
  <2>6. ResultTyped'
    BY <1>b, <2>2 DEF ResultTyped
  <2>7. Combining!Combines'
    BY <1>b, <1>1 DEF CombiningWhole, Combining!Combines, Combining!ThrewAt
  <2>8. CASE c_pc[s] = "completed"
    <3>1. Combining!CompletesWhole' /\ (c_kind = "take_until" /\ Quiet => finished[Main] # "no")
      BY <1>1, <1>9, <2>8, CombiningCompletes
    <3>2. UntilStopped'
      BY <1>1, <3>1 DEF UntilStopped, Quiet
    <3> QED
      BY <1>4, <1>6, <2>1, <2>5, <2>6, <2>7, <3>1, <3>2 DEF CombiningRest, CombiningWhole
  <2>9. CASE c_pc[s] = "error"
    <3>1. ended' = "error"
      BY <1>2, <1>9, <2>9
    <3>2. Combining!CompletesWhole'
      BY <3>1 DEF Combining!CompletesWhole
    <3>3. UntilStopped'
      BY <1>1, <1>b, <3>1 DEF UntilStopped, Quiet, CombiningWhole
    <3> QED
      BY <1>4, <1>6, <2>1, <2>5, <2>6, <2>7, <3>2, <3>3 DEF CombiningRest, CombiningWhole
  <2> QED
    BY <1>1, <2>8, <2>9
<1> QED
  BY <1>8, <1>9

\* take_until looks whether it has been stopped.
LEMMA CombiningCheck ==
  ASSUME CombiningInv, UNCHANGED c_kind, Combining!CheckStopped PROVE CombiningRest'
<1>b. CombiningTypes /\ CombiningPlaces /\ CompletionsCounted /\ PlaceOf(Main) /\ SourcesApart
      /\ CombiningBase /\ CombiningOpen /\ CombiningWhole /\ ResultTyped
  BY MainIsSource DEF CombiningInv, CombiningRest, CombiningPlaces, CombiningBase
<1> USE MainIsSource
<1>1. /\ c_pc[Main] = "check" /\ result' = [r \in Combining!Sources |-> c_emitted[Main]]
      /\ UNCHANGED <<closed, ended, inside, got, held, outer, disposed, unsubscribed, user,
                     mutex, values, needed, m_stopped, c_emitted, finished>>
  BY DEF Combining!CheckStopped, Combining!downstream, Combining!calls, Combining!links, Combining!sources,
         Main
<1>2. PICK label \in {"idle", "deliver"} :
        c_pc' = [c_pc EXCEPT ![Main] = label] /\ (label = "idle" <=> m_stopped)
  <2>1. c_pc' = [c_pc EXCEPT ![Main] = IF m_stopped THEN "idle" ELSE "deliver"]
    BY DEF Combining!CheckStopped, Combining!Goto, Main
  <2>2. CASE m_stopped
    BY <2>1, <2>2
  <2>3. CASE ~m_stopped
    BY <2>1, <2>3
  <2> QED
    BY <2>2, <2>3
<1>3. OnlyAt(Main) /\ c_pc'[Main] = label /\ c_emitted'[Main] = c_emitted[Main]
      /\ finished'[Main] = finished[Main] /\ c_emitted[Main] \in Nat
  BY <1>b, <1>1, <1>2, CombiningAt
<1>4. c_kind = "take_until" /\ finished[Main] = "no" /\ c_emitted[Main] > 0 /\ ~Mixing
  BY <1>b, <1>1 DEF PlaceOf, Mixing
<1>5. CombiningTypes'
  BY <1>b, <1>1 DEF CombiningTypes, Combining!TypeOK, Combining!DownstreamTypeOK
<1>6. PlaceOf(Main)'
  BY <1>1, <1>2, <1>3, <1>4 DEF PlaceOf, Mixing
<1>7. CombiningPlaces'
  BY <1>b, <1>3, <1>6, PlacesKept DEF OnlyAt
<1>8. CompletionsCounted'
  BY <1>b, <1>1, <1>4 DEF CompletionsCounted, Mixing
<1>9. SourcesGoOn
  BY <1>b, <1>3, OnlyAtGoesOn
<1>10. CombiningWhole'
  BY <1>b, <1>1, <1>5, <1>9, CombiningWholeKept
<1>11. ResultTyped'
  BY <1>1, <1>3 DEF ResultTyped
<1>12. ~closed => UntilPassedOn' /\ UntilResult'
  <2> SUFFICES ASSUME ~closed PROVE UntilPassedOn' /\ UntilResult'
    OBVIOUS
  <2>1. UntilPassedOn /\ UntilStopped
    BY <1>4, <1>b DEF CombiningOpen, UntilKept, CombiningWhole
  <2>2. CASE m_stopped
    <3>1. ~Quiet
      BY <1>4, <2>1, <2>2 DEF UntilStopped
    <3>2. ~Quiet'
      BY <1>1, <3>1 DEF Quiet
    <3>3. UntilPassedOn'
      BY <1>1, <2>2, <3>2 DEF UntilPassedOn
    <3>4. UntilResult'
      BY <1>2, <1>3, <2>2 DEF UntilResult
    <3> QED
      BY <3>3, <3>4
  <2>3. CASE ~m_stopped
    <3>1. Taken(Main)' = Taken(Main) /\ Len(got) = Taken(Main)
      BY <1>1, <1>2, <1>3, <2>1, <2>3 DEF Taken, UntilPassedOn
    <3>2. result'[Main] = c_emitted'[Main]
      BY <1>1
    <3> QED
      BY <1>1, <3>1, <3>2 DEF UntilPassedOn, UntilResult
  <2> QED
    BY <2>2, <2>3
<1>13. CombiningOpen'
  BY <1>1, <1>4, <1>12 DEF CombiningOpen, ZipKept, LatestKept, WithKept, UntilKept
<1> QED
  BY <1>5, <1>7, <1>8, <1>10, <1>11, <1>13 DEF CombiningRest

\* with_latest_from takes a latest value, ...
LEMMA CombiningStoreLatest ==
  ASSUME CombiningInv, UNCHANGED c_kind, NEW s \in Combining!Others, Combining!StoreLatest(s)
  PROVE  CombiningRest'
<1>s. s \in Combining!Sources /\ s # Main
  BY DEF Combining!Others, Main
<1>b. CombiningTypes /\ CombiningPlaces /\ CompletionsCounted /\ PlaceOf(s) /\ SourcesApart
      /\ CombiningBase /\ CombiningOpen /\ CombiningWhole /\ ResultTyped
  BY <1>s DEF CombiningInv, CombiningRest, CombiningPlaces, CombiningBase
<1> USE MainIsSource
<1>1. /\ c_pc[s] = "store" /\ values' = [values EXCEPT ![s] = <<c_emitted[s]>>]
      /\ c_pc' = [c_pc EXCEPT ![s] = "idle"]
      /\ UNCHANGED <<closed, ended, inside, got, held, outer, disposed, unsubscribed, user,
                     mutex, needed, m_stopped, result, c_emitted, finished>>
  BY DEF Combining!StoreLatest, Combining!Goto, Combining!downstream, Combining!calls, Combining!links,
         Combining!sources
<1>3. OnlyAt(s) /\ c_pc'[s] = "idle" /\ c_emitted'[s] = c_emitted[s]
      /\ finished'[s] = finished[s] /\ c_emitted[s] \in Nat
  BY <1>b, <1>s, <1>1, CombiningAt
<1>4. c_kind = "with_latest_from" /\ finished[s] = "no" /\ c_emitted[s] > 0 /\ ~Mixing
  BY <1>b, <1>1 DEF PlaceOf, Mixing
<1>v. /\ values' \in [Combining!Sources -> Seq(1..SourceEmits)] /\ values'[s] = <<c_emitted[s]>>
      /\ \A r \in Combining!Sources \ {s} : values'[r] = values[r]
  <2>1. values \in [Combining!Sources -> Seq(1..SourceEmits)] /\ c_emitted[s] \in 0..SourceEmits
    BY <1>b, <1>s DEF CombiningTypes, Combining!TypeOK
  <2>2. <<c_emitted[s]>> \in Seq(1..SourceEmits)
    BY <2>1, <1>4, SourceEmitsAssumption
  <2> QED
    BY <2>1, <2>2, <1>1, <1>s
<1>5. CombiningTypes'
  BY <1>b, <1>1, <1>v DEF CombiningTypes, Combining!TypeOK, Combining!DownstreamTypeOK
<1>6. PlaceOf(s)'
  BY <1>1, <1>3, <1>4 DEF PlaceOf, Mixing
<1>7. CombiningPlaces'
  BY <1>b, <1>s, <1>3, <1>6, PlacesKept DEF OnlyAt
<1>8. CompletionsCounted'
  BY <1>b, <1>1, <1>4 DEF CompletionsCounted, Mixing
<1>9. SourcesGoOn
  BY <1>b, <1>s, <1>3, OnlyAtGoesOn
<1>10. CombiningWhole'
  BY <1>b, <1>1, <1>5, <1>9, CombiningWholeKept
<1>m. c_pc'[Main] = c_pc[Main] /\ Taken(Main)' = Taken(Main)
  BY <1>s, <1>1, <1>3 DEF OnlyAt, Taken
<1>11. ResultTyped'
  BY <1>1, <1>b, <1>m DEF ResultTyped
<1>12. ~closed => WithStored' /\ WithPassedOn' /\ WithResult'
  <2> SUFFICES ASSUME ~closed PROVE WithStored' /\ WithPassedOn' /\ WithResult'
    OBVIOUS
  <2>1. WithStored /\ WithPassedOn /\ WithResult
    BY <1>4, <1>b DEF CombiningOpen, WithKept
  <2>2. WithStored'
    <3>1. ASSUME NEW r \in Combining!Sources, values'[r] # <<>>
          PROVE  r # Main /\ \E v \in 1..c_emitted'[r] : values'[r] = <<v>>
      <4>1. CASE r = s
        <5>1. c_emitted[s] \in 1..c_emitted'[s]
          BY <1>3, <1>4
        <5> QED
          BY <1>s, <1>v, <4>1, <5>1
      <4>2. CASE r # s
        BY <1>1, <1>v, <2>1, <3>1, <4>2 DEF WithStored
      <4> QED
        BY <4>1, <4>2
    <3> QED
      BY <3>1 DEF WithStored
  <2>3. ASSUME NEW r \in Combining!Others, NEW n \in Nat, values[r] # <<>>, n <= values[r][1]
        PROVE  values'[r] # <<>> /\ n <= values'[r][1]
    <3>1. CASE r = s
      <4>1. PICK v \in 1..c_emitted[s] : values[s] = <<v>>
        BY <1>s, <2>1, <2>3, <3>1 DEF WithStored
      <4>2. n <= v
        BY <2>3, <3>1, <4>1
      <4>3. n <= c_emitted[s]
        BY <1>3, <4>1, <4>2
      <4>4. values'[r] = <<c_emitted[s]>>
        BY <1>v, <3>1
      <4> QED
        BY <4>3, <4>4
    <3>2. CASE r # s
      BY <1>v, <2>3, <3>2 DEF Combining!Others
    <3> QED
      BY <3>1, <3>2
  <2>n. got # <<>> => \A r \in Combining!Others : got[Len(got)][r] \in Nat
    BY <1>b DEF CombiningTypes, Combining!Others
  <2>4. WithPassedOn'
    <3> SUFFICES ASSUME got # <<>>
                 PROVE  /\ finished[Main] = "error" \/ got[Len(got)][Main] = Taken(Main)
                        /\ \A r \in Combining!Others : values'[r] # <<>> /\ got[Len(got)][r] <= values'[r][1]
      BY <1>1, <1>m DEF WithPassedOn
    <3> QED
      BY <2>1, <2>3, <2>n DEF WithPassedOn
  <2>5. WithResult'
    <3> SUFFICES ASSUME c_pc[Main] = "deliver"
                 PROVE  /\ result[Main] = c_emitted[Main]
                        /\ \A r \in Combining!Others : values'[r] # <<>> /\ result[r] <= values'[r][1]
                        /\ got # <<>> => \A r \in Combining!Others : got[Len(got)][r] <= result[r]
      BY <1>1, <1>m DEF WithResult
    <3>1. \A r \in Combining!Others : result[r] \in Nat
      BY <1>b DEF ResultTyped, Combining!Others
    <3> QED
      BY <2>1, <2>3, <3>1 DEF WithResult
  <2> QED
    BY <2>2, <2>4, <2>5
<1>13. CombiningOpen'
  BY <1>1, <1>4, <1>12 DEF CombiningOpen, ZipKept, LatestKept, WithKept, UntilKept
<1> QED
  BY <1>5, <1>7, <1>8, <1>10, <1>11, <1>13 DEF CombiningRest

\* What is stored when a value comes.
LEMMA StoredAs ==
  ASSUME CombiningTypes, NEW s \in Combining!Sources, c_emitted[s] > 0
  PROVE  /\ Combining!Stored(s) \in [Combining!Sources -> Seq(1..SourceEmits)]
         /\ \A r \in Combining!Sources \ {s} : Combining!Stored(s)[r] = values[r]
         /\ c_kind = "zip" => Combining!Stored(s)[s] = Append(values[s], c_emitted[s])
         /\ c_kind # "zip" => Combining!Stored(s)[s] = <<c_emitted[s]>>
<1>1. values \in [Combining!Sources -> Seq(1..SourceEmits)] /\ c_emitted[s] \in 1..SourceEmits
  BY SourceEmitsAssumption DEF CombiningTypes, Combining!TypeOK
<1>2. Append(values[s], c_emitted[s]) \in Seq(1..SourceEmits) /\ <<c_emitted[s]>> \in Seq(1..SourceEmits)
  BY <1>1
<1>3. CASE c_kind = "zip"
  <2>1. Combining!Stored(s) = [values EXCEPT ![s] = Append(values[s], c_emitted[s])]
    BY <1>1, <1>3 DEF Combining!Stored
  <2> QED
    BY <1>1, <1>2, <1>3, <2>1
<1>4. CASE c_kind # "zip"
  <2>1. Combining!Stored(s) = [values EXCEPT ![s] = <<c_emitted[s]>>]
    BY <1>1, <1>4 DEF Combining!Stored
  <2> QED
    BY <1>1, <1>2, <1>4, <2>1
<1> QED
  BY <1>3, <1>4

\* The values combined are the first ones stored.
LEMMA FrontsAre ==
  ASSUME NEW v \in [Combining!Sources -> Seq(1..SourceEmits)], Combining!AllPresent(v)
  PROVE  /\ Combining!Fronts(v) \in [Combining!Sources -> Nat]
         /\ \A r \in Combining!Sources :
              Len(v[r]) \in Nat \ {0} /\ v[r][1] \in Nat /\ Combining!Fronts(v)[r] = v[r][1]
<1>1. ASSUME NEW r \in Combining!Sources
      PROVE  Len(v[r]) \in Nat \ {0} /\ v[r][1] \in Nat /\ Head(v[r]) = v[r][1]
  <2>1. v[r] \in Seq(1..SourceEmits) /\ v[r] # <<>>
    BY DEF Combining!AllPresent
  <2> QED
    BY <2>1, SourceEmitsAssumption
<1> QED
  BY <1>1 DEF Combining!Fronts

\* ... and Main's observer what it has when all have one.
LEMMA CombiningCombine ==
  ASSUME CombiningInv, UNCHANGED c_kind, Combining!Combine PROVE CombiningRest'
<1>b. CombiningTypes /\ CombiningPlaces /\ CompletionsCounted /\ PlaceOf(Main) /\ SourcesApart
      /\ CombiningBase /\ CombiningOpen /\ CombiningWhole /\ ResultTyped
  BY MainIsSource DEF CombiningInv, CombiningRest, CombiningPlaces, CombiningBase
<1> USE MainIsSource
<1> DEFINE v == Combining!Stored(Main)
<1>1. /\ c_pc[Main] = "combine"
      /\ UNCHANGED <<closed, ended, inside, got, held, outer, disposed, unsubscribed, user,
                     mutex, values, needed, m_stopped, c_emitted, finished>>
  BY DEF Combining!Combine, Combining!downstream, Combining!calls, Combining!links, Combining!sources, Main
<1>4. c_kind = "with_latest_from" /\ finished[Main] = "no" /\ c_emitted[Main] > 0 /\ ~Mixing
  BY <1>b, <1>1 DEF PlaceOf, Mixing
<1>2. PICK label \in {"idle", "deliver"} :
        /\ c_pc' = [c_pc EXCEPT ![Main] = label]
        /\ label = "idle" => ~Combining!AllPresent(v)
        /\ label = "deliver" => Combining!AllPresent(v) /\ result' = Combining!Fronts(v)
  <2>1. CASE Combining!AllPresent(v)
    BY <2>1 DEF Combining!Combine, Combining!Goto, Main
  <2>2. CASE ~Combining!AllPresent(v)
    BY <2>2 DEF Combining!Combine, Combining!Goto, Main
  <2> QED
    BY <2>1, <2>2
<1>v. /\ v \in [Combining!Sources -> Seq(1..SourceEmits)] /\ v[Main] = <<c_emitted[Main]>>
      /\ \A r \in Combining!Sources \ {Main} : v[r] = values[r]
  BY <1>4, <1>b, StoredAs
<1> HIDE DEF v
<1>3. OnlyAt(Main) /\ c_pc'[Main] = label /\ c_emitted'[Main] = c_emitted[Main]
      /\ finished'[Main] = finished[Main] /\ c_emitted[Main] \in Nat
  BY <1>b, <1>1, <1>2, CombiningAt
<1>5. CombiningTypes'
  BY <1>b, <1>1 DEF CombiningTypes, Combining!TypeOK, Combining!DownstreamTypeOK
<1>6. PlaceOf(Main)'
  BY <1>1, <1>2, <1>3, <1>4 DEF PlaceOf, Mixing
<1>7. CombiningPlaces'
  BY <1>b, <1>3, <1>6, PlacesKept DEF OnlyAt
<1>8. CompletionsCounted'
  BY <1>b, <1>1, <1>4 DEF CompletionsCounted, Mixing
<1>9. SourcesGoOn
  BY <1>b, <1>3, OnlyAtGoesOn
<1>10. CombiningWhole'
  BY <1>b, <1>1, <1>5, <1>9, CombiningWholeKept
<1>f. label = "deliver" =>
        /\ result' \in [Combining!Sources -> Nat] /\ result'[Main] = c_emitted[Main]
        /\ \A r \in Combining!Others : values[r] # <<>> /\ result'[r] = values[r][1] /\ result'[r] \in Nat
  <2> SUFFICES ASSUME label = "deliver"
               PROVE  /\ result' \in [Combining!Sources -> Nat] /\ result'[Main] = c_emitted[Main]
                      /\ \A r \in Combining!Others :
                           values[r] # <<>> /\ result'[r] = values[r][1] /\ result'[r] \in Nat
    OBVIOUS
  <2>1. /\ result' \in [Combining!Sources -> Nat]
        /\ \A r \in Combining!Sources :
             Len(v[r]) \in Nat \ {0} /\ v[r][1] \in Nat /\ result'[r] = v[r][1]
    BY <1>2, <1>v, FrontsAre
  <2>2. result'[Main] = c_emitted[Main]
    BY <1>v, <2>1
  <2>3. ASSUME NEW r \in Combining!Others
        PROVE  values[r] # <<>> /\ result'[r] = values[r][1] /\ result'[r] \in Nat
    <3>1. r \in Combining!Sources \ {Main}
      BY DEF Combining!Others, Main
    <3>2. v[r] = values[r] /\ Len(v[r]) # 0 /\ result'[r] = v[r][1] /\ v[r][1] \in Nat
      BY <1>v, <2>1, <3>1
    <3> QED
      BY <3>2
  <2> QED
    BY <2>1, <2>2, <2>3
<1>11. ResultTyped'
  BY <1>3, <1>f DEF ResultTyped
<1>12. ~closed => WithStored' /\ WithPassedOn' /\ WithResult'
  <2> SUFFICES ASSUME ~closed PROVE WithStored' /\ WithPassedOn' /\ WithResult'
    OBVIOUS
  <2>1. WithStored /\ WithPassedOn
    BY <1>4, <1>b DEF CombiningOpen, WithKept
  <2>2. WithStored'
    BY <1>1, <2>1 DEF WithStored
  <2>3. CASE label = "idle"
    <3>1. PICK r \in Combining!Sources : v[r] = <<>>
      BY <1>2, <2>3 DEF Combining!AllPresent
    <3>2. r # Main /\ values[r] = <<>>
      <4>1. <<c_emitted[Main]>> # <<>>
        OBVIOUS
      <4>2. r # Main
        BY <1>v, <3>1, <4>1
      <4> QED
        BY <1>v, <3>1, <4>2
    <3>3. got = <<>>
      BY <2>1, <3>2 DEF WithPassedOn, Combining!Others, Main
    <3> QED
      BY <1>1, <1>3, <2>2, <2>3, <3>3 DEF WithPassedOn, WithResult
  <2>4. CASE label = "deliver"
    <3>1. Taken(Main)' = Taken(Main)
      BY <1>1, <1>3, <2>4 DEF Taken
    <3>2. WithPassedOn'
      BY <1>1, <2>1, <3>1 DEF WithPassedOn
    <3>3. WithResult'
      BY <1>1, <1>f, <2>1, <2>4 DEF WithResult, WithPassedOn
    <3> QED
      BY <2>2, <3>2, <3>3
  <2> QED
    BY <2>3, <2>4
<1>13. CombiningOpen'
  BY <1>1, <1>4, <1>12 DEF CombiningOpen, ZipKept, LatestKept, WithKept, UntilKept
<1> QED
  BY <1>5, <1>7, <1>8, <1>10, <1>11, <1>13 DEF CombiningRest

\* What Combines says of one result.
CombinesAt(i) ==
  /\ c_kind = "zip" => \A s \in Combining!Sources : got[i][s] = i
  /\ c_kind = "take_until" => got[i][Main] = i
  /\ i > 1 /\ c_kind \in {"combine_latest", "with_latest_from"} =>
       /\ \A s \in Combining!Sources : got[i][s] >= got[i - 1][s]
       /\ c_kind = "with_latest_from" => got[i][Main] = got[i - 1][Main] + 1
       /\ c_kind = "combine_latest" =>
            \E s \in Combining!Sources :
              /\ got[i][s] = got[i - 1][s] + 1
              /\ \A r \in Combining!Sources \ {s} :
                   \/ got[i][r] = got[i - 1][r]
                   \/ got[i][r] = got[i - 1][r] + 1 /\ Combining!ThrewAt(r, got[i][r])

\* What is passed on is as it should be when each of it is.
LEMMA CombinesEach ==
  /\ Combining!Combines <=> \A i \in 1..Len(got) : CombinesAt(i)
  /\ Combining!Combines' <=> \A i \in 1..Len(got') : CombinesAt(i)'
<1>1. Combining!Combines <=> \A i \in 1..Len(got) : CombinesAt(i)
  BY DEF Combining!Combines, CombinesAt, Main
<1>2. Combining!Combines' <=> \A i \in 1..Len(got') : CombinesAt(i)'
  BY DEF Combining!Combines, CombinesAt, Main
<1> QED
  BY <1>1, <1>2

\* A callback for a value begins, if the observer is not disposed: the new
\* values are in order of what has been passed on.
LEMMA CombiningAppended ==
  ASSUME CombiningInv, UNCHANGED <<c_kind, c_emitted, finished, m_stopped, ended>>, ~closed,
         mutex = Combining!NoOne, NEW v \in [Combining!Sources -> Nat], got' = Append(got, v),
         c_kind = "zip" => \A r \in Combining!Sources : v[r] = Len(got) + 1,
         c_kind = "take_until" => v[Main] = Len(got) + 1,
         got # <<>> /\ c_kind = "with_latest_from" =>
           /\ v[Main] = got[Len(got)][Main] + 1
           /\ \A r \in Combining!Others : v[r] >= got[Len(got)][r],
         got # <<>> /\ c_kind = "combine_latest" =>
           \E s \in Combining!Sources :
             /\ v[s] = got[Len(got)][s] + 1
             /\ \A r \in Combining!Sources \ {s} :
                  \/ v[r] = got[Len(got)][r]
                  \/ v[r] = got[Len(got)][r] + 1 /\ Combining!ThrewAt(r, v[r])
  PROVE  CombiningWhole' /\ got' \in Seq([Combining!Sources -> Nat]) /\ Len(got') = Len(got) + 1
         /\ got' # <<>> /\ got'[Len(got')] = v
<1> USE MainIsSource
<1>b. CombiningTypes /\ SourcesApart /\ UntilStopped /\ Combining!Combines
  BY DEF CombiningInv, CombiningRest, CombiningWhole
<1>1. /\ got' \in Seq([Combining!Sources -> Nat]) /\ Len(got') = Len(got) + 1 /\ Len(got) \in Nat
      /\ got' # <<>> /\ got'[Len(got) + 1] = v /\ \A i \in 1..Len(got) : got'[i] = got[i]
  BY <1>b DEF CombiningTypes
<1>2. ended = "no"
  BY <1>b DEF SourcesApart, CombiningEnded, Locked, CombiningApart, Combining!NoOne, Combining!Sources
<1>3. UntilStopped' /\ Combining!CompletesWhole'
  BY <1>2, <1>b DEF UntilStopped, Quiet, Combining!CompletesWhole
<1>4. Combining!Combines'
  <2>k. \A s \in Combining!Sources : \A n : Combining!ThrewAt(s, n)' = Combining!ThrewAt(s, n)
    BY DEF Combining!ThrewAt
  <2>g. got # <<>> => Len(got) >= 1 /\ got[Len(got)] \in [Combining!Sources -> Nat]
    BY <1>b DEF CombiningTypes
  <2> SUFFICES ASSUME NEW i \in 1..Len(got') PROVE CombinesAt(i)'
    BY CombinesEach
  <2>1. CASE i <= Len(got)
    <3>1. i \in 1..Len(got) /\ got'[i] = got[i] /\ (i > 1 => i - 1 \in 1..Len(got) /\ got'[i - 1] = got[i - 1])
      BY <1>1, <2>1
    <3>2. CombinesAt(i)
      BY <1>b, <3>1, CombinesEach
    <3> QED
      BY <2>k, <3>1, <3>2 DEF CombinesAt
  <2>2. CASE i = Len(got) + 1
    <3>1. got'[i] = v
      BY <1>1, <2>2
    <3>2. i > 1 => got # <<>> /\ i - 1 = Len(got) /\ got'[i - 1] = got[Len(got)]
      <4> SUFFICES ASSUME i > 1 PROVE got # <<>> /\ i - 1 = Len(got) /\ got'[i - 1] = got[Len(got)]
        OBVIOUS
      <4>1. i - 1 = Len(got) /\ Len(got) \in 1..Len(got)
        BY <1>1, <2>2
      <4>2. got # <<>>
        BY <4>1
      <4> QED
        BY <1>1, <4>1, <4>2
    <3>3. c_kind = "zip" => \A s \in Combining!Sources : got'[i][s] = i
      BY <2>2, <3>1
    <3>4. c_kind = "take_until" => got'[i][Main] = i
      BY <2>2, <3>1
    <3>5. ASSUME i > 1, c_kind = "with_latest_from"
          PROVE  /\ \A s \in Combining!Sources : got'[i][s] >= got'[i - 1][s]
                 /\ got'[i][Main] = got'[i - 1][Main] + 1
      <4>1. /\ v[Main] = got[Len(got)][Main] + 1 /\ got[Len(got)][Main] \in Nat
            /\ \A s \in Combining!Others : v[s] >= got[Len(got)][s]
        BY <2>g, <3>2, <3>5
      <4>2. \A s \in Combining!Sources : s = Main \/ s \in Combining!Others
        BY DEF Combining!Others, Main
      <4>3. v[Main] >= got[Len(got)][Main]
        BY <4>1
      <4> QED
        BY <3>1, <3>2, <3>5, <4>1, <4>2, <4>3
    <3>6. ASSUME i > 1, c_kind = "combine_latest"
          PROVE  /\ \A s \in Combining!Sources : got'[i][s] >= got'[i - 1][s]
                 /\ \E s \in Combining!Sources :
                      /\ got'[i][s] = got'[i - 1][s] + 1
                      /\ \A r \in Combining!Sources \ {s} :
                           \/ got'[i][r] = got'[i - 1][r]
                           \/ got'[i][r] = got'[i - 1][r] + 1 /\ Combining!ThrewAt(r, got'[i][r])
      <4>1. PICK s \in Combining!Sources :
              /\ v[s] = got[Len(got)][s] + 1
              /\ \A r \in Combining!Sources \ {s} :
                   \/ v[r] = got[Len(got)][r]
                   \/ v[r] = got[Len(got)][r] + 1 /\ Combining!ThrewAt(r, v[r])
        BY <3>2, <3>6
      <4>2. ASSUME NEW r \in Combining!Sources PROVE v[r] >= got[Len(got)][r]
        <5>1. got[Len(got)][r] \in Nat
          BY <2>g, <3>2, <3>6
        <5>2. v[r] = got[Len(got)][r] \/ v[r] = got[Len(got)][r] + 1
          BY <4>1
        <5> QED
          BY <5>1, <5>2
      <4> QED
        BY <3>1, <3>2, <3>6, <4>1, <4>2
    <3> QED
      BY <3>3, <3>4, <3>5, <3>6 DEF CombinesAt, Combining!ThrewAt
  <2>3. i <= Len(got) \/ i = Len(got) + 1
    BY <1>1
  <2> QED
    BY <2>1, <2>2, <2>3
<1> QED
  BY <1>1, <1>3, <1>4 DEF CombiningWhole

\* Main's observer passes on what it has.
LEMMA CombiningDeliver ==
  ASSUME CombiningInv, UNCHANGED c_kind, Combining!Deliver PROVE CombiningRest'
<1>b. CombiningTypes /\ CombiningPlaces /\ CompletionsCounted /\ PlaceOf(Main) /\ SourcesApart
      /\ CombiningBase /\ CombiningOpen /\ CombiningWhole /\ ResultTyped
  BY MainIsSource DEF CombiningInv, CombiningRest, CombiningPlaces, CombiningBase
<1> USE MainIsSource
<1>1. /\ c_pc[Main] = "deliver" /\ mutex = Combining!NoOne /\ mutex' \in {Combining!NoOne, Main}
      /\ UNCHANGED <<closed, ended, held, outer, disposed, unsubscribed, user,
                     values, needed, m_stopped, result, c_emitted, finished>>
  BY DEF Combining!Deliver, Combining!BeginNext, Combining!stored, Combining!sources, Combining!calls,
         Combining!links, Main
<1>2. PICK label \in {"idle", "in_next"} :
        /\ c_pc' = [c_pc EXCEPT ![Main] = label]
        /\ \/ closed /\ UNCHANGED <<got, inside>>
           \/ ~closed /\ got' = Append(got, result) /\ inside' = inside \union {Main}
  BY DEF Combining!Deliver, Combining!BeginNext, Combining!Goto, Combining!calls, Main
<1>3. OnlyAt(Main) /\ c_pc'[Main] = label /\ c_emitted'[Main] = c_emitted[Main]
      /\ finished'[Main] = finished[Main] /\ c_emitted[Main] \in Nat
  BY <1>b, <1>1, <1>2, CombiningAt
<1>4. ~Mixing /\ finished[Main] = "no" /\ c_emitted[Main] > 0 /\ result \in [Combining!Sources -> Nat]
      /\ c_kind \in {"with_latest_from", "take_until"}
  BY <1>b, <1>1 DEF PlaceOf, Mixing, ResultTyped, CombiningTypes, Combining!TypeOK, Combining!Kinds
<1>5. got' \in Seq([Combining!Sources -> Nat]) => CombiningTypes'
  <2>1. Main \in 0..NumSources /\ inside \subseteq 0..NumSources
    BY <1>b DEF CombiningTypes, Combining!TypeOK, Combining!DownstreamTypeOK, Combining!Sources
  <2>2. inside' \subseteq 0..NumSources
    BY <1>2, <2>1
  <2>3. mutex' \in Combining!Sources \union {Combining!NoOne}
    BY <1>1
  <2> QED
    BY <1>b, <1>1, <2>2, <2>3 DEF CombiningTypes, Combining!TypeOK, Combining!DownstreamTypeOK
<1>6. PlaceOf(Main)'
  BY <1>1, <1>2, <1>3, <1>4 DEF PlaceOf, Mixing
<1>7. CombiningPlaces'
  BY <1>b, <1>3, <1>6, PlacesKept DEF OnlyAt
<1>8. CompletionsCounted'
  BY <1>b, <1>1, <1>4 DEF CompletionsCounted, Mixing
<1>9. ResultTyped'
  BY <1>2, <1>3 DEF ResultTyped
<1>10. CASE closed
  <2>1. CombiningTypes'
    BY <1>b, <1>2, <1>5, <1>10 DEF CombiningTypes
  <2> QED
    BY <1>1, <1>2, <1>3, <1>6, <1>8, <1>10, <2>1, CombiningQuietStep
<1>11. CASE ~closed
  <2>g. got' = Append(got, result) /\ Taken(Main) = c_emitted[Main] - 1 /\ Len(got) \in Nat
        /\ Taken(Main)' = c_emitted[Main]
    BY <1>b, <1>1, <1>2, <1>3, <1>11 DEF Taken, CombiningTypes
  <2>1. c_kind = "take_until" => Len(got) = c_emitted[Main] - 1 /\ result[Main] = c_emitted[Main]
    BY <1>b, <1>1, <1>11, <2>g DEF CombiningOpen, UntilKept, UntilResult
  <2>2. c_kind = "with_latest_from" => WithStored /\ WithPassedOn /\ WithResult
    BY <1>b, <1>11 DEF CombiningOpen, WithKept
  <2>3. got # <<>> /\ c_kind = "with_latest_from" =>
           /\ result[Main] = got[Len(got)][Main] + 1
           /\ \A r \in Combining!Others : result[r] >= got[Len(got)][r]
    <3> SUFFICES ASSUME got # <<>>, c_kind = "with_latest_from"
                 PROVE  /\ result[Main] = got[Len(got)][Main] + 1
                        /\ \A r \in Combining!Others : result[r] >= got[Len(got)][r]
      OBVIOUS
    <3>1. result[Main] = c_emitted[Main] /\ got[Len(got)][Main] = Taken(Main)
      BY <1>1, <1>4, <2>2 DEF WithPassedOn, WithResult
    <3>2. \A r \in Combining!Others : got[Len(got)][r] <= result[r]
      BY <1>1, <2>2 DEF WithResult
    <3>3. \A r \in Combining!Others : got[Len(got)][r] \in Nat /\ result[r] \in Nat
      BY <1>b, <1>4 DEF CombiningTypes, Combining!Others
    <3> QED
      BY <1>3, <2>g, <3>1, <3>2, <3>3
  <2>4. c_kind = "take_until" => result[Main] = Len(got) + 1
    BY <1>3, <2>g, <2>1
  <2>5. /\ CombiningWhole' /\ got' \in Seq([Combining!Sources -> Nat]) /\ Len(got') = Len(got) + 1
        /\ got' # <<>> /\ got'[Len(got')] = result
    BY <1>1, <1>4, <1>11, <2>g, <2>3, <2>4, CombiningAppended
  <2>6. c_kind = "with_latest_from" => WithStored' /\ WithPassedOn' /\ WithResult'
    <3> SUFFICES ASSUME c_kind = "with_latest_from" PROVE WithStored' /\ WithPassedOn' /\ WithResult'
      OBVIOUS
    <3>1. WithStored'
      BY <1>1, <2>2 DEF WithStored
    <3>2. WithPassedOn'
      BY <1>1, <2>2, <2>5, <2>g DEF WithPassedOn, WithResult
    <3>3. WithResult'
      BY <1>2, <1>3 DEF WithResult
    <3> QED
      BY <3>1, <3>2, <3>3
  <2>7. c_kind = "take_until" => UntilPassedOn' /\ UntilResult'
    <3> SUFFICES ASSUME c_kind = "take_until" PROVE UntilPassedOn' /\ UntilResult'
      OBVIOUS
    <3>1. Len(got') = Taken(Main)'
      BY <1>3, <2>g, <2>1, <2>5
    <3> QED
      BY <1>2, <1>3, <3>1 DEF UntilPassedOn, UntilResult
  <2>8. CombiningOpen'
    BY <1>4, <2>6, <2>7 DEF CombiningOpen, ZipKept, LatestKept, WithKept, UntilKept
  <2> QED
    BY <1>5, <1>7, <1>8, <1>9, <2>5, <2>8 DEF CombiningRest
<1> QED
  BY <1>10, <1>11

\* After the only one comes nothing.
LEMMA TailOfOne ==
  ASSUME NEW S, NEW q \in Seq(S), Len(q) = 1 PROVE Tail(q) = <<>>
<1>1. q # <<>>
  <2>1. Len(<<>>) = 0
    OBVIOUS
  <2> QED
    BY <2>1
<1>2. Tail(q) \in Seq(S) /\ Len(Tail(q)) = Len(q) - 1
  BY <1>1, HeadTailProperties
<1>3. Len(Tail(q)) = 0
  BY <1>2
<1> QED
  BY <1>2, <1>3, EmptySeq

\* The deques of zip when a value has come.
LEMMA ZipStores ==
  ASSUME CombiningInv, NEW s \in Combining!Sources, c_pc[s] = "next", c_kind = "zip", ~closed
  PROVE  /\ Len(Combining!Stored(s)[s]) = c_emitted[s] - Len(got)
         /\ \A r \in Combining!Sources \ {s} : Len(Combining!Stored(s)[r]) = Taken(r) - Len(got)
         /\ \A r \in Combining!Sources : \A j \in 1..Len(Combining!Stored(s)[r]) :
              Combining!Stored(s)[r][j] = Len(got) + j
<1>b. CombiningTypes /\ PlaceOf(s) /\ ZipQueues
  BY DEF CombiningInv, CombiningRest, CombiningPlaces, CombiningOpen, ZipKept
<1>1. c_emitted[s] > 0 /\ c_emitted[s] \in Nat /\ Len(got) \in Nat /\ Taken(s) = c_emitted[s] - 1
  BY <1>b, SourceEmitsAssumption DEF PlaceOf, CombiningTypes, Combining!TypeOK, Taken
<1>2. /\ \A r \in Combining!Sources \ {s} : Combining!Stored(s)[r] = values[r]
      /\ Combining!Stored(s)[s] = Append(values[s], c_emitted[s])
  BY <1>1, <1>b, StoredAs
<1>3. \A r \in Combining!Sources :
        /\ values[r] \in Seq(1..SourceEmits) /\ Len(values[r]) \in Nat
        /\ Taken(r) = Len(got) + Len(values[r])
        /\ \A j \in 1..Len(values[r]) : values[r][j] = Len(got) + j
  BY <1>b DEF ZipQueues, CombiningTypes, Combining!TypeOK
<1>4. c_emitted[s] = Len(got) + Len(values[s]) + 1
  BY <1>1, <1>3
<1>5. /\ Len(Append(values[s], c_emitted[s])) = Len(values[s]) + 1
      /\ \A j \in 1..Len(values[s]) : Append(values[s], c_emitted[s])[j] = values[s][j]
      /\ Append(values[s], c_emitted[s])[Len(values[s]) + 1] = c_emitted[s]
  BY <1>3
<1>6. ASSUME NEW j \in 1..Len(values[s]) + 1
      PROVE  Append(values[s], c_emitted[s])[j] = Len(got) + j
  <2>1. CASE j = Len(values[s]) + 1
    BY <1>1, <1>3, <1>4, <1>5, <2>1
  <2>2. CASE j # Len(values[s]) + 1
    <3>1. j \in 1..Len(values[s])
      BY <1>3, <2>2
    <3> QED
      BY <1>3, <1>5, <3>1
  <2> QED
    BY <2>1, <2>2
<1>7. Len(Combining!Stored(s)[s]) = c_emitted[s] - Len(got)
  BY <1>1, <1>2, <1>3, <1>4, <1>5
<1>8. ASSUME NEW r \in Combining!Sources \ {s}
      PROVE  Len(Combining!Stored(s)[r]) = Taken(r) - Len(got)
             /\ \A j \in 1..Len(Combining!Stored(s)[r]) : Combining!Stored(s)[r][j] = Len(got) + j
  <2>1. Taken(r) = Len(got) + Len(values[r]) /\ Len(values[r]) \in Nat /\ Combining!Stored(s)[r] = values[r]
    BY <1>2, <1>3
  <2>2. Len(values[r]) = Taken(r) - Len(got)
    BY <1>1, <2>1
  <2>3. \A j \in 1..Len(values[r]) : values[r][j] = Len(got) + j
    BY <1>3
  <2> QED
    BY <2>1, <2>2, <2>3
<1>9. \A j \in 1..Len(Combining!Stored(s)[s]) : Combining!Stored(s)[s][j] = Len(got) + j
  BY <1>2, <1>5, <1>6
<1> QED
  BY <1>7, <1>8, <1>9

\* What of a source's value has been stored: no result yet, or the selector threw.
LEMMA CombiningStored ==
  ASSUME CombiningInv, UNCHANGED <<c_kind, got, closed, c_emitted>>,
         NEW s \in Combining!Sources, c_pc[s] = "next", ~closed,
         values' = Combining!Stored(s), Taken(s)' = c_emitted[s],
         \A r \in Combining!Sources \ {s} : Taken(r)' = Taken(r) /\ finished'[r] = finished[r],
         \/ ~Combining!AllPresent(Combining!Stored(s)) /\ finished' = finished
         \/ Combining!AllPresent(Combining!Stored(s)) /\ finished'[s] = "error"
  PROVE  CombiningOpen'
<1>b. CombiningTypes /\ PlaceOf(s) /\ CombiningOpen
  BY DEF CombiningInv, CombiningRest, CombiningPlaces
<1>1. c_emitted[s] > 0 /\ c_emitted[s] \in Nat /\ Len(got) \in Nat /\ Taken(s) = c_emitted[s] - 1 /\ Mixing
      /\ finished[s] = "no"
  BY <1>b, SourceEmitsAssumption DEF PlaceOf, CombiningTypes, Combining!TypeOK, Taken
<1> DEFINE v == Combining!Stored(s)
<1>2. /\ v \in [Combining!Sources -> Seq(1..SourceEmits)]
      /\ \A r \in Combining!Sources \ {s} : v[r] = values[r]
      /\ c_kind # "zip" => v[s] = <<c_emitted[s]>>
  BY <1>1, <1>b, StoredAs
<1>3. ASSUME c_kind = "zip" PROVE ZipQueues' /\ ZipOneEmpty'
  <2>1. /\ Len(v[s]) = c_emitted[s] - Len(got)
        /\ \A r \in Combining!Sources \ {s} : Len(v[r]) = Taken(r) - Len(got)
        /\ \A r \in Combining!Sources : \A j \in 1..Len(v[r]) : v[r][j] = Len(got) + j
    BY <1>3, ZipStores
  <2>2. \A r \in Combining!Sources \ {s} : Taken(r) = Len(got) + Len(values[r])
    BY <1>3, <1>b DEF CombiningOpen, ZipKept, ZipQueues
  <2>3. values' = v
    OBVIOUS
  <2>e. ~Combining!AllPresent(v) \/ finished'[s] = "error"
    OBVIOUS
  <2> HIDE DEF v
  <2>l. \A r \in Combining!Sources : Len(values[r]) \in Nat /\ Len(v[r]) \in Nat
    BY <1>2, <1>b DEF CombiningTypes, Combining!TypeOK
  <2>4. ASSUME NEW r \in Combining!Sources PROVE Taken(r)' = Len(got) + Len(v[r])
    <3>1. CASE r = s
      <4>1. Len(v[s]) = c_emitted[s] - Len(got) /\ Len(v[s]) \in Nat
        BY <2>1, <2>l
      <4>2. c_emitted[s] = Len(got) + Len(v[s])
        BY <1>1, <4>1
      <4> QED
        BY <3>1, <4>2
    <3>2. CASE r # s
      BY <1>1, <1>2, <2>2, <3>2
    <3> QED
      BY <3>1, <3>2
  <2>5. ZipQueues'
    BY <2>1, <2>3, <2>4 DEF ZipQueues
  <2>6. ZipOneEmpty'
    BY <2>3, <2>e DEF ZipOneEmpty, Combining!AllPresent
  <2> QED
    BY <2>5, <2>6
<1>4. ASSUME c_kind = "combine_latest" PROVE LatestStored' /\ LatestPassedOn' /\ LatestNotYet'
  <2>1. LatestStored /\ LatestPassedOn /\ LatestNotYet
    BY <1>4, <1>b DEF CombiningOpen, LatestKept
  <2>2. values' = v /\ v[s] = <<c_emitted[s]>>
    BY <1>2, <1>4
  <2>e. \/ ~Combining!AllPresent(v) /\ finished' = finished
        \/ finished'[s] = "error"
    OBVIOUS
  <2> HIDE DEF v
  <2>3. LatestStored'
    <3> SUFFICES ASSUME NEW r \in Combining!Sources
                 PROVE  v[r] = IF Taken(r)' = 0 THEN <<>> ELSE <<Taken(r)'>>
      BY <2>2 DEF LatestStored
    <3>1. CASE r = s
      BY <1>1, <2>2, <3>1
    <3>2. CASE r # s
      BY <1>2, <2>1, <3>2 DEF LatestStored
    <3> QED
      BY <3>1, <3>2
  <2>n. \A r \in Combining!Sources : v[r] = <<>> => r # s /\ Taken(r) = 0 /\ Taken(r)' = 0
    <3> SUFFICES ASSUME NEW r \in Combining!Sources, v[r] = <<>>
                 PROVE  r # s /\ Taken(r) = 0 /\ Taken(r)' = 0
      OBVIOUS
    <3>1. r # s
      <4>1. <<c_emitted[s]>> # <<>>
        OBVIOUS
      <4> QED
        BY <2>2, <4>1
    <3>2. values[r] = IF Taken(r) = 0 THEN <<>> ELSE <<Taken(r)>>
      BY <2>1 DEF LatestStored
    <3>3. values[r] = <<>>
      BY <1>2, <3>1
    <3>4. Taken(r) = 0
      <4>1. <<Taken(r)>> # <<>>
        OBVIOUS
      <4> QED
        BY <3>2, <3>3, <4>1
    <3> QED
      BY <3>1, <3>4
  <2>4. CASE ~Combining!AllPresent(v) /\ finished' = finished
    <3>1. PICK r \in Combining!Sources : v[r] = <<>>
      BY <2>4 DEF Combining!AllPresent
    <3>2. Taken(r) = 0 /\ Taken(r)' = 0
      BY <2>n, <3>1
    <3>3. got = <<>>
      BY <2>1, <3>2 DEF LatestPassedOn
    <3> QED
      BY <2>3, <3>2, <3>3 DEF LatestPassedOn, LatestNotYet
  <2>5. CASE finished'[s] = "error"
    <3>1. LatestNotYet'
      BY <2>5 DEF LatestNotYet
    <3>2. LatestPassedOn'
      <4> SUFFICES ASSUME got # <<>>, NEW r \in Combining!Sources
            PROVE  /\ Taken(r)' > 0
                   /\ \/ got[Len(got)][r] = Taken(r)'
                      \/ finished'[r] = "error" /\ got[Len(got)][r] = Taken(r)' - 1
        BY DEF LatestPassedOn
      <4>1. CASE r = s
        <5>1. got[Len(got)][s] = Taken(s)
          BY <1>1, <2>1 DEF LatestPassedOn
        <5> QED
          BY <1>1, <2>5, <4>1, <5>1
      <4>2. CASE r # s
        BY <2>1, <4>2 DEF LatestPassedOn
      <4> QED
        BY <4>1, <4>2
    <3> QED
      BY <2>3, <3>1, <3>2
  <2> QED
    BY <2>e, <2>4, <2>5
<1> QED
  BY <1>1, <1>3, <1>4 DEF CombiningOpen, ZipKept, LatestKept, WithKept, UntilKept, Mixing

\* zip and combine_latest pass on what there is of all.
LEMMA CombiningPassedOn ==
  ASSUME CombiningInv, UNCHANGED <<c_kind, closed, ended, c_emitted, finished, m_stopped>>,
         NEW s \in Combining!Sources, c_pc[s] = "next", ~closed, mutex = Combining!NoOne,
         Combining!AllPresent(Combining!Stored(s)),
         values' = Combining!Passed(Combining!Stored(s)),
         got' = Append(got, Combining!Fronts(Combining!Stored(s))),
         Taken(s)' = c_emitted[s], \A r \in Combining!Sources \ {s} : Taken(r)' = Taken(r)
  PROVE  CombiningOpen' /\ CombiningWhole' /\ got' \in Seq([Combining!Sources -> Nat])
<1>b. CombiningTypes /\ PlaceOf(s) /\ CombiningOpen /\ CombiningPlaces
  BY DEF CombiningInv, CombiningRest, CombiningPlaces
<1>1. c_emitted[s] > 0 /\ c_emitted[s] \in Nat /\ Len(got) \in Nat /\ Taken(s) = c_emitted[s] - 1 /\ Mixing
      /\ finished[s] = "no"
  BY <1>b, SourceEmitsAssumption DEF PlaceOf, CombiningTypes, Combining!TypeOK, Taken
<1>k. c_kind \in {"zip", "combine_latest"}
  BY <1>1 DEF Mixing
<1> DEFINE v == Combining!Stored(s)
           f == Combining!Fronts(v)
<1>2. /\ v \in [Combining!Sources -> Seq(1..SourceEmits)]
      /\ \A r \in Combining!Sources \ {s} : v[r] = values[r]
      /\ c_kind # "zip" => v[s] = <<c_emitted[s]>>
  BY <1>1, <1>b, StoredAs
<1>3. /\ f \in [Combining!Sources -> Nat]
      /\ \A r \in Combining!Sources : Len(v[r]) \in Nat \ {0} /\ v[r][1] \in Nat /\ f[r] = v[r][1]
  BY <1>2, FrontsAre
<1>g. got' = Append(got, f) /\ values' = Combining!Passed(v) /\ Combining!AllPresent(v)
  OBVIOUS
<1>4. CASE c_kind = "zip"
  <2>1. /\ Len(v[s]) = c_emitted[s] - Len(got)
        /\ \A r \in Combining!Sources \ {s} : Len(v[r]) = Taken(r) - Len(got)
        /\ \A r \in Combining!Sources : \A j \in 1..Len(v[r]) : v[r][j] = Len(got) + j
    BY <1>4, ZipStores
  <2>z. ZipQueues /\ ZipOneEmpty
    BY <1>4, <1>b DEF CombiningOpen, ZipKept
  <2> HIDE DEF v, f
  <2>2. \A r \in Combining!Sources : f[r] = Len(got) + 1
    BY <1>3, <2>1
  <2>3. /\ CombiningWhole' /\ got' \in Seq([Combining!Sources -> Nat]) /\ Len(got') = Len(got) + 1
        /\ got' # <<>> /\ got'[Len(got')] = f
    BY <1>3, <1>4, <1>g, <2>2, CombiningAppended
  <2>4. \A r \in Combining!Sources :
          /\ values'[r] = Tail(v[r]) /\ Len(values'[r]) = Len(v[r]) - 1
          /\ \A j \in 1..Len(v[r]) - 1 : values'[r][j] = v[r][j + 1]
    <3>1. \A r \in Combining!Sources : values'[r] = Tail(v[r])
      BY <1>4, <1>g DEF Combining!Passed
    <3>2. ASSUME NEW r \in Combining!Sources
          PROVE  Len(Tail(v[r])) = Len(v[r]) - 1 /\ \A j \in 1..Len(v[r]) - 1 : Tail(v[r])[j] = v[r][j + 1]
      <4>1. v[r] \in Seq(1..SourceEmits) /\ v[r] # <<>>
        BY <1>2, <1>3
      <4> QED
        BY <4>1
    <3> QED
      BY <3>1, <3>2
  <2>5. ASSUME NEW r \in Combining!Sources
        PROVE  /\ Taken(r)' = Len(got') + Len(values'[r])
               /\ \A j \in 1..Len(values'[r]) : values'[r][j] = Len(got') + j
    <3>t. Len(v[r]) \in Nat /\ Len(v[r]) = Taken(r)' - Len(got) /\ Taken(r)' \in Int
      <4>1. CASE r = s
        BY <1>1, <1>3, <2>1, <4>1
      <4>2. CASE r # s
        <5>1. Taken(r)' = Taken(r) /\ Len(v[r]) = Taken(r) - Len(got) /\ Len(v[r]) \in Nat
          BY <1>3, <2>1, <4>2
        <5>2. Taken(r) \in Int
          BY <1>b, SourceEmitsAssumption DEF Taken, CombiningTypes, Combining!TypeOK
        <5> QED
          BY <5>1, <5>2
      <4> QED
        BY <4>1, <4>2
    <3>1. Taken(r)' = Len(got') + Len(values'[r])
      <4>1. Len(got') = Len(got) + 1 /\ Len(values'[r]) = Len(v[r]) - 1
        BY <2>3, <2>4
      <4>2. Taken(r)' = Len(got) + Len(v[r])
        BY <1>1, <3>t
      <4>3. Len(got) + Len(v[r]) = (Len(got) + 1) + (Len(v[r]) - 1)
        BY <1>1, <3>t
      <4> QED
        BY <4>1, <4>2, <4>3
    <3>2. ASSUME NEW j \in 1..Len(values'[r]) PROVE values'[r][j] = Len(got') + j
      <4>1. j + 1 \in 1..Len(v[r]) /\ j \in 1..Len(v[r]) - 1
        BY <2>4, <3>t
      <4>2. values'[r][j] = v[r][j + 1] /\ v[r][j + 1] = Len(got) + (j + 1)
        BY <2>1, <2>4, <4>1
      <4> QED
        BY <1>1, <2>3, <4>2
    <3> QED
      BY <3>1, <3>2
  <2>6. ZipQueues'
    BY <2>5 DEF ZipQueues
  <2>7. ZipOneEmpty'
    <3>1. CASE \E r \in Combining!Sources : finished[r] = "error"
      BY <3>1 DEF ZipOneEmpty
    <3>2. CASE ~\E r \in Combining!Sources : finished[r] = "error"
      <4>1. PICK r \in Combining!Sources : values[r] = <<>>
        BY <2>z, <3>2 DEF ZipOneEmpty
      <4>2. r = s
        BY <1>2, <1>3, <4>1
      <4>3. Taken(s) = Len(got) + Len(values[s]) /\ Len(values[s]) = 0
        BY <2>z, <4>1, <4>2 DEF ZipQueues
      <4>4. Len(v[s]) = 1
        BY <1>1, <2>1, <4>3
      <4>5. v[s] \in Seq(1..SourceEmits) /\ values'[s] = Tail(v[s])
        BY <1>2, <2>4
      <4>6. values'[s] = <<>>
        BY <4>4, <4>5, TailOfOne
      <4> QED
        BY <4>6 DEF ZipOneEmpty
    <3> QED
      BY <3>1, <3>2
  <2> QED
    BY <1>4, <2>3, <2>6, <2>7 DEF CombiningOpen, ZipKept, LatestKept, WithKept, UntilKept
<1>5. CASE c_kind = "combine_latest"
  <2>1. LatestStored /\ LatestPassedOn /\ LatestNotYet
    BY <1>5, <1>b DEF CombiningOpen, LatestKept
  <2>2. values' = v /\ v[s] = <<c_emitted[s]>>
    BY <1>2, <1>5 DEF Combining!Passed
  <2> HIDE DEF v, f
  <2>t. ASSUME NEW r \in Combining!Sources
        PROVE  Taken(r)' > 0 /\ v[r] = <<Taken(r)'>> /\ f[r] = Taken(r)' /\ Taken(r)' \in Nat
    <3>1. CASE r = s
      BY <1>1, <1>3, <2>2, <3>1
    <3>2. CASE r # s
      <4>1. v[r] = IF Taken(r) = 0 THEN <<>> ELSE <<Taken(r)>>
        BY <1>2, <2>1, <3>2 DEF LatestStored
      <4>2. Taken(r) \in Int /\ Len(v[r]) # 0 /\ f[r] = v[r][1] /\ v[r][1] \in Nat
        BY <1>3, <1>b, SourceEmitsAssumption DEF Taken, CombiningTypes, Combining!TypeOK
      <4>3. Taken(r) # 0
        BY <4>1, <4>2
      <4>4. v[r] = <<Taken(r)>>
        BY <4>1, <4>3
      <4>5. f[r] = Taken(r)
        BY <4>2, <4>4
      <4> QED
        BY <3>2, <4>2, <4>3, <4>4, <4>5
    <3> QED
      BY <3>1, <3>2
  <2>3. got # <<>> =>
           \E q \in Combining!Sources :
             /\ f[q] = got[Len(got)][q] + 1
             /\ \A r \in Combining!Sources \ {q} :
                  \/ f[r] = got[Len(got)][r]
                  \/ f[r] = got[Len(got)][r] + 1 /\ Combining!ThrewAt(r, f[r])
    <3> SUFFICES ASSUME got # <<>>
                 PROVE  /\ f[s] = got[Len(got)][s] + 1
                        /\ \A r \in Combining!Sources \ {s} :
                             \/ f[r] = got[Len(got)][r]
                             \/ f[r] = got[Len(got)][r] + 1 /\ Combining!ThrewAt(r, f[r])
      OBVIOUS
    <3>1. f[s] = got[Len(got)][s] + 1
      <4>1. got[Len(got)][s] = Taken(s) /\ f[s] = Taken(s)'
        BY <1>1, <2>1, <2>t DEF LatestPassedOn
      <4> QED
        BY <1>1, <4>1
    <3>2. ASSUME NEW r \in Combining!Sources \ {s}
          PROVE  \/ f[r] = got[Len(got)][r]
                 \/ f[r] = got[Len(got)][r] + 1 /\ Combining!ThrewAt(r, f[r])
      <4>1. f[r] = Taken(r) /\ Taken(r) \in Nat
        BY <2>t
      <4>2. \/ got[Len(got)][r] = Taken(r)
            \/ finished[r] = "error" /\ got[Len(got)][r] = Taken(r) - 1
        BY <2>1 DEF LatestPassedOn
      <4>3. finished[r] = "error" => Taken(r) = c_emitted[r]
        <5>1. PlaceOf(r)
          BY <1>b DEF CombiningPlaces
        <5> QED
          BY <5>1 DEF PlaceOf, Taken
      <4>4. CASE got[Len(got)][r] = Taken(r)
        BY <4>1, <4>4
      <4>5. CASE finished[r] = "error" /\ got[Len(got)][r] = Taken(r) - 1
        <5>1. f[r] = got[Len(got)][r] + 1
          BY <4>1, <4>5
        <5>2. Combining!ThrewAt(r, f[r])
          BY <4>1, <4>3, <4>5 DEF Combining!ThrewAt
        <5> QED
          BY <5>1, <5>2
      <4> QED
        BY <4>2, <4>4, <4>5
    <3> QED
      BY <3>1, <3>2
  <2>4. /\ CombiningWhole' /\ got' \in Seq([Combining!Sources -> Nat]) /\ Len(got') = Len(got) + 1
        /\ got' # <<>> /\ got'[Len(got')] = f
    BY <1>3, <1>5, <1>g, <2>3, CombiningAppended
  <2>5. LatestStored'
    BY <2>2, <2>t DEF LatestStored
  <2>6. LatestPassedOn'
    BY <2>4, <2>t DEF LatestPassedOn
  <2>7. LatestNotYet'
    BY <2>4 DEF LatestNotYet
  <2> QED
    BY <1>5, <2>4, <2>5, <2>6, <2>7 DEF CombiningOpen, ZipKept, LatestKept, WithKept, UntilKept
<1> QED
  BY <1>k, <1>4, <1>5

\* on_next of zip and of combine_latest.
LEMMA CombiningNextUnderLock ==
  ASSUME CombiningInv, UNCHANGED c_kind, NEW s \in Combining!Sources, Combining!NextUnderLock(s)
  PROVE  CombiningRest'
<1>b. CombiningTypes /\ CombiningPlaces /\ CompletionsCounted /\ PlaceOf(s) /\ SourcesApart
      /\ CombiningBase /\ CombiningOpen /\ CombiningWhole /\ ResultTyped
  BY DEF CombiningInv, CombiningRest, CombiningPlaces, CombiningBase
<1> DEFINE v == Combining!Stored(s)
           f == Combining!Fronts(v)
<1>1. /\ c_pc[s] = "next" /\ mutex = Combining!NoOne /\ mutex' \in {Combining!NoOne, s}
      /\ UNCHANGED <<closed, ended, held, outer, disposed, unsubscribed, user,
                     needed, m_stopped, result, c_emitted, finished>>
  BY DEF Combining!NextUnderLock, Combining!BeginNext, Combining!downstream, Combining!sources,
         Combining!calls, Combining!links
<1>2. PICK label \in {"idle", "in_next"} :
        /\ c_pc' = [c_pc EXCEPT ![s] = label]
        /\ \/ ~Combining!AllPresent(v) /\ values' = v /\ UNCHANGED <<got, inside>>
           \/ /\ Combining!AllPresent(v) /\ values' = Combining!Passed(v)
              /\ \/ closed /\ UNCHANGED <<got, inside>>
                 \/ ~closed /\ got' = Append(got, f) /\ inside' = inside \union {s}
  <2>1. CASE Combining!AllPresent(v)
    <3>1. values' = Combining!Passed(v) /\ Combining!BeginNext(s, f, "in_next", "idle")
      BY <2>1 DEF Combining!NextUnderLock
    <3>2. CASE closed
      BY <2>1, <3>1, <3>2 DEF Combining!BeginNext, Combining!Goto, Combining!calls
    <3>3. CASE ~closed
      BY <2>1, <3>1, <3>3 DEF Combining!BeginNext, Combining!Goto
    <3> QED
      BY <3>2, <3>3
  <2>2. CASE ~Combining!AllPresent(v)
    BY <2>2 DEF Combining!NextUnderLock, Combining!Goto, Combining!downstream, Combining!calls
  <2> QED
    BY <2>1, <2>2
<1>3. OnlyAt(s) /\ c_pc'[s] = label /\ c_emitted'[s] = c_emitted[s]
      /\ finished'[s] = finished[s] /\ c_emitted[s] \in Nat
  BY <1>b, <1>1, <1>2, CombiningAt
<1>4. Mixing /\ finished[s] = "no" /\ c_emitted[s] > 0
  BY <1>b, <1>1 DEF PlaceOf
<1>v. v \in [Combining!Sources -> Seq(1..SourceEmits)]
  BY <1>4, <1>b, StoredAs
<1>w. values' \in [Combining!Sources -> Seq(1..SourceEmits)]
  <2>1. CASE values' = v
    BY <1>v, <2>1
  <2>2. CASE Combining!AllPresent(v) /\ values' = Combining!Passed(v)
    <3> HIDE DEF v
    <3>1. \A r \in Combining!Sources : v[r] \in Seq(1..SourceEmits) /\ v[r] # <<>>
      BY <1>v, <2>2 DEF Combining!AllPresent
    <3>2. \A r \in Combining!Sources : Tail(v[r]) \in Seq(1..SourceEmits)
      BY <3>1, HeadTailProperties
    <3> QED
      BY <1>v, <2>2, <3>2 DEF Combining!Passed
  <2> QED
    BY <1>2, <2>1, <2>2
<1>5. got' \in Seq([Combining!Sources -> Nat]) => CombiningTypes'
  <2>1. s \in 0..NumSources /\ inside \subseteq 0..NumSources
    BY <1>b DEF CombiningTypes, Combining!TypeOK, Combining!DownstreamTypeOK, Combining!Sources
  <2>2. inside' \subseteq 0..NumSources
    BY <1>2, <2>1
  <2>3. mutex' \in Combining!Sources \union {Combining!NoOne}
    BY <1>1
  <2> QED
    BY <1>b, <1>1, <1>w, <2>2, <2>3 DEF CombiningTypes, Combining!TypeOK, Combining!DownstreamTypeOK
<1>6. PlaceOf(s)'
  BY <1>1, <1>2, <1>3, <1>4 DEF PlaceOf, Mixing
<1>7. CombiningPlaces'
  BY <1>b, <1>3, <1>6, PlacesKept DEF OnlyAt
<1>8. CompletionsCounted'
  <2>1. Uncounted' = Uncounted
    BY <1>1, <1>2, <1>3 DEF Uncounted, OnlyAt
  <2> QED
    BY <1>b, <1>1, <1>2, <1>3, <2>1, CountKept DEF OnlyAt
<1>9. ResultTyped'
  BY <1>1, <1>2, <1>3, <1>b DEF ResultTyped, OnlyAt, Main, Combining!Main, Combining!Sources
<1>t. Taken(s)' = c_emitted[s] /\ \A r \in Combining!Sources \ {s} : Taken(r)' = Taken(r)
  BY <1>1, <1>2, <1>3 DEF Taken, OnlyAt
<1>10. CASE closed
  <2>1. UNCHANGED <<got, inside>>
    BY <1>2, <1>10
  <2>2. CombiningTypes'
    BY <1>b, <1>5, <2>1 DEF CombiningTypes
  <2> QED
    BY <1>1, <1>2, <1>3, <1>6, <1>8, <1>10, <2>1, <2>2, CombiningQuietStep
<1>11. CASE ~closed /\ ~Combining!AllPresent(v)
  <2>1. values' = v /\ UNCHANGED <<got, inside>>
    BY <1>2, <1>11
  <2>2. CombiningTypes'
    BY <1>b, <1>5, <2>1 DEF CombiningTypes
  <2>3. CombiningOpen'
    BY <1>1, <1>3, <1>t, <1>11, <2>1, CombiningStored
  <2>4. CombiningWhole'
    BY <1>b, <1>1, <1>3, <2>1, <2>2, OnlyAtGoesOn, CombiningWholeKept
  <2> QED
    BY <1>7, <1>8, <1>9, <2>2, <2>3, <2>4 DEF CombiningRest
<1>12. CASE ~closed /\ Combining!AllPresent(v)
  <2>1. values' = Combining!Passed(v) /\ got' = Append(got, f)
    BY <1>2, <1>12
  <2>2. CombiningOpen' /\ CombiningWhole' /\ got' \in Seq([Combining!Sources -> Nat])
    BY <1>1, <1>t, <1>12, <2>1, CombiningPassedOn
  <2> QED
    BY <1>5, <1>7, <1>8, <1>9, <2>2 DEF CombiningRest
<1> QED
  BY <1>10, <1>11, <1>12

\* The selector throws: of zip and combine_latest, and of with_latest_from.
LEMMA CombiningSelectorThrows ==
  ASSUME CombiningInv, UNCHANGED c_kind, NEW s \in Combining!Sources, Combining!SelectorThrows(s)
  PROVE  CombiningRest'
<1>b. CombiningTypes /\ CombiningPlaces /\ CompletionsCounted /\ PlaceOf(s) /\ SourcesApart
      /\ CombiningBase /\ CombiningOpen /\ CombiningWhole /\ ResultTyped
  BY DEF CombiningInv, CombiningRest, CombiningPlaces, CombiningBase
<1> DEFINE v == Combining!Stored(s)
<1>1. /\ c_pc[s] \in {"next", "combine"} /\ c_pc' = [c_pc EXCEPT ![s] = "error"]
      /\ finished' = [finished EXCEPT ![s] = "error"] /\ Combining!AllPresent(v)
      /\ UNCHANGED <<closed, ended, inside, got, held, outer, disposed, unsubscribed, user,
                     mutex, needed, m_stopped, result, c_emitted>>
  BY DEF Combining!SelectorThrows, Combining!Goto, Combining!downstream, Combining!calls, Combining!links
<1>2. values' = IF c_pc[s] = "next" THEN v ELSE values
  BY DEF Combining!SelectorThrows
<1>4. finished[s] = "no" /\ c_emitted[s] > 0 /\ c_emitted[s] \in Nat
  BY <1>b, <1>1, SourceEmitsAssumption DEF PlaceOf, CombiningTypes, Combining!TypeOK
<1>3. /\ OnlyAt(s) /\ c_pc'[s] = "error" /\ finished'[s] = "error"
      /\ \A r \in Combining!Sources \ {s} : c_pc'[r] = c_pc[r] /\ finished'[r] = finished[r]
  <2>1. c_pc'[s] = "error" /\ finished'[s] = "error"
        /\ \A r \in Combining!Sources \ {s} : c_pc'[r] = c_pc[r] /\ finished'[r] = finished[r]
    BY <1>1, <1>b DEF SourcesApart, Combining!Sources, CombiningTypes, Combining!TypeOK
  <2> QED
    BY <1>1, <1>4, <2>1 DEF OnlyAt
<1>v. v \in [Combining!Sources -> Seq(1..SourceEmits)]
  BY <1>4, <1>b, StoredAs
<1>5. CombiningTypes'
  <2>1. finished' \in [Combining!Sources -> {"no", "completed", "error"}]
    BY <1>1, <1>b DEF CombiningTypes, Combining!TypeOK
  <2>2. values' \in [Combining!Sources -> Seq(1..SourceEmits)]
    <3>1. CASE c_pc[s] = "next"
      BY <1>2, <1>v, <3>1
    <3>2. CASE c_pc[s] # "next"
      BY <1>2, <1>b, <3>2 DEF CombiningTypes, Combining!TypeOK
    <3> QED
      BY <3>1, <3>2
  <2> QED
    BY <1>b, <1>1, <2>1, <2>2 DEF CombiningTypes, Combining!TypeOK, Combining!DownstreamTypeOK
<1>6. PlaceOf(s)'
  BY <1>1, <1>3, <1>4 DEF PlaceOf, Mixing
<1>7. CombiningPlaces'
  BY <1>b, <1>3, <1>6, PlacesKept DEF OnlyAt
<1>8. CompletionsCounted'
  <2>1. Uncounted' = Uncounted
    BY <1>1, <1>3, <1>4 DEF Uncounted
  <2> QED
    BY <1>b, <1>1, <1>3, <2>1, CountKept
<1>9. ResultTyped'
  BY <1>1, <1>3, <1>b, MainIsSource DEF ResultTyped
<1>t. Taken(s)' = c_emitted[s] /\ \A r \in Combining!Sources \ {s} : Taken(r)' = Taken(r)
  BY <1>1, <1>3 DEF Taken
<1>10. CombiningWhole'
  BY <1>b, <1>1, <1>3, <1>5, OnlyAtGoesOn, CombiningWholeKept
<1>11. CASE c_pc[s] = "next"
  <2>1. CASE closed
    BY <1>1, <1>5, <1>7, <1>8, <1>9, <1>10, <2>1
       DEF CombiningRest, CombiningOpen, ZipKept, LatestKept, WithKept, UntilKept
  <2>2. CASE ~closed
    <3>1. CombiningOpen'
      BY <1>1, <1>2, <1>3, <1>t, <1>11, <2>2, CombiningStored
    <3> QED
      BY <1>5, <1>7, <1>8, <1>9, <1>10, <3>1 DEF CombiningRest
  <2> QED
    BY <2>1, <2>2
<1>12. CASE c_pc[s] = "combine"
  <2>1. s = Main /\ c_kind = "with_latest_from" /\ values' = values
    BY <1>b, <1>2, <1>12 DEF PlaceOf
  <2>2. ~closed => WithStored' /\ WithPassedOn' /\ WithResult'
    <3> SUFFICES ASSUME ~closed PROVE WithStored' /\ WithPassedOn' /\ WithResult'
      OBVIOUS
    <3>1. WithStored /\ WithPassedOn
      BY <1>b, <2>1 DEF CombiningOpen, WithKept
    <3>2. WithStored'
      BY <1>1, <2>1, <3>1 DEF WithStored
    <3>3. WithPassedOn'
      BY <1>1, <1>3, <2>1, <3>1 DEF WithPassedOn
    <3>4. WithResult'
      BY <1>3, <2>1 DEF WithResult
    <3> QED
      BY <3>2, <3>3, <3>4
  <2>3. CombiningOpen'
    BY <1>1, <2>1, <2>2 DEF CombiningOpen, ZipKept, LatestKept, WithKept, UntilKept
  <2> QED
    BY <1>5, <1>7, <1>8, <1>9, <1>10, <2>3 DEF CombiningRest
<1> QED
  BY <1>1, <1>11, <1>12

\* Nothing is stored and nothing has been passed on in the beginning.
LEMMA CombiningInit ==
  ASSUME Combining!Init PROVE CombiningInv
<1>1. /\ c_kind \in Combining!Kinds /\ mutex = Combining!NoOne /\ needed = NumSources /\ m_stopped = FALSE
      /\ values = [s \in Combining!Sources |-> <<>>] /\ c_emitted = [s \in Combining!Sources |-> 0]
      /\ finished = [s \in Combining!Sources |-> "no"] /\ got = <<>> /\ ended = "no" /\ closed = FALSE
      /\ c_pc = [t \in 0..NumSources |-> IF t = 0 THEN "subscribe" ELSE "none"]
  BY DEF Combining!Init, Combining!DownstreamInit, Combining!Needed
<1>2. \A s \in Combining!Sources :
        c_pc[s] = "none" /\ values[s] = <<>> /\ c_emitted[s] = 0 /\ finished[s] = "no"
  BY <1>1 DEF Combining!Sources
<1>3. SourcesApart
  BY DEF Combining!Init, Combining!DownstreamInit, SourcesApart, CombiningInside, Locked, CombiningEnded,
         CombiningApart, CombiningLabels, Combining!Sources, Combining!NoOne
<1>4. CombiningTypes
  <2>1. \A S : <<>> \in Seq(S)
    OBVIOUS
  <2>2. needed \in 0..NumSources /\ 0 \in 0..SourceEmits
    BY <1>1, NumSourcesAssumption, SourceEmitsAssumption
  <2>3. Combining!DownstreamTypeOK
    BY DEF Combining!Init, Combining!DownstreamInit, Combining!DownstreamTypeOK
  <2>4. /\ values \in [Combining!Sources -> Seq(1..SourceEmits)]
        /\ c_emitted \in [Combining!Sources -> 0..SourceEmits]
        /\ finished \in [Combining!Sources -> {"no", "completed", "error"}]
    BY <1>1, <2>1, <2>2
  <2> QED
    BY <1>1, <2>1, <2>2, <2>3, <2>4 DEF CombiningTypes, Combining!TypeOK
<1>5. CombiningPlaces
  BY <1>2 DEF CombiningPlaces, PlaceOf
<1>6. CompletionsCounted
  <2>1. Uncounted = Combining!Sources
    BY <1>2 DEF Uncounted
  <2> QED
    BY <1>1, <1>2, <2>1, CountSources DEF CompletionsCounted
<1>m. Main \in Combining!Sources
  BY MainIsSource
<1>l. Len(got) = 0 /\ \A s \in Combining!Sources : Taken(s) = 0 /\ Len(values[s]) = 0
  BY <1>1, <1>2 DEF Taken
<1>7. ResultTyped
  BY <1>2, <1>m DEF ResultTyped
<1>8. CombiningOpen
  <2>1. ZipKept
    BY <1>l, <1>m, <1>2 DEF ZipKept, ZipQueues, ZipOneEmpty
  <2>2. LatestKept
    BY <1>1, <1>l, <1>m, <1>2 DEF LatestKept, LatestStored, LatestPassedOn, LatestNotYet
  <2>3. WithKept
    BY <1>1, <1>m, <1>2 DEF WithKept, WithStored, WithPassedOn, WithResult
  <2>4. UntilKept
    BY <1>l, <1>m, <1>2 DEF UntilKept, UntilPassedOn, UntilResult
  <2> QED
    BY <2>1, <2>2, <2>3, <2>4 DEF CombiningOpen
<1>9. CombiningWhole
  BY <1>1, <1>l DEF CombiningWhole, UntilStopped, Combining!Combines, Combining!CompletesWhole
<1> QED
  BY <1>3, <1>4, <1>5, <1>6, <1>7, <1>8, <1>9 DEF CombiningInv, CombiningRest

\* Every step keeps what is stored, what is on its way and what has been passed on in line.
LEMMA CombiningStep ==
  ASSUME CombiningInv, [Combining!Next]_(Combining!vars) PROVE CombiningInv'
<1>1. SourcesApart'
  BY CombiningSerialStep DEF CombiningInv, CombiningRest, CombiningTypes, Combining!TypeOK
<1>2. CombiningRest'
  <2>1. CASE UNCHANGED Combining!vars
    BY <2>1, CombiningUser DEF Combining!vars, Combining!stored, Combining!sources, Combining!downstream,
                               Combining!calls
  <2>k. CASE Combining!Next
    <3>k. UNCHANGED c_kind
      BY <2>k DEF Combining!Next
    <3>1. CASE Combining!Subscribe
      BY <3>k, <3>1, CombiningSubscribe
    <3>2. ASSUME NEW s \in Combining!Sources, Combining!Call(s) PROVE CombiningRest'
      BY <3>k, <3>2, CombiningSourceNext, CombiningSourceEnds DEF Combining!Call
    <3>3. ASSUME NEW s \in Combining!Sources, Combining!Handle(s) PROVE CombiningRest'
      <4>1. CASE Combining!NextUnderLock(s)
        BY <3>k, <4>1, CombiningNextUnderLock
      <4>2. CASE Combining!SelectorThrows(s)
        BY <3>k, <4>2, CombiningSelectorThrows
      <4>3. CASE s \in Combining!Others /\ Combining!StoreLatest(s)
        BY <3>k, <4>3, CombiningStoreLatest
      <4>4. CASE Combining!Combine
        BY <3>k, <4>4, CombiningCombine
      <4>5. CASE Combining!CheckStopped
        BY <3>k, <4>5, CombiningCheck
      <4>6. CASE Combining!Deliver
        BY <3>k, <4>6, CombiningDeliver
      <4>7. CASE Combining!LeaveNext(s) \/ Combining!LeaveTerminal(s) \/ Combining!Release(s)
        BY <3>k, <4>7, CombiningReturns
      <4>8. CASE Combining!Decrement(s)
        BY <3>k, <4>8, CombiningDecrement
      <4>9. CASE Combining!Stop(s)
        BY <3>k, <4>9, CombiningStop
      <4>10. CASE Combining!EnterTerminal(s)
        BY <3>k, <4>10, CombiningEnterTerminal
      <4> QED
        BY <3>3, <4>1, <4>2, <4>3, <4>4, <4>5, <4>6, <4>7, <4>8, <4>9, <4>10 DEF Combining!Handle
    <3>4. CASE Combining!User /\ UNCHANGED <<mutex, Combining!stored, Combining!sources>>
      <4>1. UNCHANGED <<c_pc, mutex, ended, got, values, needed, m_stopped, result, c_emitted, finished>>
        BY <3>4 DEF Combining!User, Combining!UserDispose, Combining!UserDisposeUpstream, Combining!stored,
                    Combining!sources, Combining!calls
      <4> QED
        BY <3>k, <3>4, <4>1, CombiningUser
    <3> QED
      BY <2>k, <3>1, <3>2, <3>3, <3>4 DEF Combining!Next
  <2> QED
    BY <2>1, <2>k
<1> QED
  BY <1>1, <1>2 DEF CombiningInv

\* What has been passed on is what the operator is defined to make of its sources.
LEMMA CombiningSafe ==
  CombiningInv => Combining!TypeOK /\ Combining!Combines /\ Combining!CompletesWhole
BY DEF CombiningInv, CombiningRest, CombiningTypes, CombiningWhole
-----------------------------------------------------------------------------
(* A behaviour of any of the operators, whichever it is of.                  *)

\* After the terminal call of as_blocking's observer nobody begins another one.
BlockingEnded == ended # "no" => closed \/ \E t \in 0..2 : b_pc[t] = "in_terminal"

\* Calls of the observer stay apart, and each step is one of the contract.
LEMMA BlockingSerialStep ==
  ASSUME BlockingInv, BlockingEnded, [Blocking!Next]_(Blocking!vars)
  PROVE  BlockingEnded' /\ [Blocking!Contract!Next]_<<inside, ended # "no">>
<1> USE DEF BlockingInv, OneEmits, ClosedFirst, BlockingEnded, BlockingInside, BlockingLabels,
            Blocking!Caller, Blocking!Runner, Blocking!Subscriber, Blocking!Goto, Blocking!Jump,
            Blocking!downstream, Blocking!calls, Blocking!links, Blocking!own, Blocking!After
<1>1. CASE UNCHANGED Blocking!vars
  BY <1>1 DEF Blocking!vars
<1>2. CASE Blocking!SetUpstream \/ Blocking!Subscribe \/ Blocking!Check \/ Blocking!Wait \/ Blocking!SpuriousWake
           \/ Blocking!RunTask \/ Blocking!SubscribeReturns
  <2>1. UNCHANGED <<closed, ended, inside>>
    BY <1>2 DEF Blocking!SetUpstream, Blocking!Subscribe, Blocking!Check, Blocking!Wait, Blocking!SpuriousWake,
                Blocking!RunTask, Blocking!SubscribeReturns
  <2>2. \A t \in 0..2 : b_pc[t] = "in_terminal" => b_pc'[t] = "in_terminal"
    BY <1>2 DEF Blocking!SetUpstream, Blocking!Subscribe, Blocking!Check, Blocking!Wait, Blocking!SpuriousWake,
                Blocking!RunTask, Blocking!SubscribeReturns
  <2> QED
    BY <2>1, <2>2
<1>3. CASE Blocking!Leave \/ Blocking!LeaveUpstream
  <2>1. closed' = TRUE /\ UNCHANGED <<ended, inside>>
    BY <1>3 DEF Blocking!Leave, Blocking!UserDispose, Blocking!LeaveUpstream
  <2> QED
    BY <2>1
<1>4. ASSUME NEW t \in {0, 1}, Blocking!EmitNext(t) \/ Blocking!EmitTerminal(t)
      PROVE  BlockingEnded' /\ [Blocking!Contract!Next]_<<inside, ended # "no">>
  <2>1. CASE closed
    <3>1. UNCHANGED <<closed, ended, inside>>
      BY <1>4, <2>1 DEF Blocking!EmitNext, Blocking!BeginNext, Blocking!EmitTerminal, Blocking!BeginTerminal
    <3> QED
      BY <2>1, <3>1
  <2>2. CASE ~closed
    <3>1. b_pc[t] = "emit" /\ t \in 0..2
      BY <1>4 DEF Blocking!EmitNext, Blocking!EmitTerminal
    <3>2. \A s \in 0..2 : b_pc[s] \notin BlockingInside
      BY <3>1
    <3>3. inside = {} /\ ended = "no"
      BY <2>2, <3>2
    <3>4. CASE Blocking!EmitNext(t)
      <4>1. inside' = {t} /\ UNCHANGED ended
        BY <2>2, <3>3, <3>4 DEF Blocking!EmitNext, Blocking!BeginNext
      <4>2. Blocking!Contract!OnNext(t)
        BY <3>3, <4>1 DEF Blocking!Contract!OnNext
      <4> QED
        BY <3>1, <3>3, <4>1, <4>2 DEF Blocking!Contract!Next
    <3>5. CASE Blocking!EmitTerminal(t)
      <4>1. PICK how \in {"completed", "error"} :
              Blocking!BeginTerminal(t, how, "in_terminal", Blocking!After(t))
        BY <3>5 DEF Blocking!EmitTerminal
      <4>2. inside' = {t} /\ ended' = how /\ b_pc' = [b_pc EXCEPT ![t] = "in_terminal"]
        BY <2>2, <3>3, <4>1 DEF Blocking!BeginTerminal
      <4>3. b_pc'[t] = "in_terminal"
        BY <3>1, <4>2
      <4>4. Blocking!Contract!OnTerminal(t)
        BY <3>3, <4>2 DEF Blocking!Contract!OnTerminal
      <4> QED
        BY <3>1, <4>3, <4>4 DEF Blocking!Contract!Next
    <3> QED
      BY <1>4, <3>4, <3>5
  <2> QED
    BY <2>1, <2>2
<1>5. ASSUME NEW t \in 0..2, Blocking!NextLeave(t) \/ Blocking!TerminalLeave(t)
      PROVE  BlockingEnded' /\ [Blocking!Contract!Next]_<<inside, ended # "no">>
  <2>1. b_pc[t] \in BlockingInside /\ inside' = inside \ {t} /\ UNCHANGED ended
    BY <1>5 DEF Blocking!NextLeave, Blocking!EndNext, Blocking!TerminalLeave
  <2>2. \A s \in 0..2 : b_pc[s] \in BlockingInside => s = t
    BY <2>1
  <2>3. inside = {t} /\ inside' = {}
    BY <2>1, <2>2
  <2>4. Blocking!Contract!Next
    BY <2>1, <2>3 DEF Blocking!Contract!Next, Blocking!Contract!Return
  <2>5. CASE Blocking!NextLeave(t)
    <3>1. \A s \in 0..2 : b_pc[s] # "in_terminal"
      BY <2>2, <2>5 DEF Blocking!NextLeave
    <3>2. UNCHANGED <<closed, ended>>
      BY <2>5 DEF Blocking!NextLeave, Blocking!EndNext
    <3> QED
      BY <2>4, <3>1, <3>2
  <2>6. CASE Blocking!TerminalLeave(t)
    <3>1. closed' = TRUE
      BY <2>6 DEF Blocking!TerminalLeave
    <3> QED
      BY <2>4, <3>1
  <2> QED
    BY <1>5, <2>5, <2>6
<1>6. ASSUME NEW t \in 0..2, Blocking!Complete(t) \/ Blocking!Notify(t)
      PROVE  BlockingEnded' /\ [Blocking!Contract!Next]_<<inside, ended # "no">>
  <2>1. UNCHANGED <<closed, ended, inside>>
    BY <1>6 DEF Blocking!Complete, Blocking!Notify
  <2>2. \A s \in 0..2 : b_pc[s] = "in_terminal" => b_pc'[s] = "in_terminal"
    BY <1>6 DEF Blocking!Complete, Blocking!Notify
  <2> QED
    BY <2>1, <2>2
<1> QED
  BY <1>1, <1>2, <1>3, <1>4, <1>5, <1>6 DEF Blocking!Next, Blocking!Call, Blocking!Handle

Families == {"repeating", "combining", "window", "chain", "blocking"}
RepeatingInv == TypeOK /\ Token /\ Serial /\ Counted /\ Released

AllInv ==
  /\ family \in Families
  /\ family = "repeating" => RepeatingInv
  /\ family = "combining" => CombiningInv /\ CombiningReleased
  /\ family = "window" => WindowInv /\ ValuesInv
  /\ family = "blocking" => BlockingInv /\ BlockingEnded
  /\ family # "repeating" => pc = [t \in Threads |-> "done"]

\* A step of a repeating operator, seen from any of the families.
LEMMA RepeatingStep ==
  ASSUME RepeatingInv, [Next]_vars
  PROVE  RepeatingInv' /\ [Contract!Next]_<<inside, ended # "no">>
BY TypesStep, TokenStep, SerialStep, CountedStep, ReleasedStep DEF RepeatingInv

\* A step of a combining operator, seen from any of the families.
LEMMA CombiningAllStep ==
  ASSUME CombiningInv, CombiningReleased, [Combining!Next]_(Combining!vars)
  PROVE  CombiningInv' /\ CombiningReleased' /\ [Combining!Contract!Next]_<<inside, ended # "no">>
<1>1. SourcesApart /\ c_kind \in Combining!Kinds
  BY DEF CombiningInv, CombiningRest, CombiningTypes, Combining!TypeOK
<1> QED
  BY <1>1, CombiningStep, CombiningSerialStep, CombiningReleasedStep

\* The observer's threads are among those of the repeating operators.
LEMMA ContractOfAll ==
  ASSUME [Combining!Contract!Next]_<<inside, ended # "no">> \/ [Blocking!Contract!Next]_<<inside, ended # "no">>
  PROVE  [Contract!Next]_<<inside, ended # "no">>
<1>1. 0..NumSources \subseteq Threads /\ 0..2 \subseteq Threads
  BY ThreadsAssumption, AttemptsAssumption, NumSourcesAssumption, ThreadsShared
<1> QED
  BY <1>1 DEF Combining!Contract!Next, Combining!Contract!OnNext, Combining!Contract!OnTerminal,
              Combining!Contract!Return, Blocking!Contract!Next, Blocking!Contract!OnNext,
              Blocking!Contract!OnTerminal, Blocking!Contract!Return, Contract!Next, Contract!OnNext,
              Contract!OnTerminal, Contract!Return

\* Each family begins with its invariant.
LEMMA AllInits ==
  ASSUME AllInit PROVE AllInv /\ Contract!Init
<1>1. CASE family = "repeating" /\ Init
  <2>1. RepeatingInv /\ Contract!Init
    BY <1>1, TypesInit, TokenInit, SerialInit, CountedInit, ReleasedInit DEF RepeatingInv
  <2> QED
    BY <1>1, <2>1 DEF AllInv, Families
<1>2. CASE family = "combining" /\ Combining!Init /\ NoRepeating
  <2>1. CombiningInv /\ CombiningReleased
    BY <1>2, CombiningInit, CombiningApartInit
  <2>2. Contract!Init
    BY <1>2 DEF Combining!Init, Combining!DownstreamInit, Contract!Init
  <2> QED
    BY <1>2, <2>1, <2>2 DEF AllInv, Families, NoRepeating
<1>3. CASE family = "window" /\ Window!Init /\ DownstreamInit /\ NoRepeating
  <2>1. WindowInv /\ ValuesInv
    BY <1>3, WindowInit, ValuesInit
  <2>2. Contract!Init
    BY <1>3 DEF DownstreamInit, Contract!Init
  <2> QED
    BY <1>3, <2>1, <2>2 DEF AllInv, Families, NoRepeating
<1>4. CASE family = "chain" /\ DownstreamInit /\ NoRepeating
  <2>1. Contract!Init
    BY <1>4 DEF DownstreamInit, Contract!Init
  <2> QED
    BY <1>4, <2>1 DEF AllInv, Families, NoRepeating
<1>5. CASE family = "blocking" /\ Blocking!Init /\ NoRepeating
  <2>1. BlockingInv /\ BlockingEnded
    BY <1>5, BlockingInit DEF BlockingEnded, Blocking!Init, Blocking!DownstreamInit
  <2>2. Contract!Init
    BY <1>5 DEF Blocking!Init, Blocking!DownstreamInit, Contract!Init
  <2> QED
    BY <1>5, <2>1, <2>2 DEF AllInv, Families, NoRepeating
<1> QED
  BY <1>1, <1>2, <1>3, <1>4, <1>5 DEF AllInit

\* Each family keeps its invariant and leaves the others alone.
LEMMA AllSteps ==
  ASSUME AllInv, [AllNext]_allVars PROVE AllInv' /\ [Contract!Next]_<<inside, ended # "no">>
<1>1. CASE family = "repeating"
  <2>1. [Next]_vars /\ family' = family
    BY <1>1 DEF AllNext, allVars, OfRepeating, OfCombining, OfBlocking, ofRepeating, vars, counters
  <2>2. RepeatingInv
    BY <1>1 DEF AllInv
  <2> QED
    BY <1>1, <2>1, <2>2, RepeatingStep DEF AllInv, Families
<1>2. CASE family = "combining"
  <2>1. [Combining!Next]_(Combining!vars) /\ UNCHANGED <<family, pc>>
    BY <1>2 DEF AllNext, allVars, OfRepeating, OfCombining, OfBlocking, ofRepeating, ofCombining, Combining!vars,
                Combining!stored, Combining!sources, downstream, calls, links, Combining!downstream,
                Combining!calls, Combining!links
  <2>2. CombiningInv /\ CombiningReleased /\ pc = [t \in Threads |-> "done"]
    BY <1>2 DEF AllInv
  <2>3. CombiningInv' /\ CombiningReleased' /\ [Contract!Next]_<<inside, ended # "no">>
    BY <2>1, <2>2, CombiningAllStep, ContractOfAll
  <2> QED
    BY <1>2, <2>1, <2>2, <2>3 DEF AllInv, Families
<1>3. CASE family = "window"
  <2>1. [Window!Next]_(Window!vars) /\ UNCHANGED <<w_kind, family, pc, inside, ended>>
    BY <1>3 DEF Window!Next, AllNext, allVars, OfRepeating, OfCombining, OfBlocking, ofRepeating, ofWindow, Window!vars,
                Window!windows, Window!observers, Window!sharing, downstream, calls
  <2>2. WindowInv /\ ValuesInv /\ pc = [t \in Threads |-> "done"]
    BY <1>3 DEF AllInv
  <2>3. WindowInv' /\ ValuesInv'
    BY <2>1, <2>2, WindowStep, ValuesStep
  <2> QED
    BY <1>3, <2>1, <2>2, <2>3 DEF AllInv, Families
<1>4. CASE family = "chain"
  <2>1. UNCHANGED <<family, pc, inside, ended>>
    BY <1>4 DEF AllNext, allVars, OfRepeating, OfCombining, OfBlocking, ofRepeating, downstream, calls
  <2> QED
    BY <1>4, <2>1 DEF AllInv, Families
<1>5. CASE family = "blocking"
  <2>1. [Blocking!Next]_(Blocking!vars) /\ UNCHANGED <<family, pc>>
    BY <1>5 DEF AllNext, allVars, OfRepeating, OfCombining, OfBlocking, ofRepeating, ofBlocking, Blocking!vars,
                Blocking!own, downstream, calls, links, Blocking!downstream, Blocking!calls, Blocking!links
  <2>2. BlockingInv /\ BlockingEnded /\ pc = [t \in Threads |-> "done"]
    BY <1>5 DEF AllInv
  <2>3. BlockingInv' /\ BlockingEnded' /\ [Contract!Next]_<<inside, ended # "no">>
    BY <2>1, <2>2, BlockingStep, BlockingSerialStep, ContractOfAll
  <2> QED
    BY <1>5, <2>1, <2>2, <2>3 DEF AllInv, Families
<1> QED
  BY <1>1, <1>2, <1>3, <1>4, <1>5 DEF AllInv, Families

\* The invariant holds in every behaviour, whichever family it is of.
LEMMA Always == AllSpec => []AllInv
BY AllInits, AllSteps, PTL DEF AllSpec

\* Everything has its type, but for the state of a chain, which is what the calls
\* of its operators, one after the other, make of it.
THEOREM AllTypes == AllSpec => [](family # "chain" => TypesOK)
<1>1. AllInv => (family # "chain" => TypesOK)
  BY WindowSafe, BlockingSafe, CombiningSafe DEF AllInv, Families, RepeatingInv, TypesOK
<1> QED
  BY <1>1, Always, PTL

\* Two attempts of a repeating operator are never live at once.
THEOREM AllApart == AllSpec => []OneAtATime
<1>1. AllInv => OneAtATime
  <2>1. CASE family = "repeating"
    BY <2>1, TokenSafe DEF AllInv, RepeatingInv
  <2>2. CASE family # "repeating"
    BY <2>2 DEF AllInv, OneAtATime, Draining, Live
  <2> QED
    BY <2>1, <2>2
<1> QED
  BY <1>1, Always, PTL

\* The observer of any of the operators is called as the contract says, by
\* as_blocking() too.
THEOREM AllRefine == AllSpec => FollowsContract
BY AllInits, AllSteps, Always, PTL DEF AllSpec, FollowsContract, Contract!Spec

\* A result ends with everything that was due: retry(n) and concat after exactly
\* the attempts asked for, zip and combine_latest when nothing more can come of
\* what their sources have, and every window that somebody listens to; and a call
\* of as_blocking() returns after the end.
THEOREM AllEndAsDefined == AllSpec => [](family # "chain" => EndsAsDefined)
<1>1. AllInv => (family # "chain" => EndsAsDefined)
  BY WindowSafe, BlockingSafe, CombiningSafe, CountedSafe, Zenon DEF AllInv, Families, RepeatingInv, EndsAsDefined
<1> QED
  BY <1>1, Always, PTL

\* Nothing stays subscribed that nobody listens to, and nothing is unsubscribed
\* that somebody does.
THEOREM AllReleased == AllSpec => []NothingLeaks
<1>1. AllInv => NothingLeaks
  BY WindowSafe, CombiningReleasedSafe, ReleasedSafe DEF AllInv, Families, RepeatingInv, NothingLeaks
<1> QED
  BY <1>1, Always, PTL

\* zip, combine_latest, with_latest_from and take_until deliver what they are
\* defined to make of their sources, however those interleave, and every value
\* gets into its window, in order.
THEOREM AllDeliver == AllSpec => [](family # "chain" => DeliversAsDefined)
<1>1. AllInv => (family # "chain" => DeliversAsDefined)
  BY CombiningSafe, WindowSafe, ValuesSafe DEF AllInv, Families, DeliversAsDefined
<1> QED
  BY <1>1, Always, PTL
=============================================================================
