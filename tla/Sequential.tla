------------------------------ MODULE Sequential ------------------------------
(***************************************************************************)
(* A source, two operators that need no lock, and a subscriber: what           *)
(* source | first | second delivers.  A call of the source runs through the    *)
(* whole chain before it returns, so one step is one call of the source.      *)
(*                                                                         *)
(* The observers of such operators (preferred_disposables_mode None) ask the  *)
(* observer after them whether they are disposed: the chain has one flag,     *)
(* that of the subscriber.  What a callable throws is caught by the          *)
(* observer_impl around the operator's strategy, and is its on_error.        *)
(*                                                                         *)
(* A value is a sequence of numbers, so that reduce, scan and buffer can      *)
(* concatenate; <<n>> comes from the source.  Values come a unit of time      *)
(* apart.                                                                  *)
(***************************************************************************)
EXTENDS Integers, Sequences, FiniteSets, SequencesExt

CONSTANTS Numbers,    \* numbers a source emits
          MaxLength,  \* bound: values of the source
          MaxArgument \* bound: the argument of take, skip ...

Op(name, n) == [op |-> name, n |-> n]
Unary == {"map", "filter", "take_while", "scan", "scan_seed", "reduce", "reduce_seed",
          "distinct", "distinct_until_changed", "first", "last", "tap", "finally", "start_with"}
Counted == {"take", "skip", "take_last", "element_at", "buffer", "throttle"}
Operators ==
  {Op(name, 0) : name \in Unary} \union {Op(name, n) : name \in Counted, n \in 0..MaxArgument}

\* Any two in a row, but throttle only first: what it drops depends on the time
\* at which the source calls.
Pipelines == {chosen \in Operators \X Operators : chosen[2].op # "throttle"}

\* Callables: one for each operator that takes one.
Calling == {"map", "filter", "take_while", "scan", "scan_seed", "reduce", "reduce_seed",
            "distinct_until_changed", "tap"}
Shift(v) == [i \in DOMAIN v |-> v[i] + 1]
Good(v) == Last(v) % 2 = 1
Seed == <<0>>
StartValue == <<1>>

VARIABLES
  pipe,    \* the two operators
  source,  \* "iterable" looks at is_disposed() between values, "create" does not
  bad,     \* callables throw when a value ends with this number
  quirk,   \* what the subscriber's on_next does at its call nth: "none", "dispose"
  nth,     \* or "throw"
  chain,   \* [s: states of the operators, closed, got, ended, held, called]
  sent,    \* history: values that found the chain not disposed
  end,     \* the terminal call that did
  phase    \* "new", "refused", "subscribed" or "done"

vars == <<pipe, source, bad, quirk, nth, chain, sent, end, phase>>

N(v) == [how |-> "next", v |-> v]
T(how) == [how |-> how, v |-> <<>>]
Completed == T("completed")
Error == T("error")
To(s, out) == [s |-> s, out |-> out]

-----------------------------------------------------------------------------
(* on_next of each strategy: its next state and the calls it makes, in order. *)

Map(s, v) == To(s, <<N(Shift(v))>>)
Filter(s, v) == To(s, IF Good(v) THEN <<N(v)>> ELSE <<>>)

\* Mutant: the value that makes the count 0 does not complete.
TakeOneMore(s, v) ==
  IF s > 0 THEN To(s - 1, <<N(v)>>) ELSE To(s, <<Completed>>)
Take(s, v) ==
  LET left == IF s > 0 THEN s - 1 ELSE s IN
  To(left, (IF s > 0 THEN <<N(v)>> ELSE <<>>) \o (IF left = 0 THEN <<Completed>> ELSE <<>>))

Skip(s, v) == IF s = 0 THEN To(s, <<N(v)>>) ELSE To(s - 1, <<>>)

\* m_data is a ring once it is full; at is m_current_end.
TakeLast(n, s, v) ==
  CASE n = 0 -> To(s, <<>>)
    [] n > Len(s.data) -> To([s EXCEPT !.data = Append(@, v)], <<>>)
    [] OTHER -> To([data |-> [s.data EXCEPT ![s.at + 1] = v], at |-> (s.at + 1) % n], <<>>)
TakeLastCompleted(s) ==
  LET k == Len(s.data) IN [i \in 1..k |-> N(s.data[((s.at + i - 1) % k) + 1])] \o <<Completed>>

TakeWhile(s, v) == To(s, IF Good(v) THEN <<N(v)>> ELSE <<Completed>>)

\* An optional is a sequence of at most one; with a seed it is never empty.
Scan(s, v) ==
  LET seed == IF s = <<>> THEN v ELSE s[1] \o v IN To(<<seed>>, <<N(seed)>>)
Reduce(s, v) == To(<<IF s = <<>> THEN v ELSE s[1] \o v>>, <<>>)
ReduceCompleted(s) == [i \in 1..Len(s) |-> N(s[i])] \o <<Completed>>

Distinct(s, v) == IF v \in s THEN To(s, <<>>) ELSE To(s \union {v}, <<N(v)>>)
DistinctUntilChanged(s, v) == IF s = <<v>> THEN To(s, <<>>) ELSE To(<<v>>, <<N(v)>>)

\* element_at(n) starts with n + 1.
ElementAt(s, v) ==
  LET left == IF s > 0 THEN s - 1 ELSE s IN
  To(left, IF left = 0 THEN <<N(v), Completed>> ELSE <<>>)
ElementAtCompleted(s) == IF s > 0 THEN <<Error>> ELSE <<Completed>>

First(s, v) == To(s, <<N(v), Completed>>)
LastNext(s, v) == To(<<v>>, <<>>)
LastCompleted(s) == IF s = <<>> THEN <<Error>> ELSE <<N(s[1]), Completed>>

\* buffer(0) is buffer(1).
BufferSize(n) == IF n = 0 THEN 1 ELSE n
Buffer(n, s, v) ==
  LET full == Len(s) + 1 = BufferSize(n) IN
  To(IF full THEN <<>> ELSE Append(s, v), IF full THEN <<N(FlattenSeq(Append(s, v)))>> ELSE <<>>)
BufferCompleted(s) == (IF s = <<>> THEN <<>> ELSE <<N(FlattenSeq(s))>>) \o <<Completed>>

Throttle(n, s, v, now) ==
  IF s = <<>> \/ now >= s[1] + n THEN To(<<now>>, <<N(v)>>) ELSE To(s, <<>>)

Same(s, v) == To(s, <<N(v)>>)  \* tap, finally, start_with

\* The comparator of distinct_until_changed has nothing to compare at first.
Throws(p, s, v) ==
  /\ p.op \in Calling /\ Last(v) = bad
  /\ p.op \in {"scan", "reduce", "distinct_until_changed"} => s # <<>>

OnNext(p, s, v, now) ==
  CASE Throws(p, s, v) -> To(s, <<Error>>)
    [] p.op = "map" -> Map(s, v)
    [] p.op = "filter" -> Filter(s, v)
    [] p.op = "take" -> Take(s, v)
    [] p.op = "skip" -> Skip(s, v)
    [] p.op = "take_last" -> TakeLast(p.n, s, v)
    [] p.op = "take_while" -> TakeWhile(s, v)
    [] p.op \in {"scan", "scan_seed"} -> Scan(s, v)
    [] p.op \in {"reduce", "reduce_seed"} -> Reduce(s, v)
    [] p.op = "distinct" -> Distinct(s, v)
    [] p.op = "distinct_until_changed" -> DistinctUntilChanged(s, v)
    [] p.op = "element_at" -> ElementAt(s, v)
    [] p.op = "first" -> First(s, v)
    [] p.op = "last" -> LastNext(s, v)
    [] p.op = "buffer" -> Buffer(p.n, s, v)
    [] p.op = "throttle" -> Throttle(p.n, s, v, now)
    [] OTHER -> Same(s, v)

OnCompleted(p, s) ==
  CASE p.op = "take_last" -> TakeLastCompleted(s)
    [] p.op \in {"reduce", "reduce_seed"} -> ReduceCompleted(s)
    [] p.op = "element_at" -> ElementAtCompleted(s)
    [] p.op = "first" -> <<Error>>
    [] p.op = "last" -> LastCompleted(s)
    [] p.op = "buffer" -> BufferCompleted(s)
    [] OTHER -> <<Completed>>

Call(p, s, e, now) ==
  CASE e.how = "next" -> OnNext(p, s, e.v, now)
    [] e.how = "completed" -> To(s, OnCompleted(p, s))
    [] e.how = "error" -> To(s, <<Error>>)

\* What a strategy is constructed with, and what it emits when it is.
Start(p) ==
  CASE p.op \in {"take", "skip"} -> p.n
    [] p.op = "element_at" -> p.n + 1
    [] p.op = "take_last" -> [data |-> <<>>, at |-> 0]
    [] p.op = "distinct" -> {}
    [] p.op \in {"scan_seed", "reduce_seed"} -> <<Seed>>
    [] OTHER -> <<>>
StartEmits(p) ==
  CASE p.op = "scan_seed" -> <<N(Seed)>>
    [] p.op = "start_with" -> <<N(StartValue)>>
    [] OTHER -> <<>>

-----------------------------------------------------------------------------
(* The subscriber: observer_impl around the lambdas, which holds one callback  *)
(* per finally and calls them when it is disposed.                           *)

Dispose(c) == [c EXCEPT !.closed = TRUE, !.called = @ + c.held, !.held = 0]
Holds(c) == IF c.closed THEN [c EXCEPT !.called = @ + 1] ELSE [c EXCEPT !.held = @ + 1]

Terminal(c, how) == IF c.closed THEN c ELSE Dispose([c EXCEPT !.ended = how])

Deliver(c, e) ==
  IF c.closed THEN c
  ELSE IF e.how # "next" THEN Terminal(c, e.how)
  ELSE LET d == [c EXCEPT !.got = Append(@, e.v)] IN
       CASE Len(d.got) = nth /\ quirk = "dispose" -> Dispose(d)
         [] Len(d.got) = nth /\ quirk = "throw" -> Terminal(d, "error")
         [] OTHER -> d

\* A call of the observer of the second operator, and of the first.
Second(c, e, now) ==
  IF c.closed THEN c
  ELSE LET r == Call(pipe[2], c.s[2], e, now) IN
       FoldLeft(Deliver, [c EXCEPT !.s[2] = r.s], r.out)
ToFirst(c, e, now) ==
  IF c.closed THEN c
  ELSE LET r == Call(pipe[1], c.s[1], e, now) IN
       FoldLeft(LAMBDA d, f : Second(d, f, now), [c EXCEPT !.s[1] = r.s], r.out)

-----------------------------------------------------------------------------
Init ==
  /\ pipe \in Pipelines
  /\ source \in {"iterable", "create"}
  /\ bad \in {0} \union (IF pipe[1].op \in Calling \/ pipe[2].op \in Calling THEN Numbers ELSE {})
  /\ quirk \in {"none", "dispose", "throw"} /\ nth \in (IF quirk = "none" THEN {1} ELSE 1..2)
  /\ chain = [s |-> <<Start(pipe[1]), Start(pipe[2])>>, closed |-> FALSE, got |-> <<>>,
              ended |-> "no", held |-> 0, called |-> 0]
  /\ sent = <<>> /\ end = "no" /\ phase = "new"

\* subscribe() makes the observers from the last to the first.  start_with is a
\* concat, which does not subscribe to what comes before it if it is disposed.
Stopped(p, c) == p.op = "start_with" /\ c.closed
Attach(k, c) ==
  LET d == IF pipe[k].op = "finally" THEN Holds(c) ELSE c IN
  FoldLeft(LAMBDA x, e : IF k = 2 THEN Deliver(x, e) ELSE Second(x, e, 0), d, StartEmits(pipe[k]))

Subscribe ==
  /\ phase = "new"
  /\ LET c2 == Attach(2, chain)
         c1 == IF Stopped(pipe[2], c2) THEN c2 ELSE Attach(1, c2)
         stopped == Stopped(pipe[2], c2) \/ Stopped(pipe[1], c1)
     IN chain' = c1 /\ phase' = IF stopped THEN "done" ELSE "subscribed"
  /\ UNCHANGED <<pipe, source, bad, quirk, nth, sent, end>>

\* The composite_disposable given to subscribe() is disposed already.
Refuse ==
  /\ phase = "new"
  /\ chain' = [chain EXCEPT !.closed = TRUE] /\ phase' = "refused"
  /\ UNCHANGED <<pipe, source, bad, quirk, nth, sent, end>>

Asks == phase = "subscribed" /\ (source = "create" \/ ~chain.closed)

SourceNext ==
  /\ Asks /\ Len(sent) < MaxLength
  /\ \E n \in Numbers :
       /\ chain' = ToFirst(chain, N(<<n>>), Len(sent) + 1)
       /\ sent' = IF chain.closed THEN sent ELSE Append(sent, <<n>>)
  /\ UNCHANGED <<pipe, source, bad, quirk, nth, end, phase>>

\* The end of the container, or what its iterator throws; a lambda given to
\* create may go on after it.
SourceEnds ==
  /\ Asks
  /\ \E how \in {"completed", "error"} :
       /\ chain' = ToFirst(chain, T(how), Len(sent) + 1)
       /\ end' = IF chain.closed THEN end ELSE how
  /\ phase' = IF source = "create" THEN phase ELSE "done"
  /\ UNCHANGED <<pipe, source, bad, quirk, nth, sent>>

\* The subscriber disposes from outside.
Leave ==
  /\ phase = "subscribed" /\ ~chain.closed
  /\ chain' = Dispose(chain)
  /\ UNCHANGED <<pipe, source, bad, quirk, nth, sent, end, phase>>

Next == Subscribe \/ Refuse \/ SourceNext \/ SourceEnds \/ Leave
Spec == Init /\ [][Next]_vars

-----------------------------------------------------------------------------
(* What each operator is to deliver, of a whole observable: the values up to  *)
(* now and how it has ended.                                                *)

Obs(vals, how) == [vals |-> vals, end |-> how]
UpTo(vals, k) == SubSeq(vals, 1, k)
Least(S) == CHOOSE k \in S : \A j \in S : k <= j
Where(vals, P(_)) == {i \in DOMAIN vals : P(i)}
KeepAt(vals, P(_)) ==
  LET at == SetToSortSeq(Where(vals, P), <) IN [i \in DOMAIN at |-> vals[at[i]]]
EndAt(vals, how, hits) == IF hits = {} THEN Obs(vals, how) ELSE Obs(UpTo(vals, Least(hits)), "completed")
Concat(vals, k) == FlattenSeq(UpTo(vals, k))
Chunks(vals, n) ==
  [i \in 1..((Len(vals) + n - 1) \div n) |->
     FlattenSeq(SubSeq(vals, (i - 1) * n + 1, IF i * n < Len(vals) THEN i * n ELSE Len(vals)))]
WholeChunks(vals, n) == Chunks(UpTo(vals, (Len(vals) \div n) * n), n)

\* A callable that throws ends the input just before the value it throws at.
Cut(p, o) ==
  LET hits == {i \in DOMAIN o.vals : Last(o.vals[i]) = bad
                 /\ (p.op \in {"scan", "reduce", "distinct_until_changed"} => i > 1)} IN
  IF p.op \notin Calling \/ hits = {} THEN o
  ELSE Obs(UpTo(o.vals, Least(hits) - 1), "error")

Defined(p, o) ==
  LET vals == Cut(p, o).vals  how == Cut(p, o).end  k == Len(vals)  n == p.n
      atEnd(v) == IF how = "completed" THEN v ELSE <<>>
  IN
  CASE p.op = "map" -> Obs([i \in 1..k |-> Shift(vals[i])], how)
    [] p.op = "filter" -> Obs(SelectSeq(vals, Good), how)
    [] p.op = "take" ->
         IF k >= n /\ k > 0 THEN Obs(UpTo(vals, n), "completed") ELSE Obs(vals, how)
    [] p.op = "skip" -> Obs(SubSeq(vals, n + 1, k), how)
    [] p.op = "take_last" -> Obs(atEnd(SubSeq(vals, IF k > n THEN k - n + 1 ELSE 1, k)), how)
    [] p.op = "take_while" ->
         LET stops == Where(vals, LAMBDA i : ~Good(vals[i])) IN
         IF stops = {} THEN Obs(vals, how) ELSE Obs(UpTo(vals, Least(stops) - 1), "completed")
    [] p.op = "scan" -> Obs([i \in 1..k |-> Concat(vals, i)], how)
    [] p.op = "scan_seed" -> Obs([i \in 1..k + 1 |-> Seed \o Concat(vals, i - 1)], how)
    [] p.op = "reduce" -> Obs(atEnd(IF k = 0 THEN <<>> ELSE <<Concat(vals, k)>>), how)
    [] p.op = "reduce_seed" -> Obs(atEnd(<<Seed \o Concat(vals, k)>>), how)
    [] p.op = "distinct" -> Obs(KeepAt(vals, LAMBDA i : vals[i] \notin {vals[j] : j \in 1..i - 1}), how)
    [] p.op = "distinct_until_changed" -> Obs(KeepAt(vals, LAMBDA i : i = 1 \/ vals[i] # vals[i - 1]), how)
    [] p.op = "element_at" ->
         IF k > n THEN Obs(<<vals[n + 1]>>, "completed")
         ELSE Obs(<<>>, IF how = "completed" THEN "error" ELSE how)
    [] p.op = "first" ->
         IF k > 0 THEN Obs(<<vals[1]>>, "completed")
         ELSE Obs(<<>>, IF how = "completed" THEN "error" ELSE how)
    [] p.op = "last" ->
         IF k = 0 /\ how = "completed" THEN Obs(<<>>, "error") ELSE Obs(atEnd(SubSeq(vals, k, k)), how)
    [] p.op = "buffer" ->
         Obs(IF how = "completed" THEN Chunks(vals, BufferSize(n)) ELSE WholeChunks(vals, BufferSize(n)), how)
    [] p.op = "throttle" -> Obs(KeepAt(vals, LAMBDA i : n = 0 \/ (i - 1) % n = 0), how)
    [] p.op = "start_with" -> Obs(<<StartValue>> \o vals, how)
    [] OTHER -> Obs(vals, how)

\* What the subscriber takes of that.
Taken(o) ==
  IF quirk = "none" \/ Len(o.vals) < nth THEN o
  ELSE Obs(UpTo(o.vals, nth), IF quirk = "throw" THEN "error" ELSE "no")
Expected(vals, how) == Taken(Defined(pipe[2], Defined(pipe[1], Obs(vals, how))))

TypeOK ==
  /\ sent \in BoundedSeq({<<n>> : n \in Numbers}, MaxLength)
  /\ end \in {"no", "completed", "error"} /\ chain.ended \in {"no", "completed", "error"}
  /\ chain.closed \in BOOLEAN

\* The counters, rings and optionals of two operators in a row deliver exactly
\* what the composition of their definitions says, value for value and with the
\* same end, whoever throws or leaves, and nothing after the end.
ResultAsDefined ==
  Obs(chain.got, chain.ended) =
    IF phase \in {"new", "refused"} THEN Obs(<<>>, "no") ELSE Expected(sent, end)

\* A source that can look is not asked for a value more once the result is
\* settled, however far down the chain that was.
Settled(o) == o.end # "no" \/ (quirk = "dispose" /\ Len(o.vals) = nth)
AsksNoMore ==
  source = "iterable" /\ sent # <<>> => ~Settled(Expected(Front(sent), "no"))

\* What finally is given is called once, when the subscription is over however
\* that came, and not before.
FinallyOnce ==
  LET stopped == Stopped(pipe[2], chain) /\ sent = <<>> /\ end = "no"
      wanted == Cardinality({k \in 1..2 : pipe[k].op = "finally"})
  IN phase \in {"subscribed", "done"} /\ ~stopped => chain.called = IF chain.closed THEN wanted ELSE 0
=============================================================================
