---------------------------- MODULE WindowsProofs ----------------------------
(* Lemmas about Windows, as MCOperators instantiates it: for any number of   *)
(* windows, any size and any number of values.  OperatorsProofs rests on them. *)
(*                                                                         *)
(* WindowInv: who holds the source, whose turn it is, what each party has to *)
(* call and which windows have been told of their end.                       *)
(* ValuesInv: the values a window has been sent, with those that the source  *)
(* has still to pass on, are the values that belong to it, in order.         *)
EXTENDS MCOperators, FiniteSetTheorems, SequenceTheorems, WellFoundedInduction, TLAPS
-----------------------------------------------------------------------------
(* Sequences as the sets of what is in them.                                 *)

Within(q) == {q[i] : i \in DOMAIN q}

\* Nothing is in an empty sequence, and one thing in a sequence of one.
LEMMA WithinFew ==
  /\ Within(<<>>) = {}
  /\ \A x : Within(<<x>>) = {x} /\ <<x>> # <<>>
BY DEF Within

\* What is in a sequence is its head or in its tail.
LEMMA WithinTail ==
  ASSUME NEW S, NEW q \in Seq(S), q # <<>>
  PROVE  /\ Head(q) \in S /\ Tail(q) \in Seq(S)
         /\ Within(q) = Within(Tail(q)) \union {Head(q)}
<1>1. /\ DOMAIN q = 1..Len(q) /\ Len(q) \in Nat \ {0} /\ Head(q) = q[1]
      /\ \A k \in 1..Len(q) : q[k] \in S
  BY EmptySeq, LenProperties, ElementOfSeq
<1>2. /\ Head(q) \in S /\ Tail(q) \in Seq(S) /\ Len(Tail(q)) = Len(q) - 1
      /\ \A k \in 1..Len(Tail(q)) : Tail(q)[k] = q[k + 1]
  BY HeadTailProperties
<1>3. DOMAIN Tail(q) = 1..(Len(q) - 1)
  BY <1>2, LenProperties
<1>4. ASSUME NEW k \in 1..Len(q) PROVE q[k] \in Within(Tail(q)) \union {Head(q)}
  <2>1. CASE k = 1
    BY <1>1, <2>1
  <2>2. CASE k # 1
    <3>1. k - 1 \in 1..(Len(q) - 1) /\ (k - 1) + 1 = k
      BY <1>1, <2>2
    <3>2. Tail(q)[k - 1] = q[k]
      BY <1>2, <3>1
    <3> QED
      BY <1>3, <3>1, <3>2 DEF Within
  <2> QED
    BY <2>1, <2>2
<1>5. ASSUME NEW k \in 1..(Len(q) - 1) PROVE Tail(q)[k] \in Within(q)
  <2>1. k + 1 \in 1..Len(q) /\ Tail(q)[k] = q[k + 1]
    BY <1>1, <1>2
  <2> QED
    BY <1>1, <2>1 DEF Within
<1>6. Head(q) \in Within(q)
  BY <1>1 DEF Within
<1>7. Within(q) \subseteq Within(Tail(q)) \union {Head(q)}
  BY <1>1, <1>4 DEF Within
<1>8. Within(Tail(q)) \subseteq Within(q)
  BY <1>3, <1>5 DEF Within
<1> QED
  BY <1>2, <1>6, <1>7, <1>8

\* What is in two sequences one after the other is in one of them.
LEMMA WithinConcat ==
  ASSUME NEW S, NEW p \in Seq(S), NEW q \in Seq(S)
  PROVE  p \o q \in Seq(S) /\ Within(p \o q) = Within(p) \union Within(q)
<1>1. /\ p \o q \in Seq(S) /\ Len(p \o q) = Len(p) + Len(q)
      /\ \A i \in 1..Len(p) + Len(q) : (p \o q)[i] = IF i <= Len(p) THEN p[i] ELSE q[i - Len(p)]
  BY ConcatProperties
<1>2. /\ DOMAIN p = 1..Len(p) /\ DOMAIN q = 1..Len(q) /\ DOMAIN (p \o q) = 1..Len(p) + Len(q)
      /\ Len(p) \in Nat /\ Len(q) \in Nat
  BY <1>1, LenProperties
<1>3. ASSUME NEW i \in 1..Len(p) + Len(q) PROVE (p \o q)[i] \in Within(p) \union Within(q)
  <2>1. CASE i <= Len(p)
    <3>1. i \in 1..Len(p) /\ (p \o q)[i] = p[i]
      BY <1>1, <1>2, <2>1
    <3> QED
      BY <1>2, <3>1 DEF Within
  <2>2. CASE ~(i <= Len(p))
    <3>1. i - Len(p) \in 1..Len(q) /\ (p \o q)[i] = q[i - Len(p)]
      BY <1>1, <1>2, <2>2
    <3> QED
      BY <1>2, <3>1 DEF Within
  <2> QED
    BY <2>1, <2>2
<1>4. ASSUME NEW i \in 1..Len(p) PROVE p[i] \in Within(p \o q)
  <2>1. i \in 1..Len(p) + Len(q) /\ (p \o q)[i] = p[i]
    BY <1>1, <1>2
  <2> QED
    BY <1>2, <2>1 DEF Within
<1>5. ASSUME NEW i \in 1..Len(q) PROVE q[i] \in Within(p \o q)
  <2>1. /\ i + Len(p) \in 1..Len(p) + Len(q) /\ ~(i + Len(p) <= Len(p)) /\ (i + Len(p)) - Len(p) = i
    BY <1>2
  <2>2. (p \o q)[i + Len(p)] = q[i]
    BY <1>1, <2>1
  <2> QED
    BY <1>2, <2>1, <2>2 DEF Within
<1>6. Within(p \o q) \subseteq Within(p) \union Within(q)
  BY <1>2, <1>3 DEF Within
<1>7. Within(p) \subseteq Within(p \o q) /\ Within(q) \subseteq Within(p \o q)
  BY <1>2, <1>4, <1>5 DEF Within
<1> QED
  BY <1>1, <1>6, <1>7

\* The least of a set of numbers.
LEMMA LeastOf ==
  ASSUME NEW T, T \subseteq Nat, T # {}
  PROVE  Window!Min(T) \in T
<1> DEFINE R == OpToRel(<, Nat)
<1>1. IsWellFoundedOn(R, Nat)
  BY NatLessThanWellFounded
<1>2. \A x, y \in Nat : <<x, y>> \in R <=> x < y
  BY DEF OpToRel
<1> HIDE DEF R
<1>3. PICK m \in T : \A n \in T : <<n, m>> \notin R
  BY <1>1, WFMin
<1>4. \A n \in T : ~(n < m)
  BY <1>2, <1>3
<1>5. \A n \in T : m <= n
  BY <1>3, <1>4
<1> QED
  BY <1>3, <1>5 DEF Window!Min

\* Within a part of a sequence.
LEMMA WithinPart ==
  ASSUME NEW S, NEW q \in Seq(S), NEW m \in 1..Len(q) + 1, NEW n \in 0..Len(q)
  PROVE  SubSeq(q, m, n) \in Seq(S) /\ Within(SubSeq(q, m, n)) = {q[k] : k \in m..n}
<1>1. /\ SubSeq(q, m, n) \in Seq(S)
      /\ Len(SubSeq(q, m, n)) = IF m <= n THEN n - m + 1 ELSE 0
      /\ \A i \in 1..n - m + 1 : SubSeq(q, m, n)[i] = q[m + i - 1]
  BY SubSeqProperties
<1>2. DOMAIN SubSeq(q, m, n) = 1..n - m + 1 /\ m \in Nat /\ n \in Nat
  BY <1>1, LenProperties
<1>3. ASSUME NEW i \in 1..n - m + 1 PROVE SubSeq(q, m, n)[i] \in {q[k] : k \in m..n}
  <2>1. m + i - 1 \in m..n
    BY <1>2
  <2> QED
    BY <1>1, <2>1
<1>4. ASSUME NEW k \in m..n PROVE q[k] \in Within(SubSeq(q, m, n))
  <2>1. k - m + 1 \in 1..n - m + 1 /\ m + (k - m + 1) - 1 = k
    BY <1>2
  <2>2. SubSeq(q, m, n)[k - m + 1] = q[k]
    BY <1>1, <2>1
  <2> QED
    BY <1>2, <2>1, <2>2 DEF Within
<1> QED
  BY <1>1, <1>2, <1>3, <1>4 DEF Within

\* RemoveFirst takes one away and leaves the others.
LEMMA WithinRemoved ==
  ASSUME NEW S, NEW q \in Seq(S), NEW x
  PROVE  /\ Window!RemoveFirst(q, x) \in Seq(S)
         /\ Within(Window!RemoveFirst(q, x)) \subseteq Within(q)
         /\ Within(q) \subseteq Within(Window!RemoveFirst(q, x)) \union {x}
<1>1. CASE \E i \in 1..Len(q) : q[i] = x
  <2> DEFINE T == {i \in 1..Len(q) : q[i] = x}
             i == Window!Min(T)
  <2>1. Len(q) \in Nat /\ DOMAIN q = 1..Len(q)
    BY LenProperties
  <2>2. T \subseteq Nat /\ T # {}
    BY <1>1, <2>1
  <2>3. i \in T
    BY <2>2, LeastOf
  <2>4. Window!RemoveFirst(q, x) = SubSeq(q, 1, i - 1) \o SubSeq(q, i + 1, Len(q))
    BY <1>1, <2>2 DEF Window!RemoveFirst, Window!RemoveAt, Window!SelectInSeq
  <2>5. i \in 1..Len(q) /\ q[i] = x
    BY <2>3
  <2> HIDE DEF i, T
  <2>6. SubSeq(q, 1, i - 1) \in Seq(S) /\ Within(SubSeq(q, 1, i - 1)) = {q[k] : k \in 1..i - 1}
    <3>1. 1 \in 1..Len(q) + 1 /\ i - 1 \in 0..Len(q)
      BY <2>1, <2>5
    <3> QED
      BY <3>1, WithinPart
  <2>7. SubSeq(q, i + 1, Len(q)) \in Seq(S) /\ Within(SubSeq(q, i + 1, Len(q))) = {q[k] : k \in i + 1..Len(q)}
    <3>1. i + 1 \in 1..Len(q) + 1 /\ Len(q) \in 0..Len(q)
      BY <2>1, <2>5
    <3> QED
      BY <3>1, WithinPart
  <2>8. /\ Window!RemoveFirst(q, x) \in Seq(S)
        /\ Within(Window!RemoveFirst(q, x)) = {q[k] : k \in 1..i - 1} \union {q[k] : k \in i + 1..Len(q)}
    <3> DEFINE a == SubSeq(q, 1, i - 1)
               b == SubSeq(q, i + 1, Len(q))
    <3>1. a \in Seq(S) /\ b \in Seq(S)
      BY <2>6, <2>7
    <3> HIDE DEF a, b
    <3>2. a \o b \in Seq(S) /\ Within(a \o b) = Within(a) \union Within(b)
      BY <3>1, WithinConcat
    <3> QED
      BY <2>4, <2>6, <2>7, <3>2 DEF a, b
  <2>9. \A k \in 1..Len(q) : k \in 1..i - 1 \/ k \in i + 1..Len(q) \/ k = i
    BY <2>1, <2>5
  <2>10. \A k : k \in 1..i - 1 \/ k \in i + 1..Len(q) => k \in 1..Len(q)
    BY <2>1, <2>5
  <2> QED
    BY <2>1, <2>5, <2>8, <2>9, <2>10 DEF Within
<1>2. CASE ~\E i \in 1..Len(q) : q[i] = x
  BY <1>2 DEF Window!RemoveFirst
<1> QED
  BY <1>1, <1>2

\* Who listens has a handle, and the last handle disposes.
WindowHeld ==
  /\ handles = ({Window!Outer} \union joined) \ w_closed
  /\ w_disposed \in BOOLEAN /\ (w_disposed <=> handles = {})

\* In the beginning only the result has a handle.
LEMMA WindowHeldInit ==
  Window!Init => WindowHeld
BY DEF Window!Init, WindowHeld

\* Every step keeps what is known of the handles: who has one and has not left is counted.
LEMMA WindowHeldStep ==
  ASSUME WindowHeld, [Window!Next]_(Window!vars) PROVE WindowHeld'
<1>1. CASE UNCHANGED <<joined, w_closed, handles, w_disposed>>
  BY <1>1 DEF WindowHeld
<1>2. ASSUME NEW t \in Window!Parties, Window!EndCall(t) PROVE WindowHeld'
  <2> DEFINE c == Head(todo[t])
  <2>1. \/ UNCHANGED <<joined, w_closed, handles, w_disposed>>
        \/ UNCHANGED joined /\ w_closed' = w_closed \union {c.to} /\ Window!Release(c.to)
    BY <1>2 DEF Window!EndCall, Window!sharing
  <2> HIDE DEF c
  <2> QED
    BY <1>1, <2>1 DEF WindowHeld, Window!Release
<1>3. ASSUME NEW w \in Window!Wins, Window!SubscribeWindow(w) PROVE WindowHeld'
  BY <1>3 DEF WindowHeld, Window!SubscribeWindow, Window!Wins, Window!Outer
<1>4. ASSUME NEW o \in Window!Targets, Window!Leave(o) PROVE WindowHeld'
  BY <1>4 DEF WindowHeld, Window!Leave, Window!Release
<1>5. ASSUME NEW t \in Window!Parties, Window!BeginCall(t) \/ Window!Return(t) \/ Window!OpeningAdds \/ Window!Erase(t)
      PROVE  UNCHANGED <<joined, w_closed, handles, w_disposed>>
  BY <1>5 DEF Window!BeginCall, Window!Return, Window!OpeningAdds, Window!Erase, Window!Rest,
              Window!observers, Window!sharing
<1>6. ASSUME \/ Window!SourceNext \/ Window!SourceEnds \/ Window!OpeningNext
             \/ \E t \in Window!Parties : Window!OpeningOrClosingError(t)
             \/ \E w \in Window!Wins : Window!Closing(w)
      PROVE  UNCHANGED <<joined, w_closed, handles, w_disposed>>
  BY <1>6 DEF Window!SourceNext, Window!SourceEnds, Window!OpeningNext, Window!OpeningOrClosingError,
              Window!Closing, Window!Rest, Window!observers, Window!sharing
<1>7. CASE UNCHANGED Window!vars
  BY <1>1, <1>7 DEF Window!vars, Window!observers, Window!sharing
<1> QED
  BY <1>1, <1>2, <1>3, <1>4, <1>5, <1>6, <1>7 DEF Window!Next, Window!Handle

\* The source is held while somebody listens, and only then.
LEMMA WindowHeldSafe ==
  WindowHeld => Window!SourceKept
BY DEF WindowHeld, Window!SourceKept
-----------------------------------------------------------------------------
(* The operators that hand out windows, for any number of windows, any size  *)
(* and any number of values.                                                *)

WindowCalls ==
  [to : Window!Targets, how : {"next", "completed", "error"}, w : Window!Targets]
WindowLabels == {"none", "idle", "calling", "ending", "opening", "closing", "done"}
WindowStates == {"none", "open", "completed", "error", "disposed"}
Locking == {"calling", "ending", "opening"}
Toggling == w_kind = "window_toggle"

\* What thread t has yet to tell observer o at the end; and is telling it.
ToEnd(t, o) == \E c \in Within(todo[t]) : c.to = o /\ c.how # "next"
Ending(t, o) ==
  todo[t] # <<>> /\ Head(todo[t]).to = o /\ Head(todo[t]).how # "next" /\ t \in w_inside[o]

WindowTypes ==
  /\ w_kind \in Window!Kinds /\ w_mutex \in Window!Parties \union {Window!NoOne}
  /\ value \in Nat /\ value <= WindowValues[w_kind] /\ items \in 1..WindowSize
  /\ listed \in Seq(Window!Wins) /\ subject \in [Window!Wins -> WindowStates]
  /\ todo \in [Window!Parties -> Seq(WindowCalls)] /\ w_pc \in [Window!Parties -> WindowLabels]
  /\ w_inside \in [Window!Targets -> SUBSET Window!Parties]
  /\ offered \subseteq Window!Opened /\ joined \subseteq offered

\* Windows are opened in turn, and those listed are open or have been.
WindowsInTurn ==
  /\ Within(listed) \subseteq Window!Opened
  /\ w_kind # "group_by" => \E n \in 0..NumWindows : Window!Opened = 1..n
  /\ w_kind = "group_by" => Within(listed) = Window!Opened
  /\ w_kind = "window" => (items = WindowSize <=> listed = <<>>) /\ Len(listed) <= 1

\* Whose turn it is.
WindowTurns ==
  /\ \A t \in Window!Parties :
       /\ w_pc[t] \in {"none", "idle", "done"} => todo[t] = <<>>
       /\ w_pc[t] = "calling" => t = Window!Source
       /\ w_pc[t] = "opening" => t = Window!Openings
       /\ w_pc[t] = "closing" => t \in Window!Wins
       /\ w_pc[t] = "none" => t \in Window!Wins
       /\ Toggling => (w_pc[t] \in Locking <=> w_mutex = t)
       /\ ~Toggling /\ t # Window!Source => w_pc[t] \in {"none", "idle"}
  /\ ~Toggling => \A w \in Window!Wins : w_pc[w] = "none"
  /\ \A w \in Window!Wins : w \notin Window!Opened => w_pc[w] = "none"
  /\ w_pc[Window!Openings] = "opening" =>
       \E n \in Window!Wins : Window!Opened = 1..n /\ w_pc[n] = "none"

\* The calls to make: of opened windows, and offers by those who open.
WindowsCalled ==
  \A t \in Window!Parties : \A c \in Within(todo[t]) :
    /\ c.to \in Window!Opened \union {Window!Outer}
    /\ c.w # Window!Outer =>
         /\ c.w \in Window!Opened /\ c.to = Window!Outer /\ c.how = "next"
         /\ w_pc[t] \in {"calling", "opening"}

\* Who is inside an observer is making the first of its calls.
WindowsInside ==
  \A t \in Window!Parties, o \in Window!Targets :
    t \in w_inside[o] => todo[t] # <<>> /\ Head(todo[t]).to = o

\* An open window is listed, or its end is being called.
OpenListed ==
  \A w \in Window!Wins :
    subject[w] = "open" =>
      w \in Within(listed) \/ (w_pc[Window!Source] = "calling" /\ ToEnd(Window!Source, w))

\* Who ends everything has yet to end what is open, and then nothing is.
AllEnd ==
  \A t \in Window!Parties : w_pc[t] = "ending" =>
    /\ Window!Outer \in w_closed \/ ToEnd(t, Window!Outer)
    /\ \A w \in offered : subject[w] = "open" => ToEnd(t, w)
AllEnded ==
  /\ w_pc[Window!Source] = "done" =>
       Window!Outer \in w_closed /\ \A w \in offered : subject[w] # "open"
  /\ \A w \in Window!Wins :
       /\ w_pc[w] = "closing" => subject[w] # "open" \/ ToEnd(w, w)
       /\ w_pc[w] = "done" => subject[w] # "open" \/ (w \notin offered /\ Window!Outer \in w_closed)

\* Who is told of the end is told by somebody until it is closed.
EndTold ==
  /\ \A t \in Window!Parties, w \in Window!Wins : Ending(t, w) => subject[w] \notin {"none", "open"}
  /\ \A w \in joined : subject[w] # "open" => w \in w_closed \/ \E t \in Window!Parties : Ending(t, w)

WindowInv ==
  /\ WindowHeld /\ WindowTypes /\ WindowsInTurn /\ WindowTurns /\ WindowsCalled /\ WindowsInside
  /\ OpenListed /\ AllEnd /\ AllEnded /\ EndTold

\* Who is who.
LEMMA WindowNames ==
  /\ Window!Targets = Window!Wins \union {Window!Outer} /\ Window!Outer \notin Window!Wins
  /\ Window!Parties = Window!Wins \union {Window!Source, Window!Openings}
  /\ Window!Source \notin Window!Wins /\ Window!Openings \notin Window!Wins
  /\ Window!Source # Window!Openings /\ Window!NoOne \notin Window!Parties
BY WindowsAssumption DEF Window!Targets, Window!Wins, Window!Outer, Window!Parties, Window!Source, Window!Openings, Window!NoOne

\* A call that an observer takes, or that nobody takes.
LEMMA WindowBegins ==
  ASSUME WindowInv, NEW t \in Window!Parties, Window!BeginCall(t), UNCHANGED w_kind
  PROVE  WindowInv'
<1> DEFINE c == Head(todo[t])
           o == c.to
<1>0. WindowHeld /\ WindowTypes /\ WindowsInTurn /\ WindowTurns /\ WindowsCalled /\ WindowsInside
      /\ OpenListed /\ AllEnd /\ AllEnded /\ EndTold
  BY DEF WindowInv
<1>1. /\ todo[t] # <<>> /\ todo[t] \in Seq(WindowCalls)
      /\ UNCHANGED <<w_kind, w_mutex, value, listed, items, w_closed, joined, handles, w_disposed, w_pc>>
  BY <1>0 DEF Window!BeginCall, Window!sharing, WindowTypes
<1>2. /\ c \in WindowCalls /\ Tail(todo[t]) \in Seq(WindowCalls)
      /\ Within(todo[t]) = Within(Tail(todo[t])) \union {c}
  BY <1>1, WithinTail
<1>3. /\ o \in Window!Opened \union {Window!Outer}
      /\ c.w # Window!Outer => /\ c.w \in Window!Opened /\ o = Window!Outer /\ c.how = "next"
                               /\ w_pc[t] \in {"calling", "opening"}
  BY <1>0, <1>2 DEF WindowsCalled
<1>4. /\ subject' = IF o # Window!Outer /\ Window!Open(o) /\ c.how # "next"
                    THEN [subject EXCEPT ![o] = c.how] ELSE subject
      /\ IF Window!Taken(o)
         THEN /\ w_inside' = [w_inside EXCEPT ![o] = @ \union {t}] /\ UNCHANGED todo
              /\ offered' = offered \union ({c.w} \ {Window!Outer})
         ELSE todo' = [todo EXCEPT ![t] = Tail(@)] /\ UNCHANGED <<w_inside, offered>>
      /\ ~Window!InCall(t)
  BY DEF Window!BeginCall
<1>5. c.how \in {"next", "completed", "error"} /\ t \notin w_inside[o] /\ o \in Window!Targets /\ c.w \in Window!Targets
  BY <1>1, <1>2, <1>4 DEF WindowCalls, Window!InCall
<1>6. Window!Taken(o) <=> o \notin w_closed /\ (o = Window!Outer \/ (subject[o] = "open" /\ o \in joined))
  BY DEF Window!Taken, Window!Open
<1>7. o # Window!Outer => (Window!Open(o) <=> subject[o] = "open")
  BY DEF Window!Open
<1> HIDE DEF c, o
<1>8. subject' \in [Window!Wins -> WindowStates]
      /\ \A w \in Window!Wins :
           subject'[w] = IF w = o /\ subject[w] = "open" /\ c.how # "next" THEN c.how ELSE subject[w]
  BY <1>0, <1>4, <1>5, <1>7, WindowNames DEF WindowTypes, WindowStates
<1>9. Window!Opened' = Window!Opened
  BY <1>0, <1>5, <1>8 DEF Window!Opened, WindowTypes, WindowStates
<1>10. /\ todo' \in [Window!Parties -> Seq(WindowCalls)]
       /\ \A s \in Window!Parties : /\ s # t => todo'[s] = todo[s]
                                    /\ Within(todo'[s]) \subseteq Within(todo[s])
                                    /\ todo[s] = <<>> => todo'[s] = <<>>
       /\ Window!Taken(o) => todo' = todo
       /\ Within(todo[t]) = Within(todo'[t]) \union {c}
  BY <1>0, <1>1, <1>2, <1>4 DEF WindowTypes
<1>11. /\ w_inside' \in [Window!Targets -> SUBSET Window!Parties]
       /\ \A p \in Window!Targets :
            w_inside'[p] = IF p = o /\ Window!Taken(o) THEN w_inside[p] \union {t} ELSE w_inside[p]
  <2>1. CASE Window!Taken(o)
    BY <1>0, <1>4, <1>5, <2>1 DEF WindowTypes
  <2>2. CASE ~Window!Taken(o)
    BY <1>0, <1>4, <2>2 DEF WindowTypes
  <2> QED
    BY <2>1, <2>2
<1>12. /\ offered \subseteq offered' /\ offered' \subseteq Window!Opened
       /\ \A w \in offered' \ offered : /\ w_pc[t] \in {"calling", "opening"} /\ Window!Outer \notin w_closed
                                        /\ w = c.w
  BY <1>0, <1>3, <1>4, <1>6 DEF WindowTypes
<1>13. ASSUME NEW s \in Window!Parties, NEW p, ToEnd(s, p)
       PROVE  ToEnd(s, p)' \/ (s = t /\ p = o /\ c.how # "next" /\ ~Window!Taken(o))
  BY <1>10, <1>13 DEF ToEnd, o
<1>21. WindowHeld'
  BY <1>0, <1>1 DEF WindowHeld
<1>22. WindowTypes'
  BY <1>0, <1>1, <1>8, <1>9, <1>10, <1>11, <1>12 DEF WindowTypes
<1>23. WindowsInTurn'
  BY <1>0, <1>1, <1>9 DEF WindowsInTurn
<1>24. WindowTurns'
  BY <1>0, <1>1, <1>9, <1>10 DEF WindowTurns, Toggling
<1>25. WindowsCalled'
  BY <1>0, <1>1, <1>9, <1>10 DEF WindowsCalled
<1>26. OpenListed'
  BY <1>0, <1>1, <1>5, <1>8, <1>13, WindowNames DEF OpenListed
<1>27. AllEnd'
  <2> SUFFICES ASSUME NEW s \in Window!Parties, w_pc[s] = "ending"
               PROVE  /\ Window!Outer \in w_closed \/ ToEnd(s, Window!Outer)'
                      /\ \A w \in offered' : subject'[w] = "open" => ToEnd(s, w)'
    BY <1>1 DEF AllEnd
  <2>1. Window!Outer \in w_closed \/ ToEnd(s, Window!Outer)'
    BY <1>0, <1>6, <1>13 DEF AllEnd
  <2>2. offered' = offered
    BY <1>0, <1>1, <1>12, WindowNames DEF WindowTurns, Locking
  <2>3. ASSUME NEW w \in offered, subject'[w] = "open" PROVE ToEnd(s, w)'
    <3>1. w \in Window!Wins /\ subject[w] = "open" /\ ~(w = o /\ c.how # "next")
      BY <1>0, <1>5, <1>8, <2>3 DEF WindowTypes, Window!Opened
    <3> QED
      BY <1>0, <1>13, <3>1 DEF AllEnd
  <2> QED
    BY <2>1, <2>2, <2>3
<1>28. AllEnded'
  <2>1. w_pc[Window!Source] = "done" => Window!Outer \in w_closed /\ \A w \in offered' : subject'[w] # "open"
    BY <1>0, <1>5, <1>8, <1>12 DEF AllEnded, WindowTypes, Window!Opened
  <2>2. ASSUME NEW w \in Window!Wins, w_pc[w] = "closing" PROVE subject'[w] # "open" \/ ToEnd(w, w)'
    BY <1>0, <1>5, <1>8, <1>13, <2>2, WindowNames DEF AllEnded
  <2>3. ASSUME NEW w \in Window!Wins, w_pc[w] = "done"
        PROVE  subject'[w] # "open" \/ (w \notin offered' /\ Window!Outer \in w_closed)
    BY <1>0, <1>5, <1>8, <1>12, <2>3 DEF AllEnded
  <2> QED
    BY <1>1, <2>1, <2>2, <2>3 DEF AllEnded
<1>29. EndTold'
  <2>1. ASSUME NEW s \in Window!Parties, NEW w \in Window!Wins, Ending(s, w)'
        PROVE  subject'[w] \notin {"none", "open"}
    <3>1. CASE Ending(s, w)
      BY <1>0, <1>5, <1>8, <3>1 DEF EndTold
    <3>2. CASE ~Ending(s, w)
      <4>0. w \in Window!Targets /\ s \in w_inside'[w] /\ Head(todo'[s]).how # "next" /\ Head(todo'[s]).to = w
            /\ todo'[s] # <<>>
        BY <2>1, WindowNames DEF Ending
      <4>1. s = t
        <5>1. s # t => todo'[s] = todo[s] /\ s \in w_inside[w]
          BY <1>10, <1>11, <4>0
        <5> QED
          BY <3>2, <4>0, <5>1 DEF Ending
      <4>2. w_inside[w] \cap {t} = {}
        BY <1>0, <1>4, <4>0 DEF WindowsInside, Window!InCall
      <4>3. Window!Taken(o) /\ w = o
        BY <1>11, <4>0, <4>1, <4>2
      <4>4. c.how # "next"
        BY <1>10, <4>0, <4>1, <4>3 DEF c
      <4> QED
        BY <1>5, <1>6, <1>8, <4>3, <4>4, WindowNames
    <3> QED
      BY <3>1, <3>2
  <2>2. ASSUME NEW w \in joined, subject'[w] # "open"
        PROVE  w \in w_closed \/ \E s \in Window!Parties : Ending(s, w)'
    <3>0. w \in Window!Wins
      BY <1>0, <2>2 DEF WindowTypes, Window!Opened
    <3>1. CASE subject[w] = "open"
      <4>1. w = o /\ c.how # "next"
        BY <1>8, <2>2, <3>0, <3>1
      <4>2. CASE w \notin w_closed
        <5>1. Window!Taken(o)
          BY <1>6, <2>2, <3>1, <4>1, <4>2
        <5>2. t \in w_inside'[w] /\ todo' = todo
          BY <1>5, <1>10, <1>11, <4>1, <5>1
        <5>3. Ending(t, w)'
          BY <1>1, <4>1, <5>2 DEF Ending, c, o
        <5> QED
          BY <5>3
      <4> QED
        BY <4>2
    <3>2. CASE subject[w] # "open"
      <4>1. w \in w_closed \/ \E s \in Window!Parties : Ending(s, w)
        BY <1>0, <2>2, <3>2 DEF EndTold
      <4>2. ASSUME NEW s \in Window!Parties, Ending(s, w) PROVE Ending(s, w)'
        <5>1. s # t
          BY <1>4, <4>2 DEF Ending, Window!InCall
        <5>2. todo'[s] = todo[s] /\ w_inside[w] \subseteq w_inside'[w]
          BY <1>10, <1>11, <3>0, <5>1, WindowNames
        <5> QED
          BY <4>2, <5>2 DEF Ending
      <4> QED
        BY <4>1, <4>2
    <3> QED
      BY <3>1, <3>2
  <2> QED
    BY <1>1, <2>1, <2>2 DEF EndTold
<1>30. WindowsInside'
  <2> SUFFICES ASSUME NEW s \in Window!Parties, NEW p \in Window!Targets, s \in w_inside'[p]
               PROVE  todo'[s] # <<>> /\ Head(todo'[s]).to = p
    BY DEF WindowsInside
  <2>1. CASE s \in w_inside[p]
    <3>1. todo[s] # <<>> /\ Head(todo[s]).to = p /\ s # t
      BY <1>0, <1>4, <2>1 DEF WindowsInside, Window!InCall
    <3> QED
      BY <1>10, <3>1
  <2>2. CASE s \notin w_inside[p]
    <3>1. s = t /\ p = o /\ todo' = todo
      BY <1>10, <1>11, <2>2
    <3> QED
      BY <1>1, <3>1 DEF o, c
  <2> QED
    BY <2>1, <2>2
<1> QED
  BY <1>21, <1>22, <1>23, <1>24, <1>25, <1>26, <1>27, <1>28, <1>29, <1>30 DEF WindowInv

\* A call returns.
LEMMA WindowReturnsFromCall ==
  ASSUME WindowInv, NEW t \in Window!Parties, Window!EndCall(t), UNCHANGED w_kind, WindowHeld'
  PROVE  WindowInv'
<1> DEFINE c == Head(todo[t])
           o == c.to
<1>0. WindowHeld /\ WindowTypes /\ WindowsInTurn /\ WindowTurns /\ WindowsCalled /\ WindowsInside
      /\ OpenListed /\ AllEnd /\ AllEnded /\ EndTold
  BY DEF WindowInv
<1>1. /\ todo[t] # <<>> /\ todo[t] \in Seq(WindowCalls) /\ t \in w_inside[o]
      /\ UNCHANGED <<w_kind, w_mutex, value, listed, items, offered, joined, w_pc>>
  BY <1>0 DEF Window!EndCall, Window!InCall, WindowTypes
<1>2. /\ c \in WindowCalls /\ Tail(todo[t]) \in Seq(WindowCalls)
      /\ Within(todo[t]) = Within(Tail(todo[t])) \union {c}
  BY <1>1, WithinTail
<1>3. /\ w_inside' = [w_inside EXCEPT ![o] = @ \ {t}]
      /\ todo' = [todo EXCEPT ![t] = Tail(@)]
      /\ IF c.how = "next" THEN UNCHANGED <<w_closed, handles, w_disposed, subject>>
         ELSE w_closed' = w_closed \union {o} /\ Window!DisposeSubjects
  BY DEF Window!EndCall, Window!sharing
<1>4. o \in Window!Targets
  BY <1>2 DEF WindowCalls
<1> HIDE DEF c, o
<1>5. /\ subject' \in [Window!Wins -> WindowStates]
      /\ \A w \in Window!Wins : \/ subject'[w] = subject[w]
                                \/ subject[w] = "open" /\ subject'[w] = "disposed" /\ w_disposed'
  BY <1>0, <1>3 DEF WindowTypes, WindowStates, Window!DisposeSubjects
<1>6. Window!Opened' = Window!Opened
  BY <1>5 DEF Window!Opened
<1>7. /\ w_closed \subseteq w_closed' /\ (c.how # "next" => o \in w_closed')
      /\ w_disposed' => joined \subseteq w_closed'
  BY <1>1, <1>3 DEF WindowHeld
<1>8. /\ todo' \in [Window!Parties -> Seq(WindowCalls)]
      /\ \A s \in Window!Parties : /\ s # t => todo'[s] = todo[s]
                                   /\ Within(todo'[s]) \subseteq Within(todo[s])
                                   /\ todo[s] = <<>> => todo'[s] = <<>>
      /\ Within(todo[t]) = Within(todo'[t]) \union {c}
  BY <1>0, <1>1, <1>2, <1>3 DEF WindowTypes
<1>9. /\ w_inside' \in [Window!Targets -> SUBSET Window!Parties]
      /\ \A p \in Window!Targets : w_inside'[p] \subseteq w_inside[p] /\ w_inside[p] \ {t} \subseteq w_inside'[p]
      /\ t \notin w_inside'[o]
  BY <1>0, <1>3, <1>4 DEF WindowTypes
<1>10. \A p \in Window!Targets : t \notin w_inside'[p]
  BY <1>0, <1>9 DEF WindowsInside, o, c
<1>11. ASSUME NEW s \in Window!Parties, NEW p, ToEnd(s, p)
       PROVE  ToEnd(s, p)' \/ (s = t /\ p = o /\ c.how # "next")
  BY <1>8, <1>11 DEF ToEnd, o
<1>12. o \in Window!Wins /\ c.how # "next" => subject[o] # "open"
  <2>1. c.how # "next" => Ending(t, o)
    BY <1>1 DEF Ending, c, o
  <2> QED
    BY <1>0, <2>1 DEF EndTold
<1>22. WindowTypes'
  BY <1>0, <1>1, <1>5, <1>6, <1>8, <1>9 DEF WindowTypes
<1>23. WindowsInTurn'
  BY <1>0, <1>1, <1>6 DEF WindowsInTurn
<1>24. WindowTurns'
  BY <1>0, <1>1, <1>6, <1>8 DEF WindowTurns, Toggling
<1>25. WindowsCalled'
  BY <1>0, <1>1, <1>6, <1>8 DEF WindowsCalled
<1>26. OpenListed'
  BY <1>0, <1>1, <1>5, <1>11, <1>12, WindowNames DEF OpenListed
<1>27. AllEnd'
  <2> SUFFICES ASSUME NEW s \in Window!Parties, w_pc[s] = "ending"
               PROVE  /\ Window!Outer \in w_closed' \/ ToEnd(s, Window!Outer)'
                      /\ \A w \in offered : subject'[w] = "open" => ToEnd(s, w)'
    BY <1>1 DEF AllEnd
  <2>1. Window!Outer \in w_closed' \/ ToEnd(s, Window!Outer)'
    BY <1>0, <1>7, <1>11 DEF AllEnd
  <2>2. ASSUME NEW w \in offered, subject'[w] = "open" PROVE ToEnd(s, w)'
    <3>1. w \in Window!Wins /\ subject[w] = "open"
      BY <1>0, <1>5, <2>2 DEF WindowTypes, Window!Opened
    <3> QED
      BY <1>0, <1>11, <1>12, <3>1 DEF AllEnd
  <2> QED
    BY <2>1, <2>2
<1>28. AllEnded'
  <2>1. w_pc[Window!Source] = "done" => Window!Outer \in w_closed' /\ \A w \in offered : subject'[w] # "open"
    BY <1>0, <1>5, <1>7 DEF AllEnded, WindowTypes, Window!Opened
  <2>2. ASSUME NEW w \in Window!Wins, w_pc[w] = "closing" PROVE subject'[w] # "open" \/ ToEnd(w, w)'
    BY <1>0, <1>5, <1>11, <1>12, <2>2, WindowNames DEF AllEnded
  <2>3. ASSUME NEW w \in Window!Wins, w_pc[w] = "done"
        PROVE  subject'[w] # "open" \/ (w \notin offered /\ Window!Outer \in w_closed')
    BY <1>0, <1>5, <1>7, <2>3 DEF AllEnded
  <2> QED
    BY <1>1, <2>1, <2>2, <2>3 DEF AllEnded
<1>29. EndTold'
  <2>1. ASSUME NEW s \in Window!Parties, NEW w \in Window!Wins, Ending(s, w)'
        PROVE  Ending(s, w)
    <3>1. s # t /\ s \in w_inside[w]
      BY <1>9, <1>10, <2>1, WindowNames DEF Ending
    <3> QED
      BY <1>8, <2>1, <3>1 DEF Ending
  <2>2. \A s \in Window!Parties, w \in Window!Wins : Ending(s, w)' => subject'[w] \notin {"none", "open"}
    BY <1>0, <1>5, <2>1 DEF EndTold
  <2>3. ASSUME NEW w \in joined, subject'[w] # "open"
        PROVE  w \in w_closed' \/ \E s \in Window!Parties : Ending(s, w)'
    <3>0. w \in Window!Wins
      BY <1>0, <2>3 DEF WindowTypes, Window!Opened
    <3>1. CASE subject[w] = "open"
      BY <1>5, <1>7, <2>3, <3>0, <3>1
    <3>2. CASE subject[w] # "open"
      <4>1. w \in w_closed \/ \E s \in Window!Parties : Ending(s, w)
        BY <1>0, <2>3, <3>2 DEF EndTold
      <4>2. ASSUME NEW s \in Window!Parties, Ending(s, w) PROVE w \in w_closed' \/ Ending(s, w)'
        <5>1. CASE s = t
          BY <1>7, <4>2, <5>1 DEF Ending, c, o
        <5>2. CASE s # t
          <6>1. todo'[s] = todo[s] /\ s \in w_inside'[w]
            BY <1>8, <1>9, <3>0, <4>2, <5>2, WindowNames DEF Ending
          <6> QED
            BY <4>2, <6>1 DEF Ending
        <5> QED
          BY <5>1, <5>2
      <4> QED
        BY <1>7, <4>1, <4>2
    <3> QED
      BY <3>1, <3>2
  <2> QED
    BY <1>1, <2>2, <2>3 DEF EndTold
<1>30. WindowsInside'
  <2> SUFFICES ASSUME NEW s \in Window!Parties, NEW p \in Window!Targets, s \in w_inside'[p]
               PROVE  todo'[s] # <<>> /\ Head(todo'[s]).to = p
    BY DEF WindowsInside
  <2>1. s # t /\ s \in w_inside[p]
    BY <1>9, <1>10
  <2> QED
    BY <1>0, <1>8, <2>1 DEF WindowsInside
<1> QED
  BY <1>22, <1>23, <1>24, <1>25, <1>26, <1>27, <1>28, <1>29, <1>30 DEF WindowInv

\* Who leaves closes an observer, the last of them every window.
LEMMA WindowLeft ==
  ASSUME WindowInv, NEW o, Window!Leave(o), UNCHANGED w_kind, WindowHeld'
  PROVE  WindowInv'
<1>0. WindowHeld /\ WindowTypes /\ WindowsInTurn /\ WindowTurns /\ WindowsCalled /\ WindowsInside
      /\ OpenListed /\ AllEnd /\ AllEnded /\ EndTold
  BY DEF WindowInv
<1>1. UNCHANGED <<w_kind, w_mutex, value, listed, items, offered, joined, todo, w_pc, w_inside>>
  BY DEF Window!Leave
<1>2. /\ subject' \in [Window!Wins -> WindowStates]
      /\ \A w \in Window!Wins : \/ subject'[w] = subject[w]
                                \/ subject[w] = "open" /\ subject'[w] = "disposed" /\ w_disposed'
  BY <1>0 DEF WindowTypes, WindowStates, Window!DisposeSubjects, Window!Leave
<1>3. Window!Opened' = Window!Opened
  BY <1>2 DEF Window!Opened
<1>4. w_closed \subseteq w_closed' /\ (w_disposed' => joined \subseteq w_closed')
  BY <1>1 DEF Window!Leave, WindowHeld
<1>5. \A s, p : (ToEnd(s, p)' <=> ToEnd(s, p)) /\ (Ending(s, p)' <=> Ending(s, p))
  BY <1>1 DEF ToEnd, Ending
<1>6. joined \subseteq offered /\ offered \subseteq Window!Wins
  BY <1>0 DEF WindowTypes, Window!Opened
<1>22. WindowTypes'
  BY <1>0, <1>1, <1>2, <1>3 DEF WindowTypes
<1>23. WindowsInTurn'
  BY <1>0, <1>1, <1>3 DEF WindowsInTurn
<1>24. WindowTurns'
  BY <1>0, <1>1, <1>3 DEF WindowTurns, Toggling
<1>25. WindowsCalled' /\ WindowsInside'
  BY <1>0, <1>1, <1>3 DEF WindowsCalled, WindowsInside
<1>26. OpenListed'
  BY <1>0, <1>1, <1>2, <1>5 DEF OpenListed
<1>27. AllEnd'
  BY <1>0, <1>1, <1>2, <1>4, <1>5, <1>6 DEF AllEnd
<1>28. AllEnded'
  BY <1>0, <1>1, <1>2, <1>4, <1>5, <1>6 DEF AllEnded
<1>29. EndTold'
  BY <1>0, <1>1, <1>2, <1>4, <1>5, <1>6 DEF EndTold
<1> QED
  BY <1>22, <1>23, <1>24, <1>25, <1>26, <1>27, <1>28, <1>29 DEF WindowInv

\* Somebody subscribes to a window that is open, or finds it over.
LEMMA WindowJoined ==
  ASSUME WindowInv, NEW v \in Window!Wins, Window!SubscribeWindow(v), UNCHANGED w_kind, WindowHeld'
  PROVE  WindowInv'
<1>0. WindowHeld /\ WindowTypes /\ WindowsInTurn /\ WindowTurns /\ WindowsCalled /\ WindowsInside
      /\ OpenListed /\ AllEnd /\ AllEnded /\ EndTold
  BY DEF WindowInv
<1>1. UNCHANGED <<w_kind, w_mutex, value, listed, items, subject, offered, todo, w_pc, w_inside>>
  BY DEF Window!SubscribeWindow, Window!windows
<1>2. /\ w_closed \subseteq w_closed' /\ v \in offered
      /\ joined' = joined \/ (joined' = joined \union {v} /\ subject[v] = "open")
  BY DEF Window!SubscribeWindow
<1>3. Window!Opened' = Window!Opened
  BY <1>1 DEF Window!Opened
<1>5. \A s, p : (ToEnd(s, p)' <=> ToEnd(s, p)) /\ (Ending(s, p)' <=> Ending(s, p))
  BY <1>1 DEF ToEnd, Ending
<1>22. WindowTypes'
  BY <1>0, <1>1, <1>2, <1>3 DEF WindowTypes
<1>23. WindowsInTurn' /\ OpenListed'
  BY <1>0, <1>1, <1>3, <1>5 DEF WindowsInTurn, OpenListed
<1>24. WindowTurns'
  BY <1>0, <1>1, <1>3 DEF WindowTurns, Toggling
<1>25. WindowsCalled' /\ WindowsInside'
  BY <1>0, <1>1, <1>3 DEF WindowsCalled, WindowsInside
<1>27. AllEnd'
  BY <1>0, <1>1, <1>2, <1>5 DEF AllEnd
<1>28. AllEnded'
  BY <1>0, <1>1, <1>2, <1>5 DEF AllEnded
<1>29. EndTold'
  BY <1>0, <1>1, <1>2, <1>5 DEF EndTold
<1> QED
  BY <1>22, <1>23, <1>24, <1>25, <1>27, <1>28, <1>29 DEF WindowInv


\* A thread has made its calls.
LEMMA WindowReturns ==
  ASSUME WindowInv, NEW t \in Window!Parties, Window!Return(t), UNCHANGED w_kind, WindowHeld'
  PROVE  WindowInv'
<1>0. WindowHeld /\ WindowTypes /\ WindowsInTurn /\ WindowTurns /\ WindowsCalled /\ WindowsInside
      /\ OpenListed /\ AllEnd /\ AllEnded /\ EndTold
  BY DEF WindowInv
<1>1. /\ UNCHANGED <<w_kind, value, listed, subject, items, offered, w_closed, w_inside, joined>>
      /\ w_pc[t] \in {"calling", "ending"} /\ todo[t] = <<>>
      /\ w_pc' = [w_pc EXCEPT ![t] = IF w_pc[t] = "calling" THEN "idle" ELSE "done"]
      /\ todo' = [todo EXCEPT ![t] = <<>>]
      /\ w_mutex' = IF w_mutex = t THEN Window!NoOne ELSE w_mutex
  BY DEF Window!Return, Window!Go, Window!Unlock, Window!Rest, Window!windows, Window!observers
<1>2. todo' = todo
  BY <1>0, <1>1 DEF WindowTypes
<1>3. Window!Opened' = Window!Opened
  BY <1>1 DEF Window!Opened
<1>4. /\ w_pc' \in [Window!Parties -> WindowLabels]
      /\ w_pc'[t] = IF w_pc[t] = "calling" THEN "idle" ELSE "done"
      /\ \A s \in Window!Parties : s # t => w_pc'[s] = w_pc[s]
  BY <1>0, <1>1 DEF WindowTypes, WindowLabels
<1>5. \A s, p : (ToEnd(s, p)' <=> ToEnd(s, p)) /\ (Ending(s, p)' <=> Ending(s, p))
  BY <1>1, <1>2 DEF ToEnd, Ending
<1>6. \A p : ~ToEnd(t, p)
  BY <1>1, WithinFew DEF ToEnd
<1>22. WindowTypes'
  BY <1>0, <1>1, <1>2, <1>3, <1>4 DEF WindowTypes
<1>23. WindowsInTurn'
  BY <1>0, <1>1, <1>3 DEF WindowsInTurn
<1>24. WindowTurns'
  <2>1. ASSUME NEW s \in Window!Parties
        PROVE  /\ w_pc'[s] \in {"none", "idle", "done"} => todo'[s] = <<>>
               /\ w_pc'[s] = "calling" => s = Window!Source
               /\ w_pc'[s] = "opening" => s = Window!Openings
               /\ w_pc'[s] = "closing" => s \in Window!Wins
               /\ w_pc'[s] = "none" => s \in Window!Wins
               /\ ~Toggling /\ s # Window!Source => w_pc'[s] \in {"none", "idle"}
    BY <1>0, <1>1, <1>2, <1>4 DEF WindowTurns
  <2>2. ASSUME NEW s \in Window!Parties, Toggling PROVE w_pc'[s] \in Locking <=> w_mutex' = s
    BY <1>0, <1>1, <1>4, <2>2, WindowNames DEF WindowTurns, Locking
  <2>3. /\ ~Toggling => \A w \in Window!Wins : w_pc'[w] = "none"
        /\ \A w \in Window!Wins : w \notin Window!Opened => w_pc'[w] = "none"
    BY <1>0, <1>1, <1>4, WindowNames DEF WindowTurns
  <2>4. w_pc'[Window!Openings] = "opening" =>
          \E n \in Window!Wins : Window!Opened = 1..n /\ w_pc'[n] = "none"
    BY <1>0, <1>1, <1>4, WindowNames DEF WindowTurns
  <2> QED
    BY <1>1, <1>3, <2>1, <2>2, <2>3, <2>4 DEF WindowTurns, Toggling
<1>25. WindowsCalled' /\ WindowsInside'
  <2>1. WindowsInside'
    BY <1>0, <1>1, <1>2 DEF WindowsInside
  <2>2. ASSUME NEW s \in Window!Parties, NEW d \in Within(todo[s]) PROVE s # t /\ w_pc'[s] = w_pc[s]
    BY <1>1, <1>4, <2>2, WithinFew
  <2> QED
    BY <1>0, <1>2, <1>3, <2>1, <2>2 DEF WindowsCalled
<1>26. OpenListed'
  BY <1>0, <1>1, <1>4, <1>5, <1>6, WindowNames DEF OpenListed
<1>27. AllEnd'
  BY <1>0, <1>1, <1>4, <1>5 DEF AllEnd
<1>28. AllEnded'
  <2>1. w_pc[t] = "ending" => Window!Outer \in w_closed /\ \A w \in offered : subject[w] # "open"
    BY <1>0, <1>6 DEF AllEnd
  <2> QED
    BY <1>0, <1>1, <1>4, <1>5, <2>1, WindowNames DEF AllEnded
<1>29. EndTold'
  BY <1>0, <1>1, <1>5 DEF EndTold
<1> QED
  BY <1>22, <1>23, <1>24, <1>25, <1>26, <1>27, <1>28, <1>29 DEF WindowInv

\* The first n of the windows are n.
LEMMA FirstWindows ==
  ASSUME NEW n \in Nat, Window!Opened = 1..n
  PROVE  Window!Fresh = n + 1
<1>1. Cardinality(1..n) = n
  <2>1. 1 \in Int /\ n \in Int
    OBVIOUS
  <2>2. Cardinality(1..n) = IF 1 > n THEN 0 ELSE n - 1 + 1
    BY <2>1, FS_Interval
  <2> QED
    BY <2>2
<1>2. Window!Cardinality(Window!Opened) = Cardinality(Window!Opened)
  BY DEF Window!Cardinality, Cardinality
<1> QED
  BY <1>1, <1>2 DEF Window!Fresh

\* A window that has been offered is added to what is shared.
LEMMA WindowAdded ==
  ASSUME WindowInv, Window!OpeningAdds, UNCHANGED w_kind, WindowHeld'
  PROVE  WindowInv'
<1> DEFINE m == Window!Fresh - 1
<1>0. WindowHeld /\ WindowTypes /\ WindowsInTurn /\ WindowTurns /\ WindowsCalled /\ WindowsInside
      /\ OpenListed /\ AllEnd /\ AllEnded /\ EndTold
  BY DEF WindowInv
<1>1. /\ UNCHANGED <<w_kind, value, listed, items, todo, offered, w_closed, w_inside, joined>>
      /\ w_pc[Window!Openings] = "opening" /\ todo[Window!Openings] = <<>>
      /\ w_pc' = [w_pc EXCEPT ![Window!Openings] = "idle", ![m] = "idle"]
      /\ subject' = [subject EXCEPT ![m] = IF w_disposed /\ @ = "open" THEN "disposed" ELSE @]
      /\ w_mutex' = IF w_mutex = Window!Openings THEN Window!NoOne ELSE w_mutex
  BY DEF Window!OpeningAdds, Window!Unlock, Window!Rest, Window!observers
<1>2. m \in Window!Wins /\ Window!Opened = 1..m /\ w_pc[m] = "none"
  <2>1. PICK n \in Window!Wins : Window!Opened = 1..n /\ w_pc[n] = "none"
    BY <1>0, <1>1 DEF WindowTurns
  <2>2. n \in Nat
    BY DEF Window!Wins
  <2>3. Window!Fresh = n + 1
    BY <2>1, <2>2, FirstWindows
  <2>4. m = n
    BY <2>2, <2>3
  <2> QED
    BY <2>1, <2>4
<1> HIDE DEF m
<1>3. Toggling /\ m \in Window!Parties /\ m \in Window!Opened
  <2>1. m \in 1..m
    BY <1>2 DEF Window!Wins
  <2> QED
    BY <1>0, <1>1, <1>2, <2>1, WindowNames DEF WindowTurns
<1>4. /\ subject' \in [Window!Wins -> WindowStates]
      /\ \A w \in Window!Wins : \/ subject'[w] = subject[w]
                                \/ subject[w] = "open" /\ subject'[w] = "disposed" /\ w_disposed
  BY <1>0, <1>1, <1>2 DEF WindowTypes, WindowStates
<1>5. Window!Opened' = Window!Opened
  BY <1>4 DEF Window!Opened
<1>6. /\ w_pc' \in [Window!Parties -> WindowLabels]
      /\ \A s \in Window!Parties :
           w_pc'[s] = IF s = Window!Openings \/ s = m THEN "idle" ELSE w_pc[s]
  BY <1>0, <1>1, <1>2, WindowNames DEF WindowTypes, WindowLabels
<1>7. \A s, p : (ToEnd(s, p)' <=> ToEnd(s, p)) /\ (Ending(s, p)' <=> Ending(s, p))
  BY <1>1 DEF ToEnd, Ending
<1>8. w_disposed => joined \subseteq w_closed
  BY <1>0 DEF WindowHeld
<1>9. joined \subseteq Window!Wins /\ offered \subseteq Window!Wins
  BY <1>0 DEF WindowTypes, Window!Opened
<1>22. WindowTypes'
  BY <1>0, <1>1, <1>4, <1>5, <1>6 DEF WindowTypes
<1>23. WindowsInTurn'
  BY <1>0, <1>1, <1>5 DEF WindowsInTurn
<1>24. WindowTurns'
  <2>1. ASSUME NEW s \in Window!Parties
        PROVE  /\ w_pc'[s] \in {"none", "idle", "done"} => todo'[s] = <<>>
               /\ w_pc'[s] = "calling" => s = Window!Source
               /\ w_pc'[s] = "opening" => s = Window!Openings
               /\ w_pc'[s] = "closing" => s \in Window!Wins
               /\ w_pc'[s] = "none" => s \in Window!Wins
    BY <1>0, <1>1, <1>2, <1>6 DEF WindowTurns
  <2>2. ASSUME NEW s \in Window!Parties PROVE w_pc'[s] \in Locking <=> w_mutex' = s
    BY <1>0, <1>1, <1>2, <1>3, <1>6, WindowNames DEF WindowTurns, Locking
  <2>3. \A w \in Window!Wins : w \notin Window!Opened => w_pc'[w] = "none"
    BY <1>0, <1>3, <1>6, WindowNames DEF WindowTurns
  <2> QED
    BY <1>1, <1>3, <1>5, <1>6, <2>1, <2>2, <2>3, WindowNames DEF WindowTurns, Toggling
<1>25. WindowsCalled' /\ WindowsInside'
  <2>1. WindowsInside'
    BY <1>0, <1>1 DEF WindowsInside
  <2>2. Within(todo[m]) = {} /\ Within(todo[Window!Openings]) = {}
    BY <1>0, <1>1, <1>2, <1>3, WithinFew DEF WindowTurns
  <2> QED
    BY <1>0, <1>1, <1>5, <1>6, <2>1, <2>2 DEF WindowsCalled
<1>26. OpenListed'
  BY <1>0, <1>1, <1>2, <1>4, <1>6, <1>7, WindowNames DEF OpenListed
<1>27. AllEnd'
  BY <1>0, <1>1, <1>4, <1>6, <1>7, <1>9 DEF AllEnd
<1>28. AllEnded'
  BY <1>0, <1>1, <1>2, <1>4, <1>6, <1>7, <1>9, WindowNames DEF AllEnded
<1>29. EndTold'
  BY <1>0, <1>1, <1>4, <1>7, <1>8, <1>9 DEF EndTold
<1> QED
  BY <1>22, <1>23, <1>24, <1>25, <1>26, <1>27, <1>28, <1>29 DEF WindowInv

\* The closing observable of a window completes it.
LEMMA WindowCloses ==
  ASSUME WindowInv, NEW v \in Window!Wins, Window!Closing(v), UNCHANGED w_kind, WindowHeld'
  PROVE  WindowInv'
<1> DEFINE last == Window!End(v, "completed")
<1>0. WindowHeld /\ WindowTypes /\ WindowsInTurn /\ WindowTurns /\ WindowsCalled /\ WindowsInside
      /\ OpenListed /\ AllEnd /\ AllEnded /\ EndTold
  BY DEF WindowInv
<1>1. /\ UNCHANGED <<w_kind, w_mutex, value, listed, subject, items, offered, w_closed, w_inside, joined>>
      /\ w_pc[v] = "idle" /\ subject[v] = "open"
      /\ w_pc' = [w_pc EXCEPT ![v] = "closing"] /\ todo' = [todo EXCEPT ![v] = <<last>>]
  BY DEF Window!Closing, Window!Go, Window!Rest, Window!windows, Window!observers
<1>2. /\ last \in WindowCalls /\ last.to = v /\ last.how = "completed" /\ last.w = Window!Outer
      /\ <<last>> \in Seq(WindowCalls) /\ <<last>> # <<>> /\ Within(<<last>>) = {last}
  BY WithinFew, WindowNames DEF Window!End, Window!Call, WindowCalls
<1> HIDE DEF last
<1>3. Window!Opened' = Window!Opened /\ v \in Window!Opened
  BY <1>1 DEF Window!Opened
<1>4. /\ w_pc' \in [Window!Parties -> WindowLabels] /\ w_pc'[v] = "closing"
      /\ \A s \in Window!Parties : s # v => w_pc'[s] = w_pc[s]
  BY <1>0, <1>1, WindowNames DEF WindowTypes, WindowLabels
<1>5. /\ todo' \in [Window!Parties -> Seq(WindowCalls)] /\ todo'[v] = <<last>>
      /\ \A s \in Window!Parties : s # v => todo'[s] = todo[s]
      /\ todo[v] = <<>>
  BY <1>0, <1>1, <1>2, WindowNames DEF WindowTypes, WindowTurns
<1>6. Toggling
  BY <1>0, <1>1 DEF WindowTurns
<1>7. \A s \in Window!Parties, p \in Window!Targets : s \in w_inside[p] => s # v
  BY <1>0, <1>5 DEF WindowsInside
<1>8. \A s \in Window!Parties : \A p : s # v => (ToEnd(s, p)' <=> ToEnd(s, p))
  BY <1>5 DEF ToEnd
<1>9. \A s \in Window!Parties, p \in Window!Wins : Ending(s, p)' <=> Ending(s, p)
  BY <1>1, <1>5, <1>7, WindowNames DEF Ending
<1>10. ToEnd(v, v)' /\ \A p : ~ToEnd(v, p)
  BY <1>2, <1>5, WithinFew DEF ToEnd
<1>22. WindowTypes'
  BY <1>0, <1>1, <1>3, <1>4, <1>5 DEF WindowTypes
<1>23. WindowsInTurn'
  BY <1>0, <1>1, <1>3 DEF WindowsInTurn
<1>24. WindowTurns'
  <2>1. ASSUME NEW s \in Window!Parties
        PROVE  /\ w_pc'[s] \in {"none", "idle", "done"} => todo'[s] = <<>>
               /\ w_pc'[s] = "calling" => s = Window!Source
               /\ w_pc'[s] = "opening" => s = Window!Openings
               /\ w_pc'[s] = "closing" => s \in Window!Wins
               /\ w_pc'[s] = "none" => s \in Window!Wins
    BY <1>0, <1>4, <1>5 DEF WindowTurns
  <2>2. ASSUME NEW s \in Window!Parties PROVE w_pc'[s] \in Locking <=> w_mutex' = s
    BY <1>0, <1>1, <1>4, <1>6, WindowNames DEF WindowTurns, Locking
  <2> QED
    BY <1>0, <1>1, <1>3, <1>4, <1>6, <2>1, <2>2, WindowNames DEF WindowTurns, Toggling
<1>25. WindowsCalled' /\ WindowsInside'
  <2>1. WindowsInside'
    BY <1>0, <1>1, <1>5, <1>7 DEF WindowsInside
  <2>2. WindowsCalled'
    BY <1>0, <1>2, <1>3, <1>4, <1>5 DEF WindowsCalled
  <2> QED
    BY <2>1, <2>2
<1>26. OpenListed'
  BY <1>0, <1>1, <1>4, <1>8, WindowNames DEF OpenListed
<1>27. AllEnd'
  BY <1>0, <1>1, <1>4, <1>8 DEF AllEnd
<1>28. AllEnded'
  BY <1>0, <1>1, <1>4, <1>8, <1>10, WindowNames DEF AllEnded
<1>29. EndTold'
  BY <1>0, <1>1, <1>9, WindowNames DEF EndTold, WindowTypes, Window!Opened
<1> QED
  BY <1>22, <1>23, <1>24, <1>25, <1>26, <1>27, <1>28, <1>29 DEF WindowInv

\* A window that is over is taken off the list.
LEMMA WindowErased ==
  ASSUME WindowInv, NEW v \in Window!Wins, Window!Erase(v), UNCHANGED w_kind, WindowHeld'
  PROVE  WindowInv'
<1>0. WindowHeld /\ WindowTypes /\ WindowsInTurn /\ WindowTurns /\ WindowsCalled /\ WindowsInside
      /\ OpenListed /\ AllEnd /\ AllEnded /\ EndTold
  BY DEF WindowInv
<1>1. /\ UNCHANGED <<w_kind, w_mutex, value, subject, items, offered, w_closed, w_inside, joined>>
      /\ w_pc[v] = "closing" /\ todo[v] = <<>> /\ w_mutex = Window!NoOne
      /\ w_pc' = [w_pc EXCEPT ![v] = "done"] /\ todo' = [todo EXCEPT ![v] = <<>>]
      /\ listed' = Window!RemoveFirst(listed, v)
  BY DEF Window!Erase, Window!Go, Window!Rest, Window!observers
<1>2. todo' = todo
  BY <1>0, <1>1 DEF WindowTypes
<1>3. Window!Opened' = Window!Opened
  BY <1>1 DEF Window!Opened
<1>4. /\ w_pc' \in [Window!Parties -> WindowLabels] /\ w_pc'[v] = "done"
      /\ \A s \in Window!Parties : s # v => w_pc'[s] = w_pc[s]
  BY <1>0, <1>1, WindowNames DEF WindowTypes, WindowLabels
<1>5. \A s, p : (ToEnd(s, p)' <=> ToEnd(s, p)) /\ (Ending(s, p)' <=> Ending(s, p))
  BY <1>1, <1>2 DEF ToEnd, Ending
<1>6. /\ Toggling /\ subject[v] # "open"
  BY <1>0, <1>1, WithinFew DEF WindowTurns, AllEnded, ToEnd
<1>7. /\ listed' \in Seq(Window!Wins) /\ Within(listed') \subseteq Within(listed)
      /\ Within(listed) \subseteq Within(listed') \union {v}
  <2>1. listed \in Seq(Window!Wins)
    BY <1>0 DEF WindowTypes
  <2> QED
    BY <1>1, <2>1, WithinRemoved
<1>22. WindowTypes'
  BY <1>0, <1>1, <1>2, <1>3, <1>4, <1>7 DEF WindowTypes
<1>23. WindowsInTurn'
  BY <1>0, <1>1, <1>3, <1>6, <1>7 DEF WindowsInTurn, Toggling
<1>24. WindowTurns'
  <2>1. ASSUME NEW s \in Window!Parties
        PROVE  /\ w_pc'[s] \in {"none", "idle", "done"} => todo'[s] = <<>>
               /\ w_pc'[s] = "calling" => s = Window!Source
               /\ w_pc'[s] = "opening" => s = Window!Openings
               /\ w_pc'[s] = "closing" => s \in Window!Wins
               /\ w_pc'[s] = "none" => s \in Window!Wins
    BY <1>0, <1>1, <1>2, <1>4 DEF WindowTurns
  <2>2. ASSUME NEW s \in Window!Parties PROVE w_pc'[s] \in Locking <=> w_mutex' = s
    BY <1>0, <1>1, <1>4, <1>6, WindowNames DEF WindowTurns, Locking
  <2> QED
    BY <1>0, <1>1, <1>3, <1>4, <1>6, <2>1, <2>2, WindowNames DEF WindowTurns, Toggling
<1>25. WindowsCalled' /\ WindowsInside'
  <2>1. WindowsInside'
    BY <1>0, <1>1, <1>2 DEF WindowsInside
  <2>2. ASSUME NEW s \in Window!Parties, NEW d \in Within(todo[s]) PROVE s # v /\ w_pc'[s] = w_pc[s]
    BY <1>1, <1>4, <2>2, WithinFew
  <2> QED
    BY <1>0, <1>2, <1>3, <2>1, <2>2 DEF WindowsCalled
<1>26. OpenListed'
  BY <1>0, <1>1, <1>4, <1>5, <1>6, <1>7, WindowNames DEF OpenListed
<1>27. AllEnd'
  BY <1>0, <1>1, <1>4, <1>5 DEF AllEnd
<1>28. AllEnded'
  BY <1>0, <1>1, <1>4, <1>5, <1>6, WindowNames DEF AllEnded
<1>29. EndTold'
  BY <1>0, <1>1, <1>5 DEF EndTold
<1> QED
  BY <1>22, <1>23, <1>24, <1>25, <1>26, <1>27, <1>28, <1>29 DEF WindowInv

\* Nobody has the mutex, or else the source is idle: nobody is telling the end.
LEMMA WindowLocked ==
  ASSUME WindowTypes, WindowTurns, NEW t \in Window!Parties, w_pc[t] = "idle", Window!Lock(t),
         Toggling \/ t = Window!Source
  PROVE  /\ todo[t] = <<>>
         /\ \A s \in Window!Parties : w_pc[s] \notin Locking
         /\ Toggling => w_mutex' = t
<1>1. CASE Toggling
  BY <1>1, WindowNames DEF WindowTurns, Window!Lock, Toggling
<1>2. CASE ~Toggling
  <2>1. \A s \in Window!Parties : w_pc[s] \in {"none", "idle"}
    BY <1>2 DEF WindowTurns
  <2> QED
    BY <1>2, <2>1 DEF WindowTurns, Locking
<1> QED
  BY <1>1, <1>2

\* What EndAll tells, and whom.
LEMMA WithinEndAll ==
  ASSUME WindowTypes, NEW how \in {"completed", "error"}
  PROVE  /\ Window!EndAll(how) \in Seq(WindowCalls) /\ Window!EndAll(how) # <<>>
         /\ \A c \in Within(Window!EndAll(how)) :
              c.how = how /\ c.w = Window!Outer /\ c.to \in Within(listed) \union {Window!Outer}
         /\ \A o \in Within(listed) \union {Window!Outer} :
              \E c \in Within(Window!EndAll(how)) : c.to = o /\ c.how = how
<1> DEFINE p == [i \in 1..Len(listed) |-> Window!End(listed[i], how)]
           e == Window!End(Window!Outer, how)
           q == <<e>>
<1>0. Len(listed) \in Nat /\ DOMAIN listed = 1..Len(listed) /\ \A i \in 1..Len(listed) : listed[i] \in Window!Wins
  BY LenProperties, ElementOfSeq DEF WindowTypes
<1>1. \A o \in Window!Targets : /\ Window!End(o, how) \in WindowCalls /\ Window!End(o, how).to = o
                                /\ Window!End(o, how).how = how /\ Window!End(o, how).w = Window!Outer
  BY WindowNames DEF Window!End, Window!Call, WindowCalls
<1>2. p \in Seq(WindowCalls)
  <2>1. p \in [1..Len(listed) -> WindowCalls]
    BY <1>0, <1>1, WindowNames
  <2> QED
    BY <1>0, <2>1, IsASeq
<1>3. DOMAIN p = 1..Len(listed) /\ \A i \in 1..Len(listed) : p[i] = Window!End(listed[i], how)
  OBVIOUS
<1>4. q \in Seq(WindowCalls) /\ Within(q) = {e} /\ q # <<>> /\ e = Window!End(Window!Outer, how)
  BY <1>1, WithinFew, WindowNames
<1>5. Window!EndAll(how) = p \o q
  BY DEF Window!EndAll
<1>6. Within(p) = {Window!End(w, how) : w \in Within(listed)}
  BY <1>0, <1>3 DEF Within
<1>7. Within(listed) \subseteq Window!Wins
  BY <1>0 DEF Within
<1> HIDE DEF p, q, e
<1>8. Window!EndAll(how) \in Seq(WindowCalls) /\ Within(Window!EndAll(how)) = Within(p) \union {e}
  BY <1>2, <1>4, <1>5, WithinConcat
<1>9. Window!EndAll(how) # <<>>
  BY <1>8, WithinFew
<1> QED
  BY <1>1, <1>4, <1>6, <1>7, <1>8, <1>9, WindowNames

\* The end goes to all windows that are listed, and to the result.
LEMMA WindowEndsAll ==
  ASSUME WindowInv, NEW t \in Window!Parties, NEW how \in {"completed", "error"},
         w_pc[t] = "idle", Window!Lock(t), Toggling \/ t = Window!Source,
         Window!Go(t, "ending", Window!EndAll(how)),
         UNCHANGED <<w_kind, value, Window!windows, Window!observers, Window!sharing>>, WindowHeld'
  PROVE  WindowInv'
<1> DEFINE q == Window!EndAll(how)
<1>0. WindowHeld /\ WindowTypes /\ WindowsInTurn /\ WindowTurns /\ WindowsCalled /\ WindowsInside
      /\ OpenListed /\ AllEnd /\ AllEnded /\ EndTold
  BY DEF WindowInv
<1>1. /\ UNCHANGED <<w_kind, value, listed, subject, items, offered, w_closed, w_inside, joined>>
      /\ w_pc' = [w_pc EXCEPT ![t] = "ending"] /\ todo' = [todo EXCEPT ![t] = q]
      /\ w_mutex' \in Window!Parties \union {Window!NoOne}
  BY <1>0 DEF Window!Go, Window!windows, Window!observers, Window!Lock, WindowTypes
<1>2. /\ q \in Seq(WindowCalls) /\ q # <<>>
      /\ \A c \in Within(q) : c.how = how /\ c.w = Window!Outer /\ c.to \in Within(listed) \union {Window!Outer}
      /\ \A o \in Within(listed) \union {Window!Outer} : \E c \in Within(q) : c.to = o /\ c.how = how
  BY <1>0, WithinEndAll
<1> HIDE DEF q
<1>3. Window!Opened' = Window!Opened /\ Within(listed) \subseteq Window!Opened
  BY <1>0, <1>1 DEF Window!Opened, WindowsInTurn
<1>4. /\ w_pc' \in [Window!Parties -> WindowLabels] /\ w_pc'[t] = "ending"
      /\ \A s \in Window!Parties : s # t => w_pc'[s] = w_pc[s]
  BY <1>0, <1>1 DEF WindowTypes, WindowLabels
<1>5. /\ todo' \in [Window!Parties -> Seq(WindowCalls)] /\ todo'[t] = q
      /\ \A s \in Window!Parties : s # t => todo'[s] = todo[s]
  BY <1>0, <1>1, <1>2 DEF WindowTypes
<1>6. /\ todo[t] = <<>> /\ \A s \in Window!Parties : w_pc[s] \notin Locking
      /\ Toggling => w_mutex' = t
  BY <1>0, WindowLocked
<1>7. \A s \in Window!Parties, p \in Window!Targets : s \in w_inside[p] => s # t
  BY <1>0, <1>6 DEF WindowsInside
<1>8. \A s \in Window!Parties : \A p : s # t => (ToEnd(s, p)' <=> ToEnd(s, p))
  BY <1>5 DEF ToEnd
<1>9. \A s \in Window!Parties, p \in Window!Wins : Ending(s, p)' <=> Ending(s, p)
  BY <1>1, <1>5, <1>7, WindowNames DEF Ending
<1>10. /\ \A o \in Within(listed) \union {Window!Outer} : ToEnd(t, o)'
       /\ \A p : ~ToEnd(t, p)
  BY <1>2, <1>5, <1>6, WithinFew DEF ToEnd
<1>22. WindowTypes'
  BY <1>0, <1>1, <1>3, <1>4, <1>5 DEF WindowTypes
<1>23. WindowsInTurn'
  BY <1>0, <1>1, <1>3 DEF WindowsInTurn
<1>24. WindowTurns'
  <2>1. ASSUME NEW s \in Window!Parties
        PROVE  /\ w_pc'[s] \in {"none", "idle", "done"} => todo'[s] = <<>>
               /\ w_pc'[s] = "calling" => s = Window!Source
               /\ w_pc'[s] = "opening" => s = Window!Openings
               /\ w_pc'[s] = "closing" => s \in Window!Wins
               /\ w_pc'[s] = "none" => s \in Window!Wins
               /\ ~Toggling /\ s # Window!Source => w_pc'[s] \in {"none", "idle"}
    BY <1>0, <1>4, <1>5 DEF WindowTurns
  <2>2. ASSUME NEW s \in Window!Parties, Toggling PROVE w_pc'[s] \in Locking <=> w_mutex' = s
    BY <1>4, <1>6, <2>2 DEF Locking
  <2>3. /\ ~Toggling => \A w \in Window!Wins : w_pc'[w] = "none"
        /\ \A w \in Window!Wins : w \notin Window!Opened => w_pc'[w] = "none"
    BY <1>0, <1>4, WindowNames DEF WindowTurns
  <2>4. w_pc'[Window!Openings] # "opening"
    BY <1>4, <1>6, WindowNames DEF Locking
  <2> QED
    BY <1>1, <1>3, <2>1, <2>2, <2>3, <2>4 DEF WindowTurns, Toggling
<1>25. WindowsCalled' /\ WindowsInside'
  <2>1. WindowsInside'
    BY <1>0, <1>1, <1>5, <1>7 DEF WindowsInside
  <2>2. WindowsCalled'
    BY <1>0, <1>2, <1>3, <1>4, <1>5 DEF WindowsCalled
  <2> QED
    BY <2>1, <2>2
<1>26. OpenListed'
  BY <1>0, <1>1, <1>6, WindowNames DEF OpenListed, Locking
<1>27. AllEnd'
  <2>1. \A s \in Window!Parties : w_pc'[s] = "ending" => s = t
    BY <1>4, <1>6 DEF Locking
  <2>2. \A w \in Window!Wins : subject[w] = "open" => w \in Within(listed)
    BY <1>0, <1>6, WindowNames DEF OpenListed, Locking
  <2>3. offered \subseteq Window!Wins
    BY <1>0 DEF WindowTypes, Window!Opened
  <2> QED
    BY <1>1, <1>10, <2>1, <2>2, <2>3 DEF AllEnd
<1>28. AllEnded'
  BY <1>0, <1>1, <1>4, <1>8, WindowNames DEF AllEnded
<1>29. EndTold'
  BY <1>0, <1>1, <1>9, WindowNames DEF EndTold, WindowTypes, Window!Opened
<1> QED
  BY <1>22, <1>23, <1>24, <1>25, <1>26, <1>27, <1>28, <1>29 DEF WindowInv

\* The source or the openings begin to make calls, of a window that they may open.
LEMMA WindowCallsOut ==
  ASSUME WindowInv, NEW t \in {Window!Source, Window!Openings}, NEW label, NEW q \in Seq(WindowCalls),
         NEW w \in Window!Wins, NEW opens \in BOOLEAN,
         w_pc[t] = "idle", Window!Lock(t), Window!Go(t, label, q),
         \/ t = Window!Source /\ label = "calling"
         \/ t = Window!Openings /\ label = "opening" /\ Toggling /\ Window!Opened' = 1..w /\ w_pc[w] = "none",
         opens => w \notin Window!Opened,
         subject' = [subject EXCEPT ![w] = IF opens THEN "open" ELSE @],
         \A c \in Within(q) : /\ c.to \in Window!Opened' \union {Window!Outer}
                              /\ c.w # Window!Outer =>
                                   c.w \in Window!Opened' /\ c.to = Window!Outer /\ c.how = "next",
         \A v \in Window!Wins :
           v \in Within(listed) \/ (opens /\ v = w) =>
             \/ v \in Within(listed')
             \/ t = Window!Source /\ \E c \in Within(q) : c.to = v /\ c.how # "next",
         listed' \in Seq(Window!Wins), items' \in 1..WindowSize,
         value' \in Nat /\ value' <= WindowValues[w_kind],
         WindowsInTurn', UNCHANGED <<w_kind, Window!observers, Window!sharing>>, WindowHeld'
  PROVE  WindowInv'
<1>0. WindowHeld /\ WindowTypes /\ WindowsInTurn /\ WindowTurns /\ WindowsCalled /\ WindowsInside
      /\ OpenListed /\ AllEnd /\ AllEnded /\ EndTold
  BY DEF WindowInv
<1>t. t \in Window!Parties /\ t \notin Window!Wins /\ (Toggling \/ t = Window!Source)
      /\ label \in {"calling", "opening"} /\ label \in WindowLabels
  BY WindowNames DEF WindowLabels
<1>1. /\ UNCHANGED <<w_kind, offered, w_closed, w_inside, joined>>
      /\ w_pc' = [w_pc EXCEPT ![t] = label] /\ todo' = [todo EXCEPT ![t] = q]
      /\ w_mutex' \in Window!Parties \union {Window!NoOne}
  BY <1>0, <1>t DEF Window!Go, Window!observers, Window!Lock, WindowTypes
<1>2. /\ subject' \in [Window!Wins -> WindowStates]
      /\ \A v \in Window!Wins : subject'[v] = IF opens /\ v = w THEN "open" ELSE subject[v]
  BY <1>0 DEF WindowTypes, WindowStates
<1>3. Window!Opened \subseteq Window!Opened' /\ \A v \in Window!Opened : subject'[v] = subject[v]
  BY <1>2 DEF Window!Opened
<1>4. /\ w_pc' \in [Window!Parties -> WindowLabels] /\ w_pc'[t] = label
      /\ \A s \in Window!Parties : s # t => w_pc'[s] = w_pc[s]
  BY <1>0, <1>1, <1>t DEF WindowTypes
<1>5. /\ todo' \in [Window!Parties -> Seq(WindowCalls)] /\ todo'[t] = q
      /\ \A s \in Window!Parties : s # t => todo'[s] = todo[s]
  BY <1>0, <1>1, <1>t DEF WindowTypes
<1>6. /\ todo[t] = <<>> /\ \A s \in Window!Parties : w_pc[s] \notin Locking
      /\ Toggling => w_mutex' = t
  BY <1>0, <1>t, WindowLocked
<1>7. \A s \in Window!Parties, p \in Window!Targets : s \in w_inside[p] => s # t
  BY <1>0, <1>6 DEF WindowsInside
<1>8. \A s \in Window!Parties : \A p : s # t => (ToEnd(s, p)' <=> ToEnd(s, p))
  BY <1>5 DEF ToEnd
<1>9. \A s \in Window!Parties, p \in Window!Wins : Ending(s, p)' <=> Ending(s, p)
  BY <1>1, <1>5, <1>7, WindowNames DEF Ending
<1>10. joined \subseteq offered /\ offered \subseteq Window!Opened /\ Window!Opened \subseteq Window!Wins
  BY <1>0 DEF WindowTypes, Window!Opened
<1>11. \A v \in Window!Wins : w_pc[v] # "none" => v \in Window!Opened
  BY <1>0 DEF WindowTurns
<1>22. WindowTypes'
  <2>1. offered' \subseteq Window!Opened' /\ joined' \subseteq offered'
    BY <1>1, <1>3, <1>10
  <2> QED
    BY <1>0, <1>1, <1>2, <1>4, <1>5, <2>1 DEF WindowTypes
<1>24. WindowTurns'
  <2>1. ASSUME NEW s \in Window!Parties
        PROVE  /\ w_pc'[s] \in {"none", "idle", "done"} => todo'[s] = <<>>
               /\ w_pc'[s] = "calling" => s = Window!Source
               /\ w_pc'[s] = "opening" => s = Window!Openings
               /\ w_pc'[s] = "closing" => s \in Window!Wins
               /\ w_pc'[s] = "none" => s \in Window!Wins
               /\ ~Toggling /\ s # Window!Source => w_pc'[s] \in {"none", "idle"}
    <3>1. CASE s = t
      BY <1>4, <1>t, <3>1
    <3>2. CASE s # t
      BY <1>0, <1>4, <1>5, <3>2 DEF WindowTurns
    <3> QED
      BY <3>1, <3>2
  <2>2. ASSUME NEW s \in Window!Parties, Toggling PROVE w_pc'[s] \in Locking <=> w_mutex' = s
    BY <1>4, <1>6, <1>t, <2>2 DEF Locking
  <2>3. /\ ~Toggling => \A v \in Window!Wins : w_pc'[v] = "none"
        /\ \A v \in Window!Wins : v \notin Window!Opened' => w_pc'[v] = "none"
    BY <1>0, <1>3, <1>4, <1>t, WindowNames DEF WindowTurns
  <2>4. w_pc'[Window!Openings] = "opening" =>
          \E n \in Window!Wins : Window!Opened' = 1..n /\ w_pc'[n] = "none"
    <3>1. CASE t = Window!Openings
      BY <1>4, <1>t, <3>1, WindowNames
    <3>2. CASE t # Window!Openings
      BY <1>4, <1>6, <3>2, WindowNames DEF Locking
    <3> QED
      BY <3>1, <3>2
  <2> QED
    BY <1>1, <2>1, <2>2, <2>3, <2>4 DEF WindowTurns, Toggling
<1>25. WindowsCalled' /\ WindowsInside'
  <2>1. WindowsInside'
    BY <1>0, <1>1, <1>5, <1>7 DEF WindowsInside
  <2>2. ASSUME NEW s \in Window!Parties, NEW c \in Within(todo'[s])
        PROVE  /\ c.to \in Window!Opened' \union {Window!Outer}
               /\ c.w # Window!Outer => /\ c.w \in Window!Opened' /\ c.to = Window!Outer /\ c.how = "next"
                                        /\ w_pc'[s] \in {"calling", "opening"}
    <3>1. CASE s = t
      BY <1>4, <1>5, <1>t, <2>2, <3>1
    <3>2. CASE s # t
      BY <1>0, <1>3, <1>4, <1>5, <2>2, <3>2 DEF WindowsCalled
    <3> QED
      BY <3>1, <3>2
  <2> QED
    BY <2>1, <2>2 DEF WindowsCalled
<1>26. OpenListed'
  <2> SUFFICES ASSUME NEW v \in Window!Wins, subject'[v] = "open"
               PROVE  v \in Within(listed') \/ (w_pc'[Window!Source] = "calling" /\ ToEnd(Window!Source, v)')
    BY DEF OpenListed
  <2>1. v \in Within(listed) \/ (opens /\ v = w)
    BY <1>0, <1>2, <1>6, WindowNames DEF OpenListed, Locking
  <2>2. CASE v \in Within(listed')
    BY <2>2
  <2>3. CASE t = Window!Source /\ \E c \in Within(q) : c.to = v /\ c.how # "next"
    <3>1. ToEnd(t, v)'
      BY <1>5, <2>3 DEF ToEnd
    <3> QED
      BY <1>4, <1>t, <2>3, <3>1, WindowNames
  <2> QED
    BY <2>1, <2>2, <2>3
<1>27. AllEnd'
  <2>1. \A s \in Window!Parties : w_pc'[s] # "ending"
    BY <1>4, <1>6, <1>t DEF Locking
  <2> QED
    BY <2>1 DEF AllEnd
<1>28. AllEnded'
  <2>1. w_pc'[Window!Source] = "done" => Window!Outer \in w_closed /\ \A v \in offered : subject'[v] # "open"
    BY <1>0, <1>3, <1>4, <1>10, <1>t, WindowNames DEF AllEnded
  <2>2. ASSUME NEW v \in Window!Wins
        PROVE  /\ w_pc'[v] = "closing" => subject'[v] # "open" \/ ToEnd(v, v)'
               /\ w_pc'[v] = "done" => subject'[v] # "open" \/ (v \notin offered /\ Window!Outer \in w_closed)
    <3>1. v # t /\ w_pc'[v] = w_pc[v] /\ v \in Window!Parties
      BY <1>4, <1>t, WindowNames
    <3> QED
      BY <1>0, <1>3, <1>8, <1>11, <3>1 DEF AllEnded
  <2> QED
    BY <1>1, <2>1, <2>2 DEF AllEnded
<1>29. EndTold'
  <2>1. \A s \in Window!Parties, v \in Window!Wins : Ending(s, v) => subject'[v] \notin {"none", "open"}
    <3>1. \A v \in Window!Wins : subject[v] \notin {"none", "open"} => subject'[v] = subject[v]
      BY <1>3 DEF Window!Opened
    <3> QED
      BY <1>0, <3>1 DEF EndTold
  <2>2. \A v \in joined : subject'[v] # "open" => v \in w_closed \/ \E s \in Window!Parties : Ending(s, v)
    BY <1>0, <1>3, <1>10 DEF EndTold
  <2> QED
    BY <1>1, <1>9, <1>10, <2>1, <2>2 DEF EndTold
<1> QED
  BY <1>22, <1>24, <1>25, <1>26, <1>27, <1>28, <1>29 DEF WindowInv

\* The calls that a value of the source makes of window w.
ValueCalls(w, opens, passes) ==
  (IF opens THEN <<Window!Offer(w)>> ELSE <<>>) \o (IF passes THEN <<Window!Pass(w)>> ELSE <<>>)
Completing(w, ends) == IF ends THEN <<Window!End(w, "completed")>> ELSE <<>>
CallOf(w, c) ==
  /\ c.to \in {w, Window!Outer}
  /\ c.w # Window!Outer => c.w = w /\ c.to = Window!Outer /\ c.how = "next"

\* The calls that a value makes are calls of its window and of the result.
LEMMA WindowValueCalls ==
  ASSUME NEW w \in Window!Wins, NEW opens, NEW passes
  PROVE  /\ ValueCalls(w, opens, passes) \in Seq(WindowCalls)
         /\ \A c \in Within(ValueCalls(w, opens, passes)) : CallOf(w, c)
         /\ ~opens /\ ~passes => Within(ValueCalls(w, opens, passes)) = {}
<1> DEFINE p == IF opens THEN <<Window!Offer(w)>> ELSE <<>>
           q == IF passes THEN <<Window!Pass(w)>> ELSE <<>>
<1>1. /\ Window!Offer(w) \in WindowCalls /\ CallOf(w, Window!Offer(w))
      /\ Window!Pass(w) \in WindowCalls /\ CallOf(w, Window!Pass(w))
  BY WindowNames DEF Window!Offer, Window!Pass, Window!Call, WindowCalls, CallOf
<1>2. <<>> \in Seq(WindowCalls) /\ \A c \in WindowCalls : <<c>> \in Seq(WindowCalls)
  OBVIOUS
<1>3. p \in Seq(WindowCalls) /\ (\A c \in Within(p) : CallOf(w, c)) /\ (~opens => Within(p) = {})
  BY <1>1, <1>2, WithinFew
<1>4. q \in Seq(WindowCalls) /\ (\A c \in Within(q) : CallOf(w, c)) /\ (~passes => Within(q) = {})
  BY <1>1, <1>2, WithinFew
<1>5. ValueCalls(w, opens, passes) = p \o q
  BY DEF ValueCalls
<1> HIDE DEF p, q
<1>6. p \o q \in Seq(WindowCalls) /\ Within(p \o q) = Within(p) \union Within(q)
  BY <1>3, <1>4, WithinConcat
<1> QED
  BY <1>3, <1>4, <1>5, <1>6

\* So are those that complete a window, and they end it.
LEMMA WindowCompleting ==
  ASSUME NEW w \in Window!Wins, NEW ends
  PROVE  /\ Completing(w, ends) \in Seq(WindowCalls)
         /\ \A c \in Within(Completing(w, ends)) : CallOf(w, c)
         /\ ends => \E c \in Within(Completing(w, ends)) : c.to = w /\ c.how # "next"
<1> DEFINE last == Window!End(w, "completed")
<1>1. last \in WindowCalls /\ CallOf(w, last) /\ last.to = w /\ last.how # "next"
  BY WindowNames DEF Window!End, Window!Call, WindowCalls, CallOf
<1>2. <<>> \in Seq(WindowCalls) /\ <<last>> \in Seq(WindowCalls)
  BY <1>1
<1>3. Completing(w, ends) = IF ends THEN <<last>> ELSE <<>>
  BY DEF Completing
<1> HIDE DEF last
<1>4. Within(<<last>>) = {last} /\ Within(<<>>) = {}
  BY WithinFew
<1>5. CASE ends
  BY <1>1, <1>2, <1>3, <1>4, <1>5
<1>6. CASE ~ends
  BY <1>2, <1>3, <1>4, <1>6
<1> QED
  BY <1>5, <1>6

\* What the handlers of a value have in common.
WindowValue ==
  /\ w_pc[Window!Source] = "idle" /\ value < WindowValues[w_kind] /\ value' = value + 1
  /\ Window!Lock(Window!Source)
  /\ UNCHANGED <<w_kind, Window!observers, Window!sharing>> /\ WindowHeld'

\* The source has not sent more values than it has.
LEMMA WindowValueTypes ==
  ASSUME WindowTypes, WindowValue
  PROVE  value' \in Nat /\ value' <= WindowValues[w_kind] /\ WindowValues[w_kind] \in Nat
BY WindowsAssumption DEF WindowTypes, WindowValue, Window!Kinds

\* window: a value opens the next window, or is another one of the only one there is.
LEMMA WindowOfSize ==
  ASSUME WindowInv, WindowValue, w_kind = "window", Window!WindowNext
  PROVE  WindowInv'
<1> DEFINE opens == items = WindowSize
           w == IF opens THEN Window!Fresh ELSE Window!Last(listed)
           n == IF opens THEN 1 ELSE items + 1
           ends == n = WindowSize
           p == ValueCalls(w, opens, TRUE)
           e == Completing(w, ends)
           q == p \o e
<1>0. WindowTypes /\ WindowsInTurn
  BY DEF WindowInv
<1>1. /\ w \in Window!Wins /\ items' = n
      /\ listed' = IF ends THEN <<>> ELSE <<w>>
      /\ subject' = [subject EXCEPT ![w] = IF opens THEN "open" ELSE @]
      /\ Window!Go(Window!Source, "calling", q)
  BY DEF Window!WindowNext, ValueCalls, Completing
<1>2. opens \in BOOLEAN /\ ends \in BOOLEAN
  OBVIOUS
<1>3. items \in 1..WindowSize /\ WindowSize \in Nat /\ n \in 1..WindowSize
  BY <1>0, WindowsAssumption DEF WindowTypes
<1>4. /\ opens <=> listed = <<>>
      /\ Len(listed) <= 1 /\ listed \in Seq(Window!Wins)
  BY <1>0 DEF WindowsInTurn, WindowTypes
<1>5. PICK m \in 0..NumWindows : Window!Opened = 1..m
  BY <1>0 DEF WindowsInTurn
<1>6. m \in Nat /\ NumWindows \in Nat
  BY WindowsAssumption
<1>7. ASSUME opens PROVE w = m + 1 /\ w \notin Window!Opened /\ Within(listed) = {}
  <2>1. Window!Fresh = m + 1
    BY <1>5, <1>6, FirstWindows
  <2>2. w = m + 1
    BY <1>7, <2>1
  <2> HIDE DEF w
  <2>3. w \notin 1..m
    BY <1>6, <2>2
  <2> QED
    BY <1>4, <1>5, <1>7, <2>2, <2>3, WithinFew
<1>8. ASSUME ~opens PROVE Within(listed) = {w}
  <2>1. Len(listed) = 1 /\ DOMAIN listed = 1..1
    <3>1. Len(listed) \in Nat /\ (Len(listed) = 0 => listed = <<>>) /\ DOMAIN listed = 1..Len(listed)
      BY <1>4, LenProperties, EmptySeq
    <3>2. Len(listed) = 1
      BY <1>4, <1>8, <3>1
    <3> QED
      BY <3>1, <3>2
  <2>2. w = listed[1]
    BY <1>8, <2>1 DEF Window!Last
  <2> QED
    BY <2>1, <2>2 DEF Within
<1> HIDE DEF w, n, opens, ends
<1>9. /\ q \in Seq(WindowCalls)
      /\ \A c \in Within(q) : CallOf(w, c)
      /\ ends => \E c \in Within(q) : c.to = w /\ c.how # "next"
  <2>1. w \in Window!Wins
    BY <1>1
  <2>2. p \in Seq(WindowCalls) /\ \A c \in Within(p) : CallOf(w, c)
    BY <2>1, WindowValueCalls
  <2>3. /\ e \in Seq(WindowCalls) /\ \A c \in Within(e) : CallOf(w, c)
        /\ ends => \E c \in Within(e) : c.to = w /\ c.how # "next"
    BY <2>1, WindowCompleting
  <2> HIDE DEF p, e
  <2>4. q \in Seq(WindowCalls) /\ Within(q) = Within(p) \union Within(e)
    BY <2>2, <2>3, WithinConcat
  <2> QED
    BY <2>2, <2>3, <2>4
<1> HIDE DEF p, e, q
<1>10. \A v \in Window!Wins : subject'[v] = IF opens /\ v = w THEN "open" ELSE subject[v]
  BY <1>0, <1>1 DEF WindowTypes
<1>11. Window!Opened' = Window!Opened \union {w} /\ w \in Window!Opened'
  <2>1. ~opens => subject[w] # "none"
    BY <1>0, <1>8 DEF WindowsInTurn, Window!Opened
  <2> QED
    BY <1>1, <1>10, <2>1 DEF Window!Opened
<1>12. listed' \in Seq(Window!Wins) /\ Within(listed') = (IF ends THEN {} ELSE {w})
       /\ (listed' = <<>> <=> ends) /\ Len(listed') <= 1
  <2>1. <<w>> \in Seq(Window!Wins) /\ <<>> \in Seq(Window!Wins) /\ Len(<<w>>) <= 1 /\ Len(<<>>) <= 1
    BY <1>1
  <2> QED
    BY <1>1, <2>1, WithinFew
<1>13. \A v \in Window!Wins :
         v \in Within(listed) \/ (opens /\ v = w) =>
           \/ v \in Within(listed')
           \/ Window!Source = Window!Source /\ \E c \in Within(q) : c.to = v /\ c.how # "next"
  BY <1>7, <1>8, <1>9, <1>12
<1>14. w_kind' = "window"
  BY DEF WindowValue
<1>15. \E k \in 0..NumWindows : Window!Opened' = 1..k
  <2>1. CASE opens
    <3>1. 1..m + 1 = 1..m \union {m + 1}
      BY <1>6
    <3>2. m + 1 \in 0..NumWindows
      BY <1>1, <1>6, <1>7, <2>1 DEF Window!Wins
    <3>3. Window!Opened' = 1..m + 1
      BY <1>5, <1>7, <1>11, <2>1, <3>1
    <3> QED
      BY <3>2, <3>3
  <2>2. CASE ~opens
    <3>1. Window!Opened' = Window!Opened
      BY <1>0, <1>8, <1>11, <2>2 DEF WindowsInTurn
    <3> QED
      BY <1>5, <3>1
  <2> QED
    BY <2>1, <2>2
<1>16. WindowsInTurn'
  <2>1. (items' = WindowSize <=> listed' = <<>>)
    BY <1>1, <1>12 DEF ends
  <2>2. Within(listed') \subseteq Window!Opened'
    BY <1>11, <1>12
  <2> QED
    BY <1>12, <1>14, <1>15, <2>1, <2>2 DEF WindowsInTurn
<1>17. \A c \in Within(q) : /\ c.to \in Window!Opened' \union {Window!Outer}
                            /\ c.w # Window!Outer =>
                                 c.w \in Window!Opened' /\ c.to = Window!Outer /\ c.how = "next"
  BY <1>9, <1>11 DEF CallOf
<1>18. opens => w \notin Window!Opened
  BY <1>7
<1>19. items' \in 1..WindowSize
  BY <1>1, <1>3
<1>20. value' \in Nat /\ value' <= WindowValues[w_kind]
  BY <1>0, WindowValueTypes
<1>21. /\ w_pc[Window!Source] = "idle" /\ Window!Lock(Window!Source)
       /\ UNCHANGED <<w_kind, Window!observers, Window!sharing>> /\ WindowHeld'
  BY DEF WindowValue
<1>22. Window!Source \in {Window!Source, Window!Openings} /\ opens \in BOOLEAN
  BY DEF opens
<1>23. /\ w \in Window!Wins /\ Window!Go(Window!Source, "calling", q)
       /\ subject' = [subject EXCEPT ![w] = IF opens THEN "open" ELSE @]
       /\ q \in Seq(WindowCalls) /\ listed' \in Seq(Window!Wins)
  BY <1>1, <1>9, <1>12
<1> QED
  BY <1>13, <1>16, <1>17, <1>18, <1>19, <1>20, <1>21, <1>22, <1>23, WindowCallsOut, Zenon

\* group_by: a value opens the group of its key, or is passed to it.
LEMMA WindowOfKey ==
  ASSUME WindowInv, WindowValue, w_kind = "group_by", Window!GroupNext
  PROVE  WindowInv'
<1> DEFINE w == (value % WindowSize) + 1
           known == Window!Contains(listed, w)
           opens == ~known /\ Window!Outer \notin w_closed
           passes == opens \/ known
           q == ValueCalls(w, opens, passes)
<1>0. WindowTypes /\ WindowsInTurn
  BY DEF WindowInv
<1>1. /\ listed' = IF opens THEN Append(listed, w) ELSE listed
      /\ items' = items
      /\ subject' = [subject EXCEPT ![w] = IF opens THEN "open" ELSE @]
      /\ Window!Go(Window!Source, "calling", q)
  BY DEF Window!GroupNext, ValueCalls
<1>2. known \in BOOLEAN /\ opens \in BOOLEAN /\ passes \in BOOLEAN
  BY DEF Window!Contains
<1>3. w \in Window!Wins
  <2>1. value \in Nat /\ WindowSize \in 1..NumWindows /\ NumWindows \in Nat
    BY <1>0, WindowsAssumption DEF WindowTypes
  <2>2. value % WindowSize \in 0..WindowSize - 1
    BY <2>1
  <2> QED
    BY <2>1, <2>2 DEF Window!Wins
<1>4. listed \in Seq(Window!Wins) /\ Within(listed) = Window!Opened
  BY <1>0 DEF WindowTypes, WindowsInTurn
<1>5. known <=> w \in Window!Opened
  <2>1. DOMAIN listed = 1..Len(listed)
    BY <1>4, LenProperties
  <2> QED
    BY <1>4, <2>1 DEF Window!Contains, Within
<1> HIDE DEF w, known
<1>6. opens => w \notin Window!Opened
  BY <1>5
<1>7. passes => opens \/ w \in Window!Opened
  BY <1>5
<1> HIDE DEF opens
<1>9. /\ q \in Seq(WindowCalls)
      /\ \A c \in Within(q) : CallOf(w, c)
      /\ ~opens /\ ~passes => Within(q) = {}
  <2> HIDE DEF passes
  <2> QED
    BY <1>3, WindowValueCalls
<1>10. Within(q) # {} => passes
  BY <1>9
<1> HIDE DEF q, passes
<1>11. \A v \in Window!Wins : subject'[v] = IF opens /\ v = w THEN "open" ELSE subject[v]
  BY <1>0, <1>1 DEF WindowTypes
<1>12. Window!Opened' = IF opens THEN Window!Opened \union {w} ELSE Window!Opened
  BY <1>3, <1>11 DEF Window!Opened
<1>13. listed' \in Seq(Window!Wins) /\ Within(listed') = Window!Opened' /\ Within(listed) \subseteq Within(listed')
  <2>1. CASE opens
    <3>1. listed' = listed \o <<w>> /\ <<w>> \in Seq(Window!Wins)
      BY <1>1, <1>3, <1>4, <2>1
    <3>2. listed \o <<w>> \in Seq(Window!Wins) /\ Within(listed \o <<w>>) = Within(listed) \union Within(<<w>>)
      BY <1>4, <3>1, WithinConcat, Zenon
    <3> QED
      BY <1>4, <1>12, <2>1, <3>1, <3>2, WithinFew
  <2>2. CASE ~opens
    BY <1>1, <1>4, <1>12, <2>2
  <2> QED
    BY <2>1, <2>2
<1>14. \A v \in Window!Wins :
         v \in Within(listed) \/ (opens /\ v = w) => v \in Within(listed')
  BY <1>12, <1>13
<1>15. w_kind' = "group_by"
  BY DEF WindowValue
<1>16. WindowsInTurn'
  BY <1>13, <1>15 DEF WindowsInTurn
<1>17. \A c \in Within(q) : /\ c.to \in Window!Opened' \union {Window!Outer}
                            /\ c.w # Window!Outer =>
                                 c.w \in Window!Opened' /\ c.to = Window!Outer /\ c.how = "next"
  <2>1. ASSUME NEW c \in Within(q) PROVE w \in Window!Opened'
    BY <1>7, <1>10, <1>12
  <2> QED
    BY <1>9, <2>1 DEF CallOf
<1>19. items' \in 1..WindowSize
  BY <1>0, <1>1 DEF WindowTypes
<1>20. value' \in Nat /\ value' <= WindowValues[w_kind]
  BY <1>0, WindowValueTypes
<1>21. /\ w_pc[Window!Source] = "idle" /\ Window!Lock(Window!Source)
       /\ UNCHANGED <<w_kind, Window!observers, Window!sharing>> /\ WindowHeld'
  BY DEF WindowValue
<1>22. Window!Source \in {Window!Source, Window!Openings} /\ opens \in BOOLEAN
  BY <1>2
<1> QED
  BY <1>1, <1>3, <1>6, <1>9, <1>13, <1>14, <1>16, <1>17, <1>19, <1>20, <1>21, <1>22, WindowCallsOut

\* window_toggle: a value is passed to every window that is listed.
LEMMA WindowOfMoments ==
  ASSUME WindowInv, WindowValue, w_kind = "window_toggle", Window!ToggleNext
  PROVE  WindowInv'
<1> DEFINE q == [i \in 1..Len(listed) |-> Window!Pass(listed[i])]
<1>0. WindowTypes /\ WindowsInTurn
  BY DEF WindowInv
<1>1. UNCHANGED <<listed, subject, items>> /\ Window!Go(Window!Source, "calling", q)
  BY DEF Window!ToggleNext
<1>2. /\ Len(listed) \in Nat /\ DOMAIN listed = 1..Len(listed)
      /\ \A i \in 1..Len(listed) : listed[i] \in Window!Wins /\ listed[i] \in Within(listed)
  BY <1>0, LenProperties, ElementOfSeq DEF WindowTypes, Within
<1>3. \A v \in Window!Wins : /\ Window!Pass(v) \in WindowCalls /\ Window!Pass(v).to = v
                             /\ Window!Pass(v).w = Window!Outer
  BY WindowNames DEF Window!Pass, Window!Call, WindowCalls
<1>4. q \in Seq(WindowCalls)
  <2>1. q \in [1..Len(listed) -> WindowCalls]
    BY <1>2, <1>3
  <2> QED
    BY <1>2, <2>1
<1>5. \A c \in Within(q) : c.to \in Within(listed) /\ c.w = Window!Outer
  BY <1>2, <1>3 DEF Within
<1> HIDE DEF q
<1>6. 1 \in Window!Wins /\ FALSE \in BOOLEAN
  BY WindowsAssumption DEF Window!Wins
<1>7. subject' = [subject EXCEPT ![1] = IF FALSE THEN "open" ELSE @]
  BY <1>0, <1>1 DEF WindowTypes
<1>8. Window!Opened' = Window!Opened /\ Within(listed) \subseteq Window!Opened
  BY <1>0, <1>1 DEF Window!Opened, WindowsInTurn
<1>9. WindowsInTurn'
  BY <1>0, <1>1, <1>8 DEF WindowsInTurn, WindowValue
<1>10. \A c \in Within(q) : /\ c.to \in Window!Opened' \union {Window!Outer}
                            /\ c.w # Window!Outer =>
                                 c.w \in Window!Opened' /\ c.to = Window!Outer /\ c.how = "next"
  BY <1>5, <1>8
<1>11. \A v \in Window!Wins : v \in Within(listed) \/ (FALSE /\ v = 1) => v \in Within(listed')
  BY <1>1
<1>12. listed' \in Seq(Window!Wins) /\ items' \in 1..WindowSize
  BY <1>0, <1>1 DEF WindowTypes
<1>20. value' \in Nat /\ value' <= WindowValues[w_kind]
  BY <1>0, WindowValueTypes
<1>21. /\ w_pc[Window!Source] = "idle" /\ Window!Lock(Window!Source)
       /\ UNCHANGED <<w_kind, Window!observers, Window!sharing>> /\ WindowHeld'
  BY DEF WindowValue
<1>22. Window!Source \in {Window!Source, Window!Openings}
  OBVIOUS
<1> QED
  BY <1>1, <1>4, <1>6, <1>7, <1>9, <1>10, <1>11, <1>12, <1>20, <1>21, <1>22, WindowCallsOut

\* window_toggle: the openings open and offer the next window.
LEMMA WindowOpened ==
  ASSUME WindowInv, Window!OpeningNext, UNCHANGED w_kind, WindowHeld'
  PROVE  WindowInv'
<1> DEFINE w == Window!Fresh
           q == <<Window!Offer(w)>>
<1>0. WindowTypes /\ WindowsInTurn /\ WindowTurns
  BY DEF WindowInv
<1>1. /\ w_kind = "window_toggle" /\ w_pc[Window!Openings] = "idle" /\ w \in Window!Wins
      /\ Window!Lock(Window!Openings) /\ listed' = Append(listed, w)
      /\ subject' = [subject EXCEPT ![w] = "open"]
      /\ Window!Go(Window!Openings, "opening", q)
      /\ UNCHANGED <<value, items, w_sent, Window!observers, Window!sharing>>
  BY DEF Window!OpeningNext, Window!Rest
<1>2. PICK m \in 0..NumWindows : Window!Opened = 1..m
  BY <1>0, <1>1 DEF WindowsInTurn
<1>3. m \in Nat /\ NumWindows \in Nat
  BY WindowsAssumption
<1>4. w = m + 1
  BY <1>2, <1>3, FirstWindows
<1> HIDE DEF w
<1>5. w \notin Window!Opened
  BY <1>2, <1>3, <1>4
<1>6. /\ Window!Offer(w) \in WindowCalls /\ Window!Offer(w).to = Window!Outer
      /\ Window!Offer(w).w = w /\ Window!Offer(w).how = "next"
  BY <1>1, WindowNames DEF Window!Offer, Window!Call, WindowCalls
<1>7. q \in Seq(WindowCalls) /\ Within(q) = {Window!Offer(w)}
  BY <1>6, WithinFew
<1>8. Window!Opened' = Window!Opened \union {w}
  <2>1. \A v \in Window!Wins : subject'[v] = IF v = w THEN "open" ELSE subject[v]
    BY <1>0, <1>1 DEF WindowTypes
  <2> QED
    BY <1>1, <2>1 DEF Window!Opened
<1>9. Window!Opened' = 1..w
  <2>1. 1..m + 1 = 1..m \union {m + 1}
    BY <1>3
  <2> QED
    BY <1>2, <1>4, <1>8, <2>1
<1>10. w_pc[w] = "none"
  BY <1>0, <1>1, <1>5 DEF WindowTurns
<1>11. listed' \in Seq(Window!Wins) /\ Within(listed') = Within(listed) \union {w}
  <2>1. listed \in Seq(Window!Wins) /\ <<w>> \in Seq(Window!Wins)
    BY <1>0, <1>1 DEF WindowTypes
  <2>2. listed' = listed \o <<w>>
    BY <1>1, <2>1
  <2>3. listed \o <<w>> \in Seq(Window!Wins) /\ Within(listed \o <<w>>) = Within(listed) \union Within(<<w>>)
    BY <2>1, WithinConcat, Zenon
  <2> QED
    BY <2>2, <2>3, WithinFew
<1>12. w_kind' = "window_toggle"
  BY <1>1
<1>13. WindowsInTurn'
  <2>1. w \in 0..NumWindows
    BY <1>1, <1>3 DEF Window!Wins
  <2>2. Within(listed') \subseteq Window!Opened'
    BY <1>0, <1>8, <1>11 DEF WindowsInTurn
  <2> QED
    BY <1>9, <1>12, <2>1, <2>2 DEF WindowsInTurn
<1> HIDE DEF q
<1>14. \A c \in Within(q) : /\ c.to \in Window!Opened' \union {Window!Outer}
                            /\ c.w # Window!Outer =>
                                 c.w \in Window!Opened' /\ c.to = Window!Outer /\ c.how = "next"
  BY <1>6, <1>7, <1>8
<1>15. subject' = [subject EXCEPT ![w] = IF TRUE THEN "open" ELSE @]
  BY <1>1
<1>16. \A v \in Window!Wins : v \in Within(listed) \/ (TRUE /\ v = w) => v \in Within(listed')
  BY <1>11
<1>17. items' \in 1..WindowSize /\ value' \in Nat /\ value' <= WindowValues[w_kind]
  BY <1>0, <1>1 DEF WindowTypes
<1>18. UNCHANGED <<w_kind, Window!observers, Window!sharing>>
  BY <1>1
<1>19. Toggling /\ Window!Openings \in {Window!Source, Window!Openings} /\ TRUE \in BOOLEAN
  BY <1>1 DEF Toggling
<1> QED
  BY <1>1, <1>5, <1>7, <1>9, <1>10, <1>11, <1>13, <1>14, <1>15, <1>16, <1>17, <1>18, <1>19, WindowCallsOut

\* Nothing is opened to begin with.
LEMMA WindowInit ==
  Window!Init => WindowInv
<1> SUFFICES ASSUME Window!Init PROVE WindowInv
  OBVIOUS
<1> USE DEF Window!Init
<1>1. Window!Opened = {}
  BY DEF Window!Opened
<1>2. WindowSize \in 1..WindowSize /\ NumWindows \in Nat
  BY WindowsAssumption
<1>3. \A s \in Window!Parties : todo[s] = <<>> /\ Within(todo[s]) = {}
  BY WithinFew
<1>4. /\ w_pc \in [Window!Parties -> {"none", "idle"}]
      /\ \A s \in Window!Parties : w_pc[s] = IF s \in Window!Wins THEN "none" ELSE "idle"
  OBVIOUS
<1>5. \A o \in Window!Targets : w_inside[o] = {}
  OBVIOUS
<1>6. WindowTypes
  <2>1. 0 <= WindowValues[w_kind]
    BY WindowsAssumption DEF Window!Kinds
  <2>2. \A w \in Window!Wins : "none" \in WindowStates
    BY DEF WindowStates
  <2>3. w_pc \in [Window!Parties -> WindowLabels]
    BY <1>4 DEF WindowLabels
  <2>4. <<>> \in Seq(WindowCalls) /\ <<>> \in Seq(Window!Wins)
    OBVIOUS
  <2> QED
    BY <1>2, <2>1, <2>2, <2>3, <2>4 DEF WindowTypes
<1>7. WindowsInTurn
  <2>1. 1..0 = {} /\ 0 \in 0..NumWindows
    BY <1>2
  <2>2. Len(listed) <= 1 /\ Within(listed) = {}
    BY WithinFew
  <2> QED
    BY <1>1, <2>1, <2>2 DEF WindowsInTurn
<1>8. WindowTurns
  <2>1. \A s \in Window!Parties : w_pc[s] \notin Locking /\ s # w_mutex
    BY <1>4, WindowNames DEF Locking
  <2> QED
    BY <1>3, <1>4, <2>1, WindowNames DEF WindowTurns
<1>9. WindowsCalled /\ WindowsInside
  BY <1>3, <1>5 DEF WindowsCalled, WindowsInside
<1>10. OpenListed /\ AllEnd /\ AllEnded
  BY <1>4, WindowNames DEF OpenListed, AllEnd, AllEnded
<1>11. EndTold
  BY <1>3 DEF EndTold, Ending
<1> QED
  BY <1>6, <1>7, <1>8, <1>9, <1>10, <1>11, WindowHeldInit DEF WindowInv

\* Every step keeps what is known of the calls and the turns of the parties.
LEMMA WindowStep ==
  ASSUME WindowInv, [Window!Next]_(Window!vars) PROVE WindowInv'
<1>0. WindowHeld'
  BY WindowHeldStep DEF WindowInv
<1>1. CASE UNCHANGED Window!vars
  <2>1. UNCHANGED <<w_kind, w_mutex, value, items, listed, subject, offered, w_closed, w_inside, joined, todo, w_pc>>
    BY <1>1 DEF Window!vars, Window!windows, Window!observers
  <2>2. Window!Opened' = Window!Opened
    BY <2>1 DEF Window!Opened
  <2>3. \A s, p : (ToEnd(s, p)' <=> ToEnd(s, p)) /\ (Ending(s, p)' <=> Ending(s, p))
    BY <2>1 DEF ToEnd, Ending
  <2>4. WindowTypes' /\ WindowsInTurn'
    BY <2>1, <2>2 DEF WindowInv, WindowTypes, WindowsInTurn
  <2>5. WindowTurns' /\ WindowsCalled' /\ WindowsInside'
    BY <2>1, <2>2 DEF WindowInv, WindowTurns, WindowsCalled, WindowsInside, Toggling
  <2>6. OpenListed' /\ AllEnd' /\ AllEnded' /\ EndTold'
    BY <2>1, <2>3 DEF WindowInv, OpenListed, AllEnd, AllEnded, EndTold
  <2> QED
    BY <1>0, <2>4, <2>5, <2>6 DEF WindowInv
<1>2. CASE Window!Next
  <2>0. UNCHANGED w_kind
    BY <1>2 DEF Window!Next
  <2>1. ASSUME NEW t \in Window!Parties, Window!Handle(t) PROVE WindowInv'
    BY <1>0, <2>0, <2>1, WindowBegins, WindowReturnsFromCall, WindowReturns, WindowAdded, WindowErased
    DEF Window!Handle
  <2>2. ASSUME NEW o \in Window!Targets, Window!Leave(o) PROVE WindowInv'
    BY <1>0, <2>0, <2>2, WindowLeft
  <2>3. ASSUME NEW w \in Window!Wins, Window!Closing(w) \/ Window!SubscribeWindow(w) PROVE WindowInv'
    BY <1>0, <2>0, <2>3, WindowCloses, WindowJoined
  <2>4. ASSUME NEW t \in Window!Parties, Window!OpeningOrClosingError(t) PROVE WindowInv'
    <3>1. /\ Toggling /\ w_pc[t] = "idle" /\ Window!Lock(t)
          /\ Window!Go(t, "ending", Window!EndAll("error"))
          /\ UNCHANGED <<value, Window!windows, Window!observers, Window!sharing>>
      BY <2>4 DEF Window!OpeningOrClosingError, Window!Rest, Toggling
    <3>2. "error" \in {"completed", "error"}
      OBVIOUS
    <3> QED
      BY <1>0, <2>0, <3>1, <3>2, WindowEndsAll
  <2>5. CASE Window!SourceEnds
    <3>1. PICK how \in {"completed", "error"} : Window!Go(Window!Source, "ending", Window!EndAll(how))
      BY <2>5 DEF Window!SourceEnds
    <3>2. /\ w_pc[Window!Source] = "idle" /\ Window!Lock(Window!Source)
          /\ UNCHANGED <<value, Window!windows, Window!observers, Window!sharing>>
      BY <2>5 DEF Window!SourceEnds, Window!Rest
    <3> QED
      BY <1>0, <2>0, <3>1, <3>2, WindowEndsAll, WindowNames
  <2>6. CASE Window!SourceNext
    <3>1. WindowValue
      BY <1>0, <2>0, <2>6 DEF Window!SourceNext, Window!Rest, WindowValue
    <3>2. \/ w_kind = "window" /\ Window!WindowNext
          \/ w_kind = "group_by" /\ Window!GroupNext
          \/ w_kind = "window_toggle" /\ Window!ToggleNext
      BY <2>6 DEF Window!SourceNext
    <3> QED
      BY <3>1, <3>2, WindowOfSize, WindowOfKey, WindowOfMoments
  <2>7. CASE Window!OpeningNext
    BY <1>0, <2>0, <2>7, WindowOpened
  <2> QED
    BY <1>2, <2>1, <2>2, <2>3, <2>4, <2>5, <2>6, <2>7 DEF Window!Next
<1> QED
  BY <1>1, <1>2

\* Who is inside an observer of window or group_by is the source.
LEMMA WindowSafe ==
  WindowInv => Window!TypeOK /\ Window!SourceKept /\ Window!WindowsEnd /\ Window!Serial
<1> SUFFICES ASSUME WindowInv PROVE Window!TypeOK /\ Window!SourceKept /\ Window!WindowsEnd /\ Window!Serial
  OBVIOUS
<1>0. WindowHeld /\ WindowTypes /\ WindowTurns /\ WindowsInside /\ AllEnded /\ EndTold
  BY DEF WindowInv
<1>1. Window!TypeOK
  <2>1. WindowValues[w_kind] \in Nat /\ value \in 0..WindowValues[w_kind]
    BY <1>0, WindowsAssumption DEF WindowTypes, Window!Kinds
  <2>2. handles \subseteq {Window!Outer} \union joined
    BY <1>0 DEF WindowHeld
  <2>3. w_disposed \in BOOLEAN
    BY <1>0 DEF WindowHeld
  <2> QED
    BY <1>0, <2>1, <2>2, <2>3 DEF Window!TypeOK, WindowTypes, WindowStates, WindowLabels
<1>2. Window!SourceKept
  BY <1>0, WindowHeldSafe
<1>3. Window!WindowsEnd
  <2> SUFFICES ASSUME NEW w \in joined, w_pc[Window!Source] = "done" \/ w_pc[w] = "done", w \notin w_closed
               PROVE  w_inside[w] # {}
    BY DEF Window!WindowsEnd
  <2>1. w \in offered /\ w \in Window!Wins
    BY <1>0 DEF WindowTypes, Window!Opened
  <2>2. subject[w] # "open"
    BY <1>0, <2>1 DEF AllEnded
  <2>3. PICK t \in Window!Parties : Ending(t, w)
    BY <1>0, <2>2 DEF EndTold
  <2> QED
    BY <2>3 DEF Ending
<1>4. Window!Serial
  <2> SUFFICES ASSUME ~Toggling, NEW o \in Window!Targets PROVE Window!Cardinality(w_inside[o]) <= 1
    BY DEF Window!Serial, Toggling
  <2>1. \A s \in w_inside[o] : s = Window!Source
    <3> SUFFICES ASSUME NEW s \in w_inside[o], s # Window!Source PROVE FALSE
      OBVIOUS
    <3>1. s \in Window!Parties
      BY <1>0 DEF WindowTypes
    <3>2. todo[s] # <<>>
      BY <1>0, <3>1 DEF WindowsInside
    <3> QED
      BY <1>0, <3>1, <3>2 DEF WindowTurns
  <2>2. w_inside[o] = {} \/ w_inside[o] = {Window!Source}
    BY <2>1
  <2>3. Cardinality({}) = 0 /\ Cardinality({Window!Source}) = 1
    BY FS_EmptySet, FS_Singleton
  <2>4. Window!Cardinality(w_inside[o]) = Cardinality(w_inside[o])
    BY DEF Window!Cardinality, Cardinality
  <2>5. Cardinality(w_inside[o]) \in {0, 1}
    BY <2>2, <2>3
  <2> QED
    BY <2>4, <2>5
<1> QED
  BY <1>1, <1>2, <1>3, <1>4
-----------------------------------------------------------------------------
(* The values in the windows.                                                *)

\* The calls the source has yet to begin, and whether one passes a value to w.
Ahead == IF Window!InCall(Window!Source) THEN Tail(todo[Window!Source]) ELSE todo[Window!Source]
ToPass(w) == \E c \in Within(Ahead) : c.to = w /\ c.how = "next"

\* A window is passed a value once, and its end comes after that.
Once(q) ==
  \A i, j \in DOMAIN q : i < j =>
    /\ q[j].how = "next" => q[i].how = "next"
    /\ q[j].how = "next" /\ q[i].to = q[j].to => q[i].to = Window!Outer
PassedOnce == Once(Ahead)
SourcePasses ==
  \A t \in Window!Parties \ {Window!Source} : \A c \in Within(todo[t]) : c.how = "next" => c.to = Window!Outer

ListedOnce == \A i, j \in DOMAIN listed : listed[i] = listed[j] => i = j

\* window: how many values there are in the windows so far.
Filled ==
  w_kind = "window" =>
    /\ \E n \in 0..NumWindows :
         /\ Window!Opened = 1..n /\ Within(listed) \subseteq {n}
         /\ value = IF n = 0 THEN 0 ELSE WindowSize * (n - 1) + items
         /\ n = 0 => items = WindowSize
    /\ w_pc[Window!Source] = "calling" /\ (\E c \in Within(Ahead) : c.how # "next") => items = WindowSize

\* One is the end of the other.
Tails(p, q) == Len(p) <= Len(q) /\ \A i \in 1..Len(p) : p[i] = q[i + (Len(q) - Len(p))]

ReceivedOf(w) ==
  /\ w \notin joined => w_got[w] = <<>>
  /\ Tails(w_got[w], w_sent[w]) \/ w \in w_closed
Ordered(w) ==
  \A i \in 1..Len(w_sent[w]) :
    IF Toggling THEN i > 1 => w_sent[w][i] = w_sent[w][i - 1] + 1
    ELSE Window!Belongs(w, w_sent[w][i]) /\ (i > 1 => w_sent[w][i] > w_sent[w][i - 1])
LatestOf(w) ==
  /\ w \notin Window!Opened => w_sent[w] = <<>>
  /\ w_sent[w] # <<>> =>
       LET v == w_sent[w][Len(w_sent[w])] IN
       /\ IF ToPass(w) THEN v < value ELSE v <= value
       /\ Toggling /\ subject[w] = "open" => v = IF ToPass(w) THEN value - 1 ELSE value
  /\ ToPass(w) /\ ~Toggling => Window!Belongs(w, value)
FullOf(w) ==
  w_kind = "window" /\ w_pc[Window!Source] \notin {"ending", "done"} =>
    /\ subject[w] = "open" => Len(w_sent[w]) = IF ToPass(w) THEN items - 1 ELSE items
    /\ subject[w] = "completed" => Len(w_sent[w]) = WindowSize

ValuesTyped ==
  /\ w_sent \in [Window!Wins -> Seq(Nat)] /\ w_got \in [Window!Wins -> Seq(Nat)]
ValuesInv ==
  /\ ValuesTyped /\ PassedOnce /\ SourcePasses /\ ListedOnce /\ Filled
  /\ \A w \in Window!Wins : ReceivedOf(w) /\ Ordered(w) /\ LatestOf(w) /\ FullOf(w)

\* What is to be called next, and what after it.
LEMMA FirstCall ==
  ASSUME NEW q \in Seq(WindowCalls), q # <<>>
  PROVE  /\ Head(q) \in WindowCalls /\ Tail(q) \in Seq(WindowCalls)
         /\ Head(q).to \in Window!Targets /\ Head(q).how \in {"next", "completed", "error"}
         /\ Within(q) = Within(Tail(q)) \union {Head(q)}
<1>1. /\ Head(q) \in WindowCalls /\ Tail(q) \in Seq(WindowCalls)
      /\ Within(q) = Within(Tail(q)) \union {Head(q)}
  BY WithinTail
<1>2. \A c \in WindowCalls : c.to \in Window!Targets /\ c.how \in {"next", "completed", "error"}
  BY DEF WindowCalls
<1> QED
  BY <1>1, <1>2

\* What the source has still to call is part of what it has to do.
LEMMA AheadTyped ==
  ASSUME WindowTypes
  PROVE  /\ Ahead \in Seq(WindowCalls) /\ Within(Ahead) \subseteq Within(todo[Window!Source])
         /\ todo[Window!Source] = <<>> => Ahead = <<>>
<1>1. todo[Window!Source] \in Seq(WindowCalls)
  BY WindowNames DEF WindowTypes
<1>2. CASE Window!InCall(Window!Source)
  <2>1. todo[Window!Source] # <<>> /\ Ahead = Tail(todo[Window!Source])
    BY <1>2 DEF Ahead, Window!InCall
  <2> QED
    BY <1>1, <2>1, WithinTail
<1>3. CASE ~Window!InCall(Window!Source)
  BY <1>1, <1>3 DEF Ahead
<1> QED
  BY <1>2, <1>3

\* A call is not ahead any more once it has begun, also if nobody takes it.
LEMMA AheadBegins ==
  ASSUME WindowTypes, WindowsInside, Window!BeginCall(Window!Source)
  PROVE  /\ todo[Window!Source] # <<>> /\ Ahead = todo[Window!Source]
         /\ Ahead' = Tail(todo[Window!Source])
<1> DEFINE t == Window!Source
           c == Head(todo[t])
<1>1. todo[t] # <<>> /\ todo[t] \in Seq(WindowCalls) /\ t \in Window!Parties
  BY WindowNames DEF Window!BeginCall, WindowTypes
<1>2. c \in WindowCalls /\ Tail(todo[t]) \in Seq(WindowCalls) /\ c.to \in Window!Targets
  BY <1>1, FirstCall
<1>3. t \notin w_inside[c.to] /\ ~Window!InCall(t)
  BY <1>1 DEF Window!BeginCall, Window!InCall
<1>4. \A o \in Window!Targets : t \notin w_inside[o]
  BY <1>1, <1>2, <1>3 DEF WindowsInside
<1>5. CASE Window!Taken(c.to)
  <2>1. todo' = todo /\ w_inside' = [w_inside EXCEPT ![c.to] = @ \union {t}]
    BY <1>5 DEF Window!BeginCall
  <2>2. t \in w_inside'[c.to]
    BY <1>2, <2>1 DEF WindowTypes
  <2>3. Window!InCall(t)'
    BY <1>1, <2>1, <2>2 DEF Window!InCall
  <2> QED
    BY <1>1, <1>3, <2>1, <2>3 DEF Ahead
<1>6. CASE ~Window!Taken(c.to)
  <2>1. todo' = [todo EXCEPT ![t] = Tail(@)] /\ UNCHANGED w_inside
    BY <1>6 DEF Window!BeginCall
  <2>2. todo'[t] = Tail(todo[t])
    BY <1>1, <2>1 DEF WindowTypes
  <2>3. ~(todo'[t] # <<>> /\ t \in w_inside'[Head(todo'[t]).to])
    <3> SUFFICES ASSUME todo'[t] # <<>> PROVE t \notin w_inside'[Head(todo'[t]).to]
      OBVIOUS
    <3>1. Head(todo'[t]) \in WindowCalls
      BY <1>2, <2>2, WithinTail
    <3> QED
      BY <1>4, <2>1, <3>1 DEF WindowCalls
  <2>4. ~Window!InCall(t)'
    BY <2>3 DEF Window!InCall
  <2> QED
    BY <1>1, <1>3, <2>2, <2>4 DEF Ahead
<1> QED
  BY <1>5, <1>6

\* The return from a call changes nothing of what is ahead.
LEMMA AheadEnds ==
  ASSUME WindowTypes, WindowsInside, Window!EndCall(Window!Source)
  PROVE  Ahead' = Ahead
<1> DEFINE t == Window!Source
           c == Head(todo[t])
<1>1. /\ Window!InCall(t) /\ todo[t] # <<>> /\ t \in w_inside[c.to]
      /\ todo[t] \in Seq(WindowCalls) /\ t \in Window!Parties
  BY WindowNames DEF Window!EndCall, Window!InCall, WindowTypes
<1>2. c \in WindowCalls /\ Tail(todo[t]) \in Seq(WindowCalls) /\ c.to \in Window!Targets
  BY <1>1, FirstCall
<1>3. todo' = [todo EXCEPT ![t] = Tail(@)] /\ w_inside' = [w_inside EXCEPT ![c.to] = @ \ {t}]
  BY DEF Window!EndCall
<1>4. todo'[t] = Tail(todo[t])
  BY <1>1, <1>3 DEF WindowTypes
<1>5. \A o \in Window!Targets : t \notin w_inside'[o]
  <2> SUFFICES ASSUME NEW o \in Window!Targets PROVE t \notin w_inside'[o]
    OBVIOUS
  <2>1. t \in w_inside[o] => o = c.to
    BY <1>1 DEF WindowsInside
  <2>2. w_inside'[o] = IF o = c.to THEN w_inside[o] \ {t} ELSE w_inside[o]
    BY <1>3 DEF WindowTypes
  <2> QED
    BY <2>1, <2>2
<1>6. ~(todo'[t] # <<>> /\ t \in w_inside'[Head(todo'[t]).to])
  <2> SUFFICES ASSUME todo'[t] # <<>> PROVE t \notin w_inside'[Head(todo'[t]).to]
    OBVIOUS
  <2>1. Head(todo'[t]) \in WindowCalls
    BY <1>2, <1>4, WithinTail
  <2> QED
    BY <1>5, <2>1 DEF WindowCalls
<1>7. ~Window!InCall(t)'
  BY <1>6 DEF Window!InCall
<1> QED
  BY <1>1, <1>4, <1>7 DEF Ahead

\* What others do leaves the calls of the source alone.
LEMMA AheadKept ==
  ASSUME WindowTypes, todo'[Window!Source] = todo[Window!Source],
         \A o \in Window!Targets : Window!Source \in w_inside'[o] <=> Window!Source \in w_inside[o]
  PROVE  Ahead' = Ahead
<1> DEFINE t == Window!Source
<1>1. todo[t] \in Seq(WindowCalls)
  BY WindowNames DEF WindowTypes
<1>2. todo[t] # <<>> => Head(todo[t]).to \in Window!Targets
  BY <1>1, FirstCall
<1>3. Window!InCall(t)' <=> Window!InCall(t)
  BY <1>2 DEF Window!InCall
<1> QED
  BY <1>3 DEF Ahead

\* The source has nothing to do, and begins to make calls.
LEMMA AheadGoes ==
  ASSUME WindowTypes, WindowsInside, todo[Window!Source] = <<>>, UNCHANGED w_inside,
         NEW q \in Seq(WindowCalls), todo'[Window!Source] = q
  PROVE  Ahead = <<>> /\ Ahead' = q /\ \A w : ~ToPass(w)
<1> DEFINE t == Window!Source
<1>1. Ahead = <<>>
  BY AheadTyped
<1>2. \A o \in Window!Targets : t \notin w_inside[o]
  BY WindowNames DEF WindowsInside
<1>3. ~(q # <<>> /\ t \in w_inside[Head(q).to])
  <2> SUFFICES ASSUME q # <<>> PROVE t \notin w_inside[Head(q).to]
    OBVIOUS
  <2>1. Head(q) \in WindowCalls
    BY WithinTail
  <2> QED
    BY <1>2, <2>1 DEF WindowCalls
<1>4. ~Window!InCall(t)'
  BY <1>3 DEF Window!InCall
<1>5. Ahead' = q
  BY <1>4 DEF Ahead
<1> QED
  BY <1>1, <1>5, WithinFew DEF ToPass

\* The calls after the first one.
LEMMA OnceTail ==
  ASSUME NEW q \in Seq(WindowCalls), q # <<>>, Once(q)
  PROVE  /\ Once(Tail(q))
         /\ Head(q).how # "next" => \A c \in Within(Tail(q)) : c.how # "next"
         /\ Head(q).to # Window!Outer =>
              \A c \in Within(Tail(q)) : ~(c.how = "next" /\ c.to = Head(q).to)
<1>1. /\ DOMAIN q = 1..Len(q) /\ Len(q) \in Nat \ {0} /\ Head(q) = q[1]
  BY EmptySeq, LenProperties
<1>2. /\ Tail(q) \in Seq(WindowCalls) /\ Len(Tail(q)) = Len(q) - 1
      /\ \A k \in 1..Len(Tail(q)) : Tail(q)[k] = q[k + 1]
  BY HeadTailProperties
<1>3. DOMAIN Tail(q) = 1..Len(q) - 1
  BY <1>2, LenProperties
<1>4. \A k \in DOMAIN Tail(q) : k + 1 \in DOMAIN q /\ 1 < k + 1 /\ Tail(q)[k] = q[k + 1]
  BY <1>1, <1>2, <1>3
<1>5. \A i, j \in DOMAIN Tail(q) : i < j => i + 1 < j + 1
  BY <1>1, <1>3
<1>6. 1 \in DOMAIN q
  BY <1>1
<1>7. Once(Tail(q))
  BY <1>4, <1>5 DEF Once
<1>8. \A c \in Within(Tail(q)) : \E k \in DOMAIN q : 1 < k /\ c = q[k]
  BY <1>4 DEF Within
<1>9. \A k \in DOMAIN q : 1 < k =>
        /\ q[k].how = "next" => Head(q).how = "next"
        /\ q[k].how = "next" /\ Head(q).to = q[k].to => Head(q).to = Window!Outer
  BY <1>1, <1>6 DEF Once
<1> QED
  BY <1>7, <1>8, <1>9

\* Steps that pass no value: windows may end, observers come and go.
LEMMA ValuesKept ==
  ASSUME WindowTypes, ValuesInv, UNCHANGED <<w_kind, value, items, w_sent, w_got>>,
         Window!Opened' = Window!Opened, PassedOnce', SourcePasses', ListedOnce',
         \A w \in Window!Wins : ToPass(w)' => ToPass(w),
         \A w \in Window!Wins : subject'[w] = "open" => subject[w] = "open" /\ (ToPass(w)' <=> ToPass(w)),
         w_pc'[Window!Source] = "calling" => w_pc[Window!Source] = "calling" /\ Within(Ahead') \subseteq Within(Ahead),
         w_pc[Window!Source] \in {"ending", "done"} => w_pc'[Window!Source] \in {"ending", "done"},
         Within(listed') \subseteq Within(listed),
         \A w \in Window!Wins :
           w_kind = "window" /\ w_pc'[Window!Source] \notin {"ending", "done"} /\ subject'[w] = "completed" =>
             subject[w] = "completed" \/ Len(w_sent[w]) = WindowSize,
         joined \subseteq joined', w_closed \subseteq w_closed'
  PROVE  ValuesInv'
<1>1. ValuesTyped' /\ Filled'
  <2>1. Filled'
    <3>1. w_kind = "window" =>
            \E n \in 0..NumWindows :
              /\ Window!Opened = 1..n /\ Within(listed) \subseteq {n}
              /\ value = IF n = 0 THEN 0 ELSE WindowSize * (n - 1) + items
              /\ n = 0 => items = WindowSize
      BY DEF ValuesInv, Filled
    <3>2. ASSUME w_kind = "window", w_pc'[Window!Source] = "calling", NEW c \in Within(Ahead'), c.how # "next"
          PROVE  items = WindowSize
      BY <3>2 DEF ValuesInv, Filled
    <3> QED
      BY <3>1, <3>2 DEF Filled
  <2> QED
    BY <2>1 DEF ValuesInv, ValuesTyped
<1>2. ASSUME NEW w \in Window!Wins PROVE ReceivedOf(w)' /\ Ordered(w)' /\ LatestOf(w)' /\ FullOf(w)'
  <2>1. ReceivedOf(w) /\ Ordered(w) /\ LatestOf(w) /\ FullOf(w)
    BY DEF ValuesInv
  <2>2. ReceivedOf(w)'
    BY <2>1 DEF ReceivedOf
  <2>3. Ordered(w)'
    BY <2>1 DEF Ordered, Toggling, Window!Belongs
  <2>4. LatestOf(w)'
    <3> DEFINE v == w_sent[w][Len(w_sent[w])]
    <3>1. w_sent[w] # <<>> => v \in Nat /\ value \in Nat
      <4>1. w_sent[w] \in Seq(Nat) /\ value \in Nat
        BY DEF ValuesInv, ValuesTyped, WindowTypes
      <4>2. w_sent[w] # <<>> => Len(w_sent[w]) \in 1..Len(w_sent[w])
        BY <4>1, EmptySeq, LenProperties
      <4> QED
        BY <4>1, <4>2, ElementOfSeq
    <3>2. /\ w \notin Window!Opened => w_sent[w] = <<>>
          /\ w_sent[w] # <<>> =>
               /\ ToPass(w) => v < value
               /\ ~ToPass(w) => v <= value
               /\ Toggling /\ subject[w] = "open" => v = IF ToPass(w) THEN value - 1 ELSE value
          /\ ToPass(w) /\ ~Toggling => Window!Belongs(w, value)
      BY <2>1 DEF LatestOf
    <3>3. w_sent[w] # <<>> => (ToPass(w) => v <= value)
      <4> HIDE DEF v
      <4> QED
        BY <3>1, <3>2
    <3> HIDE DEF v
    <3>4. /\ w_sent[w] # <<>> =>
               /\ ToPass(w)' => v < value
               /\ ~ToPass(w)' => v <= value
               /\ Toggling /\ subject'[w] = "open" => v = IF ToPass(w)' THEN value - 1 ELSE value
          /\ ToPass(w)' /\ ~Toggling => Window!Belongs(w, value)
      BY <3>2, <3>3
    <3>5. UNCHANGED <<v, w_sent[w], Window!Belongs(w, value), Toggling>>
      BY DEF v, Window!Belongs, Toggling
    <3> QED
      BY <3>2, <3>4, <3>5 DEF LatestOf, v
  <2>5. FullOf(w)'
    BY <2>1 DEF FullOf
  <2> QED
    BY <2>2, <2>3, <2>4, <2>5
<1> QED
  BY <1>1, <1>2 DEF ValuesInv

\* Taking one away leaves the others once.
LEMMA RemovedOnce ==
  ASSUME NEW q \in Seq(Window!Wins), NEW x, \A i, j \in DOMAIN q : q[i] = q[j] => i = j
  PROVE  LET r == Window!RemoveFirst(q, x) IN \A i, j \in DOMAIN r : r[i] = r[j] => i = j
<1> DEFINE r == Window!RemoveFirst(q, x)
<1>0. Len(q) \in Nat /\ DOMAIN q = 1..Len(q)
  BY LenProperties
<1>1. CASE \E i \in 1..Len(q) : q[i] = x
  <2> DEFINE T == {i \in 1..Len(q) : q[i] = x}
             k == Window!Min(T)
             a == SubSeq(q, 1, k - 1)
             b == SubSeq(q, k + 1, Len(q))
  <2>1. k \in T
    <3>1. T \subseteq Nat /\ T # {}
      BY <1>0, <1>1
    <3> QED
      BY <3>1, LeastOf
  <2>2. r = a \o b
    BY <1>1 DEF Window!RemoveFirst, Window!RemoveAt, Window!SelectInSeq
  <2>3. k \in 1..Len(q)
    BY <2>1
  <2> HIDE DEF k, T, r
  <2>4. 1 \in 1..Len(q) + 1 /\ k - 1 \in 0..Len(q) /\ k + 1 \in 1..Len(q) + 1 /\ Len(q) \in 0..Len(q)
    BY <1>0, <2>3
  <2>5. /\ a \in Seq(Window!Wins) /\ Len(a) = IF 1 <= k - 1 THEN (k - 1) - 1 + 1 ELSE 0
        /\ \A i \in 1..(k - 1) - 1 + 1 : a[i] = q[1 + i - 1]
    BY <2>4, SubSeqProperties
  <2>6. /\ b \in Seq(Window!Wins) /\ Len(b) = IF k + 1 <= Len(q) THEN Len(q) - (k + 1) + 1 ELSE 0
        /\ \A i \in 1..Len(q) - (k + 1) + 1 : b[i] = q[(k + 1) + i - 1]
    BY <2>4, SubSeqProperties
  <2> HIDE DEF a, b
  <2>7. Len(a) = k - 1 /\ Len(b) = Len(q) - k /\ \A i \in 1..k - 1 : a[i] = q[i]
    <3>1. (k - 1) - 1 + 1 = k - 1 /\ \A i \in 1..k - 1 : 1 + i - 1 = i
      BY <1>0, <2>3
    <3>2. \A i \in 1..k - 1 : a[i] = q[i]
      BY <2>5, <3>1
    <3>3. k \in Int /\ Len(q) \in Int /\ 1 <= k /\ k <= Len(q)
      BY <1>0, <2>3
    <3>4. (IF 1 <= k - 1 THEN (k - 1) - 1 + 1 ELSE 0) = k - 1
      BY <3>3
    <3>5. (IF k + 1 <= Len(q) THEN Len(q) - (k + 1) + 1 ELSE 0) = Len(q) - k
      BY <3>3
    <3> QED
      BY <2>5, <2>6, <3>2, <3>4, <3>5
  <2>8. \A i \in 1..Len(q) - k : b[i] = q[k + i]
    <3>1. Len(q) - (k + 1) + 1 = Len(q) - k /\ \A i \in 1..Len(q) - k : (k + 1) + i - 1 = k + i
      BY <1>0, <2>3
    <3> QED
      BY <2>6, <3>1
  <2>9. /\ r \in Seq(Window!Wins) /\ Len(r) = Len(a) + Len(b)
        /\ \A i \in 1..Len(a) + Len(b) : r[i] = IF i <= Len(a) THEN a[i] ELSE b[i - Len(a)]
    BY <2>2, <2>5, <2>6, ConcatProperties
  <2>10. DOMAIN r = 1..Len(q) - 1
    BY <1>0, <2>3, <2>7, <2>9, LenProperties
  <2>11. ASSUME NEW i \in 1..Len(q) - 1 PROVE r[i] = q[IF i < k THEN i ELSE i + 1]
    <3>1. CASE i < k
      <4>1. i \in 1..k - 1 /\ i \in 1..Len(a) + Len(b) /\ i <= Len(a)
        BY <1>0, <2>3, <2>7, <3>1
      <4> QED
        BY <2>7, <2>9, <3>1, <4>1
    <3>2. CASE ~(i < k)
      <4>1. /\ i - (k - 1) \in 1..Len(q) - k /\ i \in 1..Len(a) + Len(b) /\ ~(i <= Len(a))
            /\ k + (i - (k - 1)) = i + 1 /\ i - Len(a) = i - (k - 1)
        BY <1>0, <2>3, <2>7, <3>2
      <4>2. r[i] = b[i - (k - 1)]
        BY <2>9, <4>1
      <4>3. b[i - (k - 1)] = q[k + (i - (k - 1))]
        BY <2>8, <4>1
      <4> QED
        BY <3>2, <4>1, <4>2, <4>3
    <3> QED
      BY <3>1, <3>2
  <2>12. ASSUME NEW i \in DOMAIN r, NEW j \in DOMAIN r, r[i] = r[j] PROVE i = j
    <3> DEFINE m == IF i < k THEN i ELSE i + 1
               n == IF j < k THEN j ELSE j + 1
    <3>1. i \in 1..Len(q) - 1 /\ j \in 1..Len(q) - 1
      BY <2>10
    <3>2. r[i] = q[m] /\ r[j] = q[n]
      BY <2>11, <3>1
    <3>3. m \in DOMAIN q /\ n \in DOMAIN q
      BY <1>0, <2>3, <3>1
    <3>4. m = n
      <4> HIDE DEF m, n
      <4> QED
        BY <2>12, <3>2, <3>3
    <3> QED
      BY <1>0, <2>3, <3>1, <3>4
  <2> QED
    BY <2>12 DEF r
<1>2. CASE ~\E i \in 1..Len(q) : q[i] = x
  <2>1. r = q
    BY <1>2 DEF Window!RemoveFirst
  <2> HIDE DEF r
  <2> QED
    BY <2>1 DEF r
<1> QED
  BY <1>1, <1>2

\* Steps that leave the calls of the source as they are.
LEMMA ValuesApart ==
  ASSUME WindowTypes, ValuesInv, UNCHANGED <<w_kind, value, items, w_sent, w_got>>,
         Window!Opened' = Window!Opened, Ahead' = Ahead, SourcePasses', ListedOnce',
         w_pc'[Window!Source] = "calling" => w_pc[Window!Source] = "calling",
         w_pc[Window!Source] \in {"ending", "done"} => w_pc'[Window!Source] \in {"ending", "done"},
         Within(listed') \subseteq Within(listed),
         \A w \in Window!Wins :
           subject'[w] = subject[w] \/ (subject[w] = "open" /\ (subject'[w] = "disposed" \/ w_kind # "window")),
         \A w \in Window!Wins : subject'[w] = "open" => subject[w] = "open",
         joined \subseteq joined', w_closed \subseteq w_closed'
  PROVE  ValuesInv'
<1>1. PassedOnce'
  BY DEF ValuesInv, PassedOnce, Once
<1>2. \A w \in Window!Wins : ToPass(w)' <=> ToPass(w)
  BY DEF ToPass
<1>3. \A w \in Window!Wins :
        w_kind = "window" /\ w_pc'[Window!Source] \notin {"ending", "done"} /\ subject'[w] = "completed" =>
          subject[w] = "completed"
  OBVIOUS
<1> QED
  BY <1>1, <1>2, <1>3, ValuesKept

\* A party returns from a call of an observer.
LEMMA ValuesReturnFromCall ==
  ASSUME WindowInv, ValuesInv, NEW t \in Window!Parties, Window!EndCall(t), UNCHANGED w_kind
  PROVE  ValuesInv'
<1> DEFINE c == Head(todo[t])
<1>0. WindowTypes /\ WindowsInside
  BY DEF WindowInv
<1>1. /\ todo[t] # <<>> /\ todo[t] \in Seq(WindowCalls) /\ todo' = [todo EXCEPT ![t] = Tail(@)]
      /\ w_inside' = [w_inside EXCEPT ![c.to] = @ \ {t}]
      /\ UNCHANGED <<w_kind, value, listed, items, w_sent, w_got, joined, w_pc>>
  BY <1>0 DEF Window!EndCall, Window!InCall, WindowTypes
<1>2. w_closed \subseteq w_closed'
  BY DEF Window!EndCall
<1>3. \A w \in Window!Wins : subject'[w] = subject[w] \/ (subject[w] = "open" /\ subject'[w] = "disposed")
  <2>1. UNCHANGED subject \/ Window!DisposeSubjects
    BY DEF Window!EndCall
  <2> QED
    BY <2>1 DEF Window!DisposeSubjects
<1>4. \A s \in Window!Parties : Within(todo'[s]) \subseteq Within(todo[s])
  <2>1. Within(Tail(todo[t])) \subseteq Within(todo[t])
    BY <1>1, FirstCall
  <2> QED
    BY <1>0, <1>1, <2>1 DEF WindowTypes
<1>5. SourcePasses'
  BY <1>4 DEF ValuesInv, SourcePasses
<1>6. Ahead' = Ahead
  <2>1. CASE t = Window!Source
    BY <1>0, <2>1, AheadEnds
  <2>2. CASE t # Window!Source
    <3>1. todo'[Window!Source] = todo[Window!Source]
      BY <1>0, <1>1, <2>2, WindowNames DEF WindowTypes
    <3> HIDE DEF c
    <3>2. \A o \in Window!Targets : Window!Source \in w_inside'[o] <=> Window!Source \in w_inside[o]
      BY <1>0, <1>1, <2>2 DEF WindowTypes
    <3> QED
      BY <1>0, <3>1, <3>2, AheadKept
  <2> QED
    BY <2>1, <2>2
<1>7. Window!Opened' = Window!Opened /\ \A w \in Window!Wins : subject'[w] = "open" => subject[w] = "open"
  BY <1>3 DEF Window!Opened
<1>8. ListedOnce'
  BY <1>1 DEF ValuesInv, ListedOnce
<1> HIDE DEF c
<1> QED
  BY <1>0, <1>1, <1>2, <1>3, <1>5, <1>6, <1>7, <1>8, ValuesApart

\* A party has made all its calls.
LEMMA ValuesReturn ==
  ASSUME WindowInv, ValuesInv, NEW t \in Window!Parties, Window!Return(t), UNCHANGED w_kind
  PROVE  ValuesInv'
<1>0. WindowTypes
  BY DEF WindowInv
<1>1. /\ w_pc[t] \in {"calling", "ending"} /\ todo[t] = <<>> /\ todo' = [todo EXCEPT ![t] = <<>>]
      /\ w_pc' = [w_pc EXCEPT ![t] = IF w_pc[t] = "calling" THEN "idle" ELSE "done"]
      /\ UNCHANGED <<w_kind, value, listed, subject, items, w_sent, w_got, joined, w_closed, w_inside>>
  BY DEF Window!Return, Window!Go, Window!windows, Window!Rest, Window!observers
<1>2. \A s \in Window!Parties : todo'[s] = todo[s]
  BY <1>0, <1>1 DEF WindowTypes
<1>3. SourcePasses' /\ ListedOnce'
  BY <1>1, <1>2 DEF ValuesInv, SourcePasses, ListedOnce
<1>4. Ahead' = Ahead
  BY <1>0, <1>1, <1>2, WindowNames, AheadKept
<1>5. Window!Opened' = Window!Opened
  BY <1>1 DEF Window!Opened
<1>6. /\ w_pc'[Window!Source] = "calling" => w_pc[Window!Source] = "calling"
      /\ w_pc[Window!Source] \in {"ending", "done"} => w_pc'[Window!Source] \in {"ending", "done"}
  BY <1>0, <1>1, WindowNames DEF WindowTypes
<1> QED
  BY <1>0, <1>1, <1>3, <1>4, <1>5, <1>6, ValuesApart

\* window_toggle puts a window on the list.
LEMMA ValuesAdded ==
  ASSUME WindowInv, ValuesInv, Window!OpeningAdds, UNCHANGED w_kind
  PROVE  ValuesInv'
<1> DEFINE m == Window!Fresh - 1
<1>0. WindowTypes /\ WindowTurns
  BY DEF WindowInv
<1>1. /\ UNCHANGED <<w_kind, value, listed, items, todo, w_sent, w_got, w_closed, w_inside, joined>>
      /\ w_pc[Window!Openings] = "opening"
      /\ w_pc' = [w_pc EXCEPT ![Window!Openings] = "idle", ![m] = "idle"]
      /\ subject' = [subject EXCEPT ![m] = IF w_disposed /\ @ = "open" THEN "disposed" ELSE @]
  BY DEF Window!OpeningAdds, Window!Rest, Window!observers
<1>2. m \in Window!Wins
  <2>1. PICK n \in Window!Wins : Window!Opened = 1..n /\ w_pc[n] = "none"
    BY <1>0, <1>1 DEF WindowTurns
  <2>2. n \in Nat
    BY DEF Window!Wins
  <2>3. Window!Fresh = n + 1
    BY <2>1, <2>2, FirstWindows
  <2>4. m = n
    BY <2>2, <2>3
  <2> QED
    BY <2>1, <2>4
<1> HIDE DEF m
<1>3. \A w \in Window!Wins : subject'[w] = subject[w] \/ (subject[w] = "open" /\ subject'[w] = "disposed")
  BY <1>0, <1>1, <1>2 DEF WindowTypes
<1>4. w_pc'[Window!Source] = w_pc[Window!Source]
  BY <1>0, <1>1, <1>2, WindowNames DEF WindowTypes
<1>5. SourcePasses' /\ ListedOnce'
  BY <1>1 DEF ValuesInv, SourcePasses, ListedOnce
<1>6. Ahead' = Ahead
  BY <1>0, <1>1, AheadKept
<1>7. Window!Opened' = Window!Opened /\ \A w \in Window!Wins : subject'[w] = "open" => subject[w] = "open"
  BY <1>3 DEF Window!Opened
<1> QED
  BY <1>0, <1>1, <1>3, <1>4, <1>5, <1>6, <1>7, ValuesApart

\* window_toggle takes a window off the list.
LEMMA ValuesErased ==
  ASSUME WindowInv, ValuesInv, NEW w \in Window!Wins, Window!Erase(w), UNCHANGED w_kind
  PROVE  ValuesInv'
<1>0. WindowTypes
  BY DEF WindowInv
<1>1. /\ UNCHANGED <<w_kind, value, subject, items, w_sent, w_got, w_closed, w_inside, joined>>
      /\ listed' = Window!RemoveFirst(listed, w)
      /\ todo' = [todo EXCEPT ![w] = <<>>] /\ w_pc' = [w_pc EXCEPT ![w] = "done"]
  BY DEF Window!Erase, Window!Go, Window!Rest, Window!observers
<1>2. w_pc'[Window!Source] = w_pc[Window!Source] /\ todo'[Window!Source] = todo[Window!Source]
  BY <1>0, <1>1, WindowNames DEF WindowTypes
<1>3. listed \in Seq(Window!Wins) /\ \A i, j \in DOMAIN listed : listed[i] = listed[j] => i = j
  BY <1>0 DEF WindowTypes, ValuesInv, ListedOnce
<1>4. ListedOnce'
  BY <1>1, <1>3, RemovedOnce DEF ListedOnce
<1>5. Within(listed') \subseteq Within(listed)
  BY <1>1, <1>3, WithinRemoved
<1>6. SourcePasses'
  <2>1. \A s \in Window!Parties : todo'[s] = todo[s] \/ todo'[s] = <<>>
    BY <1>0, <1>1 DEF WindowTypes
  <2>2. \A s \in Window!Parties : Within(todo'[s]) = Within(todo[s]) \/ Within(todo'[s]) = {}
    BY <2>1, WithinFew
  <2> QED
    BY <2>2 DEF ValuesInv, SourcePasses
<1>7. Ahead' = Ahead
  BY <1>0, <1>1, <1>2, AheadKept
<1>8. Window!Opened' = Window!Opened
  BY <1>1 DEF Window!Opened
<1> QED
  BY <1>0, <1>1, <1>2, <1>4, <1>5, <1>6, <1>7, <1>8, ValuesApart

\* The openings and the closings make calls that pass no values.
LEMMA ValuesElsewhere ==
  ASSUME WindowInv, ValuesInv, NEW t \in Window!Parties \ {Window!Source}, NEW label, NEW q,
         Window!Go(t, label, q), \A c \in Within(q) : c.how # "next",
         UNCHANGED <<w_kind, value, Window!windows, Window!observers>>
  PROVE  ValuesInv'
<1>0. WindowTypes
  BY DEF WindowInv
<1>1. /\ UNCHANGED <<w_kind, value, listed, subject, items, w_sent, w_got, w_closed, w_inside, joined>>
      /\ todo' = [todo EXCEPT ![t] = q] /\ w_pc' = [w_pc EXCEPT ![t] = label]
  BY DEF Window!Go, Window!windows, Window!observers
<1>2. w_pc'[Window!Source] = w_pc[Window!Source] /\ todo'[Window!Source] = todo[Window!Source]
  BY <1>0, <1>1, WindowNames DEF WindowTypes
<1>3. \A s \in Window!Parties : todo'[s] = todo[s] \/ (s = t /\ todo'[s] = q)
  BY <1>0, <1>1 DEF WindowTypes
<1>4. SourcePasses' /\ ListedOnce'
  BY <1>1, <1>3 DEF ValuesInv, SourcePasses, ListedOnce
<1>5. Ahead' = Ahead
  BY <1>0, <1>1, <1>2, AheadKept
<1>6. Window!Opened' = Window!Opened
  BY <1>1 DEF Window!Opened
<1> QED
  BY <1>0, <1>1, <1>2, <1>4, <1>5, <1>6, ValuesApart

\* A closing is about to complete its window.
LEMMA ValuesCloses ==
  ASSUME WindowInv, ValuesInv, NEW w \in Window!Wins, Window!Closing(w), UNCHANGED w_kind
  PROVE  ValuesInv'
<1>1. Window!End(w, "completed").how # "next"
  BY DEF Window!End, Window!Call
<1>2. \A c \in Within(<<Window!End(w, "completed")>>) : c.how # "next"
  BY <1>1, WithinFew
<1>3. w \in Window!Parties \ {Window!Source}
  BY WindowNames
<1> QED
  BY <1>2, <1>3, ValuesElsewhere DEF Window!Closing, Window!Rest

\* Observers come and go.
LEMMA ValuesJoined ==
  ASSUME WindowInv, ValuesInv, NEW w \in Window!Wins, Window!SubscribeWindow(w), UNCHANGED w_kind
  PROVE  ValuesInv'
<1>0. WindowTypes
  BY DEF WindowInv
<1>1. /\ UNCHANGED <<w_kind, value, listed, subject, items, w_sent, w_got, w_inside, todo, w_pc>>
      /\ joined \subseteq joined' /\ w_closed \subseteq w_closed'
  BY DEF Window!SubscribeWindow, Window!windows
<1>2. SourcePasses' /\ ListedOnce' /\ Window!Opened' = Window!Opened
  BY <1>1 DEF ValuesInv, SourcePasses, ListedOnce, Window!Opened
<1>3. Ahead' = Ahead
  BY <1>0, <1>1, AheadKept
<1> QED
  BY <1>0, <1>1, <1>2, <1>3, ValuesApart

\* An observer of a window, or of the result, leaves.
LEMMA ValuesLeft ==
  ASSUME WindowInv, ValuesInv, NEW o \in Window!Targets, Window!Leave(o), UNCHANGED w_kind
  PROVE  ValuesInv'
<1>0. WindowTypes
  BY DEF WindowInv
<1>1. /\ UNCHANGED <<w_kind, value, listed, items, w_sent, w_got, w_inside, joined, todo, w_pc>>
      /\ w_closed \subseteq w_closed' /\ Window!DisposeSubjects
  BY DEF Window!Leave
<1>2. \A w \in Window!Wins : subject'[w] = subject[w] \/ (subject[w] = "open" /\ subject'[w] = "disposed")
  BY <1>1 DEF Window!DisposeSubjects
<1>3. SourcePasses' /\ ListedOnce'
  BY <1>1 DEF ValuesInv, SourcePasses, ListedOnce
<1>4. Ahead' = Ahead
  BY <1>0, <1>1, AheadKept
<1>5. Window!Opened' = Window!Opened /\ \A w \in Window!Wins : subject'[w] = "open" => subject[w] = "open"
  BY <1>2 DEF Window!Opened
<1> QED
  BY <1>0, <1>1, <1>2, <1>3, <1>4, <1>5, ValuesApart

\* The source has passed everything when it ends.
LEMMA ValuesSourceEnds ==
  ASSUME WindowInv, ValuesInv, Window!SourceEnds, UNCHANGED w_kind
  PROVE  ValuesInv'
<1>0. WindowTypes /\ WindowTurns /\ WindowsInside
  BY DEF WindowInv
<1>1. PICK how \in {"completed", "error"} : Window!Go(Window!Source, "ending", Window!EndAll(how))
  BY DEF Window!SourceEnds
<1> DEFINE q == Window!EndAll(how)
<1>2. /\ w_pc[Window!Source] = "idle"
      /\ UNCHANGED <<w_kind, value, listed, subject, items, w_sent, w_got, w_closed, w_inside, joined>>
  BY DEF Window!SourceEnds, Window!Rest, Window!windows, Window!observers
<1>3. q \in Seq(WindowCalls) /\ \A c \in Within(q) : c.how # "next"
  BY <1>0, WithinEndAll
<1>4. /\ todo' = [todo EXCEPT ![Window!Source] = q] /\ w_pc' = [w_pc EXCEPT ![Window!Source] = "ending"]
  BY <1>1 DEF Window!Go
<1> HIDE DEF q
<1>5. w_pc'[Window!Source] = "ending" /\ todo'[Window!Source] = q /\ todo[Window!Source] = <<>>
      /\ \A s \in Window!Parties \ {Window!Source} : todo'[s] = todo[s]
  BY <1>0, <1>2, <1>4, WindowNames DEF WindowTypes, WindowTurns
<1>6. Ahead' = q /\ \A w : ~ToPass(w)
  BY <1>0, <1>2, <1>3, <1>5, AheadGoes
<1>7. \A w \in Window!Wins : ToPass(w)' <=> ToPass(w)
  BY <1>3, <1>6 DEF ToPass
<1>8. PassedOnce'
  <2>1. \A i \in DOMAIN q : q[i].how # "next"
    BY <1>3 DEF Within
  <2> QED
    BY <1>6, <2>1 DEF PassedOnce, Once
<1>9. SourcePasses' /\ ListedOnce' /\ Window!Opened' = Window!Opened
  BY <1>2, <1>5 DEF ValuesInv, SourcePasses, ListedOnce, Window!Opened
<1> QED
  BY <1>0, <1>2, <1>5, <1>7, <1>8, <1>9, ValuesKept

\* The openings or a closing end with an error.
LEMMA ValuesEndElsewhere ==
  ASSUME WindowInv, ValuesInv, NEW t \in Window!Parties \ {Window!Source},
         Window!OpeningOrClosingError(t), UNCHANGED w_kind
  PROVE  ValuesInv'
<1>1. \A c \in Within(Window!EndAll("error")) : c.how # "next"
  BY WithinEndAll DEF WindowInv
<1> QED
  BY <1>1, ValuesElsewhere DEF Window!OpeningOrClosingError, Window!Rest

\* A call of another thread is an offer or an end.
LEMMA ValuesBeginElsewhere ==
  ASSUME WindowInv, ValuesInv, NEW t \in Window!Parties \ {Window!Source}, Window!BeginCall(t), UNCHANGED w_kind
  PROVE  ValuesInv'
<1> DEFINE c == Head(todo[t])
<1>0. WindowTypes /\ WindowTurns
  BY DEF WindowInv
<1>1. /\ todo[t] # <<>> /\ todo[t] \in Seq(WindowCalls)
      /\ UNCHANGED <<w_kind, value, listed, items, w_closed, joined, w_pc>>
  BY <1>0 DEF Window!BeginCall, WindowTypes
<1>2. c \in Within(todo[t]) /\ Within(Tail(todo[t])) \subseteq Within(todo[t])
      /\ c.to \in Window!Targets /\ c.how \in {"next", "completed", "error"}
  BY <1>1, FirstCall
<1>3. c.how = "next" => c.to = Window!Outer
  BY <1>2 DEF ValuesInv, SourcePasses
<1>4. /\ \/ UNCHANGED todo /\ w_inside' = [w_inside EXCEPT ![c.to] = @ \union {t}]
         \/ todo' = [todo EXCEPT ![t] = Tail(@)] /\ UNCHANGED w_inside
      /\ w_sent' = IF c.to # Window!Outer /\ Window!Open(c.to) /\ c.how = "next"
                   THEN [w_sent EXCEPT ![c.to] = Append(@, value)] ELSE w_sent
      /\ \/ UNCHANGED w_got
         \/ c.to # Window!Outer /\ c.how = "next"
      /\ subject' = IF c.to # Window!Outer /\ Window!Open(c.to) /\ c.how # "next"
                    THEN [subject EXCEPT ![c.to] = c.how] ELSE subject
  BY DEF Window!BeginCall
<1>5. c.to # Window!Outer => (Window!Open(c.to) <=> subject[c.to] = "open")
  BY DEF Window!Open
<1> HIDE DEF c
<1>6. UNCHANGED <<w_sent, w_got>>
  BY <1>3, <1>4
<1>7. w_kind # "window"
  BY <1>0, <1>1 DEF WindowTurns, Toggling
<1>8. \A w \in Window!Wins :
        subject'[w] = subject[w] \/ (subject[w] = "open" /\ subject'[w] \in {"completed", "error"})
  BY <1>0, <1>2, <1>4, <1>5 DEF WindowTypes
<1>9. \A s \in Window!Parties : Within(todo'[s]) \subseteq Within(todo[s])
  BY <1>0, <1>2, <1>4 DEF WindowTypes
<1>10. todo'[Window!Source] = todo[Window!Source]
       /\ \A o \in Window!Targets : Window!Source \in w_inside'[o] <=> Window!Source \in w_inside[o]
  <2>1. CASE UNCHANGED todo /\ w_inside' = [w_inside EXCEPT ![c.to] = @ \union {t}]
    <3>1. \A o \in Window!Targets : w_inside'[o] = w_inside[o] \/ w_inside'[o] = w_inside[o] \union {t}
      BY <1>0, <1>2, <2>1 DEF WindowTypes
    <3> QED
      BY <2>1, <3>1
  <2>2. CASE todo' = [todo EXCEPT ![t] = Tail(@)] /\ UNCHANGED w_inside
    BY <1>0, <2>2, WindowNames DEF WindowTypes
  <2> QED
    BY <1>4, <2>1, <2>2
<1>11. Ahead' = Ahead
  BY <1>0, <1>10, AheadKept
<1>12. SourcePasses' /\ ListedOnce'
  BY <1>1, <1>9 DEF ValuesInv, SourcePasses, ListedOnce
<1>13. Window!Opened' = Window!Opened /\ \A w \in Window!Wins : subject'[w] = "open" => subject[w] = "open"
  BY <1>8 DEF Window!Opened
<1> QED
  BY <1>0, <1>1, <1>6, <1>7, <1>8, <1>11, <1>12, <1>13, ValuesApart

\* The ends stay ends when both get the same value.
LEMMA TailsAppend ==
  ASSUME NEW p \in Seq(Nat), NEW q \in Seq(Nat), NEW v \in Nat, Tails(p, q)
  PROVE  Tails(Append(p, v), Append(q, v))
<1>1. /\ Len(Append(p, v)) = Len(p) + 1 /\ Len(Append(q, v)) = Len(q) + 1
      /\ \A i \in 1..Len(p) : Append(p, v)[i] = p[i]
      /\ \A i \in 1..Len(q) : Append(q, v)[i] = q[i]
      /\ Append(p, v)[Len(p) + 1] = v /\ Append(q, v)[Len(q) + 1] = v
  BY AppendProperties
<1>2. Len(p) \in Nat /\ Len(q) \in Nat /\ Len(p) <= Len(q)
  BY LenProperties DEF Tails
<1>3. ASSUME NEW i \in 1..Len(p) + 1 PROVE Append(p, v)[i] = Append(q, v)[i + (Len(q) - Len(p))]
  <2>1. CASE i \in 1..Len(p)
    <3>1. i + (Len(q) - Len(p)) \in 1..Len(q)
      BY <1>2, <2>1
    <3>2. p[i] = q[i + (Len(q) - Len(p))]
      BY <2>1 DEF Tails
    <3> QED
      BY <1>1, <2>1, <3>1, <3>2
  <2>2. CASE i = Len(p) + 1
    <3>1. i + (Len(q) - Len(p)) = Len(q) + 1
      BY <1>2, <2>2
    <3> QED
      BY <1>1, <2>2, <3>1
  <2>3. i \in 1..Len(p) \/ i = Len(p) + 1
    BY <1>2
  <2> QED
    BY <2>1, <2>2, <2>3
<1>4. (Len(q) + 1) - (Len(p) + 1) = Len(q) - Len(p) /\ Len(p) + 1 <= Len(q) + 1
  BY <1>2
<1> QED
  BY <1>1, <1>3, <1>4 DEF Tails

\* Nothing at all is the last part of any sequence.
LEMMA TailsOfNothing ==
  ASSUME NEW q \in Seq(Nat)
  PROVE  Tails(<<>>, q)
<1>1. Len(<<>>) = 0 /\ Len(q) \in Nat
  BY LenProperties
<1> QED
  BY <1>1 DEF Tails

\* The source makes a call: it passes a value to an open window ...
LEMMA ValuesPassed ==
  ASSUME WindowInv, ValuesInv, Window!BeginCall(Window!Source), UNCHANGED w_kind,
         NEW w \in Window!Wins, Head(todo[Window!Source]).to = w,
         Head(todo[Window!Source]).how = "next", subject[w] = "open"
  PROVE  ValuesInv'
<1> DEFINE t == Window!Source
           c == Head(todo[t])
<1>0. WindowTypes /\ WindowsInside
  BY DEF WindowInv
<1>1. /\ todo[t] # <<>> /\ todo[t] \in Seq(WindowCalls) /\ Ahead = todo[t] /\ Ahead' = Tail(todo[t])
  BY <1>0, AheadBegins, WindowNames DEF WindowTypes
<1>2. w # Window!Outer /\ Window!Open(w)
  BY WindowNames DEF Window!Open
<1>3. /\ UNCHANGED <<w_kind, value, listed, items, w_closed, joined, w_pc, subject>>
      /\ w_sent' = [w_sent EXCEPT ![w] = Append(@, value)]
      /\ w_got' = IF Window!Taken(w) THEN [w_got EXCEPT ![w] = Append(@, value)] ELSE w_got
      /\ todo' = todo \/ todo' = [todo EXCEPT ![t] = Tail(@)]
  BY <1>2 DEF Window!BeginCall
<1>4. Window!Taken(w) <=> w \notin w_closed /\ w \in joined
  BY <1>2 DEF Window!Taken
<1>5. Once(Ahead) /\ w_sent \in [Window!Wins -> Seq(Nat)] /\ w_got \in [Window!Wins -> Seq(Nat)] /\ value \in Nat
  BY <1>0 DEF ValuesInv, PassedOnce, ValuesTyped, WindowTypes
<1>6. Within(Ahead) = Within(Ahead') \union {c} /\ Once(Ahead')
      /\ \A d \in Within(Ahead') : ~(d.how = "next" /\ d.to = w)
  BY <1>1, <1>2, <1>5, FirstCall, OnceTail
<1> HIDE DEF c
<1>7. ToPass(w) /\ ~ToPass(w)'
  BY <1>6 DEF ToPass, c
<1>8. \A v \in Window!Wins : v # w => (ToPass(v)' <=> ToPass(v))
  BY <1>6 DEF ToPass, c
<1>9. /\ w_sent'[w] = Append(w_sent[w], value) /\ w_sent[w] \in Seq(Nat) /\ w_sent' \in [Window!Wins -> Seq(Nat)]
      /\ \A v \in Window!Wins : v # w => w_sent'[v] = w_sent[v] /\ w_got'[v] = w_got[v]
      /\ w_got'[w] = (IF Window!Taken(w) THEN Append(w_got[w], value) ELSE w_got[w]) /\ w_got[w] \in Seq(Nat)
      /\ w_got' \in [Window!Wins -> Seq(Nat)]
  <2>1. \A q \in Seq(Nat) : Append(q, value) \in Seq(Nat)
    BY <1>5, AppendProperties
  <2> QED
    BY <1>3, <1>5, <2>1
<1>10. /\ Len(w_sent[w]) \in Nat /\ Len(w_sent'[w]) = Len(w_sent[w]) + 1 /\ w_sent'[w] # <<>>
       /\ \A i \in 1..Len(w_sent[w]) : w_sent'[w][i] = w_sent[w][i]
       /\ w_sent'[w][Len(w_sent[w]) + 1] = value
  <2>1. Len(w_sent[w]) \in Nat
    BY <1>9, LenProperties
  <2>2. /\ Len(Append(w_sent[w], value)) = Len(w_sent[w]) + 1
        /\ \A i \in 1..Len(w_sent[w]) : Append(w_sent[w], value)[i] = w_sent[w][i]
        /\ Append(w_sent[w], value)[Len(w_sent[w]) + 1] = value
    BY <1>5, <1>9, AppendProperties
  <2>3. Append(w_sent[w], value) # <<>>
    <3>1. Len(<<>>) = 0 /\ Len(w_sent[w]) + 1 # 0
      BY <2>1
    <3> QED
      BY <2>2, <3>1
  <2> QED
    BY <1>9, <2>1, <2>2, <2>3
<1>11. ReceivedOf(w) /\ Ordered(w) /\ LatestOf(w) /\ FullOf(w)
  BY DEF ValuesInv
<1>12. ReceivedOf(w)'
  <2>1. CASE w \notin joined
    BY Zenon, <1>3, <1>4, <1>9, <1>11, <2>1, TailsOfNothing DEF ReceivedOf
  <2>2. CASE w \in w_closed
    BY <1>3, <1>4, <1>9, <1>11, <2>2 DEF ReceivedOf
  <2>3. CASE w \in joined /\ w \notin w_closed
    <3>1. Tails(w_got[w], w_sent[w])
      BY <1>11, <2>3 DEF ReceivedOf
    <3>2. Tails(w_got'[w], w_sent'[w])
      BY <1>4, <1>5, <1>9, <2>3, <3>1, TailsAppend
    <3> QED
      BY <1>3, <2>3, <3>2 DEF ReceivedOf
  <2> QED
    BY <2>1, <2>2, <2>3
<1>13. ASSUME w_sent[w] # <<>>
       PROVE  /\ Len(w_sent[w]) \in 1..Len(w_sent[w]) /\ w_sent[w][Len(w_sent[w])] \in Nat
              /\ w_sent[w][Len(w_sent[w])] < value
              /\ Toggling => w_sent[w][Len(w_sent[w])] = value - 1
  <2>1. Len(w_sent[w]) \in 1..Len(w_sent[w])
    BY <1>9, <1>10, <1>13, EmptySeq
  <2>2. w_sent[w][Len(w_sent[w])] \in Nat
    BY <1>9, <2>1, ElementOfSeq
  <2> QED
    BY <1>7, <1>11, <1>13, <2>1, <2>2 DEF LatestOf
<1>14. Ordered(w)'
  <2>1. Toggling' <=> Toggling
    BY <1>3 DEF Toggling
  <2>2. \A x : Window!Belongs(w, x)' <=> Window!Belongs(w, x)
    BY <1>3 DEF Window!Belongs
  <2>3. ~Toggling => Window!Belongs(w, value)
    BY <1>7, <1>11 DEF LatestOf
  <2>4. ASSUME NEW i \in 1..Len(w_sent[w]) + 1
        PROVE  IF Toggling THEN i > 1 => w_sent'[w][i] = w_sent'[w][i - 1] + 1
               ELSE Window!Belongs(w, w_sent'[w][i]) /\ (i > 1 => w_sent'[w][i] > w_sent'[w][i - 1])
    <3>1. CASE i \in 1..Len(w_sent[w])
      <4>1. i > 1 => i - 1 \in 1..Len(w_sent[w])
        BY <1>10, <3>1
      <4>2. w_sent'[w][i] = w_sent[w][i] /\ (i > 1 => w_sent'[w][i - 1] = w_sent[w][i - 1])
        BY <1>10, <3>1, <4>1
      <4>3. IF Toggling THEN i > 1 => w_sent[w][i] = w_sent[w][i - 1] + 1
            ELSE Window!Belongs(w, w_sent[w][i]) /\ (i > 1 => w_sent[w][i] > w_sent[w][i - 1])
        BY <1>11, <3>1 DEF Ordered
      <4> QED
        BY <4>2, <4>3
    <3>2. CASE i = Len(w_sent[w]) + 1
      <4>1. w_sent'[w][i] = value
        BY <1>10, <3>2
      <4>2. ASSUME i > 1
            PROVE  /\ w_sent'[w][i - 1] < value
                   /\ Toggling => value = w_sent'[w][i - 1] + 1
        <5>1. i - 1 = Len(w_sent[w]) /\ Len(w_sent[w]) # 0
          BY <1>10, <3>2, <4>2
        <5>2. w_sent[w] # <<>>
          <6>1. Len(<<>>) = 0
            OBVIOUS
          <6> QED
            BY <5>1, <6>1
        <5>3. w_sent'[w][i - 1] = w_sent[w][Len(w_sent[w])]
          BY <1>10, <1>13, <5>1, <5>2
        <5>4. w_sent[w][Len(w_sent[w])] \in Nat /\ w_sent[w][Len(w_sent[w])] < value
              /\ (Toggling => w_sent[w][Len(w_sent[w])] = value - 1)
          BY <1>13, <5>2
        <5> DEFINE y == w_sent[w][Len(w_sent[w])]
        <5>5. y \in Nat /\ y < value /\ (Toggling => y = value - 1)
          BY <5>4
        <5> HIDE DEF y
        <5>6. y < value /\ (Toggling => value = y + 1)
          BY <1>5, <5>5
        <5> QED
          BY <5>3, <5>6 DEF y
      <4>3. \A x, y \in Nat : x < y <=> y > x
        OBVIOUS
      <4>4. i > 1 => w_sent'[w][i - 1] \in Nat
        <5>1. i > 1 => i - 1 \in 1..Len(w_sent'[w])
          BY <1>10, <3>2
        <5>2. w_sent'[w] \in Seq(Nat)
          BY <1>9
        <5> QED
          BY <5>1, <5>2, ElementOfSeq
      <4>5. i > 1 => value > w_sent'[w][i - 1]
        BY <1>5, <4>2, <4>3, <4>4
      <4>6. CASE Toggling
        BY <4>1, <4>2, <4>6
      <4>7. CASE ~Toggling
        BY <2>3, <4>1, <4>5, <4>7
      <4> QED
        BY <4>6, <4>7
    <3> QED
      BY <1>10, <3>1, <3>2
  <2> QED
    BY <1>10, <2>1, <2>2, <2>4 DEF Ordered
<1>15. LatestOf(w)'
  <2>1. w_sent'[w][Len(w_sent'[w])] = value
    BY <1>10
  <2>2. w \in Window!Opened'
    BY <1>3 DEF Window!Opened
  <2>3. value <= value
    BY <1>5
  <2> QED
    BY <1>3, <1>7, <2>1, <2>2, <2>3 DEF LatestOf
<1>16. FullOf(w)'
  <2>1. ASSUME w_kind = "window", w_pc[t] \notin {"ending", "done"} PROVE Len(w_sent'[w]) = items
    <3>1. Len(w_sent[w]) = items - 1 /\ items \in Int
      <4>1. Len(w_sent[w]) = items - 1
        BY <1>7, <1>11, <2>1 DEF FullOf
      <4> QED
        BY <1>0, <4>1 DEF WindowTypes
    <3> QED
      BY <1>10, <3>1
  <2> QED
    BY <1>3, <1>7, <2>1 DEF FullOf
<1>17. ASSUME NEW v \in Window!Wins, v # w
       PROVE  ReceivedOf(v)' /\ Ordered(v)' /\ LatestOf(v)' /\ FullOf(v)'
  <2>1. ReceivedOf(v) /\ Ordered(v) /\ LatestOf(v) /\ FullOf(v)
    BY DEF ValuesInv
  <2>2. w_sent'[v] = w_sent[v] /\ w_got'[v] = w_got[v] /\ (ToPass(v)' <=> ToPass(v))
    BY <1>8, <1>9, <1>17
  <2>3. ReceivedOf(v)'
    BY <1>3, <2>1, <2>2 DEF ReceivedOf
  <2>4. Ordered(v)'
    BY <1>3, <2>1, <2>2 DEF Ordered, Toggling, Window!Belongs
  <2>5. LatestOf(v)'
    BY <1>3, <2>1, <2>2 DEF LatestOf, Toggling, Window!Belongs, Window!Opened
  <2>6. FullOf(v)'
    BY <1>3, <2>1, <2>2 DEF FullOf
  <2> QED
    BY <2>3, <2>4, <2>5, <2>6
<1>18. SourcePasses' /\ ListedOnce' /\ PassedOnce'
  <2>1. \A s \in Window!Parties \ {t} : todo'[s] = todo[s]
    BY <1>0, <1>3 DEF WindowTypes
  <2> QED
    BY <1>3, <1>6, <2>1 DEF ValuesInv, SourcePasses, ListedOnce, PassedOnce
<1>19. Filled'
  <2>1. Window!Opened' = Window!Opened
    BY <1>3 DEF Window!Opened
  <2>2. (\E d \in Within(Ahead') : d.how # "next") => \E d \in Within(Ahead) : d.how # "next"
    BY <1>6
  <2>3. Filled
    BY DEF ValuesInv
  <2> QED
    BY <1>3, <2>1, <2>2, <2>3 DEF Filled
<1>20. ValuesTyped'
  BY <1>9 DEF ValuesTyped
<1> QED
  BY <1>12, <1>14, <1>15, <1>16, <1>17, <1>18, <1>19, <1>20 DEF ValuesInv

\* ... or to one that is not, or says something else.
LEMMA ValuesCalled ==
  ASSUME WindowInv, ValuesInv, Window!BeginCall(Window!Source), UNCHANGED w_kind,
         ~(/\ Head(todo[Window!Source]).to \in Window!Wins /\ Head(todo[Window!Source]).how = "next"
           /\ subject[Head(todo[Window!Source]).to] = "open")
  PROVE  ValuesInv'
<1> DEFINE t == Window!Source
           c == Head(todo[t])
<1>0. WindowTypes /\ WindowsInside /\ WindowTurns
  BY DEF WindowInv
<1>1. /\ todo[t] # <<>> /\ todo[t] \in Seq(WindowCalls) /\ Ahead = todo[t] /\ Ahead' = Tail(todo[t])
  BY <1>0, AheadBegins, WindowNames DEF WindowTypes
<1>2. /\ UNCHANGED <<w_kind, value, listed, items, w_closed, joined, w_pc>>
      /\ w_sent' = IF c.to # Window!Outer /\ Window!Open(c.to) /\ c.how = "next"
                   THEN [w_sent EXCEPT ![c.to] = Append(@, value)] ELSE w_sent
      /\ \/ UNCHANGED w_got
         \/ c.to # Window!Outer /\ Window!Open(c.to) /\ c.how = "next"
      /\ subject' = IF c.to # Window!Outer /\ Window!Open(c.to) /\ c.how # "next"
                    THEN [subject EXCEPT ![c.to] = c.how] ELSE subject
      /\ todo' = todo \/ todo' = [todo EXCEPT ![t] = Tail(@)]
  BY DEF Window!BeginCall
<1>3. Once(Ahead)
  BY DEF ValuesInv, PassedOnce
<1>4. /\ Within(Ahead) = Within(Ahead') \union {c} /\ Once(Ahead')
      /\ c.how # "next" => \A d \in Within(Ahead') : d.how # "next"
      /\ c.to # Window!Outer => \A d \in Within(Ahead') : ~(d.how = "next" /\ d.to = c.to)
      /\ c.to \in Window!Targets /\ c.how \in {"next", "completed", "error"}
  BY <1>1, <1>3, FirstCall, OnceTail
<1> HIDE DEF c
<1>5. ~(c.to \in Window!Wins /\ c.how = "next" /\ subject[c.to] = "open")
  BY DEF c
<1>6. c.to # Window!Outer => c.to \in Window!Wins /\ (Window!Open(c.to) <=> subject[c.to] = "open")
  BY <1>4, WindowNames DEF Window!Open
<1>7. UNCHANGED <<w_sent, w_got>>
  BY <1>2, <1>5, <1>6
<1>8. \A w \in Window!Wins :
        subject'[w] = subject[w] \/ (subject[w] = "open" /\ subject'[w] \in {"completed", "error"} /\ c.how # "next")
  BY <1>0, <1>2, <1>4, <1>6 DEF WindowTypes
<1>9. \A w \in Window!Wins : ToPass(w)' => ToPass(w)
  BY <1>4 DEF ToPass
<1>10. \A w \in Window!Wins :
         subject'[w] = "open" => subject[w] = "open" /\ (ToPass(w)' <=> ToPass(w))
  <2> SUFFICES ASSUME NEW w \in Window!Wins, subject'[w] = "open", ToPass(w)
               PROVE  ToPass(w)'
    BY <1>8, <1>9
  <2>1. subject[w] = "open"
    BY <1>8
  <2>2. PICK d \in Within(Ahead) : d.to = w /\ d.how = "next"
    BY DEF ToPass
  <2>3. d # c
    BY <1>5, <2>1, <2>2
  <2> QED
    BY <1>4, <2>2, <2>3 DEF ToPass
<1>11. \A w \in Window!Wins :
         w_kind = "window" /\ w_pc'[t] \notin {"ending", "done"} /\ subject'[w] = "completed" =>
           subject[w] = "completed" \/ Len(w_sent[w]) = WindowSize
  <2> SUFFICES ASSUME NEW w \in Window!Wins, w_kind = "window", w_pc'[t] \notin {"ending", "done"},
                      subject'[w] = "completed", subject[w] # "completed"
               PROVE  Len(w_sent[w]) = WindowSize
    OBVIOUS
  <2>1. subject[w] = "open" /\ c.how # "next"
    BY <1>8
  <2>2. w_pc[t] = "calling"
    <3>1. w_pc[t] \in WindowLabels /\ w_pc[t] \notin {"none", "idle", "done", "opening", "closing"}
      BY <1>0, <1>1, WindowNames DEF WindowTypes, WindowTurns
    <3> QED
      BY <1>2, <3>1 DEF WindowLabels
  <2>3. c \in Within(Ahead)
    BY <1>4
  <2>4. items = WindowSize
    BY <2>1, <2>2, <2>3 DEF ValuesInv, Filled
  <2>5. ~ToPass(w)
    BY <1>4, <2>1 DEF ToPass
  <2>6. FullOf(w)
    BY DEF ValuesInv
  <2> QED
    BY <2>1, <2>2, <2>4, <2>5, <2>6 DEF FullOf
<1>12. SourcePasses' /\ ListedOnce' /\ PassedOnce'
  <2>1. \A s \in Window!Parties \ {t} : todo'[s] = todo[s]
    BY <1>0, <1>2 DEF WindowTypes
  <2> QED
    BY <1>2, <1>4, <2>1 DEF ValuesInv, SourcePasses, ListedOnce, PassedOnce
<1>13. Window!Opened' = Window!Opened
  BY <1>8 DEF Window!Opened
<1>14. Within(Ahead') \subseteq Within(Ahead)
  BY <1>4
<1> QED
  BY <1>0, <1>2, <1>7, <1>9, <1>10, <1>11, <1>12, <1>13, <1>14, ValuesKept

\* A value of the source comes: nothing is passed yet, and what is ahead is known.
LEMMA ValuesComes ==
  ASSUME WindowInv, ValuesInv, WindowValue, WindowInv', UNCHANGED w_sent,
         NEW q \in Seq(WindowCalls), Once(q), Window!Go(Window!Source, "calling", q),
         ListedOnce', Filled', Window!Opened \subseteq Window!Opened',
         \A v \in Window!Wins : (\E c \in Within(q) : c.to = v /\ c.how = "next") /\ ~Toggling =>
           Window!Belongs(v, value + 1),
         \A v \in Window!Wins : Toggling /\ subject'[v] = "open" =>
           subject[v] = "open" /\ \E c \in Within(q) : c.to = v /\ c.how = "next",
         \A v \in Window!Wins : FullOf(v)'
  PROVE  ValuesInv'
<1>0. WindowTypes /\ WindowTurns /\ WindowsInside
  BY DEF WindowInv
<1>1. /\ UNCHANGED <<w_kind, w_sent, w_got, joined, w_closed, w_inside>> /\ value' = value + 1
      /\ w_pc[Window!Source] = "idle" /\ todo' = [todo EXCEPT ![Window!Source] = q]
  BY DEF WindowValue, Window!Go, Window!observers
<1>2. /\ todo[Window!Source] = <<>> /\ todo'[Window!Source] = q
      /\ \A s \in Window!Parties \ {Window!Source} : todo'[s] = todo[s]
  BY <1>0, <1>1, WindowNames DEF WindowTypes, WindowTurns
<1>3. Ahead' = q /\ \A v : ~ToPass(v)
  BY <1>0, <1>1, <1>2, AheadGoes
<1>4. SourcePasses' /\ PassedOnce'
  BY <1>2, <1>3 DEF ValuesInv, SourcePasses, PassedOnce
<1>5. ASSUME NEW v \in Window!Wins PROVE ReceivedOf(v)' /\ Ordered(v)' /\ LatestOf(v)'
  <2>1. ReceivedOf(v) /\ Ordered(v) /\ LatestOf(v)
    BY DEF ValuesInv
  <2>2. ReceivedOf(v)'
    BY <1>1, <2>1 DEF ReceivedOf
  <2>3. Ordered(v)'
    BY <1>1, <2>1 DEF Ordered, Toggling, Window!Belongs
  <2>4. ToPass(v)' <=> \E c \in Within(q) : c.to = v /\ c.how = "next"
    BY <1>3 DEF ToPass
  <2>5. (Toggling' <=> Toggling) /\ (Window!Belongs(v, value)' <=> Window!Belongs(v, value + 1))
    BY <1>1 DEF Toggling, Window!Belongs
  <2>6. v \notin Window!Opened' => w_sent'[v] = <<>>
    BY <1>1, <2>1 DEF LatestOf
  <2>7. ASSUME w_sent[v] # <<>>
        PROVE  /\ w_sent[v][Len(w_sent[v])] \in Nat /\ w_sent[v][Len(w_sent[v])] <= value
               /\ Toggling /\ subject[v] = "open" => w_sent[v][Len(w_sent[v])] = value
    <3>1. w_sent[v] \in Seq(Nat)
      BY DEF ValuesInv, ValuesTyped
    <3>2. Len(w_sent[v]) \in 1..Len(w_sent[v])
      BY <2>7, <3>1, EmptySeq, LenProperties
    <3>3. w_sent[v][Len(w_sent[v])] \in Nat
      BY <3>1, <3>2, ElementOfSeq
    <3> QED
      BY <1>3, <2>1, <2>7, <3>3 DEF LatestOf
  <2>8. \A x \in Nat : x <= value => x < value + 1 /\ x <= value + 1
    BY <1>0 DEF WindowTypes
  <2>9. value = (value + 1) - 1
    BY <1>0 DEF WindowTypes
  <2> DEFINE y == w_sent[v][Len(w_sent[v])]
  <2>10. ASSUME w_sent'[v] # <<>>
         PROVE  /\ y < value' /\ y <= value'
                /\ Toggling /\ subject'[v] = "open" => y = value' - 1 /\ ToPass(v)'
    <3>1. y \in Nat /\ y <= value /\ (Toggling /\ subject[v] = "open" => y = value)
      BY <1>1, <2>7, <2>10
    <3> HIDE DEF y
    <3>2. y < value' /\ y <= value'
      BY <1>1, <2>8, <3>1
    <3>3. ASSUME Toggling, subject'[v] = "open" PROVE y = value' - 1 /\ ToPass(v)'
      <4>1. y = value /\ ToPass(v)'
        BY <2>4, <3>1, <3>3
      <4> QED
        BY <1>1, <2>9, <4>1
    <3> QED
      BY <3>2, <3>3
  <2>11. w_sent'[v][Len(w_sent'[v])] = y
    BY <1>1
  <2> HIDE DEF y
  <2>12. LatestOf(v)'
    BY <2>4, <2>5, <2>6, <2>10, <2>11 DEF LatestOf
  <2> QED
    BY <2>2, <2>3, <2>12
<1>6. ValuesTyped'
  BY <1>1 DEF ValuesInv, ValuesTyped
<1> QED
  BY <1>4, <1>5, <1>6 DEF ValuesInv

\* window_toggle: every window that is listed is passed the value.
LEMMA ValuesOfMoments ==
  ASSUME WindowInv, ValuesInv, WindowValue, WindowInv', UNCHANGED w_sent,
         w_kind = "window_toggle", Window!ToggleNext
  PROVE  ValuesInv'
<1> DEFINE q == [i \in 1..Len(listed) |-> Window!Pass(listed[i])]
<1>0. WindowTypes /\ OpenListed
  BY DEF WindowInv
<1>1. UNCHANGED <<listed, subject, items, w_kind>> /\ Window!Go(Window!Source, "calling", q)
      /\ w_pc[Window!Source] = "idle"
  BY DEF Window!ToggleNext, WindowValue
<1>2. /\ Len(listed) \in Nat /\ DOMAIN listed = 1..Len(listed)
      /\ \A i \in 1..Len(listed) : listed[i] \in Window!Wins
  BY <1>0, LenProperties, ElementOfSeq DEF WindowTypes
<1>3. \A v \in Window!Wins : /\ Window!Pass(v) \in WindowCalls /\ Window!Pass(v).to = v
                             /\ Window!Pass(v).how = "next" /\ v # Window!Outer
  BY WindowNames DEF Window!Pass, Window!Call, WindowCalls
<1>4. q \in Seq(WindowCalls)
  <2>1. q \in [1..Len(listed) -> WindowCalls]
    BY <1>2, <1>3
  <2> QED
    BY <1>2, <2>1
<1>5. \A i \in 1..Len(listed) : q[i].to = listed[i] /\ q[i].how = "next" /\ q[i] \in Within(q)
  BY <1>2, <1>3 DEF Within
<1>6. DOMAIN q = 1..Len(listed)
  OBVIOUS
<1> HIDE DEF q
<1>7. \A i, j \in 1..Len(listed) : listed[i] = listed[j] => ~(i < j)
  <2>1. \A i, j \in 1..Len(listed) : i = j => ~(i < j)
    BY <1>2
  <2> QED
    BY <1>2, <2>1 DEF ValuesInv, ListedOnce
<1>8. Once(q)
  BY <1>5, <1>6, <1>7 DEF Once
<1>9. ListedOnce' /\ Window!Opened \subseteq Window!Opened'
  BY <1>1 DEF ValuesInv, ListedOnce, Window!Opened
<1>10. Filled' /\ \A v \in Window!Wins : FullOf(v)'
  BY <1>1 DEF Filled, FullOf
<1>11. Toggling
  BY DEF Toggling
<1>12. ASSUME NEW v \in Window!Wins, subject'[v] = "open"
       PROVE  subject[v] = "open" /\ \E c \in Within(q) : c.to = v /\ c.how = "next"
  <2>1. v \in Within(listed)
    BY <1>0, <1>1, <1>12 DEF OpenListed
  <2>2. PICK i \in 1..Len(listed) : listed[i] = v
    BY <1>2, <2>1 DEF Within
  <2> QED
    BY <1>1, <1>5, <1>12, <2>2
<1> QED
  BY <1>1, <1>4, <1>8, <1>9, <1>10, <1>11, <1>12, ValuesComes

\* What is passed of the calls of a value: the window is offered, passed the value, and
\* completed.
CallsOf(w, opens, passes, ends) == ValueCalls(w, opens, passes) \o Completing(w, ends)

\* A value makes each of its calls once.
LEMMA ValueCallsOnce ==
  ASSUME NEW w \in Window!Wins, NEW opens \in BOOLEAN, NEW passes \in BOOLEAN, NEW ends \in BOOLEAN
  PROVE  /\ CallsOf(w, opens, passes, ends) \in Seq(WindowCalls) /\ Once(CallsOf(w, opens, passes, ends))
         /\ Once(ValueCalls(w, opens, passes))
         /\ ~ends => \A c \in Within(CallsOf(w, opens, passes, ends)) : c.how = "next"
         /\ \A c \in Within(CallsOf(w, opens, passes, ends)) : c.to \in {w, Window!Outer}
         /\ passes => Window!Pass(w) \in Within(CallsOf(w, opens, passes, ends))
<1> DEFINE a == Window!Offer(w)
           b == Window!Pass(w)
           d == Window!End(w, "completed")
           p == ValueCalls(w, opens, passes)
           e == Completing(w, ends)
           q == CallsOf(w, opens, passes, ends)
<1>1. /\ a \in WindowCalls /\ a.to = Window!Outer /\ a.how = "next"
      /\ b \in WindowCalls /\ b.to = w /\ b.how = "next"
      /\ d \in WindowCalls /\ d.to = w /\ d.how = "completed"
      /\ w # Window!Outer
  BY WindowNames DEF Window!Offer, Window!Pass, Window!End, Window!Call, WindowCalls
<1>2. p = (IF opens THEN <<a>> ELSE <<>>) \o (IF passes THEN <<b>> ELSE <<>>) /\ e = IF ends THEN <<d>> ELSE <<>>
  BY DEF ValueCalls, Completing
<1>0. q = p \o e
  BY DEF CallsOf
<1> HIDE DEF a, b, d, p, e, q
<1>3. /\ <<>> \in Seq(WindowCalls) /\ <<a>> \in Seq(WindowCalls) /\ <<b>> \in Seq(WindowCalls)
       /\ <<d>> \in Seq(WindowCalls) /\ <<a, b>> \in Seq(WindowCalls) /\ <<a, d>> \in Seq(WindowCalls)
       /\ <<b, d>> \in Seq(WindowCalls) /\ <<a, b, d>> \in Seq(WindowCalls)
  BY <1>1
<1>4. /\ <<a>> \o <<b>> = <<a, b>> /\ <<>> \o <<b>> = <<b>> /\ <<a>> \o <<>> = <<a>> /\ <<>> \o <<>> = <<>>
      /\ <<a, b>> \o <<d>> = <<a, b, d>> /\ <<b>> \o <<d>> = <<b, d>> /\ <<a>> \o <<d>> = <<a, d>>
      /\ <<>> \o <<d>> = <<d>>
      /\ <<a, b>> \o <<>> = <<a, b>> /\ <<b>> \o <<>> = <<b>>
  <2>1. \A x, y : <<x>> \o <<y>> = <<x, y>>
    <3> SUFFICES ASSUME NEW x, NEW y PROVE <<x>> \o <<y>> = <<x, y>>
      OBVIOUS
    <3> DEFINE p2 == <<x>>
               q2 == <<y>>
               r2 == <<x, y>>
               S == {x, y}
    <3>1. p2 \in Seq(S) /\ q2 \in Seq(S) /\ Len(p2) = 1 /\ Len(q2) = 1 /\ p2[1] = x /\ q2[1] = y
      OBVIOUS
    <3>2. r2 \in Seq(S) /\ Len(r2) = 2 /\ r2[1] = x /\ r2[2] = y
      OBVIOUS
    <3> HIDE DEF p2, q2, r2, S
    <3>3. /\ p2 \o q2 \in Seq(S) /\ Len(p2 \o q2) = Len(p2) + Len(q2)
          /\ \A i \in 1..Len(p2) + Len(q2) : (p2 \o q2)[i] = IF i <= Len(p2) THEN p2[i] ELSE q2[i - Len(p2)]
      BY <3>1, ConcatProperties
    <3>4. Len(p2 \o q2) = 2 /\ \A i \in 1..2 : (p2 \o q2)[i] = IF i <= 1 THEN p2[i] ELSE q2[i - 1]
      BY <3>1, <3>3
    <3>5. (p2 \o q2)[1] = x /\ (p2 \o q2)[2] = y
      BY <3>1, <3>4
    <3>6. ASSUME NEW i \in 1..2 PROVE (p2 \o q2)[i] = r2[i]
      <4>1. i = 1 \/ i = 2
        OBVIOUS
      <4> QED
        BY <3>2, <3>5, <4>1
    <3>7. p2 \o q2 = r2
      BY <3>2, <3>3, <3>4, <3>6, SeqEqual
    <3> QED
      BY <3>7 DEF p2, q2, r2
  <2>2. <<>> \o <<b>> = <<b>> /\ <<>> \o <<d>> = <<d>>
    BY <1>3, ConcatEmptySeq
  <2>3. <<a>> \o <<>> = <<a>> /\ <<b>> \o <<>> = <<b>>
    OBVIOUS
  <2>4. <<>> \o <<>> = <<>>
    OBVIOUS
  <2>5. <<a, b>> \o <<d>> = <<a, b, d>>
    <3>1. /\ <<a, b>> \in Seq(WindowCalls) /\ <<d>> \in Seq(WindowCalls)
          /\ Len(<<a, b>>) = 2 /\ Len(<<d>>) = 1 /\ <<a, b>>[1] = a /\ <<a, b>>[2] = b /\ <<d>>[1] = d
      BY <1>3
    <3>2. /\ <<a, b, d>> \in Seq(WindowCalls) /\ Len(<<a, b, d>>) = 3
          /\ <<a, b, d>>[1] = a /\ <<a, b, d>>[2] = b /\ <<a, b, d>>[3] = d
      BY <1>3
    <3> DEFINE x == <<a, b>>
               y == <<d>>
               z == <<a, b, d>>
    <3>3. /\ x \in Seq(WindowCalls) /\ y \in Seq(WindowCalls) /\ Len(x) = 2 /\ Len(y) = 1
          /\ x[1] = a /\ x[2] = b /\ y[1] = d
      BY <3>1
    <3>4. z \in Seq(WindowCalls) /\ Len(z) = 3 /\ z[1] = a /\ z[2] = b /\ z[3] = d
      BY <3>2
    <3> HIDE DEF x, y, z
    <3>0. /\ x \o y \in Seq(WindowCalls) /\ Len(x \o y) = Len(x) + Len(y)
          /\ \A i \in 1..Len(x) + Len(y) : (x \o y)[i] = IF i <= Len(x) THEN x[i] ELSE y[i - Len(x)]
      BY <3>3, ConcatProperties
    <3>5. /\ x \o y \in Seq(WindowCalls) /\ Len(x \o y) = 3
          /\ \A i \in 1..3 : (x \o y)[i] = IF i <= 2 THEN x[i] ELSE y[i - 2]
      BY <3>0, <3>3
    <3>6. (x \o y)[1] = a /\ (x \o y)[2] = b /\ (x \o y)[3] = d
      BY <3>3, <3>5
    <3>7. ASSUME NEW i \in 1..3 PROVE (x \o y)[i] = z[i]
      <4>1. i = 1 \/ i = 2 \/ i = 3
        OBVIOUS
      <4> QED
        BY <3>4, <3>6, <4>1
    <3>8. x \o y = z
      BY <3>4, <3>5, <3>7, SeqEqual
    <3> QED
      BY <3>8 DEF x, y, z
  <2>6. <<a, b>> \o <<>> = <<a, b>>
    BY <1>3, ConcatEmptySeq
  <2> QED
    BY <2>1, <2>2, <2>3, <2>4, <2>5, <2>6
<1>5. p = (IF opens THEN IF passes THEN <<a, b>> ELSE <<a>> ELSE IF passes THEN <<b>> ELSE <<>>)
  BY <1>2, <1>4
<1>6. q = (IF opens THEN IF passes THEN IF ends THEN <<a, b, d>> ELSE <<a, b>>
                         ELSE IF ends THEN <<a, d>> ELSE <<a>>
           ELSE IF passes THEN IF ends THEN <<b, d>> ELSE <<b>>
                ELSE IF ends THEN <<d>> ELSE <<>>)
  BY <1>0, <1>2, <1>4, <1>5
<1>7. /\ DOMAIN <<>> = {} /\ DOMAIN <<a>> = {1} /\ DOMAIN <<b>> = {1} /\ DOMAIN <<d>> = {1}
      /\ DOMAIN <<a, b>> = {1, 2} /\ DOMAIN <<a, d>> = {1, 2} /\ DOMAIN <<b, d>> = {1, 2}
      /\ DOMAIN <<a, b, d>> = {1, 2, 3}
  OBVIOUS
<1>8. /\ Within(<<>>) = {} /\ Within(<<a>>) = {a} /\ Within(<<b>>) = {b} /\ Within(<<d>>) = {d}
      /\ Within(<<a, b>>) = {a, b} /\ Within(<<a, d>>) = {a, d} /\ Within(<<b, d>>) = {b, d}
      /\ Within(<<a, b, d>>) = {a, b, d}
  <2>1. \A x, y : Within(<<x, y>>) = {x, y}
    <3> SUFFICES ASSUME NEW x, NEW y PROVE Within(<<x, y>>) = {x, y}
      OBVIOUS
    <3>1. DOMAIN <<x, y>> = {1, 2} /\ <<x, y>>[1] = x /\ <<x, y>>[2] = y
      OBVIOUS
    <3> QED
      BY <3>1 DEF Within
  <2>2. Within(<<a, b, d>>) = {a, b, d}
    <3>1. DOMAIN <<a, b, d>> = {1, 2, 3} /\ <<a, b, d>>[1] = a /\ <<a, b, d>>[2] = b /\ <<a, b, d>>[3] = d
      OBVIOUS
    <3> QED
      BY <3>1 DEF Within
  <2> QED
    BY <2>1, <2>2, WithinFew
<1>9. Once(<<>>) /\ Once(<<a>>) /\ Once(<<b>>) /\ Once(<<d>>)
  BY <1>7 DEF Once
<1>10. Once(<<a, b>>) /\ Once(<<a, d>>) /\ Once(<<b, d>>)
  BY <1>1, <1>7 DEF Once
<1>11. Once(<<a, b, d>>)
  BY <1>1, <1>7 DEF Once
<1>12. q \in Seq(WindowCalls) /\ Once(q)
  BY <1>6, <1>9, <1>10, <1>11, <1>3
<1>13. Once(p)
  BY <1>5, <1>9, <1>10
<1>14. Within(p) = (IF opens THEN {a} ELSE {}) \union (IF passes THEN {b} ELSE {})
  BY <1>5, <1>8
<1>15. Within(q) = Within(p) \union (IF ends THEN {d} ELSE {})
  BY <1>6, <1>8, <1>14
<1>16. ~ends => \A c \in Within(q) : c.how = "next"
  BY <1>1, <1>14, <1>15
<1>17. \A c \in Within(q) : c.to \in {w, Window!Outer}
  BY <1>1, <1>14, <1>15
<1>18. passes => b \in Within(q)
  BY <1>14, <1>15
<1> QED
  BY <1>12, <1>13, <1>16, <1>17, <1>18 DEF b, p, q

\* group_by: the group of its key is passed the value.
LEMMA ValuesOfKey ==
  ASSUME WindowInv, ValuesInv, WindowValue, WindowInv', UNCHANGED w_sent,
         w_kind = "group_by", Window!GroupNext
  PROVE  ValuesInv'
<1> DEFINE w == (value % WindowSize) + 1
           known == Window!Contains(listed, w)
           opens == ~known /\ Window!Outer \notin w_closed
           passes == opens \/ known
           q == ValueCalls(w, opens, passes)
<1>0. WindowTypes /\ WindowsInTurn
  BY DEF WindowInv
<1>1. /\ listed' = IF opens THEN Append(listed, w) ELSE listed
      /\ subject' = [subject EXCEPT ![w] = IF opens THEN "open" ELSE @]
      /\ Window!Go(Window!Source, "calling", q)
      /\ w_kind' = w_kind
  BY DEF Window!GroupNext, ValueCalls, WindowValue
<1>2. w \in Window!Wins
  <2>1. value \in Nat /\ WindowSize \in 1..NumWindows /\ NumWindows \in Nat
    BY <1>0, WindowsAssumption DEF WindowTypes
  <2>2. value % WindowSize \in 0..WindowSize - 1
    BY <2>1
  <2> QED
    BY <2>1, <2>2 DEF Window!Wins
<1>3. Window!Belongs(w, value + 1)
  <2>1. (value + 1) - 1 = value
    BY <1>0 DEF WindowTypes
  <2> QED
    BY <2>1 DEF Window!Belongs
<1> HIDE DEF w
<1>4. q \in Seq(WindowCalls) /\ Once(q)
      /\ \A v \in Window!Wins : (\E c \in Within(q) : c.to = v /\ c.how = "next") => v = w
  <2>1. q \in Seq(WindowCalls)
    BY <1>2, WindowValueCalls
  <2>2. Once(q) /\ \A c \in Within(q) : c.to \in {w, Window!Outer}
    <3>0. opens \in BOOLEAN /\ passes \in BOOLEAN /\ FALSE \in BOOLEAN
      BY DEF Window!Contains
    <3> HIDE DEF opens, passes
    <3>1. Once(q)
      BY <1>2, <3>0, ValueCallsOnce
    <3>2. \A c \in Within(q) : CallOf(w, c)
      BY <1>2, WindowValueCalls
    <3> QED
      BY <3>1, <3>2 DEF CallOf
  <2>3. \A v \in Window!Wins : v # Window!Outer
    BY WindowNames
  <2> HIDE DEF q
  <2> QED
    BY <2>1, <2>2, <2>3
<1>5. listed \in Seq(Window!Wins) /\ \A i, j \in DOMAIN listed : listed[i] = listed[j] => i = j
  BY <1>0 DEF WindowTypes, ValuesInv, ListedOnce
<1>6. ListedOnce'
  <2>1. CASE opens
    <3>1. DOMAIN listed = 1..Len(listed) /\ Len(listed) \in Nat
      BY <1>5, LenProperties
    <3>2. \A i \in 1..Len(listed) : listed[i] # w
      BY <2>1 DEF Window!Contains
    <3>3. /\ DOMAIN listed' = 1..Len(listed) + 1
          /\ \A i \in 1..Len(listed) : listed'[i] = listed[i]
          /\ listed'[Len(listed) + 1] = w
      <4>1. listed' = Append(listed, w)
        BY <1>1, <2>1
      <4>2. /\ Append(listed, w) \in Seq(Window!Wins) /\ Len(Append(listed, w)) = Len(listed) + 1
            /\ \A i \in 1..Len(listed) : Append(listed, w)[i] = listed[i]
            /\ Append(listed, w)[Len(listed) + 1] = w
        BY <1>2, <1>5, AppendProperties
      <4> QED
        BY <4>1, <4>2, LenProperties
    <3>4. \A i \in 1..Len(listed) + 1 : i \in 1..Len(listed) \/ i = Len(listed) + 1
      BY <3>1
    <3> QED
      BY <1>5, <3>1, <3>2, <3>3, <3>4 DEF ListedOnce
  <2>2. CASE ~opens
    BY <1>1, <1>5, <2>2 DEF ListedOnce
  <2> QED
    BY <2>1, <2>2
<1>7. Window!Opened \subseteq Window!Opened'
  <2> HIDE DEF opens
  <2>1. \A v \in Window!Wins : subject'[v] = subject[v] \/ subject'[v] = "open"
    BY <1>0, <1>1 DEF WindowTypes
  <2> QED
    BY <2>1 DEF Window!Opened
<1>8. Filled' /\ \A v \in Window!Wins : FullOf(v)'
  BY <1>1 DEF Filled, FullOf
<1>9. ~Toggling
  BY DEF Toggling
<1> HIDE DEF q
<1> QED
  BY <1>1, <1>3, <1>4, <1>6, <1>7, <1>8, <1>9, ValuesComes

\* Which of the windows of size s has the value after s * n + r.
LEMMA WindowOfValue ==
  ASSUME NEW s \in Nat \ {0}, NEW n \in Nat, NEW r \in 0..s - 1
  PROVE  (s * n + r) \div s = n
<1> DEFINE x == s * n + r
           d == x \div s
<1>1. s * n \in Nat /\ x \in Nat
  OBVIOUS
<1> HIDE DEF x
<1>2. d \in Int /\ s * d <= x /\ x < s * d + s
  <2>1. d \in Int /\ x = s * d + (x % s) /\ x % s \in 0..s - 1
    BY <1>1
  <2>2. s * d \in Int
    BY <2>1
  <2> DEFINE m == x % s
             y == s * d
  <2>3. m \in 0..s - 1 /\ y \in Int /\ x = y + m
    BY <2>1, <2>2
  <2> HIDE DEF m, y
  <2>4. y <= x /\ x < y + s
    BY <2>3
  <2> QED
    BY <2>1, <2>4 DEF y
<1>3. s * n <= x /\ x < s * n + s
  BY <1>1 DEF x
<1> HIDE DEF d
<1>4. \A i, j \in Int : i + 1 <= j => s * i + s <= s * j
  <2> SUFFICES ASSUME NEW i \in Int, NEW j \in Int, i + 1 <= j PROVE s * i + s <= s * j
    OBVIOUS
  <2>1. j - i - 1 \in Nat
    OBVIOUS
  <2>2. s * (j - i - 1) \in Nat
    BY <2>1
  <2>3. s * (j - i - 1) = s * j - s * i - s
    OBVIOUS
  <2>4. s * j \in Int /\ s * i \in Int
    OBVIOUS
  <2> QED
    BY <2>2, <2>3, <2>4
<1>5. s * n \in Int /\ s * d \in Int
  BY <1>2
<1>6. ~(n + 1 <= d)
  <2> SUFFICES ASSUME n + 1 <= d PROVE FALSE
    OBVIOUS
  <2>1. s * n + s <= s * d
    BY <1>2, <1>4
  <2> QED
    BY <1>1, <1>2, <1>3, <1>5, <2>1
<1>7. ~(d + 1 <= n)
  <2> SUFFICES ASSUME d + 1 <= n PROVE FALSE
    OBVIOUS
  <2>1. s * d + s <= s * n
    BY <1>2, <1>4
  <2> QED
    BY <1>1, <1>2, <1>3, <1>5, <2>1
<1>8. d = n
  BY <1>2, <1>6, <1>7
<1> QED
  BY <1>8 DEF d, x

\* window: the value is the first of a new window, or the next of the last one.
LEMMA ValuesOfSize ==
  ASSUME WindowInv, ValuesInv, WindowValue, WindowInv', UNCHANGED w_sent,
         w_kind = "window", Window!WindowNext
  PROVE  ValuesInv'
<1> DEFINE opens == items = WindowSize
           w == IF opens THEN Window!Fresh ELSE Window!Last(listed)
           k == IF opens THEN 1 ELSE items + 1
           ends == k = WindowSize
           q == CallsOf(w, opens, TRUE, ends)
<1>0. WindowTypes /\ WindowsInTurn /\ OpenListed
  BY DEF WindowInv
<1>1. /\ w \in Window!Wins /\ items' = k
      /\ listed' = IF ends THEN <<>> ELSE <<w>>
      /\ subject' = [subject EXCEPT ![w] = IF opens THEN "open" ELSE @]
      /\ Window!Go(Window!Source, "calling", q)
  BY DEF Window!WindowNext, CallsOf, ValueCalls, Completing
<1>2. UNCHANGED w_kind /\ value' = value + 1 /\ w_pc[Window!Source] = "idle"
  BY DEF WindowValue
<1>3. items \in 1..WindowSize /\ WindowSize \in Nat \ {0} /\ k \in 1..WindowSize /\ value \in Nat
  BY <1>0, WindowsAssumption DEF WindowTypes
<1>4. listed \in Seq(Window!Wins) /\ (opens <=> listed = <<>>) /\ Len(listed) <= 1
  BY <1>0 DEF WindowsInTurn, WindowTypes
<1>5. PICK m \in 0..NumWindows :
        /\ Window!Opened = 1..m /\ Within(listed) \subseteq {m}
        /\ value = IF m = 0 THEN 0 ELSE WindowSize * (m - 1) + items
        /\ m = 0 => items = WindowSize
  BY DEF ValuesInv, Filled
<1>6. m \in Nat /\ NumWindows \in Nat
  BY WindowsAssumption
<1>7. ASSUME opens PROVE w = m + 1 /\ w \notin Window!Opened /\ Within(listed) = {}
  <2>1. Window!Fresh = m + 1
    BY <1>5, <1>6, FirstWindows
  <2>2. w = m + 1
    BY <1>7, <2>1
  <2> HIDE DEF w
  <2>3. w \notin 1..m
    BY <1>6, <2>2
  <2> QED
    BY <1>4, <1>5, <1>7, <2>2, <2>3, WithinFew
<1>8. ASSUME ~opens PROVE w = m /\ m # 0 /\ Within(listed) = {w}
  <2>1. Len(listed) = 1 /\ DOMAIN listed = 1..1
    <3>1. Len(listed) \in Nat /\ (Len(listed) = 0 => listed = <<>>) /\ DOMAIN listed = 1..Len(listed)
      BY <1>4, LenProperties, EmptySeq
    <3>2. Len(listed) = 1
      BY <1>4, <1>8, <3>1
    <3> QED
      BY <3>1, <3>2
  <2>2. w = listed[1]
    BY <1>8, <2>1 DEF Window!Last
  <2>3. Within(listed) = {w}
    BY <2>1, <2>2 DEF Within
  <2> HIDE DEF w
  <2> QED
    BY <1>5, <1>8, <2>3
<1>9. opens \in BOOLEAN /\ ends \in BOOLEAN
  OBVIOUS
<1>10. Window!Belongs(w, value + 1)
  <2>1. (value + 1) - 1 = value
    BY <1>3
  <2>2. w \in Int
    BY <1>1 DEF Window!Wins
  <2> HIDE DEF w
  <2>3. (value \div WindowSize) + 1 = w
    <3>1. CASE opens /\ m = 0
      <4>1. value = WindowSize * 0 + 0 /\ 0 \in 0..WindowSize - 1
        BY <1>3, <1>5, <3>1
      <4>2. value \div WindowSize = 0
        BY <1>3, <4>1, WindowOfValue
      <4> QED
        BY <1>7, <3>1, <4>2
    <3>2. CASE opens /\ m # 0
      <4>1. value = WindowSize * (m - 1) + WindowSize
        BY <1>5, <3>2
      <4>2. WindowSize * (m - 1) + WindowSize = WindowSize * m + 0
        BY <1>3, <1>6
      <4>3. value = WindowSize * m + 0 /\ 0 \in 0..WindowSize - 1
        BY <1>3, <4>1, <4>2
      <4>4. value \div WindowSize = m
        BY <1>3, <1>6, <4>3, WindowOfValue
      <4> QED
        BY <1>7, <3>2, <4>4
    <3>3. CASE ~opens
      <4>1. value = WindowSize * (m - 1) + items /\ items \in 0..WindowSize - 1 /\ m - 1 \in Nat
        BY <1>3, <1>5, <1>6, <1>8, <3>3
      <4>2. value \div WindowSize = m - 1
        BY <1>3, <4>1, WindowOfValue
      <4> QED
        BY <1>6, <1>8, <3>3, <4>2
    <3> QED
      BY <3>1, <3>2, <3>3
  <2> QED
    BY <2>1, <2>3 DEF Window!Belongs
<1>11. value + 1 = IF opens THEN WindowSize * m + 1 ELSE WindowSize * (m - 1) + (items + 1)
  <2>1. CASE opens /\ m = 0
    BY <1>3, <1>5, <2>1
  <2>2. CASE opens /\ m # 0
    <3>1. value = WindowSize * (m - 1) + WindowSize
      BY <1>5, <2>2
    <3>2. WindowSize * (m - 1) + WindowSize = WindowSize * m
      BY <1>3, <1>6
    <3> QED
      BY <2>2, <3>1, <3>2
  <2>3. CASE ~opens
    <3>1. value = WindowSize * (m - 1) + items
      BY <1>5, <1>8, <2>3
    <3>2. WindowSize * (m - 1) \in Int
      BY <1>3, <1>6
    <3> QED
      BY <1>3, <2>3, <3>1, <3>2
  <2> QED
    BY <2>1, <2>2, <2>3
<1>12. k = IF opens THEN 1 ELSE items + 1
  OBVIOUS
<1>13. ends => items' = WindowSize
  BY <1>1
<1> HIDE DEF w, k, ends
<1>14. /\ q \in Seq(WindowCalls) /\ Once(q)
       /\ \A c \in Within(q) : (c.how = "next" \/ ends)
       /\ \A v \in Window!Wins : (\E c \in Within(q) : c.to = v /\ c.how = "next") <=> v = w
  <2>1. w \in Window!Wins
    BY <1>1
  <2> HIDE DEF opens
  <2>2. /\ q \in Seq(WindowCalls) /\ Once(q)
        /\ ~ends => \A c \in Within(q) : c.how = "next"
        /\ \A c \in Within(q) : c.to \in {w, Window!Outer}
        /\ \E c \in Within(q) : c.to = w /\ c.how = "next"
    <3> DEFINE c0 == CallsOf(w, opens, TRUE, ends)
    <3>1. c0 \in Seq(WindowCalls) /\ Once(c0)
      BY <1>9, <2>1, ValueCallsOnce
    <3>2. ~ends => \A c \in Within(c0) : c.how = "next"
      BY <1>9, <2>1, ValueCallsOnce
    <3>3. \A c \in Within(c0) : c.to \in {w, Window!Outer}
      BY <1>9, <2>1, ValueCallsOnce
    <3>4. \E c \in Within(c0) : c.to = w /\ c.how = "next"
      <4>1. Window!Pass(w) \in Within(c0)
        BY <1>9, <2>1, ValueCallsOnce
      <4>2. Window!Pass(w).to = w /\ Window!Pass(w).how = "next"
        BY DEF Window!Pass, Window!Call
      <4> QED
        BY <4>1, <4>2
    <3> QED
      BY <3>1, <3>2, <3>3, <3>4
  <2> HIDE DEF q
  <2>3. \A v \in Window!Wins : v # Window!Outer
    BY WindowNames
  <2> QED
    BY <2>2, <2>3
<1> HIDE DEF q
<1>15. \A v \in Window!Wins : subject'[v] = IF opens /\ v = w THEN "open" ELSE subject[v]
  BY <1>0, <1>1 DEF WindowTypes
<1>16. Window!Opened' = Window!Opened \union {w}
  <2>1. ~opens => subject[w] # "none"
    BY <1>0, <1>8 DEF WindowsInTurn, Window!Opened
  <2> QED
    BY <1>1, <1>15, <2>1 DEF Window!Opened
<1>17. ListedOnce'
  <2>1. DOMAIN <<>> = {} /\ DOMAIN <<w>> = {1}
    OBVIOUS
  <2> QED
    BY <1>1, <2>1 DEF ListedOnce
<1>18. Ahead' = q /\ \A v : ~ToPass(v)
  <2>1. WindowTypes /\ WindowsInside /\ WindowTurns /\ UNCHANGED w_inside
    BY DEF WindowInv, WindowValue, Window!observers
  <2>2. todo[Window!Source] = <<>> /\ todo'[Window!Source] = q
    BY <1>1, <1>2, <2>1, WindowNames DEF WindowTypes, WindowTurns, Window!Go
  <2> QED
    BY <1>14, <2>1, <2>2, AheadGoes
<1>19. Filled'
  <2> DEFINE n == IF opens THEN m + 1 ELSE m
  <2>1. n = w /\ n # 0
    BY <1>6, <1>7, <1>8
  <2>2. n \in 0..NumWindows
    BY <1>1, <1>6, <2>1 DEF Window!Wins
  <2>3. Window!Opened' = 1..n
    <3>1. CASE opens
      <4>1. 1..m + 1 = 1..m \union {m + 1}
        BY <1>6
      <4> QED
        BY <1>5, <1>7, <1>16, <3>1, <4>1
    <3>2. CASE ~opens
      <4>1. w \in Window!Opened
        BY <1>0, <1>8, <3>2 DEF WindowsInTurn
      <4> QED
        BY <1>5, <1>16, <3>2, <4>1
    <3> QED
      BY <3>1, <3>2
  <2>4. Within(listed') \subseteq {n}
    BY <1>1, <2>1, WithinFew
  <2>5. value' = WindowSize * (n - 1) + items'
    <3>1. CASE opens
      <4>1. n - 1 = m
        BY <1>6, <3>1
      <4>2. items' = 1 /\ value + 1 = WindowSize * m + 1
        BY <1>1, <1>11, <1>12, <3>1
      <4> QED
        BY <1>2, <4>1, <4>2
    <3>2. CASE ~opens
      <4>1. n = m /\ items' = items + 1 /\ value + 1 = WindowSize * (m - 1) + (items + 1)
        BY <1>1, <1>11, <1>12, <3>2
      <4> QED
        BY <1>2, <4>1
    <3> QED
      BY <3>1, <3>2
  <2>6. (\E c \in Within(Ahead') : c.how # "next") => items' = WindowSize
    BY <1>13, <1>14, <1>18
  <2> HIDE DEF n
  <2> QED
    BY <2>1, <2>2, <2>3, <2>4, <2>5, <2>6 DEF Filled
<1>20. ASSUME NEW v \in Window!Wins PROVE FullOf(v)'
  <2>1. FullOf(v) /\ w_pc[Window!Source] \notin {"ending", "done"}
    BY <1>2 DEF ValuesInv
  <2>2. ASSUME subject'[v] = "completed" PROVE Len(w_sent'[v]) = WindowSize
    <3>1. subject[v] = "completed"
      BY <1>15, <2>2
    <3> QED
      BY <2>1, <3>1 DEF FullOf
  <2>3. ASSUME subject'[v] = "open" PROVE v = w /\ Len(w_sent'[v]) = items' - 1
    <3>1. CASE opens /\ v = w
      <4>1. w_sent[v] = <<>>
        BY <1>7, <3>1 DEF ValuesInv, LatestOf
      <4>2. Len(w_sent[v]) = 0 /\ items' - 1 = 0
        BY <1>1, <1>12, <3>1, <4>1
      <4> QED
        BY <3>1, <4>2
    <3>2. CASE ~(opens /\ v = w)
      <4>1. subject[v] = "open"
        BY <1>15, <2>3, <3>2
      <4>2. v \in Within(listed)
        BY <1>0, <1>2, <4>1 DEF OpenListed
      <4>3. ~opens /\ v = w
        BY <1>7, <1>8, <3>2, <4>2
      <4>4. Len(w_sent[v]) = items
        BY <1>18, <2>1, <4>1 DEF FullOf
      <4>5. items' - 1 = items
        <5>1. items' = items + 1
          BY <1>1, <1>12, <4>3
        <5> QED
          BY <1>3, <5>1
      <4> QED
        BY <4>3, <4>4, <4>5
    <3> QED
      BY <3>1, <3>2
  <2>4. v = w => ToPass(v)'
    BY <1>14, <1>18 DEF ToPass
  <2> QED
    BY <2>2, <2>3, <2>4 DEF FullOf
<1>21. ~Toggling /\ Window!Opened \subseteq Window!Opened'
  BY <1>16 DEF Toggling
<1> QED
  BY <1>1, <1>10, <1>14, <1>17, <1>19, <1>20, <1>21, ValuesComes

\* window_toggle: a window that is opened has no values yet.
LEMMA ValuesOpened ==
  ASSUME WindowInv, ValuesInv, Window!OpeningNext, UNCHANGED w_kind
  PROVE  ValuesInv'
<1> DEFINE w == Window!Fresh
           q == <<Window!Offer(w)>>
<1>0. WindowTypes /\ WindowsInTurn
  BY DEF WindowInv
<1>1. /\ w_kind = "window_toggle" /\ w \in Window!Wins
      /\ listed' = Append(listed, w) /\ subject' = [subject EXCEPT ![w] = "open"]
      /\ todo' = [todo EXCEPT ![Window!Openings] = q]
      /\ UNCHANGED <<w_kind, value, items, w_sent, w_got, joined, w_closed, w_inside>>
  BY DEF Window!OpeningNext, Window!Rest, Window!Go, Window!observers
<1>2. PICK m \in 0..NumWindows : Window!Opened = 1..m
  BY <1>0, <1>1 DEF WindowsInTurn
<1>3. m \in Nat
  BY WindowsAssumption
<1>4. w = m + 1
  BY <1>2, <1>3, FirstWindows
<1> HIDE DEF w
<1>5. w \notin Window!Opened
  BY <1>2, <1>3, <1>4
<1>6. Window!Offer(w).to = Window!Outer /\ Within(q) = {Window!Offer(w)}
  BY WithinFew DEF Window!Offer, Window!Call
<1> HIDE DEF q
<1>7. todo'[Window!Source] = todo[Window!Source]
      /\ \A s \in Window!Parties \ {Window!Source} : todo'[s] = todo[s] \/ todo'[s] = q
  BY <1>0, <1>1, WindowNames DEF WindowTypes
<1>8. Ahead' = Ahead
  BY <1>0, <1>1, <1>7, AheadKept
<1>9. SourcePasses' /\ PassedOnce'
  BY <1>6, <1>7, <1>8 DEF ValuesInv, SourcePasses, PassedOnce, Once
<1>10. listed \in Seq(Window!Wins) /\ \A i, j \in DOMAIN listed : listed[i] = listed[j] => i = j
  BY <1>0 DEF WindowTypes, ValuesInv, ListedOnce
<1>11. ListedOnce'
  <2>1. DOMAIN listed = 1..Len(listed) /\ Len(listed) \in Nat
    BY <1>10, LenProperties
  <2>2. \A i \in 1..Len(listed) : listed[i] # w
    BY <1>0, <1>5, <2>1 DEF WindowsInTurn, Within
  <2>3. /\ DOMAIN listed' = 1..Len(listed) + 1
        /\ \A i \in 1..Len(listed) : listed'[i] = listed[i]
        /\ listed'[Len(listed) + 1] = w
    <3>1. /\ Append(listed, w) \in Seq(Window!Wins) /\ Len(Append(listed, w)) = Len(listed) + 1
          /\ \A i \in 1..Len(listed) : Append(listed, w)[i] = listed[i]
          /\ Append(listed, w)[Len(listed) + 1] = w
      BY <1>1, <1>10, AppendProperties
    <3> QED
      BY <1>1, <3>1, LenProperties
  <2>4. \A i \in 1..Len(listed) + 1 : i \in 1..Len(listed) \/ i = Len(listed) + 1
    BY <2>1
  <2> QED
    BY <1>10, <2>1, <2>2, <2>3, <2>4 DEF ListedOnce
<1>12. \A v \in Window!Wins : v # w => subject'[v] = subject[v]
  BY <1>0, <1>1 DEF WindowTypes
<1>13. Window!Opened \subseteq Window!Opened'
  BY <1>0, <1>1, <1>12 DEF Window!Opened, WindowTypes
<1>14. \A v : ToPass(v)' <=> ToPass(v)
  BY <1>8 DEF ToPass
<1>15. ASSUME NEW v \in Window!Wins
       PROVE  ReceivedOf(v)' /\ Ordered(v)' /\ LatestOf(v)' /\ FullOf(v)'
  <2>1. ReceivedOf(v) /\ Ordered(v) /\ LatestOf(v)
    BY DEF ValuesInv
  <2>2. ReceivedOf(v)'
    BY <1>1, <2>1 DEF ReceivedOf
  <2>3. Ordered(v)'
    BY <1>1, <2>1 DEF Ordered, Toggling, Window!Belongs
  <2>4. FullOf(v)'
    BY <1>1 DEF FullOf
  <2>5. CASE v = w
    <3>1. w_sent'[v] = <<>>
      BY <1>1, <1>5, <2>1, <2>5 DEF LatestOf
    <3>2. Toggling'
      BY <1>1 DEF Toggling
    <3>3. LatestOf(v)'
      BY <3>1, <3>2 DEF LatestOf
    <3> QED
      BY <2>2, <2>3, <2>4, <3>3
  <2>6. CASE v # w
    <3>1. LatestOf(v)'
      BY <1>1, <1>12, <1>13, <1>14, <2>1, <2>6 DEF LatestOf, Toggling, Window!Belongs
    <3> QED
      BY <2>2, <2>3, <2>4, <3>1
  <2> QED
    BY <2>5, <2>6
<1>16. ValuesTyped' /\ Filled'
  BY <1>1 DEF ValuesInv, ValuesTyped, Filled
<1> QED
  BY <1>9, <1>11, <1>15, <1>16 DEF ValuesInv

\* There are no values to begin with, and every step keeps them where they belong.
LEMMA ValuesInit ==
  ASSUME Window!Init, WindowInv
  PROVE  ValuesInv
<1>0. /\ w_kind \in Window!Kinds /\ value = 0 /\ items = WindowSize /\ listed = <<>>
      /\ subject = [w \in Window!Wins |-> "none"] /\ w_sent = [w \in Window!Wins |-> <<>>]
      /\ w_got = [w \in Window!Wins |-> <<>>] /\ todo = [t \in Window!Parties |-> <<>>]
      /\ w_inside = [o \in Window!Targets |-> {}] /\ joined = {}
      /\ w_pc = [t \in Window!Parties |-> IF t \in Window!Wins THEN "none" ELSE "idle"]
  BY DEF Window!Init
<1>1. WindowTypes
  BY DEF WindowInv
<1>2. Ahead = <<>>
  BY <1>0, <1>1, AheadTyped, WindowNames
<1>3. \A w : ~ToPass(w)
  BY <1>2, WithinFew DEF ToPass
<1>4. PassedOnce
  <2>1. DOMAIN <<>> = {}
    OBVIOUS
  <2> QED
    BY <1>2, <2>1 DEF PassedOnce, Once
<1>5. SourcePasses
  BY <1>0, WithinFew DEF SourcePasses
<1>6. ListedOnce
  <2>1. DOMAIN <<>> = {}
    OBVIOUS
  <2> QED
    BY <1>0, <2>1 DEF ListedOnce
<1>7. Filled
  <2>1. Window!Opened = {}
    BY <1>0 DEF Window!Opened
  <2>2. 1..0 = {} /\ 0 \in 0..NumWindows
    BY WindowsAssumption
  <2> QED
    BY <1>0, <2>1, <2>2, WithinFew DEF Filled
<1>8. ASSUME NEW w \in Window!Wins PROVE ReceivedOf(w) /\ Ordered(w) /\ LatestOf(w) /\ FullOf(w)
  <2>1. w_sent[w] = <<>> /\ w_got[w] = <<>> /\ subject[w] = "none"
    BY <1>0
  <2>2. <<>> \in Seq(Nat) /\ Len(<<>>) = 0
    OBVIOUS
  <2>3. ReceivedOf(w)
    BY <2>1, <2>2, TailsOfNothing DEF ReceivedOf
  <2>4. Ordered(w)
    <3>1. Len(w_sent[w]) = 0 /\ 1..0 = {}
      BY <2>1
    <3> QED
      BY <3>1 DEF Ordered
  <2>5. LatestOf(w) /\ FullOf(w)
    BY <1>3, <2>1 DEF LatestOf, FullOf
  <2> QED
    BY <2>3, <2>4, <2>5
<1>9. ValuesTyped
  BY <1>0 DEF ValuesTyped
<1> QED
  BY <1>4, <1>5, <1>6, <1>7, <1>8, <1>9 DEF ValuesInv

\* Every step keeps what is known of the values that are in windows and of those that come.
LEMMA ValuesStep ==
  ASSUME WindowInv, ValuesInv, WindowInv', [Window!Next]_(Window!vars), UNCHANGED w_kind
  PROVE  ValuesInv'
<1>1. CASE Window!SourceNext
  <2>1. WindowValue /\ UNCHANGED w_sent
    BY <1>1 DEF Window!SourceNext, WindowValue, Window!Rest, WindowInv
  <2>2. CASE w_kind = "window" /\ Window!WindowNext
    BY <2>1, <2>2, ValuesOfSize
  <2>3. CASE w_kind = "group_by" /\ Window!GroupNext
    BY <2>1, <2>3, ValuesOfKey
  <2>4. CASE w_kind = "window_toggle" /\ Window!ToggleNext
    BY <2>1, <2>4, ValuesOfMoments
  <2> QED
    BY <1>1, <2>2, <2>3, <2>4 DEF Window!SourceNext
<1>2. CASE Window!SourceEnds
  BY <1>2, ValuesSourceEnds
<1>3. CASE Window!OpeningNext
  BY <1>3, ValuesOpened
<1>4. ASSUME NEW t \in Window!Parties \ {Window!Source}, Window!OpeningOrClosingError(t) PROVE ValuesInv'
  BY <1>4, ValuesEndElsewhere
<1>5. ASSUME NEW w \in Window!Wins, Window!Closing(w) \/ Window!SubscribeWindow(w) PROVE ValuesInv'
  BY <1>5, ValuesCloses, ValuesJoined
<1>6. ASSUME NEW o \in Window!Targets, Window!Leave(o) PROVE ValuesInv'
  BY <1>6, ValuesLeft
<1>7. ASSUME NEW t \in Window!Parties, Window!Handle(t) PROVE ValuesInv'
  <2>1. CASE Window!BeginCall(t)
    <3>1. CASE t # Window!Source
      BY <2>1, <3>1, ValuesBeginElsewhere
    <3>2. CASE t = Window!Source
      BY <2>1, <3>2, ValuesPassed, ValuesCalled
    <3> QED
      BY <3>1, <3>2
  <2>2. CASE Window!EndCall(t)
    BY <2>2, ValuesReturnFromCall
  <2>3. CASE Window!Return(t)
    BY <2>3, ValuesReturn
  <2>4. CASE Window!OpeningAdds
    BY <2>4, ValuesAdded
  <2>5. CASE t \in Window!Wins /\ Window!Erase(t)
    BY <2>5, ValuesErased
  <2> QED
    BY <1>7, <2>1, <2>2, <2>3, <2>4, <2>5 DEF Window!Handle
<1>8. CASE UNCHANGED Window!vars
  <2>1. /\ UNCHANGED <<w_kind, value, listed, subject, items, w_sent, w_got, w_closed, joined>>
        /\ UNCHANGED <<w_inside, todo, w_pc>>
    BY <1>8 DEF Window!vars, Window!windows, Window!observers
  <2>2. WindowTypes
    BY DEF WindowInv
  <2>3. Ahead' = Ahead
    BY <2>1, <2>2, AheadKept
  <2>4. SourcePasses' /\ ListedOnce' /\ Window!Opened' = Window!Opened
    BY <2>1 DEF ValuesInv, SourcePasses, ListedOnce, Window!Opened
  <2> QED
    BY <2>1, <2>2, <2>3, <2>4, ValuesApart
<1> QED
  BY <1>1, <1>2, <1>3, <1>4, <1>5, <1>6, <1>7, <1>8 DEF Window!Next

\* A function on 1..n is a sequence of length n.
LEMMA FunctionSeq ==
  \A n \in Nat : \A f \in [1..n -> Nat] : f \in Seq(Nat) /\ Len(f) = n
OBVIOUS

\* One is the end of the other as the library says it: read backwards, its beginning.
LEMMA TailsSuffix ==
  ASSUME NEW p \in Seq(Nat), NEW q \in Seq(Nat), Tails(p, q)
  PROVE  Window!IsSuffix(p, q)
<1> DEFINE r == Window!Reverse(p)
           s == Window!Reverse(q)
<1>1. Len(p) \in Nat /\ Len(q) \in Nat /\ Len(p) <= Len(q)
  BY LenProperties DEF Tails
<1>2. /\ r = [i \in 1..Len(p) |-> p[(Len(p) - i) + 1]]
      /\ s = [i \in 1..Len(q) |-> q[(Len(q) - i) + 1]]
  BY DEF Window!Reverse
<1>3. r \in Seq(Nat) /\ Len(r) = Len(p)
  <2>1. \A i \in 1..Len(p) : (Len(p) - i) + 1 \in 1..Len(p)
    BY <1>1
  <2>2. \A i \in 1..Len(p) : p[i] \in Nat
    BY ElementOfSeq
  <2>3. r \in [1..Len(p) -> Nat]
    BY <1>2, <2>1, <2>2
  <2> HIDE DEF r
  <2> QED
    BY <1>1, <2>3, FunctionSeq
<1>4. s \in Seq(Nat) /\ Len(s) = Len(q)
  <2>1. \A i \in 1..Len(q) : (Len(q) - i) + 1 \in 1..Len(q)
    BY <1>1
  <2>2. \A i \in 1..Len(q) : q[i] \in Nat
    BY ElementOfSeq
  <2>3. s \in [1..Len(q) -> Nat]
    BY <1>2, <2>1, <2>2
  <2> HIDE DEF s
  <2> QED
    BY <1>1, <2>3, FunctionSeq
<1>5. \A i \in 1..Len(p) : r[i] = s[i]
  <2> SUFFICES ASSUME NEW i \in 1..Len(p) PROVE r[i] = s[i]
    OBVIOUS
  <2>1. /\ (Len(p) - i) + 1 \in 1..Len(p) /\ i \in 1..Len(q)
        /\ ((Len(p) - i) + 1) + (Len(q) - Len(p)) = (Len(q) - i) + 1
    BY <1>1
  <2>2. p[(Len(p) - i) + 1] = q[((Len(p) - i) + 1) + (Len(q) - Len(p))]
    BY <2>1 DEF Tails
  <2>3. r[i] = p[(Len(p) - i) + 1] /\ s[i] = q[(Len(q) - i) + 1]
    BY <1>2, <2>1
  <2> QED
    BY <2>1, <2>2, <2>3
<1> HIDE DEF r, s
<1>6. SubSeq(r, 1, Len(p)) = SubSeq(s, 1, Len(p))
  <2>1. 1 \in 1..Len(r) + 1 /\ Len(p) \in 0..Len(r) /\ 1 \in 1..Len(s) + 1 /\ Len(p) \in 0..Len(s)
    BY <1>1, <1>3, <1>4
  <2>2. /\ SubSeq(r, 1, Len(p)) \in Seq(Nat)
        /\ Len(SubSeq(r, 1, Len(p))) = IF 1 <= Len(p) THEN Len(p) - 1 + 1 ELSE 0
        /\ \A i \in 1..Len(p) - 1 + 1 : SubSeq(r, 1, Len(p))[i] = r[1 + i - 1]
    BY <1>3, <2>1, SubSeqProperties
  <2>3. /\ SubSeq(s, 1, Len(p)) \in Seq(Nat)
        /\ Len(SubSeq(s, 1, Len(p))) = IF 1 <= Len(p) THEN Len(p) - 1 + 1 ELSE 0
        /\ \A i \in 1..Len(p) - 1 + 1 : SubSeq(s, 1, Len(p))[i] = s[1 + i - 1]
    BY <1>4, <2>1, SubSeqProperties
  <2>4. /\ Len(p) - 1 + 1 = Len(p) /\ (IF 1 <= Len(p) THEN Len(p) - 1 + 1 ELSE 0) = Len(p)
        /\ \A i \in 1..Len(p) : 1 + i - 1 = i
    BY <1>1
  <2>5. \A i \in 1..Len(p) : SubSeq(r, 1, Len(p))[i] = SubSeq(s, 1, Len(p))[i]
    BY <1>5, <2>2, <2>3, <2>4
  <2>6. Len(SubSeq(r, 1, Len(p))) = Len(p) /\ Len(SubSeq(s, 1, Len(p))) = Len(p)
    BY <2>2, <2>3, <2>4
  <2> QED
    BY <2>2, <2>3, <2>5, <2>6, SeqEqual
<1>7. Window!IsPrefix(r, s)
  BY <1>1, <1>3, <1>4, <1>6 DEF Window!IsPrefix
<1> QED
  BY <1>7 DEF Window!IsSuffix, r, s

\* The values of a window are the ones that belong to it, in order, and an observer has the
\* last of them, all since it came.
LEMMA ValuesSafe ==
  WindowInv /\ ValuesInv => Window!EachValueInItsWindow
<1> SUFFICES ASSUME WindowInv, ValuesInv, NEW w \in Window!Wins
             PROVE  /\ Window!IsSuffix(w_got[w], w_sent[w]) \/ w \in w_closed
                    /\ \A i \in 1..Len(w_sent[w]) :
                         IF w_kind = "window_toggle" THEN i > 1 => w_sent[w][i] = w_sent[w][i - 1] + 1
                         ELSE Window!Belongs(w, w_sent[w][i]) /\ (i > 1 => w_sent[w][i] > w_sent[w][i - 1])
                    /\ (w_kind = "window" /\ subject[w] = "completed"
                          /\ w_pc[Window!Source] # "ending" /\ w_pc[Window!Source] # "done") =>
                         Len(w_sent[w]) = WindowSize
  BY DEF Window!EachValueInItsWindow
<1>1. ReceivedOf(w) /\ Ordered(w) /\ FullOf(w) /\ w_got[w] \in Seq(Nat) /\ w_sent[w] \in Seq(Nat)
  BY DEF ValuesInv, ValuesTyped
<1>2. Window!IsSuffix(w_got[w], w_sent[w]) \/ w \in w_closed
  BY <1>1, TailsSuffix DEF ReceivedOf
<1> QED
  BY <1>1, <1>2 DEF Ordered, Toggling, FullOf
=============================================================================
