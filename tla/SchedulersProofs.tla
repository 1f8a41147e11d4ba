--------------------------- MODULE SchedulersProofs ---------------------------
(***************************************************************************)
(* TLAPS proofs about the schedulers, for any set of tasks and of threads    *)
(* that dispatch, any delays, and any bounds of the clock and of the calls.   *)
(***************************************************************************)
EXTENDS MCSchedulers, FiniteSetTheorems, SequenceTheorems, WellFoundedInduction, TLAPS

-----------------------------------------------------------------------------
(* Queues.  The module of each scheduler has its own copies of these.        *)

\* The copies are the same operator.
LEMMA SameCardinality ==
  ASSUME NEW S
  PROVE  /\ NewThread!Cardinality(S) = Cardinality(S)
         /\ CurrentThread!Cardinality(S) = Cardinality(S)
         /\ RunLoop!Cardinality(S) = Cardinality(S)
         /\ TestScheduler!Cardinality(S) = Cardinality(S)
         /\ EventLoop!Cardinality(S) = Cardinality(S)
<1>1. NewThread!Cardinality(S) = Cardinality(S)
  BY DEF NewThread!Cardinality, Cardinality
<1>2. CurrentThread!Cardinality(S) = Cardinality(S)
  BY DEF CurrentThread!Cardinality, Cardinality
<1>3. RunLoop!Cardinality(S) = Cardinality(S)
  BY DEF RunLoop!Cardinality, Cardinality
<1>4. TestScheduler!Cardinality(S) = Cardinality(S)
  BY DEF TestScheduler!Cardinality, Cardinality
<1>5. EventLoop!Cardinality(S) = Cardinality(S)
  BY DEF EventLoop!Cardinality, Cardinality
<1> QED
  BY <1>1, <1>2, <1>3, <1>4, <1>5

\* What InsertAt makes of q.
Insert(q, i, e) == SubSeq(q, 1, i - 1) \o <<e>> \o SubSeq(q, i, Len(q))

\* What Insert does, place by place.
LEMMA InsertShape ==
  ASSUME NEW S, NEW q \in Seq(S), NEW i \in 1..Len(q) + 1, NEW e \in S
  PROVE  /\ Insert(q, i, e) \in Seq(S)
         /\ Len(Insert(q, i, e)) = Len(q) + 1
         /\ \A k \in 1..Len(q) + 1 :
              Insert(q, i, e)[k] = IF k < i THEN q[k] ELSE IF k = i THEN e ELSE q[k - 1]
<1> DEFINE front == SubSeq(q, 1, i - 1)
           back == SubSeq(q, i, Len(q))
<1>1. front \in Seq(S) /\ Len(front) = i - 1 /\ \A k \in 1..i - 1 : front[k] = q[k]
  <2>1. \A k \in 1..i - 1 : q[k] \in S
    BY ElementOfSeq
  <2> QED
    BY <2>1, SubSeqProperties
<1>2. back \in Seq(S) /\ Len(back) = Len(q) - i + 1
      /\ \A k \in 1..Len(q) - i + 1 : back[k] = q[i + k - 1]
  <2>1. \A k \in i..Len(q) : q[k] \in S
    BY ElementOfSeq
  <2> QED
    BY <2>1, SubSeqProperties
<1>3. <<e>> \in Seq(S) /\ Len(<<e>>) = 1 /\ <<e>>[1] = e
  OBVIOUS
<1> HIDE DEF front, back
<1>4. /\ front \o <<e>> \in Seq(S) /\ Len(front \o <<e>>) = i
      /\ \A k \in 1..i : (front \o <<e>>)[k] = IF k < i THEN q[k] ELSE e
  BY <1>1, <1>3, ConcatProperties
<1> DEFINE head == front \o <<e>>
<1>5. head \in Seq(S) /\ Len(head) = i /\ \A k \in 1..i : head[k] = IF k < i THEN q[k] ELSE e
  BY <1>4
<1> HIDE DEF head
<1>6. /\ head \o back \in Seq(S) /\ Len(head \o back) = Len(q) + 1
      /\ \A k \in 1..Len(q) + 1 :
           (head \o back)[k] = IF k < i THEN q[k] ELSE IF k = i THEN e ELSE q[k - 1]
  <2>1. /\ head \o back \in Seq(S) /\ Len(head \o back) = Len(head) + Len(back)
        /\ \A k \in 1..Len(head) + Len(back) :
             (head \o back)[k] = IF k <= Len(head) THEN head[k] ELSE back[k - Len(head)]
    BY <1>2, <1>5, ConcatProperties
  <2> QED
    BY <2>1, <1>2, <1>5
<1> QED
  BY <1>6 DEF Insert, head, front, back

\* A set of places of a queue says where to insert.
LEMMA CountPlaces ==
  ASSUME NEW n \in Nat, NEW S \in SUBSET (1..n)
  PROVE  Cardinality(S) \in Nat /\ Cardinality(S) + 1 \in 1..n + 1
<1>1. IsFiniteSet(1..n) /\ Cardinality(1..n) = n
  BY FS_Interval
<1>2. Cardinality(S) <= n /\ Cardinality(S) \in Nat
  BY <1>1, FS_Subset, FS_CardinalityType
<1> QED
  BY <1>2

\* If it holds whatever comes before one of its members, it is the front.
LEMMA CountFront ==
  ASSUME NEW n \in Nat, NEW S \in SUBSET (1..n), \A k \in S : \A j \in 1..k : j \in S
  PROVE  S = 1..Cardinality(S)
<1>0. IsFiniteSet(1..n)
  BY FS_Interval
<1>1. IsFiniteSet(S)
  BY <1>0, FS_Subset
<1>2. Cardinality(S) \in Nat
  BY <1>1, FS_CardinalityType
<1>3. ASSUME NEW k \in S PROVE k <= Cardinality(S)
  <2>1. 1..k \in SUBSET S /\ k \in Nat
    BY <1>3
  <2>2. Cardinality(1..k) = k
    BY <2>1, FS_Interval
  <2> QED
    BY <1>1, <2>1, <2>2, FS_Subset
<1>4. S \in SUBSET (1..Cardinality(S))
  BY <1>2, <1>3
<1>5. IsFiniteSet(1..Cardinality(S)) /\ Cardinality(1..Cardinality(S)) = Cardinality(S)
  BY <1>2, FS_Interval
<1> QED
  BY <1>4, <1>5, FS_Subset

\* The tasks in a queue of schedulables, each of them once.
In(q, t) == \E k \in DOMAIN q : q[k].task = t
Once(q) == \A j, k \in DOMAIN q : q[j].task = q[k].task => j = k

\* A task that is not in a queue is once in it when it has been inserted.
LEMMA InsertedOnce ==
  ASSUME NEW S, NEW q \in Seq(S), NEW i \in 1..Len(q) + 1, NEW e \in S,
         Once(q), ~In(q, e.task)
  PROVE  /\ Once(Insert(q, i, e))
         /\ \A t : In(Insert(q, i, e), t) <=> In(q, t) \/ t = e.task
<1>0. /\ Insert(q, i, e) \in Seq(S) /\ Len(Insert(q, i, e)) = Len(q) + 1
      /\ \A k \in 1..Len(q) + 1 :
           Insert(q, i, e)[k] = IF k < i THEN q[k] ELSE IF k = i THEN e ELSE q[k - 1]
  BY InsertShape
<1> DEFINE new == Insert(q, i, e)
<1>1. /\ DOMAIN q = 1..Len(q) /\ Len(q) \in Nat /\ DOMAIN new = 1..Len(q) + 1
      /\ \A k \in 1..Len(q) + 1 : new[k] = IF k < i THEN q[k] ELSE IF k = i THEN e ELSE q[k - 1]
  BY <1>0, LenProperties
<1> HIDE DEF new
<1>2. Once(new)
  <2> SUFFICES ASSUME NEW j \in 1..Len(q) + 1, NEW k \in 1..Len(q) + 1, new[j].task = new[k].task
               PROVE  j = k
    BY <1>1 DEF Once
  <2> DEFINE old(n) == IF n < i THEN n ELSE n - 1
  <2>1. ASSUME NEW n \in 1..Len(q) + 1, n # i
        PROVE  old(n) \in 1..Len(q) /\ new[n] = q[old(n)]
    BY <1>1, <2>1
  <2>2. ASSUME NEW n \in 1..Len(q) + 1, n # i PROVE new[n].task # e.task
    BY <1>1, <2>1, <2>2 DEF In
  <2>3. CASE j # i /\ k # i
    <3>1. old(j) = old(k)
      <4>1. q[old(j)].task = q[old(k)].task /\ old(j) \in 1..Len(q) /\ old(k) \in 1..Len(q)
        BY <2>1, <2>3
      <4> HIDE DEF old
      <4> QED
        BY <1>1, <4>1 DEF Once
    <3> QED
      BY <2>3, <3>1
  <2>4. CASE j = i \/ k = i
    BY <1>1, <2>2, <2>4
  <2> QED
    BY <2>3, <2>4
<1>3. ASSUME NEW t PROVE In(new, t) <=> In(q, t) \/ t = e.task
  <2>1. ASSUME NEW k \in 1..Len(q) + 1, new[k].task = t PROVE In(q, t) \/ t = e.task
    BY <1>1, <2>1 DEF In
  <2>2. ASSUME NEW k \in 1..Len(q), q[k].task = t PROVE In(new, t)
    <3>1. CASE k < i
      <4>1. k \in 1..Len(q) + 1 /\ new[k] = q[k]
        BY <1>1, <3>1
      <4> QED
        BY <1>1, <2>2, <4>1 DEF In
    <3>2. CASE ~(k < i)
      <4>1. k + 1 \in 1..Len(q) + 1 /\ new[k + 1] = q[k]
        BY <1>1, <3>2
      <4> QED
        BY <1>1, <2>2, <4>1 DEF In
    <3> QED
      BY <3>1, <3>2
  <2>3. t = e.task => In(new, t)
    BY <1>1 DEF In
  <2> QED
    BY <1>1, <2>1, <2>2, <2>3 DEF In
<1> QED
  BY <1>2, <1>3 DEF new

\* Once its head has been taken a queue has the others, and the head no more.
LEMMA TailOnce ==
  ASSUME NEW S, NEW q \in Seq(S), q # <<>>, Once(q)
  PROVE  /\ Head(q) \in S /\ Tail(q) \in Seq(S) /\ Once(Tail(q))
         /\ In(q, Head(q).task)
         /\ \A t : In(Tail(q), t) <=> In(q, t) /\ t # Head(q).task
<1>1. /\ DOMAIN q = 1..Len(q) /\ Len(q) \in Nat \ {0} /\ Head(q) = q[1]
      /\ Head(q) \in S /\ Tail(q) \in Seq(S)
      /\ DOMAIN Tail(q) = 1..Len(q) - 1 /\ \A k \in 1..Len(q) - 1 : Tail(q)[k] = q[k + 1]
  <2>1. Tail(q) \in Seq(S) /\ Len(Tail(q)) = Len(q) - 1
    BY HeadTailProperties
  <2> QED
    BY <2>1, HeadTailProperties, LenProperties, EmptySeq
<1>2. Once(Tail(q))
  <2> SUFFICES ASSUME NEW j \in 1..Len(q) - 1, NEW k \in 1..Len(q) - 1,
                      Tail(q)[j].task = Tail(q)[k].task
               PROVE  j = k
    BY <1>1 DEF Once
  <2>1. q[j + 1].task = q[k + 1].task /\ j + 1 \in 1..Len(q) /\ k + 1 \in 1..Len(q)
    BY <1>1
  <2> QED
    BY <1>1, <2>1 DEF Once
<1>3. In(q, Head(q).task)
  BY <1>1 DEF In
<1>4. ASSUME NEW t PROVE In(Tail(q), t) <=> In(q, t) /\ t # Head(q).task
  <2>1. ASSUME NEW k \in 1..Len(q) - 1, Tail(q)[k].task = t PROVE In(q, t) /\ t # Head(q).task
    <3>1. k + 1 \in 1..Len(q) /\ q[k + 1].task = t /\ k + 1 # 1 /\ 1 \in 1..Len(q)
      BY <1>1, <2>1
    <3> QED
      BY <1>1, <3>1 DEF In, Once
  <2>2. ASSUME NEW k \in 1..Len(q), q[k].task = t, t # Head(q).task PROVE In(Tail(q), t)
    <3>1. k - 1 \in 1..Len(q) - 1 /\ Tail(q)[k - 1].task = t
      BY <1>1, <2>2
    <3> QED
      BY <1>1, <3>1 DEF In
  <2> QED
    BY <1>1, <2>1, <2>2 DEF In
<1> QED
  BY <1>1, <1>2, <1>3, <1>4

\* How often a task is in a queue that has it at most once.
LEMMA CountIn ==
  ASSUME NEW q, NEW t, \A j, k \in DOMAIN q : q[j].task = t /\ q[k].task = t => j = k
  PROVE  Cardinality({k \in DOMAIN q : q[k].task = t}) = IF In(q, t) THEN 1 ELSE 0
<1>1. CASE In(q, t)
  <2>1. PICK k \in DOMAIN q : q[k].task = t
    BY <1>1 DEF In
  <2>2. {j \in DOMAIN q : q[j].task = t} = {k}
    BY <2>1
  <2> QED
    BY <1>1, <2>2, FS_Singleton
<1>2. CASE ~In(q, t)
  <2>1. {j \in DOMAIN q : q[j].task = t} = {}
    BY <1>2 DEF In
  <2> QED
    BY <1>2, <2>1, FS_EmptySet
<1> QED
  BY <1>1, <1>2

Members(q) == {q[k] : k \in DOMAIN q}

\* emplace_impl: behind all that are not later, wherever that is.
LEMMA Emplaced ==
  ASSUME NEW S, NEW q \in Seq(S), NEW e \in S, NEW new, NEW P \in SUBSET DOMAIN q,
         new = Insert(q, Cardinality(P) + 1, e), Once(q), ~In(q, e.task)
  PROVE  /\ new \in Seq(S) /\ Len(new) = Len(q) + 1 /\ Once(new)
         /\ \A t : In(new, t) <=> In(q, t) \/ t = e.task
         /\ \A s \in Members(new) : s \in Members(q) \/ s = e
<1>1. DOMAIN q = 1..Len(q) /\ Len(q) \in Nat
  BY LenProperties
<1>2. Cardinality(P) + 1 \in 1..Len(q) + 1
  BY <1>1, CountPlaces
<1> DEFINE i == Cardinality(P) + 1
<1>3. i \in 1..Len(q) + 1
  BY <1>2
<1>3a. new = Insert(q, i, e)
  OBVIOUS
<1> HIDE DEF i
<1>4. /\ new \in Seq(S) /\ Len(new) = Len(q) + 1
      /\ \A k \in 1..Len(q) + 1 : new[k] = IF k < i THEN q[k] ELSE IF k = i THEN e ELSE q[k - 1]
  <2>1. /\ Insert(q, i, e) \in Seq(S) /\ Len(Insert(q, i, e)) = Len(q) + 1
        /\ \A k \in 1..Len(q) + 1 :
             Insert(q, i, e)[k] = IF k < i THEN q[k] ELSE IF k = i THEN e ELSE q[k - 1]
    BY <1>3, InsertShape
  <2> QED
    BY <1>3a, <2>1
<1>5. Once(new) /\ \A t : In(new, t) <=> In(q, t) \/ t = e.task
  BY <1>3, <1>3a, InsertedOnce
<1>6. ASSUME NEW s \in Members(new) PROVE s \in Members(q) \/ s = e
  <2>1. PICK k \in 1..Len(q) + 1 : s = new[k]
    BY <1>4, LenProperties DEF Members
  <2>2. k < i => k \in DOMAIN q /\ s = q[k]
    BY <1>1, <1>3, <1>4, <2>1
  <2>3. k > i => k - 1 \in DOMAIN q /\ s = q[k - 1]
    BY <1>1, <1>3, <1>4, <2>1
  <2>4. k = i => s = e
    BY <1>4, <2>1
  <2> QED
    BY <1>3, <2>1, <2>2, <2>3, <2>4 DEF Members
<1> QED
  BY <1>4, <1>5, <1>6

\* What is taken from the front.
LEMMA Taken ==
  ASSUME NEW S, NEW q \in Seq(S), q # <<>>, Once(q)
  PROVE  /\ Head(q) \in S /\ Head(q) \in Members(q)
         /\ Tail(q) \in Seq(S) /\ Len(Tail(q)) = Len(q) - 1 /\ Once(Tail(q))
         /\ In(q, Head(q).task)
         /\ \A t : In(Tail(q), t) <=> In(q, t) /\ t # Head(q).task
         /\ \A s \in Members(Tail(q)) : s \in Members(q)
<1>1. /\ DOMAIN q = 1..Len(q) /\ Len(q) \in Nat \ {0} /\ Head(q) = q[1]
      /\ Tail(q) \in Seq(S) /\ Len(Tail(q)) = Len(q) - 1
      /\ DOMAIN Tail(q) = 1..Len(q) - 1 /\ \A k \in 1..Len(q) - 1 : Tail(q)[k] = q[k + 1]
  BY HeadTailProperties, LenProperties, EmptySeq
<1>2. Head(q) \in Members(q)
  BY <1>1 DEF Members
<1>3. \A s \in Members(Tail(q)) : s \in Members(q)
  BY <1>1 DEF Members
<1> QED
  BY <1>1, <1>2, <1>3, TailOnce

\* What is in a queue.
LEMMA MembersIn ==
  ASSUME NEW S, NEW q \in Seq(S)
  PROVE  Members(q) \subseteq S /\ (\A s \in Members(q) : In(q, s.task))
<1>1. DOMAIN q = 1..Len(q) /\ \A k \in 1..Len(q) : q[k] \in S
  BY LenProperties, ElementOfSeq
<1> QED
  BY <1>1 DEF Members, In

\* Nothing is in an empty one.
LEMMA NothingIn ==
  Once(<<>>) /\ Members(<<>>) = {} /\ \A t : ~In(<<>>, t)
BY DEF Once, Members, In

\* Where x and y come from, x before y, when e has come into q.
BothOld(q, x, y) == \E m, n \in DOMAIN q : m < n /\ x = q[m] /\ y = q[n]
BeforeNew(q, e, x, y) == y = e /\ \E m \in DOMAIN q : x = q[m] /\ q[m].tp <= e.tp
BehindNew(q, e, x, y) == x = e /\ \E n \in DOMAIN q : y = q[n] /\ e.tp < q[n].tp

\* In a queue ordered by time points a newcomer comes behind all that are not later.
LEMMA BehindNotLater ==
  ASSUME NEW S, \A s \in S : s.tp \in Nat, NEW q \in Seq(S), NEW e \in S,
         \A j, k \in DOMAIN q : j < k => q[j].tp <= q[k].tp,
         NEW new, new = Insert(q, Cardinality({k \in DOMAIN q : q[k].tp <= e.tp}) + 1, e)
  PROVE  \A j, k \in DOMAIN new : j < k =>
           BothOld(q, new[j], new[k]) \/ BeforeNew(q, e, new[j], new[k]) \/ BehindNew(q, e, new[j], new[k])
<1> DEFINE P == {k \in DOMAIN q : q[k].tp <= e.tp}
           i == Cardinality(P) + 1
<1>1. DOMAIN q = 1..Len(q) /\ Len(q) \in Nat /\ \A k \in 1..Len(q) : q[k] \in S
  BY LenProperties, ElementOfSeq
<1>2. e.tp \in Nat /\ \A k \in 1..Len(q) : q[k].tp \in Nat
  BY <1>1
<1>2a. \A j, k \in 1..Len(q) : j < k => q[j].tp <= q[k].tp
  BY <1>1
<1>3. P \in SUBSET (1..Len(q)) /\ \A k \in P : \A j \in 1..k : j \in P
  <2>1. ASSUME NEW k \in P, NEW j \in 1..k PROVE j \in P
    <3>1. k \in DOMAIN q /\ q[k].tp <= e.tp /\ j \in DOMAIN q /\ (j < k \/ j = k)
      BY <1>1, <2>1
    <3>2. q[j].tp <= q[k].tp
      BY <1>1, <1>2, <1>2a, <3>1
    <3> QED
      BY <1>1, <1>2, <3>1, <3>2
  <2> QED
    BY <1>1, <2>1
<1>3a. \A k \in 1..Len(q) : k \in P <=> q[k].tp <= e.tp
  BY <1>1
<1>3b. new = Insert(q, i, e)
  OBVIOUS
<1> HIDE DEF P
<1>4. P = 1..Cardinality(P)
  BY <1>1, <1>3, CountFront
<1>5. Cardinality(P) \in Nat /\ i \in 1..Len(q) + 1
  BY <1>1, <1>3, CountPlaces
<1>6. \A k \in 1..Len(q) : k < i <=> q[k].tp <= e.tp
  BY <1>1, <1>3a, <1>4, <1>5
<1> HIDE DEF i
<1>7. /\ Insert(q, i, e) \in Seq(S) /\ Len(Insert(q, i, e)) = Len(q) + 1
      /\ \A k \in 1..Len(q) + 1 :
           Insert(q, i, e)[k] = IF k < i THEN q[k] ELSE IF k = i THEN e ELSE q[k - 1]
  BY <1>5, InsertShape
<1>8. /\ DOMAIN new = 1..Len(q) + 1
      /\ \A k \in 1..Len(q) + 1 : new[k] = IF k < i THEN q[k] ELSE IF k = i THEN e ELSE q[k - 1]
  BY <1>3b, <1>7, LenProperties
<1> SUFFICES ASSUME NEW j \in 1..Len(q) + 1, NEW k \in 1..Len(q) + 1, j < k
             PROVE  \/ BothOld(q, new[j], new[k])
                    \/ BeforeNew(q, e, new[j], new[k]) \/ BehindNew(q, e, new[j], new[k])
  BY <1>8
<1>9. CASE k < i
  <2>0. j < i /\ j \in 1..Len(q) /\ k \in 1..Len(q)
    BY <1>1, <1>5, <1>9
  <2>1. new[j] = q[j] /\ new[k] = q[k] /\ j \in DOMAIN q /\ k \in DOMAIN q
    BY <1>1, <1>8, <1>9, <2>0
  <2> QED
    BY <2>1 DEF BothOld
<1>10. CASE k = i
  <2>0. j < i /\ ~(k < i) /\ j \in 1..Len(q)
    BY <1>1, <1>5, <1>10
  <2>1. new[j] = q[j] /\ new[k] = e /\ j \in DOMAIN q /\ q[j].tp <= e.tp
    BY <1>1, <1>6, <1>8, <1>10, <2>0
  <2> QED
    BY <2>1 DEF BeforeNew
<1>11. CASE j = i
  <2>0. ~(k < i) /\ k # i /\ k - 1 \in 1..Len(q) /\ ~(k - 1 < i)
    BY <1>1, <1>5, <1>11
  <2>1. new[j] = e /\ new[k] = q[k - 1] /\ k - 1 \in 1..Len(q) /\ ~(k - 1 < i)
    BY <1>8, <1>11, <2>0
  <2>2. ~(q[k - 1].tp <= e.tp)
    BY <1>6, <2>1
  <2>3. e.tp < q[k - 1].tp /\ k - 1 \in DOMAIN q
    BY <1>1, <1>2, <2>1, <2>2
  <2> QED
    BY <2>1, <2>3 DEF BehindNew
<1>12. CASE j < i /\ i < k
  <2>0. /\ ~(k < i) /\ k # i /\ k - 1 \in 1..Len(q)
        /\ j \in 1..Len(q) /\ j < k - 1
    BY <1>1, <1>5, <1>12
  <2>1. new[j] = q[j] /\ new[k] = q[k - 1] /\ j \in DOMAIN q /\ k - 1 \in DOMAIN q /\ j < k - 1
    BY <1>1, <1>8, <1>12, <2>0
  <2> QED
    BY <2>1 DEF BothOld
<1>13. CASE i < j
  <2>0. /\ ~(k < i) /\ k # i /\ k - 1 \in 1..Len(q)
        /\ ~(j < i) /\ j # i /\ j - 1 \in 1..Len(q) /\ j - 1 < k - 1
    BY <1>1, <1>5, <1>13
  <2>1. new[j] = q[j - 1] /\ new[k] = q[k - 1] /\ j - 1 \in DOMAIN q /\ k - 1 \in DOMAIN q /\ j - 1 < k - 1
    BY <1>1, <1>8, <2>0
  <2> QED
    BY <2>1 DEF BothOld
<1>14. k < i \/ k = i \/ j = i \/ (j < i /\ i < k) \/ i < j
  BY <1>1, <1>5
<1> QED
  BY <1>9, <1>10, <1>11, <1>12, <1>13, <1>14

\* Sets of natural numbers.
LEMMA Smallest ==
  ASSUME NEW T, T \subseteq Nat, T # {}
  PROVE  \E m \in T : \A n \in T : m <= n
<1> DEFINE R == OpToRel(<, Nat)
<1>1. IsWellFoundedOn(R, Nat)
  BY NatLessThanWellFounded
<1>2. \A x, y \in Nat : <<x, y>> \in R <=> x < y
  BY DEF OpToRel
<1> HIDE DEF R
<1>3. PICK m \in T : \A n \in T : <<n, m>> \notin R
  BY <1>1, WFMin
<1>4. \A n \in T : ~(n < m)
  BY <1>2, <1>3
<1> QED
  BY <1>3, <1>4

\* Max finds the greatest of numbers that have a bound.
LEMMA Greatest ==
  ASSUME NEW S, S \subseteq Nat, S # {}, NEW n \in Nat, \A y \in S : y <= n
  PROVE  CurrentThread!Max(S) \in S /\ \A y \in S : CurrentThread!Max(S) >= y
<1> DEFINE B == {m \in Nat : \A y \in S : y <= m}
<1>1. PICK b \in B : \A m \in B : b <= m
  BY Smallest
<1>2. b \in S
  <2> SUFFICES ASSUME b \notin S PROVE FALSE
    OBVIOUS
  <2>1. \A y \in S : y < b
    BY <1>1
  <2>2. b # 0
    <3>1. PICK y \in S : y < b /\ y \in Nat
      BY <2>1
    <3> QED
      BY <1>1, <3>1
  <2>3. b - 1 \in Nat /\ \A y \in S : y <= b - 1
    BY <1>1, <2>1, <2>2
  <2>4. b - 1 \in B
    BY <2>3
  <2>5. b <= b - 1
    BY <1>1, <2>4
  <2> QED
    BY <1>1, <2>5
<1>3. \A y \in S : b >= y
  BY <1>1
<1> QED
  BY <1>2, <1>3 DEF CurrentThread!Max

-----------------------------------------------------------------------------
(* run_loop.                                                                 *)

\* A task is in the queue or in the hand of one dispatcher.
LoopPlaces ==
  /\ Once(queue)
  /\ \A d \in Dispatchers : pc[d] \in {"call", "run"} <=> hand[d].task \in Tasks
  /\ \A d \in Dispatchers : ~In(queue, hand[d].task)
  /\ \A d, e \in Dispatchers : hand[d].task = hand[e].task /\ hand[d].task \in Tasks => d = e
  /\ \A t \in Tasks : status[t] = "scheduled" <=> In(queue, t) \/ \E d \in Dispatchers : hand[d].task = t
  /\ \A t \in Tasks : status[t] = "new" => runs[t] < FewRuns
  /\ \A t \in Tasks : In(queue, t) => runs[t] < FewRuns
  /\ \A d \in Dispatchers : pc[d] = "call" => runs[hand[d].task] < FewRuns

\* What is queued or in hand has the time it wants to be called at.
LoopTimes ==
  /\ \A s \in Members(queue) : s.tp = wanted[s.task]
  /\ \A d \in Dispatchers :
       /\ pc[d] \in {"call", "run"} => hand[d].tp = wanted[hand[d].task]
       /\ pc[d] = "call" => hand[d].task \in disposed \/ hand[d].tp <= clock
       /\ pc[d] = "run" => hand[d].tp <= clock

\* While somebody sleeps, each schedulable in the queue has a notification on its
\* way or a dispatcher that has got one and takes something before it sleeps.
Coming == {d \in Dispatchers : pc[d] = "notify" \/ (pc[d] = "pop" /\ waits[d])}
LoopWakes ==
  /\ IsFiniteSet(Coming) /\ IsFiniteSet(telling)
  /\ \A t \in telling : status[t] # "new"
  /\ \A d \in Dispatchers : pc[d] = "asleep" => waits[d]
  /\ (\E d \in Dispatchers : pc[d] = "asleep") =>
       Len(queue) <= Cardinality(Coming) + Cardinality(telling)

LoopInv == RunLoop!TypeOK /\ LoopPlaces /\ LoopTimes /\ LoopWakes

LoopSchedulables == [task : Tasks, tp : RunLoop!Times]

\* What emplace_and_notify does to the queue, and to the time t wants.
LoopPut(t, tp) ==
  /\ tp \in RunLoop!Times /\ t \in Tasks /\ ~In(queue, t)
  /\ queue' \in Seq(LoopSchedulables) /\ Len(queue') = Len(queue) + 1 /\ Once(queue')
  /\ \A u : In(queue', u) <=> In(queue, u) \/ u = t
  /\ \A s \in Members(queue') : s \in Members(queue) \/ s = [task |-> t, tp |-> tp]
  /\ wanted' = [wanted EXCEPT ![t] = tp]

\* emplace() puts in a task that was not there.
LEMMA LoopEmplace ==
  ASSUME RunLoop!TypeOK, LoopPlaces, NEW t \in Tasks, NEW tp \in RunLoop!Times, ~In(queue, t),
         RunLoop!Emplace(t, tp), wanted' = [wanted EXCEPT ![t] = tp]
  PROVE  LoopPut(t, tp)
<1> DEFINE P == {k \in DOMAIN queue : queue[k].tp <= tp}
           e == [task |-> t, tp |-> tp]
<1>1. queue \in Seq(LoopSchedulables) /\ e \in LoopSchedulables /\ e.task = t
  BY DEF RunLoop!TypeOK, LoopSchedulables
<1>2. P \in SUBSET DOMAIN queue
  OBVIOUS
<1>3. queue' = Insert(queue, Cardinality(P) + 1, e)
  BY SameCardinality DEF RunLoop!Emplace, RunLoop!InsertAt, RunLoop!Schedulable, Insert
<1>4. Once(queue) /\ ~In(queue, e.task)
  BY <1>1 DEF LoopPlaces
<1> HIDE DEF P, e
<1>5. /\ queue' \in Seq(LoopSchedulables) /\ Len(queue') = Len(queue) + 1 /\ Once(queue')
      /\ \A u : In(queue', u) <=> In(queue, u) \/ u = e.task
      /\ \A s \in Members(queue') : s \in Members(queue) \/ s = e
  BY <1>1, <1>2, <1>3, <1>4, Emplaced
<1> QED
  BY <1>1, <1>5 DEF e, LoopPut

\* A task scheduled by the user is emplaced at some time point.
LEMMA LoopDefer ==
  ASSUME RunLoop!TypeOK, LoopPlaces, NEW t \in Tasks, RunLoop!DeferTo(t)
  PROVE  \E tp \in RunLoop!Times : LoopPut(t, tp)
<1>1. PICK tp \in RunLoop!Times : RunLoop!Emplace(t, tp) /\ wanted' = [wanted EXCEPT ![t] = tp]
  BY DEF RunLoop!DeferTo
<1>2. ~In(queue, t)
  BY DEF RunLoop!DeferTo, LoopPlaces
<1> QED
  BY <1>1, <1>2, LoopEmplace

\* So is one in hand that wants to run again.
LEMMA LoopRequeue ==
  ASSUME RunLoop!TypeOK, LoopPlaces, LoopTimes, NEW d \in Dispatchers, RunLoop!Requeue(d)
  PROVE  \E tp \in RunLoop!Times : LoopPut(hand[d].task, tp)
<1>0. ShortTime \in Nat /\ MaxDelay \in Nat
  BY BoundsAssumption
<1> DEFINE t == hand[d].task
<1>1. t \in Tasks /\ ~In(queue, t)
  BY DEF RunLoop!Requeue, LoopPlaces
<1>2. PICK delay \in IF kind[t] = "delay_to" THEN RunLoop!Times ELSE RunLoop!Delays :
        LET tp == RunLoop!Again(kind[t], delay, hand[d].tp) IN
          /\ tp <= ShortTime
          /\ RunLoop!Emplace(t, tp)
          /\ wanted' = [wanted EXCEPT ![t] =
               IF kind[t] = "delay_from_this_timepoint" THEN @ + delay ELSE tp]
  BY DEF RunLoop!Requeue
<1> DEFINE tp == RunLoop!Again(kind[t], delay, hand[d].tp)
<1>3. delay \in Nat
  BY <1>0, <1>2 DEF RunLoop!Times, RunLoop!Delays
<1>4. tp \in RunLoop!Times /\ (kind[t] = "delay_from_this_timepoint" => wanted[t] + delay = tp)
  <2>1. /\ kind[t] \in {"delay_from_now", "delay_from_this_timepoint", "delay_to"} /\ clock \in Nat
        /\ tp <= ShortTime
    BY <1>1, <1>2, <1>0 DEF RunLoop!TypeOK, RunLoop!Kinds, RunLoop!Times
  <2>2. hand[d].tp \in Nat /\ (kind[t] = "delay_from_this_timepoint" => wanted[t] = hand[d].tp)
    BY <1>0, <1>1 DEF RunLoop!Requeue, RunLoop!TypeOK, RunLoop!Times, LoopTimes
  <2>3. /\ kind[t] = "delay_from_now" => tp = clock + delay
        /\ kind[t] = "delay_from_this_timepoint" => tp = hand[d].tp + delay
        /\ kind[t] = "delay_to" => tp = delay
    BY DEF RunLoop!Again
  <2> HIDE DEF t, tp
  <2>4. tp \in Nat
    BY <1>3, <2>1, <2>2, <2>3
  <2> QED
    BY <1>0, <2>1, <2>2, <2>3, <2>4 DEF RunLoop!Times
<1>5. RunLoop!Emplace(t, tp) /\ wanted' = [wanted EXCEPT ![t] = tp]
  BY <1>2, <1>4 DEF RunLoop!TypeOK
<1> HIDE DEF tp
<1> QED
  BY <1>1, <1>4, <1>5, LoopEmplace

\* What Take does to the queue.
LEMMA LoopTake ==
  ASSUME RunLoop!TypeOK, LoopPlaces, NEW d \in Dispatchers, RunLoop!Take(d)
  PROVE  /\ Head(queue) \in LoopSchedulables /\ Head(queue) \in Members(queue)
         /\ queue' \in Seq(LoopSchedulables) /\ Len(queue') = Len(queue) - 1 /\ Once(queue')
         /\ In(queue, Head(queue).task)
         /\ \A t : In(queue', t) <=> In(queue, t) /\ t # Head(queue).task
         /\ \A s \in Members(queue') : s \in Members(queue)
<1>1. queue \in Seq(LoopSchedulables) /\ Once(queue) /\ queue # <<>> /\ queue' = Tail(queue)
  BY DEF RunLoop!TypeOK, LoopSchedulables, LoopPlaces, RunLoop!Take, RunLoop!Ready
<1> QED
  BY <1>1, Taken

\* notify_one moves at most one thread.
LEMMA LoopNotify ==
  ASSUME NEW others, RunLoop!NotifyOne(others)
  PROVE  \/ pc' = others /\ \A d \in Dispatchers : pc[d] # "asleep"
         \/ \E e \in Dispatchers : pc[e] = "asleep" /\ pc' = [others EXCEPT ![e] = "pop"]
  BY DEF RunLoop!NotifyOne

\* Each step of run_loop keeps the types,
LEMMA LoopTypeStep ==
  ASSUME LoopInv, [RunLoop!Next]_(RunLoop!vars) PROVE RunLoop!TypeOK'
<1> USE DEF RunLoop!TypeOK, RunLoop!Goto, RunLoop!dispatchers, RunLoop!tasks
<1>0. ShortTime \in Nat /\ FewRuns \in Nat /\ MaxDelay \in Nat
  BY BoundsAssumption
<1>1. RunLoop!TypeOK /\ LoopPlaces
  BY DEF LoopInv
<1>2. CASE UNCHANGED RunLoop!vars
  BY <1>1, <1>2 DEF RunLoop!vars
<1>3. CASE RunLoop!Tick
  BY <1>0, <1>1, <1>3 DEF RunLoop!Tick, RunLoop!Times
<1>4. ASSUME NEW t \in Tasks, RunLoop!DeferTo(t) PROVE RunLoop!TypeOK'
  <2>1. PICK tp \in RunLoop!Times : LoopPut(t, tp)
    BY <1>1, <1>4, LoopDefer
  <2>2. queue' \in Seq([task : Tasks, tp : RunLoop!Times]) /\ wanted' \in [Tasks -> RunLoop!Times]
    BY <1>1, <2>1 DEF LoopPut, LoopSchedulables
  <2> QED
    BY <1>1, <1>4, <2>2 DEF RunLoop!DeferTo
<1>5. ASSUME NEW t \in Tasks, RunLoop!Notify(t) PROVE RunLoop!TypeOK'
  <2>3. pc' = pc \/ \E e \in Dispatchers : pc' = [pc EXCEPT ![e] = "pop"]
    BY <1>5 DEF RunLoop!Notify, RunLoop!NotifyOne
  <2>1. pc' \in [Dispatchers -> {"idle", "pop", "asleep", "call", "run", "notify"}]
    BY <1>1, <2>3
  <2> QED
    BY <1>1, <1>5, <2>1 DEF RunLoop!Notify
<1>6. ASSUME NEW t \in Tasks, RunLoop!Dispose(t) PROVE RunLoop!TypeOK'
  BY <1>1, <1>6 DEF RunLoop!Dispose
<1>7. ASSUME NEW d \in Dispatchers, RunLoop!Dispatch(d) PROVE RunLoop!TypeOK'
  BY <1>1, <1>7 DEF RunLoop!Dispatch
<1>8. ASSUME NEW d \in Dispatchers, RunLoop!SpuriousWake(d) PROVE RunLoop!TypeOK'
  BY <1>1, <1>8 DEF RunLoop!SpuriousWake
<1>9. ASSUME NEW d \in Dispatchers, RunLoop!Sleep(d) PROVE RunLoop!TypeOK'
  BY <1>1, <1>9 DEF RunLoop!Sleep
<1>10. ASSUME NEW d \in Dispatchers, RunLoop!Take(d) PROVE RunLoop!TypeOK'
  <2>1. Head(queue) \in [task : Tasks, tp : RunLoop!Times]
        /\ queue' \in Seq([task : Tasks, tp : RunLoop!Times])
    BY <1>1, <1>10, LoopTake DEF LoopSchedulables
  <2> QED
    BY <1>1, <1>10, <2>1 DEF RunLoop!Take
<1>11. ASSUME NEW d \in Dispatchers, RunLoop!NothingReady(d) PROVE RunLoop!TypeOK'
  BY <1>1, <1>11 DEF RunLoop!NothingReady
<1>12. 0 \in RunLoop!Times /\ RunLoop!Nothing \in [task : Tasks \union {NoTask}, tp : RunLoop!Times]
  BY <1>0 DEF RunLoop!Times, RunLoop!Nothing, RunLoop!Schedulable
<1>13. ASSUME NEW d \in Dispatchers, RunLoop!CallDisposed(d) PROVE RunLoop!TypeOK'
  BY <1>1, <1>12, <1>13 DEF RunLoop!CallDisposed, RunLoop!Drop
<1>14. ASSUME NEW d \in Dispatchers, RunLoop!Call(d) PROVE RunLoop!TypeOK'
  BY <1>0, <1>1, <1>14 DEF RunLoop!Call, LoopPlaces
<1>15. ASSUME NEW d \in Dispatchers, RunLoop!Finish(d) PROVE RunLoop!TypeOK'
  BY <1>1, <1>12, <1>15 DEF RunLoop!Finish, RunLoop!Drop
<1>16. ASSUME NEW d \in Dispatchers, RunLoop!Requeue(d) PROVE RunLoop!TypeOK'
  <2>1. PICK tp \in RunLoop!Times : LoopPut(hand[d].task, tp)
    BY <1>1, <1>16, LoopRequeue DEF LoopInv
  <2>2. queue' \in Seq([task : Tasks, tp : RunLoop!Times]) /\ wanted' \in [Tasks -> RunLoop!Times]
    BY <1>1, <2>1 DEF LoopPut, LoopSchedulables
  <2> QED
    BY <1>1, <1>12, <1>16, <2>2 DEF RunLoop!Requeue
<1>17. ASSUME NEW d \in Dispatchers, RunLoop!NotifyRequeued(d) PROVE RunLoop!TypeOK'
  <2> DEFINE others == [pc EXCEPT ![d] = "idle"]
  <2>1. others \in [Dispatchers -> {"idle", "pop", "asleep", "call", "run", "notify"}]
    BY <1>1
  <2>0. RunLoop!NotifyOne(others)
    BY <1>17 DEF RunLoop!NotifyRequeued
  <2> HIDE DEF others
  <2>3. pc' = others \/ \E e \in Dispatchers : pc' = [others EXCEPT ![e] = "pop"]
    BY <2>0 DEF RunLoop!NotifyOne
  <2>2. pc' \in [Dispatchers -> {"idle", "pop", "asleep", "call", "run", "notify"}]
    BY <2>1, <2>3
  <2> QED
    BY <1>1, <1>17, <2>2 DEF RunLoop!NotifyRequeued
<1> QED
  BY <1>2, <1>3, <1>4, <1>5, <1>6, <1>7, <1>8, <1>9, <1>10, <1>11, <1>13, <1>14, <1>15, <1>16, <1>17
  DEF RunLoop!Next, RunLoop!Thread

\* one place for each task,
LEMMA LoopPlacesStep ==
  ASSUME LoopInv, [RunLoop!Next]_(RunLoop!vars) PROVE LoopPlaces'
<1> USE DEF LoopPlaces, RunLoop!Goto, RunLoop!dispatchers, RunLoop!tasks
<1>0. NoTask \notin Tasks /\ FewRuns \in Nat \ {0}
  BY TasksAssumption, BoundsAssumption
<1>1. RunLoop!TypeOK /\ LoopPlaces
  BY DEF LoopInv
<1>1a. /\ pc \in [Dispatchers -> {"idle", "pop", "asleep", "call", "run", "notify"}]
       /\ hand \in [Dispatchers -> [task : Tasks \union {NoTask}, tp : RunLoop!Times]]
       /\ status \in [Tasks -> {"new", "scheduled", "over"}]
       /\ runs \in [Tasks -> 0..FewRuns]
  BY <1>1 DEF RunLoop!TypeOK
<1>2. CASE UNCHANGED RunLoop!vars
  BY <1>1, <1>2 DEF RunLoop!vars
<1>3. CASE RunLoop!Tick
  BY <1>1, <1>3 DEF RunLoop!Tick
<1>4. ASSUME NEW t \in Tasks, RunLoop!DeferTo(t) PROVE LoopPlaces'
  <2>1. PICK tp \in RunLoop!Times : LoopPut(t, tp)
    BY <1>1, <1>4, LoopDefer
  <2>2. Once(queue') /\ \A u : In(queue', u) <=> In(queue, u) \/ u = t
    BY <2>1 DEF LoopPut
  <2> QED
    BY <1>1, <1>1a, <1>4, <2>2 DEF RunLoop!DeferTo
<1>5. ASSUME NEW t \in Tasks, RunLoop!Notify(t) PROVE LoopPlaces'
  <2>1. pc' = pc \/ \E e \in Dispatchers : pc[e] = "asleep" /\ pc' = [pc EXCEPT ![e] = "pop"]
    BY <1>5 DEF RunLoop!Notify, RunLoop!NotifyOne
  <2>2. \A d \in Dispatchers : pc'[d] \in {"call", "run"} <=> pc[d] \in {"call", "run"}
    BY <1>1a, <2>1
  <2>3. \A d \in Dispatchers : pc'[d] = "call" => pc[d] = "call"
    BY <1>1a, <2>1
  <2> QED
    BY <1>1, <1>5, <2>2, <2>3 DEF RunLoop!Notify
<1>6. ASSUME NEW t \in Tasks, RunLoop!Dispose(t) PROVE LoopPlaces'
  BY <1>1, <1>6 DEF RunLoop!Dispose
<1>7. ASSUME NEW d \in Dispatchers, RunLoop!Dispatch(d) PROVE LoopPlaces'
  BY <1>1, <1>1a, <1>7 DEF RunLoop!Dispatch
<1>8. ASSUME NEW d \in Dispatchers, RunLoop!SpuriousWake(d) PROVE LoopPlaces'
  BY <1>1, <1>1a, <1>8 DEF RunLoop!SpuriousWake
<1>9. ASSUME NEW d \in Dispatchers, RunLoop!Sleep(d) PROVE LoopPlaces'
  BY <1>1, <1>1a, <1>9 DEF RunLoop!Sleep
<1>10. ASSUME NEW d \in Dispatchers, RunLoop!Take(d) PROVE LoopPlaces'
  <2> DEFINE top == Head(queue)
  <2>1. /\ top \in LoopSchedulables /\ Once(queue') /\ In(queue, top.task)
        /\ \A t : In(queue', t) <=> In(queue, t) /\ t # top.task
    BY <1>1, <1>10, LoopTake
  <2>1a. /\ hand' = [hand EXCEPT ![d] = top] /\ pc' = [pc EXCEPT ![d] = "call"] /\ pc[d] = "pop"
         /\ UNCHANGED <<status, runs>> /\ top.task \in Tasks
    BY <1>10, <2>1 DEF RunLoop!Take, LoopSchedulables
  <2> HIDE DEF top
  <2>2. hand[d].task \notin Tasks
    BY <1>1, <2>1a
  <2>3. \A e \in Dispatchers : hand'[e] = IF e = d THEN top ELSE hand[e]
    BY <1>1a, <2>1a
  <2>4. \A e \in Dispatchers : pc'[e] = IF e = d THEN "call" ELSE pc[e]
    BY <1>1a, <2>1a
  <2>5. \A t \in Tasks : (\E e \in Dispatchers : hand'[e].task = t)
                         <=> t = top.task \/ \E e \in Dispatchers : hand[e].task = t
    BY <2>2, <2>3
  <2>6. \A e \in Dispatchers : hand[e].task # top.task
    BY <1>1, <2>1
  <2>7. \A e \in Dispatchers : pc'[e] \in {"call", "run"} <=> hand'[e].task \in Tasks
    BY <1>1, <2>1a, <2>3, <2>4
  <2>8. \A e \in Dispatchers : ~In(queue', hand'[e].task)
    BY <1>1, <2>1, <2>3
  <2>9. \A e, f \in Dispatchers : hand'[e].task = hand'[f].task /\ hand'[e].task \in Tasks => e = f
    BY <1>1, <2>3, <2>6
  <2>10. \A e \in Dispatchers : pc'[e] = "call" => runs[hand'[e].task] < FewRuns
    BY <1>1, <2>1, <2>1a, <2>3, <2>4
  <2>11. \A t \in Tasks : status[t] = "scheduled" <=> In(queue', t) \/ \E e \in Dispatchers : hand'[e].task = t
    BY <1>1, <2>1, <2>5
  <2> QED
    BY <1>1, <2>1, <2>1a, <2>7, <2>8, <2>9, <2>10, <2>11
<1>11. ASSUME NEW d \in Dispatchers, RunLoop!NothingReady(d) PROVE LoopPlaces'
  BY <1>1, <1>1a, <1>11 DEF RunLoop!NothingReady
\* What a dispatcher lets go of.
<1>12. RunLoop!Nothing.task = NoTask
  BY DEF RunLoop!Nothing, RunLoop!Schedulable
<1>13. ASSUME NEW d \in Dispatchers, hand[d].task \in Tasks, hand' = [hand EXCEPT ![d] = RunLoop!Nothing]
       PROVE  /\ \A e \in Dispatchers : hand'[e].task = IF e = d THEN NoTask ELSE hand[e].task
              /\ \A t \in Tasks : (\E e \in Dispatchers : hand'[e].task = t)
                                  <=> t # hand[d].task /\ \E e \in Dispatchers : hand[e].task = t
              /\ \A e, f \in Dispatchers :
                   hand'[e].task = hand'[f].task /\ hand'[e].task \in Tasks => e = f
  BY <1>0, <1>1, <1>1a, <1>12, <1>13
<1>15. ~In(queue, NoTask)
  <2>1. queue \in Seq(LoopSchedulables)
    BY <1>1 DEF RunLoop!TypeOK, LoopSchedulables
  <2>2. \A s \in Members(queue) : s \in LoopSchedulables
    BY <2>1, MembersIn
  <2>3. \A k \in DOMAIN queue : queue[k].task \in Tasks
    BY <2>2 DEF Members, LoopSchedulables
  <2> QED
    BY <1>0, <2>3 DEF In
<1>16. ASSUME NEW d \in Dispatchers, RunLoop!Drop(d), pc[d] \in {"call", "run"},
              UNCHANGED <<queue, runs>>
       PROVE  LoopPlaces'
  <2>1. hand[d].task \in Tasks
    BY <1>1, <1>16
  <2>2. hand' = [hand EXCEPT ![d] = RunLoop!Nothing] /\ pc' = [pc EXCEPT ![d] = "idle"]
        /\ status' = [status EXCEPT ![hand[d].task] = "over"]
    BY <1>16 DEF RunLoop!Drop
  <2>3. /\ \A e \in Dispatchers : hand'[e].task = IF e = d THEN NoTask ELSE hand[e].task
        /\ \A t \in Tasks : (\E e \in Dispatchers : hand'[e].task = t)
                            <=> t # hand[d].task /\ \E e \in Dispatchers : hand[e].task = t
        /\ \A e, f \in Dispatchers : hand'[e].task = hand'[f].task /\ hand'[e].task \in Tasks => e = f
    BY <1>13, <2>1, <2>2
  <2>4. \A e \in Dispatchers : pc'[e] = IF e = d THEN "idle" ELSE pc[e]
    BY <1>1a, <2>2
  <2>5. \A t \in Tasks : status'[t] = IF t = hand[d].task THEN "over" ELSE status[t]
    BY <1>1a, <2>2
  <2>6. \A e \in Dispatchers : ~In(queue', hand'[e].task)
    BY <1>1, <1>15, <1>16, <2>3
  <2>7. \A e \in Dispatchers : pc'[e] \in {"call", "run"} <=> hand'[e].task \in Tasks
    BY <1>0, <1>1, <2>3, <2>4
  <2>8. \A e \in Dispatchers : pc'[e] = "call" => runs[hand'[e].task] < FewRuns
    BY <1>1, <2>3, <2>4
  <2> QED
    BY <1>1, <1>16, <2>3, <2>5, <2>6, <2>7, <2>8
<1>17. ASSUME NEW d \in Dispatchers, RunLoop!CallDisposed(d) PROVE LoopPlaces'
  BY <1>16, <1>17 DEF RunLoop!CallDisposed
<1>18. ASSUME NEW d \in Dispatchers, RunLoop!Call(d) PROVE LoopPlaces'
  <2>1. hand[d].task \in Tasks /\ status[hand[d].task] = "scheduled" /\ ~In(queue, hand[d].task)
    BY <1>1, <1>18 DEF RunLoop!Call
  <2>2. \A e \in Dispatchers : e # d /\ pc[e] = "call" => hand[e].task # hand[d].task
    BY <1>1, <2>1
  <2>3. \A t \in Tasks : t # hand[d].task => runs'[t] = runs[t]
    BY <1>1a, <1>18 DEF RunLoop!Call
  <2>4. \A e \in Dispatchers : pc'[e] = IF e = d THEN "run" ELSE pc[e]
    BY <1>1a, <1>18 DEF RunLoop!Call
  <2>5. \A e \in Dispatchers : pc'[e] = "call" => runs'[hand[e].task] < FewRuns
    BY <1>1, <2>2, <2>3, <2>4
  <2>6. \A t \in Tasks : status[t] = "new" \/ In(queue, t) => runs'[t] < FewRuns
    BY <1>1, <2>1, <2>3
  <2> QED
    BY <1>1, <1>18, <2>4, <2>5, <2>6 DEF RunLoop!Call
<1>19. ASSUME NEW d \in Dispatchers, RunLoop!Finish(d) PROVE LoopPlaces'
  BY <1>16, <1>19 DEF RunLoop!Finish
<1>20. ASSUME NEW d \in Dispatchers, RunLoop!Requeue(d) PROVE LoopPlaces'
  <2> DEFINE t == hand[d].task
  <2>1. PICK tp \in RunLoop!Times : LoopPut(t, tp)
    BY <1>1, <1>20, LoopRequeue DEF LoopInv
  <2>2. Once(queue') /\ t \in Tasks /\ \A u : In(queue', u) <=> In(queue, u) \/ u = t
    BY <2>1 DEF LoopPut
  <2>3. hand' = [hand EXCEPT ![d] = RunLoop!Nothing] /\ pc' = [pc EXCEPT ![d] = "notify"]
        /\ UNCHANGED <<status, runs>> /\ runs[t] < FewRuns
    BY <1>20 DEF RunLoop!Requeue
  <2>4. /\ \A e \in Dispatchers : hand'[e].task = IF e = d THEN NoTask ELSE hand[e].task
        /\ \A u \in Tasks : (\E e \in Dispatchers : hand'[e].task = u)
                            <=> u # t /\ \E e \in Dispatchers : hand[e].task = u
        /\ \A e, f \in Dispatchers : hand'[e].task = hand'[f].task /\ hand'[e].task \in Tasks => e = f
    BY <1>13, <2>2, <2>3
  <2>5. \A e \in Dispatchers : pc'[e] = IF e = d THEN "notify" ELSE pc[e]
    BY <1>1a, <2>3
  <2>6. \A e \in Dispatchers : ~In(queue', hand'[e].task)
    BY <1>0, <1>1, <1>15, <2>2, <2>4
  <2>7. \A e \in Dispatchers : pc'[e] \in {"call", "run"} <=> hand'[e].task \in Tasks
    BY <1>0, <1>1, <2>4, <2>5
  <2>8. \A e \in Dispatchers : pc'[e] = "call" => runs[hand'[e].task] < FewRuns
    BY <1>1, <2>4, <2>5
  <2>9. \A u \in Tasks : status[u] = "scheduled" <=> In(queue', u) \/ \E e \in Dispatchers : hand'[e].task = u
    BY <1>1, <2>2, <2>4
  <2>10. \A u \in Tasks : In(queue', u) => runs[u] < FewRuns
    BY <1>1, <2>2, <2>3
  <2> QED
    BY <1>1, <2>2, <2>3, <2>4, <2>6, <2>7, <2>8, <2>9, <2>10
<1>21. ASSUME NEW d \in Dispatchers, RunLoop!NotifyRequeued(d) PROVE LoopPlaces'
  <2> DEFINE others == [pc EXCEPT ![d] = "idle"]
  <2>0. pc[d] = "notify" /\ RunLoop!NotifyOne(others) /\ UNCHANGED <<queue, hand, status, runs>>
    BY <1>21 DEF RunLoop!NotifyRequeued
  <2>1. /\ others \in [Dispatchers -> {"idle", "pop", "asleep", "call", "run", "notify"}]
        /\ \A e \in Dispatchers : others[e] = IF e = d THEN "idle" ELSE pc[e]
    BY <1>1a
  <2> HIDE DEF others
  <2>2. pc' = others \/ \E e \in Dispatchers : pc[e] = "asleep" /\ pc' = [others EXCEPT ![e] = "pop"]
    BY <2>0 DEF RunLoop!NotifyOne
  <2>3. \A e \in Dispatchers : pc'[e] \in {"call", "run"} <=> pc[e] \in {"call", "run"}
    BY <2>0, <2>1, <2>2
  <2>4. \A e \in Dispatchers : pc'[e] = "call" => pc[e] = "call"
    BY <2>0, <2>1, <2>2
  <2> QED
    BY <1>1, <2>0, <2>3, <2>4
<1> QED
  BY <1>2, <1>3, <1>4, <1>5, <1>6, <1>7, <1>8, <1>9, <1>10, <1>11, <1>17, <1>18, <1>19, <1>20, <1>21
  DEF RunLoop!Next, RunLoop!Thread

\* the times they wait for,
LEMMA LoopTimesStep ==
  ASSUME LoopInv, [RunLoop!Next]_(RunLoop!vars) PROVE LoopTimes'
<1> USE DEF RunLoop!Goto, RunLoop!dispatchers, RunLoop!tasks
<1>0. ShortTime \in Nat /\ NoTask \notin Tasks
  BY BoundsAssumption, TasksAssumption
<1>1. RunLoop!TypeOK /\ LoopPlaces /\ LoopTimes
  BY DEF LoopInv
<1>1a. /\ pc \in [Dispatchers -> {"idle", "pop", "asleep", "call", "run", "notify"}]
       /\ hand \in [Dispatchers -> [task : Tasks \union {NoTask}, tp : RunLoop!Times]]
       /\ wanted \in [Tasks -> RunLoop!Times] /\ clock \in Nat
       /\ queue \in Seq(LoopSchedulables)
  BY <1>0, <1>1 DEF RunLoop!TypeOK, RunLoop!Times, LoopSchedulables
<1>1b. \A s \in Members(queue) : s \in LoopSchedulables /\ s.task \in Tasks /\ In(queue, s.task)
  <2>1. Members(queue) \subseteq LoopSchedulables /\ \A s \in Members(queue) : In(queue, s.task)
    BY <1>1a, MembersIn
  <2> QED
    BY <2>1 DEF LoopSchedulables
<1>1c. \A d \in Dispatchers : hand[d].tp \in Nat
  BY <1>0, <1>1a DEF RunLoop!Times
<1>2. CASE UNCHANGED RunLoop!vars
  BY <1>1, <1>2 DEF RunLoop!vars, LoopTimes
<1>3. CASE RunLoop!Tick
  BY <1>1, <1>1a, <1>1c, <1>3 DEF RunLoop!Tick, LoopTimes
\* A new time for t, which nobody has in hand but one that lets go of it.
<1>4. ASSUME NEW t \in Tasks, NEW tp \in RunLoop!Times, LoopPut(t, tp)
      PROVE  \A s \in Members(queue') : s.tp = wanted'[s.task]
  <2>1. ASSUME NEW s \in Members(queue') PROVE s.tp = wanted'[s.task]
    <3>1. CASE s \in Members(queue)
      <4>1. s.task \in Tasks /\ s.task # t /\ s.tp = wanted[s.task]
        BY <1>1, <1>1b, <1>4, <3>1 DEF LoopTimes, LoopPut
      <4> QED
        BY <1>1a, <1>4, <4>1 DEF LoopPut
    <3>2. CASE s = [task |-> t, tp |-> tp]
      BY <1>1a, <1>4, <3>2 DEF LoopPut
    <3> QED
      BY <1>4, <2>1, <3>1, <3>2 DEF LoopPut
  <2> QED
    BY <2>1
<1>5. ASSUME NEW t \in Tasks, RunLoop!DeferTo(t) PROVE LoopTimes'
  <2>1. PICK tp \in RunLoop!Times : LoopPut(t, tp)
    BY <1>1, <1>5, LoopDefer
  <2>2. \A s \in Members(queue') : s.tp = wanted'[s.task]
    BY <1>4, <2>1
  <2>3. \A d \in Dispatchers : hand[d].task \in Tasks => wanted'[hand[d].task] = wanted[hand[d].task]
    BY <1>1, <1>1a, <1>5, <2>1 DEF LoopPut, LoopPlaces, RunLoop!DeferTo
  <2> QED
    BY <1>1, <1>5, <2>2, <2>3 DEF LoopTimes, LoopPlaces, RunLoop!DeferTo
<1>6. ASSUME NEW t \in Tasks, RunLoop!Notify(t) PROVE LoopTimes'
  <2>1. pc' = pc \/ \E e \in Dispatchers : pc[e] = "asleep" /\ pc' = [pc EXCEPT ![e] = "pop"]
    BY <1>6 DEF RunLoop!Notify, RunLoop!NotifyOne
  <2>2. \A d \in Dispatchers : pc'[d] \in {"call", "run"} => pc'[d] = pc[d]
    BY <1>1a, <2>1
  <2> QED
    BY <1>1, <1>6, <2>2 DEF RunLoop!Notify, LoopTimes
<1>7. ASSUME NEW t \in Tasks, RunLoop!Dispose(t) PROVE LoopTimes'
  BY <1>1, <1>7 DEF RunLoop!Dispose, LoopTimes
<1>8. ASSUME NEW d \in Dispatchers, RunLoop!Dispatch(d) PROVE LoopTimes'
  BY <1>1, <1>1a, <1>8 DEF RunLoop!Dispatch, LoopTimes
<1>9. ASSUME NEW d \in Dispatchers, RunLoop!SpuriousWake(d) PROVE LoopTimes'
  BY <1>1, <1>1a, <1>9 DEF RunLoop!SpuriousWake, LoopTimes
<1>10. ASSUME NEW d \in Dispatchers, RunLoop!Sleep(d) PROVE LoopTimes'
  BY <1>1, <1>1a, <1>10 DEF RunLoop!Sleep, LoopTimes
<1>11. ASSUME NEW d \in Dispatchers, RunLoop!Take(d) PROVE LoopTimes'
  <2> DEFINE top == Head(queue)
  <2>1. /\ top \in Members(queue) /\ \A s \in Members(queue') : s \in Members(queue)
        /\ hand' = [hand EXCEPT ![d] = top] /\ pc' = [pc EXCEPT ![d] = "call"]
        /\ UNCHANGED <<wanted, disposed, clock>> /\ (top.task \in disposed \/ top.tp <= clock)
    BY <1>1, <1>11, LoopTake DEF RunLoop!Take, RunLoop!Ready
  <2> HIDE DEF top
  <2>2. \A e \in Dispatchers : hand'[e] = IF e = d THEN top ELSE hand[e]
    BY <1>1a, <2>1
  <2>3. \A e \in Dispatchers : pc'[e] = IF e = d THEN "call" ELSE pc[e]
    BY <1>1a, <2>1
  <2> QED
    BY <1>1, <2>1, <2>2, <2>3 DEF LoopTimes
<1>12. ASSUME NEW d \in Dispatchers, RunLoop!NothingReady(d) PROVE LoopTimes'
  BY <1>1, <1>1a, <1>12 DEF RunLoop!NothingReady, LoopTimes
\* A dispatcher lets go of its task: others keep theirs, and the time it wanted.
<1>13. ASSUME NEW d \in Dispatchers, RunLoop!Drop(d), pc[d] \in {"call", "run"},
              UNCHANGED <<queue, disposed, clock>>
       PROVE  LoopTimes'
  <2>1. /\ hand[d].task \in Tasks /\ ~In(queue, hand[d].task)
        /\ \A e \in Dispatchers : e # d /\ pc[e] \in {"call", "run"} =>
             hand[e].task \in Tasks /\ hand[e].task # hand[d].task
    BY <1>1, <1>13 DEF LoopPlaces
  <2>2. hand' = [hand EXCEPT ![d] = RunLoop!Nothing] /\ pc' = [pc EXCEPT ![d] = "idle"]
        /\ wanted' = [wanted EXCEPT ![hand[d].task] = 0]
    BY <1>13 DEF RunLoop!Drop
  <2>3. \A t \in Tasks : t # hand[d].task => wanted'[t] = wanted[t]
    BY <1>1a, <2>2
  <2>4. \A e \in Dispatchers : e # d => hand'[e] = hand[e] /\ pc'[e] = pc[e]
    BY <1>1a, <2>2
  <2>5. pc'[d] = "idle"
    BY <1>1a, <2>2
  <2>6. \A s \in Members(queue) : s.task \in Tasks /\ s.task # hand[d].task
    BY <1>1b, <2>1
  <2> QED
    BY <1>1, <1>13, <2>1, <2>3, <2>4, <2>5, <2>6 DEF LoopTimes
<1>14. ASSUME NEW d \in Dispatchers, RunLoop!CallDisposed(d) PROVE LoopTimes'
  BY <1>13, <1>14 DEF RunLoop!CallDisposed
<1>15. ASSUME NEW d \in Dispatchers, RunLoop!Call(d) PROVE LoopTimes'
  BY <1>1, <1>1a, <1>15 DEF RunLoop!Call, LoopTimes
<1>16. ASSUME NEW d \in Dispatchers, RunLoop!Finish(d) PROVE LoopTimes'
  BY <1>13, <1>16 DEF RunLoop!Finish
<1>17. ASSUME NEW d \in Dispatchers, RunLoop!Requeue(d) PROVE LoopTimes'
  <2> DEFINE t == hand[d].task
  <2>1. PICK tp \in RunLoop!Times : LoopPut(t, tp)
    BY <1>1, <1>17, LoopRequeue
  <2>2. t \in Tasks /\ \A s \in Members(queue') : s.tp = wanted'[s.task]
    BY <1>4, <2>1 DEF LoopPut
  <2>3. /\ hand' = [hand EXCEPT ![d] = RunLoop!Nothing] /\ pc' = [pc EXCEPT ![d] = "notify"]
        /\ UNCHANGED <<disposed, clock>>
    BY <1>17 DEF RunLoop!Requeue
  <2>4. \A e \in Dispatchers : e # d /\ pc[e] \in {"call", "run"} =>
          hand[e].task \in Tasks /\ hand[e].task # t
    BY <1>1, <2>2 DEF LoopPlaces
  <2>5. \A u \in Tasks : u # t => wanted'[u] = wanted[u]
    BY <1>1a, <2>1 DEF LoopPut
  <2>6. \A e \in Dispatchers : e # d => hand'[e] = hand[e] /\ pc'[e] = pc[e]
    BY <1>1a, <2>3
  <2>7. pc'[d] = "notify"
    BY <1>1a, <2>3
  <2> QED
    BY <1>1, <2>2, <2>3, <2>4, <2>5, <2>6, <2>7 DEF LoopTimes
<1>18. ASSUME NEW d \in Dispatchers, RunLoop!NotifyRequeued(d) PROVE LoopTimes'
  <2> DEFINE others == [pc EXCEPT ![d] = "idle"]
  <2>0. RunLoop!NotifyOne(others) /\ UNCHANGED <<queue, hand, disposed, wanted, clock>>
    BY <1>18 DEF RunLoop!NotifyRequeued
  <2>1. /\ others \in [Dispatchers -> {"idle", "pop", "asleep", "call", "run", "notify"}]
        /\ \A e \in Dispatchers : others[e] = IF e = d THEN "idle" ELSE pc[e]
    BY <1>1a
  <2> HIDE DEF others
  <2>2. pc' = others \/ \E e \in Dispatchers : pc[e] = "asleep" /\ pc' = [others EXCEPT ![e] = "pop"]
    BY <2>0 DEF RunLoop!NotifyOne
  <2>3. \A e \in Dispatchers : pc'[e] \in {"call", "run"} => pc'[e] = pc[e]
    BY <2>1, <2>2
  <2> QED
    BY <1>1, <2>0, <2>3 DEF LoopTimes
<1> QED
  BY <1>2, <1>3, <1>5, <1>6, <1>7, <1>8, <1>9, <1>10, <1>11, <1>12, <1>14, <1>15, <1>16, <1>17, <1>18
  DEF RunLoop!Next, RunLoop!Thread

\* Counting those on the way.
LEMMA Joins ==
  ASSUME NEW S, IsFiniteSet(S), NEW x, x \notin S
  PROVE  IsFiniteSet(S \union {x}) /\ Cardinality(S \union {x}) = Cardinality(S) + 1
BY FS_AddElement

\* A set loses one element at most when one leaves.
LEMMA Leaves ==
  ASSUME NEW S, IsFiniteSet(S), NEW x
  PROVE  /\ IsFiniteSet(S \ {x}) /\ Cardinality(S) \in Nat /\ Cardinality(S \ {x}) \in Nat
         /\ Cardinality(S \ {x}) >= Cardinality(S) - 1
<1>1. /\ IsFiniteSet(S \ {x})
      /\ Cardinality(S \ {x}) = IF x \in S THEN Cardinality(S) - 1 ELSE Cardinality(S)
  BY FS_RemoveElement
<1>2. Cardinality(S) \in Nat /\ Cardinality(S \ {x}) \in Nat
  BY <1>1, FS_CardinalityType
<1> QED
  BY <1>1, <1>2

\* and enough threads awake or told for what is queued.
LEMMA LoopWakesStep ==
  ASSUME LoopInv, [RunLoop!Next]_(RunLoop!vars) PROVE LoopWakes'
<1> USE DEF RunLoop!Goto, RunLoop!dispatchers, RunLoop!tasks
<1>1. RunLoop!TypeOK /\ LoopPlaces /\ LoopTimes /\ LoopWakes
  BY DEF LoopInv
<1>2. /\ pc \in [Dispatchers -> {"idle", "pop", "asleep", "call", "run", "notify"}]
      /\ waits \in [Dispatchers -> BOOLEAN] /\ status \in [Tasks -> {"new", "scheduled", "over"}]
      /\ telling \subseteq Tasks /\ Len(queue) \in Nat
  BY <1>1, LenProperties DEF RunLoop!TypeOK
<1>3. /\ IsFiniteSet(Coming) /\ IsFiniteSet(telling)
      /\ Cardinality(Coming) \in Nat /\ Cardinality(telling) \in Nat
  BY <1>1, FS_CardinalityType DEF LoopWakes
<1>4. CASE UNCHANGED RunLoop!vars
  BY <1>1, <1>4 DEF RunLoop!vars, LoopWakes, Coming
\* Nobody joins or leaves, but for d or e.
<1>5. ASSUME Coming' = Coming, UNCHANGED <<queue, telling>>, \A t \in telling : status'[t] # "new",
             \A d \in Dispatchers : pc'[d] = "asleep" => pc[d] = "asleep" /\ waits'[d]
      PROVE  LoopWakes'
  BY <1>1, <1>5 DEF LoopWakes
<1>6. ASSUME NEW d \in Dispatchers, Coming' = Coming \union {d}, d \notin Coming,
             UNCHANGED telling, \A t \in telling : status'[t] # "new",
             Len(queue') \in Nat, Len(queue') <= Len(queue) + 1,
             \A e \in Dispatchers : pc'[e] = "asleep" => pc[e] = "asleep" /\ waits'[e]
      PROVE  LoopWakes'
  <2>1. IsFiniteSet(Coming') /\ Cardinality(Coming') = Cardinality(Coming) + 1
    BY <1>3, <1>6, Joins
  <2> QED
    BY <1>1, <1>2, <1>3, <1>6, <2>1 DEF LoopWakes
<1>7. CASE RunLoop!Tick
  <2>1. Coming' = Coming
    BY <1>7 DEF RunLoop!Tick, Coming
  <2> QED
    BY <1>1, <1>5, <1>7, <2>1 DEF RunLoop!Tick, LoopWakes
<1>8. ASSUME NEW t \in Tasks, RunLoop!DeferTo(t) PROVE LoopWakes'
  <2>1. PICK tp \in RunLoop!Times : LoopPut(t, tp)
    BY <1>1, <1>8, LoopDefer
  <2>2. Coming' = Coming /\ Len(queue') = Len(queue) + 1
    BY <1>8, <2>1 DEF RunLoop!DeferTo, Coming, LoopPut
  <2>3. t \notin telling /\ telling' = telling \union {t}
    BY <1>1, <1>8 DEF RunLoop!DeferTo, LoopWakes
  <2>4. IsFiniteSet(telling') /\ Cardinality(telling') = Cardinality(telling) + 1
    BY <1>3, <2>3, Joins
  <2>5. \A u \in telling' : status'[u] # "new"
    BY <1>1, <1>2, <1>8, <2>3 DEF RunLoop!DeferTo, LoopWakes
  <2> QED
    BY <1>1, <1>2, <1>3, <1>8, <2>2, <2>4, <2>5 DEF RunLoop!DeferTo, LoopWakes
<1>9. ASSUME NEW t \in Tasks, RunLoop!Notify(t) PROVE LoopWakes'
  <2>1. /\ t \in telling /\ telling' = telling \ {t} /\ UNCHANGED <<queue, waits, status>>
    BY <1>9 DEF RunLoop!Notify
  <2>2. /\ IsFiniteSet(telling') /\ Cardinality(telling') \in Nat
        /\ Cardinality(telling') >= Cardinality(telling) - 1
    BY <1>3, <2>1, Leaves
  <2>3. CASE pc' = pc /\ \A d \in Dispatchers : pc[d] # "asleep"
    <3>1. Coming' = Coming
      BY <2>1, <2>3 DEF Coming
    <3> QED
      BY <1>1, <2>1, <2>2, <2>3, <3>1 DEF LoopWakes
  <2>4. ASSUME NEW e \in Dispatchers, pc[e] = "asleep", pc' = [pc EXCEPT ![e] = "pop"]
        PROVE  LoopWakes'
    <3>1. waits[e] /\ e \notin Coming
      BY <1>1, <2>4 DEF LoopWakes, Coming
    <3>2. \A d \in Dispatchers : pc'[d] = IF d = e THEN "pop" ELSE pc[d]
      BY <1>2, <2>4
    <3>3. Coming' = Coming \union {e}
      BY <2>1, <3>1, <3>2 DEF Coming
    <3>4. IsFiniteSet(Coming') /\ Cardinality(Coming') = Cardinality(Coming) + 1
      BY <1>3, <3>1, <3>3, Joins
    <3> QED
      BY <1>1, <1>2, <1>3, <2>1, <2>2, <2>4, <3>2, <3>4 DEF LoopWakes
  <2> QED
    BY <1>9, <2>3, <2>4 DEF RunLoop!Notify, RunLoop!NotifyOne
<1>10. ASSUME NEW t \in Tasks, RunLoop!Dispose(t) PROVE LoopWakes'
  <2>1. Coming' = Coming
    BY <1>10 DEF RunLoop!Dispose, Coming
  <2> QED
    BY <1>1, <1>5, <1>10, <2>1 DEF RunLoop!Dispose, LoopWakes
<1>11. ASSUME NEW d \in Dispatchers, RunLoop!Dispatch(d) PROVE LoopWakes'
  <2>1. PICK w \in BOOLEAN : waits' = [waits EXCEPT ![d] = w]
    BY <1>11 DEF RunLoop!Dispatch
  <2>2. /\ pc[d] = "idle" /\ d \notin Coming /\ UNCHANGED <<queue, telling, status>>
        /\ \A e \in Dispatchers : pc'[e] = (IF e = d THEN "pop" ELSE pc[e])
                                  /\ (e # d => waits'[e] = waits[e])
        /\ waits'[d] = w
    BY <1>2, <1>11, <2>1 DEF RunLoop!Dispatch, Coming
  <2>3. Coming' = IF w THEN Coming \union {d} ELSE Coming
    BY <2>2 DEF Coming
  <2>4. \A e \in Dispatchers : pc'[e] = "asleep" => pc[e] = "asleep" /\ waits'[e]
    BY <1>1, <2>2 DEF LoopWakes
  <2>5. \A t \in telling : status'[t] # "new"
    BY <1>1, <2>2 DEF LoopWakes
  <2>6. Len(queue') \in Nat /\ Len(queue') <= Len(queue) + 1
    BY <1>2, <2>2
  <2> QED
    BY <1>5, <1>6, <2>2, <2>3, <2>4, <2>5, <2>6
<1>12. ASSUME NEW d \in Dispatchers, RunLoop!SpuriousWake(d) PROVE LoopWakes'
  <2>1. /\ pc[d] = "asleep" /\ UNCHANGED <<queue, telling, status, waits>>
        /\ \A e \in Dispatchers : pc'[e] = IF e = d THEN "pop" ELSE pc[e]
    BY <1>2, <1>12 DEF RunLoop!SpuriousWake
  <2>2. waits[d] /\ d \notin Coming
    BY <1>1, <2>1 DEF LoopWakes, Coming
  <2>3. Coming' = Coming \union {d}
    BY <2>1, <2>2 DEF Coming
  <2>4. \A e \in Dispatchers : pc'[e] = "asleep" => pc[e] = "asleep" /\ waits'[e]
    BY <1>1, <2>1 DEF LoopWakes
  <2>5. \A t \in telling : status'[t] # "new"
    BY <1>1, <2>1 DEF LoopWakes
  <2>6. Len(queue') \in Nat /\ Len(queue') <= Len(queue) + 1
    BY <1>2, <2>1
  <2> QED
    BY <1>6, <2>1, <2>2, <2>3, <2>4, <2>5, <2>6
<1>13. ASSUME NEW d \in Dispatchers, RunLoop!Sleep(d) PROVE LoopWakes'
  <2>1. /\ waits[d] /\ queue' = <<>> /\ UNCHANGED <<telling, status, waits>>
        /\ \A e \in Dispatchers : pc'[e] = IF e = d THEN "asleep" ELSE pc[e]
    BY <1>2, <1>13 DEF RunLoop!Sleep
  <2>2. Coming' = Coming \ {d}
    BY <2>1 DEF Coming
  <2>3. IsFiniteSet(Coming') /\ Cardinality(Coming') \in Nat
    BY <1>3, <2>2, Leaves
  <2> QED
    BY <1>1, <1>3, <2>1, <2>3 DEF LoopWakes
<1>14. ASSUME NEW d \in Dispatchers, RunLoop!Take(d) PROVE LoopWakes'
  <2>1. Len(queue') = Len(queue) - 1
    BY <1>1, <1>14, LoopTake
  <2>2. /\ UNCHANGED <<telling, status, waits>>
        /\ \A e \in Dispatchers : pc'[e] = IF e = d THEN "call" ELSE pc[e]
    BY <1>2, <1>14 DEF RunLoop!Take
  <2>3. Coming' = Coming \ {d}
    BY <2>2 DEF Coming
  <2>4. IsFiniteSet(Coming') /\ Cardinality(Coming') \in Nat /\ Cardinality(Coming') >= Cardinality(Coming) - 1
    BY <1>3, <2>3, Leaves
  <2> QED
    BY <1>1, <1>2, <1>3, <2>1, <2>2, <2>4 DEF LoopWakes
<1>15. ASSUME NEW d \in Dispatchers, RunLoop!NothingReady(d) PROVE LoopWakes'
  <2>1. /\ pc[d] = "pop" /\ ~waits[d] /\ UNCHANGED <<queue, telling, status, waits>>
        /\ \A e \in Dispatchers : pc'[e] = IF e = d THEN "idle" ELSE pc[e]
    BY <1>2, <1>15 DEF RunLoop!NothingReady
  <2>2. Coming' = Coming
    BY <2>1 DEF Coming
  <2> QED
    BY <1>1, <1>5, <2>1, <2>2 DEF LoopWakes
\* A task is called, or let go of.
<1>16. ASSUME NEW d \in Dispatchers, NEW l \in {"idle", "run"}, pc[d] \in {"call", "run"},
              pc' = [pc EXCEPT ![d] = l], UNCHANGED <<queue, telling, waits>>,
              \A t \in telling : status'[t] # "new"
       PROVE  LoopWakes'
  <2>1. \A e \in Dispatchers : pc'[e] = IF e = d THEN l ELSE pc[e]
    BY <1>2, <1>16
  <2>2. Coming' = Coming
    BY <1>16, <2>1 DEF Coming
  <2> QED
    BY <1>1, <1>5, <1>16, <2>1, <2>2 DEF LoopWakes
<1>17. ASSUME NEW d \in Dispatchers, RunLoop!CallDisposed(d) PROVE LoopWakes'
  <2>1. \A t \in telling : status'[t] # "new"
    BY <1>1, <1>2, <1>17 DEF RunLoop!CallDisposed, RunLoop!Drop, LoopWakes
  <2> QED
    BY <1>16, <1>17, <2>1 DEF RunLoop!CallDisposed, RunLoop!Drop
<1>18. ASSUME NEW d \in Dispatchers, RunLoop!Call(d) PROVE LoopWakes'
  BY <1>1, <1>16, <1>18 DEF RunLoop!Call, LoopWakes
<1>19. ASSUME NEW d \in Dispatchers, RunLoop!Finish(d) PROVE LoopWakes'
  <2>1. \A t \in telling : status'[t] # "new"
    BY <1>1, <1>2, <1>19 DEF RunLoop!Finish, RunLoop!Drop, LoopWakes
  <2> QED
    BY <1>16, <1>19, <2>1 DEF RunLoop!Finish, RunLoop!Drop
<1>20. ASSUME NEW d \in Dispatchers, RunLoop!Requeue(d) PROVE LoopWakes'
  <2>1. PICK tp \in RunLoop!Times : LoopPut(hand[d].task, tp)
    BY <1>1, <1>20, LoopRequeue
  <2>2. /\ pc[d] = "run" /\ UNCHANGED <<telling, status, waits>>
        /\ \A e \in Dispatchers : pc'[e] = IF e = d THEN "notify" ELSE pc[e]
        /\ Len(queue') = Len(queue) + 1
    BY <1>2, <1>20, <2>1 DEF RunLoop!Requeue, LoopPut
  <2>3. Coming' = Coming \union {d} /\ d \notin Coming
    BY <2>2 DEF Coming
  <2>4. \A e \in Dispatchers : pc'[e] = "asleep" => pc[e] = "asleep" /\ waits'[e]
    BY <1>1, <2>2 DEF LoopWakes
  <2>5. \A t \in telling : status'[t] # "new"
    BY <1>1, <2>2 DEF LoopWakes
  <2> QED
    BY <1>2, <1>6, <2>2, <2>3, <2>4, <2>5
<1>21. ASSUME NEW d \in Dispatchers, RunLoop!NotifyRequeued(d) PROVE LoopWakes'
  <2> DEFINE others == [pc EXCEPT ![d] = "idle"]
  <2>0. pc[d] = "notify" /\ RunLoop!NotifyOne(others) /\ UNCHANGED <<queue, telling, waits, status>>
    BY <1>21 DEF RunLoop!NotifyRequeued
  <2>1. /\ others \in [Dispatchers -> {"idle", "pop", "asleep", "call", "run", "notify"}]
        /\ \A e \in Dispatchers : others[e] = IF e = d THEN "idle" ELSE pc[e]
    BY <1>2
  <2> HIDE DEF others
  <2>2. d \in Coming
    BY <2>0 DEF Coming
  <2>3. /\ IsFiniteSet(Coming \ {d}) /\ Cardinality(Coming \ {d}) \in Nat
        /\ Cardinality(Coming \ {d}) >= Cardinality(Coming) - 1
    BY <1>3, Leaves
  <2>4. CASE pc' = others /\ \A e \in Dispatchers : pc[e] # "asleep"
    <3>1. Coming' = Coming \ {d}
      BY <2>0, <2>1, <2>4 DEF Coming
    <3> QED
      BY <1>1, <2>0, <2>1, <2>3, <2>4, <3>1 DEF LoopWakes
  <2>5. ASSUME NEW e \in Dispatchers, pc[e] = "asleep", pc' = [others EXCEPT ![e] = "pop"]
        PROVE  LoopWakes'
    <3>1. waits[e] /\ e # d /\ e \notin Coming
      BY <1>1, <2>0, <2>5 DEF LoopWakes, Coming
    <3>2. \A c \in Dispatchers : pc'[c] = IF c = e THEN "pop" ELSE others[c]
      BY <2>1, <2>5
    <3>3. Coming' = (Coming \ {d}) \union {e}
      BY <2>0, <2>1, <3>1, <3>2 DEF Coming
    <3>4. IsFiniteSet(Coming') /\ Cardinality(Coming') = Cardinality(Coming \ {d}) + 1
      BY <2>3, <3>1, <3>3, Joins
    <3> QED
      BY <1>1, <1>2, <1>3, <2>0, <2>1, <2>3, <2>5, <3>2, <3>4 DEF LoopWakes
  <2> QED
    BY <2>0, <2>4, <2>5 DEF RunLoop!NotifyOne
<1> QED
  BY <1>4, <1>7, <1>8, <1>9, <1>10, <1>11, <1>12, <1>13, <1>14, <1>15, <1>17, <1>18, <1>19, <1>20, <1>21
  DEF RunLoop!Next, RunLoop!Thread

\* The invariant of run_loop holds to begin with,
LEMMA LoopInit ==
  ASSUME RunLoop!Init PROVE LoopInv
<1> USE DEF RunLoop!Init
<1>0. ShortTime \in Nat /\ FewRuns \in Nat \ {0} /\ NoTask \notin Tasks
  BY BoundsAssumption, TasksAssumption
<1>1. 0 \in RunLoop!Times /\ RunLoop!Nothing = [task |-> NoTask, tp |-> 0]
  BY <1>0 DEF RunLoop!Times, RunLoop!Nothing, RunLoop!Schedulable
<1>2. RunLoop!TypeOK
  BY <1>0, <1>1 DEF RunLoop!TypeOK
<1>3. LoopPlaces
  BY <1>0, <1>1, NothingIn DEF LoopPlaces
<1>4. LoopTimes
  BY NothingIn DEF LoopTimes
<1>5. LoopWakes
  <2>1. Coming = {} /\ telling = {} /\ \A d \in Dispatchers : pc[d] # "asleep"
    BY DEF Coming
  <2> QED
    BY <2>1, FS_EmptySet DEF LoopWakes
<1> QED
  BY <1>2, <1>3, <1>4, <1>5 DEF LoopInv

\* every step keeps it,
LEMMA LoopStep ==
  ASSUME LoopInv, [RunLoop!Next]_(RunLoop!vars) PROVE LoopInv'
<1>1. RunLoop!TypeOK' /\ LoopPlaces' /\ LoopTimes' /\ LoopWakes'
  BY LoopTypeStep, LoopPlacesStep, LoopTimesStep, LoopWakesStep
<1> QED
  BY <1>1 DEF LoopInv

\* and it is what the scheduler promises.
LEMMA LoopSafe ==
  ASSUME LoopInv
  PROVE  RunLoop!TypeOK /\ RunLoop!OnTime /\ RunLoop!InOnePlace /\ RunLoop!NobodySleepsOverIt
<1>1. RunLoop!TypeOK /\ LoopPlaces /\ LoopTimes /\ LoopWakes
  BY DEF LoopInv
<1>2. RunLoop!OnTime
  <2>1. ASSUME NEW d \in Dispatchers, pc[d] = "run"
        PROVE  clock >= wanted[hand[d].task] /\ hand[d].tp = wanted[hand[d].task]
    <3>1. hand[d].tp = wanted[hand[d].task] /\ hand[d].tp <= clock
      BY <1>1, <2>1 DEF LoopTimes
    <3>2. hand[d].tp \in Int /\ clock \in Int
      BY <1>1, BoundsAssumption DEF RunLoop!TypeOK, RunLoop!Times
    <3> QED
      BY <3>1, <3>2
  <2> QED
    BY <2>1 DEF RunLoop!OnTime
<1>3. RunLoop!InOnePlace
  <2> SUFFICES ASSUME NEW t \in Tasks
               PROVE  Cardinality({k \in DOMAIN queue : queue[k].task = t})
                        + Cardinality({d \in Dispatchers : hand[d].task = t})
                      = IF status[t] = "scheduled" THEN 1 ELSE 0
    BY SameCardinality DEF RunLoop!InOnePlace
  <2>1. Cardinality({k \in DOMAIN queue : queue[k].task = t}) = IF In(queue, t) THEN 1 ELSE 0
    <3>1. Once(queue)
      BY <1>1 DEF LoopPlaces
    <3> QED
      BY <3>1, CountIn DEF Once
  <2>2. CASE \E d \in Dispatchers : hand[d].task = t
    <3>1. PICK d \in Dispatchers : hand[d].task = t
      BY <2>2
    <3>2. {e \in Dispatchers : hand[e].task = t} = {d}
      BY <1>1, <3>1 DEF LoopPlaces
    <3>3. Cardinality({e \in Dispatchers : hand[e].task = t}) = 1
      BY <3>2, FS_Singleton
    <3>4. ~In(queue, t) /\ status[t] = "scheduled"
      BY <1>1, <3>1 DEF LoopPlaces
    <3> QED
      BY <2>1, <3>3, <3>4
  <2>3. CASE ~\E d \in Dispatchers : hand[d].task = t
    <3>1. {e \in Dispatchers : hand[e].task = t} = {}
      BY <2>3
    <3>2. Cardinality({e \in Dispatchers : hand[e].task = t}) = 0
      BY <3>1, FS_EmptySet
    <3>3. In(queue, t) <=> status[t] = "scheduled"
      BY <1>1, <2>3 DEF LoopPlaces
    <3> QED
      BY <2>1, <3>2, <3>3
  <2> QED
    BY <2>2, <2>3
<1>4. RunLoop!NobodySleepsOverIt
  <2> SUFFICES ASSUME queue # <<>>, \E d \in Dispatchers : pc[d] = "asleep", telling = {},
                      ~\E d \in Dispatchers : pc[d] \in {"pop", "notify"}
               PROVE  FALSE
    BY DEF RunLoop!NobodySleepsOverIt
  <2>1. Coming = {}
    BY DEF Coming
  <2>2. Cardinality(Coming) = 0 /\ Cardinality(telling) = 0
    BY <2>1, FS_EmptySet
  <2>3. Len(queue) <= 0
    BY <1>1, <2>2 DEF LoopWakes
  <2>4. queue \in Seq(LoopSchedulables)
    BY <1>1 DEF RunLoop!TypeOK, LoopSchedulables
  <2> QED
    BY <2>3, <2>4, EmptySeq, LenProperties
<1> QED
  BY <1>1, <1>2, <1>3, <1>4

-----------------------------------------------------------------------------
(* test_scheduler.                                                           *)

TestCalls == TestScheduler!Schedulables \union {TestScheduler!Drain}

\* A stack of calls: the first is a drain, and a task runs once.
Nested(s) ==
  /\ s \in Seq(TestCalls)
  /\ s # <<>> => s[1] = TestScheduler!Drain
  /\ \A i, j \in DOMAIN s : s[i].task = s[j].task /\ s[i].task \in Tasks => i = j

\* A call on the stack is the drain or that of a task.
LEMMA TestCallTask ==
  \A c \in TestCalls : /\ c = TestScheduler!Drain <=> c.task = NoTask
                       /\ c # TestScheduler!Drain <=> c.task \in Tasks
                       /\ c # TestScheduler!Drain => c \in TestScheduler!Schedulables
<1>1. TestScheduler!Drain = [task |-> NoTask, tp |-> 0]
  BY DEF TestScheduler!Drain, TestScheduler!Schedulable
<1> QED
  BY <1>1, TasksAssumption DEF TestCalls, TestScheduler!Schedulables

\* A call that is not on the stack may be pushed on it,
LEMMA TestPushes ==
  ASSUME NEW s, Nested(s), NEW c \in TestCalls, c = TestScheduler!Drain \/ (s # <<>> /\ ~In(s, c.task))
  PROVE  /\ Nested(Append(s, c)) /\ Append(s, c) # <<>>
         /\ \A t : In(Append(s, c), t) <=> In(s, t) \/ t = c.task
         /\ \A b \in Members(Append(s, c)) : b \in Members(s) \/ b = c
<1> DEFINE new == Append(s, c)
<1>1. /\ s \in Seq(TestCalls) /\ DOMAIN s = 1..Len(s) /\ Len(s) \in Nat
      /\ s # <<>> => Len(s) > 0
  BY LenProperties, EmptySeq DEF Nested
<1>2. /\ new \in Seq(TestCalls) /\ Len(new) = Len(s) + 1 /\ new[Len(s) + 1] = c
      /\ \A k \in 1..Len(s) : new[k] = s[k]
  BY <1>1, AppendProperties
<1>3. DOMAIN new = 1..Len(s) + 1
  BY <1>2, LenProperties
<1> HIDE DEF new
<1>4. new # <<>>
  BY <1>1, <1>2, <1>3
<1>5. new[1] = TestScheduler!Drain
  <2>1. CASE s = <<>>
    <3>1. Len(s) = 0
      BY <2>1
    <3> QED
      BY <1>2, <2>1, <3>1
  <2>2. CASE s # <<>>
    BY <1>1, <1>2, <2>2 DEF Nested
  <2> QED
    BY <2>1, <2>2
<1>6. ASSUME NEW i \in DOMAIN new, NEW j \in DOMAIN new,
             new[i].task = new[j].task, new[i].task \in Tasks
      PROVE  i = j
  <2>1. ASSUME NEW k \in 1..Len(s), new[k].task = c.task, c.task \in Tasks PROVE FALSE
    <3>1. c # TestScheduler!Drain
      BY <2>1, TestCallTask
    <3>2. s[k].task = c.task /\ k \in DOMAIN s
      BY <1>1, <1>2, <2>1
    <3> QED
      BY <3>1, <3>2 DEF In
  <2>2. i = Len(s) + 1 \/ i \in 1..Len(s)
    BY <1>1, <1>3
  <2>3. j = Len(s) + 1 \/ j \in 1..Len(s)
    BY <1>1, <1>3
  <2>4. CASE i \in 1..Len(s) /\ j \in 1..Len(s)
    BY <1>1, <1>2, <1>6, <2>4 DEF Nested
  <2> QED
    BY <1>2, <1>6, <2>1, <2>2, <2>3, <2>4
<1>7. ASSUME NEW t PROVE In(new, t) <=> In(s, t) \/ t = c.task
  <2>1. In(new, t) => In(s, t) \/ t = c.task
    BY <1>1, <1>2, <1>3 DEF In
  <2>2. In(s, t) => In(new, t)
    BY <1>1, <1>2, <1>3 DEF In
  <2>3. t = c.task => In(new, t)
    BY <1>1, <1>2, <1>3 DEF In
  <2> QED
    BY <2>1, <2>2, <2>3
<1>8. \A b \in Members(new) : b \in Members(s) \/ b = c
  BY <1>1, <1>2, <1>3 DEF Members
<1> QED
  BY <1>2, <1>4, <1>5, <1>6, <1>7, <1>8 DEF Nested, new

\* and the last one popped.
LEMMA TestPops ==
  ASSUME NEW s, Nested(s), s # <<>>
  PROVE  /\ s[Len(s)] \in TestCalls /\ s[Len(s)] \in Members(s)
         /\ Nested(TestScheduler!Front(s))
         /\ s[Len(s)] # TestScheduler!Drain => TestScheduler!Front(s) # <<>>
         /\ In(s, s[Len(s)].task)
         /\ \A t \in Tasks : In(TestScheduler!Front(s), t) <=> In(s, t) /\ t # s[Len(s)].task
         /\ \A b \in Members(TestScheduler!Front(s)) : b \in Members(s)
<1> DEFINE new == TestScheduler!Front(s)
<1>1. /\ s \in Seq(TestCalls) /\ DOMAIN s = 1..Len(s) /\ Len(s) \in Nat \ {0}
      /\ \A k \in 1..Len(s) : s[k] \in TestCalls
  BY LenProperties, EmptySeq, ElementOfSeq DEF Nested
<1>2. new = SubSeq(s, 1, Len(s) - 1)
  BY DEF TestScheduler!Front
<1>3. /\ new \in Seq(TestCalls) /\ Len(new) = Len(s) - 1
      /\ \A k \in 1..Len(s) - 1 : new[k] = s[k]
  BY <1>1, <1>2, SubSeqProperties
<1>4. DOMAIN new = 1..Len(s) - 1
  BY <1>3, LenProperties
<1> HIDE DEF new
<1>5. /\ s[Len(s)] \in TestCalls /\ s[Len(s)] \in Members(s) /\ In(s, s[Len(s)].task)
  BY <1>1 DEF Members, In
<1>6. s[Len(s)] # TestScheduler!Drain => new # <<>>
  <2>1. ASSUME new = <<>> PROVE Len(s) = 1
    <3>1. Len(new) = 0
      BY <2>1
    <3>2. Len(new) = Len(s) - 1
      BY <1>3
    <3>3. Len(s) \in Nat
      BY <1>1
    <3> QED
      BY <3>1, <3>2, <3>3
  <2> QED
    BY <1>1, <2>1 DEF Nested
<1>7. Nested(new)
  <2>1. new # <<>> => new[1] = TestScheduler!Drain
    <3>1. ASSUME new # <<>> PROVE Len(s) - 1 >= 1
      BY <1>1, <1>3, <3>1, EmptySeq
    <3> QED
      BY <1>1, <1>3, <3>1 DEF Nested
  <2>2. ASSUME NEW i \in DOMAIN new, NEW j \in DOMAIN new,
               new[i].task = new[j].task, new[i].task \in Tasks
        PROVE  i = j
    BY <1>1, <1>3, <1>4, <2>2 DEF Nested
  <2> QED
    BY <1>3, <2>1, <2>2 DEF Nested
<1>8. ASSUME NEW t \in Tasks PROVE In(new, t) <=> In(s, t) /\ t # s[Len(s)].task
  <2>1. ASSUME NEW k \in DOMAIN new, new[k].task = t PROVE In(s, t) /\ t # s[Len(s)].task
    <3>1. k \in DOMAIN s /\ s[k].task = t /\ k # Len(s) /\ Len(s) \in DOMAIN s
      BY <1>1, <1>3, <1>4, <2>1
    <3> QED
      BY <3>1 DEF In, Nested
  <2>2. ASSUME NEW k \in DOMAIN s, s[k].task = t, t # s[Len(s)].task PROVE In(new, t)
    <3>1. k \in DOMAIN new /\ new[k].task = t
      BY <1>1, <1>3, <1>4, <2>2
    <3> QED
      BY <3>1 DEF In
  <2> QED
    BY <2>1, <2>2 DEF In
<1>9. \A b \in Members(new) : b \in Members(s)
  BY <1>1, <1>3, <1>4 DEF Members
<1> QED
  BY <1>5, <1>6, <1>7, <1>8, <1>9 DEF new

\* A task is in the queue or runs, further up than the drain that called it.
TestPlaces ==
  /\ Nested(stack) /\ Once(queue)
  /\ \A t \in Tasks : ~(In(queue, t) /\ In(stack, t))
  /\ \A t \in Tasks : status[t] = "scheduled" <=> In(queue, t) \/ In(stack, t)
  /\ \A t \in Tasks : status[t] = "new" \/ In(queue, t) => runs[t] < FewRuns

\* It runs at its time or later, and nobody returns before what is due has run.
TestTimes ==
  /\ \A c \in Members(stack) : c.tp <= clock
  /\ stack = <<>> => ~TestScheduler!Due

TestInv == TestScheduler!TypeOK /\ TestPlaces /\ TestTimes

\* emplace() puts in a task that was not there.
LEMMA TestEmplace ==
  ASSUME TestScheduler!TypeOK, TestPlaces, NEW t \in Tasks, NEW tp \in TestScheduler!Times,
         ~In(queue, t), TestScheduler!Emplace(t, tp)
  PROVE  /\ queue' \in Seq(TestScheduler!Schedulables) /\ Once(queue')
         /\ \A u : In(queue', u) <=> In(queue, u) \/ u = t
<1> DEFINE P == {k \in DOMAIN queue : queue[k].tp <= tp}
           e == [task |-> t, tp |-> tp]
<1>1. queue \in Seq(TestScheduler!Schedulables) /\ e \in TestScheduler!Schedulables /\ e.task = t
  BY DEF TestScheduler!TypeOK, TestScheduler!Schedulables
<1>2. P \in SUBSET DOMAIN queue
  OBVIOUS
<1>3. queue' = Insert(queue, Cardinality(P) + 1, e)
  BY SameCardinality DEF TestScheduler!Emplace, TestScheduler!InsertAt, TestScheduler!Schedulable, Insert
<1>4. Once(queue) /\ ~In(queue, e.task)
  BY <1>1 DEF TestPlaces
<1> HIDE DEF P, e
<1>5. /\ queue' \in Seq(TestScheduler!Schedulables) /\ Once(queue')
      /\ \A u : In(queue', u) <=> In(queue, u) \/ u = e.task
  BY <1>1, <1>2, <1>3, <1>4, Emplaced
<1> QED
  BY <1>1, <1>5

\* What the drains and the tasks do to the stack.
LEMMA TestPush ==
  ASSUME TestPlaces, NEW c \in TestCalls, c = TestScheduler!Drain \/ (stack # <<>> /\ ~In(stack, c.task)),
         TestScheduler!Push(c)
  PROVE  /\ Nested(stack') /\ stack' # <<>>
         /\ \A t : In(stack', t) <=> In(stack, t) \/ t = c.task
         /\ \A b \in Members(stack') : b \in Members(stack) \/ b = c
<1>1. stack' = Append(stack, c) /\ Nested(stack)
  BY DEF TestScheduler!Push, TestPlaces
<1> QED
  BY <1>1, TestPushes

\* What the end of a call leaves on the stack.
LEMMA TestPop ==
  ASSUME TestPlaces, stack # <<>>, TestScheduler!Pop
  PROVE  /\ TestScheduler!Top \in TestCalls /\ TestScheduler!Top \in Members(stack)
         /\ In(stack, TestScheduler!Top.task)
         /\ Nested(stack')
         /\ TestScheduler!Top # TestScheduler!Drain => stack' # <<>>
         /\ \A t \in Tasks : In(stack', t) <=> In(stack, t) /\ t # TestScheduler!Top.task
         /\ \A b \in Members(stack') : b \in Members(stack)
<1>1. stack' = TestScheduler!Front(stack) /\ Nested(stack) /\ TestScheduler!Top = stack[Len(stack)]
  BY DEF TestScheduler!Pop, TestScheduler!Top, TestPlaces
<1> QED
  BY <1>1, TestPops

\* Every step keeps the invariant of test_scheduler,
LEMMA TestStep ==
  ASSUME TestInv, [TestScheduler!Next]_(TestScheduler!vars)
  PROVE  TestInv'
<1>0. /\ MaxTime \in Nat /\ MaxDelay \in Nat /\ FewRuns \in Nat \ {0} /\ NoTask \notin Tasks
      /\ TestScheduler!Drain \in TestCalls /\ TestScheduler!Drain.task = NoTask
      /\ TestScheduler!Drain.tp = 0 /\ NoTask \notin Tasks
  BY BoundsAssumption, TasksAssumption DEF TestCalls, TestScheduler!Drain, TestScheduler!Schedulable
<1>1. TestScheduler!TypeOK /\ TestPlaces /\ TestTimes
  BY DEF TestInv
<1>2. /\ Nested(stack) /\ Once(queue)
      /\ clock \in TestScheduler!Times /\ clock \in Nat
      /\ queue \in Seq(TestScheduler!Schedulables) /\ stack \in Seq(TestCalls)
      /\ status \in [Tasks -> {"new", "scheduled", "over"}] /\ disposed \subseteq Tasks
      /\ runs \in [Tasks -> 0..FewRuns] /\ wanted \in [Tasks -> TestScheduler!Times]
      /\ kind \in [Tasks -> TestScheduler!Kinds]
  BY <1>0, <1>1 DEF TestScheduler!TypeOK, TestPlaces, TestScheduler!Times, TestCalls
<1>3. CASE UNCHANGED TestScheduler!vars
  BY <1>1, <1>3 DEF TestScheduler!vars, TestInv, TestScheduler!TypeOK, TestPlaces, TestTimes, TestScheduler!Due
\* What is left to show of a step that leaves the queue and the stack well-formed.
<1>4. ASSUME clock' \in TestScheduler!Times, queue' \in Seq(TestScheduler!Schedulables), Nested(stack'),
             disposed' \subseteq Tasks, status' \in [Tasks -> {"new", "scheduled", "over"}],
             runs' \in [Tasks -> 0..FewRuns], wanted' \in [Tasks -> TestScheduler!Times],
             UNCHANGED kind, TestPlaces', TestTimes'
      PROVE  TestInv'
  <2>1. stack' \in Seq(TestScheduler!Schedulables \union {TestScheduler!Drain})
    BY <1>4 DEF Nested, TestCalls
  <2>2. kind' \in [Tasks -> TestScheduler!Kinds]
    BY <1>2, <1>4
  <2>3. TestScheduler!TypeOK'
    BY <1>4, <2>1, <2>2 DEF TestScheduler!TypeOK, TestScheduler!Drain, TestScheduler!Schedulable
  <2> QED
    BY <1>4, <2>3 DEF TestInv
\* A drain is pushed.
<1>5. ASSUME TestScheduler!Push(TestScheduler!Drain), clock' >= clock, clock' \in Nat
      PROVE  /\ Nested(stack') /\ stack' # <<>>
             /\ \A t \in Tasks : In(stack', t) <=> In(stack, t)
             /\ \A b \in Members(stack') : b.tp <= clock'
  <2>1. /\ Nested(stack') /\ stack' # <<>>
        /\ \A t : In(stack', t) <=> In(stack, t) \/ t = TestScheduler!Drain.task
        /\ \A b \in Members(stack') : b \in Members(stack) \/ b = TestScheduler!Drain
    BY <1>0, <1>1, <1>5, TestPush
  <2>2. Members(stack) \subseteq TestCalls
    BY <1>2, MembersIn
  <2>3. \A b \in Members(stack) : b.tp \in Nat /\ b.tp <= clock
    BY <1>0, <1>1, <2>2 DEF TestTimes, TestCalls, TestScheduler!Schedulables, TestScheduler!Times
  <2>4. \A b \in Members(stack) : b.tp <= clock'
    BY <1>2, <1>5, <2>3
  <2> QED
    BY <1>0, <1>5, <2>1, <2>4
<1>6. CASE TestScheduler!TimeAdvance
  <2>1. clock' = clock + 1 /\ clock < MaxTime /\ TestScheduler!Push(TestScheduler!Drain)
        /\ UNCHANGED <<kind, queue, disposed, status, runs, wanted>>
    BY <1>6 DEF TestScheduler!TimeAdvance
  <2>2. clock' \in TestScheduler!Times /\ clock' >= clock /\ clock' \in Nat
    BY <1>0, <1>2, <2>1 DEF TestScheduler!Times
  <2>3. /\ Nested(stack') /\ stack' # <<>>
        /\ \A t \in Tasks : In(stack', t) <=> In(stack, t)
        /\ \A b \in Members(stack') : b.tp <= clock'
    BY <1>5, <2>1, <2>2
  <2>4. TestPlaces' /\ TestTimes'
    BY <1>1, <2>1, <2>3 DEF TestPlaces, TestTimes
  <2> QED
    BY <1>2, <1>4, <2>1, <2>2, <2>3, <2>4
<1>7. ASSUME NEW t \in Tasks, TestScheduler!Schedule(t) PROVE TestInv'
  <2>1. PICK tp \in clock..MaxTime : TestScheduler!Emplace(t, tp) /\ wanted' = [wanted EXCEPT ![t] = tp]
    BY <1>7 DEF TestScheduler!Schedule
  <2>2. /\ status[t] = "new" /\ status' = [status EXCEPT ![t] = "scheduled"]
        /\ TestScheduler!Push(TestScheduler!Drain) /\ UNCHANGED <<clock, kind, disposed, runs>>
    BY <1>7 DEF TestScheduler!Schedule
  <2>3. tp \in TestScheduler!Times /\ ~In(queue, t) /\ ~In(stack, t)
    BY <1>0, <1>1, <1>2, <2>2 DEF TestScheduler!Times, TestPlaces
  <2>4. /\ queue' \in Seq(TestScheduler!Schedulables) /\ Once(queue')
        /\ \A u : In(queue', u) <=> In(queue, u) \/ u = t
    BY <1>1, <2>1, <2>3, TestEmplace
  <2>5. /\ Nested(stack') /\ stack' # <<>>
        /\ \A u \in Tasks : In(stack', u) <=> In(stack, u)
        /\ \A b \in Members(stack') : b.tp <= clock'
    <3>1. clock' >= clock /\ clock' \in Nat
      BY <1>2, <2>2
    <3> QED
      BY <1>5, <2>2, <3>1
  <2>6. status' \in [Tasks -> {"new", "scheduled", "over"}]
        /\ \A u \in Tasks : status'[u] = IF u = t THEN "scheduled" ELSE status[u]
    BY <1>2, <2>2
  <2>7. wanted' \in [Tasks -> TestScheduler!Times]
    BY <1>2, <2>1, <2>3
  <2>8. TestPlaces' /\ TestTimes'
    BY <1>1, <2>2, <2>3, <2>4, <2>5, <2>6 DEF TestPlaces, TestTimes
  <2> QED
    BY <1>2, <1>4, <2>2, <2>4, <2>5, <2>6, <2>7, <2>8
<1>8. ASSUME NEW t \in Tasks, TestScheduler!Dispose(t) PROVE TestInv'
  <2>1. /\ disposed' \subseteq Tasks
        /\ UNCHANGED <<clock, kind, queue, stack, status, runs, wanted>>
    BY <1>2, <1>8 DEF TestScheduler!Dispose
  <2>2. TestPlaces' /\ TestTimes'
    BY <1>1, <2>1 DEF TestPlaces, TestTimes, TestScheduler!Due
  <2> QED
    BY <1>2, <1>4, <2>1, <2>2
<1>9. CASE TestScheduler!DrainOver
  <2>1. /\ stack # <<>> /\ TestScheduler!Top = TestScheduler!Drain /\ TestScheduler!Pop /\ ~TestScheduler!Due
        /\ UNCHANGED <<clock, kind, queue, disposed, status, runs, wanted>>
    BY <1>9 DEF TestScheduler!DrainOver, TestScheduler!Draining
  <2>2. /\ Nested(stack')
        /\ \A t \in Tasks : In(stack', t) <=> In(stack, t) /\ t # TestScheduler!Top.task
        /\ \A b \in Members(stack') : b \in Members(stack)
    BY <1>1, <2>1, TestPop
  <2>3. \A t \in Tasks : In(stack', t) <=> In(stack, t)
    BY <1>0, <2>1, <2>2
  <2>4. TestPlaces' /\ TestTimes'
    BY <1>1, <2>1, <2>2, <2>3 DEF TestPlaces, TestTimes, TestScheduler!Due
  <2> QED
    BY <1>2, <1>4, <2>1, <2>2, <2>4
\* What is taken from the queue.
<1>10. ASSUME TestScheduler!Due, queue' = Tail(queue)
       PROVE  /\ queue' \in Seq(TestScheduler!Schedulables) /\ Once(queue')
              /\ Head(queue) \in TestScheduler!Schedulables /\ In(queue, Head(queue).task)
              /\ \A t : In(queue', t) <=> In(queue, t) /\ t # Head(queue).task
  BY <1>2, <1>10, Taken DEF TestScheduler!Due
<1>11. CASE TestScheduler!DrainDisposed
  <2> DEFINE t == Head(queue).task
  <2>1. /\ TestScheduler!Due /\ queue' = Tail(queue) /\ status' = [status EXCEPT ![t] = "over"] /\ stack # <<>>
        /\ UNCHANGED <<clock, kind, stack, disposed, runs, wanted>>
    BY <1>11 DEF TestScheduler!DrainDisposed, TestScheduler!Draining
  <2>2. /\ queue' \in Seq(TestScheduler!Schedulables) /\ Once(queue')
        /\ t \in Tasks /\ In(queue, t)
        /\ \A u : In(queue', u) <=> In(queue, u) /\ u # t
    BY <1>10, <2>1 DEF TestScheduler!Schedulables
  <2> HIDE DEF t
  <2>3. status' \in [Tasks -> {"new", "scheduled", "over"}]
        /\ \A u \in Tasks : status'[u] = IF u = t THEN "over" ELSE status[u]
    BY <1>2, <2>1
  <2>4. TestPlaces' /\ TestTimes'
    BY <1>1, <2>1, <2>2, <2>3 DEF TestPlaces, TestTimes
  <2> QED
    BY <1>2, <1>4, <2>1, <2>2, <2>3, <2>4
<1>12. CASE TestScheduler!Call
  <2> DEFINE top == Head(queue)
             t == top.task
  <2>1. /\ TestScheduler!Due /\ queue' = Tail(queue) /\ runs' = [runs EXCEPT ![t] = @ + 1]
        /\ TestScheduler!Push(top) /\ stack # <<>> /\ top.tp <= clock
        /\ UNCHANGED <<clock, kind, disposed, status, wanted>>
    BY <1>12 DEF TestScheduler!Call, TestScheduler!Draining, TestScheduler!Due
  <2>2. /\ queue' \in Seq(TestScheduler!Schedulables) /\ Once(queue')
        /\ top \in TestCalls /\ t \in Tasks /\ In(queue, t)
        /\ \A u : In(queue', u) <=> In(queue, u) /\ u # t
    BY <1>10, <2>1 DEF TestScheduler!Schedulables, TestCalls
  <2>3. ~In(stack, t) /\ runs[t] < FewRuns
    BY <1>1, <2>2 DEF TestPlaces
  <2>4. /\ Nested(stack') /\ stack' # <<>>
        /\ \A u : In(stack', u) <=> In(stack, u) \/ u = t
        /\ \A b \in Members(stack') : b \in Members(stack) \/ b = top
    <3> HIDE DEF top
    <3> QED
      BY <1>1, <2>1, <2>2, <2>3, TestPush DEF t
  <2> HIDE DEF t, top
  <2>5. runs' \in [Tasks -> 0..FewRuns] /\ \A u \in Tasks : u # t => runs'[u] = runs[u]
    BY <1>0, <1>2, <2>1, <2>2, <2>3
  <2>6. TestPlaces'
    BY <1>1, <2>1, <2>2, <2>3, <2>4, <2>5 DEF TestPlaces
  <2>7. TestTimes'
    BY <1>1, <2>1, <2>4 DEF TestTimes
  <2> QED
    BY <1>2, <1>4, <2>1, <2>2, <2>4, <2>5, <2>6, <2>7
\* A task returns.
<1>13. ASSUME TestScheduler!Running, TestScheduler!Pop
       PROVE  /\ TestScheduler!Top.task \in Tasks /\ TestScheduler!Top \in TestScheduler!Schedulables
              /\ In(stack, TestScheduler!Top.task)
              /\ Nested(stack') /\ stack' # <<>>
              /\ \A t \in Tasks : In(stack', t) <=> In(stack, t) /\ t # TestScheduler!Top.task
              /\ \A b \in Members(stack') : b \in Members(stack)
  <2>1. stack # <<>> /\ TestScheduler!Top # TestScheduler!Drain
    BY <1>13 DEF TestScheduler!Running
  <2>2. /\ TestScheduler!Top \in TestCalls /\ In(stack, TestScheduler!Top.task)
        /\ Nested(stack') /\ stack' # <<>>
        /\ \A t \in Tasks : In(stack', t) <=> In(stack, t) /\ t # TestScheduler!Top.task
        /\ \A b \in Members(stack') : b \in Members(stack)
    BY <1>1, <1>13, <2>1, TestPop
  <2> QED
    BY <2>1, <2>2, TestCallTask
<1>14. CASE TestScheduler!Finish
  <2> DEFINE t == TestScheduler!Top.task
  <2>1. /\ TestScheduler!Running /\ TestScheduler!Pop /\ status' = [status EXCEPT ![t] = "over"]
        /\ wanted' = [wanted EXCEPT ![t] = 0]
        /\ UNCHANGED <<clock, kind, queue, disposed, runs>>
    BY <1>14 DEF TestScheduler!Finish
  <2>2. /\ t \in Tasks /\ In(stack, t) /\ Nested(stack') /\ stack' # <<>>
        /\ \A u \in Tasks : In(stack', u) <=> In(stack, u) /\ u # t
        /\ \A b \in Members(stack') : b \in Members(stack)
    BY <1>13, <2>1
  <2> HIDE DEF t
  <2>3. status' \in [Tasks -> {"new", "scheduled", "over"}]
        /\ \A u \in Tasks : status'[u] = IF u = t THEN "over" ELSE status[u]
    BY <1>2, <2>1
  <2>4. wanted' \in [Tasks -> TestScheduler!Times]
    <3>1. 0 \in TestScheduler!Times
      BY <1>0 DEF TestScheduler!Times
    <3> QED
      BY <1>2, <2>1, <3>1
  <2>5. TestPlaces' /\ TestTimes'
    BY <1>1, <2>1, <2>2, <2>3 DEF TestPlaces, TestTimes
  <2> QED
    BY <1>2, <1>4, <2>1, <2>2, <2>3, <2>4, <2>5
<1>15. CASE TestScheduler!Return
  <2> DEFINE t == TestScheduler!Top.task
  <2>1. /\ TestScheduler!Running /\ TestScheduler!Pop /\ runs[t] < FewRuns
        /\ UNCHANGED <<clock, kind, disposed, runs>>
    BY <1>15 DEF TestScheduler!Return
  <2>2. /\ t \in Tasks /\ In(stack, t) /\ Nested(stack') /\ stack' # <<>>
        /\ \A u \in Tasks : In(stack', u) <=> In(stack, u) /\ u # t
        /\ \A b \in Members(stack') : b \in Members(stack)
        /\ TestScheduler!Top \in TestScheduler!Schedulables
    BY <1>13, <2>1
  <2>3. PICK d \in IF kind[t] = "delay_to" THEN TestScheduler!Times ELSE TestScheduler!Delays :
          LET at == TestScheduler!Again(kind[t], d, TestScheduler!Top.tp) IN
            /\ at <= MaxTime
            /\ wanted' = [wanted EXCEPT ![t] = at]
            /\ IF t \in disposed
               THEN status' = [status EXCEPT ![t] = "over"] /\ UNCHANGED queue
               ELSE TestScheduler!Emplace(t, at) /\ UNCHANGED status
    BY <1>15 DEF TestScheduler!Return
  <2> DEFINE at == TestScheduler!Again(kind[t], d, TestScheduler!Top.tp)
  <2>4. d \in Nat /\ TestScheduler!Top.tp \in Nat
    BY <1>0, <2>2, <2>3 DEF TestScheduler!Times, TestScheduler!Delays, TestScheduler!Schedulables
  <2>5. at \in TestScheduler!Times
    <3>1. at = clock \/ at = clock + d \/ at = TestScheduler!Top.tp + d \/ at = d
      <4>1. kind[t] \in {"delay_from_now", "delay_from_this_timepoint", "delay_to"}
        BY <1>2, <2>2 DEF TestScheduler!Kinds
      <4> QED
        BY <4>1 DEF TestScheduler!Again
    <3>2. at <= MaxTime /\ clock \in Nat
      BY <1>0, <1>2, <2>3 DEF TestScheduler!Times
    <3> HIDE DEF at
    <3>3. at \in Nat
      BY <2>4, <3>1, <3>2
    <3> QED
      BY <1>0, <3>2, <3>3 DEF TestScheduler!Times
  <2>6. wanted' = [wanted EXCEPT ![t] = at]
    BY <2>3
  <2>7. t \in disposed => status' = [status EXCEPT ![t] = "over"] /\ UNCHANGED queue
    BY <2>3
  <2>8. t \notin disposed => TestScheduler!Emplace(t, at) /\ UNCHANGED status
    BY <2>3
  <2> HIDE DEF t, at
  <2>9. wanted' \in [Tasks -> TestScheduler!Times]
    BY <1>2, <2>5, <2>6
  <2>10. CASE t \in disposed
    <3>1. status' \in [Tasks -> {"new", "scheduled", "over"}]
          /\ \A u \in Tasks : status'[u] = IF u = t THEN "over" ELSE status[u]
      BY <1>2, <2>7, <2>10
    <3>2. TestPlaces' /\ TestTimes'
      BY <1>1, <2>1, <2>2, <2>7, <2>10, <3>1 DEF TestPlaces, TestTimes
    <3> QED
      BY <1>2, <1>4, <2>1, <2>2, <2>7, <2>9, <2>10, <3>1, <3>2
  <2>11. CASE t \notin disposed
    <3>1. ~In(queue, t)
      BY <1>1, <2>2 DEF TestPlaces
    <3>2. /\ queue' \in Seq(TestScheduler!Schedulables) /\ Once(queue')
          /\ \A u : In(queue', u) <=> In(queue, u) \/ u = t
      BY <1>1, <2>2, <2>5, <2>8, <2>11, <3>1, TestEmplace
    <3>3. TestPlaces' /\ TestTimes'
      BY <1>1, <2>1, <2>2, <2>8, <2>11, <3>2 DEF TestPlaces, TestTimes
    <3> QED
      BY <1>2, <1>4, <2>1, <2>2, <2>8, <2>9, <2>11, <3>2, <3>3
  <2> QED
    BY <2>10, <2>11
<1> QED
  BY <1>3, <1>6, <1>7, <1>8, <1>9, <1>11, <1>12, <1>14, <1>15 DEF TestScheduler!Next

\* which holds to begin with,
LEMMA TestInit ==
  ASSUME TestScheduler!Init PROVE TestInv
<1> USE DEF TestScheduler!Init
<1>0. MaxTime \in Nat /\ FewRuns \in Nat \ {0}
  BY BoundsAssumption
<1>1. TestScheduler!TypeOK
  BY <1>0 DEF TestScheduler!TypeOK, TestScheduler!Times
<1>2. Nested(stack)
  BY DEF Nested
<1>3. TestPlaces
  BY <1>0, <1>2, NothingIn DEF TestPlaces
<1>4. TestTimes
  BY NothingIn DEF TestTimes, TestScheduler!Due
<1> QED
  BY <1>1, <1>3, <1>4 DEF TestInv

\* and is what the scheduler promises.
LEMMA TestSafe ==
  ASSUME TestInv
  PROVE  /\ TestScheduler!TypeOK /\ TestScheduler!NeverEarly
         /\ TestScheduler!NothingDueLeft /\ TestScheduler!InOnePlace
<1>1. TestScheduler!TypeOK /\ TestPlaces /\ TestTimes
  BY DEF TestInv
<1>2. TestScheduler!NeverEarly
  <2>1. stack \in Seq(TestCalls) /\ clock \in Nat
    BY <1>1, BoundsAssumption DEF TestPlaces, Nested, TestScheduler!TypeOK, TestScheduler!Times
  <2>2. Members(stack) \subseteq TestCalls
    BY <2>1, MembersIn
  <2>3. \A c \in TestCalls : c.tp \in Nat
    BY BoundsAssumption
    DEF TestCalls, TestScheduler!Schedulables, TestScheduler!Drain, TestScheduler!Schedulable, TestScheduler!Times
  <2>4. ASSUME NEW i \in DOMAIN stack PROVE clock >= stack[i].tp
    <3>1. stack[i] \in Members(stack)
      BY DEF Members
    <3>2. stack[i].tp <= clock /\ stack[i].tp \in Nat
      BY <1>1, <2>2, <2>3, <3>1 DEF TestTimes
    <3> QED
      BY <2>1, <3>2
  <2> QED
    BY <2>4 DEF TestScheduler!NeverEarly
<1>3. TestScheduler!NothingDueLeft
  BY <1>1 DEF TestTimes, TestScheduler!NothingDueLeft
<1>4. TestScheduler!InOnePlace
  <2> SUFFICES ASSUME NEW t \in Tasks
               PROVE  Cardinality({k \in DOMAIN queue : queue[k].task = t})
                        + Cardinality({i \in DOMAIN stack : stack[i].task = t})
                      = IF status[t] = "scheduled" THEN 1 ELSE 0
    BY SameCardinality DEF TestScheduler!InOnePlace
  <2>1. Cardinality({k \in DOMAIN queue : queue[k].task = t}) = IF In(queue, t) THEN 1 ELSE 0
    <3>1. Once(queue)
      BY <1>1 DEF TestPlaces
    <3> QED
      BY <3>1, CountIn DEF Once
  <2>2. Cardinality({i \in DOMAIN stack : stack[i].task = t}) = IF In(stack, t) THEN 1 ELSE 0
    <3>1. \A i, j \in DOMAIN stack : stack[i].task = t /\ stack[j].task = t => i = j
      BY <1>1 DEF TestPlaces, Nested
    <3> QED
      BY <3>1, CountIn
  <2>3. /\ ~(In(queue, t) /\ In(stack, t))
        /\ status[t] = "scheduled" <=> In(queue, t) \/ In(stack, t)
    BY <1>1 DEF TestPlaces
  <2> QED
    BY <2>1, <2>2, <2>3
<1> QED
  BY <1>1, <1>2, <1>3, <1>4

-----------------------------------------------------------------------------
(* The event loops.                                                          *)

\* A queue of tasks, each of them once.
Queued(q, t) == \E k \in DOMAIN q : q[k] = t
Distinct(q) == \A j, k \in DOMAIN q : q[j] = q[k] => j = k

\* A task that is not in a queue is once in it when it has been inserted.
LEMMA EventInserted ==
  ASSUME NEW q \in Seq(Tasks), NEW t \in Tasks, NEW P \in SUBSET DOMAIN q,
         NEW new, new = Insert(q, Cardinality(P) + 1, t), Distinct(q), ~Queued(q, t)
  PROVE  /\ new \in Seq(Tasks) /\ Distinct(new)
         /\ \A u : Queued(new, u) <=> Queued(q, u) \/ u = t
<1>1. DOMAIN q = 1..Len(q) /\ Len(q) \in Nat
  BY LenProperties
<1>2. Cardinality(P) + 1 \in 1..Len(q) + 1
  BY <1>1, CountPlaces
<1> DEFINE i == Cardinality(P) + 1
<1>3. i \in 1..Len(q) + 1 /\ new = Insert(q, i, t)
  BY <1>2
<1> HIDE DEF i
<1>4. /\ Insert(q, i, t) \in Seq(Tasks) /\ Len(Insert(q, i, t)) = Len(q) + 1
      /\ \A k \in 1..Len(q) + 1 :
           Insert(q, i, t)[k] = IF k < i THEN q[k] ELSE IF k = i THEN t ELSE q[k - 1]
  <2>1. i \in 1..Len(q) + 1
    BY <1>3
  <2> QED
    BY <2>1, InsertShape
<1>5. /\ new \in Seq(Tasks) /\ DOMAIN new = 1..Len(q) + 1
      /\ \A k \in 1..Len(q) + 1 : new[k] = IF k < i THEN q[k] ELSE IF k = i THEN t ELSE q[k - 1]
  BY <1>3, <1>4, LenProperties
<1>6. ASSUME NEW k \in 1..Len(q) + 1, k # i PROVE new[k] # t
  <2>1. k < i => k \in DOMAIN q /\ new[k] = q[k]
    BY <1>1, <1>3, <1>5, <1>6
  <2>2. ~(k < i) => k - 1 \in DOMAIN q /\ new[k] = q[k - 1]
    BY <1>1, <1>3, <1>5, <1>6
  <2> QED
    BY <2>1, <2>2 DEF Queued
<1>7. Distinct(new)
  <2> SUFFICES ASSUME NEW j \in 1..Len(q) + 1, NEW k \in 1..Len(q) + 1, new[j] = new[k]
               PROVE  j = k
    BY <1>5 DEF Distinct
  <2> DEFINE old(n) == IF n < i THEN n ELSE n - 1
  <2>1. ASSUME NEW n \in 1..Len(q) + 1, n # i
        PROVE  old(n) \in 1..Len(q) /\ new[n] = q[old(n)]
    BY <1>1, <1>3, <1>5, <2>1
  <2>2. CASE j # i /\ k # i
    <3>1. q[old(j)] = q[old(k)] /\ old(j) \in DOMAIN q /\ old(k) \in DOMAIN q
      BY <1>1, <2>1, <2>2
    <3> HIDE DEF old
    <3>2. old(j) = old(k)
      BY <3>1 DEF Distinct
    <3> QED
      BY <1>1, <1>3, <2>2, <3>2 DEF old
  <2>3. CASE j = i \/ k = i
    BY <1>5, <1>6, <2>3
  <2> QED
    BY <2>2, <2>3
<1>8. ASSUME NEW u PROVE Queued(new, u) <=> Queued(q, u) \/ u = t
  <2>1. ASSUME NEW k \in 1..Len(q) + 1, new[k] = u PROVE Queued(q, u) \/ u = t
    BY <1>1, <1>3, <1>5, <2>1 DEF Queued
  <2>2. ASSUME NEW k \in 1..Len(q), q[k] = u PROVE Queued(new, u)
    <3>1. CASE k < i
      <4>1. k \in 1..Len(q) + 1 /\ new[k] = q[k]
        BY <1>1, <1>3, <1>5, <3>1
      <4> QED
        BY <1>5, <2>2, <4>1 DEF Queued
    <3>2. CASE ~(k < i)
      <4>1. k + 1 \in 1..Len(q) + 1 /\ new[k + 1] = q[k]
        BY <1>1, <1>3, <1>5, <3>2
      <4> QED
        BY <1>5, <2>2, <4>1 DEF Queued
    <3> QED
      BY <3>1, <3>2
  <2>3. u = t => Queued(new, u)
    BY <1>3, <1>5 DEF Queued
  <2> QED
    BY <1>1, <1>5, <2>1, <2>2, <2>3 DEF Queued
<1> QED
  BY <1>5, <1>7, <1>8

\* Once its head has been taken a queue has the others, and the head no more.
LEMMA EventTaken ==
  ASSUME NEW q \in Seq(Tasks), q # <<>>, Distinct(q)
  PROVE  /\ Head(q) \in Tasks /\ Queued(q, Head(q))
         /\ Tail(q) \in Seq(Tasks) /\ Distinct(Tail(q))
         /\ \A t : Queued(Tail(q), t) <=> Queued(q, t) /\ t # Head(q)
<1>1. /\ DOMAIN q = 1..Len(q) /\ Len(q) \in Nat \ {0} /\ Head(q) = q[1] /\ Head(q) \in Tasks
      /\ Tail(q) \in Seq(Tasks)
      /\ DOMAIN Tail(q) = 1..Len(q) - 1 /\ \A k \in 1..Len(q) - 1 : Tail(q)[k] = q[k + 1]
  <2>1. Tail(q) \in Seq(Tasks) /\ Len(Tail(q)) = Len(q) - 1
    BY HeadTailProperties
  <2> QED
    BY <2>1, HeadTailProperties, LenProperties, EmptySeq
<1>2. Distinct(Tail(q))
  BY <1>1 DEF Distinct
<1>3. ASSUME NEW t PROVE Queued(Tail(q), t) <=> Queued(q, t) /\ t # Head(q)
  <2>1. ASSUME NEW k \in 1..Len(q) - 1, Tail(q)[k] = t PROVE Queued(q, t) /\ t # Head(q)
    <3>1. k + 1 \in 1..Len(q) /\ q[k + 1] = t /\ k + 1 # 1 /\ 1 \in 1..Len(q)
      BY <1>1, <2>1
    <3> QED
      BY <1>1, <3>1 DEF Queued, Distinct
  <2>2. ASSUME NEW k \in 1..Len(q), q[k] = t, t # Head(q) PROVE Queued(Tail(q), t)
    <3>1. k - 1 \in 1..Len(q) - 1 /\ Tail(q)[k - 1] = t
      BY <1>1, <2>2
    <3> QED
      BY <1>1, <3>1 DEF Queued
  <2> QED
    BY <1>1, <2>1, <2>2 DEF Queued
<1>4. Queued(q, Head(q))
  BY <1>1 DEF Queued
<1> QED
  BY <1>1, <1>2, <1>3, <1>4

\* A task waits for its turn in current_thread's queue or in the loop, or runs.
Timed(S, t) == \E h \in S : h.task = t
EventPlaces ==
  /\ Distinct(queue)
  /\ \A g, h \in timers : g.task = h.task => g = h
  /\ pc = "run" <=> cur \in Tasks
  /\ \A t \in Tasks : ~(Queued(queue, t) /\ Timed(timers, t))
  /\ \A t \in Tasks : cur = t => ~Queued(queue, t) /\ ~Timed(timers, t)
  /\ \A t \in Tasks : status[t] = "scheduled" <=> Queued(queue, t) \/ Timed(timers, t) \/ cur = t
  /\ \A t \in Tasks : status[t] = "new" \/ Queued(queue, t) \/ Timed(timers, t) => runs[t] < MaxRuns

\* What the n-th call of a task may be early by.
EarlyBy(l, k, n) ==
  IF l = "strand" THEN 0 ELSE IF k = "delay_from_this_timepoint" THEN (Milli - 1) * n ELSE Milli - 1

\* It is a number, and has room for one truncation in each call.
LEMMA EarlyByCalls ==
  ASSUME NEW l, NEW k, NEW n \in Nat
  PROVE  /\ EarlyBy(l, k, n) \in Nat /\ EarlyBy(l, k, n + 1) \in Nat
         /\ EarlyBy(l, k, n + 1) >= EarlyBy(l, k, n)
         /\ l # "strand" => EarlyBy(l, k, n + 1) >= Milli - 1
         /\ l # "strand" /\ k = "delay_from_this_timepoint" =>
              EarlyBy(l, k, n + 1) = EarlyBy(l, k, n) + (Milli - 1)
<1>1. Milli \in Nat \ {0}
  BY BoundsAssumption
<1>2. PICK m \in Nat : m = Milli - 1
  BY <1>1
<1>3. m * n \in Nat /\ m * (n + 1) = m * n + m
  BY <1>2
<1>4. /\ EarlyBy(l, k, n) = IF l = "strand" THEN 0 ELSE IF k = "delay_from_this_timepoint" THEN m * n ELSE m
      /\ EarlyBy(l, k, n + 1) = IF l = "strand" THEN 0
                                ELSE IF k = "delay_from_this_timepoint" THEN m * (n + 1) ELSE m
  BY <1>2 DEF EarlyBy
<1>5. CASE l = "strand"
  BY <1>4, <1>5
<1>6. CASE l # "strand" /\ k = "delay_from_this_timepoint"
  BY <1>2, <1>3, <1>4, <1>6
<1>7. CASE l # "strand" /\ k # "delay_from_this_timepoint"
  BY <1>2, <1>4, <1>7
<1> QED
  BY <1>5, <1>6, <1>7

\* The deadline of a timer is early by what the truncation cuts off, if at all.
LEMMA EventDeadline ==
  ASSUME NEW tp \in EventLoop!Times, clock \in EventLoop!Times
  PROVE  /\ EventLoop!Deadline(tp) \in EventLoop!Times
         /\ loop = "strand" => EventLoop!Deadline(tp) = tp
         /\ loop # "strand" => EventLoop!Deadline(tp) + (Milli - 1) >= tp
<1>1. Milli \in Nat \ {0} /\ MaxTime \in Nat /\ EventLoop!Times = 0..MaxTime
  BY BoundsAssumption DEF EventLoop!Times
<1>1a. tp \in Nat /\ clock \in Nat
  BY <1>1
<1>1b. (IF tp > clock THEN tp - clock ELSE 0) \in Nat
  BY <1>1a
<1>2. PICK d \in Nat : d = IF tp > clock THEN tp - clock ELSE 0
  BY <1>1b
<1>3. PICK c \in 0..(Milli - 1) : c = d % Milli /\ c <= d
  BY <1>1, <1>2
<1>4. EventLoop!Deadline(tp) = IF loop = "strand" THEN tp ELSE clock + (d - c)
  BY <1>2, <1>3 DEF EventLoop!Deadline, EventLoop!Truncated
<1> QED
  BY <1>1, <1>2, <1>3, <1>4

\* No time point that is waited for is before the time that was wanted, but for
\* what Qt cuts off.
EarlyNow(t) == EarlyBy(loop, kind[t], runs[t])
EarlyNext(t) == EarlyBy(loop, kind[t], runs[t] + 1)
EventTimes ==
  /\ \A h \in timers : h.at + EarlyNext(h.task) >= wanted[h.task]
  /\ \A t \in wrapped : m_time_point[t] >= wanted[t] /\ status[t] # "new"
  /\ \A t \in Tasks : Queued(queue, t) => t \in wrapped
  /\ pc = "run" =>
       /\ clock + EarlyNow(cur) >= wanted[cur]
       /\ loop = "main_thread" => entered + EarlyNow(cur) >= wanted[cur]
  /\ loop # "strand" => wrapped = {} /\ owned = FALSE
  /\ loop = "no_application" => timers = {} /\ pc # "run"

EventInv == EventLoop!TypeOK /\ EventPlaces /\ EventTimes

\* Every step keeps the invariant of the event loops,
LEMMA EventStep ==
  ASSUME EventInv, [EventLoop!Next]_(EventLoop!vars)
  PROVE  EventInv'
<1> USE DEF EventLoop!thread, EventLoop!tasks
<1>0. MaxTime \in Nat /\ MaxDelay \in Nat /\ MaxRuns \in Nat \ {0} /\ NoTask \notin Tasks
      /\ Milli \in Nat \ {0} /\ EventLoop!Times = 0..MaxTime
  BY BoundsAssumption, TasksAssumption DEF EventLoop!Times
<1>1. EventLoop!TypeOK /\ EventPlaces /\ EventTimes
  BY DEF EventInv
<1>2. /\ clock \in EventLoop!Times /\ loop \in EventLoop!Loops /\ kind \in [Tasks -> EventLoop!Kinds]
      /\ timers \subseteq [task : Tasks, at : EventLoop!Times]
      /\ queue \in Seq(Tasks) /\ owned \in BOOLEAN
      /\ pc \in {"idle", "run", "leave"} /\ cur \in Tasks \union {NoTask} /\ entered \in EventLoop!Times
      /\ wrapped \subseteq Tasks /\ m_time_point \in [Tasks -> EventLoop!Times]
      /\ disposed \subseteq Tasks /\ status \in [Tasks -> {"new", "scheduled", "over"}]
      /\ runs \in [Tasks -> 0..MaxRuns] /\ wanted \in [Tasks -> Nat]
  BY <1>1 DEF EventLoop!TypeOK
<1>3. /\ \A t \in Tasks : wanted[t] \in Nat /\ m_time_point[t] \in Nat
      /\ clock \in Nat /\ entered \in Nat
      /\ \A h \in timers : h.at \in Nat /\ h.task \in Tasks
  BY <1>0, <1>2
<1>3a. ASSUME NEW t \in Tasks
       PROVE  /\ EarlyNow(t) \in Nat /\ EarlyNext(t) \in Nat /\ EarlyNext(t) >= EarlyNow(t)
              /\ loop # "strand" => EarlyNext(t) >= Milli - 1
              /\ loop # "strand" /\ kind[t] = "delay_from_this_timepoint" =>
                   EarlyNext(t) = EarlyNow(t) + (Milli - 1)
              /\ loop' = loop /\ kind' = kind /\ runs'[t] = runs[t] =>
                   EarlyNow(t)' = EarlyNow(t) /\ EarlyNext(t)' = EarlyNext(t)
  <2>1. runs[t] \in Nat
    BY <1>0, <1>2
  <2> QED
    BY <2>1, EarlyByCalls DEF EarlyNow, EarlyNext
\* Where nothing about time is touched, what is promised about it stays.
<1>3b. ASSUME UNCHANGED <<loop, kind, runs, wanted, clock>>, timers' \subseteq timers
       PROVE  /\ \A h \in timers' : h.at + EarlyNext(h.task)' >= wanted'[h.task]
              /\ \A t \in Tasks : EarlyNow(t)' = EarlyNow(t) /\ EarlyNext(t)' = EarlyNext(t)
  <2>1. \A t \in Tasks : EarlyNow(t)' = EarlyNow(t) /\ EarlyNext(t)' = EarlyNext(t)
    BY <1>3a, <1>3b
  <2> QED
    BY <1>1, <1>3, <1>3b, <2>1 DEF EventTimes
<1>4. CASE UNCHANGED EventLoop!vars
  BY <1>1, <1>4 DEF EventLoop!vars, EventInv, EventLoop!TypeOK, EventPlaces, EventTimes, EarlyNow, EarlyNext
<1>5. CASE EventLoop!Tick
  <2>1. clock' = clock + 1 /\ clock < MaxTime
        /\ UNCHANGED <<loop, timers, queue, owned, pc, cur, entered, wrapped, m_time_point,
                       kind, disposed, status, runs, wanted>>
    BY <1>5 DEF EventLoop!Tick
  <2>2. clock' \in EventLoop!Times
    BY <1>0, <1>2, <2>1
  <2>3. EventLoop!TypeOK'
    BY <1>2, <2>1, <2>2 DEF EventLoop!TypeOK
  <2>4. EventPlaces'
    BY <1>1, <2>1 DEF EventPlaces
  <2>4a. \A t \in Tasks : EarlyNow(t)' = EarlyNow(t) /\ EarlyNext(t)' = EarlyNext(t)
    BY <1>3a, <2>1
  <2>5. pc = "run" => /\ clock' + EarlyNow(cur)' >= wanted[cur]
                      /\ loop = "main_thread" => entered + EarlyNow(cur)' >= wanted[cur]
    <3>1. ASSUME pc = "run"
          PROVE  /\ clock' + EarlyNow(cur)' >= wanted[cur]
                 /\ loop = "main_thread" => entered + EarlyNow(cur)' >= wanted[cur]
      <4>1. /\ cur \in Tasks /\ clock + EarlyNow(cur) >= wanted[cur]
            /\ loop = "main_thread" => entered + EarlyNow(cur) >= wanted[cur]
        BY <1>1, <3>1 DEF EventPlaces, EventTimes
      <4>2. EarlyNow(cur) \in Nat /\ wanted[cur] \in Nat /\ EarlyNow(cur)' = EarlyNow(cur)
        BY <1>3, <1>3a, <2>1, <2>4a, <4>1
      <4> QED
        BY <1>3, <2>1, <4>1, <4>2
    <3> QED
      BY <3>1
  <2>5a. \A h \in timers : h.at + EarlyNext(h.task)' >= wanted[h.task]
    BY <1>1, <1>3, <2>4a DEF EventTimes
  <2>6. EventTimes'
    BY <1>1, <2>1, <2>5, <2>5a DEF EventTimes
  <2> QED
    BY <2>3, <2>4, <2>6 DEF EventInv
\* The loop gets a handler for t, at what is not too early.
<1>6. ASSUME NEW t \in Tasks, NEW at \in EventLoop!Times, ~Timed(timers, t),
             timers' = timers \union {[task |-> t, at |-> at]}
      PROVE  /\ timers' \subseteq [task : Tasks, at : EventLoop!Times]
             /\ \A g, h \in timers' : g.task = h.task => g = h
             /\ \A u : Timed(timers', u) <=> Timed(timers, u) \/ u = t
             /\ \A h \in timers' : h \in timers \/ (h.task = t /\ h.at = at)
  <2> DEFINE new == [task |-> t, at |-> at]
  <2>1. new \in [task : Tasks, at : EventLoop!Times] /\ new.task = t /\ new.at = at
        /\ timers' = timers \union {new}
    BY <1>6
  <2> HIDE DEF new
  <2>2. \A h \in timers : h.task # t
    BY <1>6 DEF Timed
  <2>3. \A g, h \in timers : g.task = h.task => g = h
    BY <1>1 DEF EventPlaces
  <2>4. \A u : Timed(timers', u) <=> Timed(timers, u) \/ u = t
    BY <2>1 DEF Timed
  <2> QED
    BY <1>2, <2>1, <2>2, <2>3, <2>4
<1>7. ASSUME NEW t \in Tasks, EventLoop!Defer(t) PROVE EventInv'
  <2>0. PICK tp \in EventLoop!Times :
          /\ timers' = timers \union {[task |-> t, at |-> EventLoop!Deadline(tp)]}
          /\ wanted' = [wanted EXCEPT ![t] = tp]
    BY <1>7 DEF EventLoop!Defer
  <2> DEFINE at == EventLoop!Deadline(tp)
  <2>1. timers' = timers \union {[task |-> t, at |-> at]} /\ wanted' = [wanted EXCEPT ![t] = tp]
    BY <2>0
  <2>1a. /\ at \in EventLoop!Times
         /\ loop = "strand" => at = tp
         /\ loop # "strand" => at + (Milli - 1) >= tp
    BY <1>2, EventDeadline
  <2> HIDE DEF at
  <2>1b. at + EarlyNext(t) >= tp
    BY <1>0, <1>3a, <2>1a
  <2>2. /\ status[t] = "new" /\ loop # "no_application" /\ status' = [status EXCEPT ![t] = "scheduled"]
        /\ UNCHANGED <<clock, loop, queue, owned, pc, cur, entered, wrapped, m_time_point,
                       kind, disposed, runs>>
    BY <1>7 DEF EventLoop!Defer
  <2>3. ~Queued(queue, t) /\ ~Timed(timers, t) /\ cur # t /\ t \notin wrapped
    BY <1>1, <2>2 DEF EventPlaces, EventTimes
  <2>4. /\ timers' \subseteq [task : Tasks, at : EventLoop!Times]
        /\ \A g, h \in timers' : g.task = h.task => g = h
        /\ \A u : Timed(timers', u) <=> Timed(timers, u) \/ u = t
        /\ \A h \in timers' : h \in timers \/ (h.task = t /\ h.at = at)
    BY <1>6, <2>1, <2>1a, <2>3
  <2>5. /\ status' \in [Tasks -> {"new", "scheduled", "over"}] /\ wanted' \in [Tasks -> Nat]
        /\ \A u \in Tasks : /\ status'[u] = IF u = t THEN "scheduled" ELSE status[u]
                            /\ wanted'[u] = IF u = t THEN tp ELSE wanted[u]
    BY <1>0, <1>2, <2>1, <2>2
  <2>5a. \A u \in Tasks : EarlyNow(u)' = EarlyNow(u) /\ EarlyNext(u)' = EarlyNext(u)
    BY <1>3a, <2>2
  <2>6. EventLoop!TypeOK'
    BY <1>2, <2>2, <2>4, <2>5 DEF EventLoop!TypeOK
  <2>7. EventPlaces'
    BY <1>1, <2>2, <2>3, <2>4, <2>5 DEF EventPlaces
  <2>8. \A h \in timers' : h.at + EarlyNext(h.task)' >= wanted'[h.task]
    <3> SUFFICES ASSUME NEW h \in timers' PROVE h.at + EarlyNext(h.task)' >= wanted'[h.task]
      OBVIOUS
    <3>1. CASE h \in timers
      <4>1. h.task # t /\ h.task \in Tasks /\ h.at + EarlyNext(h.task) >= wanted[h.task]
        BY <1>1, <1>2, <2>3, <3>1 DEF Timed, EventTimes
      <4> QED
        BY <2>5, <2>5a, <4>1
    <3>2. CASE h.task = t /\ h.at = at
      BY <2>1b, <2>5, <2>5a, <3>2
    <3> QED
      BY <2>4, <3>1, <3>2
  <2>8a. pc = "run" => /\ clock + EarlyNow(cur)' >= wanted'[cur]
                       /\ loop = "main_thread" => entered + EarlyNow(cur)' >= wanted'[cur]
    BY <1>1, <2>2, <2>3, <2>5, <2>5a DEF EventTimes, EventPlaces
  <2>9. EventTimes'
    BY <1>1, <1>2, <2>2, <2>3, <2>5, <2>8, <2>8a DEF EventTimes, EventPlaces
  <2> QED
    BY <2>6, <2>7, <2>9 DEF EventInv
<1>7a. ASSUME NEW t \in Tasks, EventLoop!DeferFails(t) PROVE EventInv'
  <2>1. /\ status[t] = "new" /\ status' = [status EXCEPT ![t] = "over"]
        /\ UNCHANGED <<clock, loop, timers, queue, owned, pc, cur, entered, wrapped, m_time_point,
                       kind, disposed, runs, wanted>>
    BY <1>7a DEF EventLoop!DeferFails
  <2>2. /\ status' \in [Tasks -> {"new", "scheduled", "over"}]
        /\ \A u \in Tasks : status'[u] = IF u = t THEN "over" ELSE status[u]
    BY <1>2, <2>1
  <2>3. ~Queued(queue, t) /\ ~Timed(timers, t) /\ cur # t
    BY <1>1, <2>1 DEF EventPlaces
  <2>4. EventLoop!TypeOK'
    BY <1>2, <2>1, <2>2 DEF EventLoop!TypeOK
  <2>5. EventPlaces'
    BY <1>1, <2>1, <2>2, <2>3 DEF EventPlaces
  <2>6. EventTimes'
    BY <1>1, <1>2, <2>1, <2>2 DEF EventTimes, EarlyNow, EarlyNext
  <2> QED
    BY <2>4, <2>5, <2>6 DEF EventInv
<1>7b. CASE EventLoop!CreateOrQuit
  <2>1. /\ pc = "idle" /\ loop # "strand" /\ timers' = {} /\ loop' \in {"main_thread", "no_application"}
        /\ status' = [t \in Tasks |-> IF \E h \in timers : h.task = t THEN "over" ELSE status[t]]
        /\ UNCHANGED <<clock, queue, owned, pc, cur, entered, wrapped, m_time_point,
                       kind, disposed, runs, wanted>>
    BY <1>7b DEF EventLoop!CreateOrQuit
  <2>2. /\ status' \in [Tasks -> {"new", "scheduled", "over"}]
        /\ \A t \in Tasks : status'[t] = IF Timed(timers, t) THEN "over" ELSE status[t]
        /\ \A t : ~Timed(timers', t)
    BY <1>2, <2>1 DEF Timed
  <2>3. EventLoop!TypeOK'
    BY <1>2, <2>1, <2>2 DEF EventLoop!TypeOK, EventLoop!Loops
  <2>4. EventPlaces'
    BY <1>1, <2>1, <2>2 DEF EventPlaces
  <2>5. EventTimes'
    BY <1>1, <1>2, <2>1, <2>2 DEF EventTimes
  <2> QED
    BY <2>3, <2>4, <2>5 DEF EventInv
<1>8. ASSUME NEW t \in Tasks, EventLoop!DeferToCurrent(t) PROVE EventInv'
  <2>1. PICK tp \in EventLoop!Times :
          /\ queue' = EventLoop!InsertAt(queue,
               EventLoop!Cardinality({k \in DOMAIN queue : m_time_point[queue[k]] <= tp}) + 1, t)
          /\ m_time_point' = [m_time_point EXCEPT ![t] = tp]
          /\ wanted' = [wanted EXCEPT ![t] = tp]
    BY <1>8 DEF EventLoop!DeferToCurrent
  <2>2. /\ pc = "run" /\ owned /\ status[t] = "new" /\ status' = [status EXCEPT ![t] = "scheduled"]
        /\ wrapped' = wrapped \union {t}
        /\ UNCHANGED <<clock, loop, timers, owned, pc, cur, entered, kind, disposed, runs>>
    BY <1>8 DEF EventLoop!DeferToCurrent
  <2>3. ~Queued(queue, t) /\ ~Timed(timers, t) /\ cur # t /\ t \notin wrapped
    BY <1>1, <2>2 DEF EventPlaces, EventTimes
  <2> DEFINE P == {k \in DOMAIN queue : m_time_point[queue[k]] <= tp}
  <2>4. queue' = Insert(queue, Cardinality(P) + 1, t) /\ P \in SUBSET DOMAIN queue
    BY <2>1, SameCardinality DEF EventLoop!InsertAt, Insert
  <2>4a. Distinct(queue)
    BY <1>1 DEF EventPlaces
  <2> HIDE DEF P
  <2>5. /\ queue' \in Seq(Tasks) /\ Distinct(queue')
        /\ \A u : Queued(queue', u) <=> Queued(queue, u) \/ u = t
    BY <1>2, <2>3, <2>4, <2>4a, EventInserted
  <2>6. /\ status' \in [Tasks -> {"new", "scheduled", "over"}] /\ wanted' \in [Tasks -> Nat]
        /\ m_time_point' \in [Tasks -> EventLoop!Times]
        /\ \A u \in Tasks : /\ status'[u] = IF u = t THEN "scheduled" ELSE status[u]
                            /\ wanted'[u] = IF u = t THEN tp ELSE wanted[u]
                            /\ m_time_point'[u] = IF u = t THEN tp ELSE m_time_point[u]
    BY <1>0, <1>2, <2>1, <2>2
  <2>6a. \A u \in Tasks : EarlyNow(u)' = EarlyNow(u) /\ EarlyNext(u)' = EarlyNext(u)
    BY <1>3a, <2>2
  <2>7. EventLoop!TypeOK'
    BY <1>2, <2>2, <2>5, <2>6 DEF EventLoop!TypeOK
  <2>8. EventPlaces'
    BY <1>1, <2>2, <2>3, <2>5, <2>6 DEF EventPlaces
  <2>9. /\ \A h \in timers : h.task \in Tasks /\ h.task # t
        /\ cur \in Tasks /\ cur # t /\ wrapped \subseteq Tasks
    BY <1>1, <1>2, <2>2, <2>3 DEF Timed, EventPlaces
  <2>10. tp >= tp
    BY <1>0
  <2>10a. /\ \A h \in timers : h.at + EarlyNext(h.task)' >= wanted'[h.task]
          /\ clock + EarlyNow(cur)' >= wanted'[cur]
          /\ loop = "main_thread" => entered + EarlyNow(cur)' >= wanted'[cur]
    BY <1>1, <2>2, <2>6, <2>6a, <2>9 DEF EventTimes
  <2>10b. loop = "strand"
    BY <1>1, <2>2 DEF EventTimes
  <2>11. EventTimes'
    BY <1>1, <2>2, <2>5, <2>6, <2>9, <2>10, <2>10a, <2>10b DEF EventTimes
  <2> QED
    BY <2>7, <2>8, <2>11 DEF EventInv
<1>9. ASSUME NEW t \in Tasks, EventLoop!Dispose(t) PROVE EventInv'
  <2>1. /\ disposed' \subseteq Tasks
        /\ UNCHANGED <<clock, loop, timers, queue, owned, pc, cur, entered, wrapped, m_time_point,
                       kind, status, runs, wanted>>
    BY <1>2, <1>9 DEF EventLoop!Dispose
  <2>2. EventLoop!TypeOK'
    BY <1>2, <2>1 DEF EventLoop!TypeOK
  <2>3. EventPlaces' /\ EventTimes'
    BY <1>1, <2>1 DEF EventPlaces, EventTimes, EarlyNow, EarlyNext
  <2> QED
    BY <2>2, <2>3 DEF EventInv
<1>10. ASSUME NEW h \in timers, EventLoop!Fire(h) PROVE EventInv'
  <2> DEFINE t == h.task
  <2>1. /\ pc = "idle" /\ clock >= h.at /\ timers' = timers \ {h} /\ t \in Tasks
        /\ UNCHANGED <<clock, loop, queue, wrapped, m_time_point, kind, disposed, wanted>>
    BY <1>2, <1>10 DEF EventLoop!Fire
  <2>2. /\ timers' \subseteq timers
        /\ \A u \in Tasks : Timed(timers', u) <=> Timed(timers, u) /\ u # t
        /\ Timed(timers, t)
    BY <1>1, <2>1 DEF EventPlaces, Timed
  <2>3. ~Queued(queue, t) /\ cur = NoTask /\ status[t] = "scheduled" /\ runs[t] < MaxRuns
    BY <1>1, <1>2, <2>1, <2>2 DEF EventPlaces
  <2>4. clock + EarlyNext(t) >= wanted[t] /\ EarlyNext(t) \in Nat
    BY <1>1, <1>3, <1>3a, <2>1 DEF EventTimes
  <2>4a. loop # "no_application"
    BY <1>1 DEF EventTimes
  <2>5. CASE t \in disposed
    <3>1. status' = [status EXCEPT ![t] = "over"] /\ UNCHANGED <<owned, pc, cur, entered, runs>>
      BY <1>10, <2>5 DEF EventLoop!Fire
    <3> HIDE DEF t
    <3>2. status' \in [Tasks -> {"new", "scheduled", "over"}]
          /\ \A u \in Tasks : status'[u] = IF u = t THEN "over" ELSE status[u]
      BY <1>2, <3>1
    <3>3. EventLoop!TypeOK'
      BY <1>2, <2>1, <2>2, <3>1, <3>2 DEF EventLoop!TypeOK
    <3>4. EventPlaces'
      BY <1>0, <1>1, <2>1, <2>2, <2>3, <3>1, <3>2 DEF EventPlaces
    <3>4a. \A g \in timers' : g.at + EarlyNext(g.task)' >= wanted'[g.task]
      BY <1>3b, <2>1, <2>2, <3>1
    <3>5. EventTimes'
      BY <1>1, <1>2, <2>1, <2>4a, <3>1, <3>2, <3>4a DEF EventTimes
    <3> QED
      BY <3>3, <3>4, <3>5 DEF EventInv
  <2>6. CASE t \notin disposed
    <3>1. /\ pc' = "run" /\ cur' = t /\ entered' = (IF loop = "main_thread" THEN clock ELSE 0)
          /\ owned' = (loop = "strand") /\ runs' = [runs EXCEPT ![t] = @ + 1] /\ UNCHANGED status
      BY <1>10, <2>6 DEF EventLoop!Fire
    <3> HIDE DEF t
    <3>2. /\ runs' \in [Tasks -> 0..MaxRuns] /\ \A u \in Tasks : u # t => runs'[u] = runs[u]
      BY <1>0, <1>2, <2>1, <2>3, <3>1
    <3>2a. entered' \in EventLoop!Times /\ owned' \in BOOLEAN
      BY <1>0, <1>2, <3>1
    <3>3. EventLoop!TypeOK'
      BY <1>2, <2>1, <2>2, <3>1, <3>2, <3>2a DEF EventLoop!TypeOK
    <3>4. EventPlaces'
      BY <1>0, <1>1, <2>1, <2>2, <2>3, <3>1, <3>2 DEF EventPlaces
    <3>4a. runs'[t] = runs[t] + 1
      BY <1>2, <2>1, <3>1
    <3>4b. /\ EarlyNow(t)' = EarlyNext(t)
           /\ \A u \in Tasks : u # t => EarlyNext(u)' = EarlyNext(u)
      BY <2>1, <3>2, <3>4a DEF EarlyNow, EarlyNext
    <3>4c. \A g \in timers' : g \in timers /\ g.task \in Tasks /\ g.task # t
      BY <1>3, <2>2 DEF Timed
    <3>4d. \A g \in timers' : g.at + EarlyNext(g.task)' >= wanted'[g.task]
      BY <1>1, <2>1, <3>4b, <3>4c DEF EventTimes
    <3>4e. /\ clock + EarlyNow(cur)' >= wanted'[cur']
           /\ loop = "main_thread" => entered' + EarlyNow(cur)' >= wanted'[cur']
      BY <2>1, <2>4, <3>1, <3>4b
    <3>4f. loop # "strand" => owned' = FALSE
      BY <3>1
    <3>5. EventTimes'
      BY <1>1, <2>1, <2>4a, <3>1, <3>4d, <3>4e, <3>4f DEF EventTimes
    <3> QED
      BY <3>3, <3>4, <3>5 DEF EventInv
  <2> QED
    BY <2>5, <2>6
<1>11. CASE EventLoop!Finish
  <2>1. /\ pc = "run" /\ status' = [status EXCEPT ![cur] = "over"] /\ wanted' = [wanted EXCEPT ![cur] = 0]
        /\ pc' = "leave" /\ cur' = NoTask /\ entered' = 0
        /\ UNCHANGED <<clock, loop, timers, queue, owned, wrapped, m_time_point, kind, disposed, runs>>
    BY <1>11 DEF EventLoop!Finish
  <2>2. cur \in Tasks /\ ~Queued(queue, cur) /\ ~Timed(timers, cur) /\ 0 \in EventLoop!Times
    BY <1>0, <1>1, <2>1 DEF EventPlaces
  <2>3. /\ status' \in [Tasks -> {"new", "scheduled", "over"}] /\ wanted' \in [Tasks -> Nat]
        /\ \A u \in Tasks : /\ status'[u] = IF u = cur THEN "over" ELSE status[u]
                            /\ wanted'[u] = IF u = cur THEN 0 ELSE wanted[u]
    BY <1>2, <2>1, <2>2
  <2>4. EventLoop!TypeOK'
    BY <1>2, <2>1, <2>2, <2>3 DEF EventLoop!TypeOK
  <2>5. EventPlaces'
    BY <1>0, <1>1, <2>1, <2>2, <2>3 DEF EventPlaces
  <2>6. \A h \in timers : h.task \in Tasks /\ h.task # cur
    BY <1>2, <2>2 DEF Timed
  <2>7. \A u \in Tasks : m_time_point[u] >= 0
    BY <1>3
  <2>7a. \A h \in timers : h.at + EarlyNext(h.task)' >= wanted'[h.task]
    BY <1>1, <1>3a, <2>1, <2>3, <2>6 DEF EventTimes
  <2>8. EventTimes'
    BY <1>1, <1>2, <2>1, <2>2, <2>3, <2>6, <2>7, <2>7a DEF EventTimes
  <2> QED
    BY <2>4, <2>5, <2>8 DEF EventInv
<1>12. CASE EventLoop!Return
  <2>1. /\ pc = "run" /\ runs[cur] < MaxRuns
        /\ status' = [status EXCEPT ![cur] = IF cur \in disposed THEN "over" ELSE @]
        /\ pc' = "leave" /\ cur' = NoTask /\ entered' = 0
        /\ UNCHANGED <<clock, loop, queue, owned, wrapped, kind, disposed, runs>>
    BY <1>12 DEF EventLoop!Return
  <2>2. PICK d \in IF kind[cur] = "delay_to" THEN EventLoop!Times ELSE EventLoop!Delays :
          /\ EventLoop!Again(d) <= MaxTime
          /\ timers' = IF cur \in disposed THEN timers
                       ELSE timers \union {[task |-> cur, at |-> EventLoop!Deadline(EventLoop!Again(d))]}
          /\ wanted' = [wanted EXCEPT ![cur] =
               IF kind[cur] = "delay_from_this_timepoint" THEN @ + d ELSE EventLoop!Again(d)]
          /\ EventLoop!SetTimepoint(EventLoop!Again(d))
    BY <1>12 DEF EventLoop!Return
  <2>3. cur \in Tasks /\ ~Queued(queue, cur) /\ ~Timed(timers, cur) /\ status[cur] = "scheduled"
    BY <1>1, <2>1 DEF EventPlaces
  <2> DEFINE tp == EventLoop!Again(d)
             at == EventLoop!Deadline(tp)
             goal == IF kind[cur] = "delay_from_this_timepoint" THEN wanted[cur] + d ELSE tp
  <2>4. /\ wanted[cur] <= clock + EarlyNow(cur)
        /\ loop = "main_thread" => wanted[cur] <= entered + EarlyNow(cur)
        /\ loop # "no_application"
        /\ cur \in wrapped => wanted[cur] <= m_time_point[cur] /\ loop = "strand"
    BY <1>1, <1>3, <1>3a, <2>1, <2>3 DEF EventTimes
  <2>4a. loop = "strand" => EarlyNow(cur) = 0
    BY DEF EarlyNow, EarlyBy
  <2>5. d \in Nat
    BY <1>0, <2>2 DEF EventLoop!Delays
  <2>5a. wanted[cur] \in Nat /\ m_time_point[cur] \in Nat /\ EarlyNow(cur) \in Nat
    BY <1>3, <1>3a, <2>3
  <2>5b. loop \in {"strand", "main_thread"}
    BY <1>2, <2>4 DEF EventLoop!Loops
  <2>6. /\ tp \in EventLoop!Times /\ goal \in Nat
        /\ loop = "strand" => goal <= tp
        /\ kind[cur] = "delay_from_this_timepoint" => goal <= tp + EarlyNow(cur)
        /\ kind[cur] # "delay_from_this_timepoint" => goal = tp
    <3>1. kind[cur] \in {"delay_from_now", "delay_from_this_timepoint", "delay_to"} /\ tp <= MaxTime
      BY <1>2, <2>2, <2>3 DEF EventLoop!Kinds
    <3>3. CASE kind[cur] = "delay_from_this_timepoint"
      <4>1. tp = d + IF cur \in wrapped THEN m_time_point[cur]
                     ELSE IF loop = "main_thread" THEN entered ELSE clock
        BY <3>3 DEF EventLoop!Again
      <4>2. goal = wanted[cur] + d
        BY <3>3
      <4> HIDE DEF tp, goal
      <4> QED
        BY <1>0, <1>3, <2>4, <2>4a, <2>5, <2>5a, <2>5b, <3>1, <3>3, <4>1, <4>2
    <3>4. CASE kind[cur] # "delay_from_this_timepoint"
      <4>1. tp = IF kind[cur] = "delay_to" THEN d ELSE clock + d
        BY <3>1, <3>4 DEF EventLoop!Again
      <4>2. goal = tp
        BY <3>4
      <4> HIDE DEF tp, goal
      <4> QED
        BY <1>0, <1>3, <2>5, <3>1, <3>4, <4>1, <4>2
    <3> QED
      BY <3>3, <3>4
  <2>6a. /\ at \in EventLoop!Times
         /\ loop = "strand" => at = tp
         /\ loop # "strand" => at + (Milli - 1) >= tp
    <3>1. tp \in EventLoop!Times
      BY <2>6
    <3> HIDE DEF tp
    <3> QED
      BY <1>2, <3>1, EventDeadline
  <2>7. /\ timers' = IF cur \in disposed THEN timers ELSE timers \union {[task |-> cur, at |-> at]}
        /\ wanted' = [wanted EXCEPT ![cur] = goal]
        /\ m_time_point' = IF cur \in wrapped THEN [m_time_point EXCEPT ![cur] = tp] ELSE m_time_point
    BY <1>2, <2>2, <2>3 DEF EventLoop!SetTimepoint
  <2> HIDE DEF tp, at, goal
  <2>8. /\ timers' \subseteq [task : Tasks, at : EventLoop!Times]
        /\ \A g, h \in timers' : g.task = h.task => g = h
        /\ \A u : Timed(timers', u) <=> Timed(timers, u) \/ (u = cur /\ cur \notin disposed)
        /\ \A h \in timers' : h \in timers \/ (h.task = cur /\ h.at = at)
    <3>1. CASE cur \in disposed
      BY <1>1, <1>2, <2>7, <3>1 DEF EventPlaces
    <3>2. CASE cur \notin disposed
      BY <1>6, <2>3, <2>6a, <2>7, <3>2
    <3> QED
      BY <3>1, <3>2
  <2>9. /\ wanted' \in [Tasks -> Nat] /\ m_time_point' \in [Tasks -> EventLoop!Times]
        /\ \A u \in Tasks : /\ wanted'[u] = IF u = cur THEN goal ELSE wanted[u]
                            /\ m_time_point'[u] = IF u = cur /\ cur \in wrapped THEN tp ELSE m_time_point[u]
    BY <1>2, <2>3, <2>6, <2>7
  <2>10. /\ status' \in [Tasks -> {"new", "scheduled", "over"}]
         /\ \A u \in Tasks : status'[u] = IF u = cur /\ cur \in disposed THEN "over" ELSE status[u]
    BY <1>2, <2>1, <2>3
  <2>11. EventLoop!TypeOK'
    <3>1. /\ clock' \in EventLoop!Times /\ loop' \in EventLoop!Loops /\ kind' \in [Tasks -> EventLoop!Kinds]
          /\ queue' \in Seq(Tasks) /\ owned' \in BOOLEAN
          /\ wrapped' \subseteq Tasks /\ disposed' \subseteq Tasks /\ runs' \in [Tasks -> 0..MaxRuns]
      BY <1>2, <2>1
    <3>2. /\ pc' \in {"idle", "run", "leave"} /\ cur' \in Tasks \union {NoTask}
          /\ entered' \in EventLoop!Times
      BY <1>0, <1>2, <2>1
    <3> QED
      BY <2>8, <2>9, <2>10, <3>1, <3>2 DEF EventLoop!TypeOK
  <2>12. EventPlaces'
    BY <1>0, <1>1, <2>1, <2>3, <2>8, <2>10 DEF EventPlaces
  <2>13. at + EarlyNext(cur) >= goal /\ (cur \in wrapped => tp >= goal)
    <3>1. CASE loop = "strand"
      BY <1>0, <1>3a, <2>3, <2>6, <2>6a, <3>1
    <3>2. CASE loop # "strand" /\ kind[cur] = "delay_from_this_timepoint"
      BY <1>0, <1>3a, <2>3, <2>4, <2>5a, <2>6, <2>6a, <3>2
    <3>3. CASE loop # "strand" /\ kind[cur] # "delay_from_this_timepoint"
      BY <1>0, <1>3a, <2>3, <2>4, <2>5a, <2>6, <2>6a, <3>3
    <3> QED
      BY <3>1, <3>2, <3>3
  <2>13a. \A u \in Tasks : EarlyNext(u)' = EarlyNext(u)
    BY <1>3a, <2>1
  <2>14. \A h \in timers' : h.at + EarlyNext(h.task)' >= wanted'[h.task]
    <3> SUFFICES ASSUME NEW h \in timers' PROVE h.at + EarlyNext(h.task)' >= wanted'[h.task]
      OBVIOUS
    <3>1. CASE h \in timers
      <4>1. h.task # cur /\ h.task \in Tasks /\ h.at + EarlyNext(h.task) >= wanted[h.task]
        BY <1>1, <1>2, <2>3, <3>1 DEF Timed, EventTimes
      <4> QED
        BY <2>9, <2>13a, <4>1
    <3>2. CASE h.task = cur /\ h.at = at
      BY <2>3, <2>9, <2>13, <2>13a, <3>2
    <3> QED
      BY <2>8, <3>1, <3>2
  <2>15. EventTimes'
    BY <1>1, <1>2, <2>1, <2>3, <2>4, <2>9, <2>10, <2>13, <2>14 DEF EventTimes
  <2> QED
    BY <2>11, <2>12, <2>15 DEF EventInv
<1>13. CASE EventLoop!Process
  <2> DEFINE top == Head(queue)
  <2>1. /\ pc = "leave" /\ queue # <<>> /\ queue' = Tail(queue)
        /\ UNCHANGED <<clock, loop, owned, pc, cur, entered, wrapped, m_time_point,
                       kind, disposed, runs, wanted>>
    BY <1>13 DEF EventLoop!Process
  <2>2. /\ top \in Tasks /\ Queued(queue, top)
        /\ queue' \in Seq(Tasks) /\ Distinct(queue')
        /\ \A t : Queued(queue', t) <=> Queued(queue, t) /\ t # top
    BY <1>1, <1>2, <2>1, EventTaken DEF EventPlaces
  <2>3. /\ ~Timed(timers, top) /\ cur = NoTask /\ status[top] = "scheduled" /\ runs[top] < MaxRuns
        /\ top \in wrapped /\ m_time_point[top] >= wanted[top] /\ loop = "strand"
    BY <1>1, <1>2, <2>1, <2>2 DEF EventPlaces, EventTimes
  <2>4. CASE top \in disposed
    <3>1. status' = [status EXCEPT ![top] = "over"] /\ UNCHANGED timers
      BY <1>13, <2>4 DEF EventLoop!Process
    <3> HIDE DEF top
    <3>2. /\ status' \in [Tasks -> {"new", "scheduled", "over"}]
          /\ \A u \in Tasks : status'[u] = IF u = top THEN "over" ELSE status[u]
      BY <1>2, <2>2, <3>1
    <3>3. EventLoop!TypeOK'
      BY <1>2, <2>1, <2>2, <3>1, <3>2 DEF EventLoop!TypeOK
    <3>4. EventPlaces'
      BY <1>0, <1>1, <2>1, <2>2, <2>3, <3>1, <3>2 DEF EventPlaces
    <3>4a. \A h \in timers' : h.at + EarlyNext(h.task)' >= wanted'[h.task]
      BY <1>3b, <2>1, <3>1
    <3>5. EventTimes'
      BY <1>1, <1>2, <2>1, <2>2, <2>3, <3>1, <3>2, <3>4a DEF EventTimes
    <3> QED
      BY <3>3, <3>4, <3>5 DEF EventInv
  <2>5. CASE top \notin disposed
    <3> DEFINE at == m_time_point[top]
    <3>1. timers' = timers \union {[task |-> top, at |-> at]} /\ UNCHANGED status
      BY <1>13, <2>5 DEF EventLoop!Process
    <3>2. at \in EventLoop!Times /\ at >= wanted[top]
      BY <1>2, <2>2, <2>3
    <3> HIDE DEF top, at
    <3>3. /\ timers' \subseteq [task : Tasks, at : EventLoop!Times]
          /\ \A g, h \in timers' : g.task = h.task => g = h
          /\ \A u : Timed(timers', u) <=> Timed(timers, u) \/ u = top
          /\ \A h \in timers' : h \in timers \/ (h.task = top /\ h.at = at)
      BY <1>6, <2>2, <2>3, <3>1, <3>2
    <3>4. EventLoop!TypeOK'
      BY <1>2, <2>1, <2>2, <3>1, <3>3 DEF EventLoop!TypeOK
    <3>5. EventPlaces'
      BY <1>0, <1>1, <2>1, <2>2, <2>3, <3>1, <3>3 DEF EventPlaces
    <3>5a. \A u \in Tasks : EarlyNext(u)' = EarlyNext(u) /\ EarlyNext(u) \in Nat
      BY <1>3a, <2>1
    <3>5b. \A u \in Tasks : u = top => at + EarlyNext(u)' >= wanted'[u]
      BY <1>0, <1>3, <2>1, <2>2, <3>2, <3>5a
    <3>5c. \A h \in timers' : h.at + EarlyNext(h.task)' >= wanted'[h.task]
      BY <1>1, <1>3, <2>1, <3>3, <3>5a, <3>5b DEF EventTimes
    <3>6. EventTimes'
      BY <1>1, <2>1, <2>2, <2>3, <3>1, <3>5c DEF EventTimes
    <3> QED
      BY <3>4, <3>5, <3>6 DEF EventInv
  <2> QED
    BY <2>4, <2>5
<1>14. CASE EventLoop!HandlerOver
  <2>1. /\ pc = "leave" /\ pc' = "idle" /\ owned' = FALSE
        /\ UNCHANGED <<clock, loop, timers, queue, cur, entered, wrapped, m_time_point,
                       kind, disposed, status, runs, wanted>>
    BY <1>14 DEF EventLoop!HandlerOver
  <2>2. EventLoop!TypeOK'
    BY <1>2, <2>1 DEF EventLoop!TypeOK
  <2>3. EventPlaces' /\ EventTimes'
    BY <1>1, <2>1 DEF EventPlaces, EventTimes, EarlyNow, EarlyNext
  <2> QED
    BY <2>2, <2>3 DEF EventInv
<1> QED
  BY <1>4, <1>5, <1>7, <1>7a, <1>7b, <1>8, <1>9, <1>10, <1>11, <1>12, <1>13, <1>14 DEF EventLoop!Next

\* which holds to begin with,
LEMMA EventInit ==
  ASSUME EventLoop!Init PROVE EventInv
<1> USE DEF EventLoop!Init
<1>0. 0 \in EventLoop!Times /\ MaxRuns \in Nat \ {0} /\ NoTask \notin Tasks
  BY BoundsAssumption, TasksAssumption DEF EventLoop!Times
<1>1. EventLoop!TypeOK
  <2>1. [t \in Tasks |-> 0] \in [Tasks -> 0..MaxRuns]
    BY <1>0
  <2>2. [t \in Tasks |-> 0] \in [Tasks -> EventLoop!Times] /\ [t \in Tasks |-> 0] \in [Tasks -> Nat]
    BY <1>0
  <2>3. <<>> \in Seq(Tasks)
    BY EmptySeq
  <2> QED
    BY <1>0, <2>1, <2>2, <2>3 DEF EventLoop!TypeOK
<1>2. Distinct(<<>>) /\ \A t : ~Queued(<<>>, t) /\ ~Timed({}, t)
  BY DEF Distinct, Queued, Timed
<1>3. EventPlaces
  BY <1>0, <1>2 DEF EventPlaces
<1>4. EventTimes
  BY <1>0, <1>2 DEF EventTimes
<1> QED
  BY <1>1, <1>3, <1>4 DEF EventInv

\* and is what they promise.
LEMMA EventSafe ==
  ASSUME EventInv
  PROVE  EventLoop!TypeOK /\ EventLoop!NeverEarly /\ EventLoop!InOnePlace
<1>1. EventLoop!TypeOK /\ EventPlaces /\ EventTimes
  BY DEF EventInv
<1>2. EventLoop!NeverEarly
  <2>1. EarlyNow(cur) = EventLoop!Early(cur)
    BY DEF EarlyNow, EarlyBy, EventLoop!Early
  <2> QED
    BY <1>1, <2>1 DEF EventTimes, EventLoop!NeverEarly
<1>3. EventLoop!InOnePlace
  <2> SUFFICES ASSUME NEW t \in Tasks
               PROVE  Cardinality({h \in timers : h.task = t})
                        + Cardinality({k \in DOMAIN queue : queue[k] = t}) + (IF cur = t THEN 1 ELSE 0)
                      = IF status[t] = "scheduled" THEN 1 ELSE 0
    BY SameCardinality DEF EventLoop!InOnePlace
  <2>1. Cardinality({h \in timers : h.task = t}) = IF Timed(timers, t) THEN 1 ELSE 0
    <3>1. CASE Timed(timers, t)
      <4>1. PICK h \in timers : h.task = t
        BY <3>1 DEF Timed
      <4>2. {g \in timers : g.task = t} = {h}
        BY <1>1, <4>1 DEF EventPlaces
      <4> QED
        BY <3>1, <4>2, FS_Singleton
    <3>2. CASE ~Timed(timers, t)
      <4>1. {g \in timers : g.task = t} = {}
        BY <3>2 DEF Timed
      <4> QED
        BY <3>2, <4>1, FS_EmptySet
    <3> QED
      BY <3>1, <3>2
  <2>2. Cardinality({k \in DOMAIN queue : queue[k] = t}) = IF Queued(queue, t) THEN 1 ELSE 0
    <3>1. CASE Queued(queue, t)
      <4>1. PICK k \in DOMAIN queue : queue[k] = t
        BY <3>1 DEF Queued
      <4>2. {j \in DOMAIN queue : queue[j] = t} = {k}
        BY <1>1, <4>1 DEF EventPlaces, Distinct
      <4> QED
        BY <3>1, <4>2, FS_Singleton
    <3>2. CASE ~Queued(queue, t)
      <4>1. {j \in DOMAIN queue : queue[j] = t} = {}
        BY <3>2 DEF Queued
      <4> QED
        BY <3>2, <4>1, FS_EmptySet
    <3> QED
      BY <3>1, <3>2
  <2>3. /\ ~(Queued(queue, t) /\ Timed(timers, t))
        /\ cur = t => ~Queued(queue, t) /\ ~Timed(timers, t)
        /\ status[t] = "scheduled" <=> Queued(queue, t) \/ Timed(timers, t) \/ cur = t
    BY <1>1 DEF EventPlaces
  <2> QED
    BY <2>1, <2>2, <2>3
<1> QED
  BY <1>1, <1>2, <1>3

-----------------------------------------------------------------------------
(* new_thread.                                                               *)

ThreadSchedulables == [task : Tasks, tp : NewThread!Times]

\* By time point, then by who came first.
Ordered(q, b) ==
  \A j, k \in DOMAIN q :
    j < k => q[j].tp < q[k].tp \/ (q[j].tp = q[k].tp /\ <<q[j].task, q[k].task>> \in b)

\* A newcomer keeps the order.
LEMMA OrderKept ==
  ASSUME NEW q \in Seq(ThreadSchedulables), NEW b, Ordered(q, b), NEW e \in ThreadSchedulables,
         NEW new, new = Insert(q, Cardinality({k \in DOMAIN q : q[k].tp <= e.tp}) + 1, e),
         NEW c, c = b \union {<<q[k].task, e.task>> : k \in DOMAIN q}
  PROVE  Ordered(new, c)
<1>1. \A s \in ThreadSchedulables : s.tp \in Nat
  BY BoundsAssumption DEF NewThread!Times, ThreadSchedulables
<1>2. \A k \in DOMAIN q : q[k].tp \in Nat
  BY <1>1, LenProperties, ElementOfSeq
<1>3. \A j, k \in DOMAIN q : j < k => q[j].tp <= q[k].tp
  <2>1. ASSUME NEW j \in DOMAIN q, NEW k \in DOMAIN q, j < k PROVE q[j].tp <= q[k].tp
    <3>1. q[j].tp < q[k].tp \/ q[j].tp = q[k].tp
      BY <2>1 DEF Ordered
    <3> QED
      BY <1>2, <3>1
  <2> QED
    BY <2>1
<1>4. \A j, k \in DOMAIN new : j < k =>
        BothOld(q, new[j], new[k]) \/ BeforeNew(q, e, new[j], new[k]) \/ BehindNew(q, e, new[j], new[k])
  BY <1>1, <1>3, BehindNotLater
<1> SUFFICES ASSUME NEW j \in DOMAIN new, NEW k \in DOMAIN new, j < k
             PROVE  new[j].tp < new[k].tp
                    \/ (new[j].tp = new[k].tp /\ <<new[j].task, new[k].task>> \in c)
  BY DEF Ordered
<1>5. ASSUME NEW m \in DOMAIN q, NEW n \in DOMAIN q, m < n, new[j] = q[m], new[k] = q[n]
      PROVE  new[j].tp < new[k].tp \/ (new[j].tp = new[k].tp /\ <<new[j].task, new[k].task>> \in c)
  BY <1>5 DEF Ordered
<1>6. ASSUME NEW m \in DOMAIN q, new[j] = q[m], new[k] = e, q[m].tp <= e.tp
      PROVE  new[j].tp < new[k].tp \/ (new[j].tp = new[k].tp /\ <<new[j].task, new[k].task>> \in c)
  <2>1. q[m].tp < e.tp \/ q[m].tp = e.tp
    BY <1>1, <1>2, <1>6
  <2>2. <<q[m].task, e.task>> \in c
    OBVIOUS
  <2> QED
    BY <1>6, <2>1, <2>2
<1>7. CASE BothOld(q, new[j], new[k])
  BY <1>5, <1>7 DEF BothOld
<1>8. CASE BeforeNew(q, e, new[j], new[k])
  BY <1>6, <1>8 DEF BeforeNew
<1>9. CASE BehindNew(q, e, new[j], new[k])
  BY <1>9 DEF BehindNew
<1> QED
  BY <1>4, <1>7, <1>8, <1>9

\* Nor does the queue lose its order with its head, nor what the others came before.
LEMMA OrderBehind ==
  ASSUME NEW q \in Seq(ThreadSchedulables), q # <<>>, NEW b, Ordered(q, b), Once(q),
         NEW c, c = {p \in b : Head(q).task \notin {p[1], p[2]}}
  PROVE  Ordered(Tail(q), c)
<1>1. /\ DOMAIN q = 1..Len(q) /\ Len(q) \in Nat \ {0} /\ Head(q) = q[1]
      /\ DOMAIN Tail(q) = 1..Len(q) - 1 /\ \A k \in 1..Len(q) - 1 : Tail(q)[k] = q[k + 1]
  BY HeadTailProperties, LenProperties, EmptySeq
<1>2. ASSUME NEW k \in 2..Len(q) PROVE q[k].task # Head(q).task
  BY <1>1, <1>2 DEF Once
<1> SUFFICES ASSUME NEW j \in 1..Len(q) - 1, NEW k \in 1..Len(q) - 1, j < k
             PROVE  Tail(q)[j].tp < Tail(q)[k].tp
                    \/ (Tail(q)[j].tp = Tail(q)[k].tp /\ <<Tail(q)[j].task, Tail(q)[k].task>> \in c)
  BY <1>1 DEF Ordered
<1>3. /\ Tail(q)[j] = q[j + 1] /\ Tail(q)[k] = q[k + 1] /\ j + 1 < k + 1
      /\ j + 1 \in DOMAIN q /\ k + 1 \in DOMAIN q /\ j + 1 \in 2..Len(q) /\ k + 1 \in 2..Len(q)
  BY <1>1
<1>4. \/ q[j + 1].tp < q[k + 1].tp
      \/ q[j + 1].tp = q[k + 1].tp /\ <<q[j + 1].task, q[k + 1].task>> \in b
  BY <1>3 DEF Ordered
<1>5. q[j + 1].task # Head(q).task /\ q[k + 1].task # Head(q).task
  BY <1>2, <1>3
<1> QED
  BY <1>3, <1>4, <1>5

\* A task in the queue or off it; what has been scheduled and is not in the queue
\* has run or is disposed of.
ThreadPlaces ==
  /\ Once(queue)
  /\ pc \in {"run", "returned"} <=> running.task \in Tasks
  /\ ~In(queue, running.task)
  /\ \A t \in Tasks : status[t] = "new" => ~In(queue, t) /\ running.task # t
  /\ \A t \in Tasks : status[t] # "new" => In(queue, t) \/ t \in ran \union disposed
  /\ pc = "exit" => queue = <<>> /\ is_stoping

\* The remembered time is past, and so is the time point of what runs.
ThreadTimes ==
  /\ s_last_now_time <= clock
  /\ pc \in {"run", "returned"} => running.tp <= clock

ThreadFresh ==
  pc \in {"run", "returned"} /\ ~has_fresh_data =>
    \A s \in Members(queue) : s.task \in via_current \/ status[s.task] \in {"emplaced", "nested"}

ThreadInv ==
  NewThread!TypeOK /\ ThreadPlaces /\ ThreadTimes /\ ThreadFresh /\ Ordered(queue, before)

\* What Emplace does to the queue.
ThreadPut(t, tp) ==
  /\ t \in Tasks /\ tp \in NewThread!Times /\ ~In(queue, t)
  /\ queue' \in Seq(ThreadSchedulables) /\ Once(queue') /\ Ordered(queue', before')
  /\ \A u : In(queue', u) <=> In(queue, u) \/ u = t
  /\ \A s \in Members(queue') : s \in Members(queue) \/ s = [task |-> t, tp |-> tp]
  /\ notified' \in BOOLEAN /\ before' \subseteq Tasks \X Tasks

\* emplace() puts in a task that was not there, behind all it does not precede.
LEMMA ThreadEmplace ==
  ASSUME ThreadInv, NEW t \in Tasks, NEW tp \in NewThread!Times, ~In(queue, t),
         NewThread!Emplace(NewThread!Schedulable(t, tp))
  PROVE  ThreadPut(t, tp)
<1> DEFINE e == [task |-> t, tp |-> tp]
           P == {k \in DOMAIN queue : queue[k].tp <= e.tp}
<1>1. /\ queue \in Seq(ThreadSchedulables) /\ e \in ThreadSchedulables /\ e.task = t /\ e.tp = tp
      /\ before \subseteq Tasks \X Tasks
  BY DEF ThreadInv, NewThread!TypeOK, ThreadSchedulables
<1>2. P \in SUBSET DOMAIN queue
  OBVIOUS
<1>3. /\ queue' = Insert(queue, Cardinality(P) + 1, e)
      /\ notified' = (pc = "wait_for")
      /\ before' = before \union {<<queue[k].task, e.task>> : k \in DOMAIN queue}
  BY SameCardinality DEF NewThread!Emplace, NewThread!InsertAt, NewThread!Schedulable, Insert
<1>4. Once(queue) /\ ~In(queue, e.task) /\ Ordered(queue, before)
  BY <1>1 DEF ThreadInv, ThreadPlaces
<1> HIDE DEF e
<1>5. Ordered(queue', before')
  BY <1>1, <1>3, <1>4, OrderKept
<1>6. before' \subseteq Tasks \X Tasks
  <2>1. \A k \in DOMAIN queue : queue[k].task \in Tasks
    <3>1. Members(queue) \subseteq ThreadSchedulables
      BY <1>1, MembersIn
    <3> QED
      BY <3>1 DEF Members, ThreadSchedulables
  <2> QED
    BY <1>1, <1>3, <2>1
<1> HIDE DEF P
<1>7. /\ queue' \in Seq(ThreadSchedulables) /\ Once(queue')
      /\ \A u : In(queue', u) <=> In(queue, u) \/ u = e.task
      /\ \A s \in Members(queue') : s \in Members(queue) \/ s = e
  BY <1>1, <1>2, <1>3, <1>4, Emplaced
<1> QED
  BY <1>1, <1>3, <1>5, <1>6, <1>7 DEF e, ThreadPut

\* What TakeTop does to it.
LEMMA ThreadTake ==
  ASSUME ThreadInv, queue # <<>>, NewThread!TakeTop
  PROVE  /\ NewThread!Top \in ThreadSchedulables /\ NewThread!Top \in Members(queue)
         /\ In(queue, NewThread!Top.task)
         /\ queue' = Tail(queue) /\ queue' \in Seq(ThreadSchedulables) /\ Once(queue')
         /\ Ordered(queue', before') /\ before' \subseteq Tasks \X Tasks
         /\ \A t : In(queue', t) <=> In(queue, t) /\ t # NewThread!Top.task
         /\ \A s \in Members(queue') : s \in Members(queue)
<1>1. /\ queue \in Seq(ThreadSchedulables) /\ Once(queue) /\ Ordered(queue, before)
      /\ queue' = Tail(queue) /\ NewThread!Top = Head(queue) /\ before \subseteq Tasks \X Tasks
      /\ before' = {p \in before : Head(queue).task \notin {p[1], p[2]}}
  BY DEF ThreadInv, ThreadPlaces, NewThread!TypeOK, ThreadSchedulables, NewThread!TakeTop, NewThread!Top
<1>2. Ordered(queue', before')
  BY <1>1, OrderBehind
<1>3. before' \subseteq Tasks \X Tasks
  BY <1>1
<1> QED
  BY <1>1, <1>2, <1>3, Taken

\* Every step keeps the invariant of new_thread,
LEMMA ThreadStep ==
  ASSUME ThreadInv, [NewThread!Next]_(NewThread!vars)
  PROVE  ThreadInv'
<1> USE DEF NewThread!thread, NewThread!tasks, NewThread!idle, NewThread!GoTo
<1>0. MaxTime \in Nat /\ NoTask \notin Tasks /\ NewThread!Times = 0..MaxTime
  BY BoundsAssumption, TasksAssumption DEF NewThread!Times
<1>1. NewThread!TypeOK /\ ThreadPlaces /\ ThreadTimes /\ ThreadFresh /\ Ordered(queue, before)
  BY DEF ThreadInv
<1>2. /\ clock \in NewThread!Times /\ s_last_now_time \in NewThread!Times /\ deadline \in NewThread!Times
      /\ queue \in Seq(ThreadSchedulables)
      /\ has_fresh_data \in BOOLEAN /\ is_stoping \in BOOLEAN /\ notified \in BOOLEAN
      /\ pc \in {"top", "wait", "wait_for", "run", "returned", "exit"}
      /\ running \in [task : Tasks \union {NoTask}, tp : NewThread!Times]
      /\ again \in ThreadDelays \union {NewThread!NoDelay}
      /\ status \in [Tasks -> {"new", "emplaced", "nested", "scheduled"}]
      /\ via_current \subseteq Tasks /\ disposed \subseteq Tasks /\ ran \subseteq Tasks
      /\ before \subseteq Tasks \X Tasks
  BY <1>1 DEF NewThread!TypeOK, ThreadSchedulables
<1>3. clock \in Nat /\ s_last_now_time \in Nat /\ running.tp \in Nat
      /\ \A s \in ThreadSchedulables : s.tp \in Nat /\ s.task \in Tasks
  BY <1>0, <1>2 DEF ThreadSchedulables
<1>3a. NewThread!Nothing \in [task : Tasks \union {NoTask}, tp : NewThread!Times]
       /\ NewThread!Nothing.task = NoTask
  BY <1>0 DEF NewThread!Nothing, NewThread!Schedulable
<1>3b. \A s \in Members(queue) : s \in ThreadSchedulables /\ In(queue, s.task)
  BY <1>2, MembersIn
<1>3c. ~In(queue, NoTask)
  <2>1. \A k \in DOMAIN queue : queue[k] \in ThreadSchedulables
    BY <1>3b DEF Members
  <2> QED
    BY <1>0, <1>3, <2>1 DEF In
<1>4. CASE UNCHANGED NewThread!vars
  BY <1>1, <1>4 DEF NewThread!vars, ThreadInv, NewThread!TypeOK, ThreadPlaces, ThreadTimes, ThreadFresh
\* A newcomer t.
<1>5. ASSUME NEW t \in Tasks, NEW tp \in NewThread!Times, ThreadPut(t, tp), status[t] = "new",
             NEW l \in {"emplaced", "nested", "scheduled"}, status' = [status EXCEPT ![t] = l],
             UNCHANGED <<clock, has_fresh_data, is_stoping, pc, running, deadline, again, disposed, ran>>,
             s_last_now_time' \in {s_last_now_time, clock}, via_current \subseteq via_current',
             via_current' \subseteq Tasks, pc # "exit",
             l \in {"emplaced", "nested"} \/ t \in via_current'
      PROVE  ThreadInv'
  <2>1. /\ queue' \in Seq(ThreadSchedulables) /\ Once(queue') /\ Ordered(queue', before')
        /\ \A u : In(queue', u) <=> In(queue, u) \/ u = t
        /\ \A s \in Members(queue') : s \in Members(queue) \/ s = [task |-> t, tp |-> tp]
        /\ notified' \in BOOLEAN /\ before' \subseteq Tasks \X Tasks
    BY <1>5 DEF ThreadPut
  <2>2. /\ status' \in [Tasks -> {"new", "emplaced", "nested", "scheduled"}]
        /\ \A u \in Tasks : status'[u] = IF u = t THEN l ELSE status[u]
    BY <1>2, <1>5
  <2>3. NewThread!TypeOK'
    BY <1>2, <1>5, <2>1, <2>2 DEF NewThread!TypeOK, ThreadSchedulables
  <2>4. running.task # t
    BY <1>1, <1>5 DEF ThreadPlaces
  <2>5. ThreadPlaces'
    BY <1>1, <1>5, <2>1, <2>2, <2>4 DEF ThreadPlaces
  <2>6. ThreadTimes'
    BY <1>1, <1>3, <1>5 DEF ThreadTimes
  <2>7. ThreadFresh'
    <3> SUFFICES ASSUME pc \in {"run", "returned"}, ~has_fresh_data, NEW s \in Members(queue')
                 PROVE  s.task \in via_current' \/ status'[s.task] \in {"emplaced", "nested"}
      BY <1>5 DEF ThreadFresh
    <3>1. CASE s \in Members(queue)
      <4>1. s.task \in Tasks /\ (s.task \in via_current \/ status[s.task] \in {"emplaced", "nested"})
        BY <1>1, <1>3, <1>3b, <3>1 DEF ThreadFresh
      <4> QED
        BY <1>5, <2>2, <4>1
    <3>2. CASE s = [task |-> t, tp |-> tp]
      BY <1>5, <2>2, <3>2
    <3> QED
      BY <2>1, <3>1, <3>2
  <2> QED
    BY <2>1, <2>3, <2>5, <2>6, <2>7 DEF ThreadInv
<1>6. ASSUME NEW t \in Tasks, NewThread!DeferTo(t) PROVE ThreadInv'
  <2>1. PICK tp \in NewThread!Times : NewThread!Emplace(NewThread!Schedulable(t, tp))
    BY <1>6 DEF NewThread!DeferTo
  <2>2. PICK l \in {"emplaced", "nested"} : status' = [status EXCEPT ![t] = l]
    BY <1>6 DEF NewThread!DeferTo
  <2>3. /\ status[t] = "new" /\ ~is_stoping
        /\ UNCHANGED <<clock, has_fresh_data, is_stoping, s_last_now_time, pc, running, deadline, again,
                       via_current, disposed, ran>>
    BY <1>6 DEF NewThread!DeferTo
  <2>4. ~In(queue, t) /\ pc # "exit"
    BY <1>1, <2>3 DEF ThreadPlaces
  <2>5. ThreadPut(t, tp)
    BY <2>1, <2>4, ThreadEmplace
  <2> QED
    BY <1>2, <1>5, <2>2, <2>3, <2>4, <2>5
<1>7. ASSUME NEW t \in Tasks, NewThread!DeferToCurrent(t) PROVE ThreadInv'
  <2>1. PICK tp \in clock..MaxTime : NewThread!Emplace(NewThread!Schedulable(t, tp))
    BY <1>7 DEF NewThread!DeferToCurrent
  <2>2. /\ pc = "run" /\ status[t] = "new" /\ status' = [status EXCEPT ![t] = "scheduled"]
        /\ via_current' = via_current \union {t} /\ s_last_now_time' = clock
        /\ UNCHANGED <<clock, has_fresh_data, is_stoping, pc, running, deadline, again, disposed, ran>>
    BY <1>7 DEF NewThread!DeferToCurrent
  <2>3. ~In(queue, t) /\ tp \in NewThread!Times
    BY <1>0, <1>1, <1>3, <2>2 DEF ThreadPlaces
  <2>4. ThreadPut(t, tp)
    BY <2>1, <2>3, ThreadEmplace
  <2> QED
    BY <1>2, <1>5, <2>2, <2>3, <2>4
<1>8. ASSUME NEW t \in Tasks, NewThread!StoreFresh(t) PROVE ThreadInv'
  <2>1. /\ status[t] # "new" /\ status' = [status EXCEPT ![t] = "scheduled"] /\ has_fresh_data' = TRUE
        /\ UNCHANGED <<clock, queue, before, is_stoping, notified, s_last_now_time, pc, running, deadline,
                       again, via_current, disposed, ran>>
    BY <1>2, <1>8 DEF NewThread!StoreFresh
  <2>2. /\ status' \in [Tasks -> {"new", "emplaced", "nested", "scheduled"}]
        /\ \A u \in Tasks : status'[u] = IF u = t THEN "scheduled" ELSE status[u]
    BY <1>2, <2>1
  <2>3. NewThread!TypeOK'
    BY <1>2, <2>1, <2>2 DEF NewThread!TypeOK, ThreadSchedulables
  <2>4. ThreadPlaces'
    BY <1>1, <2>1, <2>2 DEF ThreadPlaces
  <2>5. ThreadTimes' /\ ThreadFresh' /\ Ordered(queue', before')
    BY <1>1, <2>1 DEF ThreadTimes, ThreadFresh
  <2> QED
    BY <2>3, <2>4, <2>5 DEF ThreadInv
\* Steps that leave the queue alone, and stay on, or get off, a task.
<1>9. ASSUME UNCHANGED <<queue, before, has_fresh_data, status, via_current>>,
             clock' \in NewThread!Times, s_last_now_time' \in NewThread!Times, deadline' \in NewThread!Times,
             clock' >= clock, s_last_now_time' <= clock',
             notified' \in BOOLEAN, is_stoping' \in BOOLEAN, is_stoping => is_stoping',
             disposed \subseteq disposed', disposed' \subseteq Tasks, ran' = ran,
             again' \in ThreadDelays \union {NewThread!NoDelay},
             pc' \in {"top", "wait", "wait_for", "run", "returned", "exit"},
             pc' = "exit" => queue = <<>> /\ is_stoping',
             \/ UNCHANGED running /\ (pc' \in {"run", "returned"} <=> pc \in {"run", "returned"})
             \/ running' = NewThread!Nothing /\ pc' \notin {"run", "returned"}
      PROVE  ThreadInv'
  <2>1. running' \in [task : Tasks \union {NoTask}, tp : NewThread!Times]
    BY <1>2, <1>3a, <1>9
  <2>2. NewThread!TypeOK'
    BY <1>2, <1>9, <2>1 DEF NewThread!TypeOK, ThreadSchedulables
  <2>3. ~In(queue, running'.task) /\ (pc' \in {"run", "returned"} <=> running'.task \in Tasks)
    BY <1>0, <1>1, <1>3a, <1>3c, <1>9 DEF ThreadPlaces
  <2>4. \A t \in Tasks : status[t] = "new" => running'.task # t
    BY <1>0, <1>1, <1>3a, <1>9 DEF ThreadPlaces
  <2>5. ThreadPlaces'
    BY <1>1, <1>9, <2>3, <2>4 DEF ThreadPlaces
  <2>6. pc' \in {"run", "returned"} => running'.tp <= clock'
    <3>1. clock' \in Nat
      BY <1>0, <1>9
    <3> QED
      BY <1>1, <1>3, <1>9, <3>1 DEF ThreadTimes
  <2>7. ThreadTimes' /\ ThreadFresh'
    BY <1>1, <1>9, <2>6 DEF ThreadTimes, ThreadFresh
  <2> QED
    BY <1>1, <1>9, <2>2, <2>5, <2>7 DEF ThreadInv
<1>9a. clock >= clock /\ clock <= clock /\ s_last_now_time <= clock /\ 0 \in NewThread!Times
  BY <1>0, <1>1, <1>3 DEF ThreadTimes
<1>9b. pc = "exit" => queue = <<>> /\ is_stoping
  BY <1>1 DEF ThreadPlaces
<1>10. CASE NewThread!Stop
  BY <1>2, <1>9, <1>9a, <1>9b, <1>10 DEF NewThread!Stop
<1>11. ASSUME NEW t \in Tasks, NewThread!Dispose(t) PROVE ThreadInv'
  BY <1>2, <1>9, <1>9a, <1>9b, <1>11 DEF NewThread!Dispose
<1>12. CASE NewThread!Tick
  <2>1. clock' = clock + 1 /\ clock < MaxTime
        /\ UNCHANGED <<queue, before, has_fresh_data, is_stoping, notified, s_last_now_time, pc, running,
                       deadline, again, status, via_current, disposed, ran>>
    BY <1>12 DEF NewThread!Tick
  <2>2. clock' \in NewThread!Times /\ clock' >= clock /\ s_last_now_time' <= clock'
    BY <1>0, <1>3, <1>9a, <2>1
  <2> QED
    BY <1>2, <1>9, <1>9b, <2>1, <2>2
<1>13. CASE NewThread!Exit
  BY <1>2, <1>9, <1>9a, <1>13 DEF NewThread!Exit
<1>14. CASE NewThread!Wait
  BY <1>2, <1>9, <1>9a, <1>14 DEF NewThread!Wait
<1>15. CASE NewThread!Wake
  BY <1>2, <1>9, <1>9a, <1>15 DEF NewThread!Wake
<1>16. CASE NewThread!PopDisposed
  <2>1. /\ pc = "top" /\ queue # <<>> /\ NewThread!Top.task \in disposed /\ NewThread!TakeTop
        /\ UNCHANGED <<clock, is_stoping, status, via_current, disposed, ran, has_fresh_data, notified,
                       s_last_now_time, pc, running, deadline, again>>
    BY <1>16 DEF NewThread!PopDisposed
  <2>2. /\ queue' \in Seq(ThreadSchedulables) /\ Once(queue')
        /\ Ordered(queue', before') /\ before' \subseteq Tasks \X Tasks
        /\ \A t : In(queue', t) <=> In(queue, t) /\ t # NewThread!Top.task
    BY <2>1, ThreadTake
  <2>3. NewThread!TypeOK'
    BY <1>2, <2>1, <2>2 DEF NewThread!TypeOK, ThreadSchedulables
  <2>4. ThreadPlaces'
    BY <1>1, <2>1, <2>2 DEF ThreadPlaces
  <2>5. ThreadTimes' /\ ThreadFresh'
    BY <1>1, <2>1 DEF ThreadTimes, ThreadFresh
  <2> QED
    BY <2>2, <2>3, <2>4, <2>5 DEF ThreadInv
<1>17. CASE NewThread!WaitFor
  <2>1. NewThread!Top.tp \in NewThread!Times
    <3>1. queue # <<>> /\ NewThread!Top = Head(queue)
      BY <1>17 DEF NewThread!WaitFor, NewThread!Top
    <3>2. Head(queue) \in ThreadSchedulables
      BY <1>2, <3>1, HeadTailProperties
    <3> QED
      BY <3>1, <3>2 DEF ThreadSchedulables
  <2> QED
    BY <1>2, <1>9, <1>9a, <1>17, <2>1 DEF NewThread!WaitFor
<1>18. ASSUME NewThread!WaitOver, pc = "wait_for" PROVE ThreadInv'
  BY <1>2, <1>9, <1>9a, <1>18 DEF NewThread!WaitOver
<1>19. CASE NewThread!Timeout
  BY <1>18, <1>19 DEF NewThread!Timeout
<1>20. CASE NewThread!Recheck
  <2>1. CASE NewThread!WaitOver
    BY <1>18, <1>20, <2>1 DEF NewThread!Recheck
  <2>2. CASE ~NewThread!WaitOver
    <3>1. /\ notified' = FALSE /\ s_last_now_time' = clock
          /\ UNCHANGED <<clock, is_stoping, status, via_current, disposed, ran, queue, before,
                         has_fresh_data, pc, running, deadline, again>>
      BY <1>20, <2>2 DEF NewThread!Recheck
    <3> QED
      BY <1>2, <1>9, <1>9a, <1>9b, <3>1
  <2> QED
    BY <2>1, <2>2
<1>21. CASE NewThread!SpuriousWake
  BY <1>18, <1>21 DEF NewThread!SpuriousWake
<1>22. CASE NewThread!Pop
  <2> DEFINE top == NewThread!Top
  <2>1. /\ pc = "top" /\ queue # <<>> /\ ~NewThread!Early /\ running' = top /\ NewThread!TakeTop
        /\ has_fresh_data' = (Tail(queue) # <<>>) /\ ran' = ran \union {top.task}
        /\ s_last_now_time' = (IF s_last_now_time < top.tp THEN clock ELSE s_last_now_time)
        /\ pc' = "run"
        /\ UNCHANGED <<clock, is_stoping, notified, deadline, again, status, via_current, disposed>>
    BY <1>22 DEF NewThread!Pop
  <2>2. /\ top \in ThreadSchedulables /\ In(queue, top.task)
        /\ queue' = Tail(queue) /\ queue' \in Seq(ThreadSchedulables) /\ Once(queue')
        /\ Ordered(queue', before') /\ before' \subseteq Tasks \X Tasks
        /\ \A t : In(queue', t) <=> In(queue, t) /\ t # top.task
    BY <2>1, ThreadTake
  <2>3. ~(s_last_now_time < top.tp /\ clock < top.tp)
    BY <2>1 DEF NewThread!Early
  <2> HIDE DEF top
  <2>4. top.task \in Tasks /\ top.tp \in Nat /\ top \in [task : Tasks \union {NoTask}, tp : NewThread!Times]
    BY <1>3, <2>2 DEF ThreadSchedulables
  <2>5. top.tp <= clock /\ s_last_now_time' <= clock /\ s_last_now_time' \in NewThread!Times
    BY <1>2, <1>3, <1>9a, <2>1, <2>3, <2>4
  <2>6. has_fresh_data' \in BOOLEAN /\ ran' \subseteq Tasks
    BY <1>2, <2>1, <2>4
  <2>7. NewThread!TypeOK'
    BY <1>2, <2>1, <2>2, <2>4, <2>5, <2>6 DEF NewThread!TypeOK, ThreadSchedulables
  <2>8. ThreadPlaces'
    BY <1>1, <2>1, <2>2, <2>4 DEF ThreadPlaces
  <2>9. ThreadTimes'
    BY <2>1, <2>5 DEF ThreadTimes
  <2>10. ThreadFresh'
    <3>1. CASE Tail(queue) = <<>>
      BY <2>2, <3>1, NothingIn DEF ThreadFresh
    <3>2. CASE Tail(queue) # <<>>
      BY <2>1, <3>2 DEF ThreadFresh
    <3> QED
      BY <3>1, <3>2
  <2> QED
    BY <2>2, <2>7, <2>8, <2>9, <2>10 DEF ThreadInv
<1>23. CASE NewThread!Finish
  BY <1>2, <1>9, <1>9a, <1>23 DEF NewThread!Finish
<1>24. CASE NewThread!Return
  BY <1>2, <1>9, <1>9a, <1>24 DEF NewThread!Return
<1>25. CASE NewThread!RunAgain
  BY <1>2, <1>9, <1>9a, <1>25 DEF NewThread!RunAgain
<1>26. CASE NewThread!Requeue
  <2> DEFINE t == running.task
             tp == NewThread!NewTimePoint
  <2>1. /\ pc = "returned" /\ NewThread!Emplace(NewThread!Schedulable(t, tp))
        /\ s_last_now_time' = (IF again.kind = "now" THEN clock ELSE s_last_now_time)
        /\ pc' = "top" /\ running' = NewThread!Nothing /\ again' = NewThread!NoDelay
        /\ UNCHANGED <<clock, is_stoping, status, via_current, disposed, ran, has_fresh_data, deadline>>
    BY <1>26 DEF NewThread!Requeue
  <2>2. t \in Tasks /\ ~In(queue, t) /\ status[t] # "new"
    BY <1>1, <2>1 DEF ThreadPlaces
  <2>3. again.by \in Nat
    BY <1>2, DelaysAssumption DEF NewThread!NoDelay
  <2>4. tp \in NewThread!Times
    BY <1>0, <1>3, <2>3 DEF NewThread!Capped, NewThread!NewTimePoint
  <2> HIDE DEF tp, t
  <2>5. ThreadPut(t, tp)
    BY <2>1, <2>2, <2>4, ThreadEmplace
  <2>6. /\ queue' \in Seq(ThreadSchedulables) /\ Once(queue') /\ Ordered(queue', before')
        /\ \A u : In(queue', u) <=> In(queue, u) \/ u = t
        /\ notified' \in BOOLEAN /\ before' \subseteq Tasks \X Tasks
    BY <2>5 DEF ThreadPut
  <2>7. s_last_now_time' \in NewThread!Times /\ s_last_now_time' <= clock'
    BY <1>2, <1>9a, <2>1
  <2>8. NewThread!TypeOK'
    BY <1>2, <1>3a, <2>1, <2>6, <2>7 DEF NewThread!TypeOK, ThreadSchedulables
  <2>9. ~In(queue', NoTask)
    BY <1>0, <1>3c, <2>2, <2>6
  <2>10. ThreadPlaces'
    BY <1>0, <1>1, <1>3a, <2>1, <2>2, <2>6, <2>9 DEF ThreadPlaces
  <2>11. ThreadTimes' /\ ThreadFresh'
    BY <2>1, <2>7 DEF ThreadTimes, ThreadFresh
  <2> QED
    BY <2>6, <2>8, <2>10, <2>11 DEF ThreadInv
<1> QED
  BY <1>4, <1>6, <1>7, <1>8, <1>10, <1>11, <1>12, <1>13, <1>14, <1>15, <1>16, <1>17, <1>19, <1>20,
     <1>21, <1>22, <1>23, <1>24, <1>25, <1>26
  DEF NewThread!Next, NewThread!Thread

\* which holds to begin with,
LEMMA ThreadInit ==
  ASSUME NewThread!Init PROVE ThreadInv
<1> USE DEF NewThread!Init
<1>0. 0 \in NewThread!Times /\ 0 <= 0 /\ NoTask \notin Tasks
  BY BoundsAssumption, TasksAssumption DEF NewThread!Times
<1>1. NewThread!Nothing \in [task : Tasks \union {NoTask}, tp : NewThread!Times] /\ NewThread!Nothing.task = NoTask
  BY <1>0 DEF NewThread!Nothing, NewThread!Schedulable
<1>2. <<>> \in Seq([task : Tasks, tp : NewThread!Times])
  BY EmptySeq
<1>3. NewThread!TypeOK
  BY <1>0, <1>1, <1>2 DEF NewThread!TypeOK
<1>4. ThreadPlaces
  BY <1>0, <1>1, NothingIn DEF ThreadPlaces
<1>5. ThreadTimes /\ ThreadFresh
  BY <1>0 DEF ThreadTimes, ThreadFresh
<1>6. Ordered(queue, before)
  BY DEF Ordered
<1> QED
  BY <1>3, <1>4, <1>5, <1>6 DEF ThreadInv

\* and is what the scheduler promises.
LEMMA ThreadSafe ==
  ASSUME ThreadInv
  PROVE  /\ NewThread!TypeOK /\ NewThread!NeverEarly /\ NewThread!PriorityAndOrder
         /\ NewThread!WorksTillEnd /\ NewThread!FreshDataSeen
<1>1. NewThread!TypeOK /\ ThreadPlaces /\ ThreadTimes /\ ThreadFresh /\ Ordered(queue, before)
  BY DEF ThreadInv
<1>2. NewThread!NeverEarly
  BY <1>1 DEF ThreadTimes, NewThread!NeverEarly
<1>3. NewThread!PriorityAndOrder
  BY <1>1 DEF Ordered, NewThread!PriorityAndOrder
<1>4. NewThread!WorksTillEnd
  <2> SUFFICES ASSUME pc = "exit", NEW t \in Tasks, status[t] = "scheduled" PROVE t \in ran \union disposed
    BY DEF NewThread!WorksTillEnd
  <2>1. queue = <<>>
    BY <1>1 DEF ThreadPlaces
  <2>2. ~In(queue, t)
    BY <2>1, NothingIn
  <2> QED
    BY <1>1, <2>2 DEF ThreadPlaces
<1>5. NewThread!FreshDataSeen
  BY <1>1 DEF ThreadFresh, NewThread!FreshDataSeen, Members
<1> QED
  BY <1>1, <1>2, <1>3, <1>4, <1>5

-----------------------------------------------------------------------------
(* current_thread and immediate.                                             *)

CurrentSchedulables == [task : Tasks, tp : CurrentThread!Times, nr : Nat]

\* By time point, then by the order they came in.
Numbered(q) ==
  \A j, k \in DOMAIN q :
    j < k => q[j].tp < q[k].tp \/ (q[j].tp = q[k].tp /\ q[j].nr < q[k].nr)

\* A newcomer, with the highest number, keeps the order,
LEMMA NumberedKept ==
  ASSUME NEW q \in Seq(CurrentSchedulables), Numbered(q), NEW e \in CurrentSchedulables,
         \A s \in Members(q) : s.nr < e.nr,
         NEW new, new = Insert(q, Cardinality({k \in DOMAIN q : q[k].tp <= e.tp}) + 1, e)
  PROVE  Numbered(new)
<1>1. \A s \in CurrentSchedulables : s.tp \in Nat
  BY BoundsAssumption DEF CurrentThread!Times, CurrentSchedulables
<1>2. \A k \in DOMAIN q : q[k].tp \in Nat
  BY <1>1, LenProperties, ElementOfSeq
<1>3. \A j, k \in DOMAIN q : j < k => q[j].tp <= q[k].tp
  <2>1. ASSUME NEW j \in DOMAIN q, NEW k \in DOMAIN q, j < k PROVE q[j].tp <= q[k].tp
    <3>1. q[j].tp < q[k].tp \/ q[j].tp = q[k].tp
      BY <2>1 DEF Numbered
    <3> QED
      BY <1>2, <3>1
  <2> QED
    BY <2>1
<1>4. \A j, k \in DOMAIN new : j < k =>
        BothOld(q, new[j], new[k]) \/ BeforeNew(q, e, new[j], new[k]) \/ BehindNew(q, e, new[j], new[k])
  BY <1>1, <1>3, BehindNotLater
<1> SUFFICES ASSUME NEW j \in DOMAIN new, NEW k \in DOMAIN new, j < k
             PROVE  new[j].tp < new[k].tp \/ (new[j].tp = new[k].tp /\ new[j].nr < new[k].nr)
  BY DEF Numbered
<1>5. CASE BothOld(q, new[j], new[k])
  BY <1>5 DEF BothOld, Numbered
<1>6. CASE BeforeNew(q, e, new[j], new[k])
  <2>1. PICK m \in DOMAIN q : new[j] = q[m] /\ new[k] = e /\ q[m].tp <= e.tp
    BY <1>6 DEF BeforeNew
  <2>2. q[m].tp < e.tp \/ q[m].tp = e.tp
    BY <1>1, <1>2, <2>1
  <2>3. q[m].nr < e.nr
    BY DEF Members
  <2> QED
    BY <2>1, <2>2, <2>3
<1>7. CASE BehindNew(q, e, new[j], new[k])
  BY <1>7 DEF BehindNew
<1> QED
  BY <1>4, <1>5, <1>6, <1>7

\* and what is taken comes before the rest, which keeps it.
LEMMA NumberedBehind ==
  ASSUME NEW q \in Seq(CurrentSchedulables), q # <<>>, Numbered(q)
  PROVE  /\ Numbered(Tail(q))
         /\ \A k \in DOMAIN Tail(q) :
              LET s == Tail(q)[k] IN Head(q).tp < s.tp \/ (Head(q).tp = s.tp /\ Head(q).nr < s.nr)
<1>1. /\ DOMAIN q = 1..Len(q) /\ Len(q) \in Nat \ {0} /\ Head(q) = q[1]
      /\ DOMAIN Tail(q) = 1..Len(q) - 1 /\ \A k \in 1..Len(q) - 1 : Tail(q)[k] = q[k + 1]
  BY HeadTailProperties, LenProperties, EmptySeq
<1>2. Numbered(Tail(q))
  <2> SUFFICES ASSUME NEW j \in 1..Len(q) - 1, NEW k \in 1..Len(q) - 1, j < k
               PROVE  Tail(q)[j].tp < Tail(q)[k].tp
                      \/ (Tail(q)[j].tp = Tail(q)[k].tp /\ Tail(q)[j].nr < Tail(q)[k].nr)
    BY <1>1 DEF Numbered
  <2>1. /\ Tail(q)[j] = q[j + 1] /\ Tail(q)[k] = q[k + 1] /\ j + 1 < k + 1
        /\ j + 1 \in DOMAIN q /\ k + 1 \in DOMAIN q
    BY <1>1
  <2> QED
    BY <2>1 DEF Numbered
<1>3. ASSUME NEW k \in DOMAIN Tail(q)
      PROVE  Head(q).tp < Tail(q)[k].tp \/ (Head(q).tp = Tail(q)[k].tp /\ Head(q).nr < Tail(q)[k].nr)
  <2>1. Tail(q)[k] = q[k + 1] /\ 1 < k + 1 /\ k + 1 \in DOMAIN q /\ 1 \in DOMAIN q
    BY <1>1, <1>3
  <2> QED
    BY <1>1, <2>1 DEF Numbered
<1> QED
  BY <1>2, <1>3

\* A task in the queue, or slept for or run by one of the loops.
Busy == {"look", "asleep", "call", "run", "again"}
CurrentPlaces ==
  /\ pc \in Busy <=> cur.task \in Tasks
  /\ pc = "look" => path # "drain"
  /\ pc = "again" => path = "drain"
  /\ owned <=> pc \in {"guard", "drain"} \/ (pc \in Busy /\ path # "immediate")
  /\ ~owned => queue = <<>>
  /\ Once(queue) /\ ~In(queue, cur.task)
  /\ \A t \in Tasks : In(queue, t) \/ cur.task = t => status[t] = "scheduled"
  /\ \A t \in Tasks : status[t] = "scheduled" => In(queue, t) \/ cur.task = t \/ t \in disposed
  /\ \A t \in Tasks : status[t] = "new" \/ In(queue, t) => runs[t] < MaxRuns
  /\ pc \in Busy \ {"run"} => runs[cur.task] < MaxRuns

\* Until when a task is slept for: what it wants, but drain_queue() lets one that
\* keeps its period drift to before.
KeepsItself(t) == kind[t] = "delay_from_this_timepoint"
NotLater(t, tp) == IF KeepsItself(t) THEN tp <= wanted[t] ELSE tp = wanted[t]
CurrentTimes ==
  /\ \A s \in Members(queue) : NotLater(s.task, s.tp)
  /\ pc \in Busy =>
       /\ path # "drain" => cur.tp = due /\ due = wanted[cur.task]
       /\ NotLater(cur.task, due)
       /\ KeepsItself(cur.task) => cur.tp <= wanted[cur.task]
  /\ pc \in {"call", "run"} => due <= clock

CurrentOrder ==
  /\ Numbered(queue)
  /\ \E n \in Nat : \A s \in Members(queue) : s.nr <= n
  /\ CurrentThread!RunsInOrder

CurrentInv == CurrentThread!TypeOK /\ CurrentPlaces /\ CurrentTimes /\ CurrentOrder

\* What Emplace does to the queue.
CurrentPut(t, tp) ==
  /\ queue' \in Seq(CurrentSchedulables) /\ Once(queue') /\ Numbered(queue')
  /\ \E n \in Nat : \A s \in Members(queue') : s.nr <= n
  /\ \A u : In(queue', u) <=> In(queue, u) \/ u = t
  /\ \A s \in Members(queue') : s \in Members(queue) \/ (s.task = t /\ s.tp = tp)

\* emplace() puts in a task that was not there.
LEMMA CurrentEmplace ==
  ASSUME CurrentInv, NEW t \in Tasks, NEW tp \in CurrentThread!Times, ~In(queue, t),
         CurrentThread!Emplace(t, tp)
  PROVE  CurrentPut(t, tp)
<1> DEFINE new == CurrentThread!Newest
<1>1. /\ queue \in Seq(CurrentSchedulables) /\ Once(queue) /\ Numbered(queue)
      /\ \A s \in Members(queue) : s \in CurrentSchedulables /\ s.nr \in Nat
  <2>1. queue \in Seq(CurrentSchedulables) /\ Once(queue) /\ Numbered(queue)
    BY DEF CurrentInv, CurrentThread!TypeOK, CurrentPlaces, CurrentOrder, CurrentSchedulables
  <2>2. Members(queue) \subseteq CurrentSchedulables
    BY <2>1, MembersIn
  <2> QED
    BY <2>1, <2>2 DEF CurrentSchedulables
\* The newest number is one that came with a schedulable, or 0.
<1>2. new \in Nat /\ \A s \in Members(queue) : s.nr <= new
  <2> DEFINE S == {0} \union {queue[k].nr : k \in DOMAIN queue}
  <2>1. PICK n \in Nat : \A s \in Members(queue) : s.nr <= n
    BY DEF CurrentInv, CurrentOrder
  <2>2. S \subseteq Nat /\ S # {} /\ \A y \in S : y <= n
    BY <1>1, <2>1 DEF Members
  <2>3. new = CurrentThread!Max(S)
    BY DEF CurrentThread!Newest
  <2>3a. \A s \in Members(queue) : s.nr \in S
    BY DEF Members
  <2> HIDE DEF S, new
  <2>4. new \in S /\ \A y \in S : new >= y
    BY <2>2, <2>3, Greatest
  <2> QED
    BY <2>2, <2>3a, <2>4
<1> DEFINE e == [task |-> t, tp |-> tp, nr |-> new + 1]
           P == {k \in DOMAIN queue : queue[k].tp <= e.tp}
<1>3. e \in CurrentSchedulables /\ e.task = t /\ e.tp = tp /\ e.nr = new + 1
  BY <1>2 DEF CurrentSchedulables
<1>4. queue' = Insert(queue, Cardinality(P) + 1, e)
  BY SameCardinality DEF CurrentThread!Emplace, CurrentThread!InsertAt, CurrentThread!Schedulable, Insert
<1>5. P \in SUBSET DOMAIN queue
  OBVIOUS
<1> HIDE DEF e, new
<1>6. \A s \in Members(queue) : s.nr < e.nr /\ s.nr <= new + 1
  BY <1>1, <1>2, <1>3
<1>7. Numbered(queue')
  BY <1>1, <1>3, <1>4, <1>6, NumberedKept
<1>8. ~In(queue, e.task)
  BY <1>3
<1> HIDE DEF P
<1>9. /\ queue' \in Seq(CurrentSchedulables) /\ Once(queue')
      /\ \A u : In(queue', u) <=> In(queue, u) \/ u = e.task
      /\ \A s \in Members(queue') : s \in Members(queue) \/ s = e
  BY <1>1, <1>3, <1>4, <1>5, <1>8, Emplaced
<1>10. \E n \in Nat : \A s \in Members(queue') : s.nr <= n
  <2>1. new + 1 \in Nat /\ new + 1 <= new + 1
    BY <1>2
  <2> QED
    BY <1>3, <1>6, <1>9, <2>1
<1> QED
  BY <1>3, <1>7, <1>9, <1>10 DEF CurrentPut

\* Every step keeps the invariant of current_thread,
LEMMA CurrentStep ==
  ASSUME CurrentInv, [CurrentThread!Next]_(CurrentThread!vars)
  PROVE  CurrentInv'
<1> USE DEF CurrentThread!thread
<1>0. /\ MaxTime \in Nat /\ MaxDelay \in Nat /\ MaxRuns \in Nat \ {0} /\ NoTask \notin Tasks
      /\ CurrentThread!Times = 0..MaxTime /\ CurrentThread!Delays = 0..MaxDelay
  BY BoundsAssumption, TasksAssumption DEF CurrentThread!Times, CurrentThread!Delays
<1>1. CurrentThread!TypeOK /\ CurrentPlaces /\ CurrentTimes /\ CurrentOrder
  BY DEF CurrentInv
<1>2. /\ clock \in CurrentThread!Times /\ kind \in [Tasks -> CurrentThread!Kinds] /\ owned \in BOOLEAN
      /\ queue \in Seq(CurrentSchedulables)
      /\ pc \in {"idle", "guard", "look", "asleep", "call", "run", "again", "drain"}
      /\ path \in {"direct", "immediate", "drain"}
      /\ cur \in [task : Tasks \union {NoTask}, tp : CurrentThread!Times, nr : Nat]
      /\ due \in CurrentThread!Times
      /\ disposed \subseteq Tasks /\ status \in [Tasks -> {"new", "scheduled", "over"}]
      /\ runs \in [Tasks -> 0..MaxRuns] /\ wanted \in [Tasks -> CurrentThread!Times]
  BY <1>1 DEF CurrentThread!TypeOK, CurrentSchedulables
<1>3. /\ clock \in Nat /\ due \in Nat /\ cur.tp \in Nat
      /\ \A t \in Tasks : wanted[t] \in Nat
      /\ \A s \in Members(queue) : s \in CurrentSchedulables /\ s.task \in Tasks /\ s.tp \in Nat /\ In(queue, s.task)
  <2>1. Members(queue) \subseteq CurrentSchedulables /\ \A s \in Members(queue) : In(queue, s.task)
    BY <1>2, MembersIn
  <2> QED
    BY <1>0, <1>2, <2>1 DEF CurrentSchedulables
<1>4. /\ CurrentThread!Nothing \in [task : Tasks \union {NoTask}, tp : CurrentThread!Times, nr : Nat]
      /\ CurrentThread!Nothing.task = NoTask /\ 0 \in CurrentThread!Times /\ ~In(queue, NoTask)
  <2>1. \A k \in DOMAIN queue : queue[k].task \in Tasks
    BY <1>3 DEF Members
  <2> QED
    BY <1>0, <2>1 DEF CurrentThread!Nothing, CurrentThread!Schedulable, In
<1>5. CASE UNCHANGED CurrentThread!vars
  <2>1. UNCHANGED <<clock, kind, owned, queue, pc, path, cur, due, disposed, status, runs, wanted>>
    BY <1>5 DEF CurrentThread!vars
  <2>2. CurrentThread!TypeOK'
    BY <1>1, <2>1 DEF CurrentThread!TypeOK
  <2>3. CurrentPlaces'
    BY <1>1, <2>1 DEF CurrentPlaces
  <2>4. CurrentTimes'
    BY <1>1, <2>1 DEF CurrentTimes, NotLater, KeepsItself
  <2>5. CurrentOrder'
    BY <1>1, <2>1 DEF CurrentOrder, CurrentThread!RunsInOrder
  <2> QED
    BY <2>2, <2>3, <2>4, <2>5 DEF CurrentInv
\* The order of a queue nobody touches, when nobody goes to sleep or to a call.
<1>6. ASSUME UNCHANGED queue, \/ pc' \notin {"asleep", "call"}
                              \/ pc \in {"asleep", "call"} /\ UNCHANGED cur
                              \/ queue = <<>>
      PROVE  CurrentOrder'
  <2>1. CurrentThread!RunsInOrder'
    BY <1>1, <1>6 DEF CurrentOrder, CurrentThread!RunsInOrder
  <2> QED
    BY <1>1, <1>6, <2>1 DEF CurrentOrder
\* The task that runs or waits goes back to the queue.
<1>7. ASSUME NEW tp \in CurrentThread!Times, pc \in Busy, pc # "run", owned, CurrentThread!Emplace(cur.task, tp),
             NotLater(cur.task, tp), pc' = "drain", cur' = CurrentThread!Nothing, due' = 0,
             UNCHANGED <<clock, kind, owned, path, disposed, status, runs, wanted>>
      PROVE  CurrentInv'
  <2> DEFINE t == cur.task
  <2>1. t \in Tasks /\ ~In(queue, t) /\ status[t] = "scheduled" /\ runs[t] < MaxRuns
    BY <1>1, <1>7 DEF CurrentPlaces
  <2>2. CurrentPut(t, tp)
    BY <1>7, <2>1, CurrentEmplace
  <2>3. CurrentThread!TypeOK'
    BY <1>2, <1>4, <1>7, <2>2 DEF CurrentThread!TypeOK, CurrentPut, CurrentSchedulables
  <2>4. ~In(queue', NoTask)
    BY <1>0, <1>4, <2>1, <2>2 DEF CurrentPut
  <2>5. CurrentPlaces'
    BY <1>0, <1>1, <1>4, <1>7, <2>1, <2>2, <2>4 DEF CurrentPlaces, CurrentPut, Busy
  <2>6. \A s \in Members(queue') : NotLater(s.task, s.tp)
    BY <1>1, <1>7, <2>2 DEF CurrentTimes, CurrentPut
  <2>7. CurrentTimes'
    BY <1>7, <2>6 DEF CurrentTimes, NotLater, KeepsItself, Busy
  <2>8. CurrentOrder'
    BY <1>7, <2>2 DEF CurrentOrder, CurrentPut, CurrentThread!RunsInOrder
  <2> QED
    BY <2>3, <2>5, <2>7, <2>8 DEF CurrentInv
\* The thread lets go of its task, which is over or disposed of.
<1>8. ASSUME pc \in Busy, pc' = (IF path = "immediate" THEN "idle" ELSE "drain"),
             cur' = CurrentThread!Nothing, due' = 0,
             UNCHANGED <<clock, kind, owned, queue, path, disposed, runs>>,
             \/ cur.task \in disposed /\ UNCHANGED <<status, wanted>>
             \/ status' = [status EXCEPT ![cur.task] = "over"] /\ wanted' = [wanted EXCEPT ![cur.task] = 0]
      PROVE  CurrentInv'
  <2> DEFINE t == cur.task
  <2>1. t \in Tasks /\ ~In(queue, t) /\ status[t] = "scheduled"
    BY <1>1, <1>8 DEF CurrentPlaces
  <2>2. status' \in [Tasks -> {"new", "scheduled", "over"}] /\ wanted' \in [Tasks -> CurrentThread!Times]
    <3>1. 0 \in CurrentThread!Times
      BY <1>4
    <3>2. CASE UNCHANGED <<status, wanted>>
      BY <1>2, <3>2
    <3>3. CASE status' = [status EXCEPT ![cur.task] = "over"] /\ wanted' = [wanted EXCEPT ![cur.task] = 0]
      BY <1>2, <3>1, <3>3
    <3> QED
      BY <1>8, <3>2, <3>3
  <2>3. CurrentThread!TypeOK'
    BY <1>2, <1>4, <1>8, <2>2 DEF CurrentThread!TypeOK, CurrentSchedulables
  <2>4. /\ \A u \in Tasks : u # t => status'[u] = status[u] /\ wanted'[u] = wanted[u]
        /\ status'[t] = "scheduled" => t \in disposed
        /\ status'[t] # "new"
    BY <1>2, <1>8, <2>1
  <2>5. CurrentPlaces'
    BY <1>0, <1>1, <1>4, <1>8, <2>1, <2>4 DEF CurrentPlaces, Busy
  <2>6. \A s \in Members(queue) : s.task \in Tasks /\ s.task # t
    BY <1>3, <2>1
  <2>7. CurrentTimes'
    BY <1>1, <1>8, <2>4, <2>6 DEF CurrentTimes, NotLater, KeepsItself, Busy
  <2>8. CurrentOrder'
    BY <1>6, <1>8
  <2> QED
    BY <2>3, <2>5, <2>7, <2>8 DEF CurrentInv
\* It goes on with its task, to sleep or to call it.
<1>9. ASSUME pc \in Busy, pc' = "asleep" \/ (pc' = "call" /\ due <= clock), pc # "run",
             pc \in {"asleep", "call"} \/ queue = <<>>,
             UNCHANGED <<clock, kind, owned, queue, path, cur, due, disposed, status, runs, wanted>>
      PROVE  CurrentInv'
  <2>1. CurrentThread!TypeOK'
    BY <1>2, <1>9 DEF CurrentThread!TypeOK, CurrentSchedulables
  <2>2. CurrentPlaces'
    BY <1>1, <1>9 DEF CurrentPlaces, Busy
  <2>3. CurrentTimes'
    BY <1>1, <1>9 DEF CurrentTimes, NotLater, KeepsItself, Busy
  <2>4. CurrentOrder'
    BY <1>6, <1>9
  <2> QED
    BY <2>1, <2>2, <2>3, <2>4 DEF CurrentInv
<1>10. ASSUME NEW t \in Tasks, CurrentThread!Dispose(t) PROVE CurrentInv'
  <2>1. /\ disposed' \subseteq Tasks /\ disposed \subseteq disposed'
        /\ UNCHANGED <<clock, kind, owned, queue, pc, path, cur, due, status, runs, wanted>>
    BY <1>2, <1>10 DEF CurrentThread!Dispose
  <2>2. CurrentThread!TypeOK'
    BY <1>2, <2>1 DEF CurrentThread!TypeOK, CurrentSchedulables
  <2>3. CurrentPlaces'
    BY <1>1, <2>1 DEF CurrentPlaces
  <2>4. CurrentTimes'
    BY <1>1, <2>1 DEF CurrentTimes, NotLater, KeepsItself
  <2>5. CurrentOrder'
    BY <1>6, <2>1
  <2> QED
    BY <2>2, <2>3, <2>4, <2>5 DEF CurrentInv
<1>11. CASE CurrentThread!Tick
  <2>1. clock' = clock + 1 /\ clock < MaxTime
        /\ UNCHANGED <<kind, owned, queue, pc, path, cur, due, disposed, status, runs, wanted>>
    BY <1>11 DEF CurrentThread!Tick
  <2>2. clock' \in CurrentThread!Times /\ (due <= clock => due <= clock')
    BY <1>0, <1>3, <2>1
  <2>3. CurrentThread!TypeOK'
    BY <1>2, <2>1, <2>2 DEF CurrentThread!TypeOK, CurrentSchedulables
  <2>4. CurrentPlaces'
    BY <1>1, <2>1 DEF CurrentPlaces
  <2>5. CurrentTimes'
    BY <1>1, <2>1, <2>2 DEF CurrentTimes, NotLater, KeepsItself
  <2>6. CurrentOrder'
    BY <1>6, <2>1
  <2> QED
    BY <2>3, <2>4, <2>5, <2>6 DEF CurrentInv
\* Into and out of a guard, and out of the drain.
<1>12. ASSUME pc \notin Busy, pc' \notin Busy,
              pc' \in {"idle", "guard", "drain"}, owned' = (pc' # "idle"), owned' \/ queue = <<>>,
              UNCHANGED <<clock, kind, queue, path, cur, due, disposed, status, runs, wanted>>
       PROVE  CurrentInv'
  <2>1. CurrentThread!TypeOK'
    BY <1>2, <1>12 DEF CurrentThread!TypeOK, CurrentSchedulables
  <2>2. CurrentPlaces'
    BY <1>1, <1>12 DEF CurrentPlaces, Busy
  <2>3. CurrentTimes'
    BY <1>1, <1>12 DEF CurrentTimes, NotLater, KeepsItself, Busy
  <2>4. CurrentOrder'
    BY <1>6, <1>12
  <2> QED
    BY <2>1, <2>2, <2>3, <2>4 DEF CurrentInv
<1>13. CASE CurrentThread!EnterGuard
  BY <1>12, <1>13 DEF CurrentThread!EnterGuard, Busy
<1>14. CASE CurrentThread!LeaveGuard
  BY <1>1, <1>12, <1>14 DEF CurrentThread!LeaveGuard, CurrentPlaces, Busy
<1>15. CASE CurrentThread!DrainOver
  BY <1>12, <1>15 DEF CurrentThread!DrainOver, Busy
<1>16. ASSUME NEW t \in Tasks, CurrentThread!Schedule(t) PROVE CurrentInv'
  <2>1. PICK tp \in CurrentThread!Times : CurrentThread!Emplace(t, tp) /\ wanted' = [wanted EXCEPT ![t] = tp]
    BY <1>16 DEF CurrentThread!Schedule
  <2>2. /\ pc \in {"guard", "run"} /\ owned /\ status[t] = "new" /\ status' = [status EXCEPT ![t] = "scheduled"]
        /\ UNCHANGED <<clock, kind, owned, pc, path, cur, due, disposed, runs>>
    BY <1>16 DEF CurrentThread!Schedule
  <2>3. ~In(queue, t) /\ cur.task # t
    BY <1>1, <2>2 DEF CurrentPlaces
  <2>4. CurrentPut(t, tp)
    BY <2>1, <2>3, CurrentEmplace
  <2>5. /\ status' \in [Tasks -> {"new", "scheduled", "over"}] /\ wanted' \in [Tasks -> CurrentThread!Times]
        /\ \A u \in Tasks : /\ status'[u] = IF u = t THEN "scheduled" ELSE status[u]
                            /\ wanted'[u] = IF u = t THEN tp ELSE wanted[u]
    BY <1>2, <2>1, <2>2
  <2>6. CurrentThread!TypeOK'
    BY <1>2, <2>2, <2>4, <2>5 DEF CurrentThread!TypeOK, CurrentPut, CurrentSchedulables
  <2>7. CurrentPlaces'
    BY <1>1, <2>2, <2>3, <2>4, <2>5 DEF CurrentPlaces, CurrentPut, Busy
  <2>8. \A s \in Members(queue') : NotLater(s.task, s.tp)'
    <3> SUFFICES ASSUME NEW s \in Members(queue')
                 PROVE  IF KeepsItself(s.task) THEN s.tp <= wanted'[s.task] ELSE s.tp = wanted'[s.task]
      BY <2>2 DEF NotLater, KeepsItself
    <3>1. CASE s \in Members(queue)
      <4>1. s.task \in Tasks /\ s.task # t /\ NotLater(s.task, s.tp)
        BY <1>1, <1>3, <2>3, <3>1 DEF CurrentTimes
      <4> QED
        BY <2>5, <4>1 DEF NotLater
    <3>2. CASE s.task = t /\ s.tp = tp
      BY <1>0, <2>5, <3>2
    <3> QED
      BY <2>4, <3>1, <3>2 DEF CurrentPut
  <2>9. pc \in Busy => cur.task \in Tasks /\ wanted'[cur.task] = wanted[cur.task]
    BY <1>1, <2>3, <2>5 DEF CurrentPlaces
  <2>10. CurrentTimes'
    BY <1>1, <2>2, <2>8, <2>9 DEF CurrentTimes, NotLater, KeepsItself
  <2>11. CurrentOrder'
    BY <2>2, <2>4 DEF CurrentOrder, CurrentPut, CurrentThread!RunsInOrder
  <2> QED
    BY <2>6, <2>7, <2>10, <2>11 DEF CurrentInv
<1>17. ASSUME NEW t \in Tasks, CurrentThread!ScheduleFirst(t) PROVE CurrentInv'
  <2>1. PICK tp \in clock..MaxTime :
          /\ cur' = CurrentThread!Schedulable(t, tp, 0) /\ due' = tp
          /\ wanted' = [wanted EXCEPT ![t] = tp]
    BY <1>17 DEF CurrentThread!ScheduleFirst
  <2>2. /\ pc = "idle" /\ status[t] = "new" /\ pc' = "look" /\ status' = [status EXCEPT ![t] = "scheduled"]
        /\ path' \in {"direct", "immediate"} /\ owned' = (path' = "direct")
        /\ UNCHANGED <<clock, kind, queue, disposed, runs>>
    BY <1>17 DEF CurrentThread!ScheduleFirst
  <2>3. ~In(queue, t) /\ cur.task # t /\ queue = <<>> /\ tp \in CurrentThread!Times
        /\ cur'.task = t /\ cur'.tp = tp /\ cur' \in [task : Tasks \union {NoTask}, tp : CurrentThread!Times, nr : Nat]
    BY <1>0, <1>1, <1>3, <2>1, <2>2 DEF CurrentPlaces, Busy, CurrentThread!Schedulable
  <2>4. /\ status' \in [Tasks -> {"new", "scheduled", "over"}] /\ wanted' \in [Tasks -> CurrentThread!Times]
        /\ \A u \in Tasks : /\ status'[u] = IF u = t THEN "scheduled" ELSE status[u]
                            /\ wanted'[u] = IF u = t THEN tp ELSE wanted[u]
    BY <1>2, <2>1, <2>2, <2>3
  <2>5. CurrentThread!TypeOK'
    BY <1>2, <2>1, <2>2, <2>3, <2>4 DEF CurrentThread!TypeOK, CurrentSchedulables
  <2>6. \A u \in Tasks : u # t => cur.task # u \/ status[u] # "scheduled"
    BY <1>1, <2>2 DEF CurrentPlaces, Busy
  <2>7. CurrentPlaces'
    BY <1>1, <2>2, <2>3, <2>4, <2>6 DEF CurrentPlaces, Busy
  <2>8. CurrentTimes'
    <3>1. tp <= tp
      BY <1>0, <2>3
    <3> QED
      BY <2>1, <2>2, <2>3, <2>4, <3>1, NothingIn DEF CurrentTimes, NotLater, KeepsItself
  <2>9. CurrentOrder'
    BY <1>6, <2>2
  <2> QED
    BY <2>5, <2>7, <2>8, <2>9 DEF CurrentInv
<1>18. CASE CurrentThread!Look
  <2>1. /\ pc = "look" /\ path # "drain" /\ cur.tp = due /\ NotLater(cur.task, due)
        /\ UNCHANGED <<clock, kind, owned, disposed, status, runs, wanted>>
    BY <1>1, <1>18 DEF CurrentThread!Look, CurrentPlaces, CurrentTimes, Busy
  <2>2. CASE queue # <<>> /\ cur.task \notin disposed
    <3>1. CurrentThread!Emplace(cur.task, cur.tp) /\ CurrentThread!LoopOver
      BY <1>18, <2>2 DEF CurrentThread!Look
    <3>2. owned /\ path # "immediate" /\ cur.tp \in CurrentThread!Times
      BY <1>1, <1>2, <2>1, <2>2 DEF CurrentPlaces, Busy
    <3> QED
      BY <1>7, <2>1, <3>1, <3>2 DEF CurrentThread!LoopOver, Busy
  <2>3. CASE cur.task \in disposed
    <3>1. CurrentThread!LoopOver /\ UNCHANGED queue
      BY <1>18, <2>3 DEF CurrentThread!Look
    <3> QED
      BY <1>8, <2>1, <2>3, <3>1 DEF CurrentThread!LoopOver, Busy
  <2>4. CASE queue = <<>> /\ cur.task \notin disposed
    <3>1. pc' = (IF due > clock THEN "asleep" ELSE "call") /\ UNCHANGED <<path, cur, due, queue>>
      BY <1>18, <2>4 DEF CurrentThread!Look
    <3>2. pc' = "asleep" \/ (pc' = "call" /\ due <= clock)
      BY <1>3, <3>1
    <3> QED
      BY <1>9, <2>1, <2>4, <3>1, <3>2 DEF Busy
  <2> QED
    BY <2>2, <2>3, <2>4
<1>19. CASE CurrentThread!Wake
  <2>1. /\ pc = "asleep" /\ clock >= due
        /\ UNCHANGED <<clock, kind, owned, queue, disposed, status, runs, wanted>>
    BY <1>19 DEF CurrentThread!Wake
  <2>2. CASE path # "drain" /\ cur.task \in disposed
    BY <1>8, <1>19, <2>1, <2>2 DEF CurrentThread!Wake, CurrentThread!LoopOver, Busy
  <2>3. CASE ~(path # "drain" /\ cur.task \in disposed)
    <3>1. pc' = "call" /\ UNCHANGED <<path, cur, due>> /\ due <= clock
      BY <1>3, <1>19, <2>1, <2>3 DEF CurrentThread!Wake
    <3> QED
      BY <1>9, <2>1, <3>1 DEF Busy
  <2> QED
    BY <2>2, <2>3
<1>20. CASE CurrentThread!Call
  <2>1. /\ pc = "call" /\ pc' = "run" /\ runs' = [runs EXCEPT ![cur.task] = @ + 1]
        /\ UNCHANGED <<clock, kind, owned, queue, path, cur, due, disposed, status, wanted>>
    BY <1>20 DEF CurrentThread!Call
  <2>2. cur.task \in Tasks /\ runs[cur.task] < MaxRuns /\ ~In(queue, cur.task) /\ status[cur.task] = "scheduled"
    BY <1>1, <2>1 DEF CurrentPlaces, Busy
  <2>3. runs' \in [Tasks -> 0..MaxRuns] /\ \A u \in Tasks : u # cur.task => runs'[u] = runs[u]
    BY <1>0, <1>2, <2>1, <2>2
  <2>4. CurrentThread!TypeOK'
    BY <1>2, <2>1, <2>3 DEF CurrentThread!TypeOK, CurrentSchedulables
  <2>5. CurrentPlaces'
    BY <1>1, <2>1, <2>2, <2>3 DEF CurrentPlaces, Busy
  <2>6. CurrentTimes'
    BY <1>1, <2>1 DEF CurrentTimes, NotLater, KeepsItself, Busy
  <2>7. CurrentOrder'
    BY <1>6, <2>1
  <2> QED
    BY <2>4, <2>5, <2>6, <2>7 DEF CurrentInv
<1>21. CASE CurrentThread!Finish
  <2>1. /\ pc = "run" /\ status' = [status EXCEPT ![cur.task] = "over"]
        /\ wanted' = [wanted EXCEPT ![cur.task] = 0]
        /\ UNCHANGED <<clock, kind, owned, queue, disposed, runs>>
    BY <1>21 DEF CurrentThread!Finish
  <2>2. /\ pc' = (IF path = "immediate" THEN "idle" ELSE "drain")
        /\ cur' = CurrentThread!Nothing /\ due' = 0 /\ UNCHANGED path
    BY <1>21 DEF CurrentThread!Finish, CurrentThread!LoopOver
  <2> QED
    BY <1>8, <2>1, <2>2 DEF Busy
<1>22. CASE CurrentThread!Return
  <2> DEFINE t == cur.task
  <2>1. /\ pc = "run" /\ runs[t] < MaxRuns /\ pc' = (IF path = "drain" THEN "again" ELSE "look")
        /\ UNCHANGED <<clock, kind, owned, queue, path, disposed, status, runs>>
    BY <1>22 DEF CurrentThread!Return
  <2>2. PICK d \in IF kind[t] = "delay_to" THEN CurrentThread!Times ELSE CurrentThread!Delays :
          /\ CurrentThread!Again(kind[t], d, wanted[t]) <= MaxTime
          /\ wanted' = [wanted EXCEPT ![t] = CurrentThread!Again(kind[t], d, wanted[t])]
          /\ due' = CurrentThread!Again(kind[t], d, cur.tp)
          /\ cur' = IF path = "drain" THEN cur
                    ELSE [cur EXCEPT !.tp = CurrentThread!Again(kind[t], d, cur.tp)]
    BY <1>22 DEF CurrentThread!Return
  <2> DEFINE next == CurrentThread!Again(kind[t], d, cur.tp)
             promised == CurrentThread!Again(kind[t], d, wanted[t])
  <2>3. /\ t \in Tasks /\ ~In(queue, t) /\ status[t] = "scheduled"
        /\ path # "drain" => cur.tp = wanted[t]
        /\ KeepsItself(t) => cur.tp <= wanted[t]
    BY <1>1, <2>1 DEF CurrentPlaces, CurrentTimes, Busy
  <2>4. d \in Nat /\ wanted[t] \in Nat /\ kind[t] \in CurrentThread!Kinds
    BY <1>0, <1>2, <1>3, <2>2, <2>3
  <2>5. CASE KeepsItself(t)
    <3>1. next = cur.tp + d /\ promised = wanted[t] + d
      BY <2>5 DEF CurrentThread!Again, KeepsItself
    <3> HIDE DEF next, promised
    <3> QED
      <4>1. promised <= MaxTime
        BY <2>2 DEF promised
      <4>2. /\ next \in CurrentThread!Times /\ promised \in CurrentThread!Times
            /\ next <= promised /\ cur.tp <= promised /\ (path # "drain" => next = promised)
        BY <1>0, <1>3, <2>3, <2>4, <2>5, <3>1, <4>1
      <4>3. QED
        <5>1. /\ wanted' = [wanted EXCEPT ![t] = promised] /\ due' = next
              /\ cur' = IF path = "drain" THEN cur ELSE [cur EXCEPT !.tp = next]
          BY <2>2 DEF next, promised
        <5>2. /\ wanted' \in [Tasks -> CurrentThread!Times] /\ wanted'[t] = promised
              /\ \A u \in Tasks : u # t => wanted'[u] = wanted[u]
          BY <1>2, <2>3, <4>2, <5>1
        <5>3. /\ cur' \in [task : Tasks \union {NoTask}, tp : CurrentThread!Times, nr : Nat] /\ cur'.task = t
              /\ path # "drain" => cur'.tp = next
              /\ path = "drain" => cur'.tp = cur.tp
          BY <1>2, <4>2, <5>1
        <5>4. CurrentThread!TypeOK'
          BY <1>2, <2>1, <4>2, <5>1, <5>2, <5>3 DEF CurrentThread!TypeOK, CurrentSchedulables
        <5>5. CurrentPlaces'
          BY <1>1, <2>1, <2>3, <5>3 DEF CurrentPlaces, Busy
        <5>6. \A s \in Members(queue) : s.task \in Tasks /\ s.task # t
          BY <1>3, <2>3
        <5>7. CurrentTimes'
          BY <1>1, <2>1, <2>5, <4>2, <5>1, <5>2, <5>3, <5>6 DEF CurrentTimes, NotLater, KeepsItself, Busy
        <5>8. CurrentOrder'
          BY <1>6, <2>1
        <5> QED
          BY <5>4, <5>5, <5>7, <5>8 DEF CurrentInv
  <2>6. CASE ~KeepsItself(t)
    <3>1. next = promised
      BY <2>4, <2>6 DEF CurrentThread!Again, CurrentThread!Kinds, KeepsItself
    <3>2. promised = (IF kind[t] = "delay_to" THEN d ELSE clock + d)
      BY <2>4, <2>6 DEF CurrentThread!Again, CurrentThread!Kinds, KeepsItself
    <3>3. promised <= MaxTime
      BY <2>2
    <3>4. /\ wanted' = [wanted EXCEPT ![t] = promised] /\ due' = next
          /\ cur' = IF path = "drain" THEN cur ELSE [cur EXCEPT !.tp = next]
      BY <2>2
    <3> HIDE DEF next, promised
    <3>5. promised \in CurrentThread!Times
      BY <1>0, <1>3, <2>4, <3>2, <3>3
    <3>6. /\ wanted' \in [Tasks -> CurrentThread!Times] /\ wanted'[t] = promised
          /\ \A u \in Tasks : u # t => wanted'[u] = wanted[u]
      BY <1>2, <2>3, <3>4, <3>5
    <3>7. /\ cur' \in [task : Tasks \union {NoTask}, tp : CurrentThread!Times, nr : Nat] /\ cur'.task = t
          /\ path # "drain" => cur'.tp = next
      BY <1>2, <3>1, <3>4, <3>5
    <3>8. CurrentThread!TypeOK'
      BY <1>2, <2>1, <3>1, <3>4, <3>5, <3>6, <3>7 DEF CurrentThread!TypeOK, CurrentSchedulables
    <3>9. CurrentPlaces'
      BY <1>1, <2>1, <2>3, <3>7 DEF CurrentPlaces, Busy
    <3>10. \A s \in Members(queue) : s.task \in Tasks /\ s.task # t
      BY <1>3, <2>3
    <3>11. CurrentTimes'
      BY <1>1, <2>1, <2>6, <3>1, <3>4, <3>6, <3>7, <3>10 DEF CurrentTimes, NotLater, KeepsItself, Busy
    <3>12. CurrentOrder'
      BY <1>6, <2>1
    <3> QED
      BY <3>8, <3>9, <3>11, <3>12 DEF CurrentInv
  <2> QED
    BY <2>5, <2>6
<1>23. CASE CurrentThread!DrainAgain
  <2>1. /\ pc = "again" /\ path = "drain" /\ NotLater(cur.task, due) /\ owned
        /\ UNCHANGED <<clock, kind, owned, path, disposed, status, runs, wanted>>
    BY <1>1, <1>23 DEF CurrentThread!DrainAgain, CurrentPlaces, CurrentTimes, Busy
  <2>2. CASE cur.task \in disposed
    <3>1. pc' = "drain" /\ cur' = CurrentThread!Nothing /\ due' = 0 /\ UNCHANGED queue
      BY <1>23, <2>2 DEF CurrentThread!DrainAgain
    <3> QED
      BY <1>8, <2>1, <2>2, <3>1 DEF Busy
  <2>3. CASE cur.task \notin disposed /\ queue = <<>>
    <3>1. pc' = (IF due > clock THEN "asleep" ELSE "call") /\ UNCHANGED <<cur, due, queue>>
      BY <1>23, <2>3 DEF CurrentThread!DrainAgain
    <3>2. pc' = "asleep" \/ (pc' = "call" /\ due <= clock)
      BY <1>3, <3>1
    <3> QED
      BY <1>9, <2>1, <2>3, <3>1, <3>2 DEF Busy
  <2>4. CASE cur.task \notin disposed /\ queue # <<>>
    <3>1. CurrentThread!Emplace(cur.task, due) /\ pc' = "drain" /\ cur' = CurrentThread!Nothing /\ due' = 0
      BY <1>23, <2>4 DEF CurrentThread!DrainAgain
    <3> QED
      BY <1>2, <1>7, <2>1, <3>1 DEF Busy
  <2> QED
    BY <2>2, <2>3, <2>4
<1>24. CASE CurrentThread!Pop
  <2> DEFINE top == Head(queue)
             t == top.task
  <2>1. /\ pc = "drain" /\ queue # <<>> /\ queue' = Tail(queue) /\ path' = "drain"
        /\ UNCHANGED <<clock, kind, owned, disposed, status, runs, wanted>>
    BY <1>24 DEF CurrentThread!Pop
  <2>2. /\ top \in CurrentSchedulables /\ top \in Members(queue)
        /\ queue' \in Seq(CurrentSchedulables) /\ Once(queue') /\ In(queue, t)
        /\ \A u : In(queue', u) <=> In(queue, u) /\ u # t
        /\ \A s \in Members(queue') : s \in Members(queue)
    <3>1. Once(queue)
      BY <1>1 DEF CurrentPlaces
    <3> QED
      BY <1>2, <2>1, <3>1, Taken
  <2>3. /\ Numbered(queue')
        /\ \A k \in DOMAIN queue' : top.tp < queue'[k].tp \/ (top.tp = queue'[k].tp /\ top.nr < queue'[k].nr)
    <3>1. Numbered(queue)
      BY <1>1 DEF CurrentOrder
    <3>2. /\ Numbered(Tail(queue))
          /\ \A k \in DOMAIN Tail(queue) :
               LET s == Tail(queue)[k] IN top.tp < s.tp \/ (top.tp = s.tp /\ top.nr < s.nr)
      BY <1>2, <2>1, <3>1, NumberedBehind
    <3> QED
      BY <2>1, <3>2
  <2>4. t \in disposed => UNCHANGED <<pc, cur, due>>
    BY <1>24 DEF CurrentThread!Pop
  <2>5. t \notin disposed => /\ cur' = top /\ due' = top.tp
                             /\ pc' = IF top.tp > clock THEN "asleep" ELSE "call"
    BY <1>24 DEF CurrentThread!Pop
  <2> HIDE DEF top
  <2>6. t \in Tasks /\ top.tp \in CurrentThread!Times /\ top.tp \in Nat /\ status[t] = "scheduled" /\ runs[t] < MaxRuns
        /\ top \in [task : Tasks \union {NoTask}, tp : CurrentThread!Times, nr : Nat]
    BY <1>0, <1>1, <2>2 DEF CurrentSchedulables, CurrentPlaces
  <2>7. \E n \in Nat : \A s \in Members(queue') : s.nr <= n
    BY <1>1, <2>2 DEF CurrentOrder
  <2>8. \A s \in Members(queue') : NotLater(s.task, s.tp)
    BY <1>1, <2>2 DEF CurrentTimes
  <2>9. NotLater(t, top.tp)
    BY <1>1, <2>2 DEF CurrentTimes
  <2>10. owned /\ cur.task \notin Tasks /\ ~In(queue, cur.task)
    BY <1>1, <2>1 DEF CurrentPlaces, Busy
  <2>11. CASE t \in disposed
    <3>1. CurrentThread!TypeOK'
      BY <1>2, <2>1, <2>2, <2>4, <2>11 DEF CurrentThread!TypeOK, CurrentSchedulables
    <3>2. CurrentPlaces'
      BY <1>1, <2>1, <2>2, <2>4, <2>10, <2>11 DEF CurrentPlaces, Busy
    <3>3. CurrentTimes'
      BY <2>1, <2>4, <2>8, <2>11 DEF CurrentTimes, NotLater, KeepsItself, Busy
    <3>4. CurrentOrder'
      BY <2>1, <2>3, <2>4, <2>7, <2>11 DEF CurrentOrder, CurrentThread!RunsInOrder
    <3> QED
      BY <3>1, <3>2, <3>3, <3>4 DEF CurrentInv
  <2>12. CASE t \notin disposed
    <3>0. pc' = "asleep" \/ (pc' = "call" /\ top.tp <= clock)
      BY <1>3, <2>5, <2>6, <2>12
    <3>1. CurrentThread!TypeOK'
      BY <1>2, <2>1, <2>2, <2>5, <2>6, <2>12, <3>0 DEF CurrentThread!TypeOK, CurrentSchedulables
    <3>2. CurrentPlaces'
      BY <1>1, <2>1, <2>2, <2>5, <2>6, <2>10, <2>12, <3>0 DEF CurrentPlaces, Busy
    <3>3. CurrentTimes'
      BY <2>1, <2>5, <2>8, <2>9, <2>12, <3>0 DEF CurrentTimes, NotLater, KeepsItself, Busy
    <3>4. CurrentThread!RunsInOrder'
      <4>1. \A k \in DOMAIN queue' : queue'[k].tp \in Nat /\ queue'[k].nr \in Nat
        <5>1. Members(queue') \subseteq CurrentSchedulables
          BY <2>2, MembersIn
        <5> TAKE k \in DOMAIN queue'
        <5>2. queue'[k] \in Members(queue')
          BY DEF Members
        <5>3. queue'[k] \in CurrentSchedulables
          BY <5>1, <5>2
        <5> QED
          BY <1>0, <5>3 DEF CurrentSchedulables
      <4>2. top.nr \in Nat
        BY <2>2 DEF CurrentSchedulables
      <4> QED
        BY <2>3, <2>5, <2>6, <2>12, <4>1, <4>2 DEF CurrentThread!RunsInOrder
    <3>5. CurrentOrder'
      BY <2>3, <2>7, <3>4 DEF CurrentOrder
    <3> QED
      BY <3>1, <3>2, <3>3, <3>5 DEF CurrentInv
  <2> QED
    BY <2>11, <2>12
<1> QED
  BY <1>5, <1>10, <1>11, <1>13, <1>14, <1>15, <1>16, <1>17, <1>18, <1>19, <1>20, <1>21, <1>22, <1>23, <1>24
  DEF CurrentThread!Next, CurrentThread!Thread

\* which holds to begin with,
LEMMA CurrentInit ==
  ASSUME CurrentThread!Init PROVE CurrentInv
<1> USE DEF CurrentThread!Init
<1>0. 0 \in CurrentThread!Times /\ MaxRuns \in Nat \ {0} /\ NoTask \notin Tasks /\ 0 \in 0..MaxRuns
  BY BoundsAssumption, TasksAssumption DEF CurrentThread!Times
<1>1. /\ CurrentThread!Nothing \in [task : Tasks \union {NoTask}, tp : CurrentThread!Times, nr : Nat]
      /\ CurrentThread!Nothing.task = NoTask
  BY <1>0 DEF CurrentThread!Nothing, CurrentThread!Schedulable
<1>2. <<>> \in Seq([task : Tasks, tp : CurrentThread!Times, nr : Nat])
  BY EmptySeq
<1>3. CurrentThread!TypeOK
  <2>1. [t \in Tasks |-> 0] \in [Tasks -> 0..MaxRuns] /\ [t \in Tasks |-> 0] \in [Tasks -> CurrentThread!Times]
    BY <1>0
  <2> QED
    BY <1>0, <1>1, <1>2, <2>1 DEF CurrentThread!TypeOK
<1>4. CurrentPlaces
  BY <1>0, <1>1, NothingIn DEF CurrentPlaces, Busy
<1>5. CurrentTimes
  BY NothingIn DEF CurrentTimes, Busy
<1>6. CurrentOrder
  BY NothingIn DEF CurrentOrder, Numbered, CurrentThread!RunsInOrder
<1> QED
  BY <1>3, <1>4, <1>5, <1>6 DEF CurrentInv

\* and is what the scheduler promises.
LEMMA CurrentSafe ==
  ASSUME CurrentInv
  PROVE  /\ CurrentThread!TypeOK /\ CurrentThread!NeverEarly
         /\ CurrentThread!RunsInOrder /\ CurrentThread!NothingLeftBehind
<1>1. CurrentThread!TypeOK /\ CurrentPlaces /\ CurrentTimes /\ CurrentOrder
  BY DEF CurrentInv
<1>2. CurrentThread!NeverEarly
  <2> SUFFICES ASSUME pc = "run", ~(path = "drain" /\ kind[cur.task] = "delay_from_this_timepoint")
               PROVE  clock >= wanted[cur.task]
    BY DEF CurrentThread!NeverEarly
  <2>1. due = wanted[cur.task] /\ due <= clock
    BY <1>1 DEF CurrentTimes, NotLater, KeepsItself, Busy
  <2>2. due \in Nat /\ clock \in Nat
    BY <1>1, BoundsAssumption DEF CurrentThread!TypeOK, CurrentThread!Times
  <2> QED
    BY <2>1, <2>2
<1>3. CurrentThread!NothingLeftBehind
  <2> SUFFICES ASSUME ~owned, pc = "idle"
               PROVE  queue = <<>> /\ \A t \in Tasks : status[t] = "scheduled" => t \in disposed
    BY DEF CurrentThread!NothingLeftBehind
  <2>1. queue = <<>> /\ cur.task \notin Tasks
    BY <1>1 DEF CurrentPlaces, Busy
  <2>2. \A t : ~In(queue, t)
    BY <2>1, NothingIn
  <2> QED
    BY <1>1, <2>1, <2>2 DEF CurrentPlaces
<1> QED
  BY <1>1, <1>2, <1>3 DEF CurrentOrder

-----------------------------------------------------------------------------
(* Whichever scheduler it is.                                                *)

\* A behaviour is that of one scheduler, whose inductive invariant holds.
SchedulersInv ==
  \/ scheduler = "new_thread" /\ ThreadInv
  \/ scheduler = "current_thread" /\ CurrentInv
  \/ scheduler = "run_loop" /\ LoopInv
  \/ scheduler = "test_scheduler" /\ TestInv
  \/ scheduler = "event_loop" /\ EventInv

\* It holds to begin with.
LEMMA SchedulersInit ==
  Init => SchedulersInv
BY ThreadInit, CurrentInit, LoopInit, TestInit, EventInit DEF Init, SchedulersInv

\* A step is one of the scheduler of the behaviour, or changes nothing of it.
LEMMA SchedulersStep ==
  SchedulersInv /\ [Next]_vars => SchedulersInv'
<1> SUFFICES ASSUME SchedulersInv, [Next]_vars PROVE SchedulersInv'
  OBVIOUS
<1>0. UNCHANGED scheduler
  BY DEF Next, vars
<1>1. CASE scheduler = "new_thread" /\ ThreadInv
  <2>1. NewThread!Next \/ UNCHANGED vars
    BY <1>1 DEF Next
  <2>2. [NewThread!Next]_(NewThread!vars)
    BY <2>1 DEF vars, ofNewThread, NewThread!vars, NewThread!thread, NewThread!tasks
  <2> QED
    BY <1>0, <1>1, <2>2, ThreadStep DEF SchedulersInv
<1>2. CASE scheduler = "current_thread" /\ CurrentInv
  <2>1. CurrentThread!Next \/ UNCHANGED vars
    BY <1>2 DEF Next
  <2>2. [CurrentThread!Next]_(CurrentThread!vars)
    BY <2>1 DEF vars, ofCurrentThread, ofQueues, CurrentThread!vars, CurrentThread!thread
  <2> QED
    BY <1>0, <1>2, <2>2, CurrentStep DEF SchedulersInv
<1>3. CASE scheduler = "run_loop" /\ LoopInv
  <2>1. RunLoop!Next \/ UNCHANGED vars
    BY <1>3 DEF Next
  <2>2. [RunLoop!Next]_(RunLoop!vars)
    BY <2>1 DEF vars, ofRunLoop, ofQueues, RunLoop!vars, RunLoop!dispatchers, RunLoop!tasks
  <2> QED
    BY <1>0, <1>3, <2>2, LoopStep DEF SchedulersInv
<1>4. CASE scheduler = "test_scheduler" /\ TestInv
  <2>1. TestScheduler!Next \/ UNCHANGED vars
    BY <1>4 DEF Next
  <2>2. [TestScheduler!Next]_(TestScheduler!vars)
    BY <2>1 DEF vars, ofQueues, TestScheduler!vars
  <2> QED
    BY <1>0, <1>4, <2>2, TestStep DEF SchedulersInv
<1>5. CASE scheduler = "event_loop" /\ EventInv
  <2>1. EventLoop!Next \/ UNCHANGED vars
    BY <1>5 DEF Next
  <2>2. [EventLoop!Next]_(EventLoop!vars)
    BY <2>1 DEF vars, ofEventLoop, ofQueues, EventLoop!vars, EventLoop!thread, EventLoop!tasks
  <2> QED
    BY <1>0, <1>5, <2>2, EventStep DEF SchedulersInv
<1> QED
  BY <1>1, <1>2, <1>3, <1>4, <1>5 DEF SchedulersInv

\* What the five inductive invariants promise together.
LEMMA SchedulersSafe ==
  SchedulersInv => TypeOK /\ NeverEarly /\ RunsInOrder /\ NothingLeftBehind /\ NothingOverlooked
<1>1. ASSUME scheduler = "new_thread", ThreadInv
      PROVE  TypeOK /\ NeverEarly /\ RunsInOrder /\ NothingLeftBehind /\ NothingOverlooked
  BY <1>1, ThreadSafe DEF TypeOK, NeverEarly, RunsInOrder, NothingLeftBehind, NothingOverlooked
<1>2. ASSUME scheduler = "current_thread", CurrentInv
      PROVE  TypeOK /\ NeverEarly /\ RunsInOrder /\ NothingLeftBehind /\ NothingOverlooked
  BY <1>2, CurrentSafe DEF TypeOK, NeverEarly, RunsInOrder, NothingLeftBehind, NothingOverlooked
<1>3. ASSUME scheduler = "run_loop", LoopInv
      PROVE  TypeOK /\ NeverEarly /\ RunsInOrder /\ NothingLeftBehind /\ NothingOverlooked
  BY <1>3, LoopSafe DEF TypeOK, NeverEarly, RunsInOrder, NothingLeftBehind, NothingOverlooked
<1>4. ASSUME scheduler = "test_scheduler", TestInv
      PROVE  TypeOK /\ NeverEarly /\ RunsInOrder /\ NothingLeftBehind /\ NothingOverlooked
  BY <1>4, TestSafe DEF TypeOK, NeverEarly, RunsInOrder, NothingLeftBehind, NothingOverlooked
<1>5. ASSUME scheduler = "event_loop", EventInv
      PROVE  TypeOK /\ NeverEarly /\ RunsInOrder /\ NothingLeftBehind /\ NothingOverlooked
  BY <1>5, EventSafe DEF TypeOK, NeverEarly, RunsInOrder, NothingLeftBehind, NothingOverlooked
<1> QED
  BY <1>1, <1>2, <1>3, <1>4, <1>5 DEF SchedulersInv

\* In every reachable state the invariant of the scheduler holds.
THEOREM SchedulersAlways == Spec => []SchedulersInv
BY SchedulersInit, SchedulersStep, PTL DEF Spec

\* Queues, clocks, states and stacks of calls of all five schedulers keep their types.
THEOREM SchedulersTypes == Spec => []TypeOK
<1>1. SchedulersInv => TypeOK
  BY SchedulersSafe
<1> QED
  BY <1>1, SchedulersAlways, PTL

\* No scheduler calls a schedulable before the time point it was scheduled or asked
\* to run again for, however many others are scheduled, run or disposed meanwhile; in
\* Qt it is early by less than a millisecond, and by as much in every call of a
\* schedulable that counts its delays from the call before.
THEOREM NobodyRunsEarly == Spec => []NeverEarly
<1>1. SchedulersInv => NeverEarly
  BY SchedulersSafe
<1> QED
  BY <1>1, SchedulersAlways, PTL

\* schedulables_queue of new_thread and of current_thread gives its schedulables by
\* time point, and those of one time point as they were emplaced.
THEOREM QueuesKeepTheOrder == Spec => []RunsInOrder
<1>1. SchedulersInv => RunsInOrder
  BY SchedulersSafe
<1> QED
  BY <1>1, SchedulersAlways, PTL

\* A schedulable is in one place - a queue, the hands of a dispatcher, a timer of the
\* loop, the stack of a test_scheduler - until it has finished or is disposed, and the
\* drain of current_thread, the thread of new_thread and an advance of the
\* test_scheduler's clock leave none that is due.
THEOREM NoTaskIsLost == Spec => []NothingLeftBehind
<1>1. SchedulersInv => NothingLeftBehind
  BY SchedulersSafe
<1> QED
  BY <1>1, SchedulersAlways, PTL

\* m_has_fresh_data of new_thread and the condition variable of run_loop: a queued
\* schedulable is seen without a second look, and a dispatcher does not sleep over one.
THEOREM NoQueuedTaskIsOverlooked == Spec => []NothingOverlooked
<1>1. SchedulersInv => NothingOverlooked
  BY SchedulersSafe
<1> QED
  BY <1>1, SchedulersAlways, PTL
=============================================================================
