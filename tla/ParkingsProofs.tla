--------------------------- MODULE ParkingsProofs ---------------------------
(***************************************************************************)
(* Proofs about Parkings for any number of parkings, users and concurrent  *)
(* handlers, any weekdays, dates and slots, and whatever clients ask for.  *)
(*                                                                         *)
(* The programs of the handlers are sequences put together from what was   *)
(* asked for and what was loaded, so the first lemmas are about sequences; *)
(* two of them need an induction, which rests on the well-foundedness of   *)
(* inclusion among finite sets.  There are two invariants: ParkInv says    *)
(* what handlers know, HoursInv, from it, what the tables hold of the      *)
(* hours last asked for.                                                   *)
(***************************************************************************)
EXTENDS Parkings, TLAPS, FiniteSetTheorems, SequenceTheorems, WellFoundedInduction

----------------------------------------------------------------------------
(* Sequences                                                               *)

LEMMA Upwards ==
    ASSUME NEW n \in Nat, NEW A, 0 \in A, \A m \in 0..(n-1) : m \in A => m + 1 \in A
    PROVE  0..n \subseteq A
<1> DEFINE R == StrictSubsetOrdering(0..n)
           F == FiniteSubsetsOf(0..n)
           B == {0..m : m \in (0..n) \ A}
<1>1. IsWellFoundedOn(R, F)
  BY FS_StrictSubsetOrderingWellFounded
<1>2. B \subseteq F
  <2>1. ASSUME NEW m \in 0..n PROVE 0..m \in F
    <3>1. IsFiniteSet(0..m) /\ m \in Int
      BY FS_Interval
    <3>2. 0..m \in SUBSET (0..n)
      OBVIOUS
    <3> QED
      BY <3>1, <3>2 DEF FiniteSubsetsOf
  <2> QED
    BY <2>1
<1>3. SUFFICES ASSUME B # {} PROVE FALSE
  OBVIOUS
<1>4. PICK x \in B : \A y \in B : ~ (<<y, x>> \in R)
  <2> HIDE DEF B, R, F
  <2> QED
    BY <1>1, <1>2, <1>3, WFMin
<1>5. PICK m \in (0..n) \ A : x = 0..m
  OBVIOUS
<1>6. m - 1 \in (0..n) \ A
  OBVIOUS
<1>7. 0..(m-1) \subseteq 0..m /\ m \in 0..m /\ m \notin 0..(m-1)
  BY <1>6
<1>8. <<0..(m-1), 0..m>> \in R
  BY <1>6, <1>7 DEF StrictSubsetOrdering
<1> QED
  BY <1>4, <1>5, <1>6, <1>8
  

\* The recursion inside FlattenSeq: f[i] is the concatenation of the first i of ss.
Running(f, ss, m) ==
    f = [i \in 1..m |-> IF i = 1 THEN ss[i] ELSE f[i-1] \o ss[i]]

LEMMA RunningAt ==
    ASSUME NEW ss, NEW n \in Nat, NEW f, NEW m \in 1..n, Running(f, ss, n)
    PROVE  f[m] = IF m = 1 THEN ss[m] ELSE f[m-1] \o ss[m]
<1> DEFINE d(i) == IF i = 1 THEN ss[i] ELSE f[i-1] \o ss[i]
<1>1. f = [i \in 1..n |-> d(i)]
  BY DEF Running
<1> HIDE DEF d
<1>2. f[m] = d(m)
  BY <1>1
<1> QED
  BY <1>2 DEF d

LEMMA RunningExists ==
    ASSUME NEW ss, NEW m \in Nat, NEW f, Running(f, ss, m)
    PROVE  \E g : Running(g, ss, m+1)
<1> DEFINE d(e, i) == IF i = 1 THEN ss[i] ELSE e[i-1] \o ss[i]
           g == [i \in 1..(m+1) |-> d(f, i)]
<1>1. f = [i \in 1..m |-> d(f, i)]
  BY DEF Running
<1>2. \A i \in 1..m : g[i] = f[i]
  <2> HIDE DEF d
  <2> QED
    BY <1>1
<1>3. \A i \in 1..(m+1) : d(g, i) = d(f, i)
  <2>1. \A i \in 1..(m+1) : i = 1 \/ g[i-1] = f[i-1]
    <3> HIDE DEF g
    <3> QED
      BY <1>2
  <2> HIDE DEF g
  <2> QED
    BY <2>1
<1>4. g = [i \in 1..(m+1) |-> d(g, i)]
  <2> DEFINE gg == [i \in 1..(m+1) |-> d(g, i)]
  <2>1. \A i \in 1..(m+1) : g[i] = d(f, i)
    <3> HIDE DEF d
    <3> QED
      OBVIOUS
  <2> HIDE DEF d
  <2> QED
    BY <1>3
<1>5. Running(g, ss, m+1)
  BY <1>4 DEF Running
<1> QED
  BY <1>5

\* So the CHOOSE inside FlattenSeq has something to choose.
LEMMA FlattenSeqRuns ==
    ASSUME NEW T, NEW ss \in Seq(T), Len(ss) # 0
    PROVE  \E f : Running(f, ss, Len(ss)) /\ FlattenSeq(ss) = f[Len(ss)]
<1> DEFINE n == Len(ss)
           A == {m \in 0..n : \E f : Running(f, ss, m)}
           h == CHOOSE f : Running(f, ss, n)
<1>n. n \in Nat /\ n # 0
  BY LenProperties
<1>1. FlattenSeq(ss) = h[n]
  BY <1>n DEF FlattenSeq, Running
<1> HIDE DEF n
<1>2. 0 \in A
  <2>1. Running(<<>>, ss, 0)
    BY DEF Running
  <2> QED
    BY <1>n, <2>1
<1>3. ASSUME NEW m \in 0..(n-1), m \in A PROVE m + 1 \in A
  <2>1. \E g : Running(g, ss, m+1)
    BY <1>3, RunningExists
  <2> QED
    BY <1>n, <2>1
<1>4. n \in A
  <2>1. 0..n \subseteq A
    <3> HIDE DEF A
    <3> QED
      BY <1>n, <1>2, <1>3, Upwards
  <2>2. n \in 0..n
    BY <1>n
  <2> HIDE DEF A
  <2> QED
    BY <2>1, <2>2
<1>5. Running(h, ss, n)
  BY <1>4
<1> QED
  BY <1>1, <1>5 DEF n

\* A set of sequences that has the concatenations of its members has the
\* flattening of any sequence of them.
LEMMA FlattenSeqType ==
    ASSUME NEW T, <<>> \in T, \A s, t \in T : s \o t \in T, NEW ss \in Seq(T)
    PROVE  FlattenSeq(ss) \in T
<1> DEFINE n == Len(ss)
<1>n. n \in Nat
  BY LenProperties
<1>1. CASE n = 0
  <2>1. FlattenSeq(ss) = ss
    BY <1>1 DEF FlattenSeq
  <2>2. ss = <<>>
    BY <1>1
  <2> QED
    BY <2>1, <2>2
<1>2. CASE n # 0
  <2>1. PICK h : Running(h, ss, n) /\ FlattenSeq(ss) = h[n]
    BY <1>2, FlattenSeqRuns
  <2> DEFINE B == {i \in 0..n : i = 0 \/ h[i] \in T}
  <2>2. \A i \in 1..n : ss[i] \in T
    BY ElementOfSeq
  <2> HIDE DEF n
  <2>3. ASSUME NEW i \in 0..(n-1), i \in B PROVE i + 1 \in B
    <3>1. i + 1 \in 1..n
      BY <1>n
    <3>2. h[i+1] = IF i + 1 = 1 THEN ss[i+1] ELSE h[(i+1)-1] \o ss[i+1]
      BY <1>n, <2>1, <3>1, RunningAt
    <3>3. (i + 1) - 1 = i /\ ss[i+1] \in T /\ (i + 1 = 1 \/ h[i] \in T)
      BY <1>n, <2>2, <2>3, <3>1
    <3>4. h[i+1] \in T
      BY <3>2, <3>3
    <3> QED
      BY <1>n, <3>1, <3>4
  <2>4. 0..n \subseteq B
    <3>1. 0 \in B
      BY <1>n
    <3> HIDE DEF B
    <3> QED
      BY <1>n, <3>1, <2>3, Upwards
  <2> QED
    BY <1>n, <1>2, <2>1, <2>4
<1> QED
  BY <1>1, <1>2

\* What two sequences hold, their concatenation does, and what a sequence of
\* sequences holds, its flattening does.
LEMMA RangeConcat ==
    ASSUME NEW S, NEW s \in Seq(S), NEW t \in Seq(S)
    PROVE  Range(s \o t) = Range(s) \cup Range(t)
<1>1. /\ Len(s) \in Nat /\ Len(t) \in Nat
      /\ DOMAIN s = 1..Len(s) /\ DOMAIN t = 1..Len(t)
      /\ DOMAIN (s \o t) = 1..(Len(s) + Len(t))
      /\ \A i \in 1..(Len(s) + Len(t)) :
            (s \o t)[i] = IF i <= Len(s) THEN s[i] ELSE t[i - Len(s)]
  BY ConcatProperties
<1>2. ASSUME NEW i \in 1..(Len(s) + Len(t)) PROVE (s \o t)[i] \in Range(s) \cup Range(t)
  <2>1. CASE i <= Len(s)
    BY <1>1, <2>1 DEF Range
  <2>2. CASE i > Len(s)
    <3>1. i - Len(s) \in 1..Len(t) /\ (s \o t)[i] = t[i - Len(s)]
      BY <1>1, <2>2
    <3> QED
      BY <1>1, <3>1 DEF Range
  <2> QED
    BY <1>1, <2>1, <2>2
<1>3. ASSUME NEW i \in 1..Len(s) PROVE s[i] \in Range(s \o t)
  <2>1. i \in 1..(Len(s) + Len(t)) /\ (s \o t)[i] = s[i]
    BY <1>1
  <2> QED
    BY <1>1, <2>1 DEF Range
<1>4. ASSUME NEW i \in 1..Len(t) PROVE t[i] \in Range(s \o t)
  <2>1. /\ i + Len(s) \in 1..(Len(s) + Len(t)) /\ ~(i + Len(s) <= Len(s))
        /\ (i + Len(s)) - Len(s) = i
    BY <1>1
  <2>2. (s \o t)[i + Len(s)] = t[i]
    BY <1>1, <2>1
  <2> QED
    BY <1>1, <2>1, <2>2 DEF Range
<1>5. Range(s \o t) \subseteq Range(s) \cup Range(t)
  <2> SUFFICES ASSUME NEW x \in Range(s \o t) PROVE x \in Range(s) \cup Range(t)
    OBVIOUS
  <2>1. PICK i \in 1..(Len(s) + Len(t)) : x = (s \o t)[i]
    BY <1>1 DEF Range
  <2> QED
    BY <1>2, <2>1
<1>6. Range(s) \subseteq Range(s \o t)
  <2> SUFFICES ASSUME NEW x \in Range(s) PROVE x \in Range(s \o t)
    OBVIOUS
  <2>1. PICK i \in 1..Len(s) : x = s[i]
    BY <1>1 DEF Range
  <2> QED
    BY <1>3, <2>1
<1>7. Range(t) \subseteq Range(s \o t)
  <2> SUFFICES ASSUME NEW x \in Range(t) PROVE x \in Range(s \o t)
    OBVIOUS
  <2>1. PICK i \in 1..Len(t) : x = t[i]
    BY <1>1 DEF Range
  <2> QED
    BY <1>4, <2>1
<1> QED
  BY <1>5, <1>6, <1>7

LEMMA RangeFlattenSeq ==
    ASSUME NEW S, NEW ss \in Seq(Seq(S)), NEW j \in 1..Len(ss)
    PROVE  Range(ss[j]) \subseteq Range(FlattenSeq(ss))
<1> DEFINE n == Len(ss)
<1>1. n \in Nat /\ n # 0
  BY LenProperties
<1>2. PICK h : Running(h, ss, n) /\ FlattenSeq(ss) = h[n]
  BY <1>1, FlattenSeqRuns
<1>3. \A i \in 1..n : ss[i] \in Seq(S)
  BY ElementOfSeq
<1> DEFINE B == {i \in 0..n : /\ i = 0 \/ h[i] \in Seq(S)
                              /\ i >= j => Range(ss[j]) \subseteq Range(h[i])}
<1>4. j \in 1..n
  OBVIOUS
<1> HIDE DEF n
<1>5. ASSUME NEW i \in 0..(n-1), i \in B PROVE i + 1 \in B
  <2>1. i + 1 \in 1..n /\ i + 1 \in 0..n
    BY <1>1
  <2>2. h[i+1] = IF i + 1 = 1 THEN ss[i+1] ELSE h[(i+1)-1] \o ss[i+1]
    BY <1>1, <1>2, <2>1, RunningAt
  <2>3. (i + 1) - 1 = i /\ (i + 1 = 1 <=> i = 0) /\ ss[i+1] \in Seq(S)
    BY <1>1, <1>3, <2>1
  <2>4. CASE i = 0
    <3>1. h[i+1] = ss[i+1] /\ (i + 1 >= j => i + 1 = j)
      BY <1>1, <1>4, <2>2, <2>3, <2>4
    <3> QED
      BY <2>1, <2>3, <3>1
  <2>5. CASE i # 0
    <3>1. h[i+1] = h[i] \o ss[i+1] /\ h[i] \in Seq(S)
      BY <1>5, <2>2, <2>3, <2>5
    <3>2. h[i+1] \in Seq(S) /\ Range(h[i+1]) = Range(h[i]) \cup Range(ss[i+1])
      BY <2>3, <3>1, ConcatProperties, RangeConcat
    <3>3. i + 1 >= j => i >= j \/ i + 1 = j
      BY <1>1, <1>4
    <3> QED
      BY <1>5, <2>1, <3>2, <3>3
  <2> QED
    BY <2>4, <2>5
<1>6. 0..n \subseteq B
  <2>1. 0 \in B
    BY <1>1, <1>4
  <2> HIDE DEF B
  <2> QED
    BY <1>1, <2>1, <1>5, Upwards
<1> QED
  BY <1>1, <1>2, <1>4, <1>6

LEMMA RangeHead ==
    ASSUME NEW S, NEW s \in Seq(S), s # <<>>
    PROVE  Range(s) = {Head(s)} \cup Range(Tail(s))
<1>1. /\ Len(s) \in Nat \ {0} /\ DOMAIN s = 1..Len(s)
      /\ Head(s) = s[1] /\ Tail(s) \in Seq(S)
      /\ Len(Tail(s)) = Len(s) - 1 /\ DOMAIN Tail(s) = 1..(Len(s) - 1)
      /\ \A i \in 1..(Len(s) - 1) : Tail(s)[i] = s[i+1]
  BY HeadTailProperties
<1>2. ASSUME NEW i \in 1..Len(s) PROVE s[i] \in {Head(s)} \cup Range(Tail(s))
  <2>1. CASE i = 1
    BY <1>1, <2>1
  <2>2. CASE i # 1
    <3>1. i - 1 \in 1..(Len(s) - 1) /\ (i - 1) + 1 = i
      BY <1>1, <2>2
    <3>2. Tail(s)[i-1] = s[i]
      BY <1>1, <3>1
    <3> QED
      BY <1>1, <3>1, <3>2 DEF Range
  <2> QED
    BY <2>1, <2>2
<1>3. ASSUME NEW i \in 1..(Len(s) - 1) PROVE Tail(s)[i] \in Range(s)
  <2>1. i + 1 \in 1..Len(s)
    BY <1>1
  <2> QED
    BY <1>1, <2>1 DEF Range
<1>4. Head(s) \in Range(s)
  BY <1>1 DEF Range
<1>5. Range(s) \subseteq {Head(s)} \cup Range(Tail(s))
  <2> SUFFICES ASSUME NEW x \in Range(s) PROVE x \in {Head(s)} \cup Range(Tail(s))
    OBVIOUS
  <2>1. PICK i \in 1..Len(s) : x = s[i]
    BY <1>1 DEF Range
  <2> QED
    BY <1>2, <2>1
<1>6. Range(Tail(s)) \subseteq Range(s)
  <2> SUFFICES ASSUME NEW x \in Range(Tail(s)) PROVE x \in Range(s)
    OBVIOUS
  <2>1. PICK i \in 1..(Len(s) - 1) : x = Tail(s)[i]
    BY <1>1 DEF Range
  <2> QED
    BY <1>3, <2>1
<1> QED
  BY <1>4, <1>5, <1>6

LEMMA SetToSeqType ==
    ASSUME NEW S, IsFiniteSet(S)
    PROVE  /\ DOMAIN SetToSeq(S) = 1..Cardinality(S)
           /\ \A i \in 1..Cardinality(S) : SetToSeq(S)[i] \in S
<1> DEFINE n == Cardinality(S)
<1>1. n \in Nat /\ ExistsBijection(1..n, S)
  BY FS_CardinalityType
<1>2. PICK f \in [1..n -> S] : IsInjective(f)
  BY <1>1 DEF ExistsBijection, Bijection, Injection, IsInjective
<1>3. SetToSeq(S) \in [1..n -> S]
  BY <1>2 DEF SetToSeq
<1> QED
  BY <1>1, <1>3

----------------------------------------------------------------------------
(* Programs: some opening queries, then only queries from Late, which are  *)
(* about child rows, or the removal of the parking.                        *)

Values ==
    Names \cup Days \cup [date : Dates, available : BOOLEAN, nth : Nat] \cup Prices \cup {0}
Key == {key \in Kinds \X Nat \X Values : key[1] = "suggestion" => key[3] \in Prices}
TimedKey == {key \in Key : key[1] \in Timed}

Kid == {k \in [key : Key, parking : ParkingIds, slots : SUBSET Slots, flag : BOOLEAN] :
            /\ k.slots # {} => Kind(k) \in Timed
            /\ k.flag => Kind(k) \in Flagged}

Late ==
    [do : {"insert"}, keys : {keys \in SUBSET Key : IsFiniteSet(keys)}]
        \cup [do : {"fill"}, key : TimedKey, slots : SUBSET Slots]
        \cup [do : {"clear"}, row : Kid]
        \cup [do : {"delete"}, keys : SUBSET Key]
        \cup [do : {"put"}, row : {k \in Kid : Kind(k) \in Flagged}]
        \cup [do : {"remove"}]

Early ==
    [do : {"count", "insertParking", "select", "write", "owner"}]
        \cup [do : {"load"}, price : Prices]

AnyQuery == Early \cup Late

\* A program with at most n opening queries.
LateFrom(todo, n) ==
    /\ todo \in Seq(AnyQuery)
    /\ Len(todo) >= n
    /\ \A i \in 1..Len(todo) : i > n => todo[i] \in Late

\* The suggestions a program is going to mark as applied.
Marks(todo) ==
    {todo[i].row : i \in {j \in 1..Len(todo) :
        todo[j].do = "put" /\ Kind(todo[j].row) = "suggestion" /\ todo[j].row.flag}}

\* What each query carries.
LEMMA QueryFields ==
    ASSUME NEW q \in AnyQuery
    PROVE  /\ q.do \in {"insert", "fill", "clear", "delete", "put", "remove"} <=> q \in Late
           /\ q.do = "insert" => q.keys \in SUBSET Key /\ IsFiniteSet(q.keys)
           /\ q.do = "fill" => q.key \in TimedKey /\ q.slots \subseteq Slots
           /\ q.do = "clear" => q.row \in Kid
           /\ q.do = "put" => q.row \in Kid /\ Kind(q.row) \in Flagged
           /\ q.do = "load" => q.price \in Prices
           /\ q.do \in {"count", "insertParking", "select", "write", "owner", "load",
                        "insert", "fill", "clear", "delete", "put", "remove"}
  BY DEF AnyQuery, Early, Late

LEMMA LateIsAny == Seq(Late) \subseteq Seq(AnyQuery)
  BY DEF AnyQuery

\* The program todo is s, with an opening of n queries, and t after it.
Continues(todo, s, n, t) ==
    /\ LateFrom(todo, n)
    /\ \A i \in 1..n : todo[i] = s[i]
    /\ Marks(todo) \subseteq Marks(s) \cup Marks(t)
    /\ Marks(s) = {} /\ Marks(t) = {} => Marks(todo) = {}

\* Appending late queries keeps the opening.
LEMMA LateConcat ==
    ASSUME NEW n \in Nat, NEW s, LateFrom(s, n), NEW t \in Seq(Late)
    PROVE  Continues(s \o t, s, n, t)
<1>1. s \in Seq(AnyQuery) /\ t \in Seq(AnyQuery) /\ Len(s) \in Nat /\ Len(t) \in Nat
  BY LateIsAny DEF LateFrom
<1>2. /\ s \o t \in Seq(AnyQuery)
      /\ Len(s \o t) = Len(s) + Len(t)
      /\ \A i \in 1..(Len(s) + Len(t)) :
            (s \o t)[i] = IF i <= Len(s) THEN s[i] ELSE t[i - Len(s)]
  BY <1>1, ConcatProperties
<1>3. ASSUME NEW i \in 1..Len(s \o t), i > n PROVE (s \o t)[i] \in Late
  <2>1. CASE i <= Len(s)
    BY <1>1, <1>2, <1>3, <2>1 DEF LateFrom
  <2>2. CASE i > Len(s)
    <3>1. i - Len(s) \in 1..Len(t)
      BY <1>1, <1>2, <2>2
    <3>2. t[i - Len(s)] \in Late
      BY <3>1
    <3> QED
      BY <1>1, <1>2, <2>2, <3>2
  <2> QED
    BY <1>1, <1>2, <2>1, <2>2
<1>4. ASSUME NEW r \in Marks(s \o t) PROVE r \in Marks(s) \cup Marks(t)
  <2>1. PICK i \in 1..Len(s \o t) : LET q == (s \o t)[i] IN
            r = q.row /\ q.do = "put" /\ Kind(q.row) = "suggestion" /\ q.row.flag
    BY <1>4 DEF Marks
  <2>2. CASE i <= Len(s)
    <3>1. (s \o t)[i] = s[i] /\ i \in 1..Len(s)
      BY <1>1, <1>2, <2>2
    <3> QED
      BY <2>1, <3>1 DEF Marks
  <2>3. CASE i > Len(s)
    <3>1. (s \o t)[i] = t[i - Len(s)] /\ i - Len(s) \in 1..Len(t)
      BY <1>1, <1>2, <2>3
    <3> QED
      BY <2>1, <3>1 DEF Marks
  <2> QED
    BY <1>1, <1>2, <2>2, <2>3
<1>5. Marks(s) = {} /\ Marks(t) = {} => Marks(s \o t) = {}
  BY <1>4
<1>6. Len(s \o t) >= Len(s)
  BY <1>1, <1>2
<1> QED
  BY <1>1, <1>2, <1>3, <1>4, <1>5, <1>6 DEF LateFrom, Continues

\* Going on to the next query.
LEMMA LateTail ==
    ASSUME NEW n \in Nat, NEW s, LateFrom(s, n), s # <<>>
    PROVE  /\ Head(s) = s[1] /\ Head(s) \in AnyQuery
           /\ LateFrom(Tail(s), IF n = 0 THEN 0 ELSE n - 1)
           /\ \A i \in 1..Len(Tail(s)) : Tail(s)[i] = s[i+1]
           /\ Len(Tail(s)) = Len(s) - 1
           /\ n = 0 => Head(s) \in Late
           /\ Marks(Tail(s)) \subseteq Marks(s)
<1>1. s \in Seq(AnyQuery) /\ Len(s) \in Nat \ {0}
  BY DEF LateFrom
<1>2. /\ Head(s) = s[1] /\ Head(s) \in AnyQuery
      /\ Tail(s) \in Seq(AnyQuery)
      /\ Len(Tail(s)) = Len(s) - 1
      /\ \A i \in 1..Len(Tail(s)) : Tail(s)[i] = s[i+1]
  BY <1>1, HeadTailProperties
<1>3. LateFrom(Tail(s), IF n = 0 THEN 0 ELSE n - 1)
  BY <1>1, <1>2 DEF LateFrom
<1>4. n = 0 => Head(s) \in Late
  BY <1>1, <1>2 DEF LateFrom
<1>5. Marks(Tail(s)) \subseteq Marks(s)
  BY <1>1, <1>2 DEF Marks
<1> QED
  BY <1>2, <1>3, <1>4, <1>5

\* Late queries that mark nothing.
Silent == {q \in Late : q.do # "put"}

LEMMA SilentConcat ==
    ASSUME NEW s \in Seq(Silent), NEW t \in Seq(Silent)
    PROVE  s \o t \in Seq(Silent)
  BY ConcatProperties

LEMMA SilentIsLate ==
    ASSUME NEW s \in Seq(Silent)
    PROVE  s \in Seq(Late) /\ Marks(s) = {} /\ LateFrom(s, 0)
<1>1. s \in Seq(Late) /\ s \in Seq(AnyQuery) /\ Len(s) \in Nat
  BY LateIsAny DEF Silent
<1>2. \A i \in 1..Len(s) : s[i] \in Silent
  OBVIOUS
<1>3. Marks(s) = {}
  BY <1>2 DEF Marks, Silent
<1>4. LateFrom(s, 0)
  BY <1>1, <1>2 DEF LateFrom, Silent
<1> QED
  BY <1>1, <1>3, <1>4

LEMMA InsertedType ==
    ASSUME NEW kind \in Kinds, NEW values \in SUBSET Values, IsFiniteSet(values),
           kind = "suggestion" => values \subseteq Prices, requests \in Nat
    PROVE  Inserted(kind, values) \in Seq(Silent)
<1>1. CASE values = {}
  BY <1>1 DEF Inserted
<1>2. CASE values # {}
  <2> DEFINE keys == {<<kind, requests, v>> : v \in values}
             f == [v \in values |-> <<kind, requests, v>>]
             q == [do |-> "insert", keys |-> keys]
  <2>1. keys \in SUBSET Key
    BY DEF Key
  <2>2. IsFiniteSet(keys)
    <3>1. f \in Surjection(values, keys)
      BY DEF Surjection
    <3> HIDE DEF f, keys
    <3> QED
      BY <3>1, FS_Surjection
  <2>3. q \in Silent
    <3> HIDE DEF keys
    <3> QED
      BY <2>1, <2>2 DEF Silent, Late
  <2>4. Inserted(kind, values) = <<q>>
    BY <1>2 DEF Inserted
  <2> HIDE DEF q
  <2> QED
    BY <2>3, <2>4
<1> QED
  BY <1>1, <1>2

LEMMA TimetabledType ==
    ASSUME NEW kind \in Timed, NEW value \in Values, NEW slots \in SUBSET Slots, requests \in Nat
    PROVE  Timetabled(kind, value, slots) \in Seq(Silent)
<1> DEFINE q == [do |-> "fill", key |-> <<kind, requests, value>>, slots |-> slots]
           fill == IF slots = {} THEN <<>> ELSE <<q>>
<1>1. Inserted(kind, {value}) \in Seq(Silent)
  <2>1. /\ kind \in Kinds /\ kind # "suggestion"
        /\ IsFiniteSet({value}) /\ {value} \in SUBSET Values
    BY FS_Singleton DEF Kinds, Related, Timed
  <2> QED
    BY <2>1, InsertedType
<1>2. q \in Silent
  <2>1. <<kind, requests, value>> \in TimedKey
    BY DEF TimedKey, Key, Kinds, Related, Timed
  <2> QED
    BY <2>1 DEF Silent, Late
<1>3. fill \in Seq(Silent)
  <2> HIDE DEF q
  <2> QED
    BY <1>2
<1>4. Timetabled(kind, value, slots) = Inserted(kind, {value}) \o fill
  BY DEF Timetabled
<1> HIDE DEF fill
<1> QED
  BY <1>1, <1>3, <1>4, SilentConcat

\* create and update insert the hours asked for in any number of queries.
LEMMA HoursInsertedType ==
    ASSUME NEW hours, IsHours(hours), requests \in Nat, WeekDays \in Seq(Days)
    PROVE  HoursInserted(hours) \in Seq(Silent)
<1> DEFINE day(i) == DayInserted(WeekDays[i], hours.week[WeekDays[i]])
           except(i) == ExceptionInserted(hours.exceptions[i], i)
           days == [i \in DOMAIN WeekDays |-> day(i)]
           excepts == [i \in DOMAIN hours.exceptions |-> except(i)]
<1>1. ASSUME NEW i \in DOMAIN WeekDays PROVE day(i) \in Seq(Silent)
  <2>1. WeekDays[i] \in Days /\ WeekDays[i] \in Values
    BY DEF Values
  <2>2. hours.week[WeekDays[i]] \in SUBSET Slots
    BY <2>1 DEF IsHours
  <2>3. Timetabled("schedule", WeekDays[i], hours.week[WeekDays[i]]) \in Seq(Silent)
    BY <2>1, <2>2, TimetabledType DEF Timed
  <2> QED
    BY <2>3 DEF DayInserted
<1>2. ASSUME NEW i \in DOMAIN hours.exceptions PROVE except(i) \in Seq(Silent)
  <2> DEFINE e == hours.exceptions[i]
             value == [date |-> e.date, available |-> e.available, nth |-> i]
             slots == IF e.available THEN e.slots ELSE {}
  <2>1. e \in [date : Dates, available : BOOLEAN, slots : SUBSET Slots]
    <3> DEFINE E == [date : Dates, available : BOOLEAN, slots : SUBSET Slots]
    <3>1. hours.exceptions \in Seq(E)
      BY DEF IsHours
    <3> HIDE DEF E
    <3>2. hours.exceptions[i] \in E
      BY <1>2, <3>1
    <3> QED
      BY <3>2 DEF E
  <2>2. value \in Values /\ slots \in SUBSET Slots
    BY <1>2, <2>1 DEF Values, IsHours
  <2>3. Timetabled("exception", value, slots) \in Seq(Silent)
    <3> HIDE DEF value, slots
    <3> QED
      BY <2>2, TimetabledType DEF Timed
  <2> QED
    BY <2>3 DEF ExceptionInserted
<1>3. /\ DOMAIN WeekDays = 1..Len(WeekDays) /\ Len(WeekDays) \in Nat
      /\ DOMAIN hours.exceptions = 1..Len(hours.exceptions) /\ Len(hours.exceptions) \in Nat
  BY DEF IsHours
<1>4. days \in Seq(Seq(Silent)) /\ excepts \in Seq(Seq(Silent))
  <2> HIDE DEF day, except
  <2> QED
    BY <1>1, <1>2, <1>3
<1>5. FlattenSeq(days) \in Seq(Silent) /\ FlattenSeq(excepts) \in Seq(Silent)
  <2>1. <<>> \in Seq(Silent)
    OBVIOUS
  <2> HIDE DEF days, excepts
  <2> QED
    BY <1>4, <2>1, SilentConcat, FlattenSeqType
<1>6. HoursInserted(hours) = FlattenSeq(days) \o FlattenSeq(excepts)
  BY DEF HoursInserted
<1> HIDE DEF days, excepts
<1> QED
  BY <1>5, <1>6, SilentConcat

LEMMA RemovedType ==
    ASSUME NEW rows \in SUBSET Kid, IsFiniteSet(rows), NEW kind
    PROVE  Removed(rows, kind) \in Seq(Silent)
<1> DEFINE gone == OfKind(rows, kind)
           slotted == SetToSeq({k \in gone : k.slots # {}})
           clears == [i \in DOMAIN slotted |-> [do |-> "clear", row |-> slotted[i]]]
           q == [do |-> "delete", keys |-> Keys(gone)]
<1>1. CASE gone = {}
  BY <1>1 DEF Removed
<1>2. CASE gone # {}
  <2>1. clears \in Seq(Silent)
    <3> DEFINE timed == {k \in gone : k.slots # {}}
    <3>1. timed \subseteq Kid /\ IsFiniteSet(timed)
      BY FS_Subset DEF OfKind
    <3>2. /\ DOMAIN SetToSeq(timed) = 1..Cardinality(timed)
          /\ \A i \in 1..Cardinality(timed) : SetToSeq(timed)[i] \in timed
      BY <3>1, SetToSeqType
    <3>3. Cardinality(timed) \in Nat
      BY <3>1, FS_CardinalityType
    <3>4. ASSUME NEW k \in timed PROVE [do |-> "clear", row |-> k] \in Silent
      BY <3>1, <3>4 DEF Silent, Late
    <3>6. slotted = SetToSeq(timed)
      OBVIOUS
    <3> HIDE DEF timed, slotted
    <3>5. \A i \in 1..Cardinality(timed) : slotted[i] \in timed
      BY <3>2, <3>6
    <3>7. \A i \in 1..Cardinality(timed) : clears[i] \in Silent
      BY <3>2, <3>4, <3>5, <3>6
    <3>8. DOMAIN clears = 1..Cardinality(timed)
      BY <3>2, <3>6
    <3> QED
      BY <3>3, <3>7, <3>8
  <2>2. q \in Silent
    <3>1. Keys(gone) \subseteq Key
      BY DEF Keys, OfKind, Kid
    <3> HIDE DEF gone
    <3> QED
      BY <3>1 DEF Silent, Late
  <2>3. Removed(rows, kind) = clears \o <<q>>
    BY <1>2 DEF Removed
  <2>4. <<q>> \in Seq(Silent)
    <3> HIDE DEF q
    <3> QED
      BY <2>2
  <2> HIDE DEF clears, q
  <2> QED
    BY <2>1, <2>3, <2>4, SilentConcat
<1> QED
  BY <1>1, <1>2

----------------------------------------------------------------------------
(* The invariant.  A row stays marked only because prices are never        *)
(* forgotten, so it is about what handlers that will mark one know: before *)
(* the save, that their copy has the price; after it, that the row had it, *)
(* or was gone.                                                            *)

HoursAsked == {ask.hours : ask \in Asks} \cup {Unset}

Copy == [row : Parking \cup {Absent}, kids : {rows \in SUBSET Kid : IsFiniteSet(rows)}]

Call == [todo : Seq(AnyQuery), user : Users \cup {Unset}, parking : ParkingIds \cup {NoId},
         entity : Copy, stored : Copy, hours : HoursAsked]

\* The openings of a program.
NowLate(todo) == LateFrom(todo, 0)
ChecksOwner(todo) == LateFrom(todo, 1) /\ todo[1].do = "owner"
Writes(todo) == LateFrom(todo, 1) /\ todo[1].do = "write"
Selects(todo) == LateFrom(todo, 2) /\ todo[1].do = "select" /\ todo[2].do = "write"
Loads(todo) ==
    LateFrom(todo, 3) /\ todo[1].do = "load" /\ todo[2].do = "select" /\ todo[3].do = "write"
Inserts(todo) == LateFrom(todo, 1) /\ todo[1].do = "insertParking"
Counts(todo) == LateFrom(todo, 2) /\ todo[1].do = "count" /\ todo[2].do = "insertParking"

OfParking(copy, p) == \A k \in copy.kids : k.parking = p /\ Kind(k) \in Related

MayMark(c, prices) == \A r \in Marks(c.todo) : prices[r.parking] \cap {r.key[3], Absent} # {}
WillMark(c, price) == \A r \in Marks(c.todo) : r.parking = c.parking /\ r.key[3] = price

Saving(c) ==
    /\ c.entity.row \in Parking
    /\ OfParking(c.entity, c.parking)
    /\ WillMark(c, c.entity.row.price)

\* What handler c knows, prices being those every parking has had.
Knows(c, prices) ==
    \/ c = Idle
    \/ /\ c.parking \in ParkingIds /\ prices[c.parking] # {}
       /\ \/ (NowLate(c.todo) \/ ChecksOwner(c.todo)) /\ MayMark(c, prices)
          \/ /\ Writes(c.todo) /\ Saving(c)
             /\ c.stored.row # Absent => c.stored.row.price \in prices[c.parking]
          \/ Selects(c.todo) /\ Saving(c)
          \/ Loads(c.todo) /\ WillMark(c, c.todo[1].price)
    \/ /\ c.parking = NoId /\ c.stored = Nothing /\ Marks(c.todo) = {}
       /\ Inserts(c.todo) \/ Counts(c.todo)
       /\ c.entity.row \in Parking /\ c.entity.row.owner = c.user

\* A row has had its price, and what is gone was removed.
RowsPriced ==
    \A p \in ParkingIds :
        /\ parkings[p] # Absent => parkings[p].price \in priced[p]
        /\ parkings[p] = Absent /\ priced[p] # {} => Absent \in priced[p]

KidsHang == \A k \in kids : parkings[k.parking] # Absent

Tables ==
    /\ parkings \in [ParkingIds -> Parking \cup {Absent}]
    /\ kids \in SUBSET Kid /\ IsFiniteSet(kids)
    /\ priced \in [ParkingIds -> SUBSET (Prices \cup {Absent})]
    /\ RowsPriced
    /\ KidsHang
    /\ AppliedWasSet

CallsKnow == \A h \in Handlers : Knows(calls[h], priced)

Handled ==
    /\ calls \in [Handlers -> Call]
    /\ offered \in [ParkingIds -> HoursAsked]
    /\ requests \in Nat
    /\ CallsKnow

ParkInv == Tables /\ Handled

PricesKept == \A p \in ParkingIds : priced[p] \subseteq priced'[p]

Rest(c) == [c EXCEPT !.todo = Tail(@)]

----------------------------------------------------------------------------
(* Handlers                                                                *)

LEMMA IdleFits == Idle \in Call /\ (\A prices : Knows(Idle, prices))
<1>1. Nothing \in Copy
  BY FS_EmptySet DEF Nothing, Copy
<1>2. <<>> \in Seq(AnyQuery)
  OBVIOUS
<1> QED
  BY <1>1, <1>2 DEF Idle, Call, Knows, HoursAsked

\* Prices are never forgotten, so what a handler knows stays true.
LEMMA KnowsStays ==
    ASSUME NEW c \in Call, Tables, PricesKept, Knows(c, priced)
    PROVE  Knows(c, priced')
<1>1. MayMark(c, priced) => MayMark(c, priced')
  <2>1. ASSUME NEW r \in Marks(c.todo) PROVE r.parking \in ParkingIds
    <3>1. PICK i \in 1..Len(c.todo) : r = c.todo[i].row /\ c.todo[i].do = "put"
      BY DEF Marks
    <3>2. c.todo[i] \in AnyQuery
      BY DEF Call
    <3> QED
      BY <3>1, <3>2, QueryFields DEF Kid
  <2> QED
    BY <2>1 DEF MayMark, PricesKept
<1> QED
  BY <1>1 DEF Knows, PricesKept

LEMMA HandlerMoves ==
    ASSUME Tables, Handled, PricesKept, NEW h \in Handlers, NEW c \in Call, Knows(c, priced'),
           Goto(h, c)
    PROVE  calls' \in [Handlers -> Call] /\ CallsKnow'
<1>1. calls' \in [Handlers -> Call]
  BY DEF Handled, Goto
<1>2. ASSUME NEW g \in Handlers PROVE Knows(calls'[g], priced')
  <2>1. CASE g = h
    BY <2>1 DEF Handled, Goto
  <2>2. CASE g # h
    <3>1. calls'[g] = calls[g] /\ calls[g] \in Call /\ Knows(calls[g], priced)
      BY <2>2 DEF Handled, Goto, CallsKnow
    <3> QED
      BY <3>1, KnowsStays
  <2> QED
    BY <2>1, <2>2
<1> QED
  BY <1>1, <1>2 DEF CallsKnow

\* A query is over and the tables are as they should be.
LEMMA Advanced ==
    ASSUME ParkInv, Tables', PricesKept, NEW h \in Handlers, NEW c \in Call,
           Advance(h, c), c.todo # <<>>, Knows(Rest(c), priced')
    PROVE  ParkInv'
<1> DEFINE d == IF Len(c.todo) = 1 THEN Idle ELSE [c EXCEPT !.todo = Tail(@)]
<1>1. Tables /\ Handled
  BY DEF ParkInv
<1>2. d \in Call /\ Knows(d, priced')
  <2>1. Rest(c) \in Call
    <3>1. Tail(c.todo) \in Seq(AnyQuery)
      BY HeadTailProperties DEF Call
    <3> QED
      BY <3>1 DEF Rest, Call
  <2> QED
    BY <2>1, IdleFits DEF Rest
<1>3. Goto(h, d)
  BY DEF Advance
<1>4. calls' \in [Handlers -> Call] /\ CallsKnow'
  <2> HIDE DEF d
  <2> QED
    BY <1>1, <1>2, <1>3, HandlerMoves
<1>5. offered' \in [ParkingIds -> HoursAsked]
  <2>1. offered \in [ParkingIds -> HoursAsked] /\ Forgotten \in [ParkingIds -> HoursAsked]
        /\ c.hours \in HoursAsked
    BY <1>1 DEF Handled, Forgotten, HoursAsked, Call
  <2>2. \/ offered' = offered \/ offered' = Forgotten
        \/ offered' = [offered EXCEPT ![c.parking] = c.hours]
    BY DEF Advance
  <2> QED
    BY <2>1, <2>2
<1>6. requests' = requests
  BY DEF Advance
<1> QED
  BY <1>1, <1>4, <1>5, <1>6 DEF ParkInv, Handled

\* A request ends without having changed the tables.
LEMMA Ended ==
    ASSUME ParkInv, NEW h \in Handlers, Goto(h, Idle), offered' = Forgotten,
           UNCHANGED <<parkings, kids, priced, requests>>
    PROVE  ParkInv'
<1>1. Tables /\ Handled
  BY DEF ParkInv
<1>2. Tables' /\ PricesKept
  BY <1>1 DEF Tables, RowsPriced, KidsHang, AppliedWasSet, OfKind, Kind, PricesKept
<1>3. calls' \in [Handlers -> Call] /\ CallsKnow'
  BY <1>1, <1>2, IdleFits, HandlerMoves
<1> QED
  BY <1>1, <1>2, <1>3 DEF ParkInv, Handled, Forgotten, HoursAsked

LEMMA Thrown ==
    ASSUME ParkInv, NEW h \in Handlers, Throw(h)
    PROVE  ParkInv'
  BY Ended DEF Throw

\* A request is accepted, whose handler knows what it has to.
LEMMA Accepted ==
    ASSUME ParkInv, NEW h \in Handlers, NEW op, NEW hit, NEW c \in Call, Knows(c, priced),
           Accept(h, op, hit, c)
    PROVE  ParkInv'
<1>1. Tables /\ Handled
  BY DEF ParkInv
<1>2. UNCHANGED <<parkings, kids, priced>> /\ Goto(h, c) /\ requests' = requests + 1
  BY DEF Accept
<1>3. Tables' /\ PricesKept
  BY <1>1, <1>2 DEF Tables, RowsPriced, KidsHang, AppliedWasSet, OfKind, Kind, PricesKept
<1>4. Knows(c, priced')
  BY <1>2
<1>5. calls' \in [Handlers -> Call] /\ CallsKnow'
  BY <1>1, <1>2, <1>3, <1>4, HandlerMoves
<1>6. offered' \in [ParkingIds -> HoursAsked]
  BY <1>1 DEF Accept, Handled, HoursAsked
<1> QED
  BY <1>1, <1>2, <1>3, <1>5, <1>6 DEF ParkInv, Handled

----------------------------------------------------------------------------
(* Requests                                                                *)

\* Two queries to begin with, and silent ones after them.
OpensWith(todo, a, b) ==
    LateFrom(todo, 2) /\ todo[1] = a /\ todo[2] = b /\ Marks(todo) = {}

LEMMA OpeningOfTwo ==
    ASSUME NEW a \in AnyQuery, NEW b \in AnyQuery, a.do # "put", b.do # "put",
           NEW s1 \in Seq(Silent), NEW s2 \in Seq(Silent), NEW s3 \in Seq(Silent)
    PROVE  OpensWith(((<<a, b>> \o s1) \o s2) \o s3, a, b)
<1> DEFINE t0 == <<a, b>>
           t1 == t0 \o s1
           t2 == t1 \o s2
           t3 == t2 \o s3
<1>1. LateFrom(t0, 2) /\ t0[1] = a /\ t0[2] = b /\ Marks(t0) = {}
  BY DEF LateFrom, Marks
<1>2. /\ s1 \in Seq(Late) /\ Marks(s1) = {}
      /\ s2 \in Seq(Late) /\ Marks(s2) = {}
      /\ s3 \in Seq(Late) /\ Marks(s3) = {}
  BY SilentIsLate
<1>3. t3 = ((<<a, b>> \o s1) \o s2) \o s3
  OBVIOUS
<1> HIDE DEF t0
<1>4. Continues(t1, t0, 2, s1)
  BY <1>1, <1>2, LateConcat
<1> HIDE DEF t1
<1>5. LateFrom(t1, 2) /\ t1[1] = a /\ t1[2] = b /\ Marks(t1) = {}
  BY <1>1, <1>2, <1>4 DEF Continues
<1>6. Continues(t2, t1, 2, s2)
  BY <1>2, <1>5, LateConcat
<1> HIDE DEF t2
<1>7. LateFrom(t2, 2) /\ t2[1] = a /\ t2[2] = b /\ Marks(t2) = {}
  BY <1>2, <1>5, <1>6 DEF Continues
<1>8. Continues(t3, t2, 2, s3)
  BY <1>2, <1>7, LateConcat
<1> HIDE DEF t3
<1>9. OpensWith(t3, a, b)
  BY <1>2, <1>7, <1>8 DEF Continues, OpensWith
<1> QED
  BY <1>3, <1>9

\* What is asked for is inserted by silent queries.
LEMMA AskInserted ==
    ASSUME NEW ask \in Asks, requests \in Nat
    PROVE  /\ ask.feature # Unset => Inserted("feature", ask.feature) \in Seq(Silent)
           /\ ask.photo # Unset => Inserted("photo", ask.photo) \in Seq(Silent)
           /\ ask.hours # Unset => HoursInserted(ask.hours) \in Seq(Silent)
<1>1. \A names \in {ask.feature, ask.photo} \ {Unset} :
            names \in SUBSET Values /\ IsFiniteSet(names)
  BY ParkConstants DEF Values
<1>2. "feature" \in Kinds /\ "photo" \in Kinds
  BY DEF Kinds, Related
<1>3. ask.feature # Unset => Inserted("feature", ask.feature) \in Seq(Silent)
  BY <1>1, <1>2, InsertedType
<1>4. ask.photo # Unset => Inserted("photo", ask.photo) \in Seq(Silent)
  BY <1>1, <1>2, InsertedType
<1>5. ask.hours # Unset => HoursInserted(ask.hours) \in Seq(Silent)
  BY HoursInsertedType, ParkConstants
<1> QED
  BY <1>3, <1>4, <1>5

LEMMA CreateStepsType ==
    ASSUME NEW ask \in Asks, requests \in Nat
    PROVE  Counts(CreateSteps(ask)) /\ Marks(CreateSteps(ask)) = {}
<1> DEFINE a == [do |-> "count"]
           b == [do |-> "insertParking"]
           s1 == IF ask.feature = Unset THEN <<>> ELSE Inserted("feature", ask.feature)
           s2 == IF ask.photo = Unset THEN <<>> ELSE Inserted("photo", ask.photo)
           s3 == IF ask.hours = Unset THEN <<>> ELSE HoursInserted(ask.hours)
<1>1. s1 \in Seq(Silent) /\ s2 \in Seq(Silent) /\ s3 \in Seq(Silent)
  BY AskInserted
<1>2. a \in AnyQuery /\ b \in AnyQuery /\ a.do = "count" /\ b.do = "insertParking"
  BY DEF AnyQuery, Early
<1>3. CreateSteps(ask) = ((<<a, b>> \o s1) \o s2) \o s3
  BY DEF CreateSteps
<1> HIDE DEF a, b, s1, s2, s3
<1>4. OpensWith(CreateSteps(ask), a, b)
  BY <1>1, <1>2, <1>3, OpeningOfTwo
<1> QED
  BY <1>2, <1>4 DEF Counts, OpensWith

LEMMA UpdateStepsType ==
    ASSUME NEW ask \in Asks, requests \in Nat, NEW rows \in SUBSET Kid, IsFiniteSet(rows)
    PROVE  Selects(UpdateSteps(rows, ask)) /\ Marks(UpdateSteps(rows, ask)) = {}
<1> DEFINE a == [do |-> "select"]
           b == [do |-> "write"]
           s1 == IF ask.feature = Unset THEN <<>>
                 ELSE Removed(rows, "feature") \o Inserted("feature", ask.feature)
           s2 == IF ask.photo = Unset THEN <<>>
                 ELSE Removed(rows, "photo") \o Inserted("photo", ask.photo)
           s3 == IF ask.hours = Unset THEN <<>>
                 ELSE HoursRemoved(rows) \o HoursInserted(ask.hours)
           todo == UpdateSteps(rows, ask)
<1>1. s1 \in Seq(Silent) /\ s2 \in Seq(Silent) /\ s3 \in Seq(Silent)
  <2>1. /\ Removed(rows, "feature") \in Seq(Silent) /\ Removed(rows, "photo") \in Seq(Silent)
        /\ Removed(rows, "schedule") \in Seq(Silent) /\ Removed(rows, "exception") \in Seq(Silent)
    BY RemovedType
  <2>2. HoursRemoved(rows) \in Seq(Silent)
    BY <2>1, SilentConcat DEF HoursRemoved
  <2> QED
    BY <2>1, <2>2, AskInserted, SilentConcat
<1>2. a \in AnyQuery /\ b \in AnyQuery /\ a.do = "select" /\ b.do = "write"
  BY DEF AnyQuery, Early
<1>3. todo = ((<<a, b>> \o s1) \o s2) \o s3
  BY DEF UpdateSteps, SaveParking
<1> HIDE DEF a, b, s1, s2, s3, todo
<1>4. OpensWith(todo, a, b)
  BY <1>1, <1>2, <1>3, OpeningOfTwo
<1> QED
  BY <1>2, <1>4 DEF Selects, OpensWith, todo

LEMMA ApplyStepsType ==
    ASSUME NEW k \in Kid, Kind(k) = "suggestion", k.key[3] \in Prices
    PROVE  LET todo == ApplySteps(k)
           IN  /\ Loads(todo) /\ todo[1].price = k.key[3]
               /\ \A r \in Marks(todo) : r.parking = k.parking /\ r.key[3] = k.key[3]
<1> DEFINE l == [do |-> "load", price |-> k.key[3]]
           a == [do |-> "select"]
           b == [do |-> "write"]
           row == [k EXCEPT !.flag = TRUE]
           q == [do |-> "put", row |-> row]
           t0 == <<l>> \o <<a, b>>
           todo == ApplySteps(k)
<1>1. /\ l \in AnyQuery /\ l.do = "load" /\ l.price = k.key[3]
      /\ a \in AnyQuery /\ a.do = "select"
      /\ b \in AnyQuery /\ b.do = "write"
  BY DEF AnyQuery, Early
<1>2. /\ row \in Kid /\ row.parking = k.parking /\ row.key = k.key
      /\ Kind(row) \in Flagged
  BY DEF Kid, Kind, Flagged
<1>3. q \in Late /\ q.do = "put" /\ q.row = row
  <2> HIDE DEF row
  <2> QED
    BY <1>2 DEF Late
<1>4. todo = t0 \o <<q>>
  BY DEF ApplySteps, SaveParking
<1> HIDE DEF l, a, b, row, q, todo
<1>5. /\ t0 \in Seq(AnyQuery) /\ Len(t0) = 3
      /\ t0[1] = l /\ t0[2] = a /\ t0[3] = b
  BY <1>1
<1> HIDE DEF t0
<1>6. LateFrom(t0, 3) /\ Marks(t0) = {}
  BY <1>1, <1>5 DEF LateFrom, Marks
<1>7. <<q>> \in Seq(Late) /\ Marks(<<q>>) \subseteq {row}
  BY <1>3 DEF Marks
<1>8. LateFrom(todo, 3) /\ (\A i \in 1..3 : todo[i] = t0[i]) /\ Marks(todo) \subseteq {row}
  <2>1. Continues(todo, t0, 3, <<q>>)
    BY <1>4, <1>6, <1>7, LateConcat
  <2> QED
    BY <1>6, <1>7, <2>1 DEF Continues
<1>9. todo[1] = l /\ todo[2] = a /\ todo[3] = b
  BY <1>5, <1>8
<1> QED
  BY <1>1, <1>2, <1>8, <1>9 DEF Loads, todo

\* What findOne answers.
LEMMA LoadedFits ==
    ASSUME ParkInv, NEW p \in ParkingIds
    PROVE  /\ Loaded(p) \in Copy
           /\ OfParking(Loaded(p), p)
           /\ Loaded(p).row = parkings[p]
           /\ parkings[p] # Absent =>
                parkings[p] \in Parking /\ priced[p] # {} /\ parkings[p].price \in priced[p]
<1> DEFINE rows == {k \in kids : k.parking = p /\ Kind(k) \in Related}
<1>1. rows \in SUBSET Kid /\ IsFiniteSet(rows)
  BY FS_Subset DEF ParkInv, Tables
<1>2. Loaded(p) = [row |-> parkings[p], kids |-> rows]
  BY DEF Loaded
<1>3. OfParking(Loaded(p), p)
  BY <1>2 DEF OfParking
<1>4. parkings[p] \in Parking \cup {Absent}
  BY DEF ParkInv, Tables
<1> HIDE DEF rows
<1>5. Loaded(p) \in Copy
  BY <1>1, <1>2, <1>4 DEF Copy
<1> QED
  BY <1>2, <1>3, <1>4, <1>5 DEF ParkInv, Tables, RowsPriced

\* A handler with nothing but late queries that mark nothing.
LEMMA LateFits ==
    ASSUME ParkInv, NEW c, NEW todo, NEW u, NEW p \in ParkingIds,
           c = [Idle EXCEPT !.todo = todo, !.user = u, !.parking = p],
           u \in Users \cup {Unset}, priced[p] # {},
           NowLate(todo) \/ ChecksOwner(todo), Marks(todo) = {}
    PROVE  c \in Call /\ Knows(c, priced)
<1>1. /\ c = [todo |-> todo, user |-> u, parking |-> p, entity |-> Nothing,
              stored |-> Nothing, hours |-> Unset]
      /\ todo \in Seq(AnyQuery)
  BY DEF Idle, NowLate, ChecksOwner, LateFrom
<1>2. Nothing \in Copy
  BY FS_EmptySet DEF Nothing, Copy
<1>3. c \in Call
  BY <1>1, <1>2 DEF Call, HoursAsked
<1>4. MayMark(c, priced)
  BY <1>1 DEF MayMark
<1> QED
  BY <1>1, <1>3, <1>4 DEF Knows

LEMMA CreateKeeps ==
    ASSUME ParkInv, NEW h \in Handlers, NEW u \in Users, NEW ask \in Asks, Create(h, u, ask)
    PROVE  ParkInv'
<1> DEFINE row == [owner |-> u, price |-> ask.price]
           c == [Idle EXCEPT !.todo = CreateSteps(ask), !.user = u, !.hours = ask.hours,
                             !.entity.row = row]
<1>1. row \in Parking /\ row.owner = u
  BY ParkConstants DEF Create, Parking
<1>2. Counts(CreateSteps(ask)) /\ Marks(CreateSteps(ask)) = {}
  BY CreateStepsType DEF ParkInv, Handled
<1>6. Accept(h, "create", {}, c)
  BY DEF Create
<1>4. Nothing \in Copy /\ [row |-> row, kids |-> {}] \in Copy
  BY <1>1, FS_EmptySet DEF Nothing, Copy
<1> HIDE DEF row
<1> DEFINE entity == [Nothing EXCEPT !.row = row]
           d == [Idle EXCEPT !.todo = CreateSteps(ask), !.user = u, !.hours = ask.hours,
                             !.entity = entity]
<1>3. c = d /\ entity \in Copy /\ entity.row = row
  BY <1>4 DEF Idle, Nothing
<1>5. CreateSteps(ask) \in Seq(AnyQuery) /\ ask.hours \in HoursAsked
  BY <1>2 DEF Counts, LateFrom, HoursAsked
<1> HIDE DEF entity, c
<1>7. d \in Call
  BY <1>3, <1>5, IdleFits DEF Call
<1>8. /\ d.todo = CreateSteps(ask) /\ d.user = u /\ d.parking = NoId /\ d.entity = entity
      /\ d.stored = Nothing
  BY IdleFits DEF Call, Idle
<1> HIDE DEF d
<1>9. Knows(d, priced)
  BY <1>1, <1>2, <1>3, <1>8 DEF Knows
<1> QED
  BY <1>3, <1>6, <1>7, <1>9, Accepted

LEMMA UpdateKeeps ==
    ASSUME ParkInv, NEW h \in Handlers, NEW p \in ParkingIds, NEW ask \in Asks, Update(h, p, ask)
    PROVE  ParkInv'
<1> DEFINE e == Loaded(p)
           entity == IF ask.price = Unset THEN e ELSE [e EXCEPT !.row.price = ask.price]
           todo == UpdateSteps(e.kids, ask)
           owner == parkings[p].owner
           c == [Idle EXCEPT !.todo = todo, !.user = owner, !.parking = p, !.hours = ask.hours,
                             !.entity = entity]
           hit == IF ask.hours = Unset THEN {} ELSE {p}
<1>1. /\ e \in Copy /\ OfParking(e, p) /\ e.row = parkings[p]
      /\ parkings[p] \in Parking /\ priced[p] # {}
  BY LoadedFits DEF Update
<1>2. Accept(h, "update", hit, c)
  BY DEF Update
<1> HIDE DEF hit
<1>3. Selects(todo) /\ Marks(todo) = {} /\ todo \in Seq(AnyQuery)
  <2>1. e.kids \in SUBSET Kid /\ IsFiniteSet(e.kids)
    BY <1>1 DEF Copy
  <2>2. Selects(todo) /\ Marks(todo) = {}
    <3> HIDE DEF e
    <3> QED
      BY <2>1, UpdateStepsType DEF ParkInv, Handled
  <2> QED
    BY <2>2 DEF Selects, LateFrom
<1>4. entity \in Copy /\ OfParking(entity, p) /\ entity.row \in Parking
  <2> HIDE DEF e
  <2>1. ASSUME ask.price # Unset
        PROVE  LET d == [e EXCEPT !.row.price = ask.price]
               IN  d.row \in Parking /\ d.kids = e.kids /\ d \in Copy
    <3> DEFINE row == [e.row EXCEPT !.price = ask.price]
    <3>1. row \in Parking
      BY <1>1, <2>1, ParkConstants DEF Parking
    <3>2. [e EXCEPT !.row.price = ask.price] = [row |-> row, kids |-> e.kids]
      BY <1>1 DEF Copy
    <3> HIDE DEF row
    <3> QED
      BY <1>1, <3>1, <3>2 DEF Copy
  <2> QED
    BY <1>1, <2>1 DEF OfParking
<1>5. owner \in Users
  BY <1>1 DEF Parking
<1>7. Nothing \in Copy /\ ask.hours \in HoursAsked
  BY FS_EmptySet DEF Nothing, Copy, HoursAsked
<1> HIDE DEF todo, entity, owner, e
<1>8. c \in Call
  BY <1>3, <1>4, <1>5, <1>7, IdleFits DEF Call
<1>6. c.todo = todo /\ c.parking = p /\ c.entity = entity
  BY IdleFits DEF Call
<1> HIDE DEF c
<1>9. Saving(c) /\ Selects(c.todo) /\ c.parking = p
  BY <1>3, <1>4, <1>6 DEF Saving, WillMark
<1>10. Knows(c, priced)
  BY <1>1, <1>9 DEF Knows
<1> QED
  BY <1>2, <1>8, <1>10, Accepted

LEMMA RemoveParkingKeeps ==
    ASSUME ParkInv, NEW h \in Handlers, NEW p \in ParkingIds, RemoveParking(h, p)
    PROVE  ParkInv'
<1> DEFINE q == [do |-> "remove"]
           c == [Idle EXCEPT !.todo = <<q>>, !.user = parkings[p].owner, !.parking = p]
<1>1. Accept(h, "remove", {}, c)
  BY DEF RemoveParking
<1>2. parkings[p].owner \in Users /\ priced[p] # {}
  BY LoadedFits DEF RemoveParking, Parking
<1>3. q \in Silent
  BY DEF Silent, Late
<1>4. <<q>> \in Seq(Silent)
  <2> HIDE DEF q
  <2> QED
    BY <1>3
<1> HIDE DEF q
<1>5. c \in Call /\ Knows(c, priced)
  BY <1>2, <1>4, SilentIsLate, LateFits DEF NowLate
<1> HIDE DEF c
<1> QED
  BY <1>1, <1>5, Accepted

LEMMA CreateRuleKeeps ==
    ASSUME ParkInv, NEW h \in Handlers, NEW p \in ParkingIds, CreateRule(h, p)
    PROVE  ParkInv'
<1> DEFINE todo == Inserted("rule", {0})
           c == [Idle EXCEPT !.todo = todo, !.user = parkings[p].owner, !.parking = p]
<1>1. Accept(h, "rule", {}, c)
  BY DEF CreateRule
<1>2. parkings[p].owner \in Users /\ priced[p] # {}
  BY LoadedFits DEF CreateRule, Parking
<1>3. todo \in Seq(Silent)
  <2>1. {0} \in SUBSET Values /\ "rule" \in Kinds /\ IsFiniteSet({0}) /\ requests \in Nat
    BY FS_Singleton DEF Values, Kinds, Related, ParkInv, Handled
  <2> QED
    BY <2>1, InsertedType
<1> HIDE DEF todo
<1>4. c \in Call /\ Knows(c, priced)
  BY <1>2, <1>3, SilentIsLate, LateFits DEF NowLate
<1> HIDE DEF c
<1> QED
  BY <1>1, <1>4, Accepted

\* What hangs from a parking hangs from one that was created.
LEMMA KidFits ==
    ASSUME ParkInv, NEW k \in kids
    PROVE  k \in Kid /\ k.parking \in ParkingIds /\ priced[k.parking] # {}
<1>1. k \in Kid /\ k.parking \in ParkingIds /\ parkings[k.parking] # Absent
  BY DEF ParkInv, Tables, KidsHang, Kid
<1> QED
  BY <1>1, LoadedFits

LEMMA OwnerFirst ==
    ASSUME NEW q \in Late, q.do = "put" => Kind(q.row) # "suggestion"
    PROVE  /\ ChecksOwner(<<[do |-> "owner"], q>>)
           /\ Marks(<<[do |-> "owner"], q>>) = {}
<1> DEFINE o == [do |-> "owner"]
           todo == <<o, q>>
<1>1. o \in AnyQuery /\ q \in AnyQuery /\ o.do = "owner"
  BY DEF AnyQuery, Early
<1> HIDE DEF o
<1>2. todo \in Seq(AnyQuery) /\ Len(todo) = 2 /\ todo[1] = o /\ todo[2] = q
  BY <1>1
<1> HIDE DEF todo
<1>3. ChecksOwner(todo)
  BY <1>1, <1>2 DEF ChecksOwner, LateFrom
<1>4. Marks(todo) = {}
  BY <1>1, <1>2 DEF Marks
<1> QED
  BY <1>3, <1>4 DEF todo, o

LEMMA ChangeRuleKeeps ==
    ASSUME ParkInv, NEW h \in Handlers, NEW u \in Users, NEW k \in OfKind(kids, "rule"),
           NEW active \in BOOLEAN, ChangeRule(h, u, k, active)
    PROVE  ParkInv'
<1> DEFINE row == [k EXCEPT !.flag = active]
           q == [do |-> "put", row |-> row]
           todo == <<[do |-> "owner"], q>>
           c == [Idle EXCEPT !.todo = todo, !.user = u, !.parking = k.parking]
<1>1. Accept(h, "rule", {}, c)
  BY DEF ChangeRule
<1>2. k \in kids /\ Kind(k) = "rule"
  BY DEF OfKind
<1>3. k \in Kid /\ k.parking \in ParkingIds /\ priced[k.parking] # {}
  BY <1>2, KidFits
<1>4. row \in Kid /\ Kind(row) = "rule"
  BY <1>2, <1>3 DEF Kid, Kind, Flagged
<1>5. q \in Late /\ (q.do = "put" => Kind(q.row) # "suggestion")
  <2> HIDE DEF row
  <2> QED
    BY <1>4 DEF Late, Flagged
<1> HIDE DEF q
<1>6. ChecksOwner(todo) /\ Marks(todo) = {}
  BY <1>5, OwnerFirst
<1> HIDE DEF todo
<1>7. c \in Call /\ Knows(c, priced)
  BY <1>3, <1>6, LateFits
<1> HIDE DEF c
<1> QED
  BY <1>1, <1>7, Accepted

LEMMA RemoveRuleKeeps ==
    ASSUME ParkInv, NEW h \in Handlers, NEW u \in Users, NEW k \in OfKind(kids, "rule"),
           RemoveRule(h, u, k)
    PROVE  ParkInv'
<1> DEFINE q == [do |-> "delete", keys |-> {k.key}]
           todo == <<[do |-> "owner"], q>>
           c == [Idle EXCEPT !.todo = todo, !.user = u, !.parking = k.parking]
<1>1. Accept(h, "rule", {}, c)
  BY DEF RemoveRule
<1>2. k \in Kid /\ k.parking \in ParkingIds /\ priced[k.parking] # {}
  BY KidFits DEF OfKind
<1>3. q \in Late /\ (q.do = "put" => Kind(q.row) # "suggestion")
  BY <1>2 DEF Late, Kid
<1> HIDE DEF q
<1>4. ChecksOwner(todo) /\ Marks(todo) = {}
  BY <1>3, OwnerFirst
<1> HIDE DEF todo
<1>5. c \in Call /\ Knows(c, priced)
  BY <1>2, <1>4, LateFits
<1> HIDE DEF c
<1> QED
  BY <1>1, <1>5, Accepted

LEMMA SuggestPriceKeeps ==
    ASSUME ParkInv, NEW h \in Handlers, NEW p \in ParkingIds, NEW price \in Prices,
           SuggestPrice(h, p, price)
    PROVE  ParkInv'
<1> DEFINE todo == Inserted("suggestion", {price})
           c == [Idle EXCEPT !.todo = todo, !.parking = p]
<1>1. Accept(h, "price", {}, c)
  BY DEF SuggestPrice
<1>2. priced[p] # {}
  BY LoadedFits DEF SuggestPrice
<1>3. todo \in Seq(Silent)
  <2>1. /\ {price} \in SUBSET Values /\ {price} \subseteq Prices /\ "suggestion" \in Kinds
        /\ IsFiniteSet({price}) /\ requests \in Nat
    BY FS_Singleton DEF Values, Kinds, ParkInv, Handled
  <2> QED
    BY <2>1, InsertedType
<1> HIDE DEF todo
<1>4. NowLate(todo) /\ Marks(todo) = {} /\ todo \in Seq(AnyQuery)
  BY <1>3, SilentIsLate DEF NowLate, LateFrom
<1>5. c \in Call /\ c.todo = todo /\ c.parking = p
  BY <1>4, IdleFits DEF Call
<1> HIDE DEF c
<1>6. Knows(c, priced)
  BY <1>2, <1>4, <1>5 DEF Knows, MayMark
<1> QED
  BY <1>1, <1>5, <1>6, Accepted

LEMMA ApplyPriceSuggestionKeeps ==
    ASSUME ParkInv, NEW h \in Handlers, NEW k \in OfKind(kids, "suggestion"),
           ApplyPriceSuggestion(h, k)
    PROVE  ParkInv'
<1> DEFINE todo == ApplySteps(k)
           c == [Idle EXCEPT !.todo = todo, !.parking = k.parking]
<1>1. Accept(h, "price", {}, c)
  BY DEF ApplyPriceSuggestion
<1>2. k \in Kid /\ Kind(k) = "suggestion" /\ k.parking \in ParkingIds /\ priced[k.parking] # {}
  BY KidFits DEF OfKind
<1>3. k.key[3] \in Prices
  BY <1>2 DEF Kid, Kind, Key
<1>4. /\ Loads(todo) /\ todo[1].price = k.key[3]
      /\ \A r \in Marks(todo) : r.parking = k.parking /\ r.key[3] = k.key[3]
  BY <1>2, <1>3, ApplyStepsType
<1> HIDE DEF todo
<1>5. todo \in Seq(AnyQuery)
  BY <1>4 DEF Loads, LateFrom
<1>6. c \in Call /\ c.todo = todo /\ c.parking = k.parking
  BY <1>2, <1>5, IdleFits DEF Call
<1> HIDE DEF c
<1>7. Knows(c, priced)
  BY <1>2, <1>4, <1>6 DEF Knows, WillMark
<1> QED
  BY <1>1, <1>6, <1>7, Accepted

----------------------------------------------------------------------------
(* Queries                                                                 *)

\* What a handler knows when it comes to a query.
LEMMA KnowsAt ==
    ASSUME ParkInv, NEW h \in Handlers, NEW s, At(h, s)
    PROVE  LET c == calls[h]
           IN  /\ c \in Call /\ c.todo # <<>> /\ Query(h) = c.todo[1] /\ Query(h) \in AnyQuery
               /\ Query(h).do = s
               /\ s \notin {"insertParking", "count"} =>
                    c.parking \in ParkingIds /\ priced[c.parking] # {}
               /\ s \in {"insert", "fill", "clear", "delete", "put", "remove"} =>
                    NowLate(c.todo) /\ MayMark(c, priced)
               /\ s = "owner" => ChecksOwner(c.todo) /\ MayMark(c, priced)
               /\ s = "write" =>
                    /\ Writes(c.todo) /\ Saving(c)
                    /\ c.stored.row # Absent => c.stored.row.price \in priced[c.parking]
               /\ s = "select" => Selects(c.todo) /\ Saving(c)
               /\ s = "load" => Loads(c.todo) /\ WillMark(c, c.todo[1].price)
               /\ s \in {"insertParking", "count"} =>
                    /\ c.parking = NoId /\ c.stored = Nothing /\ Marks(c.todo) = {}
                    /\ c.entity.row \in Parking /\ c.entity.row.owner = c.user
               /\ s = "insertParking" => Inserts(c.todo)
               /\ s = "count" => Counts(c.todo)
<1> DEFINE c == calls[h]
<1>1. /\ c \in Call /\ Knows(c, priced) /\ c # Idle
      /\ c.todo # <<>> /\ c.todo \in Seq(AnyQuery)
  BY DEF ParkInv, Handled, CallsKnow, At, Call, Idle
<1>2. Query(h) = c.todo[1] /\ Query(h) \in AnyQuery /\ Query(h).do = s
  BY <1>1, HeadTailProperties DEF Query, At
<1>3. NowLate(c.todo) => s \in {"insert", "fill", "clear", "delete", "put", "remove"}
  BY <1>1, <1>2, QueryFields DEF NowLate, LateFrom
<1> HIDE DEF c
<1>4. /\ ChecksOwner(c.todo) => s = "owner"
      /\ Writes(c.todo) => s = "write"
      /\ Selects(c.todo) => s = "select"
      /\ Loads(c.todo) => s = "load"
      /\ Inserts(c.todo) => s = "insertParking"
      /\ Counts(c.todo) => s = "count"
  BY <1>2 DEF ChecksOwner, Writes, Selects, Loads, Inserts, Counts
<1>5. /\ s \notin {"insertParking", "count"} => c.parking \in ParkingIds /\ priced[c.parking] # {}
      /\ s \in {"insertParking", "count"} =>
            /\ c.parking = NoId /\ c.stored = Nothing /\ Marks(c.todo) = {}
            /\ c.entity.row \in Parking /\ c.entity.row.owner = c.user
  BY <1>1, <1>3, <1>4 DEF Knows
<1>6. /\ s \in {"insert", "fill", "clear", "delete", "put", "remove"} =>
            NowLate(c.todo) /\ MayMark(c, priced)
      /\ s = "owner" => ChecksOwner(c.todo) /\ MayMark(c, priced)
  BY <1>1, <1>3, <1>4 DEF Knows
<1>7. /\ s = "write" =>
            /\ Writes(c.todo) /\ Saving(c)
            /\ c.stored.row # Absent => c.stored.row.price \in priced[c.parking]
      /\ s = "select" => Selects(c.todo) /\ Saving(c)
      /\ s = "load" => Loads(c.todo) /\ WillMark(c, c.todo[1].price)
      /\ s = "insertParking" => Inserts(c.todo)
      /\ s = "count" => Counts(c.todo)
  BY <1>1, <1>3, <1>4 DEF Knows
<1> QED
  BY <1>1, <1>2, <1>5, <1>6, <1>7 DEF c

\* After a query about child rows, or that only checks, late ones follow.
LEMMA LateRest ==
    ASSUME NEW c \in Call, NEW prices, c.todo # <<>>,
           NowLate(c.todo) \/ ChecksOwner(c.todo) \/ Writes(c.todo) \/ Inserts(c.todo),
           c.parking \in ParkingIds, prices[c.parking] # {}, MayMark(c, prices)
    PROVE  Knows(Rest(c), prices)
<1>1. LateFrom(c.todo, 0) \/ LateFrom(c.todo, 1)
  BY DEF NowLate, ChecksOwner, Writes, Inserts
<1>2. NowLate(Tail(c.todo)) /\ Marks(Tail(c.todo)) \subseteq Marks(c.todo)
  BY <1>1, LateTail DEF NowLate
<1>3. Rest(c).todo = Tail(c.todo) /\ Rest(c).parking = c.parking
  BY DEF Rest, Call
<1>4. MayMark(Rest(c), prices)
  BY <1>2, <1>3 DEF MayMark
<1> QED
  BY <1>2, <1>3, <1>4 DEF Knows

\* Rows of the child tables have changed, and only these.
LEMMA KidsChanged ==
    ASSUME ParkInv, NEW h \in Handlers,
           At(h, "insert") \/ At(h, "fill") \/ At(h, "clear") \/ At(h, "delete") \/ At(h, "put"),
           Advance(h, calls[h]), UNCHANGED <<parkings, priced>>,
           kids' \in SUBSET Kid, IsFiniteSet(kids'),
           \A k \in kids' : parkings[k.parking] # Absent,
           \A k \in kids' : Kind(k) = "suggestion" /\ k.flag =>
                priced[k.parking] \cap {k.key[3], Absent} # {}
    PROVE  ParkInv'
<1>1. PICK s \in {"insert", "fill", "clear", "delete", "put"} : At(h, s)
  OBVIOUS
<1> DEFINE c == calls[h]
<1>2. /\ c \in Call /\ c.todo # <<>> /\ NowLate(c.todo)
      /\ c.parking \in ParkingIds /\ priced[c.parking] # {} /\ MayMark(c, priced)
  BY <1>1, KnowsAt
<1> HIDE DEF c
<1>3. Knows(Rest(c), priced')
  BY <1>2, LateRest
<1>4. Tables' /\ PricesKept
  <2>1. KidsHang' /\ AppliedWasSet'
    BY DEF KidsHang, AppliedWasSet, OfKind, Kind
  <2> QED
    BY <2>1 DEF ParkInv, Tables, RowsPriced, PricesKept
<1> QED
  BY <1>2, <1>3, <1>4, Advanced DEF c

LEMMA CountKeeps ==
    ASSUME ParkInv, NEW h \in Handlers, CountParkings(h)
    PROVE  ParkInv'
<1>1. CASE Throw(h)
  BY <1>1, Thrown
<1>2. CASE Advance(h, calls[h]) /\ UNCHANGED <<parkings, kids, priced>>
  <2> DEFINE c == calls[h]
  <2>1. /\ c \in Call /\ c.todo # <<>> /\ Counts(c.todo)
        /\ c.parking = NoId /\ c.stored = Nothing /\ Marks(c.todo) = {}
        /\ c.entity.row \in Parking /\ c.entity.row.owner = c.user
    BY KnowsAt DEF CountParkings
  <2> HIDE DEF c
  <2>2. Inserts(Tail(c.todo)) /\ Marks(Tail(c.todo)) = {}
    <3>1. LateFrom(c.todo, 2) /\ c.todo[2].do = "insertParking" /\ Len(c.todo) \in Nat
      BY <2>1 DEF Counts, LateFrom
    <3>2. /\ LateFrom(Tail(c.todo), 1)
          /\ \A i \in 1..Len(Tail(c.todo)) : Tail(c.todo)[i] = c.todo[i+1]
          /\ Len(Tail(c.todo)) = Len(c.todo) - 1
          /\ Marks(Tail(c.todo)) \subseteq Marks(c.todo)
      BY <2>1, <3>1, LateTail
    <3>3. Tail(c.todo)[1] = c.todo[2]
      BY <3>1, <3>2 DEF LateFrom
    <3> QED
      BY <2>1, <3>1, <3>2, <3>3 DEF Inserts
  <2>3. /\ Rest(c).todo = Tail(c.todo) /\ Rest(c).parking = c.parking
        /\ Rest(c).entity = c.entity /\ Rest(c).stored = c.stored
        /\ Rest(c).user = c.user
    BY <2>1 DEF Rest, Call
  <2>4. Knows(Rest(c), priced')
    BY <2>1, <2>2, <2>3 DEF Knows
  <2>5. Tables' /\ PricesKept
    BY <1>2 DEF ParkInv, Tables, RowsPriced, KidsHang, AppliedWasSet, OfKind, Kind, PricesKept
  <2> QED
    BY <1>2, <2>1, <2>4, <2>5, Advanced DEF c
<1> QED
  BY <1>1, <1>2 DEF CountParkings

LEMMA OwnerKeeps ==
    ASSUME ParkInv, NEW h \in Handlers, CheckOwner(h)
    PROVE  ParkInv'
<1>1. CASE Throw(h)
  BY <1>1, Thrown
<1>2. CASE Advance(h, calls[h]) /\ UNCHANGED <<parkings, kids, priced>>
  <2> DEFINE c == calls[h]
  <2>1. /\ c \in Call /\ c.todo # <<>> /\ ChecksOwner(c.todo)
        /\ c.parking \in ParkingIds /\ priced[c.parking] # {} /\ MayMark(c, priced)
    BY KnowsAt DEF CheckOwner
  <2> HIDE DEF c
  <2>2. Knows(Rest(c), priced')
    BY <1>2, <2>1, LateRest
  <2>3. Tables' /\ PricesKept
    BY <1>2 DEF ParkInv, Tables, RowsPriced, KidsHang, AppliedWasSet, OfKind, Kind, PricesKept
  <2> QED
    BY <1>2, <2>1, <2>2, <2>3, Advanced DEF c
<1> QED
  BY <1>1, <1>2 DEF CheckOwner

LEMMA InsertKidsKeeps ==
    ASSUME ParkInv, NEW h \in Handlers, InsertKids(h)
    PROVE  ParkInv'
<1>1. CASE Throw(h)
  BY <1>1, Thrown
<1>2. CASE /\ parkings[calls[h].parking] # Absent
           /\ kids' = kids \cup Fresh(calls[h], Query(h).keys)
           /\ Advance(h, calls[h])
           /\ UNCHANGED <<parkings, priced>>
  <2> DEFINE c == calls[h]
             keys == Query(h).keys
             new == Fresh(c, keys)
  <2>1. At(h, "insert")
    BY DEF InsertKids
  <2>2. c.parking \in ParkingIds /\ keys \in SUBSET Key /\ IsFiniteSet(keys)
    BY <2>1, KnowsAt, QueryFields
  <2> HIDE DEF c, keys
  <2>3. new \in SUBSET Kid
    <3>1. ASSUME NEW key \in keys
          PROVE  [key |-> key, parking |-> c.parking, slots |-> {}, flag |-> key[1] = "rule"]
                    \in Kid
      BY <2>2 DEF Kid, Kind, Flagged
    <3> QED
      BY <3>1 DEF Fresh
  <2>4. IsFiniteSet(new)
    <3> DEFINE row(key) == [key |-> key, parking |-> c.parking, slots |-> {},
                            flag |-> key[1] = "rule"]
               f == [key \in keys |-> row(key)]
    <3>1. new = {row(key) : key \in keys}
      BY DEF Fresh
    <3> HIDE DEF row
    <3>2. f \in Surjection(keys, new)
      BY <3>1 DEF Surjection
    <3> HIDE DEF f, new
    <3> QED
      BY <2>2, <3>2, FS_Surjection
  <2>5. ASSUME NEW k \in new PROVE k.parking = c.parking /\ (Kind(k) = "suggestion" => ~k.flag)
    <3>1. PICK key \in keys : k = [key |-> key, parking |-> c.parking, slots |-> {},
                                   flag |-> key[1] = "rule"]
      BY DEF Fresh
    <3>2. Kind(k) = key[1] /\ k.flag = (key[1] = "rule") /\ k.parking = c.parking
      BY <3>1 DEF Kind
    <3> QED
      BY <3>2
  <2> HIDE DEF new
  <2>6. kids' = kids \cup new
    BY <1>2 DEF c, keys, new
  <2>7. kids' \in SUBSET Kid /\ IsFiniteSet(kids')
    BY <2>3, <2>4, <2>6, FS_Union DEF ParkInv, Tables
  <2>8. \A k \in kids' : parkings[k.parking] # Absent
    BY <1>2, <2>5, <2>6 DEF c, ParkInv, Tables, KidsHang
  <2>9. \A k \in kids' : Kind(k) = "suggestion" /\ k.flag =>
            priced[k.parking] \cap {k.key[3], Absent} # {}
    BY <2>5, <2>6 DEF ParkInv, Tables, AppliedWasSet, OfKind
  <2> QED
    BY <1>2, <2>1, <2>7, <2>8, <2>9, KidsChanged
<1> QED
  BY <1>1, <1>2 DEF InsertKids

\* Only the slots of some rows have changed.
SlotsOnly(f, rows) ==
    /\ f \in [rows -> Kid]
    /\ \A k \in rows : f[k].key = k.key /\ f[k].parking = k.parking /\ f[k].flag = k.flag

\* Rows made of others, of which they keep everything but the slots.
MadeOf(new, rows) ==
    /\ new \in SUBSET Kid
    /\ IsFiniteSet(new)
    /\ \A k \in new : \E m \in rows :
            k.key = m.key /\ k.parking = m.parking /\ k.flag = m.flag

LEMMA SlotsChanged ==
    ASSUME NEW rows \in SUBSET Kid, IsFiniteSet(rows), NEW f, SlotsOnly(f, rows),
           NEW new, \A k : k \in new <=> \E m \in rows : k = f[m]
    PROVE  MadeOf(new, rows)
<1>1. new \in SUBSET Kid
  BY DEF SlotsOnly
<1>2. IsFiniteSet(new)
  <2>1. f \in Surjection(rows, new)
    BY DEF SlotsOnly, Surjection
  <2> QED
    BY <2>1, FS_Surjection
<1> QED
  BY <1>1, <1>2 DEF SlotsOnly, MadeOf

\* Tables whose rows have other slots.
LEMMA SlotsKeep ==
    ASSUME ParkInv, NEW h \in Handlers, At(h, "fill") \/ At(h, "clear"),
           Advance(h, calls[h]), UNCHANGED <<parkings, priced>>,
           NEW f, SlotsOnly(f, kids), kids' = {f[k] : k \in kids}
    PROVE  ParkInv'
<1>1. /\ kids' \in SUBSET Kid /\ IsFiniteSet(kids')
      /\ \A k \in kids' : \E m \in kids :
            k.key = m.key /\ k.parking = m.parking /\ k.flag = m.flag
  <2>1. kids \in SUBSET Kid /\ IsFiniteSet(kids)
    BY DEF ParkInv, Tables
  <2>2. \A k : k \in kids' <=> \E m \in kids : k = f[m]
    OBVIOUS
  <2>3. MadeOf(kids', kids)
    BY <2>1, <2>2, SlotsChanged
  <2> QED
    BY <2>3 DEF MadeOf
<1>2. \A k \in kids' : parkings[k.parking] # Absent
  BY <1>1 DEF ParkInv, Tables, KidsHang
<1>3. ASSUME NEW k \in kids', Kind(k) = "suggestion", k.flag
      PROVE  priced[k.parking] \cap {k.key[3], Absent} # {}
  <2>1. PICK m \in kids : k.key = m.key /\ k.parking = m.parking /\ k.flag = m.flag
    BY <1>1
  <2> QED
    BY <1>3, <2>1 DEF ParkInv, Tables, AppliedWasSet, OfKind, Kind
<1> QED
  BY <1>1, <1>2, <1>3, KidsChanged

LEMMA FillKeeps ==
    ASSUME ParkInv, NEW h \in Handlers, FillSlots(h)
    PROVE  ParkInv'
<1>1. CASE Throw(h)
  BY <1>1, Thrown
<1>2. CASE /\ kids' = {IF k.key = Query(h).key
                       THEN [k EXCEPT !.slots = @ \cup Query(h).slots] ELSE k : k \in kids}
           /\ Advance(h, calls[h])
           /\ UNCHANGED <<parkings, priced>>
  <2> DEFINE key == Query(h).key
             slots == Query(h).slots
             g(k) == IF k.key = key THEN [k EXCEPT !.slots = @ \cup slots] ELSE k
             f == [k \in kids |-> g(k)]
  <2>1. At(h, "fill")
    BY DEF FillSlots
  <2>2. key \in TimedKey /\ slots \subseteq Slots
    BY <2>1, KnowsAt, QueryFields
  <2> HIDE DEF key, slots
  <2>3. ASSUME NEW k \in Kid
        PROVE  g(k) \in Kid /\ g(k).key = k.key /\ g(k).parking = k.parking /\ g(k).flag = k.flag
    <3>1. CASE k.key = key
      BY <2>2, <3>1 DEF Kid, Kind, TimedKey
    <3> QED
      BY <3>1
  <2>4. kids' = {g(k) : k \in kids}
    BY <1>2 DEF key, slots
  <2> HIDE DEF g
  <2>5. SlotsOnly(f, kids) /\ kids' = {f[k] : k \in kids}
    BY <2>3, <2>4 DEF SlotsOnly, ParkInv, Tables
  <2> HIDE DEF f
  <2> QED
    BY <1>2, <2>1, <2>5, SlotsKeep
<1> QED
  BY <1>1, <1>2 DEF FillSlots

LEMMA ClearKeeps ==
    ASSUME ParkInv, NEW h \in Handlers, ClearSlots(h)
    PROVE  ParkInv'
<1> DEFINE row == Query(h).row
           g(k) == IF k.key = row.key THEN [k EXCEPT !.slots = @ \ row.slots] ELSE k
           f == [k \in kids |-> g(k)]
<1>1. /\ At(h, "clear") /\ Advance(h, calls[h]) /\ UNCHANGED <<parkings, priced>>
      /\ kids' = {g(k) : k \in kids}
  BY DEF ClearSlots
<1> HIDE DEF row
<1>2. ASSUME NEW k \in Kid
      PROVE  g(k) \in Kid /\ g(k).key = k.key /\ g(k).parking = k.parking /\ g(k).flag = k.flag
  BY DEF Kid, Kind
<1> HIDE DEF g
<1>3. SlotsOnly(f, kids) /\ kids' = {f[k] : k \in kids}
  BY <1>1, <1>2 DEF SlotsOnly, ParkInv, Tables
<1> HIDE DEF f
<1> QED
  BY <1>1, <1>3, SlotsKeep

LEMMA DeleteKidsKeeps ==
    ASSUME ParkInv, NEW h \in Handlers, DeleteKids(h)
    PROVE  ParkInv'
<1>1. /\ At(h, "delete") /\ Advance(h, calls[h])
      /\ UNCHANGED <<parkings, priced>> /\ kids' \subseteq kids
  BY DEF DeleteKids
<1>2. kids' \in SUBSET Kid /\ IsFiniteSet(kids')
  BY <1>1, FS_Subset DEF ParkInv, Tables
<1>3. \A k \in kids' : parkings[k.parking] # Absent
  BY <1>1 DEF ParkInv, Tables, KidsHang
<1>4. \A k \in kids' : Kind(k) = "suggestion" /\ k.flag =>
            priced[k.parking] \cap {k.key[3], Absent} # {}
  BY <1>1 DEF ParkInv, Tables, AppliedWasSet, OfKind
<1> QED
  BY <1>1, <1>2, <1>3, <1>4, KidsChanged

LEMMA PutKeeps ==
    ASSUME ParkInv, NEW h \in Handlers, PutKid(h)
    PROVE  ParkInv'
<1> DEFINE c == calls[h]
           row == Query(h).row
<1>1. CASE Throw(h)
  BY <1>1, Thrown
<1>2. CASE /\ parkings[row.parking] # Absent
           /\ kids' = {k \in kids : k.key # row.key} \cup {row}
           /\ Advance(h, calls[h])
           /\ UNCHANGED <<parkings, priced>>
  <2>1. At(h, "put")
    BY DEF PutKid
  <2>2. row \in Kid /\ NowLate(c.todo) /\ MayMark(c, priced) /\ Query(h) = c.todo[1]
        /\ Query(h).do = "put" /\ c.todo # <<>>
    BY <2>1, KnowsAt, QueryFields
  <2>3. Kind(row) = "suggestion" /\ row.flag => row \in Marks(c.todo)
    <3>1. 1 \in 1..Len(c.todo)
      BY <2>2 DEF NowLate, LateFrom
    <3> QED
      BY <2>2, <3>1 DEF Marks
  <2>4. Kind(row) = "suggestion" /\ row.flag =>
            priced[row.parking] \cap {row.key[3], Absent} # {}
    BY <2>2, <2>3 DEF MayMark
  <2> HIDE DEF row, c
  <2>5. kids' \in SUBSET Kid /\ IsFiniteSet(kids')
    <3>1. IsFiniteSet({k \in kids : k.key # row.key})
      BY FS_Subset DEF ParkInv, Tables
    <3> QED
      BY <1>2, <2>2, <3>1, FS_AddElement DEF ParkInv, Tables
  <2>6. \A k \in kids' : parkings[k.parking] # Absent
    BY <1>2 DEF ParkInv, Tables, KidsHang
  <2>7. \A k \in kids' : Kind(k) = "suggestion" /\ k.flag =>
            priced[k.parking] \cap {k.key[3], Absent} # {}
    BY <1>2, <2>4 DEF ParkInv, Tables, AppliedWasSet, OfKind
  <2> QED
    BY <1>2, <2>1, <2>5, <2>6, <2>7, KidsChanged
<1> QED
  BY <1>1, <1>2 DEF PutKid

\* Nothing in the tables has changed, and handler d goes on.
LEMMA TablesStay ==
    ASSUME ParkInv, UNCHANGED <<parkings, kids, priced>>
    PROVE  Tables' /\ PricesKept
  BY DEF ParkInv, Tables, RowsPriced, KidsHang, AppliedWasSet, OfKind, Kind, PricesKept

LEMMA LoadKeeps ==
    ASSUME ParkInv, NEW h \in Handlers, LoadParking(h)
    PROVE  ParkInv'
<1> DEFINE c == calls[h]
           p == c.parking
           price == Query(h).price
           e == [Loaded(p) EXCEPT !.row.price = price]
           d == [c EXCEPT !.entity = e]
<1>1. CASE Throw(h)
  BY <1>1, Thrown
<1>2. CASE parkings[p] # Absent /\ Advance(h, d) /\ UNCHANGED <<parkings, kids, priced>>
  <2>1. At(h, "load")
    BY DEF LoadParking
  <2>2. /\ c \in Call /\ c.todo # <<>> /\ p \in ParkingIds /\ priced[p] # {}
        /\ Loads(c.todo) /\ WillMark(c, price) /\ price \in Prices
    BY <2>1, KnowsAt, QueryFields
  <2>3. Loaded(p) \in Copy /\ OfParking(Loaded(p), p) /\ Loaded(p).row \in Parking
    BY <1>2, <2>2, LoadedFits
  <2> DEFINE l == Loaded(p)
             row == [l.row EXCEPT !.price = price]
  <2> HIDE DEF l, price
  <2>4. row \in Parking /\ row.price = price
    BY <2>2, <2>3 DEF Parking, l
  <2>5. e = [row |-> row, kids |-> l.kids]
    BY <2>3 DEF Copy, l
  <2> HIDE DEF row, e
  <2>6. e \in Copy /\ OfParking(e, p) /\ e.row \in Parking /\ e.row.price = price
    BY <2>3, <2>4, <2>5 DEF Copy, OfParking, l
  <2>7. /\ d \in Call /\ d.todo = c.todo /\ d.parking = p /\ d.entity = e
    BY <2>2, <2>6 DEF Call
  <2>9. Tables' /\ PricesKept
    BY <1>2, TablesStay
  <2>10. Advance(h, d) /\ priced' = priced
    BY <1>2
  <2> HIDE DEF c, d
  <2>8. /\ LateFrom(c.todo, 3) /\ c.todo[2].do = "select" /\ c.todo[3].do = "write"
        /\ Len(c.todo) \in Nat /\ Len(c.todo) >= 3
    BY <2>2 DEF Loads, LateFrom
  <2>11. /\ LateFrom(Tail(c.todo), 2)
         /\ \A i \in 1..Len(Tail(c.todo)) : Tail(c.todo)[i] = c.todo[i+1]
         /\ Len(Tail(c.todo)) = Len(c.todo) - 1
         /\ Marks(Tail(c.todo)) \subseteq Marks(c.todo)
    BY <2>2, <2>8, LateTail
  <2>12. Tail(c.todo)[1] = c.todo[2] /\ Tail(c.todo)[2] = c.todo[3]
    BY <2>8, <2>11
  <2>13. Selects(Tail(c.todo))
    BY <2>8, <2>11, <2>12 DEF Selects
  <2>14. Rest(d).todo = Tail(c.todo) /\ Rest(d).parking = p /\ Rest(d).entity = e
    BY <2>7 DEF Rest, Call
  <2>15. Saving(Rest(d))
    BY <2>2, <2>6, <2>11, <2>14 DEF Saving, WillMark, p
  <2>16. Knows(Rest(d), priced')
    BY <2>2, <2>10, <2>13, <2>14, <2>15 DEF Knows, p
  <2> QED
    BY <2>2, <2>7, <2>9, <2>10, <2>16, Advanced
<1> QED
  BY <1>1, <1>2 DEF LoadParking

LEMMA SelectKeeps ==
    ASSUME ParkInv, NEW h \in Handlers, SelectParking(h)
    PROVE  ParkInv'
<1> DEFINE c == calls[h]
           p == c.parking
           s == Loaded(p)
           d == [c EXCEPT !.stored = s]
<1>1. At(h, "select") /\ Advance(h, d) /\ UNCHANGED <<parkings, kids, priced>>
  BY DEF SelectParking
<1>2. /\ c \in Call /\ c.todo # <<>> /\ p \in ParkingIds /\ priced[p] # {}
      /\ Selects(c.todo) /\ Saving(c)
  BY <1>1, KnowsAt
<1>3. s \in Copy /\ (s.row # Absent => s.row.price \in priced[p])
  BY <1>2, LoadedFits
<1> HIDE DEF s
<1>4. d \in Call /\ d.todo = c.todo /\ d.parking = p /\ d.entity = c.entity /\ d.stored = s
  BY <1>2, <1>3 DEF Call
<1>5. Tables' /\ PricesKept
  BY <1>1, TablesStay
<1> HIDE DEF c, d
<1>6. LateFrom(c.todo, 2) /\ c.todo[2].do = "write" /\ Len(c.todo) \in Nat /\ Len(c.todo) >= 2
  BY <1>2 DEF Selects, LateFrom
<1>7. /\ LateFrom(Tail(c.todo), 1)
      /\ \A i \in 1..Len(Tail(c.todo)) : Tail(c.todo)[i] = c.todo[i+1]
      /\ Len(Tail(c.todo)) = Len(c.todo) - 1
      /\ Marks(Tail(c.todo)) \subseteq Marks(c.todo)
  BY <1>2, <1>6, LateTail
<1>8. Tail(c.todo)[1] = c.todo[2]
  BY <1>6, <1>7
<1>9. Writes(Tail(c.todo))
  BY <1>6, <1>7, <1>8 DEF Writes
<1>10. /\ Rest(d).todo = Tail(c.todo) /\ Rest(d).parking = p
       /\ Rest(d).entity = c.entity /\ Rest(d).stored = s
  BY <1>4 DEF Rest, Call
<1>11. Saving(Rest(d))
  BY <1>2, <1>7, <1>10 DEF Saving, WillMark, p
<1>12. Knows(Rest(d), priced')
  BY <1>1, <1>2, <1>3, <1>9, <1>10, <1>11 DEF Knows, p
<1> QED
  BY <1>1, <1>2, <1>4, <1>5, <1>12, Advanced

\* A row of the table changes.
LEMMA Stored ==
    ASSUME ParkInv, NEW p \in ParkingIds, NEW row \in Parking \cup {Absent}, Store(p, row)
    PROVE  /\ parkings' \in [ParkingIds -> Parking \cup {Absent}]
           /\ parkings' = [parkings EXCEPT ![p] = row]
           /\ priced' \in [ParkingIds -> SUBSET (Prices \cup {Absent})]
           /\ PricesKept
           /\ RowsPriced'
           /\ priced'[p] # {}
           /\ row # Absent => row.price \in priced'[p]
           /\ row = Absent => Absent \in priced'[p]
<1> DEFINE new == IF row = Absent THEN Absent ELSE row.price
<1>1. /\ parkings \in [ParkingIds -> Parking \cup {Absent}]
      /\ priced \in [ParkingIds -> SUBSET (Prices \cup {Absent})]
  BY DEF ParkInv, Tables
<1>2. parkings' = [parkings EXCEPT ![p] = row] /\ priced' = [priced EXCEPT ![p] = @ \cup {new}]
  BY DEF Store
<1>3. new \in Prices \cup {Absent}
  BY DEF Parking
<1> HIDE DEF new
<1>4. /\ parkings' \in [ParkingIds -> Parking \cup {Absent}]
      /\ priced' \in [ParkingIds -> SUBSET (Prices \cup {Absent})]
      /\ PricesKept
      /\ new \in priced'[p]
  BY <1>1, <1>2, <1>3 DEF PricesKept
<1>5. ASSUME NEW q \in ParkingIds
      PROVE  /\ parkings'[q] # Absent => parkings'[q].price \in priced'[q]
             /\ parkings'[q] = Absent /\ priced'[q] # {} => Absent \in priced'[q]
  <2>1. CASE q = p
    BY <1>1, <1>2, <1>4, <2>1 DEF new
  <2>2. CASE q # p
    <3>1. parkings'[q] = parkings[q] /\ priced'[q] = priced[q]
      BY <1>1, <1>2, <2>2
    <3> QED
      BY <3>1 DEF ParkInv, Tables, RowsPriced
  <2> QED
    BY <2>1, <2>2
<1> QED
  BY <1>2, <1>4, <1>5 DEF RowsPriced, new

\* What was marked stays so, as prices are not forgotten.
LEMMA MarkedStays ==
    ASSUME ParkInv, PricesKept, NEW k \in kids, Kind(k) = "suggestion", k.flag
    PROVE  priced'[k.parking] \cap {k.key[3], Absent} # {}
<1>1. priced[k.parking] \cap {k.key[3], Absent} # {} /\ k.parking \in ParkingIds
  BY KidFits DEF ParkInv, Tables, AppliedWasSet, OfKind
<1> QED
  BY <1>1 DEF PricesKept

LEMMA InsertParkingKeeps ==
    ASSUME ParkInv, NEW h \in Handlers, NEW p \in ParkingIds, InsertParking(h, p)
    PROVE  ParkInv'
<1> DEFINE c == calls[h]
           row == c.entity.row
           d == [c EXCEPT !.parking = p, !.entity = Nothing]
<1>1. At(h, "insertParking") /\ Store(p, row) /\ Advance(h, d) /\ kids' = kids
  BY DEF InsertParking
<1>2. /\ c \in Call /\ c.todo # <<>> /\ Inserts(c.todo) /\ Marks(c.todo) = {}
      /\ row \in Parking
  BY <1>1, KnowsAt
<1>3. Nothing \in Copy
  BY FS_EmptySet DEF Nothing, Copy
<1>4. d \in Call /\ d.todo = c.todo /\ d.parking = p
  BY <1>2, <1>3 DEF Call
<1> HIDE DEF row, d, c
<1>5. /\ parkings' \in [ParkingIds -> Parking \cup {Absent}]
      /\ parkings' = [parkings EXCEPT ![p] = row]
      /\ priced' \in [ParkingIds -> SUBSET (Prices \cup {Absent})]
      /\ PricesKept /\ RowsPriced' /\ priced'[p] # {}
  BY <1>1, <1>2, Stored
<1>6. KidsHang'
  BY <1>1, <1>2, <1>5, KidFits, AbsentIsNoParking DEF KidsHang, ParkInv, Tables
<1>7. AppliedWasSet'
  <2>1. ASSUME NEW k \in kids, Kind(k) = "suggestion", k.flag
        PROVE  priced'[k.parking] \cap {k.key[3], Absent} # {}
    BY <1>5, <2>1, MarkedStays
  <2> QED
    BY <1>1, <2>1 DEF AppliedWasSet, OfKind, Kind
<1>8. Tables'
  BY <1>1, <1>5, <1>6, <1>7 DEF Tables, ParkInv
<1>9. Knows(Rest(d), priced')
  <2>1. MayMark(d, priced')
    BY <1>2, <1>4 DEF MayMark
  <2> QED
    BY <1>2, <1>4, <1>5, <2>1, LateRest
<1> QED
  BY <1>1, <1>2, <1>4, <1>5, <1>8, <1>9, Advanced

LEMMA DeleteParkingKeeps ==
    ASSUME ParkInv, NEW h \in Handlers, DeleteParking(h)
    PROVE  ParkInv'
<1> DEFINE c == calls[h]
           p == c.parking
<1>1. /\ At(h, "remove") /\ Store(p, Absent) /\ Advance(h, c)
      /\ kids' = {k \in kids : k.parking # p}
  BY DEF DeleteParking
<1>2. /\ c \in Call /\ c.todo # <<>> /\ p \in ParkingIds /\ NowLate(c.todo) /\ MayMark(c, priced)
      /\ Knows(c, priced)
  BY <1>1, KnowsAt DEF ParkInv, Handled, CallsKnow
<1> HIDE DEF c
<1>3. /\ parkings' \in [ParkingIds -> Parking \cup {Absent}]
      /\ parkings' = [parkings EXCEPT ![p] = Absent]
      /\ priced' \in [ParkingIds -> SUBSET (Prices \cup {Absent})]
      /\ PricesKept /\ RowsPriced' /\ priced'[p] # {}
  BY <1>1, <1>2, Stored
<1>4. kids' \in SUBSET Kid /\ IsFiniteSet(kids')
  BY <1>1, FS_Subset DEF ParkInv, Tables
<1>5. KidsHang'
  <2>1. ASSUME NEW k \in kids' PROVE parkings'[k.parking] # Absent
    <3>1. k \in kids /\ k.parking # p /\ k.parking \in ParkingIds
      BY <1>1, KidFits
    <3> QED
      BY <1>3, <3>1 DEF ParkInv, Tables, KidsHang
  <2> QED
    BY <2>1 DEF KidsHang
<1>6. AppliedWasSet'
  <2>1. ASSUME NEW k \in kids, Kind(k) = "suggestion", k.flag
        PROVE  priced'[k.parking] \cap {k.key[3], Absent} # {}
    BY <1>3, <2>1, MarkedStays
  <2> QED
    BY <1>1, <2>1 DEF AppliedWasSet, OfKind, Kind
<1>7. Tables'
  BY <1>3, <1>4, <1>5, <1>6 DEF Tables
<1>8. Knows(Rest(c), priced')
  <2>1. \A r \in Marks(c.todo) : r.parking \in ParkingIds
    <3>1. \A i \in 1..Len(c.todo) : c.todo[i] \in AnyQuery
      BY <1>2 DEF Call
    <3> QED
      BY <3>1, QueryFields DEF Marks, Kid
  <2>2. MayMark(c, priced')
    BY <1>2, <1>3, <2>1 DEF MayMark, PricesKept
  <2> QED
    BY <1>2, <1>3, <2>2, LateRest
<1> QED
  BY <1>1, <1>2, <1>3, <1>7, <1>8, Advanced

LEMMA FailKeeps ==
    ASSUME ParkInv, NEW h \in Handlers, Fail(h)
    PROVE  ParkInv'
  BY Ended DEF Fail

\* The children after a save of e that found s: rows of before with other
\* slots, and rows of the copy.
LEMMA ReslottedFits ==
    ASSUME NEW e, NEW s, NEW k \in Kid, e.kids \in SUBSET Kid
    PROVE  /\ Reslotted(k, e, s) \in Kid
           /\ Reslotted(k, e, s).key = k.key
           /\ Reslotted(k, e, s).parking = k.parking
           /\ Reslotted(k, e, s).flag = k.flag
<1>1. CASE k.key \notin Keys(Both(e, s))
  BY <1>1 DEF Reslotted
<1>2. CASE k.key \in Keys(Both(e, s))
  <2> DEFINE new == TheRow(e.kids, k.key).slots
             old == TheRow(s.kids, k.key).slots
             slots == (k.slots \ (old \ new)) \cup (new \ old)
  <2>1. PICK b \in e.kids : b.key = k.key /\ Kind(b) \in Timed
    BY <1>2 DEF Both, Keys
  <2>2. TheRow(e.kids, k.key) \in e.kids
    BY <2>1 DEF TheRow
  <2>3. new \subseteq Slots
    BY <2>2 DEF Kid
  <2>4. Kind(k) \in Timed
    BY <2>1 DEF Kind
  <2> HIDE DEF new, old
  <2>5. slots \subseteq Slots
    BY <2>3 DEF Kid
  <2>6. Reslotted(k, e, s) = [k EXCEPT !.slots = slots]
    BY <1>2 DEF Reslotted, new, old
  <2> HIDE DEF slots
  <2> QED
    BY <2>4, <2>5, <2>6 DEF Kid, Kind
<1> QED
  BY <1>1, <1>2

LEMMA ReslottedRows ==
    ASSUME NEW e, NEW s, NEW rows \in SUBSET Kid, IsFiniteSet(rows), e.kids \in SUBSET Kid
    PROVE  MadeOf({Reslotted(k, e, s) : k \in rows}, rows)
<1> DEFINE f == [k \in rows |-> Reslotted(k, e, s)]
           new == {Reslotted(k, e, s) : k \in rows}
<1>1. SlotsOnly(f, rows)
  <2>1. \A k \in rows : /\ Reslotted(k, e, s) \in Kid
                        /\ Reslotted(k, e, s).key = k.key
                        /\ Reslotted(k, e, s).parking = k.parking
                        /\ Reslotted(k, e, s).flag = k.flag
    BY ReslottedFits
  <2> QED
    BY <2>1 DEF SlotsOnly
<1>2. \A k : k \in new <=> \E m \in rows : k = f[m]
  OBVIOUS
<1> HIDE DEF f, new
<1>3. MadeOf(new, rows)
  BY <1>1, <1>2, SlotsChanged
<1> QED
  BY <1>3 DEF new

\* The row after a save: one that was there keeps its owner and has the price
\* of the copy, or the one that was found.
LEMMA SavedRow ==
    ASSUME NEW row \in Parking \cup {Absent}, NEW e \in Parking, NEW s \in Parking
    PROVE  LET u == Updated(row, e, Dirty(e, s))
           IN  /\ row = Absent => u = Absent
               /\ row # Absent =>
                    /\ u \in Parking
                    /\ e.price # s.price => u.price = e.price
                    /\ e.owner = s.owner => u.owner = row.owner
<1>1. row = Absent => Updated(row, e, Dirty(e, s)) = Absent
  BY DEF Updated
<1>2. ASSUME row # Absent
      PROVE  LET u == Updated(row, e, Dirty(e, s))
             IN  /\ u \in Parking
                 /\ e.price # s.price => u.price = e.price
                 /\ e.owner = s.owner => u.owner = row.owner
  <2> DEFINE cols == Dirty(e, s)
             u == [c \in {"owner", "price"} |-> IF c \in cols THEN e[c] ELSE row[c]]
  <2>1. row \in Parking /\ DOMAIN row = {"owner", "price"} /\ DOMAIN e = {"owner", "price"}
    BY <1>2 DEF Parking
  <2>2. Updated(row, e, cols) = u
    BY <1>2, <2>1 DEF Updated, Patched
  <2>3. /\ "price" \in cols <=> e.price # s.price
        /\ "owner" \in cols <=> e.owner # s.owner
    BY <2>1 DEF Dirty
  <2> HIDE DEF cols
  <2>4. /\ u["owner"] = IF "owner" \in cols THEN e.owner ELSE row.owner
        /\ u["price"] = IF "price" \in cols THEN e.price ELSE row.price
    OBVIOUS
  <2>5. u \in Parking
    <3>1. u = [owner |-> u["owner"], price |-> u["price"]]
      OBVIOUS
    <3>2. u["owner"] \in Users /\ u["price"] \in Prices
      BY <2>1, <2>4 DEF Parking
    <3> HIDE DEF u
    <3> QED
      BY <3>1, <3>2 DEF Parking
  <2> HIDE DEF u
  <2> QED
    BY <2>2, <2>3, <2>4, <2>5 DEF cols
<1> QED
  BY <1>1, <1>2

\* The tables after a save that is not refused.
LEMMA SavedTables ==
    ASSUME ParkInv, NEW p \in ParkingIds, NEW e \in Copy, NEW s \in Copy,
           e.row \in Parking, OfParking(e, p), ~Refused(p, e, s), NEW row,
           row = (IF s.row = Absent THEN e.row
                  ELSE Updated(parkings[p], e.row, Dirty(e.row, s.row))),
           Store(p, row),
           kids' = {Reslotted(k, e, s) : k \in kids} \cup Extra(e, s)
    PROVE  Tables' /\ PricesKept
<1> DEFINE old == {Reslotted(k, e, s) : k \in kids}
           extra == Extra(e, s)
<1>1. /\ kids \in SUBSET Kid /\ IsFiniteSet(kids)
      /\ e.kids \in SUBSET Kid /\ IsFiniteSet(e.kids)
      /\ parkings[p] \in Parking \cup {Absent} /\ s.row \in Parking \cup {Absent}
  BY DEF ParkInv, Tables, Copy
<1>2. /\ row \in Parking \cup {Absent}
      /\ s.row # Absent /\ parkings[p] = Absent => row = Absent
      /\ s.row = Absent \/ parkings[p] # Absent => row \in Parking
  BY <1>1, SavedRow
<1>3. /\ parkings' \in [ParkingIds -> Parking \cup {Absent}]
      /\ parkings' = [parkings EXCEPT ![p] = row]
      /\ priced' \in [ParkingIds -> SUBSET (Prices \cup {Absent})]
      /\ PricesKept /\ RowsPriced'
  BY <1>2, Stored
<1>4. /\ old \in SUBSET Kid /\ IsFiniteSet(old)
      /\ \A k \in old : \E m \in kids : k.key = m.key /\ k.parking = m.parking /\ k.flag = m.flag
  <2>1. MadeOf(old, kids)
    BY <1>1, ReslottedRows
  <2> HIDE DEF old
  <2> QED
    BY <2>1 DEF MadeOf
<1>5. /\ extra \in SUBSET Kid /\ IsFiniteSet(extra)
      /\ \A k \in extra : k.parking = p /\ Kind(k) # "suggestion"
  <2>1. extra \subseteq e.kids
    BY DEF Extra
  <2>2. IsFiniteSet(extra)
    <3> HIDE DEF extra
    <3> QED
      BY <1>1, <2>1, FS_Subset
  <2>3. extra \in SUBSET Kid
    BY <1>1, <2>1
  <2> HIDE DEF extra
  <2>4. "suggestion" \notin Related
    BY DEF Related
  <2>5. \A k \in extra : k.parking = p /\ Kind(k) \in Related
    BY <2>1 DEF OfParking
  <2> QED
    BY <2>2, <2>3, <2>4, <2>5
<1> HIDE DEF old, extra
<1>6. kids' = old \cup extra
  BY DEF old, extra
<1>7. kids' \in SUBSET Kid /\ IsFiniteSet(kids')
  <2>1. old \cup extra \in SUBSET Kid
    BY <1>4, <1>5
  <2>2. IsFiniteSet(old \cup extra)
    BY <1>4, <1>5, FS_Union
  <2> QED
    BY <1>6, <2>1, <2>2
<1>8. KidsHang'
  <2>1. ASSUME NEW k \in old PROVE parkings'[k.parking] # Absent
    <3>1. PICK m \in kids : k.parking = m.parking
      BY <1>4
    <3>2. parkings[m.parking] # Absent /\ m.parking \in ParkingIds
      BY KidFits DEF ParkInv, Tables, KidsHang
    <3>3. CASE m.parking = p
      BY <1>2, <1>3, <3>1, <3>2, <3>3, AbsentIsNoParking DEF ParkInv, Tables
    <3>4. CASE m.parking # p
      BY <1>3, <3>1, <3>2, <3>4 DEF ParkInv, Tables
    <3> QED
      BY <3>3, <3>4
  <2>2. ASSUME NEW k \in extra PROVE parkings'[k.parking] # Absent
    <3>1. s.row = Absent \/ parkings[p] # Absent
      BY <2>2 DEF Refused, extra
    <3> QED
      BY <1>2, <1>3, <1>5, <3>1, AbsentIsNoParking DEF ParkInv, Tables
  <2> QED
    BY <1>6, <2>1, <2>2 DEF KidsHang
<1>9. AppliedWasSet'
  <2>1. ASSUME NEW k \in kids', Kind(k) = "suggestion", k.flag
        PROVE  priced'[k.parking] \cap {k.key[3], Absent} # {}
    <3>1. k \in old
      BY <1>5, <1>6, <2>1
    <3>2. PICK m \in kids : k.key = m.key /\ k.parking = m.parking /\ k.flag = m.flag
      BY <1>4, <3>1
    <3>3. Kind(m) = "suggestion" /\ m.flag
      BY <2>1, <3>2 DEF Kind
    <3> QED
      BY <1>3, <3>2, <3>3, MarkedStays
  <2> QED
    BY <2>1 DEF AppliedWasSet, OfKind, Kind
<1> QED
  BY <1>3, <1>7, <1>8, <1>9 DEF Tables

LEMMA WriteKeeps ==
    ASSUME ParkInv, NEW h \in Handlers, WriteParking(h)
    PROVE  ParkInv'
<1> DEFINE c == calls[h]
           p == c.parking
           e == c.entity
           s == c.stored
           row == IF s.row = Absent THEN e.row
                  ELSE Updated(parkings[p], e.row, Dirty(e.row, s.row))
           d == [c EXCEPT !.entity = Nothing, !.stored = Nothing]
<1>1. CASE Throw(h)
  BY <1>1, Thrown
<1>2. CASE /\ ~Refused(p, e, s) /\ Store(p, row)
           /\ kids' = {Reslotted(k, e, s) : k \in kids} \cup Extra(e, s)
           /\ Advance(h, d)
  <2>1. At(h, "write")
    BY DEF WriteParking
  <2>2. /\ c \in Call /\ c.todo # <<>> /\ p \in ParkingIds
        /\ Writes(c.todo) /\ Saving(c) /\ (s.row # Absent => s.row.price \in priced[p])
    BY <2>1, KnowsAt
  <2>3. /\ e \in Copy /\ s \in Copy /\ e.row \in Parking /\ OfParking(e, p)
        /\ WillMark(c, e.row.price)
    BY <2>2 DEF Call, Saving
  <2>4. Nothing \in Copy
    BY FS_EmptySet DEF Nothing, Copy
  <2>5. d \in Call /\ d.todo = c.todo /\ d.parking = p
    BY <2>2, <2>4 DEF Call
  <2>6. parkings[p] \in Parking \cup {Absent} /\ s.row \in Parking \cup {Absent}
        /\ (parkings[p] # Absent => priced[p] # {})
    BY <2>2, <2>3, LoadedFits DEF ParkInv, Tables, Copy
  <2> HIDE DEF d
  <2>7. Advance(h, d)
    BY <1>2
  <2>8. Tables' /\ PricesKept
    <3> HIDE DEF row, p, e, s, c
    <3>1. row = (IF s.row = Absent THEN e.row
                 ELSE Updated(parkings[p], e.row, Dirty(e.row, s.row)))
      BY DEF row
    <3> QED
      BY <1>2, <2>2, <2>3, <3>1, SavedTables
  <2> HIDE DEF c, e, s
  <2>9. /\ row \in Parking \cup {Absent}
        /\ row # Absent => row.price = e.row.price \/ (s.row # Absent /\ e.row.price = s.row.price)
    BY <2>3, <2>6, SavedRow
  <2> HIDE DEF row
  <2>10. /\ priced'[p] # {}
         /\ row # Absent => row.price \in priced'[p]
         /\ row = Absent => Absent \in priced'[p]
    BY <1>2, <2>2, <2>9, Stored
  <2>11. priced'[p] \cap {e.row.price, Absent} # {}
    <3>1. priced[p] \subseteq priced'[p]
      BY <2>2, <2>8 DEF PricesKept
    <3> QED
      BY <2>2, <2>9, <2>10, <3>1
  <2>12. MayMark(d, priced')
    BY <2>3, <2>5, <2>11 DEF MayMark, WillMark
  <2>13. Knows(Rest(d), priced')
    BY <2>2, <2>5, <2>10, <2>12, LateRest
  <2> QED
    BY <2>2, <2>5, <2>7, <2>8, <2>13, Advanced
<1> QED
  BY <1>1, <1>2 DEF WriteParking
----------------------------------------------------------------------------
(* The theorems                                                            *)

LEMMA ParkInit == Init => ParkInv
<1> SUFFICES ASSUME Init PROVE ParkInv
  OBVIOUS
<1>1. kids \in SUBSET Kid /\ IsFiniteSet(kids)
  BY FS_EmptySet DEF Init
<1>2. Tables
  BY <1>1 DEF Init, Tables, RowsPriced, KidsHang, AppliedWasSet, OfKind
<1>3. calls \in [Handlers -> Call] /\ CallsKnow
  BY IdleFits DEF Init, CallsKnow
<1> QED
  BY <1>2, <1>3 DEF Init, ParkInv, Handled, Forgotten, HoursAsked

LEMMA StepKeeps ==
    ASSUME ParkInv, NEW h \in Handlers, Step(h)
    PROVE  ParkInv'
<1>1. CASE CountParkings(h)
  BY <1>1, CountKeeps
<1>2. CASE \E p \in ParkingIds : InsertParking(h, p)
  BY <1>2, InsertParkingKeeps
<1>3. CASE InsertKids(h)
  BY <1>3, InsertKidsKeeps
<1>4. CASE FillSlots(h)
  BY <1>4, FillKeeps
<1>5. CASE ClearSlots(h)
  BY <1>5, ClearKeeps
<1>6. CASE DeleteKids(h)
  BY <1>6, DeleteKidsKeeps
<1>7. CASE PutKid(h)
  BY <1>7, PutKeeps
<1>8. CASE CheckOwner(h)
  BY <1>8, OwnerKeeps
<1>9. CASE LoadParking(h)
  BY <1>9, LoadKeeps
<1>10. CASE DeleteParking(h)
  BY <1>10, DeleteParkingKeeps
<1>11. CASE SelectParking(h)
  BY <1>11, SelectKeeps
<1>12. CASE WriteParking(h)
  BY <1>12, WriteKeeps
<1> QED
  BY <1>1, <1>2, <1>3, <1>4, <1>5, <1>6, <1>7, <1>8, <1>9, <1>10, <1>11, <1>12 DEF Step

LEMMA RequestsKeep ==
    ASSUME ParkInv, NEW h \in Handlers, Request(h) \/ RuleRequest(h) \/ PriceRequest(h)
    PROVE  ParkInv'
<1>1. CASE Request(h)
  BY <1>1, CreateKeeps, UpdateKeeps, RemoveParkingKeeps DEF Request
<1>2. CASE RuleRequest(h)
  BY <1>2, CreateRuleKeeps, ChangeRuleKeeps, RemoveRuleKeeps DEF RuleRequest
<1>3. CASE PriceRequest(h)
  BY <1>3, SuggestPriceKeeps, ApplyPriceSuggestionKeeps DEF PriceRequest
<1> QED
  BY <1>1, <1>2, <1>3

\* ParkInv is inductive: the tables are well formed, every handler holds what
\* its remaining queries rely on, and no query in flight will mark a
\* suggestion whose price was not set.
THEOREM ParkInvariance == Spec => []ParkInv
<1>1. Init => ParkInv
  BY ParkInit
<1>2. ParkInv /\ [Next]_parkVars => ParkInv'
  <2> SUFFICES ASSUME ParkInv, [Next]_parkVars PROVE ParkInv'
    OBVIOUS
  <2>1. ASSUME NEW h \in Handlers,
               Request(h) \/ RuleRequest(h) \/ PriceRequest(h) \/ Step(h) \/ Fail(h)
        PROVE  ParkInv'
    BY <2>1, RequestsKeep, StepKeeps, FailKeeps
  <2>2. CASE UNCHANGED parkVars
    <3>1. Tables' /\ calls' = calls
      BY <2>2 DEF ParkInv, Tables, RowsPriced, KidsHang, AppliedWasSet, OfKind, Kind, parkVars
    <3>2. CallsKnow'
      BY <2>2 DEF ParkInv, Handled, CallsKnow, parkVars
    <3> QED
      BY <2>2, <3>1, <3>2 DEF ParkInv, Handled, parkVars
  <2> QED
    BY <2>1, <2>2 DEF Next
<1> QED
  BY <1>1, <1>2, PTL DEF Spec

\* Every variable has its type: rows refer to a parking that is there, only
\* timetables have slots, and handlers hold what findOne can load.
THEOREM ParkTypes == Spec => []ParkTypeOK
<1>1. ParkInv => ParkTypeOK
  <2> SUFFICES ASSUME ParkInv PROVE ParkTypeOK
    OBVIOUS
  <2>1. ASSUME NEW k \in kids
        PROVE  /\ Kind(k) \in Kinds
               /\ k.parking \in ParkingIds
               /\ parkings[k.parking] # Absent
               /\ k.slots \subseteq Slots
               /\ k.slots # {} => Kind(k) \in Timed
               /\ k.flag \in BOOLEAN
               /\ k.flag => Kind(k) \in Flagged
    <3>1. k \in Kid
      BY <2>1 DEF ParkInv, Tables
    <3>2. parkings[k.parking] # Absent
      BY <2>1 DEF ParkInv, Tables, KidsHang
    <3> QED
      BY <3>1, <3>2 DEF Kid, Key, Kind
  <2>2. ASSUME NEW h \in Handlers
        PROVE  /\ calls[h].parking \in ParkingIds \cup {NoId}
               /\ calls[h].entity.row \in Parking \cup {Absent}
               /\ calls[h].stored.row \in Parking \cup {Absent}
    BY <2>2 DEF ParkInv, Handled, Call, Copy
  <2>3. ASSUME NEW p \in ParkingIds, offered[p] # Unset PROVE IsHours(offered[p])
    BY <2>3, ParkConstants DEF ParkInv, Handled, HoursAsked
  <2> QED
    BY <2>1, <2>2, <2>3 DEF ParkTypeOK, ParkInv, Tables
<1> QED
  BY <1>1, ParkInvariance, PTL

\* applyPriceSuggestion sets the price before it marks: however requests
\* interleave and die, a suggestion that counts as applied has its price among
\* those the parking's stored row has had, or its parking was removed and came
\* back by the save of another request.
THEOREM AppliedSuggestionsWereSet == Spec => []AppliedWasSet
<1>1. ParkInv => AppliedWasSet
  BY DEF ParkInv, Tables
<1> QED
  BY <1>1, ParkInvariance, PTL

----------------------------------------------------------------------------
(* The hours.  A row is numbered with the request that made it, so the     *)
(* rows that make up the hours last asked for, the timetable, are told     *)
(* from what earlier requests left.  Of the handler that is alone, its     *)
(* program is a plan: it adds rows that were asked for and fills their     *)
(* slots later, strikes rows of earlier requests only, and spares the      *)
(* timetables of other parkings.  What is there and what is still to come  *)
(* make up the hours asked for at every step, and what is too many is      *)
(* still going.                                                            *)

Numbered(rows, n) == \A k \in rows : k.key[2] < n

\* What a query adds, drops, touches and fills.
Adds(q) == IF q.do = "insert" THEN q.keys ELSE {}
Drops(q) == IF q.do = "delete" THEN q.keys ELSE {}
Strikes(q) == IF q.do = "clear" THEN {q.row.key} ELSE Drops(q)
Fills(q) == IF q.do = "fill" THEN {q.key} ELSE {}

Coming(todo) == UNION {Adds(q) : q \in Range(todo)}
Going(todo) == UNION {Drops(q) : q \in Range(todo)}
Filling(todo) == UNION {Fills(q) : q \in Range(todo)}

CallNumbered(c, n) ==
    /\ Numbered(c.entity.kids, n) /\ Numbered(c.stored.kids, n)
    /\ \A q \in Range(c.todo) :
        /\ \A key \in Adds(q) : key[2] < n
        /\ q.do = "put" => q.row.key[2] < n

\* The keys of the rows that request r makes of the hours asked for, and the
\* slots that each is to have.
ExceptionValue(hours, i) ==
    [date |-> hours.exceptions[i].date, available |-> hours.exceptions[i].available, nth |-> i]

Wanted(hours, r) ==
    {<<"schedule", r, day>> : day \in {d \in Days : hours.week[d] # {}}}
        \cup {<<"exception", r, ExceptionValue(hours, i)>> : i \in DOMAIN hours.exceptions}

WantedSlots(hours, key) ==
    IF key[1] = "schedule" THEN hours.week[key[3]]
    ELSE IF hours.exceptions[key[3].nth].available THEN hours.exceptions[key[3].nth].slots ELSE {}

\* Among these rows are those of the hours that request r gave parking p, and
\* no others of it.
Timetable(rows, p, hours, r) ==
    /\ \A k \in rows : (k.parking = p /\ Kind(k) \in Timed) => k.key \in Wanted(hours, r)
    /\ \A k \in rows :
        k.key \in Wanted(hours, r) => k.parking = p /\ k.slots = WantedSlots(hours, k.key)
    /\ Wanted(hours, r) \subseteq Keys(rows)

\* Query q of request n: it adds what is asked for, and spares these rows.
Planned(q, hours, n, spared) ==
    /\ \A key \in Adds(q) :
        key[2] = n /\ (key[1] \in Timed => hours # Unset /\ key \in Wanted(hours, n))
    /\ \A key \in Strikes(q) : key[2] < n /\ key \notin spared
    /\ \A key \in Fills(q) :
        hours # Unset /\ key \in Wanted(hours, n) /\ q.slots = WantedSlots(hours, key)
    /\ q.do = "put" => q.row.key[2] < n
    /\ q.do = "remove" => hours = Unset

FilledLater(todo, hours) ==
    \A i \in DOMAIN todo : \A key \in Adds(todo[i]) :
        (key[1] \in Timed /\ WantedSlots(hours, key) # {}) =>
            \E j \in DOMAIN todo : j > i /\ key \in Fills(todo[j])

Plan(todo, hours, n, spared) ==
    /\ \A q \in Range(todo) : Planned(q, hours, n, spared)
    /\ FilledLater(todo, hours)

\* The timetables that stand: those of parkings whose hours are known.
Spared(rows, known) == Keys({k \in rows : Kind(k) \in Timed /\ known[k.parking] # Unset})

\* Request n is half way through giving its parking the hours of handler c.
Rebuilding(rows, c, n) ==
    /\ \A k \in rows :
        (k.parking = c.parking /\ Kind(k) \in Timed) =>
            k.key \in Wanted(c.hours, n) \cup Going(c.todo)
    /\ \A k \in rows :
        k.key \in Wanted(c.hours, n) =>
            /\ k.parking = c.parking
            /\ \/ k.slots = WantedSlots(c.hours, k.key)
               \/ k.slots = {} /\ k.key \in Filling(c.todo)
    /\ Wanted(c.hours, n) \subseteq Keys(rows) \cup Coming(c.todo)

\* A save that nothing overlaps finds the rows it has loaded.
RowsOf(rows, p) == {k \in rows : k.parking = p /\ Kind(k) \in Related}

UpToDate(homes, rows, c) ==
    c.todo # <<>> =>
        /\ c.todo[1].do \in {"select", "write"} =>
            homes[c.parking] # Absent /\ c.entity.kids = RowsOf(rows, c.parking)
        /\ c.todo[1].do = "write" =>
            c.stored.row # Absent /\ c.stored.kids = RowsOf(rows, c.parking)

Unknown(known, c) == c.parking # NoId => known[c.parking] = Unset

Working(homes, rows, known, c, n) ==
    /\ Plan(c.todo, c.hours, n, Spared(rows, known))
    /\ c.hours # Unset => Unknown(known, c) /\ Rebuilding(rows, c, n)
    /\ UpToDate(homes, rows, c)

\* The hours of a parking are those of a request before the one in progress.
Settled ==
    \A p \in ParkingIds :
        (offered[p] # Unset /\ parkings[p] # Absent) =>
            \E r \in 0..requests :
                /\ r < requests
                /\ \A h \in Handlers : calls[h] # Idle => r + 1 < requests
                /\ Timetable(kids, p, offered[p], r)

AllNumbered ==
    Numbered(kids, requests) /\ \A h \in Handlers : CallNumbered(calls[h], requests)

Lonely ==
    /\ ~alone => offered = Forgotten
    /\ alone => \A g, h \in Handlers : calls[g] # Idle /\ calls[h] # Idle => g = h
    /\ \A h \in Handlers : calls[h] # Idle => requests > 0
    /\ \A p \in ParkingIds : offered[p] # Unset => priced[p] # {}

HoursInv ==
    /\ AllNumbered
    /\ Lonely
    /\ Settled
    /\ alone => \A h \in Handlers :
            calls[h] # Idle => Working(parkings, kids, offered, calls[h], requests - 1)

----------------------------------------------------------------------------
(* Plans                                                                   *)

LEMMA AheadConcat ==
    ASSUME NEW S, NEW s \in Seq(S), NEW t \in Seq(S)
    PROVE  /\ Coming(s \o t) = Coming(s) \cup Coming(t)
           /\ Going(s \o t) = Going(s) \cup Going(t)
<1>1. Range(s \o t) = Range(s) \cup Range(t)
  BY RangeConcat
<1> QED
  BY <1>1 DEF Coming, Going

LEMMA AheadTail ==
    ASSUME NEW S, NEW s \in Seq(S), s # <<>>
    PROVE  /\ Coming(s) = Adds(Head(s)) \cup Coming(Tail(s))
           /\ Going(s) = Drops(Head(s)) \cup Going(Tail(s))
           /\ Filling(s) = Fills(Head(s)) \cup Filling(Tail(s))
<1>1. Range(s) = {Head(s)} \cup Range(Tail(s))
  BY RangeHead
<1> QED
  BY <1>1 DEF Coming, Going, Filling

LEMMA AheadEmpty == Coming(<<>>) = {} /\ Going(<<>>) = {} /\ Filling(<<>>) = {}
  BY DEF Coming, Going, Filling, Range

LEMMA PlanConcat ==
    ASSUME NEW S, NEW s \in Seq(S), NEW t \in Seq(S), NEW hours, NEW n, NEW spared,
           Plan(s, hours, n, spared), Plan(t, hours, n, spared)
    PROVE  Plan(s \o t, hours, n, spared)
<1>1. Range(s \o t) = Range(s) \cup Range(t)
  BY RangeConcat
<1>2. /\ Len(s) \in Nat /\ Len(t) \in Nat
      /\ DOMAIN s = 1..Len(s) /\ DOMAIN t = 1..Len(t)
      /\ DOMAIN (s \o t) = 1..(Len(s) + Len(t))
      /\ \A i \in 1..(Len(s) + Len(t)) :
            (s \o t)[i] = IF i <= Len(s) THEN s[i] ELSE t[i - Len(s)]
  BY ConcatProperties
<1>3. ASSUME NEW i \in 1..(Len(s) + Len(t)), NEW key \in Adds((s \o t)[i]),
             key[1] \in Timed, WantedSlots(hours, key) # {}
      PROVE  \E j \in 1..(Len(s) + Len(t)) : j > i /\ key \in Fills((s \o t)[j])
  <2>1. CASE i <= Len(s)
    <3>1. i \in 1..Len(s) /\ (s \o t)[i] = s[i]
      BY <1>2, <2>1
    <3>2. PICK j \in 1..Len(s) : j > i /\ key \in Fills(s[j])
      BY <1>2, <1>3, <3>1 DEF Plan, FilledLater
    <3>3. j \in 1..(Len(s) + Len(t)) /\ (s \o t)[j] = s[j]
      BY <1>2
    <3> QED
      BY <3>2, <3>3
  <2>2. CASE i > Len(s)
    <3>1. i - Len(s) \in 1..Len(t) /\ (s \o t)[i] = t[i - Len(s)]
      BY <1>2, <2>2
    <3>2. PICK j \in 1..Len(t) : j > i - Len(s) /\ key \in Fills(t[j])
      BY <1>2, <1>3, <3>1 DEF Plan, FilledLater
    <3>3. /\ j + Len(s) \in 1..(Len(s) + Len(t)) /\ ~(j + Len(s) <= Len(s))
          /\ (j + Len(s)) - Len(s) = j /\ j + Len(s) > i
      BY <1>2, <3>1, <3>2
    <3>4. (s \o t)[j + Len(s)] = t[j]
      BY <1>2, <3>3
    <3> QED
      BY <3>2, <3>3, <3>4
  <2> QED
    BY <1>2, <2>1, <2>2
<1>4. FilledLater(s \o t, hours)
  BY <1>2, <1>3 DEF FilledLater
<1> QED
  BY <1>1, <1>4 DEF Plan

\* What is left of a plan is a plan, and the queries to come fill what the
\* next one adds.
LEMMA PlanTail ==
    ASSUME NEW S, NEW s \in Seq(S), s # <<>>, NEW hours, NEW n, NEW spared, NEW others,
           Plan(s, hours, n, spared),
           \A key \in others : key \in spared \/ ~ (key[2] < n)
    PROVE  /\ Planned(Head(s), hours, n, spared)
           /\ Plan(Tail(s), hours, n, others)
           /\ \A key \in Adds(Head(s)) :
                (key[1] \in Timed /\ WantedSlots(hours, key) # {}) => key \in Filling(Tail(s))
<1>1. /\ Len(s) \in Nat \ {0} /\ DOMAIN s = 1..Len(s)
      /\ Head(s) = s[1]
      /\ DOMAIN Tail(s) = 1..(Len(s) - 1)
      /\ \A i \in 1..(Len(s) - 1) : Tail(s)[i] = s[i+1]
  BY HeadTailProperties
<1>2. Range(s) = {Head(s)} \cup Range(Tail(s))
  BY RangeHead
<1>3. \A q \in Range(Tail(s)) : Planned(q, hours, n, others)
  BY <1>2 DEF Plan, Planned
<1>4. ASSUME NEW i \in 1..Len(s), NEW key \in Adds(s[i]),
             key[1] \in Timed, WantedSlots(hours, key) # {}
      PROVE  \E j \in 1..(Len(s) - 1) : j + 1 > i /\ key \in Fills(Tail(s)[j])
  <2>1. PICK j \in 1..Len(s) : j > i /\ key \in Fills(s[j])
    BY <1>1, <1>4 DEF Plan, FilledLater
  <2>2. j - 1 \in 1..(Len(s) - 1) /\ (j - 1) + 1 = j
    BY <1>1, <2>1
  <2>3. Tail(s)[j - 1] = s[j]
    BY <1>1, <2>2
  <2> QED
    BY <2>1, <2>2, <2>3
<1>5. FilledLater(Tail(s), hours)
  <2> SUFFICES ASSUME NEW i \in 1..(Len(s) - 1), NEW key \in Adds(Tail(s)[i]),
                      key[1] \in Timed, WantedSlots(hours, key) # {}
               PROVE  \E j \in 1..(Len(s) - 1) : j > i /\ key \in Fills(Tail(s)[j])
    BY <1>1 DEF FilledLater
  <2>1. i + 1 \in 1..Len(s) /\ Tail(s)[i] = s[i+1]
    BY <1>1
  <2>2. PICK j \in 1..(Len(s) - 1) : j + 1 > i + 1 /\ key \in Fills(Tail(s)[j])
    BY <1>4, <2>1
  <2>3. j > i
    BY <1>1, <2>2
  <2> QED
    BY <2>2, <2>3
<1>6. ASSUME NEW key \in Adds(Head(s)), key[1] \in Timed, WantedSlots(hours, key) # {}
      PROVE  key \in Filling(Tail(s))
  <2>1. PICK j \in 1..(Len(s) - 1) : key \in Fills(Tail(s)[j])
    <3>1. 1 \in 1..Len(s)
      BY <1>1
    <3> QED
      BY <1>1, <1>4, <1>6, <3>1
  <2>2. Tail(s)[j] \in Range(Tail(s))
    BY <1>1 DEF Range
  <2> QED
    BY <2>1, <2>2 DEF Filling
<1> QED
  BY <1>2, <1>3, <1>5, <1>6 DEF Plan

\* Queries that add nothing to be filled.
LEMMA PlanOf ==
    ASSUME NEW s, NEW hours, NEW n, NEW spared,
           \A q \in Range(s) :
                /\ Planned(q, hours, n, spared)
                /\ \A key \in Adds(q) : key[1] \in Timed => WantedSlots(hours, key) = {}
    PROVE  Plan(s, hours, n, spared)
<1>1. \A i \in DOMAIN s : s[i] \in Range(s)
  BY DEF Range
<1>2. FilledLater(s, hours)
  BY <1>1 DEF FilledLater
<1> QED
  BY <1>2 DEF Plan

LEMMA RangeSingle == ASSUME NEW q PROVE Range(<<q>>) = {q}
<1>1. DOMAIN <<q>> = {1} /\ <<q>>[1] = q
  OBVIOUS
<1> QED
  BY <1>1 DEF Range

LEMMA RangeEmpty == Range(<<>>) = {}
  BY DEF Range

LEMMA InsertedPlan ==
    ASSUME NEW kind \in Kinds \ Timed, NEW values, NEW hours, NEW spared
    PROVE  Plan(Inserted(kind, values), hours, requests, spared)
<1>1. CASE values = {}
  BY <1>1, PlanOf, RangeEmpty DEF Inserted
<1>2. CASE values # {}
  <2> DEFINE keys == {<<kind, requests, v>> : v \in values}
             q == [do |-> "insert", keys |-> keys]
  <2>1. Inserted(kind, values) = <<q>>
    BY <1>2 DEF Inserted
  <2>2. \A key \in keys : key[2] = requests /\ key[1] \notin Timed
    OBVIOUS
  <2>3. q.do = "insert" /\ q.keys = keys
    OBVIOUS
  <2> HIDE DEF keys, q
  <2>4. /\ Planned(q, hours, requests, spared)
        /\ \A key \in Adds(q) : key[1] \notin Timed
    BY <2>2, <2>3 DEF Planned, Adds, Strikes, Drops, Fills
  <2> QED
    BY <2>1, <2>4, PlanOf, RangeSingle
<1> QED
  BY <1>1, <1>2

LEMMA TimetabledPlan ==
    ASSUME NEW kind, NEW value, NEW slots, NEW hours, hours # Unset, NEW spared,
           <<kind, requests, value>> \in Wanted(hours, requests),
           slots = WantedSlots(hours, <<kind, requests, value>>)
    PROVE  /\ Plan(Timetabled(kind, value, slots), hours, requests, spared)
           /\ <<kind, requests, value>> \in Coming(Timetabled(kind, value, slots))
<1> DEFINE key == <<kind, requests, value>>
           add == [do |-> "insert", keys |-> {key}]
           fill == [do |-> "fill", key |-> key, slots |-> slots]
           S == {add, fill}
           s1 == <<add>>
           s2 == IF slots = {} THEN <<>> ELSE <<fill>>
           s == s1 \o s2
<1>1. Timetabled(kind, value, slots) = s
  BY DEF Timetabled, Inserted
<1>2. key[2] = requests
  OBVIOUS
<1>3. add.do = "insert" /\ add.keys = {key}
  OBVIOUS
<1>4. fill.do = "fill" /\ fill.key = key /\ fill.slots = slots
  OBVIOUS
<1>k. key = <<kind, requests, value>>
  OBVIOUS
<1> HIDE DEF key, add, fill
<1>5. Adds(add) = {key} /\ Strikes(add) = {} /\ Fills(add) = {}
  BY <1>3 DEF Adds, Strikes, Drops, Fills
<1>6. Adds(fill) = {} /\ Strikes(fill) = {} /\ Fills(fill) = {key}
  BY <1>4 DEF Adds, Strikes, Drops, Fills
<1>7. Planned(add, hours, requests, spared) /\ Planned(fill, hours, requests, spared)
  BY <1>k, <1>2, <1>3, <1>4, <1>5, <1>6 DEF Planned
<1>10. s1 \in Seq(S) /\ s2 \in Seq(S)
  <2>1. add \in S /\ fill \in S
    OBVIOUS
  <2> HIDE DEF S
  <2>2. <<add>> \in Seq(S) /\ <<fill>> \in Seq(S) /\ <<>> \in Seq(S)
    BY <2>1
  <2> QED
    BY <2>2
<1>11. Range(s) = Range(s1) \cup Range(s2) /\ Range(s1) = {add}
  <2>1. Range(s1) = {add}
    BY RangeSingle
  <2> HIDE DEF s1, s2, S
  <2> QED
    BY <1>10, <2>1, RangeConcat
<1>8. CASE slots = {}
  <2>1. Range(s2) = {}
    BY <1>8, RangeEmpty
  <2> HIDE DEF s1, s2
  <2>2. Plan(s, hours, requests, spared)
    BY <1>k, <1>5, <1>7, <1>8, <1>11, <2>1, PlanOf
  <2>3. Coming(s) = {key}
    BY <1>5, <1>11, <2>1 DEF Coming
  <2> HIDE DEF s
  <2> QED
    BY <1>k, <1>1, <2>2, <2>3
<1>9. CASE slots # {}
  <2>1. Range(s2) = {fill}
    BY <1>9, RangeSingle
  <2>2. Len(s1) = 1 /\ Len(s2) = 1 /\ s1[1] = add /\ s2[1] = fill
    BY <1>9
  <2> HIDE DEF s1, s2, S
  <2>3. DOMAIN s = {1, 2} /\ s[1] = add /\ s[2] = fill
    <3>1. /\ DOMAIN s = 1..(Len(s1) + Len(s2))
          /\ \A i \in 1..(Len(s1) + Len(s2)) :
                s[i] = IF i <= Len(s1) THEN s1[i] ELSE s2[i - Len(s1)]
      BY <1>10, ConcatProperties
    <3> HIDE DEF s
    <3> QED
      BY <3>1, <2>2
  <2> HIDE DEF s
  <2>4. FilledLater(s, hours)
    BY <2>3, <1>5, <1>6 DEF FilledLater
  <2>5. Coming(s) = {key}
    BY <1>5, <1>6, <1>11, <2>1 DEF Coming
  <2> QED
    BY <1>k, <1>1, <1>7, <1>11, <2>1, <2>4, <2>5 DEF Plan
<1> QED
  BY <1>8, <1>9

\* What is asked for comes, and its slots after it.
LEMMA HoursInsertedPlan ==
    ASSUME NEW hours, IsHours(hours), hours # Unset, requests \in Nat, WeekDays \in Seq(Days),
           NEW spared
    PROVE  /\ Plan(HoursInserted(hours), hours, requests, spared)
           /\ Wanted(hours, requests) \subseteq Coming(HoursInserted(hours))
<1> DEFINE day(i) == DayInserted(WeekDays[i], hours.week[WeekDays[i]])
           except(i) == ExceptionInserted(hours.exceptions[i], i)
           days == [i \in DOMAIN WeekDays |-> day(i)]
           excepts == [i \in DOMAIN hours.exceptions |-> except(i)]
           T == {s \in Seq(Silent) : Plan(s, hours, requests, spared)}
<1>1. ASSUME NEW i \in DOMAIN WeekDays
      PROVE  /\ day(i) \in T
             /\ hours.week[WeekDays[i]] # {} =>
                    <<"schedule", requests, WeekDays[i]>> \in Coming(day(i))
  <2> DEFINE d == WeekDays[i]
             slots == hours.week[d]
  <2>1. d \in Days /\ slots \in SUBSET Slots /\ d \in Values
    BY DEF IsHours, Values
  <2>2. CASE slots = {}
    <3>1. day(i) = <<>>
      BY <2>2 DEF DayInserted
    <3>2. Plan(<<>>, hours, requests, spared)
      BY PlanOf, RangeEmpty
    <3> HIDE DEF day
    <3> QED
      BY <2>2, <3>1, <3>2
  <2>3. CASE slots # {}
    <3>1. day(i) = Timetabled("schedule", d, slots)
      BY <2>3 DEF DayInserted
    <3>2. Timetabled("schedule", d, slots) \in Seq(Silent)
      BY <2>1, TimetabledType DEF Timed
    <3>3. <<"schedule", requests, d>> \in Wanted(hours, requests)
      BY <2>1, <2>3 DEF Wanted
    <3>4. slots = WantedSlots(hours, <<"schedule", requests, d>>)
      BY DEF WantedSlots
    <3> HIDE DEF day, d, slots
    <3>5. /\ Plan(Timetabled("schedule", d, slots), hours, requests, spared)
          /\ <<"schedule", requests, d>> \in Coming(Timetabled("schedule", d, slots))
      BY <3>3, <3>4, TimetabledPlan
    <3> QED
      BY <3>1, <3>2, <3>5 DEF d
  <2> QED
    BY <2>2, <2>3
<1>2. ASSUME NEW i \in DOMAIN hours.exceptions
      PROVE  /\ except(i) \in T
             /\ <<"exception", requests, ExceptionValue(hours, i)>> \in Coming(except(i))
  <2> DEFINE e == hours.exceptions[i]
             value == ExceptionValue(hours, i)
             slots == IF e.available THEN e.slots ELSE {}
  <2>1. e \in [date : Dates, available : BOOLEAN, slots : SUBSET Slots] /\ i \in Nat
    <3> DEFINE E == [date : Dates, available : BOOLEAN, slots : SUBSET Slots]
    <3>1. hours.exceptions \in Seq(E)
      BY DEF IsHours
    <3> HIDE DEF E
    <3>2. hours.exceptions[i] \in E /\ i \in Nat
      BY <1>2, <3>1
    <3> QED
      BY <3>2 DEF E
  <2>2. value \in Values /\ slots \in SUBSET Slots
    BY <2>1 DEF Values, ExceptionValue
  <2>3. except(i) = Timetabled("exception", value, slots)
    BY DEF ExceptionInserted, ExceptionValue
  <2>4. Timetabled("exception", value, slots) \in Seq(Silent)
    <3> HIDE DEF value, slots
    <3> QED
      BY <2>2, TimetabledType DEF Timed
  <2>5. <<"exception", requests, value>> \in Wanted(hours, requests)
    BY <1>2 DEF Wanted
  <2>6. slots = WantedSlots(hours, <<"exception", requests, value>>)
    BY DEF WantedSlots, ExceptionValue
  <2> HIDE DEF value, slots, except
  <2>7. /\ Plan(Timetabled("exception", value, slots), hours, requests, spared)
        /\ <<"exception", requests, value>> \in Coming(Timetabled("exception", value, slots))
    BY <2>5, <2>6, TimetabledPlan
  <2> QED
    BY <2>3, <2>4, <2>7 DEF value
<1>3. /\ DOMAIN WeekDays = 1..Len(WeekDays) /\ Len(WeekDays) \in Nat
      /\ DOMAIN hours.exceptions = 1..Len(hours.exceptions) /\ Len(hours.exceptions) \in Nat
  BY DEF IsHours
<1>4. /\ <<>> \in T
      /\ \A s, t \in T : s \o t \in T
  <2>1. Plan(<<>>, hours, requests, spared) /\ <<>> \in Seq(Silent)
    BY PlanOf, RangeEmpty
  <2>2. ASSUME NEW s \in T, NEW t \in T PROVE s \o t \in T
    BY PlanConcat, SilentConcat
  <2> QED
    BY <2>1, <2>2
<1>5. days \in Seq(T) /\ excepts \in Seq(T)
  <2> HIDE DEF day, except, T
  <2>1. \A i \in 1..Len(WeekDays) : day(i) \in T
    BY <1>1, <1>3
  <2>2. \A i \in 1..Len(hours.exceptions) : except(i) \in T
    BY <1>2, <1>3
  <2>3. days \in Seq(T)
    BY <2>1, <1>3
  <2>4. excepts \in Seq(T)
    BY <2>2, <1>3
  <2> QED
    BY <2>3, <2>4
<1>6. /\ Len(days) = Len(WeekDays) /\ \A i \in 1..Len(WeekDays) : days[i] = day(i)
      /\ Len(excepts) = Len(hours.exceptions)
      /\ \A i \in 1..Len(hours.exceptions) : excepts[i] = except(i)
  <2> HIDE DEF day, except
  <2> QED
    BY <1>3
<1>7. FlattenSeq(days) \in T /\ FlattenSeq(excepts) \in T
  <2> HIDE DEF days, excepts, T
  <2> QED
    BY <1>4, <1>5, FlattenSeqType
<1>8. HoursInserted(hours) = FlattenSeq(days) \o FlattenSeq(excepts)
  BY DEF HoursInserted
<1>9. days \in Seq(Seq(Silent)) /\ excepts \in Seq(Seq(Silent))
  <2>1. T \subseteq Seq(Silent)
    OBVIOUS
  <2> HIDE DEF days, excepts, T
  <2> QED
    BY <1>5, <2>1
<1>10. Coming(HoursInserted(hours)) = Coming(FlattenSeq(days)) \cup Coming(FlattenSeq(excepts))
  <2>1. FlattenSeq(days) \in Seq(Silent) /\ FlattenSeq(excepts) \in Seq(Silent)
    BY <1>7
  <2> HIDE DEF days, excepts
  <2> QED
    BY <1>8, <2>1, AheadConcat
<1>11. ASSUME NEW key \in Wanted(hours, requests) PROVE key \in Coming(HoursInserted(hours))
  <2>1. CASE \E d \in Days : hours.week[d] # {} /\ key = <<"schedule", requests, d>>
    <3>1. PICK i \in 1..Len(WeekDays) :
            hours.week[WeekDays[i]] # {} /\ key = <<"schedule", requests, WeekDays[i]>>
      BY <2>1, <1>3 DEF Days, Range
    <3>2. key \in Coming(days[i])
      <4> HIDE DEF days, day
      <4> QED
        BY <3>1, <1>1, <1>3, <1>6
    <3>3. Range(days[i]) \subseteq Range(FlattenSeq(days))
      <4> HIDE DEF days
      <4> QED
        BY <1>6, <1>9, RangeFlattenSeq
    <3> HIDE DEF days
    <3> QED
      BY <1>10, <3>2, <3>3 DEF Coming
  <2>2. CASE \E i \in DOMAIN hours.exceptions :
                key = <<"exception", requests, ExceptionValue(hours, i)>>
    <3>1. PICK i \in 1..Len(hours.exceptions) :
            key = <<"exception", requests, ExceptionValue(hours, i)>>
      BY <2>2, <1>3
    <3>2. key \in Coming(excepts[i])
      <4> HIDE DEF excepts, except
      <4> QED
        BY <3>1, <1>2, <1>3, <1>6
    <3>3. Range(excepts[i]) \subseteq Range(FlattenSeq(excepts))
      <4> HIDE DEF excepts
      <4> QED
        BY <1>6, <1>9, RangeFlattenSeq
    <3> HIDE DEF excepts
    <3> QED
      BY <1>10, <3>2, <3>3 DEF Coming
  <2> QED
    BY <2>1, <2>2 DEF Wanted
<1>12. Plan(HoursInserted(hours), hours, requests, spared)
  <2> HIDE DEF days, excepts
  <2> QED
    BY <1>4, <1>7, <1>8
<1> QED
  BY <1>11, <1>12

LEMMA RemovedPlan ==
    ASSUME NEW rows \in SUBSET Kid, IsFiniteSet(rows), NEW kind, NEW hours, NEW n, NEW spared,
           \A k \in OfKind(rows, kind) : k.key[2] < n /\ k.key \notin spared
    PROVE  /\ Plan(Removed(rows, kind), hours, n, spared)
           /\ Keys(OfKind(rows, kind)) \subseteq Going(Removed(rows, kind))
<1> DEFINE gone == OfKind(rows, kind)
           timed == {k \in gone : k.slots # {}}
           slotted == SetToSeq(timed)
           clears == [i \in DOMAIN slotted |-> [do |-> "clear", row |-> slotted[i]]]
           q == [do |-> "delete", keys |-> Keys(gone)]
<1>1. CASE gone = {}
  <2>1. Removed(rows, kind) = <<>>
    BY <1>1 DEF Removed
  <2>2. Keys(OfKind(rows, kind)) = {}
    BY <1>1 DEF Keys
  <2> QED
    BY <2>1, <2>2, PlanOf, RangeEmpty
<1>2. CASE gone # {}
  <2>1. timed \subseteq Kid /\ IsFiniteSet(timed) /\ timed \subseteq gone
    BY FS_Subset DEF OfKind
  <2>2. Removed(rows, kind) = clears \o <<q>>
    BY <1>2 DEF Removed
  <2>3. q.do = "delete" /\ q.keys = Keys(gone)
    OBVIOUS
  <2>4. \A k \in gone : k.key[2] < n /\ k.key \notin spared
    OBVIOUS
  <2>5. DOMAIN slotted = 1..Cardinality(timed) /\ \A i \in DOMAIN slotted : slotted[i] \in timed
    <3> HIDE DEF timed
    <3> QED
      BY <2>1, SetToSeqType
  <2>6. Cardinality(timed) \in Nat
    BY <2>1, FS_CardinalityType
  <2> HIDE DEF timed, slotted, gone, q
  <2>7. /\ DOMAIN clears = 1..Cardinality(timed)
        /\ \A i \in DOMAIN clears : clears[i].do = "clear" /\ clears[i].row \in gone
    BY <2>1, <2>5
  <2>8. clears \in Seq(Range(clears))
    <3> HIDE DEF clears
    <3>1. \A i \in 1..Cardinality(timed) : clears[i] \in Range(clears)
      BY <2>7 DEF Range
    <3>2. clears = [i \in 1..Cardinality(timed) |-> clears[i]]
      BY <2>7 DEF clears
    <3> QED
      BY <2>6, <3>1, <3>2
  <2> HIDE DEF clears
  <2>9. \A x \in Range(clears) : x.do = "clear" /\ x.row \in gone
    BY <2>7 DEF Range
  <2> DEFINE S == Range(clears) \cup {q}
  <2>10. clears \in Seq(S) /\ <<q>> \in Seq(S)
    BY <2>8
  <2>11. Range(clears \o <<q>>) = Range(clears) \cup {q}
    <3> HIDE DEF S
    <3>1. Range(clears \o <<q>>) = Range(clears) \cup Range(<<q>>)
      BY <2>10, RangeConcat
    <3> QED
      BY <3>1, RangeSingle
  <2>12. \A x \in Range(clears) \cup {q} : Adds(x) = {} /\ Planned(x, hours, n, spared)
    BY <2>3, <2>4, <2>9 DEF Planned, Adds, Strikes, Drops, Fills, Keys
  <2>13. Plan(Removed(rows, kind), hours, n, spared)
    BY <2>2, <2>11, <2>12, PlanOf
  <2>14. Keys(gone) \subseteq Going(Removed(rows, kind))
    BY <2>2, <2>3, <2>11 DEF Going, Drops
  <2> QED
    BY <2>13, <2>14 DEF gone
<1> QED
  BY <1>1, <1>2

\* The queries of an opening add and remove nothing.
LEMMA PlanOpening ==
    ASSUME NEW a, NEW b, {a.do, b.do} \subseteq {"count", "insertParking", "select", "write"},
           NEW s1 \in Seq(Silent), NEW s2 \in Seq(Silent), NEW s3 \in Seq(Silent),
           NEW hours, NEW n, NEW spared,
           Plan(s1, hours, n, spared), Plan(s2, hours, n, spared), Plan(s3, hours, n, spared)
    PROVE  LET todo == ((<<a, b>> \o s1) \o s2) \o s3
           IN  /\ Plan(todo, hours, n, spared)
               /\ Coming(s3) \subseteq Coming(todo)
               /\ Going(s3) \subseteq Going(todo)
<1> DEFINE S == Silent \cup {a, b}
           t0 == <<a, b>>
           t1 == t0 \o s1
           t2 == t1 \o s2
           t3 == t2 \o s3
<1>1. s1 \in Seq(S) /\ s2 \in Seq(S) /\ s3 \in Seq(S) /\ t0 \in Seq(S)
  <2>1. a \in S /\ b \in S /\ Silent \subseteq S
    OBVIOUS
  <2> HIDE DEF S
  <2> QED
    BY <2>1
<1>2. Plan(t0, hours, n, spared)
  <2>1. DOMAIN t0 = {1, 2} /\ t0[1] = a /\ t0[2] = b
    OBVIOUS
  <2> HIDE DEF t0
  <2>2. Range(t0) = {a, b}
    BY <2>1 DEF Range
  <2>3. \A q \in {a, b} : Adds(q) = {} /\ Planned(q, hours, n, spared)
    BY DEF Planned, Adds, Strikes, Drops, Fills
  <2> QED
    BY <2>2, <2>3, PlanOf
<1> HIDE DEF S, t0
<1>3. t1 \in Seq(S) /\ Plan(t1, hours, n, spared)
  BY <1>1, <1>2, PlanConcat, ConcatProperties
<1> HIDE DEF t1
<1>4. t2 \in Seq(S) /\ Plan(t2, hours, n, spared)
  BY <1>1, <1>3, PlanConcat, ConcatProperties DEF t2
<1> HIDE DEF t2
<1>5. Plan(t3, hours, n, spared)
  BY <1>1, <1>4, PlanConcat DEF t3
<1>6. Coming(t3) = Coming(t2) \cup Coming(s3) /\ Going(t3) = Going(t2) \cup Going(s3)
  BY <1>1, <1>4, AheadConcat DEF t3
<1>7. t3 = ((<<a, b>> \o s1) \o s2) \o s3
  BY DEF t0, t1, t2, t3
<1> HIDE DEF t3
<1> QED
  BY <1>5, <1>6, <1>7

LEMMA CreateStepsPlan ==
    ASSUME NEW ask \in Asks, requests \in Nat, NEW spared
    PROVE  /\ Plan(CreateSteps(ask), ask.hours, requests, spared)
           /\ ask.hours # Unset =>
                Wanted(ask.hours, requests) \subseteq Coming(CreateSteps(ask))
<1> DEFINE a == [do |-> "count"]
           b == [do |-> "insertParking"]
           s1 == IF ask.feature = Unset THEN <<>> ELSE Inserted("feature", ask.feature)
           s2 == IF ask.photo = Unset THEN <<>> ELSE Inserted("photo", ask.photo)
           s3 == IF ask.hours = Unset THEN <<>> ELSE HoursInserted(ask.hours)
<1>1. s1 \in Seq(Silent) /\ s2 \in Seq(Silent) /\ s3 \in Seq(Silent)
  BY AskInserted
<1>2. {a.do, b.do} \subseteq {"count", "insertParking", "select", "write"}
  OBVIOUS
<1>3. Plan(<<>>, ask.hours, requests, spared)
  BY PlanOf, RangeEmpty
<1>4. Plan(s1, ask.hours, requests, spared) /\ Plan(s2, ask.hours, requests, spared)
  <2>1. "feature" \in Kinds \ Timed /\ "photo" \in Kinds \ Timed
    BY DEF Kinds, Related, Timed
  <2> QED
    BY <1>3, <2>1, InsertedPlan
<1>5. /\ Plan(s3, ask.hours, requests, spared)
      /\ ask.hours # Unset => Wanted(ask.hours, requests) \subseteq Coming(s3)
  BY <1>3, HoursInsertedPlan, ParkConstants
<1>6. CreateSteps(ask) = ((<<a, b>> \o s1) \o s2) \o s3
  BY DEF CreateSteps
<1> HIDE DEF a, b, s1, s2, s3
<1>7. /\ Plan(CreateSteps(ask), ask.hours, requests, spared)
      /\ Coming(s3) \subseteq Coming(CreateSteps(ask))
  BY <1>1, <1>2, <1>4, <1>5, <1>6, PlanOpening
<1> QED
  BY <1>5, <1>7

\* The rows that were loaded go before the new ones come.
LEMMA UpdateStepsPlan ==
    ASSUME NEW ask \in Asks, requests \in Nat, NEW rows \in SUBSET Kid, IsFiniteSet(rows),
           NEW spared,
           Numbered(rows, requests),
           \A key \in spared : key[1] \in Timed,
           ask.hours # Unset => \A k \in rows : Kind(k) \in Timed => k.key \notin spared
    PROVE  /\ Plan(UpdateSteps(rows, ask), ask.hours, requests, spared)
           /\ ask.hours # Unset =>
                /\ Wanted(ask.hours, requests) \subseteq Coming(UpdateSteps(rows, ask))
                /\ \A k \in rows : Kind(k) \in Timed => k.key \in Going(UpdateSteps(rows, ask))
<1> DEFINE a == [do |-> "select"]
           b == [do |-> "write"]
           s1 == IF ask.feature = Unset THEN <<>>
                 ELSE Removed(rows, "feature") \o Inserted("feature", ask.feature)
           s2 == IF ask.photo = Unset THEN <<>>
                 ELSE Removed(rows, "photo") \o Inserted("photo", ask.photo)
           gone == HoursRemoved(rows)
           s3 == IF ask.hours = Unset THEN <<>> ELSE gone \o HoursInserted(ask.hours)
           todo == UpdateSteps(rows, ask)
<1>1. /\ Removed(rows, "feature") \in Seq(Silent) /\ Removed(rows, "photo") \in Seq(Silent)
      /\ Removed(rows, "schedule") \in Seq(Silent) /\ Removed(rows, "exception") \in Seq(Silent)
  BY RemovedType
<1>2. gone \in Seq(Silent)
  BY <1>1, SilentConcat DEF HoursRemoved
<1>3. s1 \in Seq(Silent) /\ s2 \in Seq(Silent) /\ s3 \in Seq(Silent)
  <2> HIDE DEF gone
  <2> QED
    BY <1>1, <1>2, AskInserted, SilentConcat
<1>4. {a.do, b.do} \subseteq {"count", "insertParking", "select", "write"}
  OBVIOUS
<1>5. Plan(<<>>, ask.hours, requests, spared)
  BY PlanOf, RangeEmpty
<1>6. Plan(s1, ask.hours, requests, spared) /\ Plan(s2, ask.hours, requests, spared)
  <2>1. ASSUME NEW kind \in {"feature", "photo"}
        PROVE  /\ Plan(Removed(rows, kind), ask.hours, requests, spared)
               /\ \A values : Plan(Inserted(kind, values), ask.hours, requests, spared)
    <3>1. kind \in Kinds \ Timed
      BY <2>1 DEF Kinds, Related, Timed
    <3>2. \A k \in OfKind(rows, kind) : k.key[2] < requests /\ k.key \notin spared
      BY <3>1 DEF OfKind, Kind, Numbered
    <3> QED
      BY <3>1, <3>2, RemovedPlan, InsertedPlan
  <2> QED
    BY <1>1, <1>5, <2>1, AskInserted, PlanConcat
<1>7. ASSUME ask.hours # Unset
      PROVE  /\ Plan(s3, ask.hours, requests, spared)
             /\ Wanted(ask.hours, requests) \subseteq Coming(s3)
             /\ \A k \in rows : Kind(k) \in Timed => k.key \in Going(s3)
  <2>1. ASSUME NEW kind \in Timed
        PROVE  /\ Plan(Removed(rows, kind), ask.hours, requests, spared)
               /\ Keys(OfKind(rows, kind)) \subseteq Going(Removed(rows, kind))
    <3>1. \A k \in OfKind(rows, kind) : k.key[2] < requests /\ k.key \notin spared
      BY <1>7, <2>1 DEF OfKind, Numbered
    <3> QED
      BY <3>1, RemovedPlan
  <2>2. /\ Plan(gone, ask.hours, requests, spared)
        /\ Going(gone) = Going(Removed(rows, "schedule")) \cup Going(Removed(rows, "exception"))
    <3>1. "schedule" \in Timed /\ "exception" \in Timed
      BY DEF Timed
    <3> QED
      BY <1>1, <2>1, <3>1, PlanConcat, AheadConcat DEF HoursRemoved
  <2>3. HoursInserted(ask.hours) \in Seq(Silent)
    BY <1>7, AskInserted
  <2>4. /\ Plan(HoursInserted(ask.hours), ask.hours, requests, spared)
        /\ Wanted(ask.hours, requests) \subseteq Coming(HoursInserted(ask.hours))
    BY <1>7, HoursInsertedPlan, ParkConstants
  <2>5. s3 = gone \o HoursInserted(ask.hours)
    BY <1>7
  <2>6. ASSUME NEW k \in rows, Kind(k) \in Timed PROVE k.key \in Going(gone)
    <3>1. k.key \in Keys(OfKind(rows, Kind(k)))
      BY DEF Keys, OfKind
    <3> HIDE DEF gone
    <3> QED
      BY <2>1, <2>2, <2>6, <3>1 DEF Timed
  <2> HIDE DEF gone, s3
  <2> QED
    BY <1>2, <2>2, <2>3, <2>4, <2>5, <2>6, PlanConcat, AheadConcat
<1>8. todo = ((<<a, b>> \o s1) \o s2) \o s3
  BY DEF UpdateSteps, SaveParking
<1>9. Plan(s3, ask.hours, requests, spared)
  <2> HIDE DEF gone
  <2>1. ask.hours = Unset => s3 = <<>>
    OBVIOUS
  <2> HIDE DEF s3
  <2> QED
    BY <1>5, <1>7, <2>1
<1> HIDE DEF a, b, s1, s2, s3, todo
<1>10. /\ Plan(todo, ask.hours, requests, spared)
       /\ Coming(s3) \subseteq Coming(todo)
       /\ Going(s3) \subseteq Going(todo)
  BY <1>3, <1>4, <1>6, <1>8, <1>9, PlanOpening
<1> QED
  BY <1>7, <1>10 DEF todo

----------------------------------------------------------------------------
(* Timetables                                                              *)

LEMMA WantedIsTimed ==
    ASSUME NEW hours, NEW r, NEW key \in Wanted(hours, r)
    PROVE  key[1] \in Timed /\ key[2] = r
<1>1. CASE key \in {<<"schedule", r, day>> : day \in {d \in Days : hours.week[d] # {}}}
  BY <1>1 DEF Timed
<1>2. CASE key \in {<<"exception", r, ExceptionValue(hours, i)>> : i \in DOMAIN hours.exceptions}
  BY <1>2 DEF Timed
<1> QED
  BY <1>1, <1>2 DEF Wanted

\* A timetable stays when its rows do.
LEMMA TimetableStays ==
    ASSUME NEW p, NEW hours, NEW r, NEW rows, NEW new, Timetable(rows, p, hours, r),
           \A k \in new : (k.parking = p /\ Kind(k) \in Timed) \/ k.key \in Wanted(hours, r) =>
                \E j \in rows : /\ j.key = k.key /\ j.parking = k.parking
                                /\ k.key \in Wanted(hours, r) => j.slots = k.slots,
           \A j \in rows : j.key \in Wanted(hours, r) => \E k \in new : k.key = j.key
    PROVE  Timetable(new, p, hours, r)
<1>1. ASSUME NEW k \in new, k.parking = p, Kind(k) \in Timed PROVE k.key \in Wanted(hours, r)
  BY <1>1 DEF Timetable, Kind
<1>2. ASSUME NEW k \in new, k.key \in Wanted(hours, r)
      PROVE  k.parking = p /\ k.slots = WantedSlots(hours, k.key)
  <2>1. PICK j \in rows : j.key = k.key /\ j.parking = k.parking /\ j.slots = k.slots
    BY <1>2
  <2> QED
    BY <1>2, <2>1 DEF Timetable
<1>3. ASSUME NEW key \in Wanted(hours, r) PROVE key \in Keys(new)
  <2>1. PICK j \in rows : j.key = key
    BY DEF Timetable, Keys
  <2>2. PICK k \in new : k.key = j.key
    BY <2>1
  <2> QED
    BY <2>1, <2>2 DEF Keys
<1> QED
  BY <1>1, <1>2, <1>3 DEF Timetable

\* With no query ahead the hours asked for are there.
LEMMA Rebuilt ==
    ASSUME NEW rows, NEW c, NEW n, c.todo = <<>>, Rebuilding(rows, c, n)
    PROVE  Timetable(rows, c.parking, c.hours, n)
  BY AheadEmpty DEF Rebuilding, Timetable

LEMMA RestFields ==
    ASSUME NEW c \in Call, c.todo # <<>>
    PROVE  /\ Rest(c).todo = Tail(c.todo) /\ Rest(c).hours = c.hours
           /\ Rest(c).parking = c.parking /\ Rest(c).entity = c.entity
           /\ Rest(c).stored = c.stored
           /\ c.todo \in Seq(AnyQuery) /\ Len(c.todo) \in Nat \ {0}
           /\ Tail(c.todo) \in Seq(AnyQuery) /\ Len(Tail(c.todo)) = Len(c.todo) - 1
           /\ Len(c.todo) = 1 <=> Tail(c.todo) = <<>>
           /\ Head(c.todo) = c.todo[1] /\ Head(c.todo) \in AnyQuery
<1>1. c.todo \in Seq(AnyQuery)
  BY DEF Call
<1>2. /\ Len(c.todo) \in Nat \ {0}
      /\ Tail(c.todo) \in Seq(AnyQuery) /\ Len(Tail(c.todo)) = Len(c.todo) - 1
      /\ Head(c.todo) = c.todo[1] /\ Head(c.todo) \in AnyQuery
  BY <1>1, HeadTailProperties
<1>3. Len(c.todo) = 1 <=> Tail(c.todo) = <<>>
  <2>1. Len(Tail(c.todo)) = 0 <=> Tail(c.todo) = <<>>
    BY <1>2, EmptySeq
  <2> QED
    BY <1>2, <2>1
<1> QED
  BY <1>1, <1>2, <1>3 DEF Rest, Call

\* A query of handler c, alone with request n, leaves the timetables that stand,
\* and what it says of the one that is being made.
Leaves(homes, rows, known, homesAfter, rowsAfter, c, n) ==
    /\ \A p \in ParkingIds, r \in Nat :
        (/\ known[p] # Unset /\ homes[p] # Absent /\ homesAfter[p] # Absent
         /\ r < n /\ Timetable(rows, p, known[p], r)) => Timetable(rowsAfter, p, known[p], r)
    /\ \A p \in ParkingIds :
        (homes[p] = Absent /\ homesAfter[p] # Absent) => known[p] = Unset
    /\ \A k \in rowsAfter :
        (Kind(k) \in Timed /\ known[k.parking] # Unset) =>
            k.key \in Spared(rows, known) \/ ~ (k.key[2] < n)
    /\ c.hours # Unset => Unknown(known, c) /\ Rebuilding(rowsAfter, Rest(c), n)
    /\ UpToDate(homesAfter, rowsAfter, Rest(c))

LEMMA HoursAdvanced ==
    ASSUME ParkInv, ParkInv', HoursInv, NEW h \in Handlers, NEW c \in Call, NEW n \in Nat,
           requests = n + 1, calls[h] # Idle, calls[h].todo = c.todo, calls[h].hours = c.hours,
           c.todo # <<>>, Advance(h, c), PricesKept,
           c.parking \in ParkingIds => priced'[c.parking] # {},
           Numbered(kids', requests), Numbered(c.entity.kids, requests),
           Numbered(c.stored.kids, requests),
           alone => Leaves(parkings, kids, offered, parkings', kids', c, n)
    PROVE  HoursInv'
<1> DEFINE d == IF Len(c.todo) = 1 THEN Idle ELSE Rest(c)
<1>1. /\ calls \in [Handlers -> Call] /\ offered \in [ParkingIds -> HoursAsked]
      /\ requests' = requests /\ alone' = alone
      /\ calls' = [calls EXCEPT ![h] = d]
  BY DEF ParkInv, Handled, Advance, Goto, Rest
<1>2. /\ Rest(c).todo = Tail(c.todo) /\ Rest(c).hours = c.hours
      /\ Rest(c).parking = c.parking /\ Rest(c).entity = c.entity /\ Rest(c).stored = c.stored
      /\ c.todo \in Seq(AnyQuery) /\ Len(c.todo) \in Nat \ {0}
      /\ Len(c.todo) = 1 => Tail(c.todo) = <<>>
  BY RestFields
<1>4. calls'[h] = d /\ \A g \in Handlers : g # h => calls'[g] = calls[g]
  <2> HIDE DEF d
  <2> QED
    BY <1>1
<1>3. Len(c.todo) # 1 => Len(c.todo) > 1
  <2>1. PICK l \in Nat \ {0} : l = Len(c.todo)
    BY <1>2
  <2>2. l # 1 => l > 1
    OBVIOUS
  <2> QED
    BY <2>1, <2>2
<1>5. Len(c.todo) # 1 => offered' = offered
  BY <1>3 DEF Advance
<1>6. Len(c.todo) = 1 =>
        offered' = IF ~alone THEN Forgotten
                   ELSE IF c.hours = Unset THEN offered
                   ELSE [offered EXCEPT ![c.parking] = c.hours]
  BY DEF Advance
<1>7. ~alone => offered = Forgotten /\ offered' = Forgotten
  BY <1>5, <1>6 DEF HoursInv, Lonely
<1>8. AllNumbered'
  <2>1. CallNumbered(d, requests)
    <3>1. CASE Len(c.todo) = 1
      BY <3>1, RangeEmpty DEF Idle, Nothing, CallNumbered, Numbered
    <3>2. CASE Len(c.todo) # 1
      <4>1. c.todo # <<>> /\ Range(Tail(c.todo)) \subseteq Range(c.todo)
        BY <1>2, RangeHead
      <4>2. \A q \in Range(c.todo) :
                /\ \A key \in Adds(q) : key[2] < requests
                /\ q.do = "put" => q.row.key[2] < requests
        BY DEF HoursInv, AllNumbered, CallNumbered
      <4> QED
        BY <1>2, <3>2, <4>1, <4>2 DEF CallNumbered
    <3> QED
      BY <3>1, <3>2
  <2> HIDE DEF d
  <2>2. ASSUME NEW g \in Handlers PROVE CallNumbered(calls'[g], requests)
    BY <1>4, <2>1 DEF HoursInv, AllNumbered
  <2> QED
    BY <1>1, <2>2 DEF AllNumbered
<1>9. ASSUME NEW p \in ParkingIds, offered'[p] # Unset
      PROVE  \/ offered'[p] = offered[p] /\ offered[p] # Unset
             \/ /\ p = c.parking /\ c.hours # Unset /\ Len(c.todo) = 1 /\ alone
                /\ offered'[p] = c.hours
  <2>1. CASE Len(c.todo) # 1
    BY <1>5, <1>9, <2>1
  <2>2. CASE Len(c.todo) = 1 /\ ~alone
    BY <1>7, <1>9, <2>2 DEF Forgotten
  <2>3. CASE Len(c.todo) = 1 /\ alone /\ c.hours = Unset
    BY <1>6, <1>9, <2>3
  <2>4. CASE Len(c.todo) = 1 /\ alone /\ c.hours # Unset
    BY <1>1, <1>6, <1>9, <2>4
  <2> QED
    BY <2>1, <2>2, <2>3, <2>4
<1>10. Lonely'
  <2>1. alone => \A f, g \in Handlers : calls'[f] # Idle /\ calls'[g] # Idle => f = g
    <3> HIDE DEF d
    <3> QED
      BY <1>4 DEF HoursInv, Lonely
  <2>2. \A p \in ParkingIds : offered'[p] # Unset => priced'[p] # {}
    BY <1>9 DEF HoursInv, Lonely, PricesKept
  <2>3. requests > 0 /\ Forgotten' = Forgotten
    BY DEF Forgotten
  <2> QED
    BY <1>1, <1>7, <2>1, <2>2, <2>3 DEF Lonely
<1>11. Settled'
  <2> SUFFICES ASSUME NEW p \in ParkingIds, offered'[p] # Unset, parkings'[p] # Absent
               PROVE  \E r \in 0..requests :
                        /\ r < requests
                        /\ \A g \in Handlers : calls'[g] # Idle => r + 1 < requests
                        /\ Timetable(kids', p, offered'[p], r)
    BY <1>1 DEF Settled
  <2>1. alone
    BY <1>7 DEF Forgotten
  <2>2. CASE offered'[p] = offered[p] /\ offered[p] # Unset
    <3>1. parkings[p] # Absent
      BY <2>1, <2>2 DEF Leaves
    <3>2. PICK r \in 0..requests :
                r < requests /\ r + 1 < requests /\ Timetable(kids, p, offered[p], r)
      BY <2>2, <3>1 DEF HoursInv, Settled
    <3>4. r \in Nat /\ r < n
      BY <3>2
    <3>5. Timetable(kids', p, offered[p], r)
      BY <2>1, <2>2, <3>1, <3>2, <3>4 DEF Leaves
    <3> QED
      BY <2>2, <3>2, <3>5
  <2>3. CASE p = c.parking /\ c.hours # Unset /\ Len(c.todo) = 1 /\ offered'[p] = c.hours
    <3>1. Rebuilding(kids', Rest(c), n)
      BY <2>1, <2>3 DEF Leaves
    <3>2. Rest(c).todo = <<>> /\ Rest(c).parking = p /\ Rest(c).hours = c.hours
      BY <1>2, <2>3
    <3>3. Timetable(kids', p, c.hours, n)
      BY <3>1, <3>2, Rebuilt
    <3>4. \A g \in Handlers : calls'[g] = Idle
      BY <1>4, <2>1, <2>3 DEF HoursInv, Lonely
    <3>5. n \in 0..requests /\ n < requests
      OBVIOUS
    <3> QED
      BY <2>3, <3>3, <3>4, <3>5
  <2> QED
    BY <1>9, <2>2, <2>3
<1>12. ASSUME alone, NEW g \in Handlers, calls'[g] # Idle
       PROVE  Working(parkings', kids', offered', calls'[g], n)
  <2>1. g = h /\ Len(c.todo) # 1 /\ calls'[g] = Rest(c)
    BY <1>4, <1>12 DEF HoursInv, Lonely
  <2>2. offered' = offered
    BY <1>5, <2>1
  <2>3. Plan(c.todo, c.hours, n, Spared(kids, offered))
    <3>1. n = requests - 1
      OBVIOUS
    <3> QED
      BY <3>1, <1>12 DEF HoursInv, Working
  <2>4. \A key \in Spared(kids', offered) : key \in Spared(kids, offered) \/ ~ (key[2] < n)
    BY <1>12 DEF Leaves, Spared, Keys
  <2>5. Plan(Tail(c.todo), c.hours, n, Spared(kids', offered))
    BY <1>2, <2>3, <2>4, PlanTail
  <2> QED
    BY <1>2, <1>12, <2>1, <2>2, <2>5 DEF Working, Leaves, Unknown
<1>13. requests' - 1 = n
  BY <1>1
<1> QED
  BY <1>1, <1>8, <1>10, <1>11, <1>12, <1>13 DEF HoursInv

----------------------------------------------------------------------------
(* Queries about rows                                                      *)

LEMMA WorkingAt ==
    ASSUME ParkInv, HoursInv, NEW h \in Handlers, NEW s, At(h, s)
    PROVE  /\ calls[h] # Idle /\ calls[h] \in Call /\ calls[h].todo # <<>>
           /\ Query(h) = Head(calls[h].todo) /\ Query(h).do = s
           /\ Query(h) \in Range(calls[h].todo)
           /\ \E n \in Nat : requests = n + 1
           /\ CallNumbered(calls[h], requests)
           /\ alone => Working(parkings, kids, offered, calls[h], requests - 1)
<1>1. calls[h] # Idle /\ calls[h] \in Call /\ calls[h].todo # <<>>
  BY DEF ParkInv, Handled, At, Idle
<1>2. Query(h) = Head(calls[h].todo) /\ Query(h).do = s
  BY DEF At, Query
<1>3. Query(h) \in Range(calls[h].todo)
  BY <1>1, <1>2, RestFields, RangeHead
<1>4. requests \in Nat /\ requests > 0
  BY <1>1 DEF ParkInv, Handled, HoursInv, Lonely
<1>5. requests - 1 \in Nat /\ requests = (requests - 1) + 1
  BY <1>4
<1> QED
  BY <1>1, <1>2, <1>3, <1>5 DEF HoursInv, AllNumbered

\* Once a program is late nothing is saved any more.
LEMMA LateIsUpToDate ==
    ASSUME NEW c \in Call, c.todo # <<>>,
           NowLate(c.todo) \/ ChecksOwner(c.todo) \/ Writes(c.todo) \/ Inserts(c.todo),
           NEW homes, NEW rows
    PROVE  UpToDate(homes, rows, Rest(c))
<1>1. LateFrom(c.todo, 0) \/ LateFrom(c.todo, 1)
  BY DEF NowLate, ChecksOwner, Writes, Inserts
<1>2. LateFrom(Tail(c.todo), 0)
  BY <1>1, LateTail
<1>3. ASSUME Tail(c.todo) # <<>> PROVE Tail(c.todo)[1].do \notin {"select", "write"}
  <2>1. Tail(c.todo) \in Seq(AnyQuery) /\ 1 \in 1..Len(Tail(c.todo))
    BY <1>2, <1>3, EmptySeq DEF LateFrom
  <2>2. Tail(c.todo)[1] \in Late /\ Tail(c.todo)[1] \in AnyQuery
    BY <1>2, <2>1 DEF LateFrom
  <2> QED
    BY <2>2, QueryFields
<1> QED
  BY <1>3, RestFields DEF UpToDate

\* Query q of handler c turns rows into others.
Changes(rows, after, q, c) ==
    /\ \A k \in after : k.key \notin Drops(q)
    /\ \A k \in after : Kind(k) \in Timed =>
        \/ \E j \in rows :
            /\ j.key = k.key /\ j.parking = k.parking
            /\ k.key \notin Fills(q) \cup Strikes(q) => k.slots = j.slots
            /\ k.key \in Fills(q) => k.slots = j.slots \cup q.slots
        \/ k.key \in Adds(q) /\ k.parking = c.parking /\ k.slots = {}
    /\ \A j \in rows :
        (Kind(j) \in Timed /\ j.key \notin Drops(q)) => \E k \in after : k.key = j.key
    /\ \A key \in Adds(q) : \E k \in after : k.key = key

\* What is planned comes true, and what stands is spared.
LEMMA ChangesLeave ==
    ASSUME NEW c \in Call, c.todo # <<>>, NowLate(c.todo), c.parking \in ParkingIds,
           NEW n \in Nat, NEW homes, NEW known, NEW rows \in SUBSET Kid, NEW after \in SUBSET Kid,
           Working(homes, rows, known, c, n), Changes(rows, after, Head(c.todo), c)
    PROVE  Leaves(homes, rows, known, homes, after, c, n)
<1> DEFINE q == Head(c.todo)
           spared == Spared(rows, known)
<1>1. /\ Planned(q, c.hours, n, spared)
      /\ \A key \in Adds(q) :
            (key[1] \in Timed /\ WantedSlots(c.hours, key) # {}) => key \in Filling(Tail(c.todo))
  BY RestFields, PlanTail DEF Working
<1>2. /\ Coming(c.todo) = Adds(q) \cup Coming(Tail(c.todo))
      /\ Going(c.todo) = Drops(q) \cup Going(Tail(c.todo))
      /\ Filling(c.todo) = Fills(q) \cup Filling(Tail(c.todo))
  BY RestFields, AheadTail
<1>3. c.hours # Unset => known[c.parking] = Unset
  BY ParkConstants DEF Working, Unknown
<1>4. \A k \in rows : Kind(k) \in Timed /\ known[k.parking] # Unset => k.key \in spared
  BY DEF Spared, Keys
<1>5. Drops(q) \subseteq Strikes(q)
  BY DEF Drops, Strikes
<1>6. Changes(rows, after, q, c)
  OBVIOUS
<1>7. rows \in SUBSET Kid /\ after \in SUBSET Kid
  OBVIOUS
<1> HIDE DEF q, spared
<1>8. /\ \A key \in Adds(q) : key[2] = n /\ (key[1] \in Timed =>
                c.hours # Unset /\ key \in Wanted(c.hours, n) /\ known[c.parking] = Unset)
      /\ \A key \in Strikes(q) : key[2] < n /\ key \notin spared
      /\ \A key \in Fills(q) :
                key \in Wanted(c.hours, n) /\ key[2] = n /\ q.slots = WantedSlots(c.hours, key)
  BY <1>1, <1>3, WantedIsTimed DEF Planned
<1>9. ASSUME NEW p \in ParkingIds, NEW r \in Nat, known[p] # Unset, r < n,
             Timetable(rows, p, known[p], r)
      PROVE  Timetable(after, p, known[p], r)
  <2>1. ASSUME NEW k \in after,
               \/ k.parking = p /\ Kind(k) \in Timed
               \/ k.key \in Wanted(known[p], r)
        PROVE  \E j \in rows : /\ j.key = k.key /\ j.parking = k.parking
                               /\ k.key \in Wanted(known[p], r) => j.slots = k.slots
    <3>1. Kind(k) \in Timed /\ (k.key \in Wanted(known[p], r) => k.key[2] = r)
      BY <2>1, WantedIsTimed DEF Kind
    <3>2. ~ (k.key \in Adds(q) /\ k.parking = c.parking)
      BY <1>8, <1>9, <2>1, <3>1 DEF Kind
    <3>3. PICK j \in rows :
            /\ j.key = k.key /\ j.parking = k.parking
            /\ k.key \notin Fills(q) \cup Strikes(q) => k.slots = j.slots
      BY <1>6, <3>1, <3>2 DEF Changes
    <3>4. ASSUME k.key \in Wanted(known[p], r) PROVE k.key \notin Fills(q) \cup Strikes(q)
      <4>1. j.parking = p /\ j.key \in spared
        BY <1>4, <1>9, <3>1, <3>3, <3>4 DEF Timetable, Kind
      <4> QED
        BY <1>8, <1>9, <3>1, <3>3, <3>4, <4>1
    <3> QED
      BY <3>3, <3>4
  <2>2. ASSUME NEW j \in rows, j.key \in Wanted(known[p], r) PROVE \E k \in after : k.key = j.key
    <3>1. j.parking = p /\ Kind(j) \in Timed
      BY <1>9, <2>2, WantedIsTimed DEF Timetable, Kind
    <3>2. j.key \in spared
      BY <1>4, <1>9, <3>1
    <3> QED
      BY <1>5, <1>6, <1>8, <3>1, <3>2 DEF Changes
  <2> QED
    BY <1>9, <2>1, <2>2, TimetableStays
<1>10. ASSUME NEW k \in after, Kind(k) \in Timed, known[k.parking] # Unset
       PROVE  k.key \in spared \/ ~ (k.key[2] < n)
  <2>1. CASE k.key \in Adds(q)
    BY <1>8, <2>1
  <2>2. CASE k.key \notin Adds(q)
    <3>1. PICK j \in rows : j.key = k.key /\ j.parking = k.parking
      BY <1>6, <1>10, <2>2 DEF Changes
    <3> QED
      BY <1>4, <1>10, <3>1 DEF Kind
  <2> QED
    BY <2>1, <2>2
<1>11. ASSUME c.hours # Unset PROVE Rebuilding(after, Rest(c), n)
  <2> DEFINE W == Wanted(c.hours, n)
  <2>0. /\ Rebuilding(rows, c, n)
        /\ Rest(c).todo = Tail(c.todo) /\ Rest(c).hours = c.hours /\ Rest(c).parking = c.parking
    BY <1>11, RestFields DEF Working
  <2>1. ASSUME NEW k \in after, k.parking = c.parking, Kind(k) \in Timed
        PROVE  k.key \in W \cup Going(Tail(c.todo))
    <3>1. CASE k.key \in Adds(q)
      BY <1>8, <2>1, <3>1 DEF Kind
    <3>2. CASE k.key \notin Adds(q)
      <4>1. PICK j \in rows : j.key = k.key /\ j.parking = k.parking
        BY <1>6, <2>1, <3>2 DEF Changes
      <4>2. j.key \in W \cup Going(c.todo)
        BY <2>0, <2>1, <4>1 DEF Rebuilding, Kind
      <4>3. k.key \notin Drops(q)
        BY <1>6 DEF Changes
      <4> QED
        BY <1>2, <4>1, <4>2, <4>3
    <3> QED
      BY <3>1, <3>2
  <2>2. ASSUME NEW k \in after, k.key \in W
        PROVE  /\ k.parking = c.parking
               /\ \/ k.slots = WantedSlots(c.hours, k.key)
                  \/ k.slots = {} /\ k.key \in Filling(Tail(c.todo))
    <3>1. k.key[1] \in Timed /\ k.key[2] = n /\ Kind(k) \in Timed
      BY <2>2, WantedIsTimed DEF Kind
    <3>2. CASE k.key \in Adds(q) /\ k.parking = c.parking /\ k.slots = {}
      BY <1>1, <3>1, <3>2
    <3>3. CASE \E j \in rows :
            /\ j.key = k.key /\ j.parking = k.parking
            /\ k.key \notin Fills(q) \cup Strikes(q) => k.slots = j.slots
            /\ k.key \in Fills(q) => k.slots = j.slots \cup q.slots
      <4>1. PICK j \in rows :
              /\ j.key = k.key /\ j.parking = k.parking
              /\ k.key \notin Fills(q) \cup Strikes(q) => k.slots = j.slots
              /\ k.key \in Fills(q) => k.slots = j.slots \cup q.slots
        BY <3>3
      <4>2. /\ j.parking = c.parking
            /\ \/ j.slots = WantedSlots(c.hours, k.key)
               \/ j.slots = {} /\ k.key \in Filling(c.todo)
        BY <2>0, <2>2, <4>1 DEF Rebuilding
      <4>3. k.key \notin Strikes(q)
        BY <1>8, <3>1
      <4>4. CASE k.key \in Fills(q)
        BY <1>8, <4>1, <4>2, <4>4
      <4>5. CASE k.key \notin Fills(q)
        BY <1>2, <4>1, <4>2, <4>3, <4>5
      <4> QED
        BY <4>4, <4>5
    <3> QED
      BY <1>6, <3>1, <3>2, <3>3 DEF Changes
  <2>3. ASSUME NEW key \in W PROVE key \in Keys(after) \cup Coming(Tail(c.todo))
    <3>1. key[1] \in Timed /\ key[2] = n
      BY <2>3, WantedIsTimed
    <3>2. CASE key \in Keys(rows)
      <4>1. PICK j \in rows : j.key = key
        BY <3>2 DEF Keys
      <4>2. key \notin Drops(q)
        BY <1>5, <1>8, <3>1
      <4>3. PICK k \in after : k.key = key
        BY <1>6, <3>1, <4>1, <4>2 DEF Changes, Kind
      <4> QED
        BY <4>3 DEF Keys
    <3>3. CASE key \in Adds(q)
      <4>1. PICK k \in after : k.key = key
        BY <1>6, <3>3 DEF Changes
      <4> QED
        BY <4>1 DEF Keys
    <3>4. key \in Keys(rows) \cup Adds(q) \cup Coming(Tail(c.todo))
      BY <1>2, <2>0, <2>3 DEF Rebuilding
    <3> QED
      BY <3>2, <3>3, <3>4
  <2> QED
    BY <2>0, <2>1, <2>2, <2>3 DEF Rebuilding
<1>12. UpToDate(homes, after, Rest(c))
  BY LateIsUpToDate
<1>13. c.hours # Unset => Unknown(known, c)
  BY DEF Working
<1> QED
  BY <1>9, <1>10, <1>11, <1>12, <1>13 DEF Leaves, spared

\* A query about rows is over.
LEMMA HoursKidsChanged ==
    ASSUME ParkInv, ParkInv', HoursInv, NEW h \in Handlers,
           NEW s \in {"insert", "fill", "clear", "delete", "put"}, At(h, s),
           Advance(h, calls[h]), UNCHANGED <<parkings, priced>>,
           Changes(kids, kids', Query(h), calls[h]),
           \A k \in kids' : \/ \E j \in kids : j.key = k.key
                            \/ k.key \in Adds(Query(h))
                            \/ s = "put" /\ k.key = Query(h).row.key
    PROVE  HoursInv'
<1> DEFINE c == calls[h]
           q == Query(h)
<1>1. /\ c # Idle /\ c \in Call /\ c.todo # <<>> /\ q = Head(c.todo) /\ q.do = s
      /\ q \in Range(c.todo) /\ CallNumbered(c, requests)
  BY WorkingAt
<1>2. NowLate(c.todo) /\ c.parking \in ParkingIds /\ priced[c.parking] # {}
  BY KnowsAt
<1>3. PICK n \in Nat : requests = n + 1
  BY WorkingAt
<1>4. kids \in SUBSET Kid /\ kids' \in SUBSET Kid
  BY DEF ParkInv, Tables
<1>5. alone => Working(parkings, kids, offered, c, n)
  <2>1. requests - 1 = n
    BY <1>3
  <2> QED
    BY <2>1, WorkingAt
<1>6. Advance(h, c) /\ Changes(kids, kids', q, c)
  OBVIOUS
<1>7. \A k \in kids' : k.key[2] < requests
  BY <1>1 DEF CallNumbered, HoursInv, AllNumbered, Numbered
<1>8. c = calls[h]
  OBVIOUS
<1> HIDE DEF c, q
<1>9. alone => Leaves(parkings, kids, offered, parkings', kids', c, n)
  BY <1>1, <1>2, <1>4, <1>5, <1>6, ChangesLeave
<1>10. Numbered(kids', requests) /\ Numbered(c.entity.kids, requests)
       /\ Numbered(c.stored.kids, requests)
  BY <1>1, <1>7 DEF CallNumbered, Numbered
<1>11. PricesKept
  BY DEF PricesKept
<1> QED
  BY <1>1, <1>2, <1>3, <1>6, <1>8, <1>9, <1>10, <1>11, HoursAdvanced

\* Nothing is promised any more once a request has failed.
LEMMA HoursForgotten ==
    ASSUME ParkInv, HoursInv, NEW h \in Handlers, Goto(h, Idle), offered' = Forgotten,
           UNCHANGED <<parkings, kids, priced, alone, requests>>
    PROVE  HoursInv'
<1>1. calls'[h] = Idle /\ \A g \in Handlers : g # h => calls'[g] = calls[g]
  BY DEF ParkInv, Handled, Goto
<1>2. CallNumbered(Idle, requests)
  BY RangeEmpty DEF Idle, Nothing, CallNumbered, Numbered
<1>3. \A g \in Handlers : CallNumbered(calls'[g], requests)
  BY <1>1, <1>2 DEF HoursInv, AllNumbered
<1>4. AllNumbered'
  BY <1>3 DEF HoursInv, AllNumbered
<1>5. Forgotten' = Forgotten /\ \A p \in ParkingIds : offered'[p] = Unset
  BY DEF Forgotten
<1>6. Lonely'
  BY <1>1, <1>5 DEF HoursInv, Lonely
<1>7. Settled'
  BY <1>5 DEF Settled
<1>8. alone' => \A g \in Handlers : calls'[g] = Idle \/ (g # h /\ calls[g] # Idle)
  BY <1>1
<1>9. ASSUME alone', NEW g \in Handlers, calls'[g] # Idle
      PROVE  Working(parkings', kids', offered', calls'[g], requests' - 1)
  <2>1. g # h /\ calls'[g] = calls[g]
    BY <1>1, <1>9
  <2>2. Working(parkings, kids, offered, calls[g], requests - 1)
    BY <1>9, <2>1 DEF HoursInv
  <2>3. Spared(kids, offered') = {}
    <3>1. \A k \in kids : k.parking \in ParkingIds
      BY DEF ParkInv, Tables, Kid
    <3> QED
      BY <1>5, <3>1 DEF Spared, Keys
  <2>4. Plan(calls[g].todo, calls[g].hours, requests - 1, Spared(kids, offered'))
    BY <2>2, <2>3 DEF Working, Plan, Planned
  <2>5. Unknown(offered', calls[g])
    <3>1. calls[g].parking \in ParkingIds \cup {NoId}
      BY DEF ParkInv, Handled, Call
    <3> QED
      BY <1>5, <3>1 DEF Unknown
  <2> QED
    BY <2>1, <2>2, <2>4, <2>5 DEF Working
<1> QED
  BY <1>4, <1>6, <1>7, <1>9 DEF HoursInv

LEMMA HoursThrown ==
    ASSUME ParkInv, HoursInv, NEW h \in Handlers, Throw(h)
    PROVE  HoursInv'
  BY HoursForgotten DEF Throw

LEMMA InsertKidsHours ==
    ASSUME ParkInv, ParkInv', HoursInv, NEW h \in Handlers, InsertKids(h)
    PROVE  HoursInv'
<1>1. CASE Throw(h)
  BY <1>1, HoursThrown
<1>2. CASE /\ kids' = kids \cup Fresh(calls[h], Query(h).keys)
           /\ Advance(h, calls[h])
           /\ UNCHANGED <<parkings, priced>>
  <2> DEFINE c == calls[h]
             q == Query(h)
             new == Fresh(c, q.keys)
  <2>1. At(h, "insert") /\ q.do = "insert"
    BY WorkingAt DEF InsertKids
  <2>2. kids' = kids \cup new
    BY <1>2
  <2> HIDE DEF c, q
  <2>3. Adds(q) = q.keys /\ Drops(q) = {} /\ Strikes(q) = {} /\ Fills(q) = {}
    BY <2>1 DEF Adds, Drops, Strikes, Fills
  <2>4. \A k \in new : k.key \in Adds(q) /\ k.parking = c.parking /\ k.slots = {}
    BY <2>3 DEF Fresh
  <2>5. ASSUME NEW key \in Adds(q) PROVE \E k \in new : k.key = key
    <3> DEFINE row == [key |-> key, parking |-> c.parking, slots |-> {}, flag |-> key[1] = "rule"]
    <3>1. row \in new /\ row.key = key
      BY <2>3 DEF Fresh
    <3> QED
      BY <3>1
  <2> HIDE DEF new
  <2>6. Changes(kids, kids', q, c)
    BY <2>2, <2>3, <2>4, <2>5 DEF Changes
  <2> QED
    BY <1>2, <2>1, <2>2, <2>4, <2>6, HoursKidsChanged DEF c, q
<1> QED
  BY <1>1, <1>2 DEF InsertKids

LEMMA FillHours ==
    ASSUME ParkInv, ParkInv', HoursInv, NEW h \in Handlers, FillSlots(h)
    PROVE  HoursInv'
<1>1. CASE Throw(h)
  BY <1>1, HoursThrown
<1>2. CASE /\ kids' = {IF k.key = Query(h).key
                       THEN [k EXCEPT !.slots = @ \cup Query(h).slots] ELSE k : k \in kids}
           /\ Advance(h, calls[h])
           /\ UNCHANGED <<parkings, priced>>
  <2> DEFINE q == Query(h)
             g(k) == IF k.key = q.key THEN [k EXCEPT !.slots = @ \cup q.slots] ELSE k
  <2>1. At(h, "fill") /\ q.do = "fill"
    BY WorkingAt DEF FillSlots
  <2>2. kids' = {g(k) : k \in kids}
    BY <1>2
  <2> HIDE DEF q
  <2>3. Adds(q) = {} /\ Drops(q) = {} /\ Strikes(q) = {} /\ Fills(q) = {q.key}
    BY <2>1 DEF Adds, Drops, Strikes, Fills
  <2>4. \A k \in kids : k \in Kid
    BY DEF ParkInv, Tables
  <2>5. ASSUME NEW k \in kids
        PROVE  /\ g(k).key = k.key /\ g(k).parking = k.parking
               /\ k.key # q.key => g(k).slots = k.slots
               /\ k.key = q.key => g(k).slots = k.slots \cup q.slots
    BY <2>4 DEF Kid
  <2> HIDE DEF g
  <2>6. Changes(kids, kids', q, calls[h])
    BY <2>2, <2>3, <2>5 DEF Changes
  <2>7. \A k \in kids' : \E j \in kids : j.key = k.key
    BY <2>2, <2>5
  <2> QED
    BY <1>2, <2>1, <2>6, <2>7, HoursKidsChanged DEF q
<1> QED
  BY <1>1, <1>2 DEF FillSlots

LEMMA ClearHours ==
    ASSUME ParkInv, ParkInv', HoursInv, NEW h \in Handlers, ClearSlots(h)
    PROVE  HoursInv'
<1> DEFINE q == Query(h)
           g(k) == IF k.key = q.row.key THEN [k EXCEPT !.slots = @ \ q.row.slots] ELSE k
<1>1. /\ At(h, "clear") /\ q.do = "clear"
      /\ Advance(h, calls[h]) /\ UNCHANGED <<parkings, priced>>
  BY WorkingAt DEF ClearSlots
<1>2. kids' = {g(k) : k \in kids}
  BY DEF ClearSlots
<1>8. Query(h) = q
  OBVIOUS
<1> HIDE DEF q
<1>3. Adds(q) = {} /\ Drops(q) = {} /\ Strikes(q) = {q.row.key} /\ Fills(q) = {}
  BY <1>1 DEF Adds, Drops, Strikes, Fills
<1>4. \A k \in kids : k \in Kid
  BY DEF ParkInv, Tables
<1>5. ASSUME NEW k \in kids
      PROVE  /\ g(k).key = k.key /\ g(k).parking = k.parking
             /\ k.key # q.row.key => g(k).slots = k.slots
  BY <1>4 DEF Kid
<1> HIDE DEF g
<1>6. Changes(kids, kids', q, calls[h])
  BY <1>2, <1>3, <1>5 DEF Changes
<1>7. \A k \in kids' : \E j \in kids : j.key = k.key
  BY <1>2, <1>5
<1> QED
  BY <1>1, <1>6, <1>7, <1>8, HoursKidsChanged

LEMMA DeleteKidsHours ==
    ASSUME ParkInv, ParkInv', HoursInv, NEW h \in Handlers, DeleteKids(h)
    PROVE  HoursInv'
<1> DEFINE q == Query(h)
<1>1. /\ At(h, "delete") /\ q.do = "delete"
      /\ Advance(h, calls[h]) /\ UNCHANGED <<parkings, priced>>
      /\ kids' = {k \in kids : k.key \notin q.keys}
  BY WorkingAt DEF DeleteKids
<1>2. Query(h) = q
  OBVIOUS
<1> HIDE DEF q
<1>3. Adds(q) = {} /\ Drops(q) = q.keys /\ Strikes(q) = q.keys /\ Fills(q) = {}
  BY <1>1 DEF Adds, Drops, Strikes, Fills
<1>4. Changes(kids, kids', q, calls[h])
  BY <1>1, <1>3 DEF Changes
<1> QED
  BY <1>1, <1>2, <1>4, HoursKidsChanged

\* The rows that are put back are no timetables.
LEMMA PutHours ==
    ASSUME ParkInv, ParkInv', HoursInv, NEW h \in Handlers, PutKid(h)
    PROVE  HoursInv'
<1> DEFINE q == Query(h)
<1>1. CASE Throw(h)
  BY <1>1, HoursThrown
<1>2. CASE /\ kids' = {k \in kids : k.key # q.row.key} \cup {q.row}
           /\ Advance(h, calls[h])
           /\ UNCHANGED <<parkings, priced>>
  <2>1. At(h, "put") /\ q.do = "put" /\ q \in AnyQuery
    BY WorkingAt, KnowsAt DEF PutKid
  <2>2. Query(h) = q
    OBVIOUS
  <2> HIDE DEF q
  <2>3. Adds(q) = {} /\ Drops(q) = {} /\ Strikes(q) = {} /\ Fills(q) = {}
    BY <2>1 DEF Adds, Drops, Strikes, Fills
  <2>4. Kind(q.row) \notin Timed
    BY <2>1, QueryFields DEF Flagged, Timed
  <2>5. Changes(kids, kids', q, calls[h])
    BY <1>2, <2>3, <2>4 DEF Changes, Kind
  <2> QED
    BY <1>2, <2>1, <2>2, <2>5, HoursKidsChanged
<1> QED
  BY <1>1, <1>2 DEF PutKid

----------------------------------------------------------------------------
(* The other queries                                                       *)

\* What comes after an opening query.
LEMMA OpeningTail ==
    ASSUME NEW c \in Call, c.todo # <<>>
    PROVE  /\ Counts(c.todo) => Tail(c.todo)[1].do = "insertParking"
           /\ Loads(c.todo) => Tail(c.todo)[1].do = "select"
           /\ Selects(c.todo) => Tail(c.todo)[1].do = "write"
<1>1. c.todo \in Seq(AnyQuery) /\ Len(c.todo) \in Nat
  BY DEF Call
<1>2. ASSUME Len(c.todo) >= 2 PROVE Tail(c.todo)[1] = c.todo[2]
  BY <1>1, <1>2, HeadTailProperties
<1>3. Counts(c.todo) \/ Loads(c.todo) \/ Selects(c.todo) => Len(c.todo) >= 2
  BY <1>1 DEF Counts, Loads, Selects, LateFrom
<1> QED
  BY <1>2, <1>3 DEF Counts, Loads, Selects

Quiet(q) == Adds(q) = {} /\ Drops(q) = {} /\ Fills(q) = {}

LEMMA QuietRest ==
    ASSUME NEW c \in Call, c.todo # <<>>, Quiet(Head(c.todo)), NEW rows, NEW n,
           Rebuilding(rows, c, n)
    PROVE  Rebuilding(rows, Rest(c), n)
<1>1. /\ Coming(c.todo) = Coming(Tail(c.todo))
      /\ Going(c.todo) = Going(Tail(c.todo))
      /\ Filling(c.todo) = Filling(Tail(c.todo))
  BY RestFields, AheadTail DEF Quiet
<1> QED
  BY <1>1, RestFields DEF Rebuilding

\* A query is over that changes no row when nothing overlaps it.
LEMMA HoursStay ==
    ASSUME ParkInv, ParkInv', HoursInv, NEW h \in Handlers, NEW c \in Call, NEW n \in Nat,
           requests = n + 1, calls[h] # Idle, calls[h].todo = c.todo, calls[h].hours = c.hours,
           calls[h].parking = c.parking, c.todo # <<>>, Quiet(Head(c.todo)),
           Advance(h, c), PricesKept,
           c.parking \in ParkingIds => priced'[c.parking] # {},
           Numbered(kids', requests), Numbered(c.entity.kids, requests),
           Numbered(c.stored.kids, requests),
           alone =>
                /\ kids' = kids
                /\ \A p \in ParkingIds : parkings[p] = Absent => parkings'[p] = Absent
                /\ UpToDate(parkings', kids', Rest(c))
    PROVE  HoursInv'
<1>1. ASSUME alone PROVE Leaves(parkings, kids, offered, parkings', kids', c, n)
  <2>1. kids' = kids
    BY <1>1
  <2>2. Working(parkings, kids, offered, calls[h], n)
    <3>1. requests - 1 = n
      OBVIOUS
    <3> QED
      BY <1>1, <3>1 DEF HoursInv
  <2>3. c.hours # Unset => Unknown(offered, c) /\ Rebuilding(kids, c, n)
    BY <2>2 DEF Working, Unknown, Rebuilding
  <2>4. c.hours # Unset => Unknown(offered, c) /\ Rebuilding(kids', Rest(c), n)
    BY <2>1, <2>3, QuietRest
  <2>5. \A k \in kids' : (Kind(k) \in Timed /\ offered[k.parking] # Unset) =>
            k.key \in Spared(kids, offered)
    BY <2>1 DEF Spared, Keys
  <2> QED
    BY <1>1, <2>1, <2>4, <2>5 DEF Leaves
<1> QED
  BY <1>1, HoursAdvanced

LEMMA CountHours ==
    ASSUME ParkInv, ParkInv', HoursInv, NEW h \in Handlers, CountParkings(h)
    PROVE  HoursInv'
<1>1. CASE Throw(h)
  BY <1>1, HoursThrown
<1>2. CASE Advance(h, calls[h]) /\ UNCHANGED <<parkings, kids, priced>>
  <2> DEFINE c == calls[h]
  <2>1. At(h, "count")
    BY DEF CountParkings
  <2>2. /\ c # Idle /\ c \in Call /\ c.todo # <<>> /\ Head(c.todo).do = "count"
        /\ CallNumbered(c, requests)
    BY <2>1, WorkingAt
  <2>3. PICK n \in Nat : requests = n + 1
    BY <2>1, WorkingAt
  <2>4. Counts(c.todo) /\ c.parking = NoId
    BY <2>1, KnowsAt
  <2>5. Advance(h, c) /\ c = calls[h]
    BY <1>2
  <2> HIDE DEF c
  <2>6. Quiet(Head(c.todo))
    BY <2>2 DEF Quiet, Adds, Drops, Fills
  <2>7. UpToDate(parkings', kids', Rest(c))
    BY <2>2, <2>4, OpeningTail, RestFields DEF UpToDate
  <2>8. PricesKept /\ Numbered(kids', requests)
    BY <1>2 DEF PricesKept, HoursInv, AllNumbered, Numbered
  <2>9. c.parking \notin ParkingIds
    BY <2>4, ParkConstants
  <2> QED
    BY <1>2, <2>2, <2>3, <2>5, <2>6, <2>7, <2>8, <2>9, HoursStay DEF CallNumbered
<1> QED
  BY <1>1, <1>2 DEF CountParkings

LEMMA OwnerHours ==
    ASSUME ParkInv, ParkInv', HoursInv, NEW h \in Handlers, CheckOwner(h)
    PROVE  HoursInv'
<1>1. CASE Throw(h)
  BY <1>1, HoursThrown
<1>2. CASE Advance(h, calls[h]) /\ UNCHANGED <<parkings, kids, priced>>
  <2> DEFINE c == calls[h]
  <2>1. At(h, "owner")
    BY DEF CheckOwner
  <2>2. /\ c # Idle /\ c \in Call /\ c.todo # <<>> /\ Head(c.todo).do = "owner"
        /\ CallNumbered(c, requests)
    BY <2>1, WorkingAt
  <2>3. PICK n \in Nat : requests = n + 1
    BY <2>1, WorkingAt
  <2>4. ChecksOwner(c.todo) /\ c.parking \in ParkingIds /\ priced[c.parking] # {}
    BY <2>1, KnowsAt
  <2>5. Advance(h, c) /\ c = calls[h]
    BY <1>2
  <2> HIDE DEF c
  <2>6. Quiet(Head(c.todo))
    BY <2>2 DEF Quiet, Adds, Drops, Fills
  <2>7. UpToDate(parkings', kids', Rest(c))
    BY <2>2, <2>4, LateIsUpToDate
  <2>8. PricesKept /\ Numbered(kids', requests)
    BY <1>2 DEF PricesKept, HoursInv, AllNumbered, Numbered
  <2> QED
    BY <1>2, <2>2, <2>3, <2>4, <2>5, <2>6, <2>7, <2>8, HoursStay DEF CallNumbered
<1> QED
  BY <1>1, <1>2 DEF CheckOwner

\* What is loaded is what is there.
LEMMA LoadHours ==
    ASSUME ParkInv, ParkInv', HoursInv, NEW h \in Handlers, LoadParking(h)
    PROVE  HoursInv'
<1> DEFINE c == calls[h]
           p == c.parking
           e == [Loaded(p) EXCEPT !.row.price = Query(h).price]
           d == [c EXCEPT !.entity = e]
<1>1. CASE Throw(h)
  BY <1>1, HoursThrown
<1>2. CASE parkings[p] # Absent /\ Advance(h, d) /\ UNCHANGED <<parkings, kids, priced>>
  <2>1. At(h, "load")
    BY DEF LoadParking
  <2>2. /\ c # Idle /\ c \in Call /\ c.todo # <<>> /\ Head(c.todo).do = "load"
        /\ CallNumbered(c, requests) /\ Query(h) = Head(c.todo)
    BY <2>1, WorkingAt
  <2>3. PICK n \in Nat : requests = n + 1
    BY <2>1, WorkingAt
  <2>4. /\ Loads(c.todo) /\ p \in ParkingIds /\ priced[p] # {} /\ Query(h).price \in Prices
    BY <2>1, KnowsAt, QueryFields
  <2>5. Loaded(p) \in Copy /\ Loaded(p).row = parkings[p] /\ parkings[p] \in Parking
    BY <1>2, <2>4, LoadedFits
  <2>6. Loaded(p).kids = RowsOf(kids, p)
    BY DEF Loaded, RowsOf
  <2> DEFINE l == Loaded(p)
             price == Query(h).price
             row == [l.row EXCEPT !.price = price]
  <2>7. Advance(h, d)
    BY <1>2
  <2> HIDE DEF l, price
  <2>8. e = [row |-> row, kids |-> l.kids] /\ row \in Parking
    BY <2>4, <2>5 DEF Copy, Parking, l, price
  <2> HIDE DEF row, e
  <2>9. e \in Copy /\ e.kids = RowsOf(kids, p)
    BY <2>5, <2>6, <2>8 DEF Copy, l
  <2>10. /\ d \in Call /\ d.todo = c.todo /\ d.parking = p /\ d.entity = e
         /\ d.hours = c.hours /\ d.stored = c.stored
    BY <2>2, <2>9 DEF Call
  <2>11. c = calls[h]
    OBVIOUS
  <2> HIDE DEF c, d
  <2>12. Quiet(Head(d.todo))
    BY <2>2, <2>10 DEF Quiet, Adds, Drops, Fills
  <2>13. UpToDate(parkings', kids', Rest(d))
    BY <1>2, <2>2, <2>4, <2>9, <2>10, OpeningTail, RestFields DEF UpToDate
  <2>14. PricesKept /\ Numbered(kids', requests) /\ Numbered(d.entity.kids, requests)
         /\ Numbered(d.stored.kids, requests)
    BY <1>2, <2>2, <2>9, <2>10 DEF PricesKept, HoursInv, AllNumbered, Numbered, RowsOf, CallNumbered
  <2>15. priced'[d.parking] # {}
    BY <1>2, <2>4, <2>10
  <2>16. calls[h] # Idle /\ calls[h].todo = d.todo /\ calls[h].hours = d.hours
         /\ calls[h].parking = d.parking /\ d.todo # <<>>
    BY <2>2, <2>10, <2>11 DEF p
  <2> QED
    BY <1>2, <2>3, <2>7, <2>10, <2>12, <2>13, <2>14, <2>15, <2>16, HoursStay
<1> QED
  BY <1>1, <1>2 DEF LoadParking

LEMMA SelectHours ==
    ASSUME ParkInv, ParkInv', HoursInv, NEW h \in Handlers, SelectParking(h)
    PROVE  HoursInv'
<1> DEFINE c == calls[h]
           p == c.parking
           s == Loaded(p)
           d == [c EXCEPT !.stored = s]
<1>1. At(h, "select") /\ Advance(h, d) /\ UNCHANGED <<parkings, kids, priced>>
  BY DEF SelectParking
<1>2. /\ c # Idle /\ c \in Call /\ c.todo # <<>> /\ Head(c.todo).do = "select"
      /\ CallNumbered(c, requests)
      /\ alone => Working(parkings, kids, offered, c, requests - 1)
  BY <1>1, WorkingAt
<1>3. PICK n \in Nat : requests = n + 1
  BY <1>1, WorkingAt
<1>4. Selects(c.todo) /\ p \in ParkingIds /\ priced[p] # {}
  BY <1>1, KnowsAt
<1>5. s \in Copy /\ s.row = parkings[p]
  BY <1>4, LoadedFits
<1>6. s.kids = RowsOf(kids, p)
  BY DEF Loaded, RowsOf
<1>11. c = calls[h]
  OBVIOUS
<1> HIDE DEF s
<1>7. /\ d \in Call /\ d.todo = c.todo /\ d.parking = p /\ d.entity = c.entity
      /\ d.hours = c.hours /\ d.stored = s
  BY <1>2, <1>5 DEF Call
<1> HIDE DEF c, d
<1>8. Quiet(Head(d.todo))
  BY <1>2, <1>7 DEF Quiet, Adds, Drops, Fills
<1>9. ASSUME alone PROVE UpToDate(parkings', kids', Rest(d))
  <2>1. Head(c.todo) = c.todo[1]
    BY <1>2, RestFields
  <2>2. parkings[p] # Absent /\ c.entity.kids = RowsOf(kids, p)
    BY <1>2, <1>9, <2>1 DEF Working, UpToDate, p
  <2> QED
    BY <1>1, <1>2, <1>4, <1>5, <1>6, <1>7, <2>2, OpeningTail, RestFields DEF UpToDate
<1>10. PricesKept /\ Numbered(kids', requests) /\ Numbered(d.entity.kids, requests)
       /\ Numbered(d.stored.kids, requests)
  BY <1>1, <1>2, <1>6, <1>7 DEF PricesKept, HoursInv, AllNumbered, Numbered, RowsOf, CallNumbered
<1>12. calls[h] # Idle /\ calls[h].todo = d.todo /\ calls[h].hours = d.hours
       /\ calls[h].parking = d.parking /\ d.todo # <<>>
  BY <1>2, <1>7, <1>11 DEF p
<1>13. priced'[d.parking] # {}
  BY <1>1, <1>4, <1>7
<1> QED
  BY <1>1, <1>3, <1>7, <1>8, <1>9, <1>10, <1>12, <1>13, HoursStay

\* A save that finds the rows it has loaded changes none of them.
LEMMA SavedAsLoaded ==
    ASSUME NEW e, NEW s, e.kids = s.kids, NEW rows \in SUBSET Kid
    PROVE  {Reslotted(k, e, s) : k \in rows} \cup Extra(e, s) = rows
<1>1. Extra(e, s) = {}
  BY DEF Extra, Keys
<1>2. ASSUME NEW k \in rows PROVE Reslotted(k, e, s) = k
  <2> DEFINE slots == TheRow(e.kids, k.key).slots
  <2>1. TheRow(s.kids, k.key).slots = slots
    OBVIOUS
  <2> HIDE DEF slots
  <2>2. (k.slots \ (slots \ slots)) \cup (slots \ slots) = k.slots
    OBVIOUS
  <2>3. [k EXCEPT !.slots = k.slots] = k
    BY DEF Kid
  <2> QED
    BY <2>1, <2>2, <2>3 DEF Reslotted, slots
<1> QED
  BY <1>1, <1>2

LEMMA WriteHours ==
    ASSUME ParkInv, ParkInv', HoursInv, NEW h \in Handlers, WriteParking(h)
    PROVE  HoursInv'
<1> DEFINE c == calls[h]
           p == c.parking
           e == c.entity
           s == c.stored
           row == IF s.row = Absent THEN e.row
                  ELSE Updated(parkings[p], e.row, Dirty(e.row, s.row))
           d == [c EXCEPT !.entity = Nothing, !.stored = Nothing]
<1>1. CASE Throw(h)
  BY <1>1, HoursThrown
<1>2. CASE /\ Store(p, row)
           /\ kids' = {Reslotted(k, e, s) : k \in kids} \cup Extra(e, s)
           /\ Advance(h, d)
  <2>1. At(h, "write")
    BY DEF WriteParking
  <2>2. /\ c # Idle /\ c \in Call /\ c.todo # <<>> /\ Head(c.todo).do = "write"
        /\ CallNumbered(c, requests)
        /\ alone => Working(parkings, kids, offered, c, requests - 1)
    BY <2>1, WorkingAt
  <2>3. PICK n \in Nat : requests = n + 1
    BY <2>1, WorkingAt
  <2>4. /\ p \in ParkingIds /\ Writes(c.todo) /\ e.row \in Parking
        /\ e \in Copy /\ s \in Copy
    BY <2>1, <2>2, KnowsAt DEF Saving, Call
  <2>5. Nothing \in Copy
    BY FS_EmptySet DEF Nothing, Copy
  <2>6. /\ d \in Call /\ d.todo = c.todo /\ d.parking = p /\ d.hours = c.hours
        /\ d.entity = Nothing /\ d.stored = Nothing
    BY <2>2, <2>5 DEF Call
  <2>7. Advance(h, d) /\ c = calls[h]
    BY <1>2
  <2>8. /\ kids \in SUBSET Kid
        /\ parkings[p] \in Parking \cup {Absent} /\ s.row \in Parking \cup {Absent}
    BY <2>4 DEF ParkInv, Tables, Copy
  <2>9. kids' = {Reslotted(k, e, s) : k \in kids} \cup Extra(e, s)
    BY <1>2
  <2> HIDE DEF c, d, e, s
  <2>10. row \in Parking \cup {Absent}
    BY <2>4, <2>8, SavedRow
  <2>11. /\ PricesKept /\ priced'[p] # {}
         /\ parkings' = [parkings EXCEPT ![p] = row]
    <3>1. Store(p, row)
      BY <1>2
    <3> HIDE DEF row, p
    <3> QED
      BY <2>4, <2>10, <3>1, Stored
  <2>12. Quiet(Head(d.todo))
    BY <2>2, <2>6 DEF Quiet, Adds, Drops, Fills
  <2>13. UpToDate(parkings', kids', Rest(d))
    BY <2>2, <2>4, <2>6, LateIsUpToDate
  <2>14. ASSUME alone
         PROVE  /\ kids' = kids
                /\ \A q \in ParkingIds : parkings[q] = Absent => parkings'[q] = Absent
    <3>1. Head(c.todo) = c.todo[1]
      BY <2>2, RestFields
    <3>2. parkings[p] # Absent /\ e.kids = RowsOf(kids, p) /\ s.kids = RowsOf(kids, p)
      BY <2>2, <2>14, <3>1 DEF Working, UpToDate, p, e, s
    <3>3. kids' = kids
      BY <2>8, <2>9, <3>2, SavedAsLoaded
    <3> HIDE DEF row
    <3> QED
      BY <2>11, <3>2, <3>3 DEF ParkInv, Tables
  <2>15. Numbered(kids', requests)
    <3>1. ASSUME NEW k \in kids PROVE Reslotted(k, e, s).key[2] < requests
      <4>1. Reslotted(k, e, s).key = k.key
        BY <2>4, <2>8, ReslottedFits DEF Copy
      <4> QED
        BY <4>1 DEF HoursInv, AllNumbered, Numbered
    <3>2. \A k \in Extra(e, s) : k.key[2] < requests
      BY <2>2 DEF Extra, CallNumbered, Numbered, e
    <3> QED
      BY <2>9, <3>1, <3>2 DEF Numbered
  <2>16. Numbered(d.entity.kids, requests) /\ Numbered(d.stored.kids, requests)
    BY <2>6 DEF Nothing, Numbered
  <2>17. calls[h] # Idle /\ calls[h].todo = d.todo /\ calls[h].hours = d.hours
         /\ calls[h].parking = d.parking /\ d.todo # <<>>
    BY <2>2, <2>6, <2>7 DEF p
  <2>18. priced'[d.parking] # {} /\ d \in Call /\ Advance(h, d)
    BY <2>6, <2>7, <2>11
  <2> QED
    BY <2>3, <2>11, <2>12, <2>13, <2>14, <2>15, <2>16, <2>17, <2>18, HoursStay
<1> QED
  BY <1>1, <1>2 DEF WriteParking

\* A new parking has no rows, and no hours have been promised of it.
LEMMA InsertParkingHours ==
    ASSUME ParkInv, ParkInv', HoursInv, NEW h \in Handlers, NEW p \in ParkingIds,
           InsertParking(h, p)
    PROVE  HoursInv'
<1> DEFINE c == calls[h]
           row == c.entity.row
           d == [c EXCEPT !.parking = p, !.entity = Nothing]
<1>1. /\ At(h, "insertParking") /\ Store(p, row) /\ Advance(h, d) /\ kids' = kids
      /\ priced[p] = {} /\ c = calls[h]
  BY DEF InsertParking
<1>2. /\ c # Idle /\ c \in Call /\ c.todo # <<>> /\ Head(c.todo).do = "insertParking"
      /\ CallNumbered(c, requests)
      /\ alone => Working(parkings, kids, offered, c, requests - 1)
  BY <1>1, WorkingAt
<1>3. PICK n \in Nat : requests = n + 1
  BY <1>1, WorkingAt
<1>4. Inserts(c.todo) /\ c.parking = NoId /\ row \in Parking
  BY <1>1, KnowsAt
<1>5. Nothing \in Copy
  BY FS_EmptySet DEF Nothing, Copy
<1>6. /\ d \in Call /\ d.todo = c.todo /\ d.parking = p /\ d.hours = c.hours
      /\ d.entity = Nothing /\ d.stored = c.stored
  BY <1>2, <1>5 DEF Call
<1> HIDE DEF c, d, row
<1>7. /\ PricesKept /\ priced'[p] # {}
      /\ parkings' = [parkings EXCEPT ![p] = row]
  BY <1>1, <1>4, Stored
<1>8. Quiet(Head(d.todo))
  BY <1>2, <1>6 DEF Quiet, Adds, Drops, Fills
<1>9. offered[p] = Unset
  BY <1>1 DEF HoursInv, Lonely
<1>10. \A k \in kids : k.parking # p /\ k.parking # NoId
  BY <1>1, KidFits, ParkConstants
<1>11. ASSUME alone PROVE Leaves(parkings, kids, offered, parkings', kids', d, n)
  <2>1. Working(parkings, kids, offered, c, n)
    <3>1. requests - 1 = n
      BY <1>3
    <3> QED
      BY <1>2, <1>11, <3>1
  <2>2. \A q \in ParkingIds : parkings[q] = Absent /\ parkings'[q] # Absent => offered[q] = Unset
    BY <1>7, <1>9 DEF ParkInv, Tables
  <2>3. d.hours # Unset => Unknown(offered, d) /\ Rebuilding(kids, d, n)
    <3>1. d.hours # Unset => Rebuilding(kids, c, n)
      BY <1>6, <2>1 DEF Working
    <3> QED
      BY <1>4, <1>6, <1>9, <1>10, <3>1 DEF Unknown, Rebuilding
  <2>4. d.hours # Unset => Unknown(offered, d) /\ Rebuilding(kids', Rest(d), n)
    BY <1>1, <1>2, <1>6, <1>8, <2>3, QuietRest
  <2>5. \A k \in kids' : (Kind(k) \in Timed /\ offered[k.parking] # Unset) =>
            k.key \in Spared(kids, offered)
    BY <1>1 DEF Spared, Keys
  <2>6. UpToDate(parkings', kids', Rest(d))
    BY <1>2, <1>4, <1>6, LateIsUpToDate
  <2> QED
    BY <1>1, <2>2, <2>4, <2>5, <2>6 DEF Leaves
<1>12. /\ Numbered(kids', requests) /\ Numbered(d.entity.kids, requests)
       /\ Numbered(d.stored.kids, requests)
  BY <1>1, <1>2, <1>6 DEF Nothing, HoursInv, AllNumbered, Numbered, CallNumbered
<1>13. calls[h] # Idle /\ calls[h].todo = d.todo /\ calls[h].hours = d.hours /\ d.todo # <<>>
  BY <1>1, <1>2, <1>6
<1> QED
  BY <1>1, <1>3, <1>6, <1>7, <1>11, <1>12, <1>13, HoursAdvanced

\* The rows of other parkings stay when one goes, and no handler with hours
\* removes its parking.
LEMMA DeleteParkingHours ==
    ASSUME ParkInv, ParkInv', HoursInv, NEW h \in Handlers, DeleteParking(h)
    PROVE  HoursInv'
<1> DEFINE c == calls[h]
           p == c.parking
<1>1. /\ At(h, "remove") /\ Store(p, Absent) /\ Advance(h, c)
      /\ kids' = {k \in kids : k.parking # p} /\ c = calls[h]
  BY DEF DeleteParking
<1>2. /\ c # Idle /\ c \in Call /\ c.todo # <<>> /\ Head(c.todo).do = "remove"
      /\ Head(c.todo) \in Range(c.todo)
      /\ CallNumbered(c, requests)
      /\ alone => Working(parkings, kids, offered, c, requests - 1)
  BY <1>1, WorkingAt
<1>3. PICK n \in Nat : requests = n + 1
  BY <1>1, WorkingAt
<1>4. NowLate(c.todo) /\ p \in ParkingIds
  BY <1>1, KnowsAt
<1> HIDE DEF c
<1>5. /\ PricesKept /\ priced'[p] # {}
      /\ parkings' = [parkings EXCEPT ![p] = Absent]
  BY <1>1, <1>4, Stored
<1>6. ASSUME alone PROVE Leaves(parkings, kids, offered, parkings', kids', c, n)
  <2>1. Working(parkings, kids, offered, c, n)
    <3>1. requests - 1 = n
      BY <1>3
    <3> QED
      BY <1>2, <1>6, <3>1
  <2>2. c.hours = Unset
    BY <1>2, <2>1 DEF Working, Plan, Planned
  <2>3. ASSUME NEW q \in ParkingIds, NEW r \in Nat, parkings'[q] # Absent,
               Timetable(kids, q, offered[q], r)
        PROVE  Timetable(kids', q, offered[q], r)
    <3>1. q # p
      BY <1>5, <2>3 DEF ParkInv, Tables
    <3>2. \A k \in kids : k.key \in Wanted(offered[q], r) => k.parking = q
      BY <2>3 DEF Timetable
    <3>3. \A k \in kids' : k \in kids
      BY <1>1
    <3>4. \A k \in kids : k.key \in Wanted(offered[q], r) => k \in kids'
      BY <1>1, <3>1, <3>2
    <3> QED
      BY <2>3, <3>3, <3>4, TimetableStays
  <2>4. \A q \in ParkingIds : parkings[q] = Absent => parkings'[q] = Absent
    BY <1>5 DEF ParkInv, Tables
  <2>5. \A k \in kids' : (Kind(k) \in Timed /\ offered[k.parking] # Unset) =>
            k.key \in Spared(kids, offered)
    BY <1>1 DEF Spared, Keys
  <2>6. UpToDate(parkings', kids', Rest(c))
    BY <1>2, <1>4, LateIsUpToDate
  <2> QED
    BY <2>2, <2>3, <2>4, <2>5, <2>6 DEF Leaves
<1>7. /\ Numbered(kids', requests) /\ Numbered(c.entity.kids, requests)
      /\ Numbered(c.stored.kids, requests)
  BY <1>1, <1>2 DEF HoursInv, AllNumbered, Numbered, CallNumbered
<1>8. calls[h] # Idle /\ calls[h].todo = c.todo /\ calls[h].hours = c.hours
  BY <1>1, <1>2
<1> QED
  BY <1>1, <1>2, <1>3, <1>5, <1>6, <1>7, <1>8, HoursAdvanced

LEMMA StepHours ==
    ASSUME ParkInv, ParkInv', HoursInv, NEW h \in Handlers, Step(h)
    PROVE  HoursInv'
<1>1. CASE CountParkings(h)
  BY <1>1, CountHours
<1>2. CASE \E p \in ParkingIds : InsertParking(h, p)
  BY <1>2, InsertParkingHours
<1>3. CASE InsertKids(h)
  BY <1>3, InsertKidsHours
<1>4. CASE FillSlots(h)
  BY <1>4, FillHours
<1>5. CASE ClearSlots(h)
  BY <1>5, ClearHours
<1>6. CASE DeleteKids(h)
  BY <1>6, DeleteKidsHours
<1>7. CASE PutKid(h)
  BY <1>7, PutHours
<1>8. CASE CheckOwner(h)
  BY <1>8, OwnerHours
<1>9. CASE LoadParking(h)
  BY <1>9, LoadHours
<1>10. CASE DeleteParking(h)
  BY <1>10, DeleteParkingHours
<1>11. CASE SelectParking(h)
  BY <1>11, SelectHours
<1>12. CASE WriteParking(h)
  BY <1>12, WriteHours
<1> QED
  BY <1>1, <1>2, <1>3, <1>4, <1>5, <1>6, <1>7, <1>8, <1>9, <1>10, <1>11, <1>12 DEF Step

----------------------------------------------------------------------------
(* Requests and the hours                                                  *)

LEMMA NumberedLater ==
    ASSUME NEW n \in Nat, NEW rows \in SUBSET Kid, Numbered(rows, n)
    PROVE  Numbered(rows, n + 1)
<1>1. \A k \in rows : k.key[2] \in Nat
  BY DEF Kid, Key
<1>2. \A i \in Nat : i < n => i < n + 1
  OBVIOUS
<1> QED
  BY <1>1, <1>2 DEF Numbered

LEMMA CallNumberedLater ==
    ASSUME NEW n \in Nat, NEW c \in Call, CallNumbered(c, n)
    PROVE  CallNumbered(c, n + 1)
<1>1. c.entity.kids \in SUBSET Kid /\ c.stored.kids \in SUBSET Kid
  BY DEF Call, Copy
<1>2. ASSUME NEW q \in Range(c.todo)
      PROVE  /\ \A key \in Adds(q) : key[2] \in Nat
             /\ q.do = "put" => q.row.key[2] \in Nat
  <2>1. q \in AnyQuery
    BY DEF Range, Call
  <2> QED
    BY <2>1, QueryFields DEF Adds, Kid, Key
<1>3. \A i \in Nat : i < n => i < n + 1
  OBVIOUS
<1> QED
  BY <1>1, <1>2, <1>3, NumberedLater DEF CallNumbered

LEMMA HoursAccepted ==
    ASSUME ParkInv, ParkInv', HoursInv, NEW h \in Handlers, NEW op, NEW hit, NEW c \in Call,
           Accept(h, op, hit, c),
           Numbered(c.entity.kids, requests), Numbered(c.stored.kids, requests),
           Plan(c.todo, c.hours, requests, Spared(kids, offered')),
           c.hours # Unset => Unknown(offered', c) /\ Rebuilding(kids, c, requests),
           UpToDate(parkings, kids, c)
    PROVE  HoursInv'
<1>1. /\ requests' = requests + 1 /\ requests \in Nat
      /\ alone' = (\A g \in Handlers : calls[g] = Idle)
      /\ offered' = [p \in ParkingIds |-> IF alone' /\ p \notin hit THEN offered[p] ELSE Unset]
      /\ calls' = [calls EXCEPT ![h] = c] /\ calls \in [Handlers -> Call]
      /\ parkings' = parkings /\ kids' = kids /\ priced' = priced
  BY DEF Accept, Goto, ParkInv, Handled
<1>2. calls'[h] = c /\ \A g \in Handlers : g # h => calls'[g] = calls[g]
  BY <1>1
<1>3. ASSUME NEW g \in Handlers, g # h PROVE CallNumbered(calls'[g], requests')
  <2>1. CallNumbered(calls[g], requests) /\ calls'[g] = calls[g] /\ calls[g] \in Call
    BY <1>1, <1>2, <1>3 DEF HoursInv, AllNumbered
  <2> QED
    BY <1>1, <2>1, CallNumberedLater
<1>4. \A rows \in SUBSET Kid : Numbered(rows, requests) => Numbered(rows, requests')
  BY <1>1, NumberedLater
<1>5. CallNumbered(c, requests')
  <2>1. ASSUME NEW q \in Range(c.todo)
        PROVE  /\ \A key \in Adds(q) : key[2] < requests'
               /\ q.do = "put" => q.row.key[2] < requests'
    <3>1. Planned(q, c.hours, requests, Spared(kids, offered'))
      BY DEF Plan
    <3>2. q.do = "put" => q.row.key[2] \in Nat /\ q.row.key[2] < requests
      <4>1. q \in AnyQuery
        BY DEF Range, Call
      <4> QED
        BY <3>1, <4>1, QueryFields DEF Planned, Kid, Key
    <3>3. \A i \in Nat : i < requests => i < requests'
      BY <1>1
    <3>4. requests < requests'
      BY <1>1
    <3> QED
      BY <3>1, <3>2, <3>3, <3>4 DEF Planned
  <2>2. c.entity.kids \in SUBSET Kid /\ c.stored.kids \in SUBSET Kid
    BY DEF Call, Copy
  <2> QED
    BY <1>4, <2>1, <2>2 DEF CallNumbered
<1>6. AllNumbered'
  <2>1. Numbered(kids', requests')
    BY <1>1, <1>4 DEF HoursInv, AllNumbered, ParkInv, Tables
  <2> QED
    BY <1>2, <1>3, <1>5, <2>1 DEF AllNumbered
<1>7. \A p \in ParkingIds :
        /\ offered'[p] # Unset => alone' /\ offered'[p] = offered[p] /\ offered[p] # Unset
        /\ ~alone' => offered'[p] = Unset
  BY <1>1
<1>8. alone' => \A g \in Handlers : calls'[g] # Idle => g = h
  BY <1>1, <1>2
<1>9. Lonely'
  <2>1. ~alone' => offered' = Forgotten'
    BY <1>1 DEF Forgotten
  <2>2. requests' > 0
    BY <1>1
  <2>3. \A p \in ParkingIds : offered'[p] # Unset => priced'[p] # {}
    BY <1>1, <1>7 DEF HoursInv, Lonely
  <2> QED
    BY <1>8, <2>1, <2>2, <2>3 DEF Lonely
<1>10. Settled'
  <2> SUFFICES ASSUME NEW p \in ParkingIds, offered'[p] # Unset, parkings'[p] # Absent
               PROVE  \E r \in 0..requests' :
                        /\ r < requests'
                        /\ \A g \in Handlers : calls'[g] # Idle => r + 1 < requests'
                        /\ Timetable(kids', p, offered'[p], r)
    BY DEF Settled
  <2>1. PICK r \in 0..requests : r < requests /\ Timetable(kids, p, offered[p], r)
    BY <1>1, <1>7 DEF HoursInv, Settled
  <2>2. r \in 0..requests' /\ r < requests' /\ r + 1 < requests'
    BY <1>1, <2>1
  <2> QED
    BY <1>1, <1>7, <2>1, <2>2
<1>11. Working(parkings, kids, offered', c, requests)
  BY DEF Working
<1>12. requests' - 1 = requests
  BY <1>1
<1>13. ASSUME alone', NEW g \in Handlers, calls'[g] # Idle
       PROVE  Working(parkings', kids', offered', calls'[g], requests' - 1)
  BY <1>1, <1>2, <1>8, <1>11, <1>12, <1>13
<1> QED
  BY <1>6, <1>9, <1>10, <1>13 DEF HoursInv

\* A request that asks for no hours and does not begin with a save.
LEMMA PlainAccepted ==
    ASSUME ParkInv, ParkInv', HoursInv, NEW h \in Handlers, NEW op, NEW hit, NEW c,
           Accept(h, op, hit, c), NEW todo,
           c.todo = todo, c.hours = Unset, c.entity = Nothing, c.stored = Nothing,
           Plan(todo, Unset, requests, Spared(kids, offered')),
           todo # <<>> => todo[1].do \notin {"select", "write"}
    PROVE  HoursInv'
<1>3. c \in Call
  <2>1. calls' = [calls EXCEPT ![h] = c] /\ calls \in [Handlers -> Call]
    BY DEF Accept, Goto, ParkInv, Handled
  <2> QED
    BY <2>1 DEF ParkInv, Handled
<1>1. Numbered(c.entity.kids, requests) /\ Numbered(c.stored.kids, requests)
  BY DEF Nothing, Numbered
<1>2. UpToDate(parkings, kids, c)
  BY DEF UpToDate
<1> QED
  BY <1>1, <1>2, <1>3, HoursAccepted

LEMMA SparedIsTimed ==
    ASSUME NEW rows, NEW known, NEW key \in Spared(rows, known)
    PROVE  key[1] \in Timed
  BY DEF Spared, Keys, Kind

LEMMA CreateHours ==
    ASSUME ParkInv, ParkInv', HoursInv, NEW h \in Handlers, NEW u \in Users, NEW ask \in Asks,
           Create(h, u, ask)
    PROVE  HoursInv'
<1> DEFINE row == [owner |-> u, price |-> ask.price]
           c == [Idle EXCEPT !.todo = CreateSteps(ask), !.user = u, !.hours = ask.hours,
                             !.entity.row = row]
<1>1. row \in Parking
  BY ParkConstants DEF Create, Parking
<1>2. Counts(CreateSteps(ask)) /\ requests \in Nat
  BY CreateStepsType DEF ParkInv, Handled
<1>3. Accept(h, "create", {}, c)
  BY DEF Create
<1>4. Nothing \in Copy /\ [row |-> row, kids |-> {}] \in Copy
  BY <1>1, FS_EmptySet DEF Nothing, Copy
<1> HIDE DEF row
<1> DEFINE entity == [Nothing EXCEPT !.row = row]
           d == [Idle EXCEPT !.todo = CreateSteps(ask), !.user = u, !.hours = ask.hours,
                             !.entity = entity]
<1>5. c = d /\ entity \in Copy /\ entity.kids = {}
  BY <1>4 DEF Idle, Nothing
<1>6. CreateSteps(ask) \in Seq(AnyQuery) /\ ask.hours \in HoursAsked
  BY <1>2 DEF Counts, LateFrom, HoursAsked
<1> HIDE DEF entity, c
<1>7. d \in Call
  BY <1>5, <1>6, IdleFits DEF Call
<1>8. /\ d.todo = CreateSteps(ask) /\ d.parking = NoId /\ d.entity = entity
      /\ d.stored = Nothing /\ d.hours = ask.hours
  BY IdleFits DEF Call, Idle
<1> HIDE DEF d
<1>9. Numbered(d.entity.kids, requests) /\ Numbered(d.stored.kids, requests)
  BY <1>5, <1>8 DEF Nothing, Numbered
<1>10. /\ Plan(d.todo, d.hours, requests, Spared(kids, offered'))
       /\ d.hours # Unset => Wanted(d.hours, requests) \subseteq Coming(d.todo)
  BY <1>2, <1>8, CreateStepsPlan
<1>11. ASSUME d.hours # Unset PROVE Unknown(offered', d) /\ Rebuilding(kids, d, requests)
  <2>1. \A k \in kids : k.parking # NoId
    BY KidFits, ParkConstants
  <2>2. \A k \in kids : k.key \notin Wanted(d.hours, requests)
    BY <1>2, WantedIsTimed DEF HoursInv, AllNumbered, Numbered
  <2> QED
    BY <1>8, <1>10, <1>11, <2>1, <2>2 DEF Unknown, Rebuilding
<1>12. UpToDate(parkings, kids, d)
  BY <1>2, <1>8 DEF UpToDate, Counts
<1> QED
  BY <1>3, <1>5, <1>7, <1>9, <1>10, <1>11, <1>12, HoursAccepted

LEMMA UpdateHours ==
    ASSUME ParkInv, ParkInv', HoursInv, NEW h \in Handlers, NEW p \in ParkingIds,
           NEW ask \in Asks, Update(h, p, ask)
    PROVE  HoursInv'
<1> DEFINE e == Loaded(p)
           entity == IF ask.price = Unset THEN e ELSE [e EXCEPT !.row.price = ask.price]
           todo == UpdateSteps(e.kids, ask)
           owner == parkings[p].owner
           c == [Idle EXCEPT !.todo = todo, !.user = owner, !.parking = p, !.hours = ask.hours,
                             !.entity = entity]
           hit == IF ask.hours = Unset THEN {} ELSE {p}
           spared == Spared(kids, offered')
<1>1. /\ e \in Copy /\ e.row = parkings[p] /\ parkings[p] \in Parking /\ parkings[p] # Absent
      /\ e.kids = RowsOf(kids, p) /\ requests \in Nat
  BY LoadedFits DEF Update, Loaded, RowsOf, ParkInv, Handled
<1>2. Accept(h, "update", hit, c)
  BY DEF Update
<1>3. ask.hours # Unset => offered'[p] = Unset
  BY <1>2 DEF Accept
<1> HIDE DEF hit
<1>4. e.kids \in SUBSET Kid /\ IsFiniteSet(e.kids)
  BY <1>1 DEF Copy
<1>5. Selects(todo) /\ todo \in Seq(AnyQuery)
  <2>1. Selects(todo)
    <3> HIDE DEF e
    <3> QED
      BY <1>1, <1>4, UpdateStepsType
  <2> QED
    BY <2>1 DEF Selects, LateFrom
<1>6. entity \in Copy /\ entity.kids = e.kids
  <2> HIDE DEF e
  <2>1. ASSUME ask.price # Unset
        PROVE  LET d == [e EXCEPT !.row.price = ask.price] IN d.kids = e.kids /\ d \in Copy
    <3> DEFINE row == [e.row EXCEPT !.price = ask.price]
    <3>1. row \in Parking
      BY <1>1, <2>1, ParkConstants DEF Parking
    <3>2. [e EXCEPT !.row.price = ask.price] = [row |-> row, kids |-> e.kids]
      BY <1>1 DEF Copy
    <3> HIDE DEF row
    <3> QED
      BY <1>1, <3>1, <3>2 DEF Copy
  <2> QED
    BY <1>1, <2>1
<1>7. owner \in Users /\ Nothing \in Copy /\ ask.hours \in HoursAsked
  BY <1>1, FS_EmptySet DEF Parking, Nothing, Copy, HoursAsked
<1>8. Numbered(e.kids, requests)
  BY <1>1 DEF RowsOf, Numbered, HoursInv, AllNumbered
<1>9. ASSUME ask.hours # Unset, NEW k \in e.kids, Kind(k) \in Timed, k.key \in spared PROVE FALSE
  <2>1. k.parking = p
    BY <1>1 DEF RowsOf
  <2>2. PICK j \in kids : j.key = k.key /\ Kind(j) \in Timed /\ offered'[j.parking] # Unset
    BY <1>9 DEF Spared, Keys
  <2>3. /\ j.parking \in ParkingIds /\ parkings[j.parking] # Absent
        /\ offered[j.parking] # Unset
    BY <1>2, <2>2, KidFits DEF ParkInv, Tables, KidsHang, Accept
  <2>4. PICK r \in 0..requests : Timetable(kids, j.parking, offered[j.parking], r)
    BY <2>3 DEF HoursInv, Settled
  <2>5. k \in kids
    BY <1>1 DEF RowsOf
  <2>6. k.parking = j.parking
    BY <2>2, <2>4, <2>5 DEF Timetable
  <2> QED
    BY <1>3, <1>9, <2>1, <2>2, <2>6
<1>10. /\ Plan(todo, ask.hours, requests, spared)
       /\ ask.hours # Unset =>
            /\ Wanted(ask.hours, requests) \subseteq Coming(todo)
            /\ \A k \in e.kids : Kind(k) \in Timed => k.key \in Going(todo)
  <2> HIDE DEF e
  <2>1. \A key \in spared : key[1] \in Timed
    BY SparedIsTimed
  <2> HIDE DEF spared
  <2> QED
    BY <1>1, <1>4, <1>8, <1>9, <2>1, UpdateStepsPlan
<1> HIDE DEF todo, entity, owner, e
<1>11. c \in Call
  BY <1>5, <1>6, <1>7, IdleFits DEF Call
<1>12. /\ c.todo = todo /\ c.parking = p /\ c.entity = entity /\ c.hours = ask.hours
       /\ c.stored = Nothing
  BY IdleFits DEF Call, Idle
<1> HIDE DEF c
<1>13. Numbered(c.entity.kids, requests) /\ Numbered(c.stored.kids, requests)
  BY <1>6, <1>8, <1>12 DEF Nothing, Numbered
<1>14. ASSUME c.hours # Unset PROVE Unknown(offered', c) /\ Rebuilding(kids, c, requests)
  <2>1. \A k \in kids : k.key \notin Wanted(c.hours, requests)
    BY <1>1, WantedIsTimed DEF HoursInv, AllNumbered, Numbered
  <2>2. \A k \in kids : k.parking = p /\ Kind(k) \in Timed => k \in e.kids
    BY <1>1 DEF RowsOf, Timed, Related
  <2> QED
    BY <1>3, <1>10, <1>12, <1>14, <2>1, <2>2 DEF Unknown, Rebuilding
<1>15. UpToDate(parkings, kids, c)
  BY <1>1, <1>5, <1>6, <1>12 DEF UpToDate, Selects
<1> QED
  BY <1>2, <1>10, <1>11, <1>12, <1>13, <1>14, <1>15, HoursAccepted DEF spared

\* The plan of a request that makes rows without slots.
LEMMA InsertedAccepted ==
    ASSUME ParkInv, ParkInv', HoursInv, NEW h \in Handlers, NEW op, NEW hit, NEW c,
           Accept(h, op, hit, c), NEW kind \in Kinds \ Timed, NEW values,
           c.todo = Inserted(kind, values),
           c.hours = Unset, c.entity = Nothing, c.stored = Nothing
    PROVE  HoursInv'
<1> DEFINE todo == Inserted(kind, values)
<1>1. todo # <<>> => todo[1].do \notin {"select", "write"}
  BY DEF Inserted
<1>2. c.todo = todo
  OBVIOUS
<1>3. Plan(todo, Unset, requests, Spared(kids, offered'))
  BY InsertedPlan
<1> HIDE DEF todo
<1> QED
  BY <1>1, <1>2, <1>3, PlainAccepted

LEMMA CreateRuleHours ==
    ASSUME ParkInv, ParkInv', HoursInv, NEW h \in Handlers, NEW p \in ParkingIds,
           CreateRule(h, p)
    PROVE  HoursInv'
<1> DEFINE todo == Inserted("rule", {0})
           c == [Idle EXCEPT !.todo = todo, !.user = parkings[p].owner, !.parking = p]
<1>1. Accept(h, "rule", {}, c)
  BY DEF CreateRule
<1> HIDE DEF todo
<1>2. c.todo = todo /\ c.hours = Unset /\ c.entity = Nothing /\ c.stored = Nothing
  BY DEF Idle
<1>3. "rule" \in Kinds \ Timed
  BY DEF Kinds, Related, Timed
<1> HIDE DEF c
<1> QED
  BY <1>1, <1>2, <1>3, InsertedAccepted DEF todo

LEMMA SuggestPriceHours ==
    ASSUME ParkInv, ParkInv', HoursInv, NEW h \in Handlers, NEW p \in ParkingIds,
           NEW price \in Prices, SuggestPrice(h, p, price)
    PROVE  HoursInv'
<1> DEFINE todo == Inserted("suggestion", {price})
           c == [Idle EXCEPT !.todo = todo, !.parking = p]
<1>1. Accept(h, "price", {}, c)
  BY DEF SuggestPrice
<1> HIDE DEF todo
<1>2. c.todo = todo /\ c.hours = Unset /\ c.entity = Nothing /\ c.stored = Nothing
  BY DEF Idle
<1>3. "suggestion" \in Kinds \ Timed
  BY DEF Kinds, Timed
<1> HIDE DEF c
<1> QED
  BY <1>1, <1>2, <1>3, InsertedAccepted DEF todo

LEMMA RemoveParkingHours ==
    ASSUME ParkInv, ParkInv', HoursInv, NEW h \in Handlers, NEW p \in ParkingIds,
           RemoveParking(h, p)
    PROVE  HoursInv'
<1> DEFINE q == [do |-> "remove"]
           todo == <<q>>
           c == [Idle EXCEPT !.todo = todo, !.user = parkings[p].owner, !.parking = p]
           spared == Spared(kids, offered')
<1>1. Accept(h, "remove", {}, c)
  BY DEF RemoveParking
<1>2. q.do = "remove" /\ todo[1] = q
  OBVIOUS
<1>3. Range(todo) = {q}
  BY RangeSingle
<1> HIDE DEF todo, q
<1>4. Adds(q) = {} /\ Planned(q, Unset, requests, spared)
  BY <1>2 DEF Planned, Adds, Strikes, Drops, Fills
<1>5. Plan(todo, Unset, requests, spared)
  BY <1>3, <1>4, PlanOf
<1>6. c.todo = todo /\ c.hours = Unset /\ c.entity = Nothing /\ c.stored = Nothing
  BY DEF Idle
<1> HIDE DEF c
<1> QED
  BY <1>1, <1>2, <1>5, <1>6, PlainAccepted

\* The owner is looked up, and then a row is changed or removed that is no
\* timetable.
LEMMA OwnerAccepted ==
    ASSUME ParkInv, ParkInv', HoursInv, NEW h \in Handlers, NEW op, NEW hit, NEW c,
           Accept(h, op, hit, c), NEW q,
           c.todo = <<[do |-> "owner"], q>>,
           c.hours = Unset, c.entity = Nothing, c.stored = Nothing,
           Adds(q) = {}, Planned(q, Unset, requests, Spared(kids, offered'))
    PROVE  HoursInv'
<1> DEFINE o == [do |-> "owner"]
           todo == <<o, q>>
           spared == Spared(kids, offered')
<1>1. o.do = "owner" /\ c.todo = todo
  OBVIOUS
<1> HIDE DEF o
<1>2. DOMAIN todo = {1, 2} /\ todo[1] = o /\ todo[2] = q
  OBVIOUS
<1> HIDE DEF todo
<1>3. Range(todo) = {o, q}
  BY <1>2 DEF Range
<1>4. Adds(o) = {} /\ Planned(o, Unset, requests, spared)
  BY <1>1 DEF Planned, Adds, Strikes, Drops, Fills
<1>5. Plan(todo, Unset, requests, spared)
  BY <1>3, <1>4, PlanOf
<1> QED
  BY <1>1, <1>2, <1>5, PlainAccepted

LEMMA ChangeRuleHours ==
    ASSUME ParkInv, ParkInv', HoursInv, NEW h \in Handlers, NEW u \in Users,
           NEW k \in OfKind(kids, "rule"), NEW active \in BOOLEAN, ChangeRule(h, u, k, active)
    PROVE  HoursInv'
<1> DEFINE row == [k EXCEPT !.flag = active]
           q == [do |-> "put", row |-> row]
           o == [do |-> "owner"]
           todo == <<o, q>>
           c == [Idle EXCEPT !.todo = todo, !.user = u, !.parking = k.parking]
<1>1. Accept(h, "rule", {}, c)
  BY DEF ChangeRule
<1>2. k \in kids /\ k \in Kid
  BY DEF OfKind, ParkInv, Tables
<1>3. row.key = k.key /\ k.key[2] < requests
  BY <1>2 DEF Kid, HoursInv, AllNumbered, Numbered
<1> HIDE DEF row
<1>4. q.do = "put" /\ q.row = row /\ todo = <<[do |-> "owner"], q>>
  OBVIOUS
<1> HIDE DEF q
<1>5. Adds(q) = {} /\ Planned(q, Unset, requests, Spared(kids, offered'))
  BY <1>3, <1>4 DEF Planned, Adds, Strikes, Drops, Fills
<1> HIDE DEF todo
<1>6. c.todo = todo /\ c.hours = Unset /\ c.entity = Nothing /\ c.stored = Nothing
  BY DEF Idle
<1> HIDE DEF c
<1> QED
  BY <1>1, <1>4, <1>5, <1>6, OwnerAccepted

LEMMA RemoveRuleHours ==
    ASSUME ParkInv, ParkInv', HoursInv, NEW h \in Handlers, NEW u \in Users,
           NEW k \in OfKind(kids, "rule"), RemoveRule(h, u, k)
    PROVE  HoursInv'
<1> DEFINE q == [do |-> "delete", keys |-> {k.key}]
           o == [do |-> "owner"]
           todo == <<o, q>>
           c == [Idle EXCEPT !.todo = todo, !.user = u, !.parking = k.parking]
<1>1. Accept(h, "rule", {}, c)
  BY DEF RemoveRule
<1>2. k.key[2] < requests /\ k.key[1] \notin Timed
  BY DEF OfKind, Kind, Timed, HoursInv, AllNumbered, Numbered
<1>3. k.key \notin Spared(kids, offered')
  BY <1>2, SparedIsTimed
<1>4. q.do = "delete" /\ q.keys = {k.key} /\ todo = <<[do |-> "owner"], q>>
  OBVIOUS
<1> HIDE DEF q
<1>5. Adds(q) = {} /\ Planned(q, Unset, requests, Spared(kids, offered'))
  BY <1>2, <1>3, <1>4 DEF Planned, Adds, Strikes, Drops, Fills
<1> HIDE DEF todo
<1>6. c.todo = todo /\ c.hours = Unset /\ c.entity = Nothing /\ c.stored = Nothing
  BY DEF Idle
<1> HIDE DEF c
<1> QED
  BY <1>1, <1>4, <1>5, <1>6, OwnerAccepted

LEMMA ApplyPriceSuggestionHours ==
    ASSUME ParkInv, ParkInv', HoursInv, NEW h \in Handlers, NEW k \in OfKind(kids, "suggestion"),
           ApplyPriceSuggestion(h, k)
    PROVE  HoursInv'
<1> DEFINE l == [do |-> "load", price |-> k.key[3]]
           a == [do |-> "select"]
           b == [do |-> "write"]
           row == [k EXCEPT !.flag = TRUE]
           q == [do |-> "put", row |-> row]
           t0 == <<l>> \o <<a, b>>
           todo == ApplySteps(k)
           c == [Idle EXCEPT !.todo = todo, !.parking = k.parking]
           spared == Spared(kids, offered')
           S == {l, a, b, q}
<1>1. Accept(h, "price", {}, c)
  BY DEF ApplyPriceSuggestion
<1>2. k \in kids /\ k \in Kid
  BY DEF OfKind, ParkInv, Tables
<1>3. row.key = k.key /\ k.key[2] < requests
  BY <1>2 DEF Kid, HoursInv, AllNumbered, Numbered
<1>4. l.do = "load" /\ a.do = "select" /\ b.do = "write" /\ q.do = "put" /\ q.row = row
  OBVIOUS
<1>5. todo = t0 \o <<q>>
  BY DEF ApplySteps, SaveParking
<1> HIDE DEF l, a, b, row, q, todo
<1>6. t0 \in Seq(S) /\ Len(t0) = 3 /\ t0[1] = l /\ t0[2] = a /\ t0[3] = b
  OBVIOUS
<1>7. <<q>> \in Seq(S) /\ Len(<<q>>) = 1
  OBVIOUS
<1> HIDE DEF t0, S
<1>8. Range(t0) = {l, a, b}
  <2>1. DOMAIN t0 = 1..3
    BY <1>6
  <2>2. 1..3 = {1, 2, 3}
    OBVIOUS
  <2> QED
    BY <1>6, <2>1, <2>2 DEF Range
<1>9. Range(todo) = {l, a, b, q} /\ todo[1] = l
  <2>1. Range(todo) = Range(t0) \cup Range(<<q>>)
    BY <1>5, <1>6, <1>7, RangeConcat
  <2>2. (t0 \o <<q>>)[1] = t0[1]
    BY <1>6, <1>7, ConcatProperties
  <2> QED
    BY <1>5, <1>6, <1>8, <2>1, <2>2, RangeSingle
<1>10. \A x \in {l, a, b, q} : Adds(x) = {} /\ Planned(x, Unset, requests, spared)
  BY <1>3, <1>4 DEF Planned, Adds, Strikes, Drops, Fills
<1>11. Plan(todo, Unset, requests, spared)
  BY <1>9, <1>10, PlanOf
<1>12. c.todo = todo /\ c.hours = Unset /\ c.entity = Nothing /\ c.stored = Nothing
  BY DEF Idle
<1> HIDE DEF c
<1> QED
  BY <1>1, <1>4, <1>9, <1>11, <1>12, PlainAccepted

LEMMA RequestsHours ==
    ASSUME ParkInv, ParkInv', HoursInv, NEW h \in Handlers,
           Request(h) \/ RuleRequest(h) \/ PriceRequest(h)
    PROVE  HoursInv'
<1>1. CASE Request(h)
  BY <1>1, CreateHours, UpdateHours, RemoveParkingHours DEF Request
<1>2. CASE RuleRequest(h)
  BY <1>2, CreateRuleHours, ChangeRuleHours, RemoveRuleHours DEF RuleRequest
<1>3. CASE PriceRequest(h)
  BY <1>3, SuggestPriceHours, ApplyPriceSuggestionHours DEF PriceRequest
<1> QED
  BY <1>1, <1>2, <1>3

LEMMA HoursStart == Init => HoursInv
<1> SUFFICES ASSUME Init PROVE HoursInv
  OBVIOUS
<1>1. requests = 0 /\ kids = {} /\ \A h \in Handlers : calls[h] = Idle
  BY DEF Init
<1>2. \A p \in ParkingIds : offered[p] = Unset
  BY DEF Init, Forgotten
<1>3. AllNumbered
  BY <1>1, RangeEmpty DEF AllNumbered, CallNumbered, Numbered, Idle, Nothing
<1>4. Lonely
  BY <1>1, <1>2 DEF Init, Lonely
<1>5. Settled
  BY <1>2 DEF Settled
<1> QED
  BY <1>1, <1>3, <1>4, <1>5 DEF HoursInv

\* HoursInv is inductive, given what handlers know: with no request in
\* progress the tables hold the hours last asked for, in rows that only that
\* request made; with one, what its queries still do leads there.
THEOREM HoursInvariance == Spec => []HoursInv
<1>1. Init => HoursInv
  BY HoursStart
<1>2. ParkInv /\ ParkInv' /\ HoursInv /\ [Next]_parkVars => HoursInv'
  <2> SUFFICES ASSUME ParkInv, ParkInv', HoursInv, [Next]_parkVars PROVE HoursInv'
    OBVIOUS
  <2>1. ASSUME NEW h \in Handlers,
               Request(h) \/ RuleRequest(h) \/ PriceRequest(h) \/ Step(h) \/ Fail(h)
        PROVE  HoursInv'
    <3>1. CASE Fail(h)
      BY <3>1, HoursForgotten DEF Fail
    <3> QED
      BY <2>1, <3>1, RequestsHours, StepHours
  <2>2. CASE UNCHANGED parkVars
    <3>1. AllNumbered' /\ Lonely' /\ Settled'
      BY <2>2 DEF HoursInv, AllNumbered, Lonely, Settled, Forgotten, parkVars
    <3> QED
      BY <2>2, <3>1 DEF HoursInv, parkVars
  <2> QED
    BY <2>1, <2>2 DEF Next
<1> QED
  BY <1>1, <1>2, ParkInvariance, PTL DEF Spec

\* What checkAvailability finds among the rows of a timetable.
LEMMA TimetableAnswers ==
    ASSUME ParkInv, NEW p \in ParkingIds, NEW hours, NEW r, Timetable(kids, p, hours, r),
           IsHours(hours), NEW q, q.day \in Days
    PROVE  LET dates == ExceptionsFor(hours, q.date)
           IN  IF dates = {}
               THEN CheckAvailability(p, q) <=> Covers(hours.week[q.day], q)
               ELSE \E i \in dates :
                        CheckAvailability(p, q) <=> OpensByException(hours.exceptions[i], q)
<1> DEFINE dates == ExceptionsFor(hours, q.date)
           d == q.day
           rows == RowsOf(kids, p)
           exceptions == {k \in OfKind(rows, "exception") : k.key[3].date = q.date}
           schedules == {k \in OfKind(rows, "schedule") : k.key[3] = d}
           chosen == CHOOSE k \in exceptions : TRUE
           day == CHOOSE k \in schedules : TRUE
<1>1. CheckAvailability(p, q) =
        IF exceptions # {}
        THEN chosen.key[3].available /\ (chosen.slots # {} => Covers(chosen.slots, q))
        ELSE schedules # {} /\ Covers(day.slots, q)
  <2>1. Loaded(p).kids = rows
    BY DEF Loaded, RowsOf
  <2> HIDE DEF rows
  <2> QED
    BY <2>1 DEF CheckAvailability
<1>2. \A k \in rows : k \in kids /\ (Kind(k) \in Timed => k.key \in Wanted(hours, r))
  BY DEF Timetable, RowsOf
<1>3. ASSUME NEW k \in kids, k.key \in Wanted(hours, r)
      PROVE  k.slots = WantedSlots(hours, k.key) /\ k \in rows
  BY <1>3, WantedIsTimed DEF Timetable, RowsOf, Kind, Timed, Related
<1>4. ASSUME NEW k \in schedules
      PROVE  hours.week[d] # {} /\ k.slots = hours.week[d]
  <2>1. k \in kids /\ k.key[1] = "schedule" /\ k.key[3] = d /\ k.key \in Wanted(hours, r)
    BY <1>2 DEF OfKind, Kind, Timed
  <2>2. PICK e \in Days : hours.week[e] # {} /\ k.key = <<"schedule", r, e>>
    <3>1. k.key \notin
            {<<"exception", r, ExceptionValue(hours, i)>> : i \in DOMAIN hours.exceptions}
      BY <2>1
    <3> QED
      BY <2>1, <3>1 DEF Wanted
  <2>3. k.slots = WantedSlots(hours, k.key)
    BY <1>3, <2>1
  <2> QED
    BY <2>1, <2>2, <2>3 DEF WantedSlots
<1>5. ASSUME hours.week[d] # {} PROVE schedules # {}
  <2> DEFINE key == <<"schedule", r, d>>
  <2>1. key \in Wanted(hours, r)
    BY <1>5 DEF Wanted
  <2>2. key[1] = "schedule" /\ key[3] = d
    OBVIOUS
  <2> HIDE DEF key
  <2>3. PICK k \in kids : k.key = key
    BY <2>1 DEF Timetable, Keys
  <2>4. k \in rows
    BY <1>3, <2>1, <2>3
  <2> QED
    BY <2>2, <2>3, <2>4 DEF OfKind, Kind
<1>6. ASSUME NEW k \in exceptions
      PROVE  \E i \in dates :
                /\ k.key[3].available = hours.exceptions[i].available
                /\ hours.exceptions[i].available => k.slots = hours.exceptions[i].slots
  <2>1. k \in kids /\ k.key[1] = "exception" /\ k.key[3].date = q.date /\ k.key \in Wanted(hours, r)
    BY <1>2 DEF OfKind, Kind, Timed
  <2>2. PICK i \in DOMAIN hours.exceptions : k.key = <<"exception", r, ExceptionValue(hours, i)>>
    <3>1. k.key \notin {<<"schedule", r, e>> : e \in {e \in Days : hours.week[e] # {}}}
      BY <2>1
    <3> QED
      BY <2>1, <3>1 DEF Wanted
  <2>3. k.slots = WantedSlots(hours, k.key)
    BY <1>3, <2>1
  <2>4. k.key[3] = ExceptionValue(hours, i)
    BY <2>2
  <2>5. /\ k.key[3].date = hours.exceptions[i].date
        /\ k.key[3].available = hours.exceptions[i].available /\ k.key[3].nth = i
    BY <2>4 DEF ExceptionValue
  <2>6. i \in dates
    BY <2>1, <2>5 DEF ExceptionsFor
  <2>7. hours.exceptions[i].available => k.slots = hours.exceptions[i].slots
    BY <2>1, <2>3, <2>5 DEF WantedSlots
  <2> HIDE DEF dates
  <2> QED
    BY <2>5, <2>6, <2>7
<1>7. ASSUME NEW i \in dates PROVE exceptions # {}
  <2> DEFINE key == <<"exception", r, ExceptionValue(hours, i)>>
  <2>1. i \in DOMAIN hours.exceptions /\ hours.exceptions[i].date = q.date
    BY DEF ExceptionsFor
  <2>2. key \in Wanted(hours, r) /\ key[1] = "exception" /\ key[3].date = q.date
    BY <2>1 DEF Wanted, ExceptionValue
  <2> HIDE DEF key
  <2>3. PICK k \in kids : k.key = key
    BY <2>2 DEF Timetable, Keys
  <2>4. k \in rows
    BY <1>3, <2>2, <2>3
  <2> QED
    BY <2>2, <2>3, <2>4 DEF OfKind, Kind
<1>8. (exceptions # {} => chosen \in exceptions) /\ (schedules # {} => day \in schedules)
  <2> HIDE DEF exceptions, schedules
  <2> QED
    OBVIOUS
<1>9. ~Covers({}, q)
  BY DEF Covers
<1> HIDE DEF dates, d, rows, exceptions, schedules, chosen, day
<1>10. CASE dates = {}
  <2>1. exceptions = {}
    BY <1>6, <1>10
  <2>2. CheckAvailability(p, q) <=> Covers(hours.week[d], q)
    BY <1>1, <1>4, <1>5, <1>8, <1>9, <2>1
  <2> QED
    BY <1>10, <2>2 DEF dates, d
<1>11. CASE dates # {}
  <2>1. exceptions # {} /\ chosen \in exceptions
    BY <1>7, <1>8, <1>11
  <2>2. PICK i \in dates :
            /\ chosen.key[3].available = hours.exceptions[i].available
            /\ hours.exceptions[i].available => chosen.slots = hours.exceptions[i].slots
    BY <1>6, <2>1
  <2>3. CheckAvailability(p, q) <=> OpensByException(hours.exceptions[i], q)
    BY <1>1, <2>1, <2>2 DEF OpensByException
  <2> QED
    BY <1>11, <2>2, <2>3 DEF dates
<1> QED
  BY <1>10, <1>11

\* A create or update of the hours that nothing overlaps leaves the parking
\* open at exactly the hours asked for, whatever the requests before it have
\* left in the tables, until the next one: the schedules and exceptions that
\* update loaded are removed before the new ones come, and every request but
\* one that asks for hours leaves them alone.
THEOREM HoursAreAsAsked == Spec => []OpenAsAsked
<1>1. ParkInv /\ HoursInv => OpenAsAsked
  <2> SUFFICES ASSUME ParkInv, HoursInv, NEW p \in ParkingIds, parkings[p] # Absent,
                      offered[p] # Unset, NEW q \in Queries
               PROVE  LET hours == offered[p]
                          dates == ExceptionsFor(hours, q.date)
                      IN  IF dates = {}
                          THEN CheckAvailability(p, q) <=> Covers(hours.week[q.day], q)
                          ELSE \E i \in dates :
                                  CheckAvailability(p, q)
                                    <=> OpensByException(hours.exceptions[i], q)
    BY DEF OpenAsAsked
  <2>1. PICK r \in 0..requests : Timetable(kids, p, offered[p], r)
    BY DEF HoursInv, Settled
  <2>2. IsHours(offered[p])
    BY ParkConstants DEF ParkInv, Handled, HoursAsked
  <2>3. q.day \in Days
    BY ParkConstants
  <2> QED
    BY <2>1, <2>2, <2>3, TimetableAnswers
<1> QED
  BY <1>1, ParkInvariance, HoursInvariance, PTL
=============================================================================
