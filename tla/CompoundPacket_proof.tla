------------------------ MODULE CompoundPacket_proof ------------------------
(***************************************************************************)
(* RTCP compound packets: whatever calls the builder takes, with whatever  *)
(* arguments, the parser takes what it laid out apart into what it was      *)
(* given (BuildIsRead), and whatever comes in, the walk over what the       *)
(* constructor of an SDES packet accepts stays inside it                    *)
(* (WalkStaysInside).  First the recursive functions of the model, then the *)
(* walks of the parser, each kind of packet, the whole packet, and the      *)
(* invariant of the builder.                                                *)
(***************************************************************************)
EXTENDS RtcpReports, SequenceTheorems, WellFoundedInduction, TLAPS

\* Division by the limit, as C and TLA+ agree on it for natural numbers.
LEMMA Division ==
    ASSUME NEW n \in Nat, NEW l \in Nat \ {0}
    PROVE  /\ n \div l \in Nat
           /\ n % l \in 0 .. l - 1
           /\ n = (n \div l) * l + (n % l)
  OBVIOUS

\* A larger factor gives a larger product.
LEMMA Product ==
    ASSUME NEW a \in Nat, NEW b \in Nat, NEW l \in Nat, a <= b
    PROVE  a * l \in Nat /\ a * l <= b * l
  OBVIOUS

\* One sequence behind another.
LEMMA Joined ==
    ASSUME NEW D, NEW s \in Seq(D), NEW t \in Seq(D)
    PROVE  /\ s \o t \in Seq(D) /\ Len(s) \in Nat /\ Len(t) \in Nat
           /\ Len(s \o t) = Len(s) + Len(t)
           /\ \A i \in 1 .. Len(s) : (s \o t)[i] = s[i]
           /\ \A i \in 1 .. Len(t) : (s \o t)[Len(s) + i] = t[i]
<1>1. Len(s) \in Nat /\ Len(t) \in Nat
  BY LenProperties
<1>2. /\ s \o t \in Seq(D) /\ Len(s \o t) = Len(s) + Len(t)
      /\ \A i \in 1 .. Len(s) + Len(t) :
            (s \o t)[i] = IF i <= Len(s) THEN s[i] ELSE t[i - Len(s)]
  BY ConcatProperties
<1>3. ASSUME NEW i \in 1 .. Len(t) PROVE (s \o t)[Len(s) + i] = t[i]
  <2>1. /\ Len(s) + i \in 1 .. Len(s) + Len(t) /\ ~(Len(s) + i <= Len(s))
        /\ (Len(s) + i) - Len(s) = i
    BY <1>1
  <2> QED
    BY <1>2, <2>1
<1> QED
  BY <1>1, <1>2, <1>3

LEMMA Counting ==
    ASSUME NEW S, 0 \in S, \A k \in Nat : k \in S => k + 1 \in S
    PROVE  Nat \subseteq S
<1> DEFINE B == Nat \ S
<1> SUFFICES ASSUME B # {} PROVE FALSE
  OBVIOUS
<1>1. B \subseteq Nat
  OBVIOUS
<1>2. PICK m \in B : \A k \in B : <<k, m>> \notin OpToRel(<, Nat)
  <2> HIDE DEF B
  <2> QED
    BY <1>1, NatLessThanWellFounded, WFMin
<1>3. m \in Nat /\ m # 0 /\ m - 1 \in Nat /\ m = (m - 1) + 1
  OBVIOUS
<1>4. <<m - 1, m>> \in OpToRel(<, Nat)
  BY <1>3 DEF OpToRel
<1>5. m - 1 \in S
  BY <1>2, <1>3, <1>4
<1> QED
  BY <1>3, <1>5

\* The greatest of a set of places.
LEMMA Greatest ==
    ASSUME NEW n \in Nat, NEW s \in SUBSET (1 .. n), s # {}
    PROVE  /\ Max(s) \in s /\ \A y \in s : Max(s) >= y
           /\ \A k \in Nat : s \in SUBSET (1 .. k + 1) => s \ {Max(s)} \in SUBSET (1 .. k)
<1> DEFINE S == {k \in Nat : \A r \in SUBSET (1 .. k) : r # {} => \E x \in r : \A y \in r : x >= y}
<1>1. 0 \in S
  <2>1. 1 .. 0 = {}
    OBVIOUS
  <2> QED
    BY <2>1
<1>2. ASSUME NEW k \in Nat, k \in S PROVE k + 1 \in S
  <2> SUFFICES ASSUME NEW r \in SUBSET (1 .. k + 1), r # {} PROVE \E x \in r : \A y \in r : x >= y
    OBVIOUS
  <2>1. CASE k + 1 \in r
    BY <2>1
  <2>2. CASE k + 1 \notin r
    <3>1. r \in SUBSET (1 .. k)
      BY <2>2
    <3> QED
      BY <1>2, <3>1
  <2> QED
    BY <2>1, <2>2
<1>3. n \in S
  <2> HIDE DEF S
  <2> QED
    BY <1>1, <1>2, Counting
<1>4. Max(s) \in s /\ \A y \in s : Max(s) >= y
  BY <1>3 DEF Max
<1>5. ASSUME NEW k \in Nat, s \in SUBSET (1 .. k + 1) PROVE s \ {Max(s)} \in SUBSET (1 .. k)
  <2> SUFFICES ASSUME NEW y \in s, y # Max(s) PROVE y \in 1 .. k
    OBVIOUS
  <2>1. y \in 1 .. k + 1 /\ Max(s) \in 1 .. k + 1 /\ Max(s) >= y
    BY <1>4, <1>5
  <2> QED
    BY <2>1
<1> QED
  BY <1>4, <1>5
-----------------------------------------------------------------------------
(* Recursive functions.                                                      *)

\* The folds of the reports, over the places of a sequence.
Visit(a, acc, i) ==
    IF a.kind = "blocks" THEN VisitSource(acc, a.seq[i], a.limit) ELSE VisitItem(acc, a.seq[i], a.limit)

\* What a recursive function f of the models is at x; a is what it takes besides.
Turn(kind, a, f, x) ==
    IF kind = "flatten" THEN (IF x = 1 THEN a[x] ELSE f[x - 1] \o a[x])
    ELSE IF kind = "total" THEN (IF x = {} THEN 0 ELSE f[x \ {Max(x)}] + a[Max(x)])
    ELSE IF kind = "adds" THEN (IF x = 0 THEN 0 ELSE f[x - 1] + a[x])
    ELSE IF kind = "end" THEN
      (IF x >= a[2] THEN Outside
       ELSE IF At0(a[1], x) = 0 THEN (IF RoundUp(x + 1) > a[2] THEN Outside ELSE RoundUp(x + 1))
       ELSE IF x + SDESHeader > a[2] \/ x + SDESHeader + At0(a[1], x + 1) > a[2] THEN Outside
       ELSE f[x + SDESHeader + At0(a[1], x + 1)])
    ELSE IF kind = "items" THEN
      (LET e == x + SDESHeader + At0(a, x + 1)
       IN  IF x >= Len(a) THEN <<<<Outside>>>>
           ELSE IF At0(a, x) = 0 THEN <<>>
           ELSE IF x + 1 >= Len(a) THEN <<<<Outside>>>>
           ELSE <<SubSeq(a, x + 1, e)>> \o f[e])
    ELSE IF kind = "chunks" THEN
      (LET o == f[x - 1]
       IN  IF x = 0 THEN Header
           ELSE IF o = Outside \/ a[2] - o < 2 * SSRC THEN Outside
           ELSE EndOfItems(a[1], o + SSRC, a[2]))
    ELSE IF kind = "at" THEN (IF x = 0 THEN Header ELSE NextChunk(a, f[x - 1]))
    ELSE IF kind = "parse" THEN
      (LET next == From(a, x)
           rest == f[x + LengthOf(next)]
       IN  IF next = <<>> THEN [ok |-> TRUE, packets |-> <<>>]
           ELSE IF ~ValidHeader(next) \/ ~rest.ok THEN Invalid
           ELSE [rest EXCEPT !.packets = <<SubSeq(next, 1, LengthOf(next))>> \o @])
    ELSE IF kind = "kept" THEN
      (IF x = 0 THEN <<>>
       ELSE IF TypeOf(a[1][x]) \in a[2] THEN Append(f[x - 1], a[1][x])
       ELSE f[x - 1])
    ELSE IF kind = "fold" THEN (IF x = {} THEN a.base ELSE Visit(a, f[x \ {Max(x)}], Max(x)))
    ELSE f[x]

\* On S it goes back to smaller arguments, by the measure m.
Measured(kind, a, S, m) ==
    /\ \A x \in S : m[x] \in Nat
    /\ \A f, g : \A x \in S :
          (\A y \in S : m[y] < m[x] => f[y] = g[y]) => Turn(kind, a, f, x) = Turn(kind, a, g, x)

IsTurn(f, kind, a, S) == f = [x \in S |-> Turn(kind, a, f, x)]

\* Then there is such a function.
LEMMA Recursion ==
    ASSUME NEW kind, NEW a, NEW S, NEW m, Measured(kind, a, S, m)
    PROVE  \E f : IsTurn(f, kind, a, S)
<1> DEFINE T(f, x) == Turn(kind, a, f, x)
           Good(g, k) == \A x \in S : m[x] < k => g[x] = T(g, x)
           K == {k \in Nat : \E g : Good(g, k)}
<1>0. \A f, g : \A x \in S : (\A y \in S : m[y] < m[x] => f[y] = g[y]) => T(f, x) = T(g, x)
  BY Zenon DEF Measured
<1>m. \A x \in S : m[x] \in Nat
  BY DEF Measured
<1> USE <1>m
<1> HIDE DEF T
<1>1. 0 \in K
  <2>1. Good([x \in S |-> 0], 0)
    OBVIOUS
  <2> QED
    BY <2>1
<1>2. ASSUME NEW k \in Nat, k \in K PROVE k + 1 \in K
  <2>1. PICK g : Good(g, k)
    BY <1>2
  <2> DEFINE h == [x \in S |-> T(g, x)]
  <2>2. \A x \in S : h[x] = T(g, x)
    OBVIOUS
  <2> HIDE DEF h
  <2>3. \A x \in S : m[x] < k => h[x] = g[x]
    BY <2>1, <2>2
  <2>4. ASSUME NEW x \in S, m[x] < k + 1 PROVE h[x] = T(h, x)
    <3>1. \A y \in S : m[y] < m[x] => m[y] < k
      BY <2>4
    <3>2. \A y \in S : m[y] < m[x] => h[y] = g[y]
      BY <2>3, <3>1
    <3>3. T(h, x) = T(g, x)
      BY <1>0, <3>2, Zenon
    <3> QED
      BY <2>2, <3>3
  <2>5. Good(h, k + 1)
    BY <2>4
  <2> QED
    BY <2>5
<1>3. \A k \in Nat : \E g : Good(g, k)
  <2>1. Nat \subseteq K
    <3> HIDE DEF K
    <3> QED
      BY <1>1, <1>2, Counting
  <2> QED
    BY <2>1
<1>4. ASSUME NEW k \in Nat, NEW l \in Nat, k <= l, NEW g, NEW h, Good(g, k), Good(h, l)
      PROVE  \A x \in S : m[x] < k => g[x] = h[x]
  <2> DEFINE J == {j \in Nat : \A x \in S : m[x] < j /\ m[x] < k => g[x] = h[x]}
  <2>1. 0 \in J
    OBVIOUS
  <2>2. ASSUME NEW j \in Nat, j \in J PROVE j + 1 \in J
    <3> SUFFICES ASSUME NEW x \in S, m[x] < j + 1, m[x] < k PROVE g[x] = h[x]
      OBVIOUS
    <3>1. \A y \in S : m[y] < m[x] => m[y] < j /\ m[y] < k
      OBVIOUS
    <3>2. \A y \in S : m[y] < m[x] => g[y] = h[y]
      BY <2>2, <3>1
    <3>3. T(g, x) = T(h, x)
      BY <1>0, <3>2, Zenon
    <3>4. g[x] = T(g, x) /\ h[x] = T(h, x)
      BY <1>4
    <3> QED
      BY <3>3, <3>4
  <2>3. k \in J
    <3> HIDE DEF J
    <3> QED
      BY <2>1, <2>2, Counting
  <2> QED
    BY <2>3
<1> DEFINE Upto(x) == CHOOSE g : Good(g, m[x] + 1)
           F == [x \in S |-> Upto(x)[x]]
<1>5. \A x \in S : Good(Upto(x), m[x] + 1)
  <2>1. \A x \in S : \E g : Good(g, m[x] + 1)
    BY <1>3
  <2> HIDE DEF Good
  <2> QED
    BY <2>1
<1>6. \A x \in S : F[x] = Upto(x)[x]
  OBVIOUS
<1> HIDE DEF Upto, F
<1>7. ASSUME NEW x \in S PROVE F[x] = T(F, x)
  <2>1. Upto(x)[x] = T(Upto(x), x)
    BY <1>5
  <2>2. ASSUME NEW y \in S, m[y] < m[x] PROVE F[y] = Upto(x)[y]
    <3>1. m[y] + 1 \in Nat /\ m[x] + 1 \in Nat /\ m[y] + 1 <= m[x] + 1 /\ m[y] < m[y] + 1
      BY <2>2
    <3>2. Good(Upto(y), m[y] + 1) /\ Good(Upto(x), m[x] + 1)
      BY <1>5, Zenon
    <3> HIDE DEF Good
    <3>3. Upto(y)[y] = Upto(x)[y]
      BY <1>4, <3>1, <3>2
    <3> QED
      BY <1>6, <3>3
  <2>3. T(F, x) = T(Upto(x), x)
    BY <1>0, <2>2, Zenon
  <2> QED
    BY <1>6, <2>1, <2>3
<1>8. F = [x \in S |-> T(F, x)]
  <2>1. DOMAIN F = S /\ F = [x \in S |-> F[x]]
    BY DEF F
  <2> QED
    BY <1>7, <2>1
<1>9. \E f : f = [x \in S |-> T(f, x)]
  BY <1>8
<1> QED
  BY <1>9 DEF T, IsTurn

\* Each of its values.
LEMMA TurnAt ==
    ASSUME NEW kind, NEW a, NEW S, NEW f, IsTurn(f, kind, a, S)
    PROVE  \A x \in S : f[x] = Turn(kind, a, f, x)
<1> DEFINE T(x) == Turn(kind, a, f, x)
<1>1. f = [x \in S |-> T(x)]
  BY DEF IsTurn
<1> HIDE DEF T
<1>2. \A x \in S : f[x] = T(x)
  BY <1>1
<1> QED
  BY <1>2 DEF T
-----------------------------------------------------------------------------
(* One sequence made of many.                                               *)

\* f[k] is what the first k sequences of q make.
Flat(f, q) == f[0] = <<>> /\ \A k \in Nat : k < Len(q) => f[k + 1] = f[k] \o q[k + 1]

LEMMA FlatExists ==
    ASSUME NEW D, NEW q \in Seq(Seq(D))
    PROVE  \E f : Flat(f, q) /\ FlattenSeq(q) = f[Len(q)]
<1>0. Len(q) \in Nat /\ \A i \in 1 .. Len(q) : q[i] \in Seq(D)
  BY LenProperties, ElementOfSeq
<1>1. CASE Len(q) = 0
  <2> DEFINE f == [k \in Nat |-> <<>>]
  <2>1. q = <<>>
    BY <1>1, EmptySeq
  <2>2. Flat(f, q) /\ FlattenSeq(q) = f[Len(q)]
    <3>1. FlattenSeq(q) = q
      BY <1>1 DEF FlattenSeq
    <3> QED
      BY <1>1, <2>1, <3>1 DEF Flat
  <2> QED
    BY <2>2
<1>2. CASE Len(q) # 0
  <2> DEFINE Is(f) == f = [i \in 1 .. Len(q) |-> IF i = 1 THEN q[i] ELSE f[i - 1] \o q[i]]
             h == CHOOSE f : Is(f)
             m == [i \in 1 .. Len(q) |-> i]
             T(f, i) == IF i = 1 THEN q[i] ELSE f[i - 1] \o q[i]
  <2>1. FlattenSeq(q) = h[Len(q)]
    BY <1>2, Zenon DEF FlattenSeq
  <2>2. \E f : Is(f)
    <3>1. \A i \in 1 .. Len(q) : m[i] \in Nat
      OBVIOUS
    <3>2. \A f, g : \A x \in 1 .. Len(q) :
              (\A y \in 1 .. Len(q) : m[y] < m[x] => f[y] = g[y])
                 => Turn("flatten", q, f, x) = Turn("flatten", q, g, x)
      <4> SUFFICES ASSUME NEW f, NEW g, NEW x \in 1 .. Len(q),
                          \A y \in 1 .. Len(q) : m[y] < m[x] => f[y] = g[y]
                   PROVE  Turn("flatten", q, f, x) = Turn("flatten", q, g, x)
        BY Zenon
      <4>1. CASE x = 1
        BY <4>1 DEF Turn
      <4>2. CASE x # 1
        <5>1. x - 1 \in 1 .. Len(q) /\ x - 1 < x
          BY <1>0, <4>2
        <5>2. f[x - 1] = g[x - 1]
          BY <5>1
        <5> QED
          BY <5>2 DEF Turn
      <4> QED
        BY <4>1, <4>2
    <3> HIDE DEF m
    <3>x. Measured("flatten", q, 1 .. Len(q), m)
      BY <3>1, <3>2, Zenon DEF Measured
    <3>3. \E f : IsTurn(f, "flatten", q, 1 .. Len(q))
      BY <3>x, Recursion, Zenon
    <3>4. \A f : IsTurn(f, "flatten", q, 1 .. Len(q)) => Is(f)
      BY DEF Turn, IsTurn
    <3> QED
      BY <3>3, <3>4
  <2>3. Is(h)
    <3> HIDE DEF Is
    <3> QED
      BY <2>2
  <2>4. \A i \in 1 .. Len(q) : h[i] = T(h, i)
    <3>1. h = [i \in 1 .. Len(q) |-> T(h, i)]
      BY <2>3
    <3> HIDE DEF h, T
    <3> QED
      BY <3>1
  <2> HIDE DEF h
  <2> DEFINE f == [k \in Nat |-> IF k = 0 THEN <<>> ELSE h[k]]
  <2>5. f[0] = <<>> /\ f[Len(q)] = h[Len(q)]
    BY <1>0, <1>2
  <2>6. ASSUME NEW k \in Nat, k < Len(q) PROVE f[k + 1] = f[k] \o q[k + 1]
    <3>1. k + 1 \in 1 .. Len(q) /\ k + 1 # 0 /\ (k + 1) - 1 = k
      BY <1>0, <2>6
    <3>2. f[k + 1] = h[k + 1]
      BY <3>1
    <3>3. CASE k = 0
      <4>1. h[1] = q[1] /\ q[1] \in Seq(D)
        BY <1>0, <2>4, <3>1, <3>3
      <4>2. <<>> \o q[1] = q[1]
        BY <4>1, ConcatEmptySeq
      <4> QED
        BY <2>5, <3>2, <3>3, <4>1, <4>2
    <3>4. CASE k # 0
      <4>1. f[k] = h[k]
        BY <3>4
      <4>2. h[k + 1] = h[k] \o q[k + 1]
        <5>1. k + 1 # 1
          BY <3>4
        <5> QED
          BY <2>4, <3>1, <5>1
      <4> QED
        BY <3>2, <4>1, <4>2
    <3> QED
      BY <3>3, <3>4
  <2> HIDE DEF f
  <2>7. Flat(f, q)
    BY <2>5, <2>6 DEF Flat
  <2> QED
    BY <2>1, <2>5, <2>7
<1> QED
  BY <1>1, <1>2

\* There is one such f, and everything it makes is a sequence.
LEMMA FlatIs ==
    ASSUME NEW D, NEW q \in Seq(Seq(D)), NEW f, Flat(f, q)
    PROVE  /\ FlattenSeq(q) = f[Len(q)] /\ FlattenSeq(q) \in Seq(D)
           /\ \A k \in Nat : k <= Len(q) => f[k] \in Seq(D)
<1>0. Len(q) \in Nat /\ \A i \in 1 .. Len(q) : q[i] \in Seq(D)
  BY LenProperties, ElementOfSeq
<1>1. PICK g : Flat(g, q) /\ FlattenSeq(q) = g[Len(q)]
  BY FlatExists
<1> DEFINE S == {k \in Nat : k <= Len(q) => f[k] = g[k] /\ f[k] \in Seq(D)}
<1>2. 0 \in S
  <2>1. <<>> \in Seq(D)
    OBVIOUS
  <2> QED
    BY <1>1, <2>1 DEF Flat
<1>3. ASSUME NEW k \in Nat, k \in S PROVE k + 1 \in S
  <2> SUFFICES ASSUME k + 1 <= Len(q) PROVE f[k + 1] = g[k + 1] /\ f[k + 1] \in Seq(D)
    OBVIOUS
  <2>1. k < Len(q) /\ k <= Len(q) /\ k + 1 \in 1 .. Len(q)
    BY <1>0
  <2>2. f[k + 1] = f[k] \o q[k + 1] /\ g[k + 1] = g[k] \o q[k + 1]
    BY <1>1, <2>1 DEF Flat
  <2>3. f[k] = g[k] /\ f[k] \in Seq(D) /\ q[k + 1] \in Seq(D)
    BY <1>0, <1>3, <2>1
  <2> QED
    BY <2>2, <2>3, ConcatProperties
<1>4. Nat \subseteq S
  <2> HIDE DEF S
  <2> QED
    BY <1>2, <1>3, Counting
<1>5. \A k \in Nat : k <= Len(q) => f[k] = g[k] /\ f[k] \in Seq(D)
  BY <1>4
<1> QED
  BY <1>0, <1>1, <1>5
-----------------------------------------------------------------------------
(* Sums.                                                                     *)

Adds(g, q) == g[0] = 0 /\ \A k \in Nat : k < Len(q) => g[k + 1] = g[k] + q[k + 1]

LEMMA TotalIs ==
    ASSUME NEW q \in Seq(Nat), NEW g, Adds(g, q)
    PROVE  /\ TotalOf(q) = g[Len(q)] /\ TotalOf(q) \in Nat
           /\ \A k \in Nat : k <= Len(q) => g[k] \in Nat
<1> DEFINE n == Len(q)
           P == SUBSET (1 .. Len(q))
           Is(f) == f = [s \in SUBSET (1 .. Len(q)) |->
                            IF s = {} THEN 0 ELSE f[s \ {Max(s)}] + q[Max(s)]]
           iter == CHOOSE f : Is(f)
           m == [s \in P |-> IF s = {} THEN 0 ELSE Max(s)]
<1>1. n \in Nat /\ DOMAIN q = 1 .. n /\ \A i \in 1 .. n : q[i] \in Nat
  BY LenProperties, ElementOfSeq
<1>2. TotalOf(q) = iter[1 .. n]
  BY <1>1 DEF TotalOf, FoldLeft, MapThenFoldSet
<1>3. \E f : Is(f)
  <2>1. \A s \in P : s # {} => Max(s) \in s /\ Max(s) \in 1 .. n
    BY <1>1, Greatest
  <2>2. \A s \in P : m[s] \in Nat
    BY <1>1, <2>1
  <2>3. \A f, h : \A x \in P : (\A y \in P : m[y] < m[x] => f[y] = h[y])
           => Turn("total", q, f, x) = Turn("total", q, h, x)
    <3> SUFFICES ASSUME NEW f, NEW h, NEW x \in P, \A y \in P : m[y] < m[x] => f[y] = h[y]
                 PROVE  Turn("total", q, f, x) = Turn("total", q, h, x)
      BY Zenon
    <3>1. CASE x = {}
      BY <3>1 DEF Turn
    <3>2. CASE x # {}
      <4> DEFINE y == x \ {Max(x)}
      <4>1. y \in P
        OBVIOUS
      <4>2. m[y] < m[x]
        <5>1. Max(x) \in 1 .. n /\ m[x] = Max(x)
          BY <2>1, <3>2
        <5>2. CASE y = {}
          BY <1>1, <5>1, <5>2
        <5>3. CASE y # {}
          <6>1. Max(y) \in y /\ m[y] = Max(y) /\ Max(y) \in 1 .. n
            BY <2>1, <4>1, <5>3
          <6>2. Max(y) \in x /\ Max(y) # Max(x)
            BY <6>1
          <6>3. Max(x) >= Max(y)
            BY <1>1, <3>2, <6>2, Greatest
          <6> HIDE DEF m
          <6> QED
            BY <1>1, <5>1, <6>1, <6>2, <6>3
        <5> QED
          BY <5>2, <5>3
      <4>3. f[y] = h[y]
        <5> HIDE DEF m
        <5> QED
          BY <4>1, <4>2
      <4> HIDE DEF m
      <4> QED
        BY <3>2, <4>3 DEF Turn
    <3> QED
      BY <3>1, <3>2
  <2> HIDE DEF m
  <2>x. Measured("total", q, P, m)
    BY <2>2, <2>3, Zenon DEF Measured
  <2>4. \E f : IsTurn(f, "total", q, P)
    BY <2>x, Recursion, Zenon
  <2>5. \A f : IsTurn(f, "total", q, P) => Is(f)
    BY DEF Turn, IsTurn
  <2> QED
    BY <2>4, <2>5
<1>4. Is(iter)
  <2> HIDE DEF Is
  <2> QED
    BY <1>3
<1> DEFINE T(f, s) == IF s = {} THEN 0 ELSE f[s \ {Max(s)}] + q[Max(s)]
<1>5. \A s \in P : iter[s] = T(iter, s)
  <2>1. iter = [s \in SUBSET (1 .. Len(q)) |-> T(iter, s)]
    BY <1>4
  <2> HIDE DEF iter, T
  <2> QED
    BY <2>1
<1> HIDE DEF iter
<1> DEFINE S == {k \in Nat : k <= n => iter[1 .. k] = g[k] /\ g[k] \in Nat}
<1>6. 0 \in S
  <2>1. 1 .. 0 = {} /\ {} \in P
    OBVIOUS
  <2>2. iter[{}] = 0
    BY <1>5, <2>1
  <2> QED
    BY <2>1, <2>2 DEF Adds
<1>7. ASSUME NEW k \in Nat, k \in S PROVE k + 1 \in S
  <2> SUFFICES ASSUME k + 1 <= n PROVE iter[1 .. k + 1] = g[k + 1] /\ g[k + 1] \in Nat
    OBVIOUS
  <2> DEFINE s == 1 .. k + 1
  <2>1. s \in P /\ s # {} /\ k + 1 \in Nat /\ k + 1 \in s /\ k < n /\ k <= n /\ k + 1 \in 1 .. n
    BY <1>1
  <2>2. Max(s) = k + 1
    <3>1. Max(s) \in s /\ Max(s) >= k + 1
      <4> HIDE DEF s
      <4> QED
        BY <1>1, <2>1, Greatest
    <3> QED
      BY <3>1
  <2>3. s \ {Max(s)} = 1 .. k
    BY <2>2
  <2>4. iter[s] = iter[s \ {Max(s)}] + q[Max(s)]
    <3> HIDE DEF s
    <3> QED
      BY <1>5, <2>1
  <2>5. iter[1 .. k] = g[k] /\ g[k] \in Nat
    BY <1>7, <2>1
  <2>6. g[k + 1] = g[k] + q[k + 1] /\ q[k + 1] \in Nat
    BY <1>1, <2>1 DEF Adds
  <2>7. iter[s] = g[k] + q[k + 1]
    BY <2>2, <2>3, <2>4, <2>5
  <2> QED
    BY <2>5, <2>6, <2>7
<1>8. Nat \subseteq S
  <2> HIDE DEF S
  <2> QED
    BY <1>6, <1>7, Counting
<1>9. \A k \in Nat : k <= n => iter[1 .. k] = g[k] /\ g[k] \in Nat
  BY <1>8
<1> QED
  BY <1>1, <1>2, <1>9

\* There is such a g.
LEMMA AddsExists ==
    ASSUME NEW q \in Seq(Nat)
    PROVE  \E g : Adds(g, q)
<1> DEFINE m == [k \in Nat |-> k]
<1>1. \A x \in Nat : m[x] \in Nat
  OBVIOUS
<1>2. \A f, h : \A x \in Nat : (\A y \in Nat : m[y] < m[x] => f[y] = h[y])
         => Turn("adds", q, f, x) = Turn("adds", q, h, x)
  <2> SUFFICES ASSUME NEW f, NEW h, NEW x \in Nat, \A y \in Nat : m[y] < m[x] => f[y] = h[y]
               PROVE  Turn("adds", q, f, x) = Turn("adds", q, h, x)
    BY Zenon
  <2>1. CASE x = 0
    BY <2>1 DEF Turn
  <2>2. CASE x # 0
    <3>1. x - 1 \in Nat /\ x - 1 < x
      BY <2>2
    <3>2. f[x - 1] = h[x - 1]
      BY <3>1
    <3> QED
      BY <3>2 DEF Turn
  <2> QED
    BY <2>1, <2>2
<1> HIDE DEF m
<1>x. Measured("adds", q, Nat, m)
  BY <1>1, <1>2, Zenon DEF Measured
<1>3. PICK g : IsTurn(g, "adds", q, Nat)
  BY <1>x, Recursion, Zenon
<1> DEFINE T(f, k) == Turn("adds", q, f, k)
<1>4. \A k \in Nat : g[k] = T(g, k)
  BY <1>3, TurnAt, Zenon
<1>5. g[0] = 0
  BY <1>4 DEF Turn
<1>6. ASSUME NEW k \in Nat, k < Len(q) PROVE g[k + 1] = g[k] + q[k + 1]
  <2>1. k + 1 \in Nat /\ k + 1 # 0 /\ (k + 1) - 1 = k
    OBVIOUS
  <2>2. g[k + 1] = Turn("adds", q, g, k + 1)
    BY <1>4, <2>1, Zenon
  <2> QED
    BY <2>1, <2>2 DEF Turn
<1> QED
  BY <1>5, <1>6 DEF Adds
-----------------------------------------------------------------------------
(* The walks of the parser, one step at a time.                              *)

LEMMA BytesTyped ==
    ASSUME NEW data \in Seq(ByteValues)
    PROVE  /\ Len(data) \in Nat
           /\ \A i \in 1 .. Len(data) : data[i] \in ByteValues /\ data[i] \in Nat /\ data[i] < 256
           /\ \A o \in Nat : o < Len(data) => At0(data, o) \in Nat /\ At0(data, o) < 256
                                              /\ At0(data, o) = data[o + 1]
<1>1. Len(data) \in Nat /\ \A i \in 1 .. Len(data) : data[i] \in ByteValues
  BY LenProperties, ElementOfSeq
<1>2. \A i \in 1 .. Len(data) : data[i] \in Nat /\ data[i] < 256
  BY <1>1 DEF ByteValues
<1>3. \A o \in Nat : o < Len(data) => o + 1 \in 1 .. Len(data)
  BY <1>1
<1> QED
  BY <1>1, <1>2, <1>3 DEF At0

LEMMA EndStep ==
    ASSUME NEW data \in Seq(ByteValues), NEW n \in Nat, n <= Len(data), NEW o \in Nat
    PROVE  EndOfItems(data, o, n) =
             IF o >= n THEN Outside
             ELSE IF At0(data, o) = 0 THEN (IF RoundUp(o + 1) > n THEN Outside ELSE RoundUp(o + 1))
             ELSE IF o + SDESHeader > n \/ o + SDESHeader + At0(data, o + 1) > n THEN Outside
             ELSE EndOfItems(data, o + SDESHeader + At0(data, o + 1), n)
<1> DEFINE Is(f) == f = [x \in Nat |->
                 IF x >= n THEN Outside
                 ELSE IF At0(data, x) = 0 THEN (IF RoundUp(x + 1) > n THEN Outside ELSE RoundUp(x + 1))
                 ELSE IF x + SDESHeader > n \/ x + SDESHeader + At0(data, x + 1) > n THEN Outside
                 ELSE f[x + SDESHeader + At0(data, x + 1)]]
           iter == CHOOSE f : Is(f)
           a == <<data, n>>
           m == [x \in Nat |-> IF x < n THEN n - x ELSE 0]
<1>1. \A x : EndOfItems(data, x, n) = iter[x]
  BY Zenon DEF EndOfItems
<1>2. \A x \in Nat : m[x] \in Nat
  OBVIOUS
<1>3. \A f, g : \A x \in Nat : (\A y \in Nat : m[y] < m[x] => f[y] = g[y])
         => Turn("end", a, f, x) = Turn("end", a, g, x)
  <2> SUFFICES ASSUME NEW f, NEW g, NEW x \in Nat, \A y \in Nat : m[y] < m[x] => f[y] = g[y]
               PROVE  Turn("end", a, f, x) = Turn("end", a, g, x)
    BY Zenon
  <2> DEFINE e == x + SDESHeader + At0(data, x + 1)
  <2>1. CASE x >= n \/ x + SDESHeader > n
    BY <2>1 DEF Turn
  <2>2. CASE ~(x >= n \/ x + SDESHeader > n)
    <3>1. At0(data, x + 1) \in Nat
      BY <2>2, BytesTyped DEF SDESHeader
    <3>2. e \in Nat /\ m[e] < m[x]
      BY <2>2, <3>1 DEF SDESHeader
    <3>3. f[e] = g[e]
      BY <3>2
    <3> QED
      BY <3>3 DEF Turn
  <2> QED
    BY <2>1, <2>2
<1> HIDE DEF m
<1>4. Measured("end", a, Nat, m)
  BY <1>2, <1>3, Zenon DEF Measured
<1>5. \E f : IsTurn(f, "end", a, Nat)
  BY <1>4, Recursion, Zenon
<1>6. \A f : IsTurn(f, "end", a, Nat) => Is(f)
  BY DEF Turn, IsTurn
<1>7. Is(iter)
  <2> HIDE DEF Is
  <2> QED
    BY <1>5, <1>6
<1>8. iter[o] = IF o >= n THEN Outside
             ELSE IF At0(data, o) = 0 THEN (IF RoundUp(o + 1) > n THEN Outside ELSE RoundUp(o + 1))
             ELSE IF o + SDESHeader > n \/ o + SDESHeader + At0(data, o + 1) > n THEN Outside
             ELSE iter[o + SDESHeader + At0(data, o + 1)]
  <2> DEFINE T(x) == IF x >= n THEN Outside
             ELSE IF At0(data, x) = 0 THEN (IF RoundUp(x + 1) > n THEN Outside ELSE RoundUp(x + 1))
             ELSE IF x + SDESHeader > n \/ x + SDESHeader + At0(data, x + 1) > n THEN Outside
             ELSE iter[x + SDESHeader + At0(data, x + 1)]
  <2>1. iter = [x \in Nat |-> T(x)]
    BY <1>7
  <2> HIDE DEF iter, T
  <2>2. iter[o] = T(o)
    BY <2>1
  <2> QED
    BY <2>2 DEF T
<1> HIDE DEF iter
<1> QED
  BY <1>1, <1>8

LEMMA ItemsStep ==
    ASSUME NEW data \in Seq(ByteValues), NEW o \in Nat
    PROVE  LET e == o + SDESHeader + At0(data, o + 1)
           IN  ReadItems(data, o) =
                 IF o >= Len(data) THEN <<<<Outside>>>>
                 ELSE IF At0(data, o) = 0 THEN <<>>
                 ELSE IF o + 1 >= Len(data) THEN <<<<Outside>>>>
                 ELSE <<SubSeq(data, o + 1, e)>> \o ReadItems(data, e)
<1> DEFINE F(x) == x + SDESHeader + At0(data, x + 1)
           T(f, x) == IF x >= Len(data) THEN <<<<Outside>>>>
                 ELSE IF At0(data, x) = 0 THEN <<>>
                 ELSE IF x + 1 >= Len(data) THEN <<<<Outside>>>>
                 ELSE <<SubSeq(data, x + 1, F(x))>> \o f[F(x)]
           Is(f) == f = [x \in Nat |->
                 IF x >= Len(data) THEN <<<<Outside>>>>
                 ELSE IF At0(data, x) = 0 THEN <<>>
                 ELSE IF x + 1 >= Len(data) THEN <<<<Outside>>>>
                 ELSE <<SubSeq(data, x + 1, x + SDESHeader + At0(data, x + 1))>>
                         \o f[x + SDESHeader + At0(data, x + 1)]]
           iter == CHOOSE f : Is(f)
           m == [x \in Nat |-> IF x < Len(data) THEN Len(data) - x ELSE 0]
<1>0. Len(data) \in Nat
  BY BytesTyped
<1>1. \A x : ReadItems(data, x) = iter[x]
  BY Zenon DEF ReadItems
<1>2. \A x \in Nat : m[x] \in Nat
  BY <1>0
<1>3. \A f, g : \A x \in Nat : (\A y \in Nat : m[y] < m[x] => f[y] = g[y])
         => Turn("items", data, f, x) = Turn("items", data, g, x)
  <2> SUFFICES ASSUME NEW f, NEW g, NEW x \in Nat, \A y \in Nat : m[y] < m[x] => f[y] = g[y]
               PROVE  Turn("items", data, f, x) = Turn("items", data, g, x)
    BY Zenon
  <2> DEFINE e == x + SDESHeader + At0(data, x + 1)
  <2>1. CASE x >= Len(data) \/ x + 1 >= Len(data)
    BY <2>1 DEF Turn
  <2>2. CASE ~(x >= Len(data) \/ x + 1 >= Len(data))
    <3>1. At0(data, x + 1) \in Nat
      BY <1>0, <2>2, BytesTyped
    <3>2. e \in Nat /\ m[e] < m[x]
      BY <1>0, <2>2, <3>1 DEF SDESHeader
    <3>3. f[e] = g[e]
      BY <3>2
    <3> QED
      BY <3>3 DEF Turn
  <2> QED
    BY <2>1, <2>2
<1> HIDE DEF m
<1>4. Measured("items", data, Nat, m)
  BY <1>2, <1>3, Zenon DEF Measured
<1>5. \E f : IsTurn(f, "items", data, Nat)
  BY <1>4, Recursion, Zenon
<1>6. \A f : IsTurn(f, "items", data, Nat) => Is(f)
  BY DEF Turn, IsTurn
<1>7. Is(iter)
  <2> HIDE DEF Is
  <2> QED
    BY <1>5, <1>6
<1>8. iter[o] = T(iter, o)
  <2>1. iter = [x \in Nat |-> T(iter, x)]
    BY <1>7
  <2> HIDE DEF iter, T
  <2> QED
    BY <2>1
<1> HIDE DEF iter
<1> QED
  BY <1>1, <1>8
-----------------------------------------------------------------------------
(* Recursion that goes back by one.                                          *)

\* kind, at x, looks at the value for x - 1 only.
StepsBack(kind, a) ==
    \A f, g : \A x \in Nat : (x = 0 \/ f[x - 1] = g[x - 1]) => Turn(kind, a, f, x) = Turn(kind, a, g, x)

LEMMA BackByOne ==
    ASSUME NEW kind, NEW a, StepsBack(kind, a)
    PROVE  \E f : IsTurn(f, kind, a, Nat)
<1> DEFINE m == [k \in Nat |-> k]
<1>1. \A x \in Nat : m[x] \in Nat
  OBVIOUS
<1>2. \A f, g : \A x \in Nat : (\A y \in Nat : m[y] < m[x] => f[y] = g[y])
         => Turn(kind, a, f, x) = Turn(kind, a, g, x)
  <2> SUFFICES ASSUME NEW f, NEW g, NEW x \in Nat, \A y \in Nat : m[y] < m[x] => f[y] = g[y]
               PROVE  Turn(kind, a, f, x) = Turn(kind, a, g, x)
    BY Zenon
  <2>1. x = 0 \/ f[x - 1] = g[x - 1]
    <3>1. CASE x # 0
      <4>1. x - 1 \in Nat /\ x - 1 < x
        BY <3>1
      <4> QED
        BY <4>1
    <3> QED
      BY <3>1
  <2> QED
    BY <2>1, Zenon DEF StepsBack
<1> HIDE DEF m
<1>3. Measured(kind, a, Nat, m)
  BY <1>1, <1>2, Zenon DEF Measured
<1> QED
  BY <1>3, Recursion, Zenon

LEMMA ChunksStep ==
    ASSUME NEW data, NEW n
    PROVE  /\ EndOfChunks(data, n, 0) = Header
           /\ \A k \in Nat : EndOfChunks(data, n, k + 1) =
                 (LET o == EndOfChunks(data, n, k)
                  IN  IF o = Outside \/ n - o < 2 * SSRC THEN Outside
                      ELSE EndOfItems(data, o + SSRC, n))
<1> DEFINE N(o) == IF o = Outside \/ n - o < 2 * SSRC THEN Outside ELSE EndOfItems(data, o + SSRC, n)
           Is(f) == f = [i \in Nat |->
               LET o == f[i - 1]
               IN  IF i = 0 THEN Header
                   ELSE IF o = Outside \/ n - o < 2 * SSRC THEN Outside
                   ELSE EndOfItems(data, o + SSRC, n)]
           iter == CHOOSE f : Is(f)
           a == <<data, n>>
           T(f, i) == IF i = 0 THEN Header ELSE N(f[i - 1])
<1>1. \A k : EndOfChunks(data, n, k) = iter[k]
  BY Zenon DEF EndOfChunks
<1>2. StepsBack("chunks", a)
  BY DEF StepsBack, Turn
<1>3. \E f : IsTurn(f, "chunks", a, Nat)
  BY <1>2, BackByOne, Zenon
<1>4. \A f : IsTurn(f, "chunks", a, Nat) => Is(f)
  BY DEF Turn, IsTurn
<1>5. Is(iter)
  <2> HIDE DEF Is
  <2> QED
    BY <1>3, <1>4
<1>6. \A i \in Nat : iter[i] = T(iter, i)
  <2>1. iter = [i \in Nat |-> T(iter, i)]
    BY <1>5
  <2> HIDE DEF iter, T
  <2> QED
    BY <2>1
<1> HIDE DEF iter, N
<1>7. iter[0] = Header
  BY <1>6
<1>8. \A k \in Nat : iter[k + 1] = N(iter[k])
  <2> SUFFICES ASSUME NEW k \in Nat PROVE iter[k + 1] = N(iter[k])
    OBVIOUS
  <2>1. k + 1 \in Nat /\ k + 1 # 0 /\ (k + 1) - 1 = k
    OBVIOUS
  <2>2. iter[k + 1] = T(iter, k + 1)
    BY <1>6, <2>1
  <2> QED
    BY <2>1, <2>2
<1> QED
  BY <1>1, <1>7, <1>8 DEF N

LEMMA AtStep ==
    ASSUME NEW data
    PROVE  /\ ChunkAt(data, 0) = Header
           /\ \A k \in Nat : ChunkAt(data, k + 1) = NextChunk(data, ChunkAt(data, k))
<1> DEFINE Is(f) == f = [i \in Nat |-> IF i = 0 THEN Header ELSE NextChunk(data, f[i - 1])]
           iter == CHOOSE f : Is(f)
           T(f, i) == IF i = 0 THEN Header ELSE NextChunk(data, f[i - 1])
<1>1. \A k : ChunkAt(data, k) = iter[k]
  BY Zenon DEF ChunkAt
<1>2. StepsBack("at", data)
  BY DEF StepsBack, Turn
<1>3. \E f : IsTurn(f, "at", data, Nat)
  BY <1>2, BackByOne, Zenon
<1>4. \A f : IsTurn(f, "at", data, Nat) => Is(f)
  BY DEF Turn, IsTurn
<1>5. Is(iter)
  <2> HIDE DEF Is
  <2> QED
    BY <1>3, <1>4
<1>6. \A i \in Nat : iter[i] = T(iter, i)
  <2>1. iter = [i \in Nat |-> T(iter, i)]
    BY <1>5
  <2> HIDE DEF iter, T
  <2> QED
    BY <2>1
<1> HIDE DEF iter
<1>7. iter[0] = Header
  BY <1>6
<1>8. \A k \in Nat : iter[k + 1] = NextChunk(data, iter[k])
  <2> SUFFICES ASSUME NEW k \in Nat PROVE iter[k + 1] = NextChunk(data, iter[k])
    OBVIOUS
  <2>1. k + 1 \in Nat /\ k + 1 # 0 /\ (k + 1) - 1 = k
    OBVIOUS
  <2>2. iter[k + 1] = T(iter, k + 1)
    BY <1>6, <2>1
  <2> QED
    BY <2>1, <2>2
<1> QED
  BY <1>1, <1>7, <1>8
-----------------------------------------------------------------------------
(* Sums of what is joined.                                                   *)

LEMMA TotalNone == TotalOf(<<>>) = 0
<1> DEFINE g == [k \in Nat |-> 0]
<1>1. Adds(g, <<>>) /\ <<>> \in Seq(Nat) /\ Len(<<>>) = 0
  BY DEF Adds
<1>2. TotalOf(<<>>) = g[Len(<<>>)]
  <2> HIDE DEF g
  <2> QED
    BY <1>1, TotalIs
<1> QED
  BY <1>1, <1>2

LEMMA TotalOne ==
    ASSUME NEW n \in Nat
    PROVE  TotalOf(<<n>>) = n
<1> DEFINE g == [k \in Nat |-> IF k = 0 THEN 0 ELSE n]
           q == <<n>>
<1>1. q \in Seq(Nat) /\ Len(q) = 1 /\ q[1] = n
  OBVIOUS
<1> HIDE DEF q
<1>2. Adds(g, q)
  <2>1. \A k \in Nat : k < 1 => k = 0
    OBVIOUS
  <2>2. g[0] = 0 /\ g[0 + 1] = n
    OBVIOUS
  <2> HIDE DEF g
  <2> QED
    BY <1>1, <2>1, <2>2 DEF Adds
<1>3. TotalOf(q) = g[Len(q)]
  <2> HIDE DEF g
  <2> QED
    BY <1>1, <1>2, TotalIs
<1> QED
  BY <1>1, <1>3 DEF q

LEMMA TotalJoined ==
    ASSUME NEW p \in Seq(Nat), NEW q \in Seq(Nat)
    PROVE  TotalOf(p \o q) = TotalOf(p) + TotalOf(q)
<1> DEFINE w == p \o q
<1>1. PICK g : Adds(g, p)
  BY AddsExists
<1>2. PICK h : Adds(h, q)
  BY AddsExists
<1>3. /\ w \in Seq(Nat) /\ Len(p) \in Nat /\ Len(q) \in Nat /\ Len(w) = Len(p) + Len(q)
      /\ \A i \in 1 .. Len(p) : w[i] = p[i]
      /\ \A i \in 1 .. Len(q) : w[Len(p) + i] = q[i]
  BY Joined
<1> HIDE DEF w
<1> DEFINE m == Len(p)
           n == Len(q)
           f == [k \in Nat |-> IF k <= m THEN g[k] ELSE g[m] + h[k - m]]
<1>4. /\ m \in Nat /\ n \in Nat /\ Len(w) = m + n
      /\ \A i \in 1 .. m : w[i] = p[i]
      /\ \A i \in 1 .. n : w[m + i] = q[i]
  BY <1>3
<1>5. /\ \A k \in Nat : k <= m => g[k] \in Nat
      /\ \A k \in Nat : k <= n => h[k] \in Nat
      /\ TotalOf(p) = g[m] /\ TotalOf(q) = h[n]
  BY <1>1, <1>2, TotalIs
<1>a. /\ \A k \in Nat : k < m => g[k + 1] = g[k] + p[k + 1]
      /\ \A k \in Nat : k < n => h[k + 1] = h[k] + q[k + 1]
      /\ \A i \in 1 .. n : q[i] \in Nat
      /\ g[0] = 0 /\ h[0] = 0
  <2>1. \A i \in 1 .. n : q[i] \in Nat
    BY ElementOfSeq
  <2> QED
    BY <1>1, <1>2, <2>1 DEF Adds
<1> HIDE DEF m, n
<1>6. ASSUME NEW k \in Nat, k < m + n PROVE f[k + 1] = f[k] + w[k + 1]
  <2>1. CASE k < m
    <3>1. k + 1 \in 1 .. m /\ f[k + 1] = g[k + 1] /\ f[k] = g[k]
      BY <1>4, <2>1
    <3>2. w[k + 1] = p[k + 1]
      BY <1>4, <3>1
    <3>3. g[k + 1] = g[k] + p[k + 1]
      BY <1>a, <2>1
    <3> QED
      BY <3>1, <3>2, <3>3
  <2>2. CASE ~(k < m)
    <3> DEFINE j == k - m
    <3>1. j \in Nat /\ j < n /\ j + 1 \in 1 .. n /\ k + 1 = m + (j + 1) /\ (k + 1) - m = j + 1
      BY <1>4, <1>6, <2>2
    <3>2. f[k + 1] = g[m] + h[j + 1]
      BY <1>4, <2>2, <3>1
    <3>3. f[k] = g[m] + h[j]
      <4>1. CASE k = m
        <5>1. f[k] = g[m] /\ j = 0 /\ h[0] = 0 /\ g[m] \in Nat
          BY <1>a, <1>4, <1>5, <4>1
        <5> QED
          BY <5>1
      <4>2. CASE k # m
        BY <1>4, <2>2, <4>2
      <4> QED
        BY <4>1, <4>2
    <3>4. w[k + 1] = q[j + 1]
      BY <1>4, <3>1
    <3> HIDE DEF j
    <3>5. h[j + 1] = h[j] + q[j + 1]
      BY <1>a, <3>1
    <3>6. h[j] \in Nat /\ g[m] \in Nat /\ q[j + 1] \in Nat
      <4>1. q[j + 1] \in Nat
        BY <1>a, <3>1
      <4> QED
        BY <1>4, <1>5, <3>1, <4>1
    <3> QED
      BY <3>2, <3>3, <3>4, <3>5, <3>6
  <2> QED
    BY <2>1, <2>2
<1>7. f[0] = 0
  BY <1>a, <1>4
<1>8. f[m + n] = g[m] + h[n]
  <2>1. CASE n = 0
    <3>1. h[n] = 0 /\ m + n = m /\ f[m] = g[m] /\ g[m] \in Nat
      BY <1>a, <1>4, <1>5, <2>1
    <3> QED
      BY <3>1
  <2>2. CASE n # 0
    BY <1>4, <2>2
  <2> QED
    BY <2>1, <2>2
<1> HIDE DEF f
<1>9. Adds(f, w)
  BY <1>4, <1>6, <1>7 DEF Adds
<1> QED
  BY <1>3, <1>4, <1>5, <1>8, <1>9, TotalIs, ZenonT(60) DEF w

LEMMA SizesAre ==
    ASSUME NEW D, NEW q \in Seq(Seq(D))
    PROVE  /\ Sizes(q) \in Seq(Nat) /\ Len(Sizes(q)) = Len(q)
           /\ \A i \in 1 .. Len(q) : Sizes(q)[i] = Len(q[i]) /\ Len(q[i]) \in Nat
<1>1. Len(q) \in Nat /\ DOMAIN q = 1 .. Len(q) /\ \A i \in 1 .. Len(q) : q[i] \in Seq(D)
  BY LenProperties, ElementOfSeq
<1>2. \A i \in 1 .. Len(q) : Len(q[i]) \in Nat
  BY <1>1, LenProperties
<1>3. Sizes(q) = [i \in 1 .. Len(q) |-> Len(q[i])]
  BY <1>1 DEF Sizes
<1> QED
  BY <1>1, <1>2, <1>3

LEMMA SizesJoined ==
    ASSUME NEW D, NEW p \in Seq(Seq(D)), NEW q \in Seq(Seq(D))
    PROVE  Sizes(p \o q) = Sizes(p) \o Sizes(q)
<1> DEFINE w == p \o q
           s == Sizes(p) \o Sizes(q)
<1>1. /\ w \in Seq(Seq(D)) /\ Len(p) \in Nat /\ Len(q) \in Nat /\ Len(w) = Len(p) + Len(q)
      /\ \A i \in 1 .. Len(p) : w[i] = p[i]
      /\ \A i \in 1 .. Len(q) : w[Len(p) + i] = q[i]
  BY Joined
<1>2. /\ Sizes(p) \in Seq(Nat) /\ Len(Sizes(p)) = Len(p) /\ Sizes(q) \in Seq(Nat) /\ Len(Sizes(q)) = Len(q)
      /\ \A i \in 1 .. Len(p) : Sizes(p)[i] = Len(p[i])
      /\ \A i \in 1 .. Len(q) : Sizes(q)[i] = Len(q[i])
  BY SizesAre
<1> HIDE DEF w
<1>3. Sizes(w) \in Seq(Nat) /\ Len(Sizes(w)) = Len(w) /\ \A i \in 1 .. Len(w) : Sizes(w)[i] = Len(w[i])
  BY <1>1, SizesAre
<1>4. /\ s \in Seq(Nat) /\ Len(s) = Len(p) + Len(q)
      /\ \A i \in 1 .. Len(p) : s[i] = Len(p[i])
      /\ \A i \in 1 .. Len(q) : s[Len(p) + i] = Len(q[i])
  <2>1. /\ s \in Seq(Nat) /\ Len(s) = Len(Sizes(p)) + Len(Sizes(q))
        /\ \A i \in 1 .. Len(Sizes(p)) : s[i] = Sizes(p)[i]
        /\ \A i \in 1 .. Len(Sizes(q)) : s[Len(Sizes(p)) + i] = Sizes(q)[i]
    <3>1. ASSUME NEW x \in Seq(Nat), NEW y \in Seq(Nat)
          PROVE  /\ x \o y \in Seq(Nat) /\ Len(x \o y) = Len(x) + Len(y)
                 /\ \A i \in 1 .. Len(x) : (x \o y)[i] = x[i]
                 /\ \A i \in 1 .. Len(y) : (x \o y)[Len(x) + i] = y[i]
      BY Joined
    <3>2. Sizes(p) \in Seq(Nat) /\ Sizes(q) \in Seq(Nat)
      BY <1>2
    <3> QED
      BY <3>1, <3>2, Zenon
  <2> HIDE DEF s
  <2> QED
    BY <1>2, <2>1
<1> HIDE DEF s
<1>5. ASSUME NEW i \in 1 .. Len(w) PROVE Sizes(w)[i] = s[i]
  <2>1. CASE i \in 1 .. Len(p)
    BY <1>1, <1>3, <1>4, <2>1
  <2>2. CASE i \notin 1 .. Len(p)
    <3> DEFINE j == i - Len(p)
    <3>1. j \in 1 .. Len(q) /\ i = Len(p) + j
      BY <1>1, <2>2
    <3> HIDE DEF j
    <3> QED
      BY <1>1, <1>3, <1>4, <3>1
  <2> QED
    BY <2>1, <2>2
<1>6. Sizes(w) = s
  BY <1>1, <1>3, <1>4, <1>5, SeqEqual
<1> QED
  BY <1>6 DEF w, s
-----------------------------------------------------------------------------
(* The items of a chunk the constructor accepted.                           *)

\* What an item says of its length is true.
WellSized == {s \in Seq(ByteValues) : Len(s) >= 2 /\ Len(s) = 2 + s[2]}

\* The walk over the items at o, and where the constructor says they end.
WalkedTo(data, o, n) ==
    LET items == ReadItems(data, o)
        total == TotalOf(Sizes(items))
    IN  /\ items \in Seq(WellSized) /\ total \in Nat /\ o + total < n
        /\ EndOfItems(data, o, n) = RoundUp(o + total + 1) /\ EndOfItems(data, o, n) <= n

LEMMA Rounded ==
    ASSUME NEW n \in Nat
    PROVE  /\ RoundUp(n) \in Nat /\ n <= RoundUp(n) /\ RoundUp(n) <= n + 3 /\ RoundUp(n) % 4 = 0
           /\ \A k \in Nat : k % 4 = 0 => RoundUp(k + n) = k + RoundUp(n)
<1> DEFINE d == (n + 3) \div 4
<1>1. d \in Nat /\ n + 3 = 4 * d + ((n + 3) % 4) /\ (n + 3) % 4 \in 0 .. 3
  OBVIOUS
<1>2. RoundUp(n) = 4 * d
  <2>1. n + 4 - 1 = n + 3
    OBVIOUS
  <2> QED
    BY <2>1 DEF RoundUp, Ceil
<1> HIDE DEF d
<1>3. ASSUME NEW k \in Nat, k % 4 = 0 PROVE RoundUp(k + n) = k + RoundUp(n)
  <2> DEFINE c == k \div 4
  <2>1. c \in Nat /\ k = 4 * c
    BY <1>3
  <2> HIDE DEF c
  <2>2. k + n + 4 - 1 = 4 * (c + d) + ((n + 3) % 4)
    BY <1>1, <2>1
  <2>3. (k + n + 4 - 1) \div 4 = c + d
    BY <1>1, <2>1, <2>2
  <2>4. RoundUp(k + n) = 4 * (c + d)
    BY <2>3 DEF RoundUp, Ceil
  <2> QED
    BY <1>1, <1>2, <2>1, <2>4
<1> QED
  BY <1>1, <1>2, <1>3

LEMMA ItemsWalked ==
    ASSUME NEW data \in Seq(ByteValues), NEW n \in Nat, n <= Len(data)
    PROVE  \A o \in Nat : EndOfItems(data, o, n) # Outside => WalkedTo(data, o, n)
<1>0. Len(data) \in Nat
  BY BytesTyped
<1> DEFINE P(o) == EndOfItems(data, o, n) # Outside => WalkedTo(data, o, n)
           S == {k \in Nat : \A o \in Nat : n - o <= k => P(o)}
<1>1. 0 \in S
  <2> SUFFICES ASSUME NEW o \in Nat, n - o <= 0 PROVE EndOfItems(data, o, n) = Outside
    OBVIOUS
  <2> QED
    BY EndStep
<1>2. ASSUME NEW k \in Nat, k \in S PROVE k + 1 \in S
  <2> SUFFICES ASSUME NEW o \in Nat, n - o <= k + 1, EndOfItems(data, o, n) # Outside
               PROVE  WalkedTo(data, o, n)
    OBVIOUS
  <2>1. o < n /\ o < Len(data) /\ At0(data, o) \in Nat
    <3>1. o < n
      BY EndStep
    <3> QED
      BY <1>0, <3>1, BytesTyped
  <2>2. CASE At0(data, o) = 0
    <3>1. ReadItems(data, o) = <<>>
      <4>1. ~(o >= Len(data))
        BY <1>0, <2>1
      <4> QED
        BY <2>2, <4>1, ItemsStep, Zenon
    <3>2. Sizes(<<>>) = <<>>
      BY DEF Sizes
    <3>3. EndOfItems(data, o, n) = RoundUp(o + 1) /\ RoundUp(o + 1) <= n
      <4>1. RoundUp(o + 1) \in Nat
        <5>1. o + 1 \in Nat
          OBVIOUS
        <5> QED
          BY <5>1, Rounded
      <4> QED
        BY <2>1, <2>2, <4>1, EndStep
    <3>4. o + 0 < n /\ o + 0 + 1 = o + 1
      BY <2>1
    <3> QED
      BY <3>1, <3>2, <3>3, <3>4, TotalNone DEF WalkedTo
  <2>3. CASE At0(data, o) # 0
    <3> DEFINE e == o + SDESHeader + At0(data, o + 1)
    <3>1. /\ ~(o + SDESHeader > n) /\ ~(e > n)
          /\ EndOfItems(data, o, n) = EndOfItems(data, e, n)
      BY <2>1, <2>3, EndStep
    <3>2. o + 1 < Len(data) /\ At0(data, o + 1) \in Nat /\ At0(data, o + 1) < 256
      <4>1. o + 1 < Len(data) /\ o + 1 \in Nat
        BY <1>0, <3>1 DEF SDESHeader
      <4> QED
        BY <4>1, BytesTyped
    <3>3. e \in Nat /\ e <= n /\ e >= o + 2 /\ n - e <= k /\ e <= Len(data) /\ e = o + 2 + At0(data, o + 1)
      BY <1>0, <3>1, <3>2 DEF SDESHeader
    <3>4. ReadItems(data, o) = <<SubSeq(data, o + 1, e)>> \o ReadItems(data, e)
      <4>1. ~(o >= Len(data)) /\ ~(o + 1 >= Len(data))
        BY <1>0, <2>1, <3>2
      <4> QED
        BY <2>3, <4>1, ItemsStep, Zenon
    <3> HIDE DEF e
    <3>5. WalkedTo(data, e, n)
      BY <1>2, <3>1, <3>3
    <3> DEFINE s == SubSeq(data, o + 1, e)
               items == ReadItems(data, e)
               total == TotalOf(Sizes(items))
    <3>6. s \in WellSized /\ Len(s) = e - o
      <4>1. \A i \in o + 1 .. e : data[i] \in ByteValues
        <5>1. \A i \in o + 1 .. e : i \in 1 .. Len(data)
          BY <3>3
        <5> QED
          BY <5>1, BytesTyped
      <4>2. s \in Seq(ByteValues) /\ Len(s) = (IF o + 1 <= e THEN e - (o + 1) + 1 ELSE 0)
            /\ \A i \in 1 .. e - (o + 1) + 1 : s[i] = data[(o + 1) + i - 1]
        BY <3>3, <4>1, SubSeqProperties, SMTT(30)
      <4>3. o + 1 <= e /\ e - (o + 1) + 1 = e - o /\ 2 \in 1 .. e - o
        BY <3>3
      <4>4. s[2] = data[(o + 1) + 1]
        BY <4>2, <4>3
      <4>5. s[2] = At0(data, o + 1)
        BY <4>4 DEF At0
      <4> HIDE DEF s
      <4>6. s \in Seq(ByteValues) /\ Len(s) = e - o
        BY <4>2, <4>3
      <4>7. e - o >= 2 /\ e - o = 2 + At0(data, o + 1)
        BY <3>2, <3>3
      <4>8. Len(s) >= 2 /\ Len(s) = 2 + s[2]
        BY <4>5, <4>6, <4>7
      <4> QED
        BY <4>6, <4>8 DEF WellSized
    <3>7. items \in Seq(WellSized) /\ total \in Nat /\ e + total < n
          /\ EndOfItems(data, e, n) = RoundUp(e + total + 1) /\ EndOfItems(data, e, n) <= n
      BY <3>5 DEF WalkedTo
    <3> HIDE DEF s
    <3>8. TotalOf(Sizes(<<s>> \o items)) = (e - o) + total
      <4>1. <<s>> \in Seq(WellSized)
        BY <3>6
      <4>2. WellSized \subseteq Seq(ByteValues)
        BY DEF WellSized
      <4>3. <<s>> \in Seq(Seq(ByteValues)) /\ items \in Seq(Seq(ByteValues))
        <5> HIDE DEF items
        <5>1. \A q \in Seq(WellSized) : q \in Seq(Seq(ByteValues))
          BY <4>2, SeqMonotonic
        <5> QED
          BY <3>7, <4>1, <5>1
      <4>4. Sizes(<<s>>) = <<e - o>> /\ e - o \in Nat
        BY <3>3, <3>6 DEF Sizes
      <4>5. Sizes(items) \in Seq(Nat) /\ <<e - o>> \in Seq(Nat)
        BY <4>3, <4>4, SizesAre
      <4>6. Sizes(<<s>> \o items) = <<e - o>> \o Sizes(items)
        BY <4>3, <4>4, SizesJoined
      <4>7. TotalOf(<<e - o>> \o Sizes(items)) = TotalOf(<<e - o>>) + total
        BY <4>5, TotalJoined
      <4> QED
        BY <4>4, <4>6, <4>7, TotalOne
    <3>9. <<s>> \o items \in Seq(WellSized)
      <4>1. <<s>> \in Seq(WellSized)
        BY <3>6
      <4> HIDE DEF items
      <4> QED
        BY <3>7, <4>1, ConcatProperties
    <3>10. (e - o) + total \in Nat /\ o + ((e - o) + total) = e + total
      BY <3>3, <3>7, SMTT(30)
    <3>11. ReadItems(data, o) = <<s>> \o items
      BY <3>4 DEF s
    <3> DEFINE all == ReadItems(data, o)
    <3>12. all \in Seq(WellSized) /\ TotalOf(Sizes(all)) = (e - o) + total
      BY <3>8, <3>9, <3>11
    <3> HIDE DEF items, total, all
    <3> QED
      BY <3>1, <3>7, <3>10, <3>12 DEF WalkedTo, all
  <2> QED
    BY <2>2, <2>3
<1>3. Nat \subseteq S
  <2> HIDE DEF S
  <2> QED
    BY <1>1, <1>2, Counting
<1>4. ASSUME NEW o \in Nat PROVE P(o)
  <2>1. n \in S
    <3> HIDE DEF S
    <3> QED
      BY <1>3
  <2>2. n - o <= n
    OBVIOUS
  <2> HIDE DEF P
  <2> QED
    BY <2>1, <2>2
<1> QED
  BY <1>4

LEMMA ChunksWalked ==
    ASSUME NEW data \in Seq(ByteValues), NEW n \in Nat, n <= Len(data), NEW N \in Nat,
           EndOfChunks(data, n, N) # Outside
    PROVE  \A k \in Nat :
             LET o == EndOfChunks(data, n, k)
             IN  /\ k <= N => o \in Nat /\ o % 4 = 0 /\ ChunkAt(data, k) = o
                 /\ k < N => /\ WalkedTo(data, o + SSRC, n)
                             /\ EndOfChunks(data, n, k + 1)
                                   = o + ChunkNeeds(TotalOf(Sizes(ReadItems(data, o + SSRC))))
<1> DEFINE c(k) == EndOfChunks(data, n, k)
           T(o) == TotalOf(Sizes(ReadItems(data, o + SSRC)))
<1>1. c(0) = Header /\ \A k \in Nat : c(k + 1) =
          IF c(k) = Outside \/ n - c(k) < 2 * SSRC THEN Outside ELSE EndOfItems(data, c(k) + SSRC, n)
  BY ChunksStep
<1>2. c(N) # Outside
  OBVIOUS
<1> HIDE DEF c
<1>3. ASSUME NEW k \in Nat, k <= N PROVE c(k) # Outside
  <2> SUFFICES ASSUME c(k) = Outside PROVE FALSE
    OBVIOUS
  <2> DEFINE S == {d \in Nat : c(k + d) = Outside}
  <2>1. 0 \in S
    OBVIOUS
  <2>2. ASSUME NEW d \in Nat, d \in S PROVE d + 1 \in S
    <3>1. c(k + d) = Outside /\ k + d \in Nat /\ (k + d) + 1 = k + (d + 1)
      BY <2>2
    <3>2. c((k + d) + 1) = Outside
      BY <1>1, <3>1
    <3> QED
      BY <3>1, <3>2
  <2>3. N - k \in S
    <3>1. N - k \in Nat
      BY <1>3
    <3> HIDE DEF S
    <3> QED
      BY <2>1, <2>2, <3>1, Counting
  <2>4. c(k + (N - k)) = Outside /\ k + (N - k) = N
    BY <2>3
  <2> QED
    BY <1>2, <2>4
<1>4. ASSUME NEW k \in Nat, k < N, c(k) \in Nat, c(k) % 4 = 0, ChunkAt(data, k) = c(k)
      PROVE  /\ WalkedTo(data, c(k) + SSRC, n) /\ c(k + 1) = c(k) + ChunkNeeds(T(c(k)))
             /\ c(k + 1) \in Nat /\ c(k + 1) % 4 = 0 /\ ChunkAt(data, k + 1) = c(k + 1)
  <2>1. c(k) # Outside /\ c(k + 1) # Outside
    <3>1. k <= N /\ k + 1 <= N /\ k + 1 \in Nat
      BY <1>4
    <3> QED
      BY <1>3, <3>1
  <2>2. c(k + 1) = EndOfItems(data, c(k) + SSRC, n)
    BY <1>1, <2>1
  <2> DEFINE o == c(k) + SSRC
             t == T(c(k))
  <2>3. o \in Nat /\ o % 4 = 0
    BY <1>4 DEF SSRC
  <2>4. WalkedTo(data, o, n)
    BY <2>1, <2>2, <2>3, ItemsWalked
  <2>5. t \in Nat /\ EndOfItems(data, o, n) = RoundUp(o + t + 1)
    BY <2>4 DEF WalkedTo
  <2>6. ChunkAt(data, k + 1) = RoundUp(o + t + 1)
    <3>1. ChunkAt(data, k + 1) = NextChunk(data, c(k))
      BY <1>4, AtStep
    <3> QED
      BY <3>1 DEF NextChunk
  <2> HIDE DEF o, t
  <2>7. RoundUp(o + t + 1) = o + RoundUp(t + 1) /\ RoundUp(o + t + 1) \in Nat /\ RoundUp(o + t + 1) % 4 = 0
    <3>1. t + 1 \in Nat /\ o + t + 1 = o + (t + 1) /\ o + (t + 1) \in Nat
      BY <2>3, <2>5
    <3> QED
      BY <2>3, <3>1, Rounded
  <2>8. o + RoundUp(t + 1) = c(k) + ChunkNeeds(t)
    <3>1. RoundUp(t + 1) \in Nat
      <4>1. t + 1 \in Nat
        BY <2>5
      <4> QED
        BY <4>1, Rounded
    <3> QED
      BY <1>4, <3>1 DEF o, ChunkNeeds, SSRC
  <2>9. c(k + 1) = RoundUp(o + t + 1)
    BY <2>2, <2>5 DEF o
  <2> QED
    BY <2>4, <2>6, <2>7, <2>8, <2>9 DEF o, t
<1> DEFINE S == {k \in Nat : k <= N => c(k) \in Nat /\ c(k) % 4 = 0 /\ ChunkAt(data, k) = c(k)}
<1>5. 0 \in S
  <2>1. ChunkAt(data, 0) = Header
    BY AtStep
  <2>2. c(0) = 4 /\ 4 \in Nat /\ 4 % 4 = 0
    BY <1>1 DEF Header
  <2> QED
    BY <2>1, <2>2 DEF Header
<1>6. ASSUME NEW k \in Nat, k \in S PROVE k + 1 \in S
  <2> SUFFICES ASSUME k + 1 <= N
               PROVE  c(k + 1) \in Nat /\ c(k + 1) % 4 = 0 /\ ChunkAt(data, k + 1) = c(k + 1)
    OBVIOUS
  <2>1. k <= N /\ k < N
    OBVIOUS
  <2> QED
    BY <1>4, <1>6, <2>1
<1>7. Nat \subseteq S
  <2> HIDE DEF S
  <2> QED
    BY <1>5, <1>6, Counting
<1>8. ASSUME NEW k \in Nat
      PROVE  /\ k <= N => c(k) \in Nat /\ c(k) % 4 = 0 /\ ChunkAt(data, k) = c(k)
             /\ k < N => WalkedTo(data, c(k) + SSRC, n) /\ c(k + 1) = c(k) + ChunkNeeds(T(c(k)))
  <2>1. k <= N => c(k) \in Nat /\ c(k) % 4 = 0 /\ ChunkAt(data, k) = c(k)
    BY <1>7
  <2>2. k < N => k <= N
    OBVIOUS
  <2> QED
    BY <1>4, <2>1, <2>2
<1> QED
  BY <1>8 DEF c

\* WalkStaysInside for any packet.
LEMMA WalkIsInside ==
    ASSUME received \in Seq(ByteValues)
    PROVE  WalkStaysInside
<1> SUFFICES ASSUME received # <<>>, KnownSDES(received)
             PROVE  LET chunks == ReadChunks(received)
                    IN  /\ Len(chunks) = CountOf(received)
                        /\ \A i \in DOMAIN chunks : <<Outside>> \notin ToSet(chunks[i].items)
                        /\ Header + TotalOf([i \in DOMAIN chunks |-> ChunkNeeds(ItemsSize(chunks[i]))])
                                = Unpadded(received)
                        /\ \A i \in DOMAIN chunks : \A j \in DOMAIN chunks[i].items :
                              LET item == chunks[i].items[j]
                              IN  SDESHeader + PrivPrefix(item) + PrivValue(item) <= Len(item)
  BY DEF WalkStaysInside
<1> DEFINE N == CountOf(received)
           n == Unpadded(received)
           c(k) == EndOfChunks(received, n, k)
           chunks == ReadChunks(received)
           T(o) == TotalOf(Sizes(ReadItems(received, o + SSRC)))
<1>1. Len(received) \in Nat /\ Len(received) # 0
  BY EmptySeq, LenProperties
<1>2. N \in Nat
  <2>1. At0(received, 0) \in Nat
    BY <1>1, BytesTyped
  <2> QED
    BY <2>1 DEF CountOf
<1>3. PadCount(received) \in Nat
  <2>1. Len(received) \in 1 .. Len(received)
    BY <1>1
  <2>2. received[Len(received)] \in Nat
    BY <2>1, BytesTyped
  <2> QED
    BY <2>2 DEF PadCount, Last
<1>4. n \in Nat /\ n <= Len(received) /\ c(N) = n
  BY <1>1, <1>3 DEF KnownSDES, PaddingFits, Unpadded
<1>5. c(N) # Outside
  <2>1. c(N) \in Nat
    BY <1>4
  <2> QED
    BY <2>1 DEF Outside
<1>6. c(0) = Header
  BY ChunksStep
<1> HIDE DEF n, N
<1>7. \A k \in Nat :
          /\ k <= N => c(k) \in Nat /\ ChunkAt(received, k) = c(k)
          /\ k < N => /\ WalkedTo(received, c(k) + SSRC, n) /\ c(k + 1) = c(k) + ChunkNeeds(T(c(k)))
  BY <1>2, <1>4, <1>5, ChunksWalked
<1> HIDE DEF c, T
<1>8. /\ DOMAIN chunks = 1 .. N /\ Len(chunks) = N
      /\ \A i \in 1 .. N : chunks[i].items = ReadItems(received, c(i - 1) + SSRC)
  <2>1. chunks = [k \in 1 .. N |-> ReadChunk(received, ChunkAt(received, k - 1))]
    BY DEF ReadChunks, N
  <2>2. DOMAIN chunks = 1 .. N /\ Len(chunks) = N
    BY <1>2, <2>1
  <2>3. ASSUME NEW i \in 1 .. N PROVE chunks[i].items = ReadItems(received, c(i - 1) + SSRC)
    <3>1. i - 1 \in Nat /\ i - 1 <= N
      BY <1>2
    <3>2. chunks[i] = ReadChunk(received, c(i - 1))
      BY <1>7, <2>1, <3>1
    <3> HIDE DEF chunks
    <3> QED
      BY <3>2 DEF ReadChunk
  <2> QED
    BY <2>2, <2>3
<1> HIDE DEF chunks
<1>9. ASSUME NEW i \in 1 .. N
      PROVE  /\ chunks[i].items \in Seq(WellSized)
             /\ ChunkNeeds(ItemsSize(chunks[i])) = c(i) - c(i - 1)
             /\ c(i) \in Nat /\ c(i - 1) \in Nat /\ c(i) >= c(i - 1)
  <2>1. i - 1 \in Nat /\ i - 1 < N /\ i - 1 <= N /\ (i - 1) + 1 = i /\ i \in Nat /\ i <= N
    BY <1>2
  <2>2. WalkedTo(received, c(i - 1) + SSRC, n) /\ c(i) = c(i - 1) + ChunkNeeds(T(c(i - 1)))
    BY <1>7, <2>1
  <2>3. c(i) \in Nat /\ c(i - 1) \in Nat
    BY <1>7, <2>1
  <2>4. chunks[i].items \in Seq(WellSized) /\ T(c(i - 1)) \in Nat
    BY <1>8, <2>2 DEF WalkedTo, T
  <2>5. ItemsSize(chunks[i]) = T(c(i - 1))
    BY <1>8 DEF ItemsSize, T
  <2>6. ChunkNeeds(T(c(i - 1))) \in Nat
    <3>1. RoundUp(T(c(i - 1)) + 1) \in Nat
      <4>1. T(c(i - 1)) + 1 \in Nat
        BY <2>4
      <4> QED
        BY <4>1, Rounded
    <3> QED
      BY <3>1 DEF ChunkNeeds, SSRC
  <2> QED
    BY <2>2, <2>3, <2>4, <2>5, <2>6
<1>10. Header + TotalOf([i \in DOMAIN chunks |-> ChunkNeeds(ItemsSize(chunks[i]))]) = n
  <2> DEFINE w == [i \in 1 .. N |-> ChunkNeeds(ItemsSize(chunks[i]))]
             g == [k \in Nat |-> c(k) - c(0)]
  <2>1. w \in Seq(Nat) /\ Len(w) = N /\ \A i \in 1 .. N : w[i] = c(i) - c(i - 1)
    <3>1. \A i \in 1 .. N : ChunkNeeds(ItemsSize(chunks[i])) \in Nat
      BY <1>9
    <3> QED
      BY <1>2, <1>9, <3>1
  <2> HIDE DEF w
  <2>2. g[0] = 0
    BY <1>6 DEF Header
  <2>3. ASSUME NEW k \in Nat, k < N PROVE g[k + 1] = g[k] + w[k + 1]
    <3>1. k + 1 \in 1 .. N /\ (k + 1) - 1 = k
      BY <1>2, <2>3
    <3>2. w[k + 1] = c(k + 1) - c(k) /\ c(k + 1) \in Nat /\ c(k) \in Nat
      BY <1>9, <2>1, <3>1
    <3>3. g[k + 1] = c(k + 1) - c(0) /\ g[k] = c(k) - c(0) /\ c(0) \in Nat
      BY <1>6 DEF Header
    <3> QED
      BY <3>2, <3>3
  <2>4. g[N] = n - Header
    BY <1>2, <1>4, <1>6
  <2> HIDE DEF g
  <2>5. Adds(g, w)
    BY <1>2, <2>1, <2>2, <2>3 DEF Adds
  <2>6. TotalOf(w) = g[N]
    BY <2>1, <2>5, TotalIs
  <2>7. Header + (n - Header) = n
    BY <1>4 DEF Header
  <2> QED
    BY <1>8, <2>4, <2>6, <2>7 DEF w
<1>11. ASSUME NEW i \in 1 .. N, NEW j \in DOMAIN chunks[i].items
       PROVE  LET item == chunks[i].items[j]
              IN  /\ item # <<Outside>>
                  /\ SDESHeader + PrivPrefix(item) + PrivValue(item) <= Len(item)
  <2> DEFINE items == chunks[i].items
  <2>1. items \in Seq(WellSized)
    BY <1>9
  <2> HIDE DEF items
  <2>2. PICK item \in WellSized : item = items[j]
    BY <2>1, ElementOfSeq, LenProperties DEF items
  <2>3. /\ item \in Seq(ByteValues) /\ Len(item) >= 2 /\ Len(item) = 2 + item[2]
        /\ item[2] \in Nat /\ Len(item) \in Nat
    <3>1. item \in Seq(ByteValues) /\ Len(item) >= 2 /\ Len(item) = 2 + item[2] /\ Len(item) \in Nat
      BY LenProperties DEF WellSized
    <3>2. 2 \in 1 .. Len(item)
      BY <3>1
    <3> QED
      BY <3>1, <3>2, BytesTyped
  <2>4. item # <<Outside>>
    BY <2>3
  <2>5. ASSUME item[2] # 0 PROVE item[3] \in Nat
    <3>1. 3 \in 1 .. Len(item)
      BY <2>3, <2>5
    <3> QED
      BY <2>3, <3>1, BytesTyped
  <2>6. SDESHeader + PrivPrefix(item) + PrivValue(item) <= Len(item)
    <3>1. CASE item[1] # PRIV \/ item[2] = 0
      BY <2>3, <3>1 DEF PrivPrefix, PrivValue, SDESHeader
    <3>2. CASE ~(item[1] # PRIV \/ item[2] = 0)
      BY <2>3, <2>5, <3>2 DEF PrivPrefix, PrivValue, SDESHeader
    <3> QED
      BY <3>1, <3>2
  <2> QED
    BY <2>2, <2>4, <2>6 DEF items
<1>12. ASSUME NEW i \in 1 .. N PROVE <<Outside>> \notin ToSet(chunks[i].items)
  BY <1>11 DEF ToSet
<1>13. \A i \in 1 .. N : \A j \in DOMAIN chunks[i].items :
          LET item == chunks[i].items[j]
          IN  SDESHeader + PrivPrefix(item) + PrivValue(item) <= Len(item)
  BY <1>11
<1>14. /\ Len(chunks) = N
       /\ \A i \in DOMAIN chunks : <<Outside>> \notin ToSet(chunks[i].items)
       /\ \A i \in DOMAIN chunks : \A j \in DOMAIN chunks[i].items :
             LET item == chunks[i].items[j]
             IN  SDESHeader + PrivPrefix(item) + PrivValue(item) <= Len(item)
  BY <1>8, <1>12, <1>13, Zenon
<1> QED
  BY <1>10, <1>14 DEF n, N, chunks

\* The walk over the chunks and items of a received SDES packet of a known format
\* stays inside it, whatever bytes the packet is made of.
THEOREM WalkSafety == BuilderSpec => []WalkStaysInside
<1> DEFINE Inv == received \in Seq(ByteValues)
<1>1. BuilderInit => Inv
  BY DEF BuilderInit
<1>2. Inv /\ [BuilderNext]_packetVars => Inv'
  <2> SUFFICES ASSUME Inv, [BuilderNext]_packetVars PROVE Inv'
    OBVIOUS
  <2> USE DEF Call
  <2>1. CASE UNCHANGED packetVars
    BY <2>1 DEF packetVars
  <2>2. CASE BuilderNext
    <3>1. CASE \E n \in Nat : n <= MaxPackSize /\ CallInitBuild(n)
      BY <3>1 DEF CallInitBuild
    <3>2. CASE \E s \in ByteValues : CallStartReport(s) \/ CallAddSDESSource(s)
      BY <3>2 DEF CallStartReport, CallAddSDESSource
    <3>3. CASE \E s \in ByteValues : \E lost \in Int : CallAddReportBlock([ssrc |-> s, lost |-> lost])
      BY <3>3 DEF CallAddReportBlock
    <3>4. CASE \E s \in ByteValues : \E subtype \in Nat, n \in Nat : CallAddAPPPacket(subtype, s, n)
      BY <3>4 DEF CallAddAPPPacket
    <3>5. CASE \E id \in 1 .. 7, n \in ByteValues : CallAddNormalItem(id, n)
      BY <3>5 DEF CallAddNormalItem
    <3>6. CASE \E prefix \in ByteValues, value \in ByteValues : CallAddPrivateItem(prefix, value)
      BY <3>6 DEF CallAddPrivateItem
    <3>7. CASE \E ssrcs \in Seq(ByteValues), n \in ByteValues : CallAddBYEPacket(ssrcs, n)
      BY <3>7 DEF CallAddBYEPacket
    <3>8. CASE CallEndBuild
      BY <3>8 DEF CallEndBuild
    <3>9. CASE \E data \in Seq(ByteValues) : Receive(data)
      BY <3>9 DEF Receive
    <3> HIDE DEF Call, Inv
    <3> QED
      BY <2>2, <3>1, <3>2, <3>3, <3>4, <3>5, <3>6, <3>7, <3>8, <3>9, Zenon DEF BuilderNext
  <2> QED
    BY <2>1, <2>2
<1>3. Inv => WalkStaysInside
  BY WalkIsInside
<1> HIDE DEF Inv
<1> QED
  BY <1>1, <1>2, <1>3, PTL DEF BuilderSpec
-----------------------------------------------------------------------------
(* Where the parts of a long sequence are.                                   *)

\* The part s of w that starts behind the first o.
Holds(w, o, s) ==
    /\ o \in Nat /\ o + Len(s) <= Len(w)
    /\ \A j \in 1 .. Len(s) : w[o + j] = s[j]

LEMMA CutIs ==
    ASSUME NEW D, NEW w \in Seq(D), NEW s \in Seq(D), NEW o, Holds(w, o, s)
    PROVE  SubSeq(w, o + 1, o + Len(s)) = s
<1>1. o \in Nat /\ Len(s) \in Nat /\ Len(w) \in Nat /\ o + Len(s) <= Len(w)
  BY LenProperties DEF Holds
<1>2. \A i \in o + 1 .. o + Len(s) : w[i] \in D
  <2>1. \A i \in o + 1 .. o + Len(s) : i \in 1 .. Len(w)
    BY <1>1
  <2> QED
    BY <2>1, ElementOfSeq
<1> DEFINE c == SubSeq(w, o + 1, o + Len(s))
<1>3. /\ c \in Seq(D) /\ Len(c) = (IF o + 1 <= o + Len(s) THEN (o + Len(s)) - (o + 1) + 1 ELSE 0)
      /\ \A i \in 1 .. (o + Len(s)) - (o + 1) + 1 : c[i] = w[(o + 1) + i - 1]
  BY <1>1, <1>2, SubSeqProperties
<1> HIDE DEF c
<1>4. Len(c) = Len(s)
  BY <1>1, <1>3
<1>5. ASSUME NEW i \in 1 .. Len(s) PROVE c[i] = s[i]
  <2>1. i \in 1 .. (o + Len(s)) - (o + 1) + 1 /\ (o + 1) + i - 1 = o + i
    BY <1>1
  <2>2. c[i] = w[o + i]
    BY <1>3, <2>1
  <2> QED
    BY <2>2 DEF Holds
<1>6. c = s
  BY <1>3, <1>4, <1>5, SeqEqual
<1> QED
  BY <1>6 DEF c

LEMMA HoldsJoined ==
    ASSUME NEW D, NEW s \in Seq(D), NEW t \in Seq(D)
    PROVE  Holds(s \o t, 0, s) /\ Holds(s \o t, Len(s), t)
<1>1. /\ s \o t \in Seq(D) /\ Len(s) \in Nat /\ Len(t) \in Nat
      /\ Len(s \o t) = Len(s) + Len(t)
      /\ \A i \in 1 .. Len(s) : (s \o t)[i] = s[i]
      /\ \A i \in 1 .. Len(t) : (s \o t)[Len(s) + i] = t[i]
  BY Joined
<1> DEFINE w == s \o t
<1> HIDE DEF w
<1>2. \A i \in 1 .. Len(s) : 0 + i = i
  BY <1>1
<1>3. Holds(w, 0, s)
  BY <1>1, <1>2 DEF Holds, w
<1>4. Holds(w, Len(s), t)
  BY <1>1 DEF Holds, w
<1> QED
  BY <1>3, <1>4 DEF w

LEMMA HoldsHeld ==
    ASSUME NEW D, NEW w \in Seq(D), NEW s \in Seq(D), NEW t \in Seq(D), NEW o, NEW p,
           Holds(w, o, s), Holds(s, p, t)
    PROVE  Holds(w, o + p, t)
<1>1. /\ o \in Nat /\ p \in Nat /\ Len(s) \in Nat /\ Len(t) \in Nat /\ Len(w) \in Nat
      /\ o + Len(s) <= Len(w) /\ p + Len(t) <= Len(s)
  BY LenProperties DEF Holds
<1>2. ASSUME NEW j \in 1 .. Len(t) PROVE w[(o + p) + j] = t[j]
  <2>1. p + j \in 1 .. Len(s) /\ (o + p) + j = o + (p + j)
    BY <1>1
  <2>2. w[o + (p + j)] = s[p + j] /\ s[p + j] = t[j]
    BY <2>1 DEF Holds
  <2> QED
    BY <2>1, <2>2
<1> QED
  BY <1>1, <1>2 DEF Holds

LEMMA FlatLengths ==
    ASSUME NEW D, NEW q \in Seq(Seq(D)), NEW f, Flat(f, q)
    PROVE  /\ \A k \in Nat : k <= Len(q) => Len(f[k]) \in Nat
           /\ \A k \in Nat : k < Len(q) => Len(f[k + 1]) = Len(f[k]) + Len(q[k + 1])
           /\ Len(f[0]) = 0
           /\ Len(FlattenSeq(q)) = TotalOf(Sizes(q))
<1>1. /\ Len(q) \in Nat /\ \A i \in 1 .. Len(q) : q[i] \in Seq(D)
      /\ FlattenSeq(q) = f[Len(q)] /\ \A k \in Nat : k <= Len(q) => f[k] \in Seq(D)
  BY FlatIs, LenProperties, ElementOfSeq
<1>2. \A k \in Nat : k <= Len(q) => Len(f[k]) \in Nat
  BY <1>1, LenProperties
<1>3. ASSUME NEW k \in Nat, k < Len(q) PROVE Len(f[k + 1]) = Len(f[k]) + Len(q[k + 1])
  <2>1. k <= Len(q) /\ k + 1 \in 1 .. Len(q)
    BY <1>1, <1>3
  <2>2. f[k + 1] = f[k] \o q[k + 1]
    BY <1>3 DEF Flat
  <2>3. f[k] \in Seq(D) /\ q[k + 1] \in Seq(D)
    BY <1>1, <2>1
  <2> QED
    BY <2>2, <2>3, ConcatProperties
<1>4. Len(f[0]) = 0
  BY DEF Flat
<1> DEFINE g == [k \in Nat |-> Len(f[k])]
<1>5. Sizes(q) \in Seq(Nat) /\ Len(Sizes(q)) = Len(q) /\ \A i \in 1 .. Len(q) : Sizes(q)[i] = Len(q[i])
  BY SizesAre
<1>6. ASSUME NEW k \in Nat, k < Len(q) PROVE g[k + 1] = g[k] + Sizes(q)[k + 1]
  <2>1. k + 1 \in 1 .. Len(q)
    BY <1>1, <1>6
  <2>2. g[k + 1] = Len(f[k + 1]) /\ g[k] = Len(f[k])
    OBVIOUS
  <2>3. Len(f[k + 1]) = Len(f[k]) + Len(q[k + 1])
    BY <1>3, <1>6
  <2>4. Sizes(q)[k + 1] = Len(q[k + 1])
    BY <1>5, <2>1
  <2> HIDE DEF g
  <2> QED
    BY <2>2, <2>3, <2>4
<1>7. g[Len(q)] = Len(FlattenSeq(q))
  BY <1>1
<1>8. g[0] = 0
  BY <1>4
<1> HIDE DEF g
<1>9. Adds(g, Sizes(q))
  BY <1>5, <1>6, <1>8 DEF Adds
<1>10. TotalOf(Sizes(q)) = g[Len(q)]
  BY <1>5, <1>9, TotalIs
<1> QED
  BY <1>2, <1>3, <1>4, <1>7, <1>10

\* The part that was the sequence k + 1.
LEMMA Segment ==
    ASSUME NEW D, NEW q \in Seq(Seq(D)), NEW f, Flat(f, q), NEW k \in Nat, k < Len(q)
    PROVE  Holds(FlattenSeq(q), Len(f[k]), q[k + 1])
<1>1. /\ Len(q) \in Nat /\ \A i \in 1 .. Len(q) : q[i] \in Seq(D)
      /\ FlattenSeq(q) = f[Len(q)] /\ \A i \in Nat : i <= Len(q) => f[i] \in Seq(D)
  BY FlatIs, LenProperties, ElementOfSeq
<1> DEFINE S == {d \in Nat : k + 1 + d <= Len(q) => Holds(f[k + 1 + d], Len(f[k]), q[k + 1])}
<1>2. \A i \in Nat : i < Len(q) =>
          /\ f[i] \in Seq(D) /\ q[i + 1] \in Seq(D) /\ f[i + 1] = f[i] \o q[i + 1]
  <2> SUFFICES ASSUME NEW i \in Nat, i < Len(q)
               PROVE  f[i] \in Seq(D) /\ q[i + 1] \in Seq(D) /\ f[i + 1] = f[i] \o q[i + 1]
    OBVIOUS
  <2>1. i <= Len(q) /\ i + 1 \in 1 .. Len(q)
    BY <1>1
  <2> QED
    BY <1>1, <2>1 DEF Flat
<1>3. 0 \in S
  <2>1. Holds(f[k] \o q[k + 1], Len(f[k]), q[k + 1])
    BY <1>2, HoldsJoined
  <2>2. k + 1 + 0 = k + 1
    OBVIOUS
  <2> QED
    BY <1>2, <2>1, <2>2
<1>4. ASSUME NEW d \in Nat, d \in S PROVE d + 1 \in S
  <2> SUFFICES ASSUME k + 1 + (d + 1) <= Len(q)
               PROVE  Holds(f[k + 1 + (d + 1)], Len(f[k]), q[k + 1])
    OBVIOUS
  <2> DEFINE i == k + 1 + d
  <2>1. i \in Nat /\ i < Len(q) /\ i <= Len(q) /\ k + 1 + (d + 1) = i + 1
    BY <1>1
  <2>2. Holds(f[i], Len(f[k]), q[k + 1])
    BY <1>4, <2>1
  <2> HIDE DEF i
  <2>3. f[i] \in Seq(D) /\ q[i + 1] \in Seq(D) /\ f[i + 1] = f[i] \o q[i + 1]
    BY <1>2, <2>1
  <2>4. Holds(f[i + 1], 0, f[i]) /\ f[i + 1] \in Seq(D)
    BY <2>3, HoldsJoined, ConcatProperties
  <2>5. q[k + 1] \in Seq(D) /\ Len(f[k]) \in Nat
    BY <1>2, LenProperties
  <2>6. Holds(f[i + 1], 0 + Len(f[k]), q[k + 1])
    BY <2>2, <2>3, <2>4, <2>5, HoldsHeld, Zenon
  <2>7. 0 + Len(f[k]) = Len(f[k])
    BY <2>5
  <2> QED
    BY <2>1, <2>6, <2>7
<1>5. Len(q) - (k + 1) \in S
  <2>1. Len(q) - (k + 1) \in Nat
    BY <1>1
  <2> HIDE DEF S
  <2> QED
    BY <1>3, <1>4, <2>1, Counting
<1>6. k + 1 + (Len(q) - (k + 1)) = Len(q)
  BY <1>1
<1> QED
  BY <1>1, <1>5, <1>6

LEMMA FlattenNone == FlattenSeq(<<>>) = <<>>
  BY DEF FlattenSeq

LEMMA FlattenOne ==
    ASSUME NEW D, NEW s \in Seq(D)
    PROVE  FlattenSeq(<<s>>) = s
<1> DEFINE q == <<s>>
           f == [k \in Nat |-> IF k = 0 THEN <<>> ELSE s]
<1>1. q \in Seq(Seq(D)) /\ Len(q) = 1 /\ q[1] = s
  OBVIOUS
<1>2. f[0] = <<>> /\ f[1] = s /\ f[0 + 1] = s
  OBVIOUS
<1> HIDE DEF q, f
<1>3. f[0 + 1] = f[0] \o q[0 + 1]
  BY <1>1, <1>2, ConcatEmptySeq
<1>4. Flat(f, q)
  <2>1. \A k \in Nat : k < 1 => k = 0
    OBVIOUS
  <2> QED
    BY <1>1, <1>2, <1>3, <2>1 DEF Flat
<1>5. FlattenSeq(q) = f[Len(q)]
  BY <1>1, <1>4, FlatIs
<1> QED
  BY <1>1, <1>2, <1>5 DEF q

LEMMA FlattenJoined ==
    ASSUME NEW D, NEW p \in Seq(Seq(D)), NEW q \in Seq(Seq(D))
    PROVE  /\ FlattenSeq(p \o q) = FlattenSeq(p) \o FlattenSeq(q)
           /\ FlattenSeq(p) \in Seq(D) /\ FlattenSeq(q) \in Seq(D)
<1> DEFINE w == p \o q
           m == Len(p)
           n == Len(q)
<1>1. PICK f : Flat(f, p) /\ FlattenSeq(p) = f[m]
  BY FlatExists
<1>2. PICK g : Flat(g, q) /\ FlattenSeq(q) = g[n]
  BY FlatExists
<1>3. /\ w \in Seq(Seq(D)) /\ m \in Nat /\ n \in Nat /\ Len(w) = m + n
      /\ \A i \in 1 .. m : w[i] = p[i]
      /\ \A i \in 1 .. n : w[m + i] = q[i]
  BY Joined
<1>4. /\ \A k \in Nat : k <= m => f[k] \in Seq(D)
      /\ \A k \in Nat : k <= n => g[k] \in Seq(D)
      /\ FlattenSeq(p) \in Seq(D) /\ FlattenSeq(q) \in Seq(D)
  BY <1>1, <1>2, FlatIs
<1>5. /\ \A k \in Nat : k < m => f[k + 1] = f[k] \o p[k + 1]
      /\ \A k \in Nat : k < n => g[k + 1] = g[k] \o q[k + 1]
      /\ \A i \in 1 .. n : q[i] \in Seq(D)
      /\ f[0] = <<>> /\ g[0] = <<>>
  <2>1. \A i \in 1 .. n : q[i] \in Seq(D)
    BY ElementOfSeq
  <2> QED
    BY <1>1, <1>2, <2>1 DEF Flat
<1> HIDE DEF w, m, n
<1> DEFINE h == [k \in Nat |-> IF k <= m THEN f[k] ELSE f[m] \o g[k - m]]
<1>b. /\ \A k \in Nat : k <= m => h[k] = f[k]
      /\ \A k \in Nat : ~(k <= m) => h[k] = f[m] \o g[k - m]
  OBVIOUS
<1> HIDE DEF h
<1>6. ASSUME NEW k \in Nat, k < m + n PROVE h[k + 1] = h[k] \o w[k + 1]
  <2>1. CASE k < m
    <3>1. k + 1 \in 1 .. m /\ h[k + 1] = f[k + 1] /\ h[k] = f[k]
      BY <1>3, <1>b, <2>1
    <3> QED
      BY <1>3, <1>5, <2>1, <3>1
  <2>2. CASE ~(k < m)
    <3> DEFINE j == k - m
    <3>1. j \in Nat /\ j < n /\ j <= n /\ j + 1 \in 1 .. n /\ k + 1 = m + (j + 1) /\ (k + 1) - m = j + 1
              /\ ~(k + 1 <= m) /\ k + 1 \in Nat /\ (k = m => j = 0) /\ (k # m => ~(k <= m)) /\ k - m = j
      BY <1>3, <1>6, <2>2
    <3> HIDE DEF j
    <3>2. h[k + 1] = f[m] \o g[j + 1]
      BY <1>b, <3>1
    <3>3. h[k] = f[m] \o g[j]
      <4>1. CASE k = m
        <5>1. h[k] = f[m] /\ j = 0
          BY <1>3, <1>b, <3>1, <4>1
        <5>2. f[m] \o g[0] = f[m]
          BY <1>3, <1>4, <1>5, ConcatEmptySeq
        <5> QED
          BY <5>1, <5>2
      <4>2. CASE k # m
        BY <1>b, <3>1, <4>2
      <4> QED
        BY <4>1, <4>2
    <3>4. w[k + 1] = q[j + 1]
      BY <1>3, <3>1
    <3>5. g[j] \in Seq(D) /\ q[j + 1] \in Seq(D) /\ f[m] \in Seq(D)
      <4>1. m <= m
        BY <1>3
      <4> QED
        BY <1>3, <1>4, <1>5, <3>1, <4>1
    <3>a. g[j + 1] = g[j] \o q[j + 1]
      BY <1>5, <3>1
    <3>6. (f[m] \o g[j]) \o q[j + 1] = f[m] \o (g[j] \o q[j + 1])
      <4>1. ASSUME NEW x \in Seq(D), NEW y \in Seq(D), NEW z \in Seq(D)
            PROVE  (x \o y) \o z = x \o (y \o z)
        BY ConcatAssociative, SMTT(30)
      <4> QED
        BY <3>5, <4>1, Zenon
    <3> QED
      BY <3>2, <3>3, <3>4, <3>a, <3>6
  <2> QED
    BY <2>1, <2>2
<1>7. h[0] = <<>>
  <2>1. 0 <= m /\ 0 \in Nat
    BY <1>3
  <2> QED
    BY <1>5, <1>b, <2>1
<1>8. h[m + n] = f[m] \o g[n]
  <2>1. CASE n = 0
    <3>1. m + n = m /\ m <= m
      BY <1>3, <2>1
    <3>2. h[m + n] = f[m] /\ f[m] \o g[0] = f[m]
      BY <1>3, <1>4, <1>5, <1>b, <3>1, ConcatEmptySeq
    <3> QED
      BY <2>1, <3>2
  <2>2. CASE n # 0
    <3>1. ~(m + n <= m) /\ m + n \in Nat /\ (m + n) - m = n
      BY <1>3, <2>2
    <3> QED
      BY <1>b, <3>1
  <2> QED
    BY <2>1, <2>2
<1> HIDE DEF h
<1>9. Flat(h, w)
  BY <1>3, <1>6, <1>7 DEF Flat
<1>10. FlattenSeq(w) = h[m + n]
  BY <1>3, <1>9, FlatIs
<1> QED
  BY <1>1, <1>2, <1>4, <1>8, <1>10 DEF w, m, n
-----------------------------------------------------------------------------
(* The groups of at most MaxCount.                                           *)

\* Where group k of n ends.
GroupEnd(n, k) == IF k * MaxCount < n THEN k * MaxCount ELSE n

LEMMA GroupEnds ==
    ASSUME NEW n \in Nat
    PROVE  LET g == Ceil(n, MaxCount)
           IN  /\ g \in Nat /\ (n # 0 => g # 0) /\ (n = 0 => g = 0)
               /\ GroupEnd(n, 0) = 0 /\ GroupEnd(n, g) = n
               /\ \A k \in Nat : GroupEnd(n, k) \in Nat /\ GroupEnd(n, k) <= n
               /\ \A k \in Nat : k < g =>
                     /\ GroupEnd(n, k) = k * MaxCount /\ k * MaxCount < n
                     /\ GroupEnd(n, k) < GroupEnd(n, k + 1)
                     /\ GroupEnd(n, k + 1) <= GroupEnd(n, k) + MaxCount
<1> DEFINE g == Ceil(n, MaxCount)
<1>1. PICK m \in Nat : m = MaxCount /\ m >= 1
  BY CompoundAssumption
<1> DEFINE e == n + m - 1
<1>2. e \in Nat /\ g = e \div m /\ m \in Nat \ {0}
  BY <1>1 DEF Ceil
<1>3. g \in Nat /\ e % m \in 0 .. m - 1 /\ e = g * m + (e % m)
  <2> HIDE DEF g, e
  <2> QED
    BY <1>2, Division
<1>4. g * m <= n + m - 1 /\ g * m > n - 1 /\ g * m \in Nat
  BY <1>1, <1>3
<1> HIDE DEF g
<1>5. ASSUME NEW k \in Nat PROVE k * m \in Nat /\ (k + 1) * m = k * m + m
  BY <1>1
<1>6. ASSUME NEW k \in Nat, k < g PROVE k * m < n
  <2>1. k + 1 \in Nat /\ k + 1 <= g
    BY <1>3, <1>6
  <2>2. (k + 1) * m <= g * m
    BY <1>2, <1>3, <2>1, Product
  <2>3. k * m + m <= n + m - 1
    <3>1. (k + 1) * m = k * m + m /\ k * m \in Nat
      BY <1>5
    <3> QED
      BY <1>1, <1>4, <2>2, <3>1
  <2> QED
    BY <1>1, <1>5, <2>3
<1>7. GroupEnd(n, 0) = 0
  <2>1. 0 * m = 0
    BY <1>1
  <2> QED
    BY <1>1, <2>1 DEF GroupEnd
<1>8. GroupEnd(n, g) = n
  BY <1>1, <1>4 DEF GroupEnd
<1>9. \A k \in Nat : GroupEnd(n, k) \in Nat /\ GroupEnd(n, k) <= n
  BY <1>1, <1>5 DEF GroupEnd
<1>10. ASSUME NEW k \in Nat, k < g
       PROVE  /\ GroupEnd(n, k) = k * m /\ k * m < n
              /\ GroupEnd(n, k) < GroupEnd(n, k + 1)
              /\ GroupEnd(n, k + 1) <= GroupEnd(n, k) + m
  <2> DEFINE x == k * m
             y == (k + 1) * m
  <2>1. x \in Nat /\ x < n /\ y = x + m
    BY <1>5, <1>6, <1>10
  <2>2. GroupEnd(n, k) = (IF x < n THEN x ELSE n) /\ GroupEnd(n, k + 1) = (IF y < n THEN y ELSE n)
    BY <1>1 DEF GroupEnd
  <2>3. /\ GroupEnd(n, k) = x /\ x < n
        /\ GroupEnd(n, k) < GroupEnd(n, k + 1)
        /\ GroupEnd(n, k + 1) <= GroupEnd(n, k) + m
    <3> HIDE DEF x, y
    <3> QED
      BY <1>1, <2>1, <2>2
  <2> QED
    BY <2>3
<1>11. n # 0 => g # 0
  BY <1>7, <1>8
<1>12. n = 0 => g = 0
  <2> SUFFICES ASSUME n = 0, g # 0 PROVE FALSE
    OBVIOUS
  <2>1. 0 < g
    BY <1>3
  <2>2. 0 * m < n /\ 0 * m = 0
    BY <1>1, <1>6, <2>1
  <2> QED
    BY <2>2
<1> QED
  BY <1>1, <1>3, <1>7, <1>8, <1>9, <1>10, <1>11, <1>12 DEF g

LEMMA GroupIs ==
    ASSUME NEW D, NEW q \in Seq(D), NEW k \in Nat, k < Ceil(Len(q), MaxCount)
    PROVE  LET n == Len(q)
               e == GroupEnd(n, k)
               s == Group(q, k + 1)
           IN  /\ s \in Seq(D) /\ e + Len(s) = GroupEnd(n, k + 1) /\ e \in Nat
               /\ Len(s) \in Nat /\ 1 <= Len(s) /\ Len(s) <= MaxCount
               /\ s = SubSeq(q, e + 1, GroupEnd(n, k + 1))
               /\ \A i \in 1 .. Len(s) : s[i] = q[e + i] /\ e + i \in 1 .. n
<1> DEFINE n == Len(q)
           e == GroupEnd(n, k)
           h == GroupEnd(n, k + 1)
           s == Group(q, k + 1)
<1>1. n \in Nat /\ MaxCount \in Nat /\ MaxCount >= 1 /\ \A i \in 1 .. n : q[i] \in D
  BY LenProperties, ElementOfSeq, CompoundAssumption
<1>2. e \in Nat /\ h \in Nat /\ h <= n /\ e = k * MaxCount /\ e < h /\ h <= e + MaxCount
  <2> HIDE DEF n
  <2>1. k + 1 \in Nat
    OBVIOUS
  <2> QED
    BY <1>1, <2>1, GroupEnds DEF n
<1>3. s = SubSeq(q, e + 1, h)
  <2>1. (k + 1) - 1 = k
    OBVIOUS
  <2>2. h = (IF (k + 1) * MaxCount < Len(q) THEN (k + 1) * MaxCount ELSE Len(q))
    BY DEF GroupEnd
  <2> HIDE DEF h, e
  <2> QED
    BY <1>2, <2>1, <2>2 DEF Group
<1> HIDE DEF e, h, n, s
<1>4. \A i \in e + 1 .. h : q[i] \in D
  BY <1>1, <1>2
<1>5. /\ s \in Seq(D) /\ Len(s) = (IF e + 1 <= h THEN h - (e + 1) + 1 ELSE 0)
      /\ \A i \in 1 .. h - (e + 1) + 1 : s[i] = q[(e + 1) + i - 1]
  <2>1. e + 1 \in Int /\ h \in Int
    BY <1>2
  <2> QED
    BY <1>3, <1>4, <2>1, SubSeqProperties
<1>6. Len(s) = h - e
  BY <1>2, <1>5
<1>7. ASSUME NEW i \in 1 .. Len(s) PROVE s[i] = q[e + i] /\ e + i \in 1 .. n
  <2>1. i \in 1 .. h - (e + 1) + 1 /\ (e + 1) + i - 1 = e + i /\ e + i \in 1 .. n
    BY <1>1, <1>2, <1>6
  <2> QED
    BY <1>5, <2>1
<1>8. /\ e + Len(s) = h /\ Len(s) \in Nat /\ 1 <= Len(s) /\ Len(s) <= MaxCount
  BY <1>1, <1>2, <1>6
<1> QED
  BY <1>2, <1>3, <1>5, <1>7, <1>8 DEF e, h, n, s

\* Put together again they are what was split.
LEMMA GroupsFlat ==
    ASSUME NEW D, NEW q \in Seq(D)
    PROVE  FlattenSeq([k \in 1 .. Ceil(Len(q), MaxCount) |-> Group(q, k)]) = q
<1> DEFINE n == Len(q)
           g == Ceil(n, MaxCount)
           w == [k \in 1 .. g |-> Group(q, k)]
           f == [k \in Nat |-> SubSeq(q, 1, GroupEnd(n, k))]
<1>1. n \in Nat /\ g \in Nat /\ GroupEnd(n, 0) = 0 /\ GroupEnd(n, g) = n
      /\ \A k \in Nat : GroupEnd(n, k) \in Nat /\ GroupEnd(n, k) <= n
  <2>1. n \in Nat
    BY LenProperties
  <2> HIDE DEF n
  <2> QED
    BY <2>1, GroupEnds
<1>2. \A k \in Nat : k < g =>
         /\ Group(q, k + 1) \in Seq(D)
         /\ Group(q, k + 1) = SubSeq(q, GroupEnd(n, k) + 1, GroupEnd(n, k + 1))
         /\ GroupEnd(n, k) < GroupEnd(n, k + 1)
  <2> SUFFICES ASSUME NEW k \in Nat, k < g
               PROVE  /\ Group(q, k + 1) \in Seq(D)
                      /\ Group(q, k + 1) = SubSeq(q, GroupEnd(n, k) + 1, GroupEnd(n, k + 1))
                      /\ GroupEnd(n, k) < GroupEnd(n, k + 1)
    OBVIOUS
  <2>1. /\ Group(q, k + 1) \in Seq(D)
        /\ Group(q, k + 1) = SubSeq(q, GroupEnd(n, k) + 1, GroupEnd(n, k + 1))
    BY GroupIs
  <2>2. GroupEnd(n, k) < GroupEnd(n, k + 1)
    <3> HIDE DEF n
    <3> QED
      BY <1>1, GroupEnds
  <2> QED
    BY <2>1, <2>2
<1>3. w \in Seq(Seq(D)) /\ Len(w) = g /\ \A k \in 1 .. g : w[k] = Group(q, k)
  <2> HIDE DEF g, n
  <2>1. \A k \in 1 .. g : Group(q, k) \in Seq(D)
    <3> SUFFICES ASSUME NEW k \in 1 .. g PROVE Group(q, k) \in Seq(D)
      OBVIOUS
    <3>1. k - 1 \in Nat /\ k - 1 < g /\ (k - 1) + 1 = k
      BY <1>1
    <3> QED
      BY <1>2, <3>1
  <2> QED
    BY <1>1, <2>1
<1> HIDE DEF g, n, w
<1>4. f[0] = <<>>
  <2>1. f[0] = SubSeq(q, 1, 0)
    BY <1>1
  <2> HIDE DEF f
  <2>2. SubSeq(q, 1, 0) = <<>>
    BY SubSeqEmpty
  <2> QED
    BY <2>1, <2>2
<1>5. ASSUME NEW k \in Nat, k < g PROVE f[k + 1] = f[k] \o w[k + 1]
  <2>0. k + 1 \in Nat /\ k + 1 \in 1 .. g
    BY <1>1, <1>5
  <2> DEFINE e == GroupEnd(n, k)
             h == GroupEnd(n, k + 1)
  <2>1. e \in Nat /\ h \in Nat /\ e < h /\ h <= n /\ k + 1 \in 1 .. g
    BY <1>1, <1>2, <1>5, <2>0
  <2>2. f[k + 1] = SubSeq(q, 1, h) /\ f[k] = SubSeq(q, 1, e)
    <3>1. \A i \in Nat : f[i] = SubSeq(q, 1, GroupEnd(n, i))
      OBVIOUS
    <3> HIDE DEF f
    <3> QED
      BY <2>0, <3>1
  <2>3. w[k + 1] = SubSeq(q, e + 1, h)
    BY <1>2, <1>3, <1>5, <2>1
  <2> HIDE DEF e, h, f
  <2>4. 1 \in 1 .. Len(q) + 1 /\ e \in 1 - 1 .. Len(q) /\ h \in e .. Len(q)
    BY <1>1, <2>1, SMTT(30) DEF n
  <2>5. SubSeq(q, 1, e) \o SubSeq(q, e + 1, h) = SubSeq(q, 1, h)
    BY <2>4, ConcatAdjacentSubSeq
  <2> QED
    BY <2>2, <2>3, <2>5
<1>6. f[g] = q
  <2>1. f[g] = SubSeq(q, 1, Len(q))
    BY <1>1 DEF n
  <2> QED
    BY <2>1, SubSeqFull
<1> HIDE DEF f
<1>7. Flat(f, w)
  BY <1>3, <1>4, <1>5 DEF Flat
<1>8. FlattenSeq(w) = f[g]
  BY <1>3, <1>7, FlatIs
<1> QED
  BY <1>6, <1>8 DEF w, g, n
-----------------------------------------------------------------------------
(* Packets and the first pass of the parser over them.                       *)

\* Version 2, no padding, and a length that is true.
Packets ==
    {p \in Seq(ByteValues) : Len(p) >= Header /\ p[1] >= 128 /\ p[1] < 160 /\ LengthOf(p) = Len(p)}

\* w is s and then t.
Puts(w, s, t) ==
    /\ w \in Seq(ByteValues) /\ Len(s) \in Nat /\ Len(t) \in Nat /\ Len(w) = Len(s) + Len(t)
    /\ Holds(w, 0, s) /\ Holds(w, Len(s), t)

LEMMA Put == \A s, t \in Seq(ByteValues) : Puts(s \o t, s, t)
<1> SUFFICES ASSUME NEW s \in Seq(ByteValues), NEW t \in Seq(ByteValues)
             PROVE  Puts(s \o t, s, t)
  OBVIOUS
<1>1. /\ s \o t \in Seq(ByteValues) /\ Len(s) \in Nat /\ Len(t) \in Nat
      /\ Len(s \o t) = Len(s) + Len(t)
  BY Joined
<1>2. Holds(s \o t, 0, s) /\ Holds(s \o t, Len(s), t)
  BY HoldsJoined
<1> QED
  BY <1>1, <1>2, Zenon DEF Puts

LEMMA FourBytes ==
    ASSUME NEW a \in ByteValues, NEW b \in ByteValues, NEW c \in ByteValues, NEW d \in ByteValues
    PROVE  /\ <<a, b, c, d>> \in Seq(ByteValues) /\ Len(<<a, b, c, d>>) = 4
           /\ <<a, b, c, d>>[1] = a /\ <<a, b, c, d>>[2] = b
           /\ <<a, b, c, d>>[3] = c /\ <<a, b, c, d>>[4] = d
  OBVIOUS

\* The words the length of a header can count.
Wide == 65536

LEMMA SumOfBytes ==
    ASSUME NEW n \in Nat, n < Wide
    PROVE  /\ n \div 256 \in Nat /\ n \div 256 < 256 /\ n % 256 \in Nat /\ n % 256 < 256
           /\ 256 * (n \div 256) + (n % 256) = n
  BY DEF Wide

LEMMA PacketMade ==
    ASSUME NEW type \in ByteValues, NEW count \in Nat, count < 32,
           NEW n \in Nat, n % 4 = 0, n >= 4, n <= 4 * Wide,
           NEW body \in Seq(ByteValues), Len(body) = n - 4
    PROVE  LET p == HeaderBytes(type, count, n) \o body
           IN  /\ p \in Packets /\ Len(p) = n /\ TypeOf(p) = type /\ CountOf(p) = count
               /\ Holds(p, 4, body)
<1> DEFINE words == n \div 4 - 1
           h == HeaderBytes(type, count, n)
           p == h \o body
<1>1. words \in Nat /\ words < Wide /\ 4 * (words + 1) = n /\ words % Wide = words
  <2> DEFINE d == n \div 4
  <2>1. d \in Nat /\ n = d * 4 + (n % 4)
    OBVIOUS
  <2> HIDE DEF d
  <2>2. d >= 1 /\ d <= Wide /\ 4 * d = n
    BY <2>1 DEF Wide
  <2>3. d - 1 \in Nat /\ d - 1 < Wide /\ 4 * ((d - 1) + 1) = n /\ (d - 1) % Wide = d - 1
    BY <2>1, <2>2 DEF Wide
  <2> QED
    BY <2>3 DEF d
<1> DEFINE v == 128 + count
           hi == words \div 256
           lo == words % 256
<1>2. h = <<v, type, hi, lo>>
  <2>1. h = LET w == (n \div 4 - 1) % Wide IN <<128 + count, type, w \div 256, w % 256>>
    BY SMT DEF HeaderBytes, Wide
  <2>2. (n \div 4 - 1) % Wide = words
    BY <1>1
  <2> QED
    BY <2>1, <2>2, ZenonT(60)
<1> HIDE DEF words, h
<1>3. hi \in Nat /\ hi < 256 /\ lo \in Nat /\ lo < 256 /\ 256 * hi + lo = words
  BY <1>1, SumOfBytes, ZenonT(60)
<1> HIDE DEF hi, lo
<1>4. v \in ByteValues /\ hi \in ByteValues /\ lo \in ByteValues
  BY <1>3 DEF ByteValues
<1>v. v \in Nat /\ v >= 128 /\ v < 160 /\ v = 128 + count
  OBVIOUS
<1> HIDE DEF v
<1>5. /\ h \in Seq(ByteValues) /\ Len(h) = 4
      /\ h[1] = v /\ h[2] = type /\ h[3] = hi /\ h[4] = lo
  BY <1>2, <1>4, FourBytes
<1>a. Puts(p, h, body)
  BY <1>5, Put, Zenon
<1> HIDE DEF p
<1>6. /\ p \in Seq(ByteValues) /\ Len(p) = Len(h) + Len(body)
      /\ \A i \in 1 .. Len(h) : p[0 + i] = h[i]
  BY <1>a DEF Puts, Holds
<1>7. Holds(p, 4, body)
  BY <1>5, <1>a DEF Puts
<1>8. p \in Seq(ByteValues) /\ Len(p) = n /\ p[1] = v /\ p[2] = type /\ p[3] = hi /\ p[4] = lo
  <2>1. \A i \in 1 .. 4 : 0 + i = i
    OBVIOUS
  <2>2. \A i \in 1 .. 4 : p[i] = h[i]
    BY <1>5, <1>6, <2>1
  <2>3. Len(p) = n
    BY <1>5, <1>6
  <2> QED
    BY <1>5, <1>6, <2>2, <2>3
<1>9. LengthOf(p) = n
  <2>1. LengthOf(p) = 4 * (256 * hi + lo + 1)
    BY <1>8 DEF LengthOf, At0
  <2> QED
    BY <1>1, <1>3, <2>1
<1>10. TypeOf(p) = type
  BY <1>8 DEF TypeOf, At0
<1>11. CountOf(p) = count
  <2>1. CountOf(p) = v % 32
    BY <1>8 DEF CountOf, At0
  <2>2. (128 + count) % 32 = count
    OBVIOUS
  <2> QED
    BY <1>v, <2>1, <2>2
<1>12. p \in Packets
  BY <1>v, <1>8, <1>9 DEF Packets, Header
<1> QED
  BY <1>7, <1>8, <1>10, <1>11, <1>12 DEF p, h

LEMMA PacketIs ==
    ASSUME NEW p \in Packets
    PROVE  /\ p \in Seq(ByteValues) /\ Len(p) \in Nat /\ Len(p) >= 4 /\ LengthOf(p) = Len(p)
           /\ Version(p) = 2 /\ ~HasPadding(p) /\ PaddingFits(p) /\ Unpadded(p) = Len(p)
           /\ CountOf(p) \in Nat /\ CountOf(p) < 32 /\ TypeOf(p) \in ByteValues
<1>1. p \in Seq(ByteValues) /\ Len(p) \in Nat /\ Len(p) >= 4 /\ LengthOf(p) = Len(p)
      /\ p[1] >= 128 /\ p[1] < 160
  BY LenProperties DEF Packets, Header
<1>2. p[1] \in Nat /\ p[2] \in ByteValues
  <2>1. 1 \in 1 .. Len(p) /\ 2 \in 1 .. Len(p)
    BY <1>1
  <2> QED
    BY <1>1, <2>1, BytesTyped
<1>3. p[1] \div 64 = 2 /\ (p[1] \div 32) % 2 # 1 /\ p[1] % 32 \in Nat /\ p[1] % 32 < 32
  <2>1. \A n \in Nat : n >= 128 /\ n < 160 => n \div 64 = 2 /\ n \div 32 = 4 /\ n % 32 \in Nat /\ n % 32 < 32
    OBVIOUS
  <2>2. 4 % 2 # 1
    OBVIOUS
  <2> QED
    BY <1>1, <1>2, <2>1, <2>2
<1>4. Version(p) = 2 /\ ~HasPadding(p) /\ CountOf(p) \in Nat /\ CountOf(p) < 32 /\ TypeOf(p) \in ByteValues
  BY <1>2, <1>3 DEF Version, HasPadding, CountOf, TypeOf, At0
<1>5. PadCount(p) = 0
  BY <1>4 DEF PadCount
<1>6. PaddingFits(p) /\ Unpadded(p) = Len(p)
  BY <1>1, <1>5 DEF PaddingFits, Unpadded
<1> QED
  BY <1>1, <1>4, <1>6

LEMMA FromIs ==
    ASSUME NEW data \in Seq(ByteValues), NEW o \in Nat
    PROVE  /\ From(data, o) \in Seq(ByteValues)
           /\ o >= Len(data) => From(data, o) = <<>>
           /\ o < Len(data) => /\ From(data, o) # <<>> /\ Len(From(data, o)) = Len(data) - o
                               /\ \A i \in 1 .. Len(data) - o : From(data, o)[i] = data[o + i]
<1> DEFINE w == From(data, o)
<1>1. Len(data) \in Nat
  BY LenProperties
<1>2. \A i \in o + 1 .. Len(data) : data[i] \in ByteValues
  <2>1. \A i \in o + 1 .. Len(data) : i \in 1 .. Len(data)
    BY <1>1
  <2> QED
    BY <2>1, ElementOfSeq
<1>3. /\ w \in Seq(ByteValues)
      /\ Len(w) = (IF o + 1 <= Len(data) THEN Len(data) - (o + 1) + 1 ELSE 0)
      /\ \A i \in 1 .. Len(data) - (o + 1) + 1 : w[i] = data[(o + 1) + i - 1]
  BY <1>1, <1>2, SubSeqProperties DEF From
<1> HIDE DEF w
<1>4. ASSUME o >= Len(data) PROVE w = <<>>
  <2>1. Len(w) = 0
    BY <1>1, <1>3, <1>4
  <2> QED
    BY <1>3, <2>1, EmptySeq
<1>5. ASSUME o < Len(data)
      PROVE  w # <<>> /\ Len(w) = Len(data) - o /\ \A i \in 1 .. Len(data) - o : w[i] = data[o + i]
  <2>1. Len(w) = Len(data) - o /\ Len(w) # 0
    BY <1>1, <1>3, <1>5
  <2>2. ASSUME NEW i \in 1 .. Len(data) - o PROVE w[i] = data[o + i]
    <3>1. i \in 1 .. Len(data) - (o + 1) + 1 /\ (o + 1) + i - 1 = o + i
      BY <1>1
    <3> QED
      BY <1>3, <3>1
  <2>3. w # <<>>
    BY <2>1
  <2> QED
    BY <2>1, <2>2, <2>3
<1> QED
  BY <1>3, <1>4, <1>5 DEF w

\* The values of the first pass.
Pass(f, data) ==
    \A o \in Nat :
       f[o] = LET next == From(data, o)
                  rest == f[o + LengthOf(next)]
              IN  IF next = <<>> THEN [ok |-> TRUE, packets |-> <<>>]
                  ELSE IF ~ValidHeader(next) \/ ~rest.ok THEN Invalid
                  ELSE [rest EXCEPT !.packets = <<SubSeq(next, 1, LengthOf(next))>> \o @]

LEMMA PassExists ==
    ASSUME NEW data \in Seq(ByteValues)
    PROVE  \E f : Pass(f, data) /\ ParseAll(data) = f[0]
<1> DEFINE Is(f) == f = [o \in Nat |->
                 LET next == From(data, o)
                     rest == f[o + LengthOf(next)]
                 IN  IF next = <<>> THEN [ok |-> TRUE, packets |-> <<>>]
                     ELSE IF ~ValidHeader(next) \/ ~rest.ok THEN Invalid
                     ELSE [rest EXCEPT !.packets = <<SubSeq(next, 1, LengthOf(next))>> \o @]]
           iter == CHOOSE f : Is(f)
           m == [x \in Nat |-> IF x < Len(data) THEN Len(data) - x ELSE 0]
<1>0. Len(data) \in Nat
  BY BytesTyped
<1>1. ParseAll(data) = iter[0]
  BY Zenon DEF ParseAll
<1>2. \A x \in Nat : m[x] \in Nat
  BY <1>0
<1>3. \A f, g : \A x \in Nat : (\A y \in Nat : m[y] < m[x] => f[y] = g[y])
         => Turn("parse", data, f, x) = Turn("parse", data, g, x)
  <2> SUFFICES ASSUME NEW f, NEW g, NEW x \in Nat, \A y \in Nat : m[y] < m[x] => f[y] = g[y]
               PROVE  Turn("parse", data, f, x) = Turn("parse", data, g, x)
    BY Zenon
  <2> DEFINE next == From(data, x)
             e == x + LengthOf(next)
  <2>1. CASE next = <<>>
    BY <2>1 DEF Turn
  <2>2. CASE next # <<>> /\ ~ValidHeader(next)
    BY <2>2 DEF Turn
  <2>3. CASE next # <<>> /\ ValidHeader(next)
    <3>1. x < Len(data)
      BY <1>0, <2>3, FromIs
    <3>2. next \in Seq(ByteValues)
      BY FromIs
    <3> HIDE DEF next
    <3>3. LengthOf(next) \in Nat /\ LengthOf(next) >= 4
      <4>1. Len(next) >= 4 /\ Len(next) \in Nat
        BY <2>3, <3>2, LenProperties DEF ValidHeader, Header
      <4>2. At0(next, 2) \in Nat /\ At0(next, 3) \in Nat
        <5>1. 2 \in Nat /\ 3 \in Nat /\ 2 < Len(next) /\ 3 < Len(next)
          BY <4>1
        <5> QED
          BY <3>2, <5>1, BytesTyped
      <4> QED
        BY <4>2 DEF LengthOf
    <3>4. e \in Nat /\ m[e] < m[x]
      BY <1>0, <3>1, <3>3
    <3>5. f[e] = g[e]
      <4> HIDE DEF e, m
      <4> QED
        BY <3>4
    <3> HIDE DEF m
    <3> QED
      BY <3>5 DEF Turn, next
  <2> QED
    BY <2>1, <2>2, <2>3
<1> HIDE DEF m
<1>4. Measured("parse", data, Nat, m)
  BY <1>2, <1>3, Zenon DEF Measured
<1>5. \E f : IsTurn(f, "parse", data, Nat)
  BY <1>4, Recursion, Zenon
<1>6. \A f : IsTurn(f, "parse", data, Nat) => Is(f)
  BY ZenonT(60) DEF Turn, IsTurn
<1>7. Is(iter)
  <2> HIDE DEF Is
  <2> QED
    BY <1>5, <1>6
<1> DEFINE T(f, o) ==
             LET next == From(data, o)
                 rest == f[o + LengthOf(next)]
             IN  IF next = <<>> THEN [ok |-> TRUE, packets |-> <<>>]
                 ELSE IF ~ValidHeader(next) \/ ~rest.ok THEN Invalid
                 ELSE [rest EXCEPT !.packets = <<SubSeq(next, 1, LengthOf(next))>> \o @]
<1>8. \A o \in Nat : iter[o] = T(iter, o)
  <2>1. iter = [o \in Nat |-> T(iter, o)]
    BY <1>7
  <2> HIDE DEF iter, T
  <2> QED
    BY <2>1
<1> HIDE DEF iter
<1>9. Pass(iter, data)
  BY <1>8 DEF Pass
<1> QED
  BY <1>1, <1>9

\* It finds the packets that were put together.
LEMMA PacketsParsed ==
    ASSUME NEW q \in Seq(Packets)
    PROVE  /\ FlattenSeq(q) \in Seq(ByteValues)
           /\ ParseAll(FlattenSeq(q)) = [ok |-> TRUE, packets |-> q]
<1> DEFINE data == FlattenSeq(q)
           n == Len(q)
<1>1. q \in Seq(Seq(ByteValues)) /\ n \in Nat /\ \A i \in 1 .. n : q[i] \in Packets
  <2>1. Packets \subseteq Seq(ByteValues)
    BY DEF Packets
  <2>2. q \in Seq(Seq(ByteValues))
    BY <2>1, SeqMonotonic
  <2> QED
    BY <2>2, LenProperties, ElementOfSeq
<1>2. PICK f : Flat(f, q)
  BY <1>1, FlatExists
<1>3. data \in Seq(ByteValues) /\ data = f[n]
  BY <1>1, <1>2, FlatIs
<1>4. \A k \in Nat : k < n =>
         /\ Holds(data, Len(f[k]), q[k + 1]) /\ Len(f[k + 1]) = Len(f[k]) + Len(q[k + 1])
         /\ k + 1 \in 1 .. n
  <2>1. \A k \in Nat : k < n => Holds(data, Len(f[k]), q[k + 1])
    BY <1>1, <1>2, Segment
  <2>2. \A k \in Nat : k < n => Len(f[k + 1]) = Len(f[k]) + Len(q[k + 1])
    BY <1>1, <1>2, FlatLengths
  <2>3. \A k \in Nat : k < n => k + 1 \in 1 .. n
    BY <1>1
  <2> QED
    BY <2>1, <2>2, <2>3, Zenon
<1>5. Len(f[0]) = 0 /\ \A k \in Nat : k <= n => Len(f[k]) \in Nat
  BY <1>1, <1>2, FlatLengths
<1>6. PICK g : Pass(g, data) /\ ParseAll(data) = g[0]
  BY <1>3, PassExists
<1> HIDE DEF data, n
<1> DEFINE R(k) == [ok |-> TRUE, packets |-> SubSeq(q, k + 1, n)]
           S == {d \in Nat : d <= n => g[Len(f[n - d])] = R(n - d)}
<1>7. 0 \in S
  <2>1. n - 0 = n /\ n <= n
    BY <1>1
  <2>2. From(data, Len(data)) = <<>>
    <3>1. Len(data) \in Nat /\ Len(data) >= Len(data)
      BY <1>3, LenProperties
    <3> QED
      BY <1>3, <3>1, FromIs
  <2>3. Len(data) \in Nat
    BY <1>3, LenProperties
  <2>4. g[Len(data)] = [ok |-> TRUE, packets |-> <<>>]
    BY <1>6, <2>2, <2>3, Zenon DEF Pass
  <2>5. SubSeq(q, n + 1, n) = <<>>
    BY <1>1, SubSeqEmpty
  <2> QED
    BY <1>3, <2>1, <2>4, <2>5
<1>8. ASSUME NEW d \in Nat, d \in S PROVE d + 1 \in S
  <2> SUFFICES ASSUME d + 1 <= n PROVE g[Len(f[n - (d + 1)])] = R(n - (d + 1))
    OBVIOUS
  <2>1. PICK k \in Nat : k = n - (d + 1) /\ k < n /\ k <= n /\ k + 1 = n - d /\ d <= n
    BY <1>1
  <2> DEFINE o == Len(f[k])
             p == q[k + 1]
             next == From(data, o)
  <2>2. /\ Holds(data, o, p) /\ Len(f[k + 1]) = o + Len(p) /\ o \in Nat /\ k + 1 \in 1 .. n
        /\ p \in Packets
    BY <1>1, <1>4, <1>5, <2>1
  <2> HIDE DEF o, p
  <2>3. /\ p \in Seq(ByteValues) /\ Len(p) \in Nat /\ Len(p) >= 4 /\ LengthOf(p) = Len(p)
        /\ Version(p) = 2 /\ ~HasPadding(p)
    BY <2>2, PacketIs
  <2>4. Len(data) \in Nat /\ o + Len(p) <= Len(data) /\ \A j \in 1 .. Len(p) : data[o + j] = p[j]
    BY <1>3, <2>2, LenProperties DEF Holds
  <2>5. /\ next # <<>> /\ next \in Seq(ByteValues) /\ Len(next) = Len(data) - o
        /\ \A i \in 1 .. Len(data) - o : next[i] = data[o + i]
    <3>1. o < Len(data)
      BY <2>2, <2>3, <2>4
    <3> QED
      BY <1>3, <2>2, <3>1, FromIs
  <2> HIDE DEF next
  <2>6. \A j \in 1 .. Len(p) : next[j] = p[j]
    <3> SUFFICES ASSUME NEW j \in 1 .. Len(p) PROVE next[j] = p[j]
      OBVIOUS
    <3>1. j \in 1 .. Len(data) - o
      BY <2>2, <2>3, <2>4
    <3> QED
      BY <2>4, <2>5, <3>1
  <2>7. next[1] = p[1] /\ next[3] = p[3] /\ next[4] = p[4]
    BY <2>3, <2>6
  <2>8. Version(next) = 2 /\ ~HasPadding(next) /\ LengthOf(next) = Len(p)
    <3>1. At0(next, 0) = At0(p, 0) /\ At0(next, 2) = At0(p, 2) /\ At0(next, 3) = At0(p, 3)
      BY <2>7 DEF At0
    <3>2. Version(next) = Version(p) /\ (HasPadding(next) <=> HasPadding(p)) /\ LengthOf(next) = LengthOf(p)
      BY <3>1 DEF Version, HasPadding, LengthOf
    <3> QED
      BY <2>3, <3>2
  <2>9. ValidHeader(next)
    <3>1. Len(next) >= Len(p) /\ Len(next) >= 4
      BY <2>2, <2>3, <2>4, <2>5
    <3> QED
      BY <2>8, <3>1 DEF ValidHeader, Header
  <2>10. SubSeq(next, 1, LengthOf(next)) = p
    <3>1. Holds(next, 0, p)
      <4>1. Len(next) >= Len(p) /\ 0 + Len(p) = Len(p) /\ \A j \in 1 .. Len(p) : 0 + j = j
        BY <2>2, <2>3, <2>4, <2>5
      <4> QED
        BY <2>6, <4>1 DEF Holds
    <3>2. SubSeq(next, 0 + 1, 0 + Len(p)) = p
      BY <2>3, <2>5, <3>1, CutIs
    <3>3. 0 + 1 = 1 /\ 0 + Len(p) = Len(p)
      BY <2>3
    <3> QED
      BY <2>8, <3>2, <3>3
  <2>11. g[o + LengthOf(next)] = R(k + 1)
    <3>1. g[Len(f[n - d])] = R(n - d)
      BY <1>8, <2>1
    <3> HIDE DEF R
    <3> QED
      BY <2>1, <2>2, <2>8, <3>1
  <2>12. g[o] = [R(k + 1) EXCEPT !.packets = <<p>> \o @]
    <3>1. g[o] = (LET rest == g[o + LengthOf(next)]
                 IN  IF next = <<>> THEN [ok |-> TRUE, packets |-> <<>>]
                     ELSE IF ~ValidHeader(next) \/ ~rest.ok THEN Invalid
                     ELSE [rest EXCEPT !.packets = <<SubSeq(next, 1, LengthOf(next))>> \o @])
      BY <1>6, <2>2, Zenon DEF Pass, next
    <3>2. R(k + 1).ok
      OBVIOUS
    <3> HIDE DEF R
    <3> QED
      BY <2>5, <2>9, <2>10, <2>11, <3>1, <3>2
  <2>13. <<p>> \o SubSeq(q, (k + 1) + 1, n) = SubSeq(q, k + 1, n)
    <3>1. k + 1 \in 1 .. Len(q) /\ n \in k + 1 .. Len(q)
      BY <1>1, <2>2 DEF n
    <3>2. SubSeq(q, k + 1, n) = <<q[k + 1]>> \o SubSeq(q, (k + 1) + 1, n)
      BY <3>1, SubSeqRecursiveFirst
    <3> QED
      BY <3>2 DEF p
  <2>14. g[o] = R(k)
    BY <2>12, <2>13
  <2> QED
    BY <2>1, <2>14 DEF o
<1>9. n \in S
  <2> HIDE DEF S
  <2> QED
    BY <1>1, <1>7, <1>8, Counting
<1>10. g[0] = [ok |-> TRUE, packets |-> q]
  <2>1. n - n = 0 /\ n <= n /\ 0 + 1 = 1
    BY <1>1
  <2>2. g[Len(f[0])] = R(0)
    BY <1>9, <2>1
  <2>3. SubSeq(q, 1, n) = q
    BY SubSeqFull DEF n
  <2> QED
    BY <1>5, <2>1, <2>2, <2>3
<1> QED
  BY <1>3, <1>6, <1>10 DEF data
-----------------------------------------------------------------------------
(* SDES packets are read as they were written.                               *)

\* What the builder makes an item of.
WellMade == {s \in WellSized : s[1] # 0}
ChunkSources == [ssrc : ByteValues, items : Seq(WellMade)]

LEMMA WellMadeIs ==
    /\ WellMade \subseteq Seq(ByteValues)
    /\ \A q : q \in Seq(WellMade) => q \in Seq(Seq(ByteValues))
<1>1. WellMade \subseteq Seq(ByteValues)
  BY DEF WellMade, WellSized
<1>2. ASSUME NEW q \in Seq(WellMade) PROVE q \in Seq(Seq(ByteValues))
  BY <1>1, SeqMonotonic
<1> QED
  BY <1>1, <1>2

\* The items, and the zero after them, are in the packet from o.
Laid(data, n, items, o, t) ==
    /\ data \in Seq(ByteValues) /\ n \in Nat /\ n <= Len(data) /\ items \in Seq(WellMade) /\ o \in Nat
    /\ t = Len(FlattenSeq(items)) /\ Holds(data, o, FlattenSeq(items))
    /\ data[o + t + 1] = 0 /\ RoundUp(o + t + 1) <= n

LEMMA ItemsLaid ==
    ASSUME NEW data, NEW n, NEW items, NEW o, NEW t, Laid(data, n, items, o, t)
    PROVE  ReadItems(data, o) = items /\ EndOfItems(data, o, n) = RoundUp(o + t + 1)
<1> SUFFICES ASSUME data \in Seq(ByteValues), n \in Nat, n <= Len(data),
                    items \in Seq(WellMade), o \in Nat,
                    t = Len(FlattenSeq(items)), Holds(data, o, FlattenSeq(items)),
                    data[o + t + 1] = 0, RoundUp(o + t + 1) <= n
             PROVE  ReadItems(data, o) = items /\ EndOfItems(data, o, n) = RoundUp(o + t + 1)
  BY DEF Laid
<1> DEFINE l == Len(items)
           w == FlattenSeq(items)
<1>1. items \in Seq(Seq(ByteValues)) /\ l \in Nat /\ \A i \in 1 .. l : items[i] \in WellMade
  BY WellMadeIs, LenProperties, ElementOfSeq
<1>2. PICK f : Flat(f, items)
  BY <1>1, FlatExists
<1>3. w \in Seq(ByteValues) /\ w = f[l] /\ t \in Nat
  <2>1. w \in Seq(ByteValues) /\ w = f[l]
    BY <1>1, <1>2, FlatIs
  <2> QED
    BY <2>1, LenProperties
<1>4. Len(data) \in Nat /\ o + t + 1 <= n /\ o + t + 1 \in Nat
  <2>1. o + t + 1 \in Nat
    BY <1>3
  <2>2. RoundUp(o + t + 1) \in Nat /\ o + t + 1 <= RoundUp(o + t + 1)
    BY <2>1, Rounded
  <2> QED
    BY <2>1, <2>2, BytesTyped
<1>5. \A k \in Nat : k < l => Holds(w, Len(f[k]), items[k + 1])
  BY <1>1, <1>2, Segment
<1>6. /\ \A k \in Nat : k < l => Len(f[k + 1]) = Len(f[k]) + Len(items[k + 1])
      /\ \A k \in Nat : k <= l => Len(f[k]) \in Nat
      /\ Len(f[0]) = 0
  BY <1>1, <1>2, FlatLengths
<1> HIDE DEF w, l
<1> DEFINE P(k) == /\ ReadItems(data, o + Len(f[k])) = SubSeq(items, k + 1, l)
                   /\ EndOfItems(data, o + Len(f[k]), n) = RoundUp(o + t + 1)
           S == {d \in Nat : d <= l => P(l - d)}
<1>7. P(l)
  <2>1. Len(f[l]) = t /\ SubSeq(items, l + 1, l) = <<>>
    <3>1. SubSeq(items, l + 1, l) = <<>>
      BY <1>1, SubSeqEmpty
    <3> QED
      BY <1>3, <3>1 DEF w
  <2> DEFINE x == o + t
  <2>2. x \in Nat /\ x < n /\ x < Len(data) /\ At0(data, x) = 0 /\ x + 1 = o + t + 1
    BY <1>3, <1>4 DEF At0
  <2> HIDE DEF x
  <2>3. ReadItems(data, x) = <<>>
    <3>1. ~(x >= Len(data))
      BY <1>4, <2>2
    <3> QED
      BY <2>2, <3>1, ItemsStep, Zenon
  <2>4. EndOfItems(data, x, n) = RoundUp(x + 1)
    <3>1. ~(x >= n) /\ ~(RoundUp(x + 1) > n)
      <4>1. RoundUp(o + t + 1) \in Nat
        BY <1>4, Rounded
      <4> QED
        BY <2>2, <4>1
    <3> QED
      BY <2>2, <3>1, EndStep, Zenon
  <2> QED
    BY <2>1, <2>2, <2>3, <2>4 DEF x
<1>8. ASSUME NEW k \in Nat, k < l, P(k + 1) PROVE P(k)
  <2> DEFINE x == o + Len(f[k])
             item == items[k + 1]
             e == o + Len(f[k + 1])
  <2>1. /\ Holds(w, Len(f[k]), item) /\ item \in WellMade /\ Len(f[k]) \in Nat
        /\ Len(f[k + 1]) = Len(f[k]) + Len(item)
    <3>1. k + 1 \in 1 .. l /\ k <= l
      BY <1>1, <1>8
    <3>2. item \in WellMade
      BY <1>1, <3>1
    <3> QED
      BY <1>5, <1>6, <1>8, <3>1, <3>2
  <2>2. item \in Seq(ByteValues) /\ Len(item) \in Nat /\ Len(item) >= 2 /\ Len(item) = 2 + item[2]
        /\ item[1] # 0
    BY <2>1, LenProperties DEF WellMade, WellSized
  <2>3. Holds(data, x, item)
    <3>1. Holds(data, o, w)
      BY DEF w
    <3> HIDE DEF item
    <3> QED
      BY <1>3, <2>1, <2>2, <3>1, HoldsHeld
  <2>4. ReadItems(data, e) = SubSeq(items, (k + 1) + 1, l) /\ EndOfItems(data, e, n) = RoundUp(o + t + 1)
    BY <1>8
  <2> DEFINE li == Len(item)
             la == Len(f[k])
             lb == Len(f[k + 1])
  <2>5. x \in Nat /\ e = x + li /\ e \in Nat /\ e <= o + t /\ li \in Nat /\ li >= 2 /\ li = 2 + item[2]
    <3>1. la + li <= t /\ li \in Nat /\ la \in Nat /\ lb = la + li /\ li >= 2 /\ li = 2 + item[2]
      BY <2>1, <2>2 DEF Holds, w
    <3>2. x = o + la /\ e = o + lb
      OBVIOUS
    <3> HIDE DEF item, la, lb, li, x, e
    <3> QED
      BY <1>3, <3>1, <3>2, SMTT(30)
  <2> HIDE DEF x, e, item
  <2>6. At0(data, x) = item[1] /\ At0(data, x + 1) = item[2]
    <3>1. 1 \in 1 .. Len(item) /\ 2 \in 1 .. Len(item) /\ x + 1 + 1 = x + 2
      BY <2>2, <2>5, SMTT(30)
    <3>2. data[x + 1] = item[1] /\ data[x + 2] = item[2]
      BY <2>3, <3>1 DEF Holds
    <3> QED
      BY <3>1, <3>2 DEF At0
  <2>7. e < n /\ e < Len(data) /\ e = x + SDESHeader + At0(data, x + 1) /\ x + 2 <= e /\ item[2] \in Nat
    <3>1. item[2] \in Nat
      <4>1. 2 \in 1 .. Len(item)
        BY <2>2
      <4> QED
        BY <2>2, <4>1, BytesTyped
    <3> DEFINE ld == Len(data)
               v == At0(data, x + 1)
    <3>2. ld \in Nat /\ n <= ld /\ o + t + 1 <= n /\ t \in Nat /\ v = item[2]
      BY <1>3, <1>4, <2>6
    <3> HIDE DEF li, ld, v
    <3>5. x \in Nat /\ e = x + li /\ e \in Nat /\ e <= o + t /\ li = 2 + item[2]
      BY <2>5, Zenon
    <3>a. e < n
      <4>1. o \in Nat /\ n \in Nat
        BY <1>3, <1>4
      <4> QED
        BY <3>2, <3>5, <4>1, SMT
    <3>b. e < ld
      <4>1. n \in Nat
        BY <1>4
      <4> QED
        BY <3>2, <3>5, <3>a, <4>1, SMT
    <3>c. e = x + 2 + v
      <4>1. v \in Nat /\ li = 2 + v
        BY <2>5, <3>1, <3>2, Zenon
      <4>2. x \in Nat /\ e = x + li
        BY <2>5
      <4> QED
        BY <4>1, <4>2, SMT
    <3>d. x + 2 <= e
      <4>1. v \in Nat /\ x \in Nat
        BY <3>1, <3>2, <3>5, Zenon
      <4> QED
        BY <3>c, <4>1, SMT
    <3>3. e < n /\ e < ld /\ e = x + 2 + v /\ x + 2 <= e
      BY <3>a, <3>b, <3>c, <3>d
    <3> QED
      BY <3>1, <3>3 DEF SDESHeader, ld, v
  <2>8. SubSeq(data, x + 1, e) = item
    BY <2>2, <2>3, <2>5, CutIs
  <2>9. ReadItems(data, x) = <<item>> \o ReadItems(data, e)
    <3> HIDE DEF li
    <3> DEFINE ld == Len(data)
    <3>0. ld \in Nat /\ e < ld /\ At0(data, x) # 0
      BY <1>4, <2>2, <2>6, <2>7
    <3> HIDE DEF ld
    <3>a. ~(x >= ld) /\ ~(x + 1 >= ld)
      <4>1. x \in Nat /\ e \in Nat /\ x + 2 <= e
        BY <2>5, <2>7, Zenon
      <4> QED
        BY <3>0, <4>1, SMT
    <3>1. ~(x >= Len(data)) /\ ~(x + 1 >= Len(data)) /\ At0(data, x) # 0
      BY <3>0, <3>a DEF ld
    <3> QED
      BY <2>5, <2>7, <2>8, <3>1, ItemsStep, Zenon
  <2>10. EndOfItems(data, x, n) = EndOfItems(data, e, n)
    <3> HIDE DEF li
    <3>1. ~(x >= n) /\ ~(x + SDESHeader > n) /\ ~(e > n) /\ At0(data, x) # 0
      <4>1. n \in Nat /\ x \in Nat /\ e \in Nat /\ e < n /\ x + 2 <= e
        BY <1>4, <2>5, <2>7, Zenon
      <4>2. SDESHeader = 2
        BY DEF SDESHeader
      <4>3. At0(data, x) # 0
        BY <2>2, <2>6, Zenon
      <4>4. ~(x >= n) /\ ~(x + SDESHeader > n) /\ ~(e > n)
        BY <4>1, <4>2, SMT
      <4> QED
        BY <4>3, <4>4
    <3>2. ~(x + SDESHeader + At0(data, x + 1) > n)
      BY <2>7, <3>1
    <3>3. EndOfItems(data, x, n) = EndOfItems(data, x + SDESHeader + At0(data, x + 1), n)
      BY <2>5, <3>1, <3>2, EndStep, Zenon
    <3> QED
      BY <2>7, <3>3
  <2>11. <<item>> \o SubSeq(items, (k + 1) + 1, l) = SubSeq(items, k + 1, l)
    <3>1. k + 1 \in 1 .. Len(items) /\ l \in k + 1 .. Len(items)
      BY <1>1, <1>8 DEF l
    <3>2. SubSeq(items, k + 1, l) = <<items[k + 1]>> \o SubSeq(items, (k + 1) + 1, l)
      BY <3>1, SubSeqRecursiveFirst
    <3> QED
      BY <3>2 DEF item
  <2> QED
    BY <2>4, <2>9, <2>10, <2>11 DEF x
<1>9. 0 \in S
  <2>1. l - 0 = l
    BY <1>1
  <2> HIDE DEF P
  <2> QED
    BY <1>7, <2>1
<1>10. ASSUME NEW d \in Nat, d \in S PROVE d + 1 \in S
  <2> SUFFICES ASSUME d + 1 <= l PROVE P(l - (d + 1))
    BY <1>10
  <2>1. l - (d + 1) \in Nat /\ l - (d + 1) < l /\ (l - (d + 1)) + 1 = l - d /\ d <= l
    BY <1>1
  <2>2. P(l - d)
    BY <1>10, <2>1
  <2> HIDE DEF P
  <2> QED
    BY <1>8, <2>1, <2>2
<1>11. l \in S
  <2> HIDE DEF S
  <2> QED
    BY <1>1, <1>9, <1>10, Counting
<1>12. P(0)
  <2>1. l - l = 0 /\ l <= l
    BY <1>1
  <2> HIDE DEF P
  <2> QED
    BY <1>11, <2>1
<1>13. o + Len(f[0]) = o /\ 0 + 1 = 1 /\ SubSeq(items, 1, l) = items
  <2>1. SubSeq(items, 1, l) = items
    BY SubSeqFull DEF l
  <2> QED
    BY <1>6, <2>1
<1> QED
  BY <1>12, <1>13

LEMMA FillIs ==
    ASSUME NEW byte \in ByteValues, NEW n \in Nat
    PROVE  Fill(byte, n) \in Seq(ByteValues) /\ Len(Fill(byte, n)) = n
           /\ \A i \in 1 .. n : Fill(byte, n)[i] = byte
  BY DEF Fill

LEMMA WordIs ==
    ASSUME NEW s \in ByteValues
    PROVE  Word(s) \in Seq(ByteValues) /\ Len(Word(s)) = 4 /\ Word(s)[4] = s
<1>1. 0 \in ByteValues
  BY DEF ByteValues
<1> QED
  BY <1>1, FourBytes DEF Word

LEMMA ChunkLaid ==
    ASSUME NEW s \in ChunkSources
    PROVE  LET c == ChunkBytes(s)
               w == FlattenSeq(s.items)
               t == Len(w)
           IN  /\ c \in Seq(ByteValues) /\ t \in Nat /\ t = ItemsSize(s) /\ Len(c) = ChunkNeeds(t)
               /\ Len(c) = 4 + RoundUp(t + 1) /\ Len(c) \in Nat /\ Len(c) % 4 = 0 /\ Len(c) >= 8
               /\ c[4] = s.ssrc /\ Holds(c, 4, w) /\ c[4 + t + 1] = 0 /\ w \in Seq(ByteValues)
<1> DEFINE w == FlattenSeq(s.items)
           t == Len(w)
           a == Word(s.ssrc)
           body == a \o w
           z == Fill(0, RoundUp(Len(body) + 1) - Len(body))
           c == body \o z
<1>1. s.items \in Seq(WellMade) /\ s.items \in Seq(Seq(ByteValues)) /\ s.ssrc \in ByteValues
  BY WellMadeIs DEF ChunkSources
<1>2. w \in Seq(ByteValues) /\ t \in Nat /\ t = ItemsSize(s)
  <2>1. PICK f : Flat(f, s.items)
    BY <1>1, FlatExists
  <2>2. w \in Seq(ByteValues)
    BY <1>1, <2>1, FlatIs
  <2>3. t = TotalOf(Sizes(s.items))
    BY <1>1, <2>1, FlatLengths
  <2> QED
    BY <2>2, <2>3, LenProperties DEF ItemsSize
<1>3. a \in Seq(ByteValues) /\ Len(a) = 4 /\ a[4] = s.ssrc
  BY <1>1, WordIs
<1> HIDE DEF w, a
<1>4. Puts(body, a, w)
  BY <1>2, <1>3, Put, Zenon
<1>5. c = ChunkBytes(s)
  BY DEF ChunkBytes, w, a
<1> HIDE DEF body
<1>6. body \in Seq(ByteValues) /\ Len(body) = 4 + t /\ Holds(body, 0, a) /\ Holds(body, 4, w)
  BY <1>3, <1>4 DEF Puts
<1> DEFINE r == RoundUp(t + 1)
           m == RoundUp(Len(body) + 1) - Len(body)
<1>7. RoundUp(Len(body) + 1) = 4 + r /\ r \in Nat /\ r >= t + 1 /\ r % 4 = 0
  <2>1. t + 1 \in Nat /\ Len(body) + 1 = 4 + (t + 1)
    BY <1>2, <1>6
  <2>2. 4 \in Nat /\ 4 % 4 = 0
    OBVIOUS
  <2>3. RoundUp(t + 1) \in Nat /\ t + 1 <= RoundUp(t + 1) /\ RoundUp(t + 1) % 4 = 0
        /\ RoundUp(4 + (t + 1)) = 4 + RoundUp(t + 1)
    BY <2>1, <2>2, Rounded
  <2> QED
    BY <2>1, <2>3
<1> HIDE DEF t
<1>8. m \in Nat /\ m >= 1 /\ Len(body) + m = 4 + r
  <2> HIDE DEF r
  <2> QED
    BY <1>2, <1>6, <1>7
<1>9. z = Fill(0, m)
  OBVIOUS
<1> HIDE DEF m, z
<1>10. z \in Seq(ByteValues) /\ Len(z) = m /\ z[1] = 0
  <2>1. 0 \in ByteValues /\ 1 \in 1 .. m
    BY <1>8 DEF ByteValues
  <2> QED
    BY <1>8, <1>9, <2>1, FillIs
<1>11. Puts(c, body, z)
  BY <1>6, <1>10, Put, Zenon
<1> HIDE DEF c
<1>12. c \in Seq(ByteValues) /\ Len(c) = 4 + r /\ Holds(c, 0, body) /\ Holds(c, 4 + t, z)
  BY <1>6, <1>8, <1>10, <1>11 DEF Puts
<1>13. Holds(c, 4, w) /\ c[4] = s.ssrc
  <2>1. Holds(c, 0 + 4, w)
    BY <1>2, <1>6, <1>12, HoldsHeld, Zenon
  <2>2. Holds(c, 0 + 0, a)
    BY <1>3, <1>6, <1>12, HoldsHeld, Zenon
  <2>3. 0 + 4 = 4 /\ 0 + 0 = 0 /\ 4 \in 1 .. 4
    OBVIOUS
  <2>4. c[0 + 4] = a[4]
    BY <1>3, <2>2, <2>3 DEF Holds
  <2> QED
    BY <1>3, <2>1, <2>3, <2>4
<1>14. c[4 + t + 1] = 0
  <2>1. 1 \in 1 .. Len(z)
    BY <1>8, <1>10
  <2> QED
    BY <1>10, <1>12, <2>1 DEF Holds
<1>15. 4 + r = ChunkNeeds(t) /\ (4 + r) \in Nat /\ (4 + r) % 4 = 0 /\ 4 + r >= 8
  <2>1. \A x \in Nat : x % 4 = 0 /\ x >= 1 => (4 + x) % 4 = 0 /\ 4 + x >= 8
    OBVIOUS
  <2>2. r >= 1
    <3> HIDE DEF r
    <3> QED
      BY <1>2, <1>7
  <2>3. 4 + r = ChunkNeeds(t)
    <3>1. r \in Nat
      BY <1>7
    <3> QED
      BY <3>1 DEF ChunkNeeds, SSRC
  <2> HIDE DEF r
  <2> QED
    BY <1>7, <2>1, <2>2, <2>3
<1> QED
  BY <1>2, <1>5, <1>12, <1>13, <1>14, <1>15 DEF t, w

LEMMA LaidRead ==
    \A data, n, items, o, t : Laid(data, n, items, o, t) =>
       ReadItems(data, o) = items /\ EndOfItems(data, o, n) = RoundUp(o + t + 1)
BY ItemsLaid

LEMMA ChunkRead ==
    ASSUME NEW p \in Seq(ByteValues), NEW s \in ChunkSources, NEW o \in Nat, o % 4 = 0,
           Holds(p, o, ChunkBytes(s))
    PROVE  /\ EndOfItems(p, o + SSRC, Len(p)) = o + Len(ChunkBytes(s))
           /\ ReadChunk(p, o) = s /\ Len(p) - o >= 2 * SSRC
<1> DEFINE c == ChunkBytes(s)
           w == FlattenSeq(s.items)
           t == Len(w)
           x == o + 4
           lc == Len(c)
           lp == Len(p)
           r == RoundUp(t + 1)
<1>1. /\ c \in Seq(ByteValues) /\ t \in Nat /\ lc = 4 + r /\ lc \in Nat /\ lc >= 8
      /\ c[4] = s.ssrc /\ Holds(c, 4, w) /\ c[4 + t + 1] = 0 /\ w \in Seq(ByteValues)
  BY ChunkLaid
<1>2. lp \in Nat /\ o + lc <= lp /\ \A j \in 1 .. lc : p[o + j] = c[j]
  BY LenProperties DEF Holds
<1>3. Holds(p, x, w)
  <2> HIDE DEF c, w
  <2> QED
    BY <1>1, HoldsHeld DEF c
<1>4. s.items \in Seq(WellMade) /\ s = [ssrc |-> s.ssrc, items |-> s.items]
  BY DEF ChunkSources
<1> HIDE DEF c, lc, lp, w
<1>5. r \in Nat /\ t + 1 <= r /\ RoundUp(x + t + 1) = x + r
  <2>1. t + 1 \in Nat /\ x \in Nat /\ x + t + 1 = x + (t + 1)
    BY <1>1
  <2>2. x % 4 = 0
    OBVIOUS
  <2> QED
    BY <2>1, <2>2, Rounded
<1> HIDE DEF t, r
<1>6. x \in Nat /\ x + r = o + lc /\ x + r <= lp /\ lp - o >= 8 /\ o + (4 + t + 1) = x + t + 1
      /\ 4 + t + 1 \in 1 .. lc
  BY <1>1, <1>2, <1>5
<1>7. p[x + t + 1] = 0 /\ p[o + 4] = s.ssrc
  <2>1. p[o + (4 + t + 1)] = 0
    BY <1>1, <1>2, <1>6
  <2>2. 4 \in 1 .. lc
    BY <1>1
  <2> QED
    BY <1>1, <1>2, <1>6, <2>1, <2>2
<1>8. ReadItems(p, x) = s.items /\ EndOfItems(p, x, lp) = x + r
  <2>1. lp <= Len(p) /\ RoundUp(x + t + 1) <= lp
    BY <1>2, <1>5, <1>6 DEF lp
  <2>2. t = Len(FlattenSeq(s.items)) /\ Holds(p, x, FlattenSeq(s.items))
    BY <1>3 DEF t, w
  <2>3. x \in Nat /\ lp \in Nat /\ p[x + t + 1] = 0
    BY <1>2, <1>6, <1>7
  <2> HIDE DEF x
  <2>4. ReadItems(p, x) = s.items /\ EndOfItems(p, x, lp) = RoundUp(x + t + 1)
    <3>1. Laid(p, lp, s.items, x, t)
      BY <1>4, <2>1, <2>2, <2>3, Zenon DEF Laid
    <3> QED
      BY <3>1, LaidRead
  <2> QED
    BY <1>5, <2>4
<1>9. ReadChunk(p, o) = s
  BY <1>4, <1>7, <1>8 DEF ReadChunk, WordAt, At0, SSRC
<1> QED
  BY <1>6, <1>8, <1>9 DEF c, lc, lp, SSRC

\* p has been made of a header and a body.
Made(p, type, count, n, body) ==
    /\ type \in ByteValues /\ count \in Nat /\ count < 32
    /\ n \in Nat /\ n % 4 = 0 /\ n >= 4 /\ n <= 4 * Wide
    /\ body \in Seq(ByteValues) /\ Len(body) = n - 4 /\ p = HeaderBytes(type, count, n) \o body

LEMMA MadeIs ==
    \A p, type, count, n, body : Made(p, type, count, n, body) =>
       p \in Packets /\ Len(p) = n /\ TypeOf(p) = type /\ CountOf(p) = count /\ Holds(p, 4, body)
<1> SUFFICES ASSUME NEW p, NEW type, NEW count, NEW n, NEW body, Made(p, type, count, n, body)
             PROVE  /\ p \in Packets /\ Len(p) = n /\ TypeOf(p) = type /\ CountOf(p) = count
                    /\ Holds(p, 4, body)
  OBVIOUS
<1>1. /\ type \in ByteValues /\ count \in Nat /\ count < 32
      /\ n \in Nat /\ n % 4 = 0 /\ n >= 4 /\ n <= 4 * Wide
      /\ body \in Seq(ByteValues) /\ Len(body) = n - 4 /\ p = HeaderBytes(type, count, n) \o body
  BY DEF Made
<1> DEFINE w == HeaderBytes(type, count, n) \o body
<1>2. w \in Packets /\ Len(w) = n /\ TypeOf(w) = type /\ CountOf(w) = count /\ Holds(w, 4, body)
  BY <1>1, PacketMade
<1>3. p = w
  BY <1>1
<1> HIDE DEF w
<1> QED
  BY <1>2, <1>3

LEMMA WalkedAt ==
    ASSUME NEW data \in Seq(ByteValues), NEW n \in Nat, n <= Len(data), NEW N \in Nat,
           EndOfChunks(data, n, N) # Outside, NEW k \in Nat, k <= N
    PROVE  ChunkAt(data, k) = EndOfChunks(data, n, k)
  BY ChunksWalked

LEMMA FourDivides == \A x, y \in Nat : x % 4 = 0 /\ y % 4 = 0 => (x + y) % 4 = 0
<1> SUFFICES ASSUME NEW x \in Nat, NEW y \in Nat, x % 4 = 0, y % 4 = 0 PROVE (x + y) % 4 = 0
  OBVIOUS
<1>1. PICK a \in Nat : x = 4 * a
  <2>1. x \div 4 \in Nat /\ x = 4 * (x \div 4)
    OBVIOUS
  <2> QED
    BY <2>1
<1>2. PICK b \in Nat : y = 4 * b
  <2>1. y \div 4 \in Nat /\ y = 4 * (y \div 4)
    OBVIOUS
  <2> QED
    BY <2>1
<1>3. x + y = 4 * (a + b) /\ a + b \in Nat
  BY <1>1, <1>2
<1>4. \A c \in Nat : (4 * c) % 4 = 0
  OBVIOUS
<1> QED
  BY <1>3, <1>4

ChunksBytes(ss) == [i \in DOMAIN ss |-> ChunkBytes(ss[i])]

LEMMA ChunksSize ==
    ASSUME NEW ss \in Seq(ChunkSources)
    PROVE  /\ ChunksBytes(ss) \in Seq(Seq(ByteValues))
           /\ FlattenSeq(ChunksBytes(ss)) \in Seq(ByteValues)
           /\ Len(FlattenSeq(ChunksBytes(ss))) = ChunksNeed(ss) /\ ChunksNeed(ss) \in Nat
<1> DEFINE F == ChunksBytes(ss)
           N == Len(ss)
<1>1. N \in Nat /\ DOMAIN ss = 1 .. N /\ \A i \in 1 .. N : ss[i] \in ChunkSources
  BY LenProperties, ElementOfSeq
<1>2. \A i \in 1 .. N : F[i] = ChunkBytes(ss[i]) /\ F[i] \in Seq(ByteValues)
  BY <1>1, ChunkLaid DEF ChunksBytes
<1>3. F \in Seq(Seq(ByteValues)) /\ Len(F) = N
  BY <1>1, <1>2 DEF ChunksBytes
<1>4. \A i \in 1 .. N : Len(F[i]) = ChunkNeeds(ItemsSize(ss[i]))
  BY <1>1, <1>2, ChunkLaid
<1>5. Sizes(F) = [i \in DOMAIN ss |-> ChunkNeeds(ItemsSize(ss[i]))]
  BY <1>1, <1>4 DEF Sizes, ChunksBytes
<1> HIDE DEF F, N
<1>6. PICK f : Flat(f, F)
  BY <1>3, FlatExists
<1>7. FlattenSeq(F) \in Seq(ByteValues)
  BY <1>3, <1>6, FlatIs
<1>8. Len(FlattenSeq(F)) = TotalOf(Sizes(F))
  BY <1>3, <1>6, FlatLengths
<1>9. Len(FlattenSeq(F)) = ChunksNeed(ss)
  BY <1>5, <1>8 DEF ChunksNeed
<1>10. ChunksNeed(ss) \in Nat
  BY <1>7, <1>9, LenProperties
<1> QED
  BY <1>3, <1>7, <1>9, <1>10 DEF F

\* p is a header and the chunks of ss.
MadeChunks(p, body, ss) ==
    /\ ss \in Seq(ChunkSources) /\ Len(ss) < 32
    /\ body = FlattenSeq(ChunksBytes(ss)) /\ Len(body) + 4 <= 4 * Wide
    /\ p = HeaderBytes(SDES, Len(ss), Header + Len(body)) \o body

LEMMA ChunksRead ==
    \A p, body, ss : MadeChunks(p, body, ss) =>
       /\ p \in Packets /\ TypeOf(p) = SDES /\ CountOf(p) = Len(ss)
       /\ KnownSDES(p) /\ ReadChunks(p) = ss
       /\ Len(p) = 4 + ChunksNeed(ss) /\ ChunksNeed(ss) \in Nat
<1> SUFFICES ASSUME NEW p, NEW body, NEW ss, MadeChunks(p, body, ss)
             PROVE  /\ p \in Packets /\ TypeOf(p) = SDES /\ CountOf(p) = Len(ss)
                    /\ KnownSDES(p) /\ ReadChunks(p) = ss
                    /\ Len(p) = 4 + ChunksNeed(ss) /\ ChunksNeed(ss) \in Nat
  OBVIOUS
<1> DEFINE F == ChunksBytes(ss)
           N == Len(ss)
<1>0. /\ ss \in Seq(ChunkSources) /\ N < 32 /\ body = FlattenSeq(F) /\ Len(body) + 4 <= 4 * Wide
      /\ p = HeaderBytes(SDES, N, Header + Len(body)) \o body
  BY DEF MadeChunks
<1>1. N \in Nat /\ DOMAIN ss = 1 .. N /\ \A i \in 1 .. N : ss[i] \in ChunkSources
  BY <1>0, LenProperties, ElementOfSeq
<1>2. \A i \in 1 .. N : F[i] = ChunkBytes(ss[i]) /\ F[i] \in Seq(ByteValues)
  BY <1>1, ChunkLaid DEF ChunksBytes
<1>3. F \in Seq(Seq(ByteValues)) /\ Len(F) = N
  BY <1>0, <1>2, ChunksSize, <1>1 DEF ChunksBytes
<1>4. \A i \in 1 .. N : Len(F[i]) \in Nat /\ Len(F[i]) % 4 = 0 /\ Len(F[i]) = ChunkNeeds(ItemsSize(ss[i]))
  <2> SUFFICES ASSUME NEW i \in 1 .. N
               PROVE  /\ Len(F[i]) \in Nat /\ Len(F[i]) % 4 = 0
                      /\ Len(F[i]) = ChunkNeeds(ItemsSize(ss[i]))
    OBVIOUS
  <2>1. ss[i] \in ChunkSources /\ F[i] = ChunkBytes(ss[i])
    BY <1>1, <1>2
  <2>2. LET c == ChunkBytes(ss[i])
        IN  Len(c) \in Nat /\ Len(c) % 4 = 0 /\ Len(c) = ChunkNeeds(ItemsSize(ss[i]))
    BY <2>1, ChunkLaid
  <2> QED
    BY <2>1, <2>2
<1>5. body = FlattenSeq(F)
  BY <1>0
<1>6. Len(body) = ChunksNeed(ss)
  BY <1>0, ChunksSize
<1> HIDE DEF F, N
<1>7. PICK f : Flat(f, F)
  BY <1>3, FlatExists
<1>8. body \in Seq(ByteValues) /\ body = f[N]
  BY <1>3, <1>5, <1>7, FlatIs
<1> DEFINE l(k) == Len(f[k])
<1>9. /\ \A k \in Nat : k <= N => l(k) \in Nat
      /\ \A k \in Nat : k < N => l(k + 1) = l(k) + Len(F[k + 1])
      /\ l(0) = 0
  BY <1>3, <1>5, <1>7, FlatLengths
<1>10. \A k \in Nat : k < N => Holds(body, l(k), F[k + 1])
  BY <1>3, <1>5, <1>7, Segment
<1> HIDE DEF l
<1>11. Len(body) = ChunksNeed(ss) /\ l(N) = Len(body)
  BY <1>6, <1>8 DEF l
<1> DEFINE S == {k \in Nat : k <= N => l(k) % 4 = 0}
<1>12. Nat \subseteq S
  <2>1. 0 \in S
    BY <1>9
  <2>2. ASSUME NEW k \in Nat, k \in S PROVE k + 1 \in S
    <3> SUFFICES ASSUME k + 1 <= N PROVE l(k + 1) % 4 = 0
      OBVIOUS
    <3>1. k < N /\ k <= N /\ k + 1 \in 1 .. N
      BY <1>1
    <3>2. \A x, y \in Nat : x % 4 = 0 /\ y % 4 = 0 => (x + y) % 4 = 0
      BY FourDivides
    <3>3. l(k + 1) = l(k) + Len(F[k + 1]) /\ l(k) \in Nat /\ l(k) % 4 = 0
      BY <1>9, <2>2, <3>1
    <3>4. Len(F[k + 1]) \in Nat /\ Len(F[k + 1]) % 4 = 0
      BY <1>4, <3>1
    <3> QED
      BY <3>2, <3>3, <3>4
  <2> HIDE DEF S
  <2> QED
    BY <2>1, <2>2, Counting
<1> DEFINE n == Header + Len(body)
<1>13. n \in Nat /\ n % 4 = 0 /\ n >= 4 /\ n <= 4 * Wide /\ Len(body) = n - 4 /\ Len(body) \in Nat
       /\ n = 4 + l(N)
  <2>1. l(N) % 4 = 0 /\ Len(body) \in Nat
    BY <1>1, <1>9, <1>11, <1>12
  <2>2. \A x \in Nat : x % 4 = 0 => (4 + x) % 4 = 0 /\ 4 + x \in Nat /\ 4 + x >= 4 /\ x = (4 + x) - 4
                                    /\ 4 + x = x + 4
    OBVIOUS
  <2> QED
    BY <1>0, <1>11, <2>1, <2>2, Zenon DEF Header
<1> HIDE DEF n
<1>14. p \in Packets /\ Len(p) = n /\ TypeOf(p) = SDES /\ CountOf(p) = N /\ Holds(p, 4, body)
  <2>1. SDES \in ByteValues
    BY DEF SDES, ByteValues
  <2>2. N < 32 /\ p = HeaderBytes(SDES, N, n) \o body
    BY <1>0 DEF n
  <2>3. N \in Nat /\ n \in Nat /\ n % 4 = 0 /\ n >= 4 /\ n <= 4 * Wide /\ Len(body) = n - 4
    BY <1>1, <1>13
  <2> QED
    <3>1. Made(p, SDES, N, n, body)
      BY <1>8, <2>1, <2>2, <2>3, Zenon DEF Made
    <3> QED
      BY <3>1, MadeIs
<1>15. p \in Seq(ByteValues) /\ PaddingFits(p) /\ Unpadded(p) = n
  BY <1>14, PacketIs
<1>16. ASSUME NEW k \in Nat, k < N
       PROVE  /\ EndOfItems(p, 4 + l(k) + SSRC, n) = 4 + l(k + 1)
              /\ ReadChunk(p, 4 + l(k)) = ss[k + 1] /\ n - (4 + l(k)) >= 2 * SSRC /\ l(k) \in Nat
  <2>1. k <= N /\ k + 1 \in 1 .. N
    BY <1>1, <1>16
  <2>2. l(k) \in Nat /\ l(k) % 4 = 0 /\ l(k + 1) = l(k) + Len(F[k + 1]) /\ Len(F[k + 1]) \in Nat
    BY <1>4, <1>9, <1>12, <1>16, <2>1
  <2>3. ss[k + 1] \in ChunkSources /\ F[k + 1] = ChunkBytes(ss[k + 1]) /\ F[k + 1] \in Seq(ByteValues)
    BY <1>1, <1>2, <2>1
  <2> DEFINE o == 4 + l(k)
             c == F[k + 1]
  <2>4. Holds(body, l(k), c)
    BY <1>10, <1>16
  <2>5. Holds(p, o, c)
    <3> HIDE DEF c
    <3> QED
      BY <1>8, <1>14, <1>15, <2>3, <2>4, HoldsHeld DEF c
  <2>6. o \in Nat /\ o % 4 = 0
    BY <2>2
  <2> HIDE DEF o
  <2>7. /\ EndOfItems(p, o + SSRC, Len(p)) = o + Len(c)
        /\ ReadChunk(p, o) = ss[k + 1] /\ Len(p) - o >= 2 * SSRC
    <3>1. Holds(p, o, ChunkBytes(ss[k + 1]))
      BY <2>3, <2>5
    <3>2. /\ EndOfItems(p, o + SSRC, Len(p)) = o + Len(ChunkBytes(ss[k + 1]))
          /\ ReadChunk(p, o) = ss[k + 1] /\ Len(p) - o >= 2 * SSRC
      BY <1>15, <2>3, <2>6, <3>1, ChunkRead, Zenon
    <3> QED
      BY <2>3, <3>2
  <2>8. o + Len(c) = 4 + l(k + 1)
    BY <2>2 DEF o
  <2> QED
    BY <1>14, <2>2, <2>7, <2>8 DEF o
<1> DEFINE T == {k \in Nat : k <= N => EndOfChunks(p, n, k) = 4 + l(k)}
<1>17. Nat \subseteq T
  <2>1. 0 \in T
    <3>1. EndOfChunks(p, n, 0) = 4
      BY ChunksStep DEF Header
    <3> QED
      BY <1>9, <3>1
  <2>2. ASSUME NEW k \in Nat, k \in T PROVE k + 1 \in T
    <3> SUFFICES ASSUME k + 1 <= N PROVE EndOfChunks(p, n, k + 1) = 4 + l(k + 1)
      OBVIOUS
    <3>1. k < N /\ k <= N
      BY <1>1
    <3> DEFINE o == 4 + l(k)
    <3>2. EndOfChunks(p, n, k) = o
      BY <2>2, <3>1
    <3>3. EndOfItems(p, o + SSRC, n) = 4 + l(k + 1) /\ n - o >= 2 * SSRC /\ o \in Nat
      BY <1>16, <3>1
    <3> HIDE DEF o
    <3>4. o # Outside /\ ~(n - o < 2 * SSRC)
      BY <1>13, <3>3 DEF Outside, SSRC
    <3> QED
      BY <3>2, <3>3, <3>4, ChunksStep, Zenon
  <2> HIDE DEF T
  <2> QED
    BY <2>1, <2>2, Counting
<1>18. EndOfChunks(p, n, N) = n
  <2>1. N <= N
    BY <1>1
  <2> QED
    BY <1>1, <1>13, <1>17, <2>1
<1>19. KnownSDES(p)
  BY <1>14, <1>15, <1>18 DEF KnownSDES
<1>20. ASSUME NEW k \in 1 .. N PROVE ReadChunk(p, ChunkAt(p, k - 1)) = ss[k]
  <2>1. k - 1 \in Nat /\ k - 1 < N /\ k - 1 <= N /\ (k - 1) + 1 = k
    BY <1>1
  <2>2. EndOfChunks(p, n, N) # Outside
    BY <1>13, <1>18 DEF Outside
  <2>3. n <= Len(p)
    BY <1>13, <1>14
  <2>4. ChunkAt(p, k - 1) = EndOfChunks(p, n, k - 1)
    <3>1. PICK j \in Nat : j = k - 1 /\ j <= N
      BY <2>1
    <3>2. ChunkAt(p, j) = EndOfChunks(p, n, j)
      <4>1. n \in Nat /\ N \in Nat /\ p \in Seq(ByteValues)
        BY <1>1, <1>13, <1>15
      <4> QED
        BY <2>2, <2>3, <3>1, <4>1, WalkedAt
    <3> QED
      BY <3>1, <3>2
  <2>5. EndOfChunks(p, n, k - 1) = 4 + l(k - 1)
    BY <1>17, <2>1
  <2> QED
    BY <1>16, <2>1, <2>4, <2>5
<1>21. ReadChunks(p) = ss
  <2>1. ReadChunks(p) = [k \in 1 .. N |-> ReadChunk(p, ChunkAt(p, k - 1))]
    BY <1>14 DEF ReadChunks
  <2>2. ss = [k \in 1 .. N |-> ss[k]]
    BY <1>0, <1>1
  <2> QED
    BY <1>20, <2>1, <2>2
<1> QED
  BY <1>11, <1>13, <1>14, <1>19, <1>21 DEF n, N, Header
-----------------------------------------------------------------------------
(* Reports are read as they were written, but for the bits that are cut off. *)

Blocks == [ssrc : ByteValues, lost : Int]

\* 2^24, the numbers a block has room for.
Wider == 256 * 256 * 256

LEMMA ThreeBytes ==
    ASSUME NEW n \in Nat, n < Wider
    PROVE  LET a == n \div (256 * 256)
               b == (n \div 256) % 256
               c == n % 256
           IN  /\ a \in ByteValues /\ b \in ByteValues /\ c \in ByteValues
               /\ 256 * 256 * a + 256 * b + c = n
<1> DEFINE d == n \div 256
           a == n \div (256 * 256)
           b == d % 256
           c == n % 256
           e == d \div 256
<1>1. d \in Nat /\ c \in Nat /\ c < 256 /\ n = 256 * d + c
  OBVIOUS
<1>2. d < 65536
  BY <1>1 DEF Wider
<1>3. e \in Nat /\ b \in Nat /\ b < 256 /\ d = 256 * e + b
  BY <1>1
<1>4. e < 256
  BY <1>2, <1>3
<1>5. a = n \div 65536 /\ 256 * 256 = 65536
  OBVIOUS
<1>6. n = 65536 * e + (256 * b + c)
  <2> HIDE DEF b, c, d, e
  <2> QED
    BY <1>1, <1>3
<1>7. a = e
  <2> DEFINE r == 256 * b + c
  <2>1. r \in Nat /\ r < 65536
    BY <1>1, <1>3
  <2> HIDE DEF a, b, c, d, e, r
  <2>2. \A x, y \in Nat : y < 65536 => (65536 * x + y) \div 65536 = x
    OBVIOUS
  <2>3. n = 65536 * e + r
    BY <1>6 DEF r
  <2> QED
    BY <1>3, <1>5, <2>1, <2>2, <2>3
<1>8. a \in ByteValues /\ b \in ByteValues /\ c \in ByteValues
  <2> HIDE DEF a, b, c, d, e
  <2> QED
    BY <1>1, <1>3, <1>4, <1>7 DEF ByteValues
<1>9. 256 * 256 * a + 256 * b + c = n
  <2> HIDE DEF a, b, c, d, e
  <2> QED
    BY <1>1, <1>3, <1>6, <1>7
<1> QED
  BY <1>8, <1>9

LEMMA BlockIs ==
    ASSUME NEW blk \in Blocks
    PROVE  LET w == BlockBytes(blk)
           IN  /\ w \in Seq(ByteValues) /\ Len(w) = 24 /\ w[4] = blk.ssrc
               /\ 256 * 256 * w[6] + 256 * w[7] + w[8] = blk.lost % Wider
<1>1. blk.ssrc \in ByteValues /\ blk.lost \in Int
  BY DEF Blocks
<1> DEFINE n == blk.lost % Wider
           x == n \div (256 * 256)
           y == (n \div 256) % 256
           z == n % 256
           s == Word(blk.ssrc)
           m == <<1, x, y, z>>
           u == Fill(2, 16)
           v == s \o m
           w == v \o u
<1>2. n \in Nat /\ n < Wider
  <2>1. \A i \in Int : i % 16777216 \in Nat /\ i % 16777216 < 16777216
    OBVIOUS
  <2>2. 256 * 256 * 256 = 16777216
    OBVIOUS
  <2> QED
    BY <1>1, <2>1, <2>2 DEF Wider
<1>3. w = BlockBytes(blk)
  BY Zenon DEF BlockBytes, Wider
<1> HIDE DEF n
<1>4. x \in ByteValues /\ y \in ByteValues /\ z \in ByteValues /\ 256 * 256 * x + 256 * y + z = n
  BY <1>2, ThreeBytes
<1> HIDE DEF x, y, z
<1>5. s \in Seq(ByteValues) /\ Len(s) = 4 /\ s[4] = blk.ssrc
  BY <1>1, WordIs
<1>6. m \in Seq(ByteValues) /\ Len(m) = 4 /\ m[2] = x /\ m[3] = y /\ m[4] = z
  <2>1. 1 \in ByteValues
    BY DEF ByteValues
  <2> QED
    BY <1>4, <2>1, FourBytes
<1>7. u \in Seq(ByteValues) /\ Len(u) = 16
  <2>1. 2 \in ByteValues /\ 16 \in Nat
    BY DEF ByteValues
  <2> QED
    BY <2>1, FillIs
<1> HIDE DEF s, m, u
<1>8. Puts(v, s, m)
  BY <1>5, <1>6, Put, Zenon
<1> HIDE DEF v
<1>9. v \in Seq(ByteValues) /\ Len(v) = 8 /\ v[4] = blk.ssrc /\ v[6] = x /\ v[7] = y /\ v[8] = z
  <2>1. v \in Seq(ByteValues) /\ Len(v) = 8
    BY <1>5, <1>6, <1>8 DEF Puts
  <2>2. \A j \in 1 .. 4 : v[0 + j] = s[j] /\ v[4 + j] = m[j]
    BY <1>5, <1>6, <1>8 DEF Puts, Holds
  <2>3. v[0 + 4] = s[4] /\ v[4 + 2] = m[2] /\ v[4 + 3] = m[3] /\ v[4 + 4] = m[4]
    <3>1. 2 \in 1 .. 4 /\ 3 \in 1 .. 4 /\ 4 \in 1 .. 4
      OBVIOUS
    <3> QED
      BY <2>2, <3>1
  <2>4. 0 + 4 = 4 /\ 4 + 2 = 6 /\ 4 + 3 = 7 /\ 4 + 4 = 8
    OBVIOUS
  <2> QED
    BY <1>5, <1>6, <2>1, <2>3, <2>4
<1>10. Puts(w, v, u)
  BY <1>7, <1>9, Put, Zenon
<1> HIDE DEF w
<1>11. w \in Seq(ByteValues) /\ Len(w) = 24
  BY <1>7, <1>9, <1>10 DEF Puts
<1>12. w[4] = v[4] /\ w[6] = v[6] /\ w[7] = v[7] /\ w[8] = v[8]
  <2>1. \A j \in 1 .. 8 : w[0 + j] = v[j]
    BY <1>9, <1>10 DEF Puts, Holds
  <2>2. 4 \in 1 .. 8 /\ 6 \in 1 .. 8 /\ 7 \in 1 .. 8 /\ 8 \in 1 .. 8 /\ \A j \in 1 .. 8 : 0 + j = j
    OBVIOUS
  <2> QED
    BY <2>1, <2>2
<1>13. 256 * 256 * w[6] + 256 * w[7] + w[8] = n
  BY <1>4, <1>9, <1>12
<1> QED
  BY <1>3, <1>9, <1>11, <1>12, <1>13 DEF n

LEMMA BlockRead ==
    ASSUME NEW p \in Seq(ByteValues), NEW blk \in Blocks, NEW o \in Nat,
           Holds(p, o, BlockBytes(blk))
    PROVE  ReadBlock(p, o) = Sent24(blk)
<1> DEFINE w == BlockBytes(blk)
<1>1. /\ Len(w) = 24 /\ w[4] = blk.ssrc
      /\ 256 * 256 * w[6] + 256 * w[7] + w[8] = blk.lost % Wider
  BY BlockIs
<1>2. \A j \in 1 .. 24 : p[o + j] = w[j]
  BY <1>1 DEF Holds
<1> HIDE DEF w
<1>3. p[o + 4] = w[4] /\ p[o + 6] = w[6] /\ p[o + 7] = w[7] /\ p[o + 8] = w[8]
  <2>1. 4 \in 1 .. 24 /\ 6 \in 1 .. 24 /\ 7 \in 1 .. 24 /\ 8 \in 1 .. 24
    OBVIOUS
  <2> QED
    BY <1>2, <2>1
<1>4. /\ WordAt(p, o) = w[4]
      /\ At0(p, o + 5) = w[6] /\ At0(p, o + 6) = w[7] /\ At0(p, o + 7) = w[8]
  <2>1. o + 3 + 1 = o + 4 /\ o + 5 + 1 = o + 6 /\ o + 6 + 1 = o + 7 /\ o + 7 + 1 = o + 8
    OBVIOUS
  <2> QED
    BY <1>3, <2>1 DEF WordAt, At0
<1> DEFINE n == 256 * 256 * At0(p, o + 5) + 256 * At0(p, o + 6) + At0(p, o + 7)
<1>5. n = blk.lost % Wider
  BY <1>1, <1>4
<1>6. ReadBlock(p, o) = [ssrc |-> WordAt(p, o), lost |-> Signed24(n)]
  BY Zenon DEF ReadBlock
<1> HIDE DEF n
<1>7. Sent24(blk) = [blk EXCEPT !.lost = Signed24(blk.lost % Wider)]
  BY Zenon DEF Sent24, Wider
<1> DEFINE loss == Signed24(blk.lost % Wider)
<1>8. ReadBlock(p, o) = [ssrc |-> blk.ssrc, lost |-> loss]
  BY <1>1, <1>4, <1>5, <1>6
<1> HIDE DEF loss
<1>9. Sent24(blk) = [blk EXCEPT !.lost = loss]
  BY <1>7 DEF loss
<1>10. [blk EXCEPT !.lost = loss] = [ssrc |-> blk.ssrc, lost |-> loss]
  BY DEF Blocks
<1> QED
  BY <1>8, <1>9, <1>10

\* The filler of a report of a type.
Extra(type) == IF type = SR THEN SenderReport ELSE 0

BlocksBytes(bs) == [i \in DOMAIN bs |-> BlockBytes(bs[i])]

\* What is read of the blocks bs.
AllSent(bs) == [i \in DOMAIN bs |-> Sent24(bs[i])]

\* p is a header and a body with the blocks bs.
MadeReport(p, body, bs, s, type) ==
    /\ bs \in Seq(Blocks) /\ Len(bs) < 32 /\ s \in ByteValues /\ type \in {SR, RR}
    /\ body = Word(s) \o Fill(3, Extra(type)) \o FlattenSeq(BlocksBytes(bs))
    /\ p = HeaderBytes(type, Len(bs), Header + Len(body)) \o body

LEMMA BlocksRead ==
    \A p, body, bs, s, type : MadeReport(p, body, bs, s, type) =>
       /\ p \in Packets /\ TypeOf(p) = type /\ CountOf(p) = Len(bs)
       /\ KnownReport(p, Extra(type)) /\ ReadBlocks(p) = AllSent(bs)
       /\ Len(p) = 8 + Extra(type) + 24 * Len(bs)
<1> SUFFICES ASSUME NEW p, NEW body, NEW bs, NEW s, NEW type, MadeReport(p, body, bs, s, type)
             PROVE  /\ p \in Packets /\ TypeOf(p) = type /\ CountOf(p) = Len(bs)
                    /\ KnownReport(p, Extra(type)) /\ ReadBlocks(p) = AllSent(bs)
                    /\ Len(p) = 8 + Extra(type) + 24 * Len(bs)
  OBVIOUS
<1> DEFINE F == BlocksBytes(bs)
           N == Len(bs)
           E == Extra(type)
           w == FlattenSeq(F)
           a == Word(s)
           z == Fill(3, E)
           v == a \o z
<1>0. /\ bs \in Seq(Blocks) /\ N < 32 /\ s \in ByteValues /\ type \in {SR, RR}
      /\ body = v \o w /\ p = HeaderBytes(type, N, Header + Len(body)) \o body
  BY DEF MadeReport
<1>1. N \in Nat /\ DOMAIN bs = 1 .. N /\ \A i \in 1 .. N : bs[i] \in Blocks
  BY <1>0, LenProperties, ElementOfSeq
<1>2. E \in Nat /\ (E = 0 \/ E = 20)
  BY DEF Extra, SenderReport
<1>3. \A i \in 1 .. N : F[i] = BlockBytes(bs[i]) /\ F[i] \in Seq(ByteValues) /\ Len(F[i]) = 24
  BY <1>1, BlockIs DEF BlocksBytes
<1>4. F \in Seq(Seq(ByteValues)) /\ Len(F) = N
  BY <1>1, <1>3 DEF BlocksBytes
<1>5. body = v \o w
  BY <1>0
<1> HIDE DEF F, N, E
<1>6. PICK f : Flat(f, F)
  BY <1>4, FlatExists
<1>7. w \in Seq(ByteValues) /\ w = f[N]
  BY <1>4, <1>6, FlatIs
<1> DEFINE l(k) == Len(f[k])
<1>8. /\ \A k \in Nat : k <= N => l(k) \in Nat
      /\ \A k \in Nat : k < N => l(k + 1) = l(k) + Len(F[k + 1])
      /\ l(0) = 0
  BY <1>4, <1>6, FlatLengths
<1>9. \A k \in Nat : k < N => Holds(w, l(k), F[k + 1])
  BY <1>4, <1>6, Segment
<1>10. Len(w) = l(N)
  BY <1>7
<1> HIDE DEF l, w
<1> DEFINE S == {k \in Nat : k <= N => l(k) = 24 * k}
<1>11. Nat \subseteq S
  <2>1. 0 \in S
    BY <1>8
  <2>2. ASSUME NEW k \in Nat, k \in S PROVE k + 1 \in S
    <3> SUFFICES ASSUME k + 1 <= N PROVE l(k + 1) = 24 * (k + 1)
      OBVIOUS
    <3>1. k < N /\ k <= N /\ k + 1 \in 1 .. N
      BY <1>1
    <3>2. l(k + 1) = l(k) + Len(F[k + 1]) /\ l(k) = 24 * k /\ Len(F[k + 1]) = 24
      BY <1>3, <1>8, <2>2, <3>1
    <3> QED
      BY <3>2
  <2> HIDE DEF S
  <2> QED
    BY <2>1, <2>2, Counting
<1>12. Len(w) = 24 * N
  <2>1. N <= N
    BY <1>1
  <2> QED
    BY <1>1, <1>10, <1>11, <2>1
<1>13. a \in Seq(ByteValues) /\ Len(a) = 4
  BY <1>0, WordIs
<1>14. z \in Seq(ByteValues) /\ Len(z) = E
  <2>1. 3 \in ByteValues
    BY DEF ByteValues
  <2> QED
    BY <1>2, <2>1, FillIs
<1> HIDE DEF a, z
<1>15. Puts(v, a, z)
  BY <1>13, <1>14, Put, Zenon
<1> HIDE DEF v
<1>16. v \in Seq(ByteValues) /\ Len(v) = 4 + E
  BY <1>13, <1>14, <1>15 DEF Puts
<1>17. Puts(body, v, w)
  BY <1>5, <1>7, <1>16, Put, Zenon
<1>18. body \in Seq(ByteValues) /\ Len(body) = 4 + E + 24 * N /\ Holds(body, 4 + E, w)
  BY <1>12, <1>16, <1>17 DEF Puts
<1> DEFINE n == 8 + E + 24 * N
<1>19. n \in Nat /\ n % 4 = 0 /\ n >= 4 /\ n <= 4 * Wide /\ Len(body) = n - 4
       /\ Header + Len(body) = n
  <2>1. n \in Nat /\ n >= 4 /\ Len(body) = n - 4 /\ Header + Len(body) = n
    <3> DEFINE lb == Len(body)
    <3>1. lb = 4 + E + 24 * N
      BY <1>18
    <3> HIDE DEF lb
    <3>2. n \in Nat /\ n >= 4 /\ lb = n - 4 /\ 4 + lb = n
      BY <1>1, <1>2, <3>1
    <3> QED
      BY <3>2 DEF lb, Header
  <2>2. n <= 4 * Wide
    BY <1>0, <1>1, <1>2 DEF Wide
  <2>3. n % 4 = 0
    <3>1. CASE E = 0
      BY <1>1, <3>1
    <3>2. CASE E = 20
      BY <1>1, <3>2
    <3> QED
      BY <1>2, <3>1, <3>2
  <2> QED
    BY <2>1, <2>2, <2>3
<1> HIDE DEF n
<1>20. p \in Packets /\ Len(p) = n /\ TypeOf(p) = type /\ CountOf(p) = N /\ Holds(p, 4, body)
  <2>1. type \in ByteValues
    BY <1>0 DEF SR, RR, ByteValues
  <2>2. N < 32 /\ p = HeaderBytes(type, N, n) \o body
    BY <1>0, <1>19
  <2>3. Made(p, type, N, n, body)
    BY <1>1, <1>18, <1>19, <2>1, <2>2, Zenon DEF Made
  <2> QED
    BY <2>3, MadeIs
<1>21. p \in Seq(ByteValues) /\ PaddingFits(p) /\ Unpadded(p) = n
  BY <1>20, PacketIs
<1>22. Holds(p, 8 + E, w)
  <2>1. Holds(p, 4 + (4 + E), w)
    BY <1>7, <1>18, <1>20, <1>21, HoldsHeld, Zenon
  <2>2. 4 + (4 + E) = 8 + E
    BY <1>2
  <2> QED
    BY <2>1, <2>2
<1>23. KnownReport(p, E)
  <2>1. n = Header + SSRC + E + ReceiverReport * N
    BY <1>1, <1>2 DEF n, Header, SSRC, ReceiverReport
  <2> QED
    BY <1>20, <1>21, <2>1 DEF KnownReport
<1> DEFINE o(i) == 8 + E + (i - 1) * 24
<1>24. ASSUME NEW i \in 1 .. N PROVE ReadBlock(p, o(i)) = Sent24(bs[i])
  <2>1. PICK k \in Nat : k = i - 1 /\ k < N /\ k <= N /\ k + 1 = i
    BY <1>1
  <2>2. Holds(w, 24 * k, F[k + 1])
    BY <1>9, <1>11, <2>1
  <2> DEFINE c == F[k + 1]
  <2>3. c \in Seq(ByteValues) /\ c = BlockBytes(bs[i])
    BY <1>3, <2>1
  <2>4. Holds(p, (8 + E) + 24 * k, c)
    <3>1. Holds(w, 24 * k, c) /\ c \in Seq(ByteValues) /\ p \in Seq(ByteValues)
      BY <1>21, <2>2, <2>3
    <3> HIDE DEF c
    <3> DEFINE x == 8 + E
               y == 24 * k
    <3>2. Holds(p, x, w) /\ Holds(w, y, c)
      BY <1>22, <3>1
    <3> HIDE DEF x, y
    <3>3. Holds(p, x + y, c)
      BY <1>7, <3>1, <3>2, HoldsHeld
    <3> QED
      BY <3>3 DEF x, y
  <2>5. (8 + E) + 24 * k = o(i) /\ o(i) \in Nat
    BY <1>2, <2>1
  <2> HIDE DEF o
  <2>6. Holds(p, o(i), BlockBytes(bs[i]))
    BY <2>3, <2>4, <2>5
  <2> QED
    BY <1>1, <1>21, <2>5, <2>6, BlockRead
<1>25. ReadBlocks(p) = AllSent(bs)
  <2> DEFINE first == Header + SSRC + IF TypeOf(p) = SR THEN SenderReport ELSE 0
  <2>1. ReadBlocks(p) = [i \in 1 .. CountOf(p) |-> ReadBlock(p, first + (i - 1) * ReceiverReport)]
    BY DEF ReadBlocks
  <2>2. first = 8 + E
    BY <1>20 DEF E, Extra, Header, SSRC, SenderReport
  <2> HIDE DEF first
  <2>3. ReadBlocks(p) = [i \in 1 .. N |-> ReadBlock(p, o(i))]
    BY <1>20, <2>1, <2>2 DEF ReceiverReport
  <2> HIDE DEF o
  <2> QED
    BY <1>1, <1>24, <2>3 DEF AllSent
<1> QED
  BY <1>20, <1>23, <1>25 DEF n, N, E
-----------------------------------------------------------------------------
(* BYE and APP packets.                                                      *)

LEMMA WordsAre ==
    ASSUME NEW q \in Seq(ByteValues)
    PROVE  Words(q) \in Seq(ByteValues) /\ Len(Words(q)) = 4 * Len(q) /\ Len(q) \in Nat
<1> DEFINE F == [i \in DOMAIN q |-> Word(q[i])]
           N == Len(q)
<1>1. N \in Nat /\ DOMAIN q = 1 .. N /\ \A i \in 1 .. N : q[i] \in ByteValues
  BY LenProperties, ElementOfSeq
<1>2. \A i \in 1 .. N : F[i] \in Seq(ByteValues) /\ Len(F[i]) = 4
  BY <1>1, WordIs
<1>3. F \in Seq(Seq(ByteValues)) /\ Len(F) = N /\ Words(q) = FlattenSeq(F)
  BY <1>1, <1>2 DEF Words
<1> HIDE DEF F, N
<1>4. PICK f : Flat(f, F)
  BY <1>3, FlatExists
<1>5. Words(q) \in Seq(ByteValues) /\ Words(q) = f[N]
  BY <1>3, <1>4, FlatIs
<1> DEFINE l(k) == Len(f[k])
           S == {k \in Nat : k <= N => l(k) = 4 * k}
<1>6. (\A k \in Nat : k < N => l(k + 1) = l(k) + Len(F[k + 1])) /\ l(0) = 0
  BY <1>3, <1>4, FlatLengths
<1> HIDE DEF l
<1>7. Nat \subseteq S
  <2>1. 0 \in S
    BY <1>6
  <2>2. ASSUME NEW k \in Nat, k \in S PROVE k + 1 \in S
    <3> SUFFICES ASSUME k + 1 <= N PROVE l(k + 1) = 4 * (k + 1)
      OBVIOUS
    <3>1. k < N /\ k <= N /\ k + 1 \in 1 .. N
      BY <1>1
    <3>2. l(k + 1) = l(k) + Len(F[k + 1]) /\ l(k) = 4 * k /\ Len(F[k + 1]) = 4
      BY <1>2, <1>6, <2>2, <3>1
    <3> QED
      BY <3>2
  <2> HIDE DEF S
  <2> QED
    BY <2>1, <2>2, Counting
<1>8. l(N) = 4 * N
  <2>1. N <= N
    BY <1>1
  <2> QED
    BY <1>1, <1>7, <2>1
<1> QED
  BY <1>1, <1>5, <1>8 DEF l, N

LEMMA JoinedTwice ==
    ASSUME NEW a \in Seq(ByteValues), NEW b \in Seq(ByteValues), NEW c \in Seq(ByteValues)
    PROVE  a \o b \o c = a \o (b \o c) /\ b \o c \in Seq(ByteValues)
  BY ConcatAssociative, Joined, SMTT(30)

LEMMA HeaderTyped ==
    ASSUME NEW type \in ByteValues, NEW count \in Nat, count < 32, NEW n \in Nat
    PROVE  HeaderBytes(type, count, n) \in Seq(ByteValues)
<1> DEFINE w == (n \div 4 - 1) % Wide
           v == 128 + count
           hi == w \div 256
           lo == w % 256
<1>1. w \in Nat /\ w < Wide
  <2>1. n \div 4 - 1 \in Int
    OBVIOUS
  <2>2. \A x \in Int : x % 65536 \in Nat /\ x % 65536 < 65536
    OBVIOUS
  <2> QED
    BY <2>1, <2>2 DEF Wide
<1>2. HeaderBytes(type, count, n) = <<v, type, hi, lo>>
  BY SMT DEF HeaderBytes, Wide
<1>3. hi \in ByteValues /\ lo \in ByteValues
  <2> HIDE DEF w
  <2> QED
    BY <1>1, SumOfBytes DEF ByteValues
<1>4. v \in ByteValues
  BY DEF ByteValues
<1> HIDE DEF v, w, hi, lo
<1> QED
  BY <1>2, <1>3, <1>4, FourBytes

LEMMA AppIs ==
    ASSUME NEW subtype \in Nat, subtype <= 31, NEW s \in ByteValues,
           NEW n \in Nat, n % 4 = 0, 12 + n <= 4 * Wide
    PROVE  LET p == AppBytes(subtype, s, n)
           IN  p \in Packets /\ TypeOf(p) = APP /\ KnownAPP(p) /\ Len(p) = AppSize(n) /\ AppSize(n) \in Nat
<1> DEFINE h == HeaderBytes(APP, subtype, AppSize(n))
           a == Word(s)
           z == Fill(5, 4 + n)
           body == a \o z
           p == AppBytes(subtype, s, n)
           size == AppSize(n)
<1>1. p = h \o a \o z
  BY Zenon DEF AppBytes
<1>2. size \in Nat /\ size = 12 + n /\ size % 4 = 0 /\ size >= 12 /\ size <= 4 * Wide
  <2> DEFINE d == n \div 4
  <2>1. d \in Nat /\ n = 4 * d
    OBVIOUS
  <2> HIDE DEF d
  <2>2. size = 12 + n
    BY DEF AppSize, Header, SSRC
  <2>3. size \in Nat /\ size % 4 = 0 /\ size >= 12 /\ size <= 4 * Wide
    <3> HIDE DEF size
    <3>1. size = 4 * (d + 3) /\ d + 3 \in Nat
      BY <2>1, <2>2
    <3>2. size % 4 = 0
      BY <3>1
    <3> QED
      BY <2>1, <2>2, <3>2
  <2> QED
    BY <2>2, <2>3
<1> HIDE DEF size
<1>3. APP \in ByteValues /\ subtype < 32
  BY DEF APP, ByteValues
<1>4. h \in Seq(ByteValues)
  BY <1>2, <1>3, HeaderTyped DEF size
<1>5. a \in Seq(ByteValues) /\ Len(a) = 4
  BY WordIs
<1>6. z \in Seq(ByteValues) /\ Len(z) = 4 + n
  <2>1. 5 \in ByteValues /\ 4 + n \in Nat
    BY DEF ByteValues
  <2> QED
    BY <2>1, FillIs
<1>7. h \o a \o z = h \o body /\ body \in Seq(ByteValues)
  <2> HIDE DEF h, a, z
  <2> QED
    BY <1>4, <1>5, <1>6, JoinedTwice
<1>8. Puts(body, a, z)
  <2> HIDE DEF a, z
  <2> QED
    BY <1>5, <1>6, Put, Zenon
<1> HIDE DEF body, a, z, p
<1>9. Len(body) = size - 4
  <2>1. Len(body) = 8 + n
    BY <1>5, <1>6, <1>8 DEF Puts
  <2> QED
    BY <1>2, <2>1
<1>10. Made(p, APP, subtype, size, body)
  <2>1. p = HeaderBytes(APP, subtype, size) \o body
    BY <1>1, <1>7 DEF size
  <2>2. size >= 4
    BY <1>2
  <2> QED
    BY <1>2, <1>3, <1>7, <1>9, <2>1, <2>2, Zenon DEF Made
<1>11. p \in Packets /\ Len(p) = size /\ TypeOf(p) = APP
  BY <1>10, MadeIs
<1>12. KnownAPP(p)
  <2>1. PaddingFits(p) /\ Unpadded(p) = size
    BY <1>11, PacketIs
  <2> QED
    BY <1>2, <2>1 DEF KnownAPP, Header, SSRC
<1> QED
  BY <1>2, <1>11, <1>12 DEF p, size

LEMMA ByeSizeIs ==
    ASSUME NEW c \in Nat, c <= 31, NEW n \in ByteValues
    PROVE  LET size == ByeSize(c, n)
               l == 4 * c + IF n = 0 THEN 0 ELSE 1 + n
           IN  /\ size \in Nat /\ size % 4 = 0 /\ size >= 4 /\ size <= 4 * Wide
               /\ l \in Nat /\ 4 + l <= size /\ (n = 0 => size = 4 + l) /\ n \in Nat
<1> DEFINE size == ByeSize(c, n)
           l == 4 * c + IF n = 0 THEN 0 ELSE 1 + n
<1>1. n \in Nat /\ n < 256
  BY DEF ByteValues
<1>2. CASE n = 0
  <2>1. size = 4 + 4 * c /\ l = 4 * c
    BY <1>2 DEF ByeSize, Header, SSRC
  <2> HIDE DEF size, l
  <2>2. size \in Nat /\ size >= 4 /\ l \in Nat /\ size = 4 + l /\ 4 + l <= size
    BY <2>1
  <2>3. size % 4 = 0
    <3>1. size = 4 * (1 + c)
      BY <2>1
    <3> QED
      BY <3>1
  <2>4. size <= 4 * Wide
    BY <2>1 DEF Wide
  <2> QED
    BY <1>1, <2>2, <2>3, <2>4 DEF size, l
<1>3. CASE n # 0
  <2> DEFINE m == 4 + 4 * c + 1 + n
  <2>1. size = RoundUp(m) /\ m = 4 + l /\ m \in Nat /\ l \in Nat /\ m <= 384
    BY <1>1, <1>3 DEF ByeSize, Header, SSRC
  <2> HIDE DEF size, l, m
  <2>2. size \in Nat /\ m <= size /\ size <= m + 3 /\ size % 4 = 0
    BY <2>1, Rounded
  <2>3. size >= 4 /\ 4 + l <= size
    BY <2>1, <2>2
  <2>4. size <= 4 * Wide
    BY <2>1, <2>2 DEF Wide
  <2> QED
    BY <1>1, <1>3, <2>1, <2>2, <2>3, <2>4 DEF size, l
<1> QED
  BY <1>2, <1>3

LEMMA ByeIs ==
    ASSUME NEW ssrcs \in Seq(ByteValues), Len(ssrcs) <= 31, NEW n \in ByteValues
    PROVE  LET p == ByeBytes(ssrcs, n)
           IN  /\ p \in Packets /\ TypeOf(p) = BYE /\ KnownBYE(p) /\ CountOf(p) = Len(ssrcs)
               /\ Len(p) = ByeSize(Len(ssrcs), n) /\ ByeSize(Len(ssrcs), n) \in Nat
<1> DEFINE c == Len(ssrcs)
           size == ByeSize(c, n)
           l == 4 * c + IF n = 0 THEN 0 ELSE 1 + n
           h == HeaderBytes(BYE, c, size)
           a == Words(ssrcs)
           r == IF n = 0 THEN <<>> ELSE <<n>> \o Fill(9, n)
           b == a \o r
           z == Fill(0, size - Header - Len(b))
           body == b \o z
           p == ByeBytes(ssrcs, n)
<1>1. p = h \o b \o z
  BY Zenon DEF ByeBytes
<1>2. c \in Nat /\ c <= 31 /\ a \in Seq(ByteValues) /\ Len(a) = 4 * c
  BY WordsAre
<1> HIDE DEF c, a
<1>3. /\ size \in Nat /\ size % 4 = 0 /\ size >= 4 /\ size <= 4 * Wide
      /\ l \in Nat /\ 4 + l <= size /\ (n = 0 => size = 4 + l) /\ n \in Nat
  BY <1>2, ByeSizeIs
<1> HIDE DEF size
<1>4. r \in Seq(ByteValues) /\ Len(r) = (IF n = 0 THEN 0 ELSE 1 + n) /\ (n # 0 => r[1] = n)
  <2>1. CASE n = 0
    BY <2>1
  <2>2. CASE n # 0
    <3> DEFINE x == <<n>>
               y == Fill(9, n)
    <3>1. x \in Seq(ByteValues) /\ Len(x) = 1 /\ x[1] = n
      OBVIOUS
    <3>2. y \in Seq(ByteValues) /\ Len(y) = n
      <4>1. 9 \in ByteValues
        BY DEF ByteValues
      <4> QED
        BY <1>3, <4>1, FillIs
    <3>3. r = x \o y
      BY <2>2
    <3> HIDE DEF x, y, r
    <3>4. Puts(r, x, y)
      BY <3>1, <3>2, <3>3, Put, Zenon
    <3>5. r \in Seq(ByteValues) /\ Len(r) = 1 + n /\ r[0 + 1] = x[1]
      <4>1. 1 \in 1 .. 1
        OBVIOUS
      <4> QED
        BY <3>1, <3>2, <3>4, <4>1 DEF Puts, Holds
    <3>6. 0 + 1 = 1
      OBVIOUS
    <3> QED
      BY <2>2, <3>1, <3>5, <3>6
  <2> QED
    BY <2>1, <2>2
<1> HIDE DEF r
<1>5. Puts(b, a, r)
  BY <1>2, <1>4, Put, Zenon
<1> HIDE DEF b
<1>6. b \in Seq(ByteValues) /\ Len(b) = l /\ Holds(b, 4 * c, r)
  BY <1>2, <1>4, <1>5 DEF Puts
<1> DEFINE m == size - Header - Len(b)
<1>7. m \in Nat /\ l + m = size - 4
  <2> HIDE DEF l
  <2> QED
    BY <1>3, <1>6 DEF Header
<1>8. z \in Seq(ByteValues) /\ Len(z) = m
  <2>1. 0 \in ByteValues /\ z = Fill(0, m)
    BY DEF ByteValues
  <2> HIDE DEF z, m
  <2> QED
    BY <1>7, <2>1, FillIs
<1> HIDE DEF z, m
<1>9. BYE \in ByteValues /\ c < 32
  BY <1>2 DEF BYE, ByteValues
<1>10. h \in Seq(ByteValues)
  BY <1>2, <1>3, <1>9, HeaderTyped
<1>11. h \o b \o z = h \o body /\ body \in Seq(ByteValues)
  <2> HIDE DEF h
  <2> QED
    BY <1>6, <1>8, <1>10, JoinedTwice
<1>12. Puts(body, b, z)
  BY <1>6, <1>8, Put, Zenon
<1> HIDE DEF body, p
<1>13. Len(body) = size - 4 /\ Holds(body, 0, b)
  <2>1. Len(body) = l + m /\ Holds(body, 0, b)
    BY <1>6, <1>8, <1>12 DEF Puts
  <2> QED
    BY <1>7, <2>1
<1>14. Made(p, BYE, c, size, body)
  <2>1. p = HeaderBytes(BYE, c, size) \o body
    BY <1>1, <1>11
  <2> HIDE DEF l, h
  <2> QED
    BY <1>2, <1>3, <1>9, <1>11, <1>13, <2>1, Zenon DEF Made
<1>15. p \in Packets /\ Len(p) = size /\ TypeOf(p) = BYE /\ CountOf(p) = c /\ Holds(p, 4, body)
  BY <1>14, MadeIs
<1>16. p \in Seq(ByteValues) /\ PaddingFits(p) /\ Unpadded(p) = size
  BY <1>15, PacketIs
<1>17. ReasonOffset(p) = 4 + 4 * c
  BY <1>15 DEF ReasonOffset, Header, SSRC
<1>18. n # 0 => At0(p, 4 + 4 * c) = n
  <2> SUFFICES ASSUME n # 0 PROVE At0(p, 4 + 4 * c) = n
    OBVIOUS
  <2> DEFINE x == 4 * c
  <2>1. Holds(b, x, r) /\ x \in Nat
    BY <1>2, <1>6
  <2> HIDE DEF x
  <2>2. Holds(body, 0 + x, r)
    BY <1>4, <1>6, <1>11, <1>13, <2>1, HoldsHeld, Zenon
  <2>3. 0 + x = x
    BY <2>1
  <2>4. Holds(body, x, r)
    BY <2>2, <2>3
  <2>5. Holds(p, 4 + x, r)
    BY <1>4, <1>11, <1>15, <1>16, <2>4, HoldsHeld, Zenon
  <2>6. 1 \in 1 .. Len(r)
    BY <1>3, <1>4
  <2>7. p[(4 + x) + 1] = n
    BY <1>4, <2>5, <2>6 DEF Holds
  <2> QED
    BY <2>7 DEF At0, x
<1>19. KnownBYE(p)
  <2>1. 4 + 4 * c <= size
    BY <1>2, <1>3
  <2>2. ASSUME 4 + 4 * c < size PROVE n # 0 /\ n <= size - (4 + 4 * c) - 1
    BY <1>2, <1>3, <2>2
  <2> HIDE DEF l
  <2> QED
    BY <1>16, <1>17, <1>18, <2>1, <2>2 DEF KnownBYE
<1> QED
  BY <1>3, <1>15, <1>19 DEF p, size, c
-----------------------------------------------------------------------------
(* The packets of a type.                                                    *)

Kept(q, T) == [i \in DOMAIN q |-> IF TypeOf(q[i]) \in T THEN <<q[i]>> ELSE <<>>]

LEMMA KeptIs ==
    ASSUME NEW q \in Seq(Packets), NEW T
    PROVE  /\ Kept(q, T) \in Seq(Seq(Packets)) /\ Len(Kept(q, T)) = Len(q) /\ Len(q) \in Nat
           /\ \A i \in 1 .. Len(q) : /\ TypeOf(q[i]) \in T => Kept(q, T)[i] = <<q[i]>>
                                     /\ TypeOf(q[i]) \notin T => Kept(q, T)[i] = <<>>
<1> DEFINE N == Len(q)
           W == Kept(q, T)
<1>1. N \in Nat /\ DOMAIN q = 1 .. N /\ \A i \in 1 .. N : q[i] \in Packets
  BY LenProperties, ElementOfSeq
<1>2. W = [i \in 1 .. N |-> IF TypeOf(q[i]) \in T THEN <<q[i]>> ELSE <<>>]
  BY <1>1 DEF Kept
<1>3. \A i \in 1 .. N : (IF TypeOf(q[i]) \in T THEN <<q[i]>> ELSE <<>>) \in Seq(Packets)
  BY <1>1
<1> HIDE DEF W, N
<1>4. W \in Seq(Seq(Packets)) /\ Len(W) = N
  BY <1>1, <1>2, <1>3
<1>5. \A i \in 1 .. N : /\ TypeOf(q[i]) \in T => W[i] = <<q[i]>>
                        /\ TypeOf(q[i]) \notin T => W[i] = <<>>
  BY <1>2
<1> QED
  BY <1>1, <1>4, <1>5 DEF W, N

LEMMA OfTypeIs ==
    ASSUME NEW q \in Seq(Packets), NEW T
    PROVE  OfType(q, T) = FlattenSeq(Kept(q, T))
<1> DEFINE Is(f) == f = [i \in Nat |->
               IF i = 0 THEN <<>>
               ELSE IF TypeOf(q[i]) \in T THEN Append(f[i - 1], q[i])
               ELSE f[i - 1]]
           iter == CHOOSE f : Is(f)
           a == <<q, T>>
           G(f, i) == IF i = 0 THEN <<>>
               ELSE IF TypeOf(q[i]) \in T THEN Append(f[i - 1], q[i])
               ELSE f[i - 1]
           N == Len(q)
           W == Kept(q, T)
<1>1. OfType(q, T) = iter[N]
  BY Zenon DEF OfType
<1>2. StepsBack("kept", a)
  BY DEF StepsBack, Turn
<1>3. \E f : IsTurn(f, "kept", a, Nat)
  BY <1>2, BackByOne, Zenon
<1>4. \A f : IsTurn(f, "kept", a, Nat) => Is(f)
  BY ZenonT(60) DEF Turn, IsTurn
<1>5. Is(iter)
  <2> HIDE DEF Is
  <2> QED
    BY <1>3, <1>4
<1>6. \A i \in Nat : iter[i] = G(iter, i)
  <2>1. iter = [i \in Nat |-> G(iter, i)]
    BY <1>5
  <2> HIDE DEF iter, G
  <2> QED
    BY <2>1
<1> HIDE DEF iter
<1>7. iter[0] = <<>>
  BY <1>6
<1>8. /\ W \in Seq(Seq(Packets)) /\ Len(W) = N /\ N \in Nat
      /\ \A i \in 1 .. N : /\ TypeOf(q[i]) \in T => W[i] = <<q[i]>>
                           /\ TypeOf(q[i]) \notin T => W[i] = <<>>
  BY KeptIs
<1>9. \A i \in 1 .. N : q[i] \in Packets
  BY ElementOfSeq
<1> HIDE DEF W, N
<1>10. ASSUME NEW k \in Nat, k < N, iter[k] \in Seq(Packets)
       PROVE  iter[k + 1] = iter[k] \o W[k + 1] /\ iter[k + 1] \in Seq(Packets)
  <2>1. k + 1 \in 1 .. N /\ k + 1 \in Nat /\ k + 1 # 0 /\ (k + 1) - 1 = k
    BY <1>8, <1>10
  <2>2. iter[k + 1] = IF TypeOf(q[k + 1]) \in T THEN Append(iter[k], q[k + 1]) ELSE iter[k]
    <3>1. iter[k + 1] = G(iter, k + 1)
      BY <1>6, <2>1
    <3> QED
      BY <2>1, <3>1
  <2>3. q[k + 1] \in Packets
    BY <1>9, <2>1
  <2> DEFINE x == q[k + 1]
             s == iter[k]
  <2>4. CASE TypeOf(x) \in T
    <3>1. Append(s, x) = s \o <<x>> /\ Append(s, x) \in Seq(Packets)
      BY <1>10, <2>3, AppendIsConcat, AppendProperties, SMTT(30)
    <3> QED
      BY <1>8, <2>1, <2>2, <2>4, <3>1
  <2>5. CASE TypeOf(x) \notin T
    <3>1. s \o <<>> = s
      BY <1>10, ConcatEmptySeq
    <3> QED
      BY <1>8, <1>10, <2>1, <2>2, <2>5, <3>1
  <2> QED
    BY <2>4, <2>5
<1> DEFINE S == {k \in Nat : k <= N => iter[k] \in Seq(Packets)}
<1>11. Nat \subseteq S
  <2>1. 0 \in S
    <3>1. iter[0] \in Seq(Packets)
      <4>1. <<>> \in Seq(Packets)
        OBVIOUS
      <4> QED
        BY <1>7, <4>1
    <3> QED
      BY <3>1
  <2>2. ASSUME NEW k \in Nat, k \in S PROVE k + 1 \in S
    <3> SUFFICES ASSUME k + 1 <= N PROVE iter[k + 1] \in Seq(Packets)
      OBVIOUS
    <3>1. k < N /\ k <= N
      BY <1>8
    <3> QED
      BY <1>10, <2>2, <3>1
  <2> HIDE DEF S
  <2> QED
    BY <2>1, <2>2, Counting
<1>12. Flat(iter, W)
  <2>1. \A k \in Nat : k < N => iter[k + 1] = iter[k] \o W[k + 1]
    <3> SUFFICES ASSUME NEW k \in Nat, k < N PROVE iter[k + 1] = iter[k] \o W[k + 1]
      OBVIOUS
    <3>1. k <= N
      BY <1>8
    <3> QED
      BY <1>10, <1>11, <3>1
  <2> QED
    BY <1>7, <1>8, <2>1 DEF Flat
<1>13. FlattenSeq(W) = iter[N]
  BY <1>8, <1>12, FlatIs
<1> QED
  BY <1>1, <1>13 DEF W

LEMMA OfTypeNone ==
    ASSUME NEW q \in Seq(Packets), NEW T, \A i \in 1 .. Len(q) : TypeOf(q[i]) \notin T
    PROVE  OfType(q, T) = <<>>
<1> DEFINE W == Kept(q, T)
           N == Len(q)
           f == [k \in Nat |-> <<>>]
<1>1. W \in Seq(Seq(Packets)) /\ Len(W) = N /\ N \in Nat /\ \A i \in 1 .. N : W[i] = <<>>
  BY KeptIs
<1> HIDE DEF W, N
<1>2. \A k \in Nat : f[k] = <<>>
  OBVIOUS
<1> HIDE DEF f
<1>3. Flat(f, W)
  <2>1. ASSUME NEW k \in Nat, k < N PROVE f[k + 1] = f[k] \o W[k + 1]
    <3>1. k + 1 \in 1 .. N /\ k + 1 \in Nat
      BY <1>1, <2>1
    <3>2. f[k] = <<>> /\ f[k + 1] = <<>> /\ W[k + 1] = <<>>
      BY <1>1, <1>2, <3>1
    <3>3. <<>> \o <<>> = <<>>
      OBVIOUS
    <3> QED
      BY <3>2, <3>3
  <2> QED
    BY <1>1, <1>2, <2>1 DEF Flat
<1>4. FlattenSeq(W) = f[N]
  BY <1>1, <1>3, FlatIs
<1> QED
  BY <1>1, <1>2, <1>4, OfTypeIs DEF W

LEMMA OfTypeAll ==
    ASSUME NEW q \in Seq(Packets), NEW T, \A i \in 1 .. Len(q) : TypeOf(q[i]) \in T
    PROVE  OfType(q, T) = q
<1> DEFINE W == Kept(q, T)
           N == Len(q)
           f == [k \in Nat |-> SubSeq(q, 1, k)]
<1>1. W \in Seq(Seq(Packets)) /\ Len(W) = N /\ N \in Nat /\ \A i \in 1 .. N : W[i] = <<q[i]>>
  BY KeptIs
<1> HIDE DEF W
<1>2. \A k \in Nat : f[k] = SubSeq(q, 1, k)
  OBVIOUS
<1> HIDE DEF f
<1>3. Flat(f, W)
  <2>1. ASSUME NEW k \in Nat, k < N PROVE f[k + 1] = f[k] \o W[k + 1]
    <3>1. k + 1 \in 1 .. N /\ k + 1 \in Nat /\ (k + 1) - 1 = k
      BY <1>1, <2>1
    <3>2. SubSeq(q, 1, k + 1) = SubSeq(q, 1, (k + 1) - 1) \o <<q[k + 1]>>
      <4>1. 1 \in 1 .. Len(q) /\ k + 1 \in 1 .. Len(q)
        BY <3>1
      <4> QED
        BY <4>1, SubSeqRecursiveSecond
    <3> QED
      BY <1>1, <1>2, <3>1, <3>2
  <2>2. f[0] = <<>>
    <3>1. SubSeq(q, 1, 0) = <<>>
      BY SubSeqEmpty
    <3> QED
      BY <1>2, <3>1
  <2> HIDE DEF N
  <2> QED
    BY <1>1, <2>1, <2>2 DEF Flat
<1>4. FlattenSeq(W) = f[N]
  BY <1>1, <1>3, FlatIs
<1>5. f[N] = q
  BY <1>1, <1>2, SubSeqFull
<1> QED
  BY <1>4, <1>5, OfTypeIs DEF W

LEMMA OfTypeJoined ==
    ASSUME NEW p \in Seq(Packets), NEW q \in Seq(Packets), NEW T
    PROVE  OfType(p \o q, T) = OfType(p, T) \o OfType(q, T)
<1> DEFINE w == p \o q
           m == Len(p)
           n == Len(q)
           A == Kept(p, T)
           B == Kept(q, T)
           C == Kept(w, T)
           D == A \o B
<1>1. /\ w \in Seq(Packets) /\ m \in Nat /\ n \in Nat /\ Len(w) = m + n
      /\ \A i \in 1 .. m : w[i] = p[i]
      /\ \A i \in 1 .. n : w[m + i] = q[i]
  BY Joined
<1>2. OfType(p, T) = FlattenSeq(A) /\ OfType(q, T) = FlattenSeq(B)
  BY OfTypeIs
<1> HIDE DEF w
<1>3. OfType(w, T) = FlattenSeq(C)
  BY <1>1, OfTypeIs
<1>4. /\ A \in Seq(Seq(Packets)) /\ Len(A) = m
      /\ \A i \in 1 .. m : /\ TypeOf(p[i]) \in T => A[i] = <<p[i]>>
                           /\ TypeOf(p[i]) \notin T => A[i] = <<>>
  BY KeptIs
<1>5. /\ B \in Seq(Seq(Packets)) /\ Len(B) = n
      /\ \A i \in 1 .. n : /\ TypeOf(q[i]) \in T => B[i] = <<q[i]>>
                           /\ TypeOf(q[i]) \notin T => B[i] = <<>>
  BY KeptIs
<1>6. /\ C \in Seq(Seq(Packets)) /\ Len(C) = Len(w)
      /\ \A i \in 1 .. Len(w) : /\ TypeOf(w[i]) \in T => C[i] = <<w[i]>>
                                /\ TypeOf(w[i]) \notin T => C[i] = <<>>
  BY <1>1, KeptIs
<1> HIDE DEF A, B, C, m, n
<1>7. /\ D \in Seq(Seq(Packets)) /\ Len(D) = Len(A) + Len(B)
      /\ \A i \in 1 .. Len(A) : D[i] = A[i]
      /\ \A i \in 1 .. Len(B) : D[Len(A) + i] = B[i]
  <2>1. ASSUME NEW x \in Seq(Seq(Packets)), NEW y \in Seq(Seq(Packets))
        PROVE  /\ x \o y \in Seq(Seq(Packets)) /\ Len(x \o y) = Len(x) + Len(y)
               /\ \A i \in 1 .. Len(x) : (x \o y)[i] = x[i]
               /\ \A i \in 1 .. Len(y) : (x \o y)[Len(x) + i] = y[i]
    BY Joined
  <2> QED
    BY <1>4, <1>5, <2>1, Zenon
<1>8. FlattenSeq(D) = FlattenSeq(A) \o FlattenSeq(B)
  BY <1>4, <1>5, FlattenJoined
<1> HIDE DEF D
<1>9. C = D
  <2>1. Len(C) = m + n /\ Len(D) = m + n
    BY <1>1, <1>4, <1>5, <1>6, <1>7
  <2>2. ASSUME NEW i \in 1 .. m + n PROVE C[i] = D[i]
    <3>1. CASE i \in 1 .. m
      <4>1. w[i] = p[i] /\ D[i] = A[i] /\ i \in 1 .. Len(w)
        BY <1>1, <1>4, <1>7, <3>1
      <4> QED
        BY <1>4, <1>6, <3>1, <4>1
    <3>2. CASE i \notin 1 .. m
      <4>1. PICK j \in 1 .. n : i = m + j
        <5>1. i - m \in 1 .. n /\ i = m + (i - m)
          BY <1>1, <3>2
        <5> QED
          BY <5>1
      <4>2. w[i] = q[j] /\ D[i] = B[j] /\ i \in 1 .. Len(w)
        BY <1>1, <1>4, <1>5, <1>7, <4>1
      <4> QED
        BY <1>5, <1>6, <4>1, <4>2
    <3> QED
      BY <3>1, <3>2
  <2> QED
    <3>1. \A i \in 1 .. Len(C) : C[i] = D[i]
      BY <2>1, <2>2
    <3>2. C \in Seq(Seq(Packets)) /\ D \in Seq(Seq(Packets)) /\ Len(C) = Len(D)
      BY <1>6, <1>7, <2>1
    <3> QED
      BY <3>1, <3>2, SeqEqual
<1> QED
  BY <1>2, <1>3, <1>8, <1>9 DEF w
-----------------------------------------------------------------------------
(* The report packets of a builder.                                          *)

\* The type of report packet k + 1.
ReportType(b, k) == IF k = 0 /\ IsSR(b) THEN SR ELSE RR

LEMMA NoGroup ==
    ASSUME NEW D
    PROVE  Group(<<>>, 0 + 1) = <<>>
<1>1. PICK m \in Nat : m = MaxCount /\ m >= 1
  BY CompoundAssumption
<1>2. /\ 0 + 1 = 1 /\ (1 - 1) * m + 1 = 1 /\ (IF 1 * m < 0 THEN 1 * m ELSE 0) = 0
  BY <1>1
<1>3. Len(<<>>) = 0
  OBVIOUS
<1>4. Group(<<>>, 0 + 1) = SubSeq(<<>>, 1, 0)
  BY <1>1, <1>2, <1>3 DEF Group
<1>5. SubSeq(<<>>, 1, 0) = <<>>
  <2>1. <<>> \in Seq({})
    OBVIOUS
  <2> QED
    BY <2>1, SubSeqEmpty
<1> QED
  BY <1>4, <1>5

\* The blocks of report packet k + 1.
LEMMA ReportGroup ==
    ASSUME NEW b, b.blocks \in Seq(Blocks), NEW k \in Nat, k < ReportPackets(b)
    PROVE  LET bs == Group(b.blocks, k + 1)
               n == Len(b.blocks)
           IN  /\ bs \in Seq(Blocks) /\ Len(bs) \in Nat /\ Len(bs) <= MaxCount
               /\ GroupEnd(n, k + 1) = GroupEnd(n, k) + Len(bs) /\ GroupEnd(n, k) \in Nat
               /\ ReportPackets(b) \in Nat /\ 0 < ReportPackets(b)
               /\ GroupEnd(n, 0) = 0 /\ GroupEnd(n, ReportPackets(b)) = n /\ n \in Nat
<1> DEFINE n == Len(b.blocks)
           bs == Group(b.blocks, k + 1)
<1>1. n \in Nat /\ MaxCount \in Nat /\ MaxCount >= 1
  BY LenProperties, CompoundAssumption
<1>2. CASE b.blocks = <<>>
  <2>1. ReportPackets(b) = 1 /\ k = 0 /\ n = 0
    <3>1. ReportPackets(b) = 1
      BY <1>2 DEF ReportPackets
    <3> QED
      BY <1>2, <3>1
  <2>2. bs = <<>>
    BY <1>2, <2>1, NoGroup
  <2>3. Len(bs) = 0 /\ bs \in Seq(Blocks)
    <3> HIDE DEF bs
    <3> QED
      BY <2>2
  <2>4. GroupEnd(0, 0) = 0 /\ GroupEnd(0, 1) = 0 /\ 0 + 1 = 1
    BY <1>1 DEF GroupEnd
  <2> HIDE DEF bs, n
  <2> QED
    BY <1>1, <2>1, <2>3, <2>4 DEF bs, n
<1>3. CASE b.blocks # <<>>
  <2>1. ReportPackets(b) = Ceil(n, MaxCount)
    BY <1>3 DEF ReportPackets
  <2>2. /\ bs \in Seq(Blocks) /\ GroupEnd(n, k) + Len(bs) = GroupEnd(n, k + 1)
        /\ GroupEnd(n, k) \in Nat /\ Len(bs) \in Nat /\ Len(bs) <= MaxCount
    BY <2>1, GroupIs
  <2> HIDE DEF bs, n
  <2>3. /\ Ceil(n, MaxCount) \in Nat /\ GroupEnd(n, 0) = 0 /\ GroupEnd(n, Ceil(n, MaxCount)) = n
    BY <1>1, GroupEnds
  <2>4. 0 < Ceil(n, MaxCount)
    BY <2>1, <2>3
  <2> QED
    BY <1>1, <2>1, <2>2, <2>3, <2>4 DEF bs, n
<1> QED
  BY <1>2, <1>3

LEMMA ReportIs ==
    ASSUME NEW b, b.blocks \in Seq(Blocks), b.ssrc \in ByteValues, NEW k \in Nat, k < ReportPackets(b)
    PROVE  LET p == ReportPacket(b, k + 1)
               bs == Group(b.blocks, k + 1)
               type == ReportType(b, k)
           IN  /\ p \in Packets /\ TypeOf(p) = type /\ CountOf(p) = Len(bs)
               /\ KnownReport(p, Extra(type)) /\ ReadBlocks(p) = AllSent(bs)
               /\ Len(p) = 8 + Extra(type) + 24 * Len(bs)
<1> DEFINE bs == Group(b.blocks, k + 1)
           type == ReportType(b, k)
           body == Word(b.ssrc) \o Fill(3, Extra(type)) \o FlattenSeq(BlocksBytes(bs))
           p == HeaderBytes(type, Len(bs), Header + Len(body)) \o body
<1>1. bs \in Seq(Blocks) /\ Len(bs) < 32
  <2>1. bs \in Seq(Blocks) /\ Len(bs) \in Nat /\ Len(bs) <= MaxCount
    BY ReportGroup
  <2> QED
    BY <2>1, CompoundAssumption
<1>2. type \in {SR, RR}
  BY DEF ReportType
<1>3. (k + 1 = 1 /\ IsSR(b)) <=> (type = SR)
  <2>1. SR # RR
    BY DEF SR, RR
  <2> QED
    BY <2>1 DEF ReportType
<1>4. ReportPacket(b, k + 1) = p
  <2> DEFINE sr == k + 1 = 1 /\ IsSR(b)
             body2 == Word(b.ssrc) \o Fill(3, IF sr THEN SenderReport ELSE 0)
                    \o FlattenSeq(BlocksBytes(bs))
  <2>1. ReportPacket(b, k + 1) = HeaderBytes(IF sr THEN SR ELSE RR, Len(bs), Header + Len(body2)) \o body2
    BY Zenon DEF ReportPacket, BlocksBytes
  <2>2. (IF sr THEN SenderReport ELSE 0) = Extra(type) /\ (IF sr THEN SR ELSE RR) = type
    BY <1>2, <1>3 DEF Extra
  <2> HIDE DEF sr, type, bs
  <2>3. body2 = body
    BY <2>2, Zenon
  <2> HIDE DEF body2, body
  <2> QED
    BY <2>1, <2>2, <2>3, Zenon DEF p, bs
<1> HIDE DEF bs, type
<1>5. /\ p \in Packets /\ TypeOf(p) = type /\ CountOf(p) = Len(bs)
      /\ KnownReport(p, Extra(type)) /\ ReadBlocks(p) = AllSent(bs)
      /\ Len(p) = 8 + Extra(type) + 24 * Len(bs)
  <2>1. MadeReport(p, body, bs, b.ssrc, type)
    BY <1>1, <1>2, Zenon DEF MadeReport
  <2> HIDE DEF body, p
  <2> QED
    BY <2>1, BlocksRead
<1> HIDE DEF p
<1> QED
  BY <1>4, <1>5 DEF bs, type

ReportsOf(b) == [k \in 1 .. ReportPackets(b) |-> ReportPacket(b, k)]

LEMMA ReportsAre ==
    ASSUME NEW b, b.blocks \in Seq(Blocks), b.ssrc \in ByteValues, b.report \in {"SR", "RR"}
    PROVE  LET q == ReportsOf(b)
               n == ReportPackets(b)
           IN  /\ q \in Seq(Packets) /\ Len(q) = n /\ n \in Nat /\ 1 <= n
               /\ \A k \in Nat : k < n => q[k + 1] = ReportPacket(b, k + 1)
               /\ Len(FlattenSeq(q)) = ReportNeeds(b)
<1> DEFINE n == ReportPackets(b)
           q == ReportsOf(b)
           m == Len(b.blocks)
           R(k) == ReportPacket(b, k + 1)
<1>1. 0 < n /\ n \in Nat
  <2>1. CASE b.blocks = <<>>
    BY <2>1 DEF ReportPackets
  <2>2. CASE b.blocks # <<>>
    <3>1. m \in Nat /\ m # 0
      BY <2>2, LenProperties, EmptySeq
    <3>2. n = Ceil(m, MaxCount)
      BY <2>2 DEF ReportPackets
    <3> HIDE DEF m, n
    <3>3. Ceil(m, MaxCount) \in Nat /\ Ceil(m, MaxCount) # 0
      BY <3>1, GroupEnds
    <3> QED
      BY <3>2, <3>3
  <2> QED
    BY <2>1, <2>2
<1>2. ASSUME NEW k \in Nat, k < n
      PROVE  /\ R(k) \in Packets /\ Len(R(k)) = 8 + Extra(ReportType(b, k)) + 24 * Len(Group(b.blocks, k + 1))
             /\ GroupEnd(m, k + 1) = GroupEnd(m, k) + Len(Group(b.blocks, k + 1))
             /\ GroupEnd(m, k) \in Nat /\ Len(Group(b.blocks, k + 1)) \in Nat
             /\ GroupEnd(m, 0) = 0 /\ GroupEnd(m, n) = m /\ m \in Nat
  <2>1. R(k) \in Packets /\ Len(R(k)) = 8 + Extra(ReportType(b, k)) + 24 * Len(Group(b.blocks, k + 1))
    BY <1>2, ReportIs
  <2> HIDE DEF R
  <2>2. /\ GroupEnd(m, k + 1) = GroupEnd(m, k) + Len(Group(b.blocks, k + 1))
        /\ GroupEnd(m, k) \in Nat /\ Len(Group(b.blocks, k + 1)) \in Nat
        /\ GroupEnd(m, 0) = 0 /\ GroupEnd(m, n) = m /\ m \in Nat
    BY <1>2, ReportGroup
  <2> QED
    BY <2>1, <2>2
<1> HIDE DEF n, m
<1>3. /\ q \in Seq(Packets) /\ Len(q) = n /\ \A k \in Nat : k < n => q[k + 1] = R(k)
  <2>1. ASSUME NEW i \in 1 .. n PROVE ReportPacket(b, i) \in Packets
    <3>1. PICK k \in Nat : k = i - 1 /\ k < n /\ k + 1 = i
      BY <1>1
    <3> QED
      BY <1>2, <3>1
  <2>2. q = [i \in 1 .. n |-> ReportPacket(b, i)]
    BY DEF ReportsOf, n
  <2>3. \A k \in Nat : k < n => k + 1 \in 1 .. n
    BY <1>1
  <2> HIDE DEF q
  <2> QED
    BY <1>1, <2>1, <2>2, <2>3
<1> HIDE DEF q, R
<1>4. q \in Seq(Seq(ByteValues))
  <2>1. Packets \subseteq Seq(ByteValues)
    BY DEF Packets
  <2> QED
    BY <1>3, <2>1, SeqMonotonic
<1>5. PICK f : Flat(f, q)
  BY <1>4, FlatExists
<1> DEFINE l(k) == Len(f[k])
<1>6. (\A k \in Nat : k < n => l(k + 1) = l(k) + Len(q[k + 1])) /\ l(0) = 0
  BY <1>3, <1>4, <1>5, FlatLengths
<1>7. Len(FlattenSeq(q)) = l(n)
  BY <1>3, <1>4, <1>5, FlatIs
<1> HIDE DEF l
<1> DEFINE e == Extra(ReportType(b, 0))
           S == {k \in Nat : 1 <= k /\ k <= n => l(k) = 8 * k + e + 24 * GroupEnd(m, k)}
<1>8. e \in Nat
  BY DEF Extra, ReportType, SenderReport
<1> HIDE DEF e
<1>9. Nat \subseteq S
  <2>1. 0 \in S
    OBVIOUS
  <2>2. ASSUME NEW k \in Nat, k \in S PROVE k + 1 \in S
    <3> SUFFICES ASSUME k + 1 <= n PROVE l(k + 1) = 8 * (k + 1) + e + 24 * GroupEnd(m, k + 1)
      OBVIOUS
    <3>1. k < n /\ k <= n
      BY <1>1
    <3> DEFINE g == GroupEnd(m, k)
               h == GroupEnd(m, k + 1)
               d == Len(Group(b.blocks, k + 1))
    <3>2. l(k + 1) = l(k) + (8 + Extra(ReportType(b, k)) + 24 * d) /\ h = g + d /\ g \in Nat /\ d \in Nat
          /\ GroupEnd(m, 0) = 0
      BY <1>2, <1>3, <1>6, <3>1
    <3>3. k = 0 => g = 0
      BY <3>2
    <3> HIDE DEF g, h, d
    <3>4. CASE k = 0
      <4>1. Extra(ReportType(b, k)) = e /\ l(k) = 0
        BY <1>6, <3>4 DEF e
      <4>2. l(k + 1) = 8 * (k + 1) + e + 24 * h
        BY <1>8, <3>2, <3>3, <3>4, <4>1
      <4> QED
        BY <4>2 DEF h
    <3>5. CASE k # 0
      <4>1. Extra(ReportType(b, k)) = 0
        <5>1. SR # RR
          BY DEF SR, RR
        <5> QED
          BY <3>5, <5>1 DEF Extra, ReportType
      <4>2. l(k) = 8 * k + e + 24 * g
        BY <2>2, <3>1, <3>5 DEF g
      <4>3. l(k + 1) = 8 * (k + 1) + e + 24 * h
        BY <1>8, <3>2, <4>1, <4>2
      <4> QED
        BY <4>3 DEF h
    <3> QED
      BY <3>4, <3>5 DEF h
  <2> HIDE DEF S
  <2> QED
    BY <2>1, <2>2, Counting
<1>10. l(n) = 8 * n + e + 24 * m
  <2>1. 1 <= n /\ n <= n /\ GroupEnd(m, n) = m
    BY <1>1, <1>2
  <2> QED
    BY <1>1, <1>9, <2>1
<1>11. e = IF IsSR(b) THEN SenderReport ELSE 0
  <2>1. SR # RR
    BY DEF SR, RR
  <2> QED
    BY <2>1 DEF e, Extra, ReportType
<1>12. ReportNeeds(b) = 8 * n + e + 24 * m
  <2>1. CASE b.blocks = <<>>
    <3>1. n = 1 /\ m = 0
      BY <2>1 DEF n, m, ReportPackets
    <3>2. ReportNeeds(b) = 8 + e
      BY <1>8, <1>11, <2>1 DEF ReportNeeds, Header, HeaderLength, SSRC
    <3> QED
      BY <1>8, <3>1, <3>2
  <2>2. CASE b.blocks # <<>>
    <3>1. n = Ceil(m, MaxCount)
      BY <2>2 DEF n, m, ReportPackets
    <3>2. ReportNeeds(b) = m * 24 + Ceil(m, MaxCount) * (4 + 4) + e
      BY <1>11, <2>2 DEF m, ReportNeeds, BlocksNeed, Header, SSRC, ReceiverReport
    <3>3. m \in Nat
      BY <1>1, <1>2
    <3> QED
      BY <1>1, <1>8, <3>1, <3>2, <3>3
  <2> QED
    BY <2>1, <2>2
<1> QED
  BY <1>1, <1>3, <1>7, <1>10, <1>12 DEF n, q, R
-----------------------------------------------------------------------------
(* The SDES packets of a builder.                                            *)

Costs(q) == [i \in DOMAIN q |-> ChunkNeeds(ItemsSize(q[i]))]

LEMMA CostsAre ==
    ASSUME NEW q \in Seq(ChunkSources)
    PROVE  /\ Costs(q) \in Seq(Nat) /\ Len(Costs(q)) = Len(q) /\ Len(q) \in Nat
           /\ ChunksNeed(q) = TotalOf(Costs(q)) /\ ChunksNeed(q) \in Nat
           /\ \A i \in 1 .. Len(q) : Costs(q)[i] = ChunkNeeds(ItemsSize(q[i]))
<1> DEFINE N == Len(q)
<1>1. N \in Nat /\ DOMAIN q = 1 .. N /\ \A i \in 1 .. N : q[i] \in ChunkSources
  BY LenProperties, ElementOfSeq
<1>2. \A i \in 1 .. N : ChunkNeeds(ItemsSize(q[i])) \in Nat
  <2> SUFFICES ASSUME NEW i \in 1 .. N PROVE ChunkNeeds(ItemsSize(q[i])) \in Nat
    OBVIOUS
  <2>1. q[i] \in ChunkSources
    BY <1>1
  <2>2. LET c == ChunkBytes(q[i])
        IN  Len(c) \in Nat /\ Len(c) = ChunkNeeds(ItemsSize(q[i]))
    BY <2>1, ChunkLaid
  <2> QED
    BY <2>2
<1>3. Costs(q) \in Seq(Nat) /\ Len(Costs(q)) = N
      /\ \A i \in 1 .. N : Costs(q)[i] = ChunkNeeds(ItemsSize(q[i]))
  <2> HIDE DEF N
  <2> QED
    BY <1>1, <1>2 DEF Costs
<1>4. ChunksNeed(q) = TotalOf(Costs(q))
  BY DEF ChunksNeed, Costs
<1>5. ChunksNeed(q) \in Nat
  BY ChunksSize
<1> QED
  BY <1>1, <1>3, <1>4, <1>5

LEMMA NeedJoined ==
    ASSUME NEW p \in Seq(ChunkSources), NEW q \in Seq(ChunkSources)
    PROVE  ChunksNeed(p \o q) = ChunksNeed(p) + ChunksNeed(q) /\ p \o q \in Seq(ChunkSources)
<1> DEFINE w == p \o q
           A == Costs(p)
           B == Costs(q)
           D == A \o B
           m == Len(p)
           n == Len(q)
<1>1. /\ w \in Seq(ChunkSources) /\ m \in Nat /\ n \in Nat /\ Len(w) = m + n
      /\ \A i \in 1 .. m : w[i] = p[i]
      /\ \A i \in 1 .. n : w[m + i] = q[i]
  BY Joined
<1> HIDE DEF w
<1>2. /\ A \in Seq(Nat) /\ Len(A) = m /\ ChunksNeed(p) = TotalOf(A)
      /\ \A i \in 1 .. m : A[i] = ChunkNeeds(ItemsSize(p[i]))
  BY CostsAre
<1>3. /\ B \in Seq(Nat) /\ Len(B) = n /\ ChunksNeed(q) = TotalOf(B)
      /\ \A i \in 1 .. n : B[i] = ChunkNeeds(ItemsSize(q[i]))
  BY CostsAre
<1>4. /\ Costs(w) \in Seq(Nat) /\ Len(Costs(w)) = Len(w) /\ ChunksNeed(w) = TotalOf(Costs(w))
      /\ \A i \in 1 .. Len(w) : Costs(w)[i] = ChunkNeeds(ItemsSize(w[i]))
  BY <1>1, CostsAre
<1> HIDE DEF A, B, m, n
<1>5. /\ D \in Seq(Nat) /\ Len(D) = m + n
      /\ \A i \in 1 .. m : D[i] = A[i]
      /\ \A i \in 1 .. n : D[m + i] = B[i]
  <2>1. ASSUME NEW x \in Seq(Nat), NEW y \in Seq(Nat)
        PROVE  /\ x \o y \in Seq(Nat) /\ Len(x \o y) = Len(x) + Len(y)
               /\ \A i \in 1 .. Len(x) : (x \o y)[i] = x[i]
               /\ \A i \in 1 .. Len(y) : (x \o y)[Len(x) + i] = y[i]
    BY Joined
  <2> QED
    BY <1>2, <1>3, <2>1, Zenon
<1>6. TotalOf(D) = TotalOf(A) + TotalOf(B)
  BY <1>2, <1>3, TotalJoined
<1> HIDE DEF D
<1>7. Costs(w) = D
  <2>1. ASSUME NEW i \in 1 .. m + n PROVE Costs(w)[i] = D[i]
    <3>1. CASE i \in 1 .. m
      <4>1. w[i] = p[i] /\ D[i] = A[i] /\ i \in 1 .. Len(w)
        BY <1>1, <1>5, <3>1
      <4> QED
        BY <1>2, <1>4, <3>1, <4>1
    <3>2. CASE i \notin 1 .. m
      <4>1. PICK j \in 1 .. n : i = m + j
        <5>1. i - m \in 1 .. n /\ i = m + (i - m)
          BY <1>1, <3>2
        <5> QED
          BY <5>1
      <4>2. w[i] = q[j] /\ D[i] = B[j] /\ i \in 1 .. Len(w)
        BY <1>1, <1>5, <4>1
      <4> QED
        BY <1>3, <1>4, <4>1, <4>2
    <3> QED
      BY <3>1, <3>2
  <2>2. Len(Costs(w)) = Len(D) /\ \A i \in 1 .. Len(Costs(w)) : Costs(w)[i] = D[i]
    BY <1>1, <1>4, <1>5, <2>1
  <2> QED
    BY <1>4, <1>5, <2>2, SeqEqual
<1> QED
  BY <1>1, <1>2, <1>3, <1>4, <1>6, <1>7 DEF w

SDESOf(b) == [k \in 1 .. Ceil(Len(b.sources), MaxCount) |-> SDESPacket(b, k)]

\* What the sources of the first k packets need.
NeedTo(q, k) == ChunksNeed(SubSeq(q, 1, GroupEnd(Len(q), k)))

LEMMA NeedSteps ==
    ASSUME NEW q \in Seq(ChunkSources), NEW k \in Nat, k < Ceil(Len(q), MaxCount)
    PROVE  /\ NeedTo(q, k + 1) = NeedTo(q, k) + ChunksNeed(Group(q, k + 1))
           /\ ChunksNeed(Group(q, k + 1)) <= ChunksNeed(q)
           /\ NeedTo(q, k) \in Nat /\ ChunksNeed(Group(q, k + 1)) \in Nat
<1> DEFINE n == Len(q)
           e == GroupEnd(n, k)
           h == GroupEnd(n, k + 1)
           u == SubSeq(q, 1, e)
           v == Group(q, k + 1)
           x == SubSeq(q, 1, h)
           y == SubSeq(q, h + 1, n)
<1>1. n \in Nat /\ \A i \in 1 .. n : q[i] \in ChunkSources
  BY LenProperties, ElementOfSeq
<1>2. v \in Seq(ChunkSources) /\ v = SubSeq(q, e + 1, h) /\ e \in Nat /\ e + Len(v) = h /\ Len(v) \in Nat
  BY GroupIs
<1>3. h \in Nat /\ h <= n
  <2> HIDE DEF n
  <2>1. k + 1 \in Nat
    OBVIOUS
  <2> QED
    BY <1>1, <2>1, GroupEnds
<1> HIDE DEF n, e, h, v
<1>4. u \in Seq(ChunkSources) /\ x \in Seq(ChunkSources) /\ y \in Seq(ChunkSources)
  <2>1. ASSUME NEW i \in Int, NEW j \in Int, \A r \in i .. j : q[r] \in ChunkSources
        PROVE  SubSeq(q, i, j) \in Seq(ChunkSources)
    BY <2>1, SubSeqProperties
  <2>2. /\ \A r \in 1 .. e : q[r] \in ChunkSources
        /\ \A r \in 1 .. h : q[r] \in ChunkSources
        /\ \A r \in h + 1 .. n : q[r] \in ChunkSources
    BY <1>1, <1>2, <1>3
  <2>3. 1 \in Int /\ e \in Int /\ h \in Int /\ h + 1 \in Int /\ n \in Int
    BY <1>1, <1>2, <1>3
  <2> QED
    BY <2>1, <2>2, <2>3, Zenon
<1>5. u \o v = x
  <2>1. 1 \in 1 .. Len(q) + 1 /\ e \in 1 - 1 .. Len(q) /\ h \in e .. Len(q)
    BY <1>1, <1>2, <1>3 DEF n
  <2> QED
    BY <1>2, <2>1, ConcatAdjacentSubSeq
<1>6. x \o y = q
  <2>1. 1 \in 1 .. Len(q) + 1 /\ h \in 1 - 1 .. Len(q) /\ n \in h .. Len(q)
    BY <1>1, <1>2, <1>3 DEF n
  <2>2. x \o y = SubSeq(q, 1, n)
    BY <2>1, ConcatAdjacentSubSeq
  <2> QED
    BY <2>2, SubSeqFull DEF n
<1> HIDE DEF u, x, y
<1>7. ChunksNeed(x) = ChunksNeed(u) + ChunksNeed(v)
  BY <1>2, <1>4, <1>5, NeedJoined
<1>8. ChunksNeed(q) = ChunksNeed(x) + ChunksNeed(y)
  BY <1>4, <1>6, NeedJoined
<1>9. ChunksNeed(u) \in Nat /\ ChunksNeed(v) \in Nat /\ ChunksNeed(y) \in Nat
  BY <1>2, <1>4, CostsAre
<1>10. ChunksNeed(v) <= ChunksNeed(q)
  BY <1>7, <1>8, <1>9
<1> QED
  BY <1>7, <1>9, <1>10 DEF NeedTo, u, v, x, e, h, n

LEMMA SDESIs ==
    ASSUME NEW b, b.sources \in Seq(ChunkSources), ChunksNeed(b.sources) + 4 <= 4 * Wide,
           NEW k \in Nat, k < Ceil(Len(b.sources), MaxCount)
    PROVE  LET p == SDESPacket(b, k + 1)
               ss == Group(b.sources, k + 1)
           IN  /\ p \in Packets /\ TypeOf(p) = SDES /\ CountOf(p) <= MaxCount
               /\ KnownSDES(p) /\ ReadChunks(p) = ss
               /\ Len(p) = 4 + ChunksNeed(ss) /\ ChunksNeed(ss) \in Nat
<1> DEFINE ss == Group(b.sources, k + 1)
           body == FlattenSeq(ChunksBytes(ss))
           p == HeaderBytes(SDES, Len(ss), Header + Len(body)) \o body
<1>1. SDESPacket(b, k + 1) = p
  BY Zenon DEF SDESPacket, ChunksBytes
<1>2. ss \in Seq(ChunkSources) /\ Len(ss) \in Nat /\ Len(ss) <= MaxCount /\ Len(ss) < 32
  <2>1. ss \in Seq(ChunkSources) /\ Len(ss) \in Nat /\ Len(ss) <= MaxCount
    BY GroupIs
  <2> QED
    BY <2>1, CompoundAssumption
<1>3. ChunksNeed(ss) <= ChunksNeed(b.sources) /\ ChunksNeed(ss) \in Nat
  BY NeedSteps
<1> HIDE DEF ss
<1>4. Len(body) = ChunksNeed(ss)
  BY <1>2, ChunksSize
<1> HIDE DEF body
<1>5. Len(body) + 4 <= 4 * Wide
  <2>1. ChunksNeed(b.sources) \in Nat
    BY CostsAre
  <2>2. 4 * Wide \in Nat
    BY DEF Wide
  <2> QED
    BY <1>3, <1>4, <2>1, <2>2
<1>6. MadeChunks(p, body, ss)
  BY <1>2, <1>5, Zenon DEF MadeChunks, body
<1> HIDE DEF p
<1>7. /\ p \in Packets /\ TypeOf(p) = SDES /\ CountOf(p) = Len(ss)
      /\ KnownSDES(p) /\ ReadChunks(p) = ss
      /\ Len(p) = 4 + ChunksNeed(ss)
  BY <1>6, ChunksRead
<1> QED
  BY <1>1, <1>2, <1>3, <1>7 DEF ss

LEMMA SourcesAre ==
    ASSUME NEW b, b.sources \in Seq(ChunkSources), ChunksNeed(b.sources) + 4 <= 4 * Wide
    PROVE  LET q == SDESOf(b)
               n == Ceil(Len(b.sources), MaxCount)
           IN  /\ q \in Seq(Packets) /\ Len(q) = n /\ n \in Nat
               /\ \A k \in Nat : k < n => q[k + 1] = SDESPacket(b, k + 1)
               /\ Len(FlattenSeq(q)) = SDESNeeds(b) /\ SDESNeeds(b) \in Nat
<1> DEFINE m == Len(b.sources)
           n == Ceil(m, MaxCount)
           q == SDESOf(b)
           R(k) == SDESPacket(b, k + 1)
           N(k) == NeedTo(b.sources, k)
           C(k) == ChunksNeed(Group(b.sources, k + 1))
<1>1. m \in Nat /\ n \in Nat /\ GroupEnd(m, 0) = 0 /\ GroupEnd(m, n) = m
  <2>1. m \in Nat
    BY LenProperties
  <2> HIDE DEF m
  <2> QED
    BY <2>1, GroupEnds
<1>2. ASSUME NEW k \in Nat, k < n PROVE R(k) \in Packets /\ Len(R(k)) = 4 + C(k)
  BY <1>2, SDESIs
<1>3. ASSUME NEW k \in Nat, k < n PROVE N(k + 1) = N(k) + C(k) /\ N(k) \in Nat /\ C(k) \in Nat
  BY <1>3, NeedSteps
<1>4. N(0) = 0 /\ N(n) = ChunksNeed(b.sources)
  <2>1. SubSeq(b.sources, 1, 0) = <<>> /\ SubSeq(b.sources, 1, m) = b.sources
    BY SubSeqEmpty, SubSeqFull
  <2>2. ChunksNeed(<<>>) = 0
    <3>1. Costs(<<>>) = <<>>
      BY DEF Costs
    <3>2. ChunksNeed(<<>>) = TotalOf(Costs(<<>>))
      BY DEF ChunksNeed, Costs
    <3> QED
      BY <3>1, <3>2, TotalNone
  <2> HIDE DEF n
  <2> QED
    BY <1>1, <2>1, <2>2 DEF NeedTo
<1>5. SDESNeeds(b) = ChunksNeed(b.sources) + n * 4
  BY DEF SDESNeeds, SDESHeaders, Header
<1> HIDE DEF m, n, N, C
<1>6. /\ q \in Seq(Packets) /\ Len(q) = n /\ \A k \in Nat : k < n => q[k + 1] = R(k)
  <2>1. ASSUME NEW i \in 1 .. n PROVE SDESPacket(b, i) \in Packets
    <3>1. PICK k \in Nat : k = i - 1 /\ k < n /\ k + 1 = i
      BY <1>1
    <3> QED
      BY <1>2, <3>1
  <2>2. q = [i \in 1 .. n |-> SDESPacket(b, i)]
    BY DEF SDESOf, n, m
  <2>3. \A k \in Nat : k < n => k + 1 \in 1 .. n
    BY <1>1
  <2> HIDE DEF q
  <2> QED
    BY <1>1, <2>1, <2>2, <2>3
<1> HIDE DEF q, R
<1>7. q \in Seq(Seq(ByteValues))
  <2>1. Packets \subseteq Seq(ByteValues)
    BY DEF Packets
  <2> QED
    BY <1>6, <2>1, SeqMonotonic
<1>8. PICK f : Flat(f, q)
  BY <1>7, FlatExists
<1> DEFINE l(k) == Len(f[k])
<1>9. (\A k \in Nat : k < n => l(k + 1) = l(k) + Len(q[k + 1])) /\ l(0) = 0
  BY <1>6, <1>7, <1>8, FlatLengths
<1>10. Len(FlattenSeq(q)) = l(n)
  BY <1>6, <1>7, <1>8, FlatIs
<1> HIDE DEF l
<1> DEFINE S == {k \in Nat : k <= n => l(k) = 4 * k + N(k)}
<1>11. Nat \subseteq S
  <2>1. 0 \in S
    BY <1>4, <1>9
  <2>2. ASSUME NEW k \in Nat, k \in S PROVE k + 1 \in S
    <3> SUFFICES ASSUME k + 1 <= n PROVE l(k + 1) = 4 * (k + 1) + N(k + 1)
      OBVIOUS
    <3>1. k < n /\ k <= n
      BY <1>1
    <3>2. l(k + 1) = l(k) + (4 + C(k)) /\ l(k) = 4 * k + N(k)
      BY <1>2, <1>6, <1>9, <2>2, <3>1
    <3>3. N(k + 1) = N(k) + C(k) /\ N(k) \in Nat /\ C(k) \in Nat
      BY <1>3, <3>1
    <3> QED
      BY <3>2, <3>3
  <2> HIDE DEF S
  <2> QED
    BY <2>1, <2>2, Counting
<1>12. l(n) = 4 * n + ChunksNeed(b.sources)
  <2>1. n <= n
    BY <1>1
  <2> QED
    BY <1>1, <1>4, <1>11, <2>1
<1>13. ChunksNeed(b.sources) \in Nat
  BY CostsAre
<1>14. l(n) = SDESNeeds(b) /\ SDESNeeds(b) \in Nat
  BY <1>1, <1>5, <1>12, <1>13
<1> QED
  BY <1>1, <1>6, <1>10, <1>14 DEF n, m, q, R
-----------------------------------------------------------------------------
(* The whole packet.                                                         *)

LEMMA PacketsBytes ==
    /\ Packets \subseteq Seq(ByteValues)
    /\ \A q \in Seq(Packets) : q \in Seq(Seq(ByteValues))
<1>1. Packets \subseteq Seq(ByteValues)
  BY DEF Packets
<1>2. ASSUME NEW q \in Seq(Packets) PROVE q \in Seq(Seq(ByteValues))
  BY <1>1, SeqMonotonic
<1> QED
  BY <1>1, <1>2

\* s, t, u and v one after the other.
LEMMA FourJoined ==
    ASSUME NEW D, NEW s \in Seq(D), NEW t \in Seq(D), NEW u \in Seq(D), NEW v \in Seq(D)
    PROVE  /\ s \o t \o u \o v \in Seq(D)
           /\ Len(s \o t \o u \o v) = Len(s) + Len(t) + Len(u) + Len(v)
           /\ Len(s) \in Nat /\ Len(t) \in Nat /\ Len(u) \in Nat /\ Len(v) \in Nat
           /\ s \o t \in Seq(D) /\ s \o t \o u \in Seq(D)
<1> DEFINE a == s \o t
           b == a \o u
           c == b \o v
<1>1. a \in Seq(D) /\ Len(s) \in Nat /\ Len(t) \in Nat /\ Len(a) = Len(s) + Len(t)
  BY Joined
<1> HIDE DEF a
<1>2. b \in Seq(D) /\ Len(u) \in Nat /\ Len(b) = Len(a) + Len(u)
  BY <1>1, Joined
<1> HIDE DEF b
<1>3. c \in Seq(D) /\ Len(v) \in Nat /\ Len(c) = Len(b) + Len(v)
  BY <1>2, Joined
<1> HIDE DEF c
<1>4. Len(c) = Len(s) + Len(t) + Len(u) + Len(v)
  BY <1>1, <1>2, <1>3
<1> QED
  BY <1>1, <1>2, <1>3, <1>4 DEF a, b, c

\* w is s, t, u and v.
Flattens(w, s, t, u, v) ==
    /\ FlattenSeq(w) = FlattenSeq(s) \o FlattenSeq(t) \o FlattenSeq(u) \o FlattenSeq(v)
    /\ w \in Seq(Packets)
    /\ Len(FlattenSeq(w))
         = Len(FlattenSeq(s)) + Len(FlattenSeq(t)) + TotalOf(Sizes(u)) + TotalOf(Sizes(v))

LEMMA FourFlattened ==
    \A s, t, u, v \in Seq(Packets) : Flattens(s \o t \o u \o v, s, t, u, v)
<1> SUFFICES ASSUME NEW s \in Seq(Packets), NEW t \in Seq(Packets), NEW u \in Seq(Packets),
                    NEW v \in Seq(Packets)
             PROVE  Flattens(s \o t \o u \o v, s, t, u, v)
  OBVIOUS
<1> DEFINE a == s \o t
           b == a \o u
           c == b \o v
           fs == FlattenSeq(s)
           ft == FlattenSeq(t)
           fu == FlattenSeq(u)
           fv == FlattenSeq(v)
<1>1. a \in Seq(Packets) /\ b \in Seq(Packets) /\ c \in Seq(Packets)
  BY FourJoined
<1>2. s \in Seq(Seq(ByteValues)) /\ t \in Seq(Seq(ByteValues))
      /\ u \in Seq(Seq(ByteValues)) /\ v \in Seq(Seq(ByteValues))
  BY PacketsBytes
<1>3. FlattenSeq(a) = fs \o ft /\ fs \in Seq(ByteValues) /\ ft \in Seq(ByteValues)
  BY <1>2, FlattenJoined
<1> HIDE DEF a
<1>4. a \in Seq(Seq(ByteValues))
  BY <1>1, PacketsBytes
<1>5. FlattenSeq(b) = FlattenSeq(a) \o fu /\ fu \in Seq(ByteValues)
  BY <1>2, <1>4, FlattenJoined
<1> HIDE DEF b
<1>6. b \in Seq(Seq(ByteValues))
  BY <1>1, PacketsBytes
<1>7. FlattenSeq(c) = FlattenSeq(b) \o fv /\ fv \in Seq(ByteValues)
  BY <1>2, <1>6, FlattenJoined
<1> HIDE DEF c
<1>8. Len(fu) = TotalOf(Sizes(u)) /\ Len(fv) = TotalOf(Sizes(v))
  <2>1. ASSUME NEW w \in Seq(Seq(ByteValues)) PROVE Len(FlattenSeq(w)) = TotalOf(Sizes(w))
    <3>1. PICK f : Flat(f, w)
      BY FlatExists
    <3> QED
      BY <3>1, FlatLengths
  <2> QED
    BY <1>2, <2>1
<1> HIDE DEF fs, ft, fu, fv
<1>9. FlattenSeq(c) = fs \o ft \o fu \o fv
  BY <1>3, <1>5, <1>7
<1>10. Len(fs \o ft \o fu \o fv) = Len(fs) + Len(ft) + Len(fu) + Len(fv)
  BY <1>3, <1>5, <1>7, FourJoined
<1>11. Flattens(c, s, t, u, v)
  <2>1. Len(FlattenSeq(c)) = Len(fs) + Len(ft) + TotalOf(Sizes(u)) + TotalOf(Sizes(v))
    BY <1>8, <1>9, <1>10
  <2> QED
    BY <1>1, <1>9, <2>1 DEF Flattens, fs, ft, fu, fv
<1> QED
  BY <1>11 DEF a, b, c

\* Taking the packets of a type can be done part by part.
AddsUp(w, x, y, T) == OfType(w, T) = OfType(x, T) \o OfType(y, T)

LEMMA OfTypeAdds == \A x, y \in Seq(Packets) : \A T : AddsUp(x \o y, x, y, T)
<1> SUFFICES ASSUME NEW x \in Seq(Packets), NEW y \in Seq(Packets), NEW T
             PROVE  AddsUp(x \o y, x, y, T)
  OBVIOUS
<1>1. OfType(x \o y, T) = OfType(x, T) \o OfType(y, T)
  BY OfTypeJoined
<1> QED
  BY <1>1, Zenon DEF AddsUp

LEMMA OfTypeFour ==
    ASSUME NEW s \in Seq(Packets), NEW t \in Seq(Packets), NEW u \in Seq(Packets), NEW v \in Seq(Packets),
           NEW T
    PROVE  OfType(s \o t \o u \o v, T) = OfType(s, T) \o OfType(t, T) \o OfType(u, T) \o OfType(v, T)
<1> DEFINE a == s \o t
           b == a \o u
           c == b \o v
<1>1. a \in Seq(Packets) /\ b \in Seq(Packets) /\ c \in Seq(Packets)
  BY FourJoined
<1>2. AddsUp(a, s, t, T)
  BY OfTypeAdds, Zenon
<1> HIDE DEF a
<1>3. AddsUp(b, a, u, T)
  BY <1>1, OfTypeAdds, Zenon
<1> HIDE DEF b
<1>4. AddsUp(c, b, v, T)
  BY <1>1, OfTypeAdds, Zenon
<1> HIDE DEF c
<1>5. OfType(c, T) = OfType(s, T) \o OfType(t, T) \o OfType(u, T) \o OfType(v, T)
  BY <1>2, <1>3, <1>4, Zenon DEF AddsUp
<1> QED
  BY <1>5 DEF a, b, c

\* What a builder has been given.
Gathered(b) ==
    /\ b.ssrc \in ByteValues /\ b.blocks \in Seq(Blocks)
    /\ b.sources \in Seq(ChunkSources) /\ ChunksNeed(b.sources) + 4 <= 4 * Wide
    /\ b.apps \in Seq(Packets)
    /\ \A i \in 1 .. Len(b.apps) : TypeOf(b.apps[i]) = APP /\ KnownAPP(b.apps[i])
    /\ b.byes \in Seq(Packets)
    /\ \A i \in 1 .. Len(b.byes) : TypeOf(b.byes[i]) = BYE /\ KnownBYE(b.byes[i])

PacketsOf(b) == ReportsOf(b) \o SDESOf(b) \o b.apps \o b.byes

LEMMA LayoutIs ==
    ASSUME NEW b, Gathered(b), b.report \in {"SR", "RR"}
    PROVE  /\ Layout(b) = FlattenSeq(PacketsOf(b)) /\ Layout(b) \in Seq(ByteValues)
           /\ PacketsOf(b) \in Seq(Packets) /\ Len(Layout(b)) = Needed(b)
           /\ ParseData(Layout(b)) = [ok |-> TRUE, packets |-> PacketsOf(b)]
<1> DEFINE R == ReportsOf(b)
           S == SDESOf(b)
           A == b.apps
           B == b.byes
           q == R \o S \o A \o B
           w == Layout(b)
<1>1. b.blocks \in Seq(Blocks) /\ b.ssrc \in ByteValues
  BY DEF Gathered
<1>2. R \in Seq(Packets) /\ 1 <= Len(R) /\ Len(R) \in Nat /\ Len(FlattenSeq(R)) = ReportNeeds(b)
      /\ R[1] = ReportPacket(b, 0 + 1) /\ 0 < ReportPackets(b)
  <2>1. LET n == ReportPackets(b)
        IN  /\ R \in Seq(Packets) /\ Len(R) = n /\ n \in Nat /\ 1 <= n
            /\ \A k \in Nat : k < n => R[k + 1] = ReportPacket(b, k + 1)
            /\ Len(FlattenSeq(R)) = ReportNeeds(b)
    BY <1>1, ReportsAre
  <2>2. 0 \in Nat /\ 0 < ReportPackets(b) /\ 0 + 1 = 1
    BY <2>1
  <2> HIDE DEF R
  <2>3. R[0 + 1] = ReportPacket(b, 0 + 1)
    BY <2>1, <2>2
  <2> QED
    BY <2>1, <2>2, <2>3
<1>3. S \in Seq(Packets) /\ Len(FlattenSeq(S)) = SDESNeeds(b) /\ SDESNeeds(b) \in Nat
  BY SourcesAre DEF Gathered
<1>4. A \in Seq(Packets) /\ B \in Seq(Packets)
  BY DEF Gathered
<1>5. w = FlattenSeq(R) \o FlattenSeq(S) \o FlattenSeq(A) \o FlattenSeq(B)
  BY Zenon DEF Layout, ReportsOf, SDESOf
<1> HIDE DEF R, S, A, B, w
<1>6. /\ FlattenSeq(q) = FlattenSeq(R) \o FlattenSeq(S) \o FlattenSeq(A) \o FlattenSeq(B)
      /\ q \in Seq(Packets)
      /\ Len(FlattenSeq(q)) = Len(FlattenSeq(R)) + Len(FlattenSeq(S)) + TotalOf(Sizes(A)) + TotalOf(Sizes(B))
  <2>1. Flattens(q, R, S, A, B)
    BY <1>2, <1>3, <1>4, FourFlattened, Zenon
  <2> HIDE DEF q
  <2> QED
    BY <2>1 DEF Flattens
<1>7. q[1] = R[1] /\ Len(q) \in Nat /\ 1 <= Len(q)
  <2> DEFINE x == R \o S
             y == x \o A
             z == y \o B
  <2>1. /\ x \in Seq(Packets) /\ Len(x) \in Nat /\ Len(x) >= Len(R) /\ \A i \in 1 .. Len(R) : x[i] = R[i]
    <3>1. /\ x \in Seq(Packets) /\ Len(R) \in Nat /\ Len(S) \in Nat /\ Len(x) = Len(R) + Len(S)
          /\ \A i \in 1 .. Len(R) : x[i] = R[i]
      BY <1>2, <1>3, Joined
    <3> HIDE DEF x
    <3> QED
      BY <3>1
  <2> HIDE DEF x
  <2>2. /\ y \in Seq(Packets) /\ Len(y) \in Nat /\ Len(y) >= Len(x) /\ \A i \in 1 .. Len(x) : y[i] = x[i]
    <3>1. /\ y \in Seq(Packets) /\ Len(x) \in Nat /\ Len(A) \in Nat /\ Len(y) = Len(x) + Len(A)
          /\ \A i \in 1 .. Len(x) : y[i] = x[i]
      BY <1>4, <2>1, Joined
    <3> HIDE DEF y
    <3> QED
      BY <3>1
  <2> HIDE DEF y
  <2>3. /\ Len(z) \in Nat /\ Len(z) >= Len(y) /\ \A i \in 1 .. Len(y) : z[i] = y[i]
    <3>1. /\ z \in Seq(Packets) /\ Len(y) \in Nat /\ Len(B) \in Nat /\ Len(z) = Len(y) + Len(B)
          /\ \A i \in 1 .. Len(y) : z[i] = y[i]
      BY <1>4, <2>2, Joined
    <3> HIDE DEF z
    <3> QED
      BY <3>1
  <2> HIDE DEF z
  <2>4. 1 \in 1 .. Len(R) /\ 1 \in 1 .. Len(x) /\ 1 \in 1 .. Len(y) /\ 1 <= Len(z)
    BY <1>2, <2>1, <2>2, <2>3
  <2>5. z[1] = R[1] /\ Len(z) \in Nat /\ 1 <= Len(z)
    BY <2>1, <2>2, <2>3, <2>4
  <2> QED
    BY <2>5 DEF x, y, z
<1>8. q = PacketsOf(b)
  BY DEF PacketsOf, R, S, A, B
<1> HIDE DEF q
<1>9. w = FlattenSeq(q) /\ w \in Seq(ByteValues)
  BY <1>5, <1>6, PacketsParsed
<1>10. ParseAll(w) = [ok |-> TRUE, packets |-> q]
  BY <1>6, <1>9, PacketsParsed
<1>11. Len(w) = Needed(b)
  <2> DEFINE na == TotalOf(Sizes(A))
             nb == TotalOf(Sizes(B))
             nr == ReportNeeds(b)
             ns == SDESNeeds(b)
  <2>1. na \in Nat /\ nb \in Nat
    <3>1. ASSUME NEW u \in Seq(Packets) PROVE TotalOf(Sizes(u)) \in Nat
      <4>1. u \in Seq(Seq(ByteValues))
        BY PacketsBytes
      <4>2. Sizes(u) \in Seq(Nat)
        BY <4>1, SizesAre
      <4>3. PICK g : Adds(g, Sizes(u))
        BY <4>2, AddsExists
      <4> QED
        BY <4>2, <4>3, TotalIs
    <3> QED
      BY <1>4, <3>1
  <2>2. nr \in Nat /\ ns \in Nat
    <3>1. FlattenSeq(R) \in Seq(ByteValues)
      BY <1>2, PacketsParsed
    <3> QED
      BY <1>2, <1>3, <3>1, LenProperties
  <2>3. Len(w) = nr + ns + na + nb
    BY <1>2, <1>3, <1>6, <1>9
  <2>4. Needed(b) = (na + nb) + nr + ns
    BY DEF Needed, PacketsNeed, A, B
  <2> HIDE DEF na, nb, nr, ns
  <2> QED
    BY <2>1, <2>2, <2>3, <2>4
<1>12. Len(w) >= 4 /\ TypeOf(w) \in {SR, RR}
  <2>1. R[1] \in Packets /\ TypeOf(R[1]) \in {SR, RR}
    <3>1. LET p == ReportPacket(b, 0 + 1)
          IN  p \in Packets /\ TypeOf(p) = ReportType(b, 0)
      BY <1>1, <1>2, ReportIs
    <3> QED
      BY <1>2, <3>1 DEF ReportType
  <2>2. q \in Seq(Seq(ByteValues))
    BY <1>6, PacketsBytes
  <2>3. PICK f : Flat(f, q)
    BY <2>2, FlatExists
  <2>4. Holds(w, Len(f[0]), q[0 + 1]) /\ Len(f[0]) = 0
    <3>1. 0 < Len(q) /\ 0 \in Nat
      BY <1>7
    <3>2. Holds(FlattenSeq(q), Len(f[0]), q[0 + 1])
      BY <2>2, <2>3, <3>1, Segment
    <3> QED
      BY <1>9, <2>2, <2>3, <3>2, FlatLengths
  <2>5. Holds(w, 0, R[1])
    BY <1>7, <2>4
  <2> DEFINE p == R[1]
  <2>6. Len(p) \in Nat /\ Len(p) >= 4
    BY <2>1, PacketIs
  <2> HIDE DEF p
  <2>7. Len(w) \in Nat /\ Len(p) <= Len(w) /\ w[2] = p[2]
    <3>1. 2 \in 1 .. Len(p) /\ 0 + 2 = 2 /\ 0 + Len(p) = Len(p)
      BY <2>6
    <3>2. Holds(w, 0, p)
      BY <2>5 DEF p
    <3> QED
      BY <1>9, <3>1, <3>2, LenProperties DEF Holds
  <2>8. TypeOf(w) = TypeOf(p)
    BY <2>7 DEF TypeOf, At0
  <2> QED
    BY <2>1, <2>6, <2>7, <2>8 DEF p
<1>13. ParseData(w) = [ok |-> TRUE, packets |-> q]
  <2>1. ~(Len(w) < Header \/ TypeOf(w) \notin {SR, RR})
    <3>1. Len(w) \in Nat
      BY <1>9, LenProperties
    <3> QED
      BY <1>12, <3>1 DEF Header
  <2> QED
    BY <1>10, <2>1 DEF ParseData
<1> QED
  BY <1>6, <1>8, <1>9, <1>11, <1>13 DEF w
-----------------------------------------------------------------------------
(* What is read of the whole packet.                                         *)

LEMMA AllSentIs ==
    ASSUME NEW q \in Seq(Blocks)
    PROVE  /\ AllSent(q) \in Seq(Blocks) /\ Len(AllSent(q)) = Len(q) /\ Len(q) \in Nat
           /\ \A i \in 1 .. Len(q) : AllSent(q)[i] = Sent24(q[i])
<1>1. Len(q) \in Nat /\ DOMAIN q = 1 .. Len(q) /\ \A i \in 1 .. Len(q) : q[i] \in Blocks
  BY LenProperties, ElementOfSeq
<1>2. ASSUME NEW n \in Int PROVE Signed24(n % (256 * 256 * 256)) \in Int
  BY DEF Signed24
<1>3. ASSUME NEW blk \in Blocks PROVE Sent24(blk) \in Blocks
  <2>1. blk.lost \in Int
    BY DEF Blocks
  <2>2. Signed24(blk.lost % (256 * 256 * 256)) \in Int
    BY <1>2, <2>1
  <2> QED
    BY <2>2 DEF Blocks, Sent24
<1>4. \A i \in 1 .. Len(q) : Sent24(q[i]) \in Blocks
  BY <1>1, <1>3
<1> QED
  BY <1>1, <1>4 DEF AllSent

\* What is read of a group is the group of what is read.
LEMMA GroupSent ==
    ASSUME NEW q \in Seq(Blocks), NEW k \in Nat, k < Ceil(Len(q), MaxCount)
    PROVE  Group(AllSent(q), k + 1) = AllSent(Group(q, k + 1))
<1> DEFINE p == AllSent(q)
           e == GroupEnd(Len(q), k)
           s == Group(q, k + 1)
           t == Group(p, k + 1)
           u == AllSent(s)
<1>1. /\ p \in Seq(Blocks) /\ Len(p) = Len(q) /\ Len(q) \in Nat
      /\ \A i \in 1 .. Len(q) : p[i] = Sent24(q[i])
  BY AllSentIs
<1> HIDE DEF p
<1>2. /\ s \in Seq(Blocks) /\ e + Len(s) = GroupEnd(Len(q), k + 1) /\ e \in Nat
      /\ Len(s) \in Nat /\ \A i \in 1 .. Len(s) : s[i] = q[e + i] /\ e + i \in 1 .. Len(q)
  BY GroupIs
<1>3. /\ t \in Seq(Blocks) /\ e + Len(t) = GroupEnd(Len(q), k + 1)
      /\ Len(t) \in Nat /\ \A i \in 1 .. Len(t) : t[i] = p[e + i]
  <2>1. k < Ceil(Len(p), MaxCount)
    BY <1>1, Zenon
  <2>2. /\ t \in Seq(Blocks) /\ GroupEnd(Len(p), k) + Len(t) = GroupEnd(Len(p), k + 1)
        /\ Len(t) \in Nat /\ \A i \in 1 .. Len(t) : t[i] = p[GroupEnd(Len(p), k) + i]
    <3> HIDE DEF t, e
    <3> QED
      BY <1>1, <2>1, GroupIs DEF t
  <2>3. GroupEnd(Len(p), k) = e /\ GroupEnd(Len(p), k + 1) = GroupEnd(Len(q), k + 1)
    BY <1>1, Zenon DEF e
  <2> HIDE DEF t, e
  <2> QED
    BY <2>2, <2>3, Zenon
<1> HIDE DEF s, t
<1>4. /\ u \in Seq(Blocks) /\ Len(u) = Len(s) /\ \A i \in 1 .. Len(s) : u[i] = Sent24(s[i])
  BY <1>2, AllSentIs
<1> HIDE DEF u
<1>5. Len(t) = Len(u)
  BY <1>2, <1>3, <1>4
<1>6. ASSUME NEW i \in 1 .. Len(t) PROVE t[i] = u[i]
  <2>1. i \in 1 .. Len(s)
    BY <1>4, <1>5
  <2>2. t[i] = p[e + i] /\ s[i] = q[e + i] /\ e + i \in 1 .. Len(q)
    BY <1>2, <1>3, <2>1
  <2>3. p[e + i] = Sent24(q[e + i])
    BY <1>1, <2>2
  <2> QED
    BY <1>4, <2>1, <2>2, <2>3
<1>7. t = u
  BY <1>3, <1>4, <1>5, <1>6, SeqEqual
<1> QED
  BY <1>7 DEF p, s, t, u

\* The packets of a kind, read one after the other.
BlocksOf(q) == [i \in DOMAIN q |-> ReadBlocks(q[i])]
ChunksOf(q) == [i \in DOMAIN q |-> ReadChunks(q[i])]

\* Each report and each SDES packet on its own.
LEMMA ReportAt ==
    ASSUME NEW b, Gathered(b), b.report \in {"SR", "RR"}, NEW i \in 1 .. Len(ReportsOf(b))
    PROVE  LET p == ReportsOf(b)[i]
           IN  /\ p \in Packets /\ TypeOf(p) = (IF i = 1 /\ IsSR(b) THEN SR ELSE RR)
               /\ CountOf(p) <= MaxCount /\ KnownFormat(p)
               /\ ReadBlocks(p) = AllSent(Group(b.blocks, i))
<1> DEFINE R == ReportsOf(b)
           p == R[i]
<1>1. b.blocks \in Seq(Blocks) /\ b.ssrc \in ByteValues
  BY DEF Gathered
<1>2. /\ Len(R) = ReportPackets(b) /\ ReportPackets(b) \in Nat
      /\ \A k \in Nat : k < ReportPackets(b) => R[k + 1] = ReportPacket(b, k + 1)
  BY <1>1, ReportsAre
<1> HIDE DEF R
<1>3. PICK k \in Nat : k + 1 = i /\ k < ReportPackets(b) /\ (k = 0 <=> i = 1)
  <2>1. i - 1 \in Nat /\ (i - 1) + 1 = i /\ i - 1 < ReportPackets(b) /\ (i - 1 = 0 <=> i = 1)
    BY <1>2 DEF R
  <2> QED
    BY <2>1
<1>4. p = ReportPacket(b, k + 1)
  BY <1>2, <1>3
<1> DEFINE bs == Group(b.blocks, k + 1)
           type == ReportType(b, k)
<1>5. /\ p \in Packets /\ TypeOf(p) = type /\ CountOf(p) = Len(bs)
      /\ KnownReport(p, Extra(type)) /\ ReadBlocks(p) = AllSent(bs)
  BY <1>1, <1>3, <1>4, ReportIs
<1>6. Len(bs) <= MaxCount
  BY <1>1, <1>3, ReportGroup
<1> HIDE DEF p, bs
<1>7. type = IF i = 1 /\ IsSR(b) THEN SR ELSE RR
  BY <1>3 DEF ReportType
<1>8. KnownFormat(p)
  <2>1. CASE type = SR
    BY <1>5, <2>1 DEF KnownFormat, Extra, SR, RR, SDES, BYE, APP
  <2>2. CASE type = RR
    BY <1>5, <2>2 DEF KnownFormat, Extra, SR, RR, SDES, BYE, APP
  <2> QED
    BY <1>7, <2>1, <2>2
<1>9. ReadBlocks(p) = AllSent(Group(b.blocks, i))
  BY <1>3, <1>5 DEF bs
<1>10. CountOf(p) <= MaxCount
  BY <1>5, <1>6
<1> QED
  BY <1>5, <1>7, <1>8, <1>9, <1>10 DEF p, R

LEMMA SourcesAt ==
    ASSUME NEW b, Gathered(b), NEW i \in 1 .. Len(SDESOf(b))
    PROVE  LET p == SDESOf(b)[i]
           IN  /\ p \in Packets /\ TypeOf(p) = SDES /\ CountOf(p) <= MaxCount /\ KnownFormat(p)
               /\ ReadChunks(p) = Group(b.sources, i)
<1> DEFINE S == SDESOf(b)
           p == S[i]
           n == Ceil(Len(b.sources), MaxCount)
<1>1. b.sources \in Seq(ChunkSources) /\ ChunksNeed(b.sources) + 4 <= 4 * Wide
  BY DEF Gathered
<1>2. /\ Len(S) = n /\ n \in Nat /\ \A k \in Nat : k < n => S[k + 1] = SDESPacket(b, k + 1)
  BY <1>1, SourcesAre
<1> HIDE DEF S
<1>3. PICK k \in Nat : k + 1 = i /\ k < n
  <2>1. i - 1 \in Nat /\ (i - 1) + 1 = i /\ i - 1 < n
    BY <1>2 DEF S
  <2> QED
    BY <2>1
<1>4. p = SDESPacket(b, k + 1)
  BY <1>2, <1>3
<1>5. /\ p \in Packets /\ TypeOf(p) = SDES /\ CountOf(p) <= MaxCount /\ KnownSDES(p)
      /\ ReadChunks(p) = Group(b.sources, k + 1)
  BY <1>1, <1>3, <1>4, SDESIs
<1> HIDE DEF p
<1>6. KnownFormat(p)
  BY <1>5 DEF KnownFormat, SR, RR, SDES, BYE, APP
<1> QED
  BY <1>3, <1>5, <1>6 DEF p, S

\* The blocks of all reports are the blocks of the builder.
LEMMA BlocksBack ==
    ASSUME NEW b, Gathered(b), b.report \in {"SR", "RR"}
    PROVE  FlattenSeq(BlocksOf(ReportsOf(b))) = AllSent(b.blocks)
<1> DEFINE R == ReportsOf(b)
           q == b.blocks
           s == AllSent(q)
           w == BlocksOf(R)
           n == ReportPackets(b)
<1>1. q \in Seq(Blocks) /\ b.ssrc \in ByteValues
  BY DEF Gathered
<1>2. R \in Seq(Packets) /\ Len(R) = n /\ n \in Nat /\ DOMAIN R = 1 .. n
  <2>1. R \in Seq(Packets) /\ Len(R) = n /\ n \in Nat
    BY <1>1, ReportsAre
  <2> QED
    BY <2>1, LenProperties
<1>3. s \in Seq(Blocks) /\ Len(s) = Len(q) /\ Len(q) \in Nat
  BY <1>1, AllSentIs
<1>4. ASSUME NEW i \in 1 .. n PROVE ReadBlocks(R[i]) = AllSent(Group(q, i))
  BY <1>2, ReportAt
<1> HIDE DEF R
<1>5. w = [i \in 1 .. n |-> AllSent(Group(q, i))]
  BY <1>2, <1>4 DEF BlocksOf
<1> HIDE DEF w
<1>6. CASE q = <<>>
  <2>1. n = 1
    BY <1>6 DEF ReportPackets
  <2>2. Group(q, 0 + 1) = <<>>
    BY <1>6, NoGroup
  <2>3. AllSent(<<>>) = <<>>
    BY DEF AllSent
  <2>4. 0 + 1 = 1
    OBVIOUS
  <2>5. w = <<<<>>>>
    BY <1>5, <2>1, <2>2, <2>3, <2>4
  <2>6. <<>> \in Seq(Blocks)
    OBVIOUS
  <2>7. FlattenSeq(w) = <<>>
    BY <2>5, <2>6, FlattenOne
  <2> QED
    BY <1>6, <2>3, <2>7 DEF w, R
<1>7. CASE q # <<>>
  <2>1. n = Ceil(Len(q), MaxCount)
    BY <1>7 DEF ReportPackets
  <2>2. ASSUME NEW i \in 1 .. n PROVE AllSent(Group(q, i)) = Group(s, i)
    <3>1. PICK k \in Nat : k + 1 = i /\ k < n
      <4>1. i - 1 \in Nat /\ (i - 1) + 1 = i /\ i - 1 < n
        BY <1>2
      <4> QED
        BY <4>1
    <3>2. Group(s, k + 1) = AllSent(Group(q, k + 1))
      BY <1>1, <2>1, <3>1, GroupSent
    <3> QED
      BY <3>1, <3>2
  <2> DEFINE z == [k \in 1 .. Ceil(Len(s), MaxCount) |-> Group(s, k)]
  <2>3. w = z
    BY <1>3, <1>5, <2>1, <2>2
  <2>4. FlattenSeq(z) = s
    BY <1>3, GroupsFlat
  <2> HIDE DEF z, s
  <2> QED
    BY <2>3, <2>4 DEF w, R, s
<1> QED
  BY <1>6, <1>7

LEMMA ChunksBack ==
    ASSUME NEW b, Gathered(b)
    PROVE  FlattenSeq(ChunksOf(SDESOf(b))) = b.sources
<1> DEFINE S == SDESOf(b)
           q == b.sources
           w == ChunksOf(S)
           n == Ceil(Len(q), MaxCount)
           z == [k \in 1 .. n |-> Group(q, k)]
<1>1. q \in Seq(ChunkSources) /\ ChunksNeed(q) + 4 <= 4 * Wide
  BY DEF Gathered
<1>2. S \in Seq(Packets) /\ DOMAIN S = 1 .. n /\ Len(S) = n
  <2>1. S \in Seq(Packets) /\ Len(S) = n /\ n \in Nat
    BY <1>1, SourcesAre
  <2> QED
    BY <2>1, LenProperties
<1>3. ASSUME NEW i \in 1 .. n PROVE ReadChunks(S[i]) = Group(q, i)
  BY <1>2, SourcesAt
<1> HIDE DEF S
<1>4. w = z
  BY <1>2, <1>3 DEF ChunksOf
<1>5. FlattenSeq(z) = q
  BY <1>1, GroupsFlat
<1> HIDE DEF w, z
<1>6. FlattenSeq(w) = q
  BY <1>4, <1>5
<1> QED
  BY <1>6 DEF w, S

\* What the packets of a builder have in common.
Sound(p) ==
    KnownFormat(p) /\ (TypeOf(p) \in {SR, RR, SDES} => CountOf(p) <= MaxCount)

LEMMA AllSound ==
    ASSUME NEW b, Gathered(b), b.report \in {"SR", "RR"}
    PROVE  \A i \in 1 .. Len(PacketsOf(b)) : Sound(PacketsOf(b)[i])
<1> DEFINE X == {p \in Packets : Sound(p)}
           R == ReportsOf(b)
           S == SDESOf(b)
           A == b.apps
           B == b.byes
           q == R \o S \o A \o B
<1>1. b.blocks \in Seq(Blocks) /\ b.ssrc \in ByteValues
  BY DEF Gathered
<1>2. R \in Seq(Packets) /\ S \in Seq(Packets) /\ A \in Seq(Packets) /\ B \in Seq(Packets)
  BY <1>1, ReportsAre, SourcesAre DEF Gathered
<1>3. ASSUME NEW u \in Seq(Packets), \A i \in 1 .. Len(u) : Sound(u[i]) PROVE u \in Seq(X)
  <2>1. \A i \in 1 .. Len(u) : u[i] \in X
    BY <1>3, ElementOfSeq
  <2> QED
    BY <2>1, LenProperties
<1>4. \A i \in 1 .. Len(R) : Sound(R[i])
  BY ReportAt DEF Sound
<1>5. \A i \in 1 .. Len(S) : Sound(S[i])
  BY SourcesAt DEF Sound
<1>6. \A i \in 1 .. Len(A) : Sound(A[i])
  BY DEF Gathered, Sound, KnownFormat, SR, RR, SDES, BYE, APP
<1>7. \A i \in 1 .. Len(B) : Sound(B[i])
  BY DEF Gathered, Sound, KnownFormat, SR, RR, SDES, BYE, APP
<1> HIDE DEF R, S, A, B, X
<1>8. R \in Seq(X) /\ S \in Seq(X) /\ A \in Seq(X) /\ B \in Seq(X)
  BY <1>2, <1>3, <1>4, <1>5, <1>6, <1>7
<1>9. q \in Seq(X)
  BY <1>8, FourJoined
<1>10. q = PacketsOf(b)
  BY DEF PacketsOf, R, S, A, B
<1> HIDE DEF q
<1>11. \A i \in 1 .. Len(q) : q[i] \in X
  BY <1>9, ElementOfSeq
<1> QED
  BY <1>10, <1>11 DEF X

\* w is x and y, and so the same of four parts.
Glued(w, x, y) ==
    /\ w \in Seq(Packets) /\ Len(w) = Len(x) + Len(y)
    /\ \A i \in 1 .. Len(x) : w[i] = x[i]
    /\ \A i \in 1 .. Len(y) : w[Len(x) + i] = y[i]

LEMMA GluedIs == \A x, y \in Seq(Packets) : Glued(x \o y, x, y)
  BY Joined DEF Glued

Quartered(w, s, t, u, v, T) ==
    OfType(w, T) = OfType(s, T) \o OfType(t, T) \o OfType(u, T) \o OfType(v, T)

LEMMA QuarteredIs ==
    \A s, t, u, v \in Seq(Packets) : \A T : Quartered(s \o t \o u \o v, s, t, u, v, T)
  BY OfTypeFour DEF Quartered

\* The packets of each type.
LEMMA PartsBack ==
    ASSUME NEW b, Gathered(b), b.report \in {"SR", "RR"}
    PROVE  LET q == PacketsOf(b)
           IN  /\ OfType(q, {SR, RR}) = ReportsOf(b) /\ OfType(q, {SDES}) = SDESOf(b)
               /\ OfType(q, {APP}) = b.apps /\ OfType(q, {BYE}) = b.byes
               /\ Len(OfType(q, {SR})) = IF IsSR(b) THEN 1 ELSE 0
<1> DEFINE R == ReportsOf(b)
           S == SDESOf(b)
           A == b.apps
           B == b.byes
           q == R \o S \o A \o B
<1>1. b.blocks \in Seq(Blocks) /\ b.ssrc \in ByteValues
  BY DEF Gathered
<1>2. R \in Seq(Packets) /\ S \in Seq(Packets) /\ A \in Seq(Packets) /\ B \in Seq(Packets)
      /\ Len(R) \in Nat /\ 1 <= Len(R)
  <2>1. LET n == ReportPackets(b) IN R \in Seq(Packets) /\ Len(R) = n /\ n \in Nat /\ 1 <= n
    BY <1>1, ReportsAre
  <2>2. S \in Seq(Packets)
    BY SourcesAre DEF Gathered
  <2>3. A \in Seq(Packets) /\ B \in Seq(Packets)
    BY DEF Gathered
  <2> HIDE DEF R, S
  <2> QED
    BY <2>1, <2>2, <2>3
<1>3. \A i \in 1 .. Len(R) : TypeOf(R[i]) = (IF i = 1 /\ IsSR(b) THEN SR ELSE RR)
  BY ReportAt
<1>4. \A i \in 1 .. Len(S) : TypeOf(S[i]) = SDES
  BY SourcesAt
<1>5. (\A i \in 1 .. Len(A) : TypeOf(A[i]) = APP) /\ \A i \in 1 .. Len(B) : TypeOf(B[i]) = BYE
  BY DEF Gathered
<1>6. q = PacketsOf(b)
  BY DEF PacketsOf
<1> DEFINE T(Y) == OfType(R, Y) \o OfType(S, Y) \o OfType(A, Y) \o OfType(B, Y)
<1> HIDE DEF R, S, A, B
<1>7. ASSUME NEW Y PROVE OfType(q, Y) = T(Y)
  <2>1. Quartered(q, R, S, A, B, Y)
    BY <1>2, QuarteredIs, Zenon
  <2> HIDE DEF q
  <2> QED
    BY <2>1, Zenon DEF Quartered
<1> HIDE DEF q
<1>8. <<>> \in Seq(Packets)
  OBVIOUS
<1>9. \A u \in Seq(Packets) : u \o <<>> = u /\ <<>> \o u = u
  BY ConcatEmptySeq
<1>10. OfType(q, {SR, RR}) = R
  <2>1. OfType(R, {SR, RR}) = R
    BY <1>2, <1>3, OfTypeAll
  <2>2. OfType(S, {SR, RR}) = <<>>
    BY <1>2, <1>4, OfTypeNone DEF SDES, SR, RR
  <2>3. OfType(A, {SR, RR}) = <<>>
    BY <1>2, <1>5, OfTypeNone DEF APP, SR, RR
  <2>4. OfType(B, {SR, RR}) = <<>>
    BY <1>2, <1>5, OfTypeNone DEF BYE, SR, RR
  <2>5. T({SR, RR}) = R
    BY <1>2, <1>9, <2>1, <2>2, <2>3, <2>4, ZenonT(60)
  <2> QED
    BY <1>7, <2>5
<1>11. OfType(q, {SDES}) = S
  <2>1. OfType(R, {SDES}) = <<>>
    BY <1>2, <1>3, OfTypeNone DEF SDES, SR, RR
  <2>2. OfType(S, {SDES}) = S
    BY <1>2, <1>4, OfTypeAll
  <2>3. OfType(A, {SDES}) = <<>>
    BY <1>2, <1>5, OfTypeNone DEF APP, SDES
  <2>4. OfType(B, {SDES}) = <<>>
    BY <1>2, <1>5, OfTypeNone DEF BYE, SDES
  <2>5. T({SDES}) = S
    BY <1>2, <1>9, <2>1, <2>2, <2>3, <2>4, ZenonT(60)
  <2> QED
    BY <1>7, <2>5
<1>12. OfType(q, {APP}) = A
  <2>1. OfType(R, {APP}) = <<>>
    BY <1>2, <1>3, OfTypeNone DEF APP, SR, RR
  <2>2. OfType(S, {APP}) = <<>>
    BY <1>2, <1>4, OfTypeNone DEF APP, SDES
  <2>3. OfType(A, {APP}) = A
    BY <1>2, <1>5, OfTypeAll
  <2>4. OfType(B, {APP}) = <<>>
    BY <1>2, <1>5, OfTypeNone DEF BYE, APP
  <2>5. T({APP}) = A
    BY <1>2, <1>8, <1>9, <2>1, <2>2, <2>3, <2>4, ZenonT(60)
  <2> QED
    BY <1>7, <2>5
<1>13. OfType(q, {BYE}) = B
  <2>1. OfType(R, {BYE}) = <<>>
    BY <1>2, <1>3, OfTypeNone DEF BYE, SR, RR
  <2>2. OfType(S, {BYE}) = <<>>
    BY <1>2, <1>4, OfTypeNone DEF BYE, SDES
  <2>3. OfType(A, {BYE}) = <<>>
    BY <1>2, <1>5, OfTypeNone DEF BYE, APP
  <2>4. OfType(B, {BYE}) = B
    BY <1>2, <1>5, OfTypeAll
  <2>5. T({BYE}) = B
    BY <1>2, <1>8, <1>9, <2>1, <2>2, <2>3, <2>4
  <2> QED
    BY <1>7, <2>5
<1>14. Len(OfType(q, {SR})) = IF IsSR(b) THEN 1 ELSE 0
  <2>1. OfType(S, {SR}) = <<>>
    BY <1>2, <1>4, OfTypeNone DEF SR, SDES
  <2>2. OfType(A, {SR}) = <<>>
    BY <1>2, <1>5, OfTypeNone DEF SR, APP
  <2>3. OfType(B, {SR}) = <<>>
    BY <1>2, <1>5, OfTypeNone DEF BYE, SR
  <2>4. CASE ~IsSR(b)
    <3>1. OfType(R, {SR}) = <<>>
      BY <1>2, <1>3, <2>4, OfTypeNone DEF SR, RR
    <3>2. T({SR}) = <<>>
      BY <1>8, <1>9, <2>1, <2>2, <2>3, <3>1
    <3> QED
      BY <1>7, <2>4, <3>2
  <2>5. CASE IsSR(b)
    <3> DEFINE h == <<R[1]>>
               t == SubSeq(R, 2, Len(R))
    <3>1. R[1] \in Packets /\ TypeOf(R[1]) = SR
      <4>1. 1 \in 1 .. Len(R)
        BY <1>2
      <4> QED
        BY <1>2, <1>3, <2>5, <4>1, ElementOfSeq
    <3>2. t \in Seq(Packets) /\ Len(t) = Len(R) - 1 /\ \A i \in 1 .. Len(t) : t[i] = R[i + 1]
      <4>1. /\ t \in Seq(Packets) /\ Len(t) = (IF 2 <= Len(R) THEN Len(R) - 2 + 1 ELSE 0)
            /\ \A i \in 1 .. Len(R) - 2 + 1 : t[i] = R[2 + i - 1]
        <5>1. 2 \in 1 .. Len(R) + 1 /\ Len(R) \in 1 .. Len(R)
          BY <1>2
        <5>2. \A i \in 2 .. Len(R) : R[i] \in Packets
          BY <1>2, ElementOfSeq
        <5> QED
          BY <1>2, <5>2, SubSeqProperties
      <4> HIDE DEF t
      <4>2. Len(t) = Len(R) - 1
        <5>1. PICK n \in Nat : n = Len(R) /\ 1 <= n
          BY <1>2
        <5>2. Len(t) = IF 2 <= n THEN n - 2 + 1 ELSE 0
          BY <4>1, <5>1
        <5>3. Len(t) = n - 1
          BY <5>1, <5>2
        <5> QED
          BY <5>1, <5>3
      <4>3. ASSUME NEW i \in 1 .. Len(t) PROVE t[i] = R[i + 1]
        <5>1. 2 + i - 1 = i + 1 /\ i \in 1 .. Len(R) - 2 + 1
          BY <1>2, <4>2
        <5> QED
          BY <4>1, <5>1
      <4> QED
        BY <4>1, <4>2, <4>3
    <3>3. h \in Seq(Packets) /\ Len(h) = 1 /\ h[1] = R[1]
      BY <3>1
    <3> HIDE DEF h, t
    <3>4. R = h \o t
      <4> DEFINE z == h \o t
      <4>1. /\ z \in Seq(Packets) /\ Len(z) = Len(h) + Len(t)
            /\ \A i \in 1 .. Len(h) : z[i] = h[i]
            /\ \A i \in 1 .. Len(t) : z[Len(h) + i] = t[i]
        <5>1. Glued(z, h, t)
          BY <3>2, <3>3, GluedIs, Zenon
        <5> HIDE DEF z
        <5> QED
          BY <5>1 DEF Glued
      <4> HIDE DEF z
      <4>2. Len(z) = Len(R)
        BY <1>2, <3>2, <3>3, <4>1
      <4>3. ASSUME NEW i \in 1 .. Len(R) PROVE R[i] = z[i]
        <5>1. CASE i = 1
          <6>1. 1 \in 1 .. Len(h)
            BY <3>3
          <6> QED
            BY <3>3, <4>1, <5>1, <6>1
        <5>2. CASE i # 1
          <6>1. PICK j \in 1 .. Len(t) : 1 + j = i /\ j + 1 = i
            <7>1. i - 1 \in 1 .. Len(t) /\ 1 + (i - 1) = i /\ (i - 1) + 1 = i
              BY <1>2, <3>2, <5>2
            <7> QED
              BY <7>1
          <6>2. z[1 + j] = t[j] /\ t[j] = R[j + 1]
            BY <3>2, <3>3, <4>1, <6>1
          <6> QED
            BY <6>1, <6>2
        <5> QED
          BY <5>1, <5>2
      <4>4. R = z
        BY <1>2, <4>1, <4>2, <4>3, SeqEqual
      <4> QED
        BY <4>4 DEF z
    <3>5. OfType(h, {SR}) = h
      <4>1. \A i \in 1 .. Len(h) : TypeOf(h[i]) \in {SR}
        BY <3>1, <3>3
      <4> QED
        BY <3>3, <4>1, OfTypeAll
    <3>6. OfType(t, {SR}) = <<>>
      <4>1. ASSUME NEW i \in 1 .. Len(t) PROVE TypeOf(t[i]) \notin {SR}
        <5>1. i + 1 \in 1 .. Len(R) /\ i + 1 # 1
          BY <1>2, <3>2
        <5>2. TypeOf(R[i + 1]) = RR
          BY <1>3, <5>1
        <5> QED
          BY <3>2, <5>2 DEF SR, RR
      <4> QED
        BY <3>2, <4>1, OfTypeNone
    <3>7. OfType(R, {SR}) = h
      <4>1. AddsUp(h \o t, h, t, {SR})
        BY <3>2, <3>3, OfTypeAdds, Zenon
      <4>2. AddsUp(R, h, t, {SR})
        BY <3>4, <4>1, Zenon
      <4> QED
        BY <1>9, <3>3, <3>5, <3>6, <4>2 DEF AddsUp
    <3>8. T({SR}) = h
      BY <1>9, <2>1, <2>2, <2>3, <3>3, <3>7
    <3> QED
      BY <1>7, <2>5, <3>3, <3>8
  <2> QED
    BY <2>4, <2>5
<1> QED
  BY <1>6, <1>10, <1>11, <1>12, <1>13, <1>14 DEF R, S, A, B

\* What is asked of a packet that was laid out of the builder b.
ReadAs(packet_, b) ==
    LET p == ParseData(packet_)
    IN  /\ Len(packet_) = Needed(b)
        /\ p.ok /\ \A i \in DOMAIN p.packets : KnownFormat(p.packets[i])
        /\ \A i \in DOMAIN p.packets :
              TypeOf(p.packets[i]) \in {SR, RR, SDES} => CountOf(p.packets[i]) <= MaxCount
        /\ Len(OfType(p.packets, {SR})) = IF IsSR(b) THEN 1 ELSE 0
        /\ FlattenSeq(BlocksOf(OfType(p.packets, {SR, RR}))) = AllSent(b.blocks)
        /\ FlattenSeq(ChunksOf(OfType(p.packets, {SDES}))) = b.sources
        /\ OfType(p.packets, {APP}) = b.apps /\ OfType(p.packets, {BYE}) = b.byes

LEMMA ReadBack ==
    ASSUME NEW b, Gathered(b), b.report \in {"SR", "RR"}
    PROVE  ReadAs(Layout(b), b) /\ Layout(b) \in Seq(ByteValues)
<1> DEFINE q == PacketsOf(b)
           w == Layout(b)
<1>1. /\ w \in Seq(ByteValues) /\ q \in Seq(Packets) /\ Len(w) = Needed(b)
      /\ ParseData(w) = [ok |-> TRUE, packets |-> q]
  BY LayoutIs
<1>2. /\ OfType(q, {SR, RR}) = ReportsOf(b) /\ OfType(q, {SDES}) = SDESOf(b)
      /\ OfType(q, {APP}) = b.apps /\ OfType(q, {BYE}) = b.byes
      /\ Len(OfType(q, {SR})) = IF IsSR(b) THEN 1 ELSE 0
  BY PartsBack
<1>3. \A i \in 1 .. Len(q) : Sound(q[i])
  BY AllSound
<1>4. FlattenSeq(BlocksOf(ReportsOf(b))) = AllSent(b.blocks)
  BY BlocksBack
<1>5. FlattenSeq(ChunksOf(SDESOf(b))) = b.sources
  BY ChunksBack
<1> HIDE DEF q, w
<1>6. ParseData(w).ok /\ ParseData(w).packets = q /\ DOMAIN q = 1 .. Len(q)
  BY <1>1, LenProperties
<1>7. ReadAs(w, b)
  BY <1>1, <1>2, <1>3, <1>4, <1>5, <1>6 DEF ReadAs, Sound
<1> QED
  BY <1>1, <1>7 DEF w
-----------------------------------------------------------------------------
(* The invariant of the builder.                                             *)

\* A builder as the calls leave it: its packets are well formed, and what its
\* sources need fits in the packet, but for the first source, which is not counted.
Fitting(b) ==
    /\ b \in Builders /\ b.sources \in Seq(ChunkSources)
    /\ SDESNeeds(b) <= b.maximum + 12 /\ b.maximum <= MaxPackSize
    /\ b.apps \in Seq(Packets)
    /\ \A i \in 1 .. Len(b.apps) : TypeOf(b.apps[i]) = APP /\ KnownAPP(b.apps[i])
    /\ b.byes \in Seq(Packets)
    /\ \A i \in 1 .. Len(b.byes) : TypeOf(b.byes[i]) = BYE /\ KnownBYE(b.byes[i])
    /\ ~b.building => b.sources = <<>>

LEMMA GivenFields ==
    ASSUME NEW b \in Builders
    PROVE  /\ b.building \in BOOLEAN /\ b.maximum \in Nat /\ b.report \in {"none", "SR", "RR"}
           /\ b.ssrc \in ByteValues /\ b.blocks \in Seq(Blocks) /\ b.packet \in Seq(ByteValues)
  BY DEF Builders, Blocks

\* What is counted is a natural number.
LEMMA NeedsAre ==
    ASSUME NEW b, Fitting(b)
    PROVE  /\ PacketsNeed(b) \in Nat /\ ReportNeeds(b) \in Nat /\ ChunksNeed(b.sources) \in Nat
           /\ SDESHeaders(Len(b.sources)) \in Nat
           /\ SDESNeeds(b) = ChunksNeed(b.sources) + SDESHeaders(Len(b.sources))
<1>1. b.apps \in Seq(Packets) /\ b.byes \in Seq(Packets) /\ b.sources \in Seq(ChunkSources)
      /\ b \in Builders
  BY DEF Fitting
<1>2. ASSUME NEW u \in Seq(Packets) PROVE TotalOf(Sizes(u)) \in Nat
  <2>1. u \in Seq(Seq(ByteValues))
    BY PacketsBytes
  <2>2. Sizes(u) \in Seq(Nat)
    BY <2>1, SizesAre
  <2>3. PICK g : Adds(g, Sizes(u))
    BY <2>2, AddsExists
  <2> QED
    BY <2>2, <2>3, TotalIs
<1>3. PacketsNeed(b) \in Nat
  <2>1. TotalOf(Sizes(b.apps)) \in Nat /\ TotalOf(Sizes(b.byes)) \in Nat
    BY <1>1, <1>2
  <2> QED
    BY <2>1 DEF PacketsNeed
<1>4. ASSUME NEW n \in Nat PROVE Ceil(n, MaxCount) \in Nat
  BY GroupEnds
<1>5. ReportNeeds(b) \in Nat
  <2>1. b.blocks \in Seq(Blocks)
    BY <1>1, GivenFields
  <2>2. Len(b.blocks) \in Nat
    BY <2>1, LenProperties
  <2> DEFINE n == Len(b.blocks)
             c == Ceil(n, MaxCount)
  <2>3. c \in Nat
    BY <1>4, <2>2
  <2>4. BlocksNeed(b, n) = n * 24 + c * 8 + IF IsSR(b) THEN 20 ELSE 0
    BY DEF BlocksNeed, ReceiverReport, Header, SSRC, SenderReport
  <2> HIDE DEF n, c
  <2>5. BlocksNeed(b, n) \in Nat
    <3>1. n \in Nat
      BY <2>2 DEF n
    <3> QED
      BY <2>3, <2>4, <3>1
  <2>6. Header + HeaderLength(b) \in Nat
    BY DEF Header, HeaderLength, SSRC, SenderReport
  <2> QED
    BY <2>5, <2>6 DEF ReportNeeds, n
<1>6. ChunksNeed(b.sources) \in Nat
  BY <1>1, CostsAre
<1>7. SDESHeaders(Len(b.sources)) \in Nat
  <2>1. Len(b.sources) \in Nat
    BY <1>1, LenProperties
  <2>2. Ceil(Len(b.sources), MaxCount) \in Nat
    BY <1>4, <2>1
  <2> QED
    BY <2>2 DEF SDESHeaders, Header
<1> QED
  BY <1>3, <1>5, <1>6, <1>7 DEF SDESNeeds

LEMMA GivenGathered ==
    ASSUME NEW b, Fitting(b)
    PROVE  Gathered(b)
<1>1. ChunksNeed(b.sources) + 4 <= 4 * Wide
  <2>1. b.maximum \in Nat /\ SDESNeeds(b) <= b.maximum + 12 /\ b.maximum <= MaxPackSize
    BY GivenFields DEF Fitting
  <2>2. /\ ChunksNeed(b.sources) \in Nat /\ SDESHeaders(Len(b.sources)) \in Nat
        /\ SDESNeeds(b) = ChunksNeed(b.sources) + SDESHeaders(Len(b.sources))
    BY NeedsAre
  <2> QED
    BY <2>1, <2>2, SMT DEF MaxPackSize, Wide
<1>2. b.ssrc \in ByteValues /\ b.blocks \in Seq(Blocks)
  BY GivenFields DEF Fitting
<1> QED
  BY <1>1, <1>2 DEF Fitting, Gathered
-----------------------------------------------------------------------------
(* Each call keeps it.                                                       *)

LEMMA NewGiven ==
    /\ Fitting(NewBuilder) /\ NewBuilder.packet = <<>>
    /\ \A n \in Nat, w \in Seq(ByteValues) :
          n <= MaxPackSize => Fitting([NewBuilder EXCEPT !.maximum = n, !.packet = w])
<1>1. ASSUME NEW n \in Nat, NEW w \in Seq(ByteValues), n <= MaxPackSize
      PROVE  Fitting([NewBuilder EXCEPT !.maximum = n, !.packet = w])
  <2> DEFINE c == [NewBuilder EXCEPT !.maximum = n, !.packet = w]
  <2>1. /\ c.building = FALSE /\ c.maximum = n /\ c.report = "none" /\ c.ssrc = 0
        /\ c.blocks = <<>> /\ c.sources = <<>> /\ c.apps = <<>> /\ c.byes = <<>> /\ c.packet = w
    BY DEF NewBuilder
  <2>2. c \in Builders
    <3>1. 0 \in ByteValues /\ FALSE \in BOOLEAN /\ "none" \in {"none", "SR", "RR"}
      BY DEF ByteValues
    <3>2. \A D : <<>> \in Seq(D)
      OBVIOUS
    <3>3. NewBuilder \in Builders
      BY <3>1, <3>2 DEF NewBuilder, Builders
    <3> QED
      BY <1>1, <3>3 DEF Builders
  <2> HIDE DEF c
  <2>3. SDESNeeds(c) = 0
    <3>1. <<>> \in Seq(Nat) /\ Len(<<>>) = 0
      OBVIOUS
    <3>2. ChunksNeed(<<>>) = 0
      <4>1. [i \in DOMAIN <<>> |-> ChunkNeeds(ItemsSize(<<>>[i]))] = <<>>
        OBVIOUS
      <4> QED
        BY <4>1, TotalNone DEF ChunksNeed
    <3>3. Ceil(0, MaxCount) = 0
      BY GroupEnds
    <3>4. SDESHeaders(0) = 0
      BY <3>3 DEF SDESHeaders, Header
    <3> QED
      BY <2>1, <3>1, <3>2, <3>4 DEF SDESNeeds
  <2>4. <<>> \in Seq(ChunkSources) /\ <<>> \in Seq(Packets) /\ Len(<<>>) = 0
    OBVIOUS
  <2>5. Fitting(c)
    BY <1>1, <2>1, <2>2, <2>3, <2>4 DEF Fitting
  <2> QED
    BY <2>5 DEF c
<1>2. NewBuilder = [NewBuilder EXCEPT !.maximum = 0, !.packet = <<>>] /\ NewBuilder.packet = <<>>
  <2>1. NewBuilder.packet = <<>> /\ NewBuilder.maximum = 0
    BY DEF NewBuilder
  <2>2. NewBuilder = [NewBuilder EXCEPT !.maximum = NewBuilder.maximum, !.packet = NewBuilder.packet]
    BY DEF NewBuilder
  <2> QED
    BY <2>1, <2>2
<1>3. 0 \in Nat /\ 0 <= MaxPackSize /\ <<>> \in Seq(ByteValues)
  BY DEF MaxPackSize
<1> QED
  BY <1>1, <1>2, <1>3

\* A call that leaves sources, APP and BYE packets alone.
LEMMA Untouched ==
    ASSUME NEW b, Fitting(b), NEW c \in Builders,
           c.sources = b.sources, c.apps = b.apps, c.byes = b.byes, c.maximum = b.maximum,
           b.building, c.building
    PROVE  Fitting(c)
<1>1. SDESNeeds(c) = SDESNeeds(b)
  BY DEF SDESNeeds
<1> QED
  BY <1>1 DEF Fitting

LEMMA InitGiven ==
    ASSUME NEW b, Fitting(b), NEW n \in Nat, n <= MaxPackSize, CanInitBuild(b, n)
    PROVE  Fitting(InitBuild(b, n)) /\ InitBuild(b, n).packet = b.packet
<1> DEFINE c == InitBuild(b, n)
<1>1. b \in Builders /\ b.sources = <<>>
  BY DEF Fitting, CanInitBuild
<1>2. /\ c \in Builders /\ c.building = TRUE /\ c.maximum = n /\ c.sources = b.sources
      /\ c.apps = b.apps /\ c.byes = b.byes /\ c.packet = b.packet
  BY <1>1 DEF InitBuild, Builders
<1> HIDE DEF c
<1>3. SDESNeeds(c) = SDESNeeds(NewBuilder) /\ NewBuilder.maximum = 0
  BY <1>1, <1>2 DEF SDESNeeds, NewBuilder
<1>4. SDESNeeds(NewBuilder) <= 0 + 12
  <2>1. Fitting(NewBuilder)
    BY NewGiven
  <2> QED
    BY <1>3, <2>1 DEF Fitting
<1>5. SDESNeeds(c) <= c.maximum + 12
  <2> DEFINE z == SDESNeeds(NewBuilder)
  <2>1. z \in Nat
    <3>1. Fitting(NewBuilder)
      BY NewGiven
    <3>2. LET x == ChunksNeed(NewBuilder.sources)
              y == SDESHeaders(Len(NewBuilder.sources))
          IN  x \in Nat /\ y \in Nat /\ z = x + y
      BY <3>1, NeedsAre
    <3> HIDE DEF z
    <3> QED
      BY <3>2
  <2> HIDE DEF z
  <2>2. z <= 0 + 12 /\ SDESNeeds(c) = z /\ c.maximum = n
    BY <1>2, <1>3, <1>4 DEF z
  <2> QED
    BY <2>1, <2>2
<1>6. Fitting(c)
  BY <1>2, <1>5 DEF Fitting
<1> QED
  BY <1>2, <1>6 DEF c

LEMMA StartGiven ==
    ASSUME NEW b, Fitting(b), b.building, NEW type \in {"SR", "RR"}, NEW s \in ByteValues
    PROVE  Fitting(StartReport(b, type, s)) /\ StartReport(b, type, s).packet = b.packet
<1> DEFINE c == StartReport(b, type, s)
<1>1. b \in Builders
  BY DEF Fitting
<1>2. /\ c \in Builders /\ c.building = b.building /\ c.maximum = b.maximum
      /\ c.sources = b.sources /\ c.apps = b.apps /\ c.byes = b.byes /\ c.packet = b.packet
  BY <1>1 DEF StartReport, Builders
<1> HIDE DEF c
<1>3. Fitting(c)
  BY <1>2, Untouched
<1> QED
  BY <1>2, <1>3 DEF c

LEMMA BlockGiven ==
    ASSUME NEW b, Fitting(b), b.building, NEW blk \in Blocks
    PROVE  Fitting(AddReportBlock(b, blk)) /\ AddReportBlock(b, blk).packet = b.packet
<1> DEFINE c == AddReportBlock(b, blk)
<1>1. b \in Builders /\ b.blocks \in Seq(Blocks)
  BY GivenFields DEF Fitting
<1>2. Append(b.blocks, blk) \in Seq(Blocks)
  BY <1>1, AppendProperties
<1>3. /\ c \in Builders /\ c.building = b.building /\ c.maximum = b.maximum
      /\ c.sources = b.sources /\ c.apps = b.apps /\ c.byes = b.byes /\ c.packet = b.packet
  BY <1>1, <1>2 DEF AddReportBlock, Builders, Blocks
<1> HIDE DEF c
<1>4. Fitting(c)
  BY <1>3, Untouched
<1> QED
  BY <1>3, <1>4 DEF c

\* One more source needs its chunk.
Lengthens(w, p, q) == ChunksNeed(w) = ChunksNeed(p) + ChunksNeed(q)

LEMMA NeedsJoined == \A p, q \in Seq(ChunkSources) : Lengthens(p \o q, p, q)
  BY NeedJoined DEF Lengthens

LEMMA NeedAppended ==
    ASSUME NEW q \in Seq(ChunkSources), NEW s \in ChunkSources
    PROVE  /\ Append(q, s) \in Seq(ChunkSources) /\ Len(Append(q, s)) = Len(q) + 1 /\ Len(q) \in Nat
           /\ ChunksNeed(Append(q, s)) = ChunksNeed(q) + ChunkNeeds(ItemsSize(s))
           /\ ChunksNeed(q) \in Nat /\ ChunkNeeds(ItemsSize(s)) \in Nat
<1> DEFINE w == Append(q, s)
           z == <<s>>
           n == ChunkNeeds(ItemsSize(s))
<1>1. w \in Seq(ChunkSources) /\ Len(w) = Len(q) + 1
  BY AppendProperties
<1>2. w = q \o z
  BY AppendIsConcat
<1> HIDE DEF w
<1>3. z \in Seq(ChunkSources) /\ Len(z) = 1 /\ z[1] = s
  OBVIOUS
<1>4. Lengthens(w, q, z)
  BY <1>2, <1>3, NeedsJoined, Zenon
<1> HIDE DEF z
<1>5. Costs(z) \in Seq(Nat) /\ Len(Costs(z)) = 1 /\ Costs(z)[1] = n /\ ChunksNeed(z) = TotalOf(Costs(z))
  <2>1. 1 \in 1 .. Len(z)
    BY <1>3
  <2> QED
    BY <1>3, <2>1, CostsAre
<1> HIDE DEF n
<1>6. Costs(z) = <<n>> /\ n \in Nat
  <2>1. n \in Nat
    BY <1>5, ElementOfSeq
  <2>2. <<n>> \in Seq(Nat) /\ Len(<<n>>) = 1 /\ <<n>>[1] = n
    BY <2>1
  <2> QED
    BY <1>5, <2>1, <2>2, SeqEqual
<1>7. ChunksNeed(z) = n
  BY <1>5, <1>6, TotalOne
<1>8. ChunksNeed(q) \in Nat /\ Len(q) \in Nat
  BY CostsAre
<1> QED
  BY <1>1, <1>4, <1>6, <1>7, <1>8 DEF Lengthens, w, n

LEMMA SourceGiven ==
    ASSUME NEW b, Fitting(b), NEW s \in ByteValues, CanAddSDESSource(b)
    PROVE  Fitting(AddSDESSource(b, s)) /\ AddSDESSource(b, s).packet = b.packet
<1> DEFINE c == AddSDESSource(b, s)
           q == b.sources
           new == [ssrc |-> s, items |-> <<>>]
           w == Append(q, new)
<1>1. b \in Builders /\ q \in Seq(ChunkSources) /\ b.building /\ b.maximum \in Nat
      /\ SDESNeeds(b) <= b.maximum + 12
      /\ PacketsNeed(b) + ReportNeeds(b) + SDESNeedsWithSource(b) <= b.maximum
  BY GivenFields DEF Fitting, CanAddSDESSource
<1>2. new \in ChunkSources /\ ItemsSize(new) = 0
  <2>1. Sizes(<<>>) = <<>>
    BY DEF Sizes
  <2>2. ItemsSize(new) = 0
    BY <2>1, TotalNone DEF ItemsSize
  <2> QED
    BY <2>2 DEF ChunkSources
<1>3. new \in [ssrc : ByteValues, items : Seq(Seq(ByteValues))]
  OBVIOUS
<1> HIDE DEF new
<1>4. ChunkNeeds(0) = 8
  BY DEF ChunkNeeds, RoundUp, Ceil, SSRC
<1>5. /\ w \in Seq(ChunkSources) /\ Len(w) = Len(q) + 1 /\ Len(q) \in Nat
      /\ ChunksNeed(w) = ChunksNeed(q) + 8 /\ ChunksNeed(q) \in Nat
  BY <1>1, <1>2, <1>4, NeedAppended
<1>6. w \in Seq([ssrc : ByteValues, items : Seq(Seq(ByteValues))])
  <2>1. q \in Seq([ssrc : ByteValues, items : Seq(Seq(ByteValues))])
    BY <1>1 DEF Builders
  <2> QED
    BY <1>3, <2>1, AppendProperties
<1>7. c = [b EXCEPT !.sources = w]
  BY DEF AddSDESSource, new
<1> HIDE DEF w, c
<1>8. /\ c \in Builders /\ c.building = b.building /\ c.maximum = b.maximum /\ c.sources = w
      /\ c.apps = b.apps /\ c.byes = b.byes /\ c.packet = b.packet
  BY <1>1, <1>6, <1>7 DEF Builders
<1>9. SDESNeeds(c) = ChunksNeed(w) + SDESHeaders(Len(q) + 1)
  BY <1>5, <1>8 DEF SDESNeeds
<1>10. SDESNeeds(c) <= c.maximum + 12
  <2>1. CASE q = <<>>
    <3>1. SDESNeeds(b) = ChunksNeed(q) + SDESHeaders(0)
      BY <2>1 DEF SDESNeeds
    <3>2. SDESHeaders(0 + 1) = 4
      <4>1. Ceil(0 + 1, MaxCount) = 1
        <5>1. PICK m \in Nat : m = MaxCount /\ m >= 1
          BY CompoundAssumption
        <5>2. (0 + 1 + m - 1) \div m = 1
          BY <5>1, SMT
        <5> QED
          BY <5>1, <5>2 DEF Ceil
      <4> QED
        BY <4>1 DEF SDESHeaders, Header
    <3>3. ChunksNeed(q) = 0
      <4>1. [i \in DOMAIN <<>> |-> ChunkNeeds(ItemsSize(<<>>[i]))] = <<>>
        OBVIOUS
      <4> QED
        BY <2>1, <4>1, TotalNone DEF ChunksNeed
    <3>4. Len(q) = 0
      BY <2>1
    <3> QED
      BY <1>1, <1>5, <1>8, <1>9, <3>2, <3>3, <3>4
  <2>2. CASE q # <<>>
    <3> DEFINE h == SDESHeaders(Len(q) + 1)
               x == PacketsNeed(b)
               y == ReportNeeds(b)
               z == ChunksNeed(q)
    <3>1. SDESNeedsWithSource(b) = z + 8 + h
      BY <2>2 DEF SDESNeedsWithSource, SSRC
    <3>2. x \in Nat /\ y \in Nat
      BY NeedsAre
    <3>3. h \in Nat
      <4>1. Len(q) + 1 \in Nat
        BY <1>5
      <4>2. Ceil(Len(q) + 1, MaxCount) \in Nat
        BY <4>1, GroupEnds
      <4> QED
        BY <4>2 DEF SDESHeaders, Header
    <3>4. x + y + (z + 8 + h) <= b.maximum
      BY <1>1, <3>1
    <3>5. SDESNeeds(c) = z + 8 + h /\ z \in Nat
      BY <1>5, <1>9
    <3> HIDE DEF h, x, y, z
    <3> QED
      BY <1>1, <1>8, <3>2, <3>3, <3>4, <3>5
  <2> QED
    BY <2>1, <2>2
<1>11. Fitting(c)
  BY <1>1, <1>5, <1>8, <1>10 DEF Fitting
<1> QED
  BY <1>8, <1>11 DEF c

\* What the builder makes an item of.
LEMMA ItemMade ==
    ASSUME NEW head \in Seq(ByteValues), NEW fill \in ByteValues, NEW l \in Nat, NEW n \in ByteValues,
           Len(head) >= 2, head[1] # 0, head[2] = n, Len(head) + l = 2 + n
    PROVE  head \o Fill(fill, l) \in WellMade /\ Len(head \o Fill(fill, l)) = 2 + n
<1> DEFINE t == Fill(fill, l)
           w == head \o t
<1>1. t \in Seq(ByteValues) /\ Len(t) = l
  BY DEF Fill
<1> HIDE DEF t
<1>2. /\ w \in Seq(ByteValues) /\ Len(w) = Len(head) + Len(t) /\ Len(head) \in Nat
      /\ \A i \in 1 .. Len(head) : w[i] = head[i]
  BY <1>1, Joined, ZenonT(60)
<1> HIDE DEF w
<1>3. w[1] = head[1] /\ w[2] = n /\ n \in Nat
  <2>1. 1 \in 1 .. Len(head) /\ 2 \in 1 .. Len(head)
    BY <1>2
  <2> QED
    BY <1>2, <2>1 DEF ByteValues
<1>4. Len(w) = 2 + n
  BY <1>1, <1>2
<1>5. w \in WellMade
  BY <1>2, <1>3, <1>4 DEF WellMade, WellSized
<1> QED
  BY <1>4, <1>5 DEF w, t

LEMMA ItemGiven ==
    ASSUME NEW b, Fitting(b), NEW n \in ByteValues, CanAddItem(b, n),
           NEW item \in WellMade, Len(item) = 2 + n
    PROVE  /\ Fitting(AddItem(b, item)) /\ AddItem(b, item).packet = b.packet
           /\ SDESNeeds(AddItem(b, item)) = SDESNeedsWithItem(b, n)
<1> DEFINE c == AddItem(b, item)
           q == b.sources
           p == Front(q)
           l == Last(q)
           new == [l EXCEPT !.items = Append(@, item)]
           w == Append(p, new)
           S == [ssrc : ByteValues, items : Seq(Seq(ByteValues))]
<1>1. b \in Builders /\ q \in Seq(ChunkSources) /\ b.building /\ b.maximum \in Nat /\ q # <<>>
      /\ PacketsNeed(b) + ReportNeeds(b) + SDESNeedsWithItem(b, n) <= b.maximum
  BY GivenFields DEF Fitting, CanAddItem
<1>2. Len(q) \in Nat /\ Len(q) >= 1 /\ \A i \in 1 .. Len(q) : q[i] \in ChunkSources
  <2>1. Len(q) \in Nat /\ \A i \in 1 .. Len(q) : q[i] \in ChunkSources
    BY <1>1, LenProperties, ElementOfSeq
  <2>2. Len(q) # 0
    BY <1>1, EmptySeq
  <2> QED
    BY <2>1, <2>2
<1>3. l \in ChunkSources /\ l = q[Len(q)]
  BY <1>2 DEF Last
<1>4. /\ p \in Seq(ChunkSources) /\ Len(p) = Len(q) - 1
      /\ \A i \in 1 .. Len(p) : p[i] = q[i]
  <2>1. PICK m \in Nat : m = Len(q) /\ 1 <= m
    BY <1>2
  <2>2. p = SubSeq(q, 1, m - 1)
    BY <2>1 DEF Front
  <2>3. \A i \in 1 .. m - 1 : q[i] \in ChunkSources
    BY <1>2, <2>1
  <2>4. /\ SubSeq(q, 1, m - 1) \in Seq(ChunkSources)
        /\ Len(SubSeq(q, 1, m - 1)) = IF 1 <= m - 1 THEN m - 1 - 1 + 1 ELSE 0
        /\ \A i \in 1 .. m - 1 - 1 + 1 : SubSeq(q, 1, m - 1)[i] = q[1 + i - 1]
    BY <2>1, <2>3, SubSeqProperties
  <2> HIDE DEF p
  <2>5. Len(p) = m - 1
    BY <2>1, <2>2, <2>4
  <2>6. ASSUME NEW i \in 1 .. Len(p) PROVE p[i] = q[i]
    <3>1. 1 + i - 1 = i /\ i \in 1 .. m - 1 - 1 + 1
      BY <2>1, <2>5
    <3> QED
      BY <2>2, <2>4, <3>1
  <2> QED
    BY <2>1, <2>2, <2>4, <2>5, <2>6
<1>5. l.items \in Seq(WellMade) /\ l.ssrc \in ByteValues
  BY <1>3 DEF ChunkSources
<1>6. /\ new \in ChunkSources /\ new.items = Append(l.items, item) /\ new.ssrc = l.ssrc
  <2>1. Append(l.items, item) \in Seq(WellMade)
    BY <1>5, AppendProperties
  <2> QED
    BY <1>3, <2>1 DEF ChunkSources
<1> HIDE DEF p, l, new
<1>7. ItemsSize(new) = ItemsSize(l) + (2 + n) /\ ItemsSize(l) \in Nat
  <2> DEFINE s == l.items
             z == <<item>>
             t == s \o z
             x == Sizes(s)
             y == Sizes(z)
  <2>1. s \in Seq(Seq(ByteValues)) /\ z \in Seq(Seq(ByteValues))
    <3>1. z \in Seq(WellMade)
      OBVIOUS
    <3> QED
      BY <1>5, <3>1, WellMadeIs
  <2>2. new.items = t
    BY <1>5, <1>6, AppendIsConcat
  <2>3. Len(z) = 1 /\ z[1] = item
    OBVIOUS
  <2> HIDE DEF s, z
  <2>4. Sizes(t) = x \o y
    BY <2>1, SizesJoined
  <2>5. x \in Seq(Nat) /\ y \in Seq(Nat) /\ Len(y) = 1 /\ y[1] = 2 + n
    <3>1. 1 \in 1 .. Len(z)
      BY <2>3
    <3>2. y[1] = Len(z[1])
      BY <2>1, <3>1, SizesAre
    <3> QED
      BY <2>1, <2>3, <3>2, SizesAre
  <2> HIDE DEF t, x, y
  <2>6. TotalOf(x \o y) = TotalOf(x) + TotalOf(y)
    BY <2>5, TotalJoined
  <2>7. TotalOf(y) = 2 + n
    <3>1. 2 + n \in Nat
      BY DEF ByteValues
    <3> DEFINE m == 2 + n
    <3> HIDE DEF m
    <3>2. <<m>> \in Seq(Nat) /\ Len(<<m>>) = 1 /\ <<m>>[1] = m
      BY <3>1 DEF m
    <3>3. y = <<m>>
      <4>1. y[1] = m
        BY <2>5 DEF m
      <4> QED
        BY <2>5, <3>2, <4>1, SeqEqual
    <3>4. TotalOf(<<m>>) = m
      BY <3>1, TotalOne DEF m
    <3> QED
      BY <3>3, <3>4 DEF m
  <2>8. TotalOf(x) \in Nat
    <3>1. PICK g : Adds(g, x)
      BY <2>5, AddsExists
    <3> QED
      BY <2>5, <3>1, TotalIs
  <2> QED
    BY <2>2, <2>4, <2>6, <2>7, <2>8 DEF ItemsSize, x, s
<1>8. /\ w \in Seq(ChunkSources) /\ Len(w) = Len(p) + 1 /\ Len(p) \in Nat
      /\ ChunksNeed(w) = ChunksNeed(p) + ChunkNeeds(ItemsSize(new))
      /\ ChunksNeed(p) \in Nat /\ ChunkNeeds(ItemsSize(new)) \in Nat
  BY <1>4, <1>6, NeedAppended
<1>9. Len(w) = Len(q)
  BY <1>2, <1>4, <1>8
<1>10. \A i \in 1 .. Len(p) : w[i] = p[i]
  BY <1>4, <1>6, AppendProperties
<1>11. w[Len(p) + 1] = new
  BY <1>4, <1>6, AppendProperties
<1> DEFINE v == [q EXCEPT ![Len(q)].items = Append(@, item)]
<1>12. v \in Seq(ChunkSources) /\ Len(v) = Len(q)
       /\ \A i \in 1 .. Len(q) : v[i] = IF i = Len(q) THEN new ELSE q[i]
  <2>1. /\ DOMAIN q = 1 .. Len(q) /\ q = [i \in 1 .. Len(q) |-> q[i]]
    BY <1>1, LenProperties
  <2>2. v = [i \in 1 .. Len(q) |-> IF i = Len(q) THEN new ELSE q[i]]
    BY <1>3, <2>1 DEF new
  <2>3. \A i \in 1 .. Len(q) : (IF i = Len(q) THEN new ELSE q[i]) \in ChunkSources
    BY <1>2, <1>6
  <2> HIDE DEF v
  <2> QED
    BY <1>2, <2>2, <2>3
<1> HIDE DEF v, w
<1>13. v = w
  <2>1. ASSUME NEW i \in 1 .. Len(q) PROVE v[i] = w[i]
    <3>1. CASE i = Len(q)
      BY <1>2, <1>4, <1>11, <1>12, <3>1
    <3>2. CASE i # Len(q)
      <4>1. i \in 1 .. Len(p)
        BY <1>2, <1>4, <3>2
      <4> QED
        BY <1>4, <1>10, <1>12, <3>2, <4>1
    <3> QED
      BY <3>1, <3>2
  <2> QED
    BY <1>8, <1>9, <1>12, <2>1, SeqEqual
<1>14. ChunkSources \subseteq S
  BY WellMadeIs DEF ChunkSources
<1>15. w \in Seq(S)
  BY <1>8, <1>14, SeqMonotonic
<1>16. c = [b EXCEPT !.sources = w]
  <2>1. c = [b EXCEPT !.sources = v]
    BY <1>1 DEF AddItem, v, Builders
  <2> QED
    BY <1>13, <2>1
<1> HIDE DEF c
<1>17. /\ c \in Builders /\ c.building = b.building /\ c.maximum = b.maximum /\ c.sources = w
       /\ c.apps = b.apps /\ c.byes = b.byes /\ c.packet = b.packet
  BY <1>1, <1>15, <1>16 DEF Builders
<1>18. SDESNeeds(c) = SDESNeedsWithItem(b, n)
  <2> DEFINE h == SDESHeaders(Len(q))
             k == ItemsSize(l)
  <2>1. SDESNeeds(c) = ChunksNeed(p) + ChunkNeeds(k + (2 + n)) + h
    BY <1>7, <1>8, <1>9, <1>17 DEF SDESNeeds
  <2>2. SDESNeedsWithItem(b, n) = ChunksNeed(p) + ChunkNeeds(k + 2 + n) + h
    BY DEF SDESNeedsWithItem, SDESHeader, p, l
  <2>3. k + (2 + n) = k + 2 + n
    BY <1>7 DEF ByteValues
  <2> HIDE DEF h, k
  <2> QED
    BY <2>1, <2>2, <2>3
<1>19. SDESNeeds(c) <= c.maximum + 12
  <2> DEFINE x == PacketsNeed(b)
             y == ReportNeeds(b)
             z == SDESNeedsWithItem(b, n)
             h == SDESHeaders(Len(q))
             u == ChunkNeeds(ItemsSize(new))
  <2>1. x \in Nat /\ y \in Nat /\ h \in Nat
    BY NeedsAre
  <2>2. z = ChunksNeed(p) + u + h
    BY <1>8, <1>9, <1>17, <1>18 DEF SDESNeeds
  <2>3. x + y + z <= b.maximum
    BY <1>1
  <2> HIDE DEF x, y, z, h
  <2>4. z \in Nat
    BY <1>8, <2>1, <2>2
  <2> QED
    BY <1>1, <1>17, <1>18, <2>1, <2>3, <2>4 DEF z
<1>20. Fitting(c)
  BY <1>1, <1>8, <1>17, <1>19 DEF Fitting
<1> QED
  BY <1>17, <1>18, <1>20 DEF c

LEMMA AppGiven ==
    ASSUME NEW b, Fitting(b), NEW subtype \in Nat, NEW s \in ByteValues, NEW n \in Nat,
           CanAddAPPPacket(b, subtype, n)
    PROVE  Fitting(AddAPPPacket(b, subtype, s, n)) /\ AddAPPPacket(b, subtype, s, n).packet = b.packet
<1> DEFINE c == AddAPPPacket(b, subtype, s, n)
           p == AppBytes(subtype, s, n)
           q == b.apps
           w == Append(q, p)
<1>1. b \in Builders /\ q \in Seq(Packets) /\ b.building
  BY DEF Fitting, CanAddAPPPacket, CanAddPacket
<1>2. subtype <= 31 /\ n % 4 = 0 /\ 12 + n <= 4 * Wide
  <2>1. subtype <= 31 /\ n % 4 = 0 /\ n \div 4 + 2 <= 65535
    BY SMT DEF CanAddAPPPacket
  <2>2. 12 + n <= 4 * 65536
    BY <2>1, SMT
  <2> QED
    BY <2>1, <2>2, SMT DEF Wide
<1>3. p \in Packets /\ TypeOf(p) = APP /\ KnownAPP(p)
  BY <1>2, AppIs
<1>4. c = [b EXCEPT !.apps = w]
  BY DEF AddAPPPacket
<1> HIDE DEF p, c
<1>5. /\ w \in Seq(Packets) /\ Len(w) = Len(q) + 1 /\ Len(q) \in Nat
      /\ \A i \in 1 .. Len(q) : w[i] = q[i]
      /\ w[Len(q) + 1] = p
  BY <1>1, <1>3, AppendProperties, LenProperties
<1> HIDE DEF w
<1>6. /\ c \in Builders /\ c.building = b.building /\ c.maximum = b.maximum
      /\ c.sources = b.sources /\ c.apps = w /\ c.byes = b.byes /\ c.packet = b.packet
  <2>1. w \in Seq(Seq(ByteValues))
    BY <1>5, PacketsBytes
  <2> QED
    BY <1>1, <1>4, <2>1 DEF Builders
<1>7. ASSUME NEW i \in 1 .. Len(w) PROVE TypeOf(w[i]) = APP /\ KnownAPP(w[i])
  <2>1. CASE i = Len(q) + 1
    BY <1>3, <1>5, <2>1
  <2>2. CASE i # Len(q) + 1
    <3>1. i \in 1 .. Len(q)
      BY <1>5, <2>2
    <3> QED
      BY <1>5, <3>1 DEF Fitting
  <2> QED
    BY <2>1, <2>2
<1>8. SDESNeeds(c) = SDESNeeds(b)
  BY <1>6 DEF SDESNeeds
<1>9. Fitting(c)
  BY <1>1, <1>5, <1>6, <1>7, <1>8 DEF Fitting
<1> QED
  BY <1>6, <1>9 DEF c

LEMMA ByeGiven ==
    ASSUME NEW b, Fitting(b), NEW ssrcs \in Seq(ByteValues), NEW n \in ByteValues,
           CanAddBYEPacket(b, ssrcs, n)
    PROVE  Fitting(AddBYEPacket(b, ssrcs, n)) /\ AddBYEPacket(b, ssrcs, n).packet = b.packet
<1> DEFINE c == AddBYEPacket(b, ssrcs, n)
           p == ByeBytes(ssrcs, n)
           q == b.byes
           w == Append(q, p)
<1>1. b \in Builders /\ q \in Seq(Packets) /\ b.building /\ Len(ssrcs) <= 31
  BY DEF Fitting, CanAddBYEPacket, CanAddPacket
<1>2. p \in Packets /\ TypeOf(p) = BYE /\ KnownBYE(p)
  BY <1>1, ByeIs
<1>3. c = [b EXCEPT !.byes = w]
  BY DEF AddBYEPacket
<1> HIDE DEF p, c
<1>4. /\ w \in Seq(Packets) /\ Len(w) = Len(q) + 1 /\ Len(q) \in Nat
      /\ \A i \in 1 .. Len(q) : w[i] = q[i]
      /\ w[Len(q) + 1] = p
  BY <1>1, <1>2, AppendProperties, LenProperties
<1> HIDE DEF w
<1>5. /\ c \in Builders /\ c.building = b.building /\ c.maximum = b.maximum
      /\ c.sources = b.sources /\ c.apps = b.apps /\ c.byes = w /\ c.packet = b.packet
  <2>1. w \in Seq(Seq(ByteValues))
    BY <1>4, PacketsBytes
  <2> QED
    BY <1>1, <1>3, <2>1 DEF Builders
<1>6. ASSUME NEW i \in 1 .. Len(w) PROVE TypeOf(w[i]) = BYE /\ KnownBYE(w[i])
  <2>1. CASE i = Len(q) + 1
    BY <1>2, <1>4, <2>1
  <2>2. CASE i # Len(q) + 1
    <3>1. i \in 1 .. Len(q)
      BY <1>4, <2>2
    <3> QED
      BY <1>4, <3>1 DEF Fitting
  <2> QED
    BY <2>1, <2>2
<1>7. SDESNeeds(c) = SDESNeeds(b)
  BY <1>5 DEF SDESNeeds
<1>8. Fitting(c)
  BY <1>1, <1>4, <1>5, <1>6, <1>7 DEF Fitting
<1> QED
  BY <1>5, <1>8 DEF c

\* head and l bytes of filler are an item of n bytes.
Heads(head, fill, l, n) ==
    /\ head \in Seq(ByteValues) /\ fill \in ByteValues /\ l \in Nat /\ n \in ByteValues
    /\ Len(head) >= 2 /\ head[1] # 0 /\ head[2] = n /\ Len(head) + l = 2 + n
IsItem(w, n) == w \in WellMade /\ Len(w) = 2 + n

LEMMA HeadsItem ==
    \A head, fill, l, n : Heads(head, fill, l, n) => IsItem(head \o Fill(fill, l), n)
  BY ItemMade DEF Heads, IsItem

LEMMA NormalGiven ==
    ASSUME NEW b, Fitting(b), NEW id \in 1 .. 7, NEW n \in ByteValues, CanAddSDESNormalItem(b, n)
    PROVE  /\ Fitting(AddSDESNormalItem(b, id, n))
           /\ AddSDESNormalItem(b, id, n).packet = b.packet
           /\ SDESNeeds(AddSDESNormalItem(b, id, n)) = SDESNeedsWithItem(b, n)
<1> DEFINE head == <<id, n>>
           item == head \o Fill(id, n)
<1>1. head \in Seq(ByteValues) /\ Len(head) = 2 /\ head[1] = id /\ head[2] = n /\ id # 0
      /\ id \in ByteValues /\ n \in Nat
  BY DEF ByteValues
<1> HIDE DEF head
<1>2. item \in WellMade /\ Len(item) = 2 + n
  <2>1. Heads(head, id, n, n)
    BY <1>1 DEF Heads
  <2>2. IsItem(item, n)
    BY <2>1, HeadsItem, Zenon
  <2> HIDE DEF item
  <2> QED
    BY <2>2 DEF IsItem
<1>3. CanAddItem(b, n)
  BY DEF CanAddSDESNormalItem
<1>4. AddSDESNormalItem(b, id, n) = AddItem(b, item)
  BY DEF AddSDESNormalItem, head
<1> HIDE DEF item
<1> QED
  BY <1>2, <1>3, <1>4, ItemGiven

LEMMA PrivateGiven ==
    ASSUME NEW b, Fitting(b), NEW prefix \in ByteValues, NEW value \in ByteValues,
           CanAddSDESPrivateItem(b, prefix, value)
    PROVE  /\ Fitting(AddSDESPrivateItem(b, prefix, value))
           /\ AddSDESPrivateItem(b, prefix, value).packet = b.packet
<1> DEFINE n == PrivateLength(prefix, value)
           head == <<PRIV, n, prefix>>
           item == head \o Fill(PRIV, prefix + value)
<1>1. n = prefix + 1 + value /\ prefix \in Nat /\ value \in Nat /\ prefix + value \in Nat
  BY DEF PrivateLength, ByteValues
<1>2. n \in ByteValues /\ CanAddItem(b, n)
  <2>1. n <= 255
    <3>1. n <= MaxItem /\ MaxItem \in 1 .. 255
      BY CompoundAssumption DEF CanAddSDESPrivateItem
    <3> QED
      BY <1>1, <3>1
  <2> QED
    BY <1>1, <2>1 DEF CanAddSDESPrivateItem, ByteValues
<1> HIDE DEF n
<1>3. head \in Seq(ByteValues) /\ Len(head) = 3 /\ head[1] = 8 /\ head[2] = n /\ PRIV \in ByteValues
  BY <1>2 DEF ByteValues, PRIV
<1> HIDE DEF head
<1>4. item \in WellMade /\ Len(item) = 2 + n
  <2>1. Len(head) + (prefix + value) = 2 + n
    BY <1>1, <1>3
  <2>2. Heads(head, PRIV, prefix + value, n)
    BY <1>1, <1>2, <1>3, <2>1 DEF Heads
  <2>3. IsItem(item, n)
    BY <2>2, HeadsItem, Zenon
  <2> HIDE DEF item
  <2> QED
    BY <2>3 DEF IsItem
<1>5. AddSDESPrivateItem(b, prefix, value) = AddItem(b, item)
  BY DEF AddSDESPrivateItem, head, n
<1> HIDE DEF item
<1> QED
  BY <1>2, <1>4, <1>5, ItemGiven
-----------------------------------------------------------------------------
\* The builder fits, and a finished packet is laid out of what was asked.
Laying ==
    /\ Fitting(builder) /\ asked \in Builders /\ received \in Seq(ByteValues)
    /\ builder.packet # <<>> =>
          /\ ~builder.building
          /\ Fitting(asked) /\ asked.report # "none" /\ builder.packet = Layout(asked)

\* A call that leaves the packet as it is.
LEMMA CallKeeps ==
    ASSUME Laying, NEW can, NEW b, Call(can, b), Fitting(b), b.packet = builder.packet,
           builder.packet = <<>>
    PROVE  Laying'
  BY DEF Laying, Call, Fitting, Builders, Layout

LEMMA NotYet ==
    ASSUME Laying, builder.building
    PROVE  builder.packet = <<>>
  BY DEF Laying

LEMMA LayingInit == BuilderInit => Laying
<1> SUFFICES ASSUME BuilderInit PROVE Laying
  OBVIOUS
<1>1. Fitting(NewBuilder) /\ NewBuilder.packet = <<>>
  BY NewGiven
<1>2. builder = NewBuilder /\ asked = NewBuilder /\ received = <<>>
  BY DEF BuilderInit
<1>3. received \in Seq(ByteValues)
  BY <1>2
<1> QED
  BY <1>1, <1>2, <1>3 DEF Laying, Fitting

LEMMA LayingEnd ==
    ASSUME Laying, CallEndBuild
    PROVE  Laying'
<1> DEFINE w == Layout(builder)
           c == [NewBuilder EXCEPT !.maximum = builder.maximum, !.packet = w]
<1>1. Fitting(builder) /\ builder.building /\ builder.report # "none" /\ received \in Seq(ByteValues)
  BY DEF Laying, CallEndBuild, CanEndBuild
<1>2. /\ builder \in Builders /\ builder.maximum \in Nat /\ builder.maximum <= MaxPackSize
      /\ builder.report \in {"SR", "RR"}
  BY <1>1, GivenFields DEF Fitting
<1>3. w \in Seq(ByteValues)
  BY <1>1, <1>2, GivenGathered, ReadBack
<1>4. builder' = c /\ asked' = builder /\ received' = received
  BY DEF CallEndBuild, EndBuild
<1> HIDE DEF w
<1>5. Fitting(c)
  BY <1>2, <1>3, NewGiven
<1>6. c.packet = w /\ c.building = FALSE
  BY DEF NewBuilder
<1> HIDE DEF c
<1>7. /\ Fitting(c) /\ builder \in Builders /\ received \in Seq(ByteValues) /\ ~c.building
      /\ Fitting(builder) /\ builder.report # "none" /\ c.packet = Layout(builder)
  BY <1>1, <1>2, <1>5, <1>6 DEF w
<1> QED
  BY <1>4, <1>7 DEF Laying, Fitting, Builders, Layout

LEMMA LayingStep == Laying /\ [BuilderNext]_packetVars => Laying'
<1> SUFFICES ASSUME Laying, [BuilderNext]_packetVars PROVE Laying'
  OBVIOUS
<1>1. Fitting(builder)
  BY DEF Laying
<1>2. CASE UNCHANGED packetVars
  BY <1>2 DEF packetVars, Laying
<1>3. CASE BuilderNext
  <2>1. CASE \E n \in Nat : n <= MaxPackSize /\ CallInitBuild(n)
    <3>1. PICK n \in Nat : n <= MaxPackSize /\ CallInitBuild(n)
      BY <2>1
    <3>2. CanInitBuild(builder, n) /\ Call(CanInitBuild(builder, n), InitBuild(builder, n))
      BY <3>1 DEF CallInitBuild, Call
    <3>3. builder.packet = <<>>
      BY <3>2 DEF CanInitBuild
    <3>4. Fitting(InitBuild(builder, n)) /\ InitBuild(builder, n).packet = builder.packet
      BY <1>1, <3>1, <3>2, InitGiven
    <3> QED
      BY <3>2, <3>3, <3>4, CallKeeps
  <2>2. CASE \E s \in ByteValues : CallStartReport(s) \/ CallAddSDESSource(s)
    <3>1. PICK s \in ByteValues : CallStartReport(s) \/ CallAddSDESSource(s)
      BY <2>2
    <3>2. CASE CallStartReport(s)
      <4>1. PICK type \in {"SR", "RR"} :
                \E can \in BOOLEAN : can /\ Call(can, StartReport(builder, type, s)) /\ builder.building
        BY <3>2 DEF CallStartReport, Call, CanStartSenderReport, CanStartReceiverReport, CanStart
      <4>2. PICK can \in BOOLEAN : can /\ Call(can, StartReport(builder, type, s)) /\ builder.building
        BY <4>1
      <4>3. /\ Fitting(StartReport(builder, type, s))
            /\ StartReport(builder, type, s).packet = builder.packet
        BY <1>1, <4>2, StartGiven
      <4> QED
        BY <4>2, <4>3, NotYet, CallKeeps
    <3>3. CASE CallAddSDESSource(s)
      <4>1. /\ CanAddSDESSource(builder)
            /\ Call(CanAddSDESSource(builder), AddSDESSource(builder, s)) /\ builder.building
        BY <3>3 DEF CallAddSDESSource, Call, CanAddSDESSource
      <4>2. Fitting(AddSDESSource(builder, s)) /\ AddSDESSource(builder, s).packet = builder.packet
        BY <1>1, <4>1, SourceGiven
      <4> QED
        BY <4>1, <4>2, NotYet, CallKeeps
    <3> QED
      BY <3>1, <3>2, <3>3
  <2>3. CASE \E s \in ByteValues : \E lost \in Int : CallAddReportBlock([ssrc |-> s, lost |-> lost])
    <3>1. PICK s \in ByteValues, lost \in Int : CallAddReportBlock([ssrc |-> s, lost |-> lost])
      BY <2>3
    <3> DEFINE blk == [ssrc |-> s, lost |-> lost]
    <3>2. blk \in Blocks
      BY DEF Blocks
    <3>3. CallAddReportBlock(blk)
      BY <3>1
    <3> HIDE DEF blk
    <3>4. /\ Call(CanAddReportBlock(builder), AddReportBlock(builder, blk)) /\ builder.building
      BY <3>3 DEF CallAddReportBlock, Call, CanAddReportBlock
    <3>5. Fitting(AddReportBlock(builder, blk)) /\ AddReportBlock(builder, blk).packet = builder.packet
      BY <1>1, <3>2, <3>4, BlockGiven
    <3> QED
      BY <3>4, <3>5, NotYet, CallKeeps
  <2>4. CASE \E s \in ByteValues : \E subtype \in Nat, n \in Nat : CallAddAPPPacket(subtype, s, n)
    <3>1. PICK s \in ByteValues, subtype \in Nat, n \in Nat : CallAddAPPPacket(subtype, s, n)
      BY <2>4
    <3>2. /\ CanAddAPPPacket(builder, subtype, n) /\ builder.building
          /\ Call(CanAddAPPPacket(builder, subtype, n), AddAPPPacket(builder, subtype, s, n))
      BY <3>1, SMT DEF CallAddAPPPacket, Call, CanAddAPPPacket, CanAddPacket
    <3>3. /\ Fitting(AddAPPPacket(builder, subtype, s, n))
          /\ AddAPPPacket(builder, subtype, s, n).packet = builder.packet
      BY <1>1, <3>2, AppGiven
    <3> QED
      BY <3>2, <3>3, NotYet, CallKeeps
  <2>5. CASE \E id \in 1 .. 7, n \in ByteValues : CallAddNormalItem(id, n)
    <3>1. PICK id \in 1 .. 7, n \in ByteValues : CallAddNormalItem(id, n)
      BY <2>5
    <3>2. /\ CanAddSDESNormalItem(builder, n) /\ builder.building
          /\ Call(CanAddSDESNormalItem(builder, n), AddSDESNormalItem(builder, id, n))
      BY <3>1 DEF CallAddNormalItem, Call, CanAddSDESNormalItem, CanAddItem
    <3>3. /\ Fitting(AddSDESNormalItem(builder, id, n))
          /\ AddSDESNormalItem(builder, id, n).packet = builder.packet
      BY <1>1, <3>2, NormalGiven
    <3> QED
      BY <3>2, <3>3, NotYet, CallKeeps
  <2>6. CASE \E prefix \in ByteValues, value \in ByteValues : CallAddPrivateItem(prefix, value)
    <3>1. PICK prefix \in ByteValues, value \in ByteValues : CallAddPrivateItem(prefix, value)
      BY <2>6
    <3>2. /\ CanAddSDESPrivateItem(builder, prefix, value) /\ builder.building
          /\ Call(CanAddSDESPrivateItem(builder, prefix, value),
                  AddSDESPrivateItem(builder, prefix, value))
      BY <3>1 DEF CallAddPrivateItem, Call, CanAddSDESPrivateItem, CanAddItem
    <3>3. /\ Fitting(AddSDESPrivateItem(builder, prefix, value))
          /\ AddSDESPrivateItem(builder, prefix, value).packet = builder.packet
      BY <1>1, <3>2, PrivateGiven
    <3> QED
      BY <3>2, <3>3, NotYet, CallKeeps
  <2>7. CASE \E ssrcs \in Seq(ByteValues), n \in ByteValues : CallAddBYEPacket(ssrcs, n)
    <3>1. PICK ssrcs \in Seq(ByteValues), n \in ByteValues : CallAddBYEPacket(ssrcs, n)
      BY <2>7
    <3>2. /\ CanAddBYEPacket(builder, ssrcs, n) /\ builder.building
          /\ Call(CanAddBYEPacket(builder, ssrcs, n), AddBYEPacket(builder, ssrcs, n))
      BY <3>1 DEF CallAddBYEPacket, Call, CanAddBYEPacket, CanAddPacket
    <3>3. /\ Fitting(AddBYEPacket(builder, ssrcs, n))
          /\ AddBYEPacket(builder, ssrcs, n).packet = builder.packet
      BY <1>1, <3>1, <3>2, ByeGiven
    <3> QED
      BY <3>2, <3>3, NotYet, CallKeeps
  <2>8. CASE CallEndBuild
    BY <2>8, LayingEnd
  <2>9. CASE \E data \in Seq(ByteValues) : Receive(data)
    <3>1. PICK data \in Seq(ByteValues) : Receive(data)
      BY <2>9
    <3>2. received' = data /\ builder' = builder /\ asked' = asked
      BY <3>1 DEF Receive
    <3> QED
      BY <3>2 DEF Laying
  <2> QED
    BY <1>3, <2>1, <2>2, <2>3, <2>4, <2>5, <2>6, <2>7, <2>8, <2>9, Zenon DEF BuilderNext
<1> QED
  BY <1>2, <1>3

LEMMA LayingRead == Laying => BuildIsRead
<1> SUFFICES ASSUME Laying, builder.packet # <<>> PROVE BuildIsRead
  BY DEF BuildIsRead
<1>1. Fitting(asked) /\ asked.report # "none" /\ builder.packet = Layout(asked)
  BY DEF Laying
<1>2. asked \in Builders /\ asked.report \in {"SR", "RR"}
  BY <1>1, GivenFields DEF Fitting
<1>3. ReadAs(builder.packet, asked)
  BY <1>1, <1>2, GivenGathered, ReadBack
<1> QED
  BY <1>3, Zenon DEF BuildIsRead, ReadAs, Collect, BlocksOf, ChunksOf, AllSent

LEMMA LayingTyped == Laying => BuilderTypeOK
  BY DEF Laying, BuilderTypeOK, Fitting

\* The builder and what it was asked for keep their types, and a finished packet
\* is not built any further (RTCPCompoundPacketBuilder).
THEOREM BuilderTypes == BuilderSpec => []BuilderTypeOK
  BY LayingInit, LayingStep, LayingTyped, PTL DEF BuilderSpec

\* The parser takes what the builder laid out apart into what it was given,
\* whatever calls were made with whatever arguments (EndBuild, ParseData and the
\* constructors and readers of the packets).
THEOREM BuildSafety == BuilderSpec => []BuildIsRead
  BY LayingInit, LayingStep, LayingRead, PTL DEF BuilderSpec
=============================================================================
