-------------------------- MODULE SourceTable_proof --------------------------
(***************************************************************************)
(* The source table, for any number of sources, addresses and packets:      *)
(* whatever is called, the counters say what a count of the sources says,   *)
(* and the addresses of a source stay on one host.  First folds, lists and  *)
(* counting, then what each operation makes of a sound table, then what     *)
(* each event makes of the table of a session.                              *)
(***************************************************************************)
EXTENDS SourceTable, FiniteSetTheorems, SequenceTheorems, WellFoundedInduction, TLAPS

-----------------------------------------------------------------------------
(* Folds.  A fold of the source table goes through the places of a sequence  *)
(* one by one.                                                               *)

\* The operators that SourceTable folds; a is what they take besides.
Apply(kind, a, U, x) ==
    IF kind = "csrc" THEN ProcessCsrc(U, x, a)
    ELSE IF kind = "item" THEN ProcessItem(U, x, a)
    ELSE IF kind = "silent" THEN DropSilent(U, x)
    ELSE IF kind = "gone" THEN DropGone(U, x)
    ELSE IF kind = "note" THEN ForgetNote(U, x)
    ELSE IF kind = "sender" THEN ForgetSender(U, x)
    ELSE IF kind = "all" THEN DropOrForget(U, x)
    ELSE (IF U = NoSsrc /\ HasData(a, x) THEN x ELSE U)

IsFold(kind, a, base, q, n, f) ==
    f = [s \in SUBSET (1 .. n) |->
            IF s = {} THEN base ELSE Apply(kind, a, f[s \ {Max(s)}], q[Max(s)])]

Unrolls(kind, a, base, q, n, g) ==
    g[0] = base /\ \A k \in 0 .. n - 1 : g[k + 1] = Apply(kind, a, g[k], q[k + 1])

LEMMA Counting ==
    ASSUME NEW S, 0 \in S, \A k \in Nat : k \in S => k + 1 \in S
    PROVE  Nat \subseteq S
<1> DEFINE B == Nat \ S
<1> SUFFICES ASSUME B # {} PROVE FALSE
  OBVIOUS
<1> HIDE DEF B
<1>1. PICK m \in B : \A k \in B : <<k, m>> \notin OpToRel(<, Nat)
  <2>1. B \subseteq Nat
    BY DEF B
  <2> QED
    BY <2>1, NatLessThanWellFounded, WFMin
<1> USE DEF B
<1>2. m \in Nat /\ m # 0
  OBVIOUS
<1>3. m - 1 \in Nat /\ m = (m - 1) + 1
  BY <1>2
<1>4. <<m - 1, m>> \in OpToRel(<, Nat)
  BY <1>2, <1>3 DEF OpToRel
<1>5. m - 1 \in S
  BY <1>1, <1>3, <1>4
<1> QED
  BY <1>3, <1>5

LEMMA MaxOf ==
    ASSUME NEW n \in Nat, NEW s \in SUBSET (1 .. n), s # {}
    PROVE  Max(s) \in s /\ \A y \in s : Max(s) >= y
<1> DEFINE S == {k \in Nat : \A r \in SUBSET (1 .. k) : r # {} => \E x \in r : \A y \in r : x >= y}
<1>1. 0 \in S
  <2>1. 1 .. 0 = {}
    OBVIOUS
  <2> QED BY <2>1
<1>2. ASSUME NEW k \in Nat, k \in S PROVE k + 1 \in S
  <2> SUFFICES ASSUME NEW r \in SUBSET (1 .. k + 1), r # {} PROVE \E x \in r : \A y \in r : x >= y
    OBVIOUS
  <2>1. CASE k + 1 \in r
    BY <2>1
  <2>2. CASE k + 1 \notin r
    <3>1. r \in SUBSET (1 .. k)
      BY <2>2
    <3> QED BY <1>2, <3>1
  <2> QED BY <2>1, <2>2
<1>3. n \in S
  <2> HIDE DEF S
  <2> QED BY <1>1, <1>2, Counting
<1> QED
  BY <1>3 DEF Max

LEMMA FoldExists ==
    ASSUME NEW kind, NEW a, NEW base, NEW q, NEW n \in Nat
    PROVE  \E f : IsFold(kind, a, base, q, n, f)
<1> DEFINE Turn(f, s) == IF s = {} THEN base ELSE Apply(kind, a, f[s \ {Max(s)}], q[Max(s)])
           S == {k \in Nat : \E f : IsFold(kind, a, base, q, k, f)}
<1>1. 0 \in S
  <2> DEFINE f0 == [s \in SUBSET (1 .. 0) |-> base]
  <2>1. 1 .. 0 = {}
    OBVIOUS
  <2>2. f0 = [s \in SUBSET (1 .. 0) |-> Turn(f0, s)]
    BY <2>1
  <2>3. IsFold(kind, a, base, q, 0, f0)
    BY <2>2 DEF IsFold
  <2> QED BY <2>3
<1>2. ASSUME NEW k \in Nat, k \in S PROVE k + 1 \in S
  <2>0. PICK f : IsFold(kind, a, base, q, k, f)
    BY <1>2
  <2>1. f = [s \in SUBSET (1 .. k) |-> Turn(f, s)]
    BY <2>0 DEF IsFold
  <2> DEFINE g == [s \in SUBSET (1 .. k + 1) |-> Turn(f, s)]
  <2>2. ASSUME NEW t \in SUBSET (1 .. k) PROVE g[t] = f[t]
    <3>1. t \in SUBSET (1 .. k + 1)
      OBVIOUS
    <3>2. g[t] = Turn(f, t)
      BY <3>1
    <3>3. f[t] = Turn(f, t)
      <4> HIDE DEF Turn
      <4> QED BY <2>1
    <3> QED BY <3>2, <3>3
  <2>3. ASSUME NEW s \in SUBSET (1 .. k + 1) PROVE Turn(f, s) = Turn(g, s)
    <3>1. CASE s = {}
      BY <3>1
    <3>2. CASE s # {}
      <4>1. Max(s) \in s /\ \A y \in s : Max(s) >= y
        BY <3>2, MaxOf, k + 1 \in Nat
      <4>2. s \ {Max(s)} \in SUBSET (1 .. k)
        <5> SUFFICES ASSUME NEW y \in s, y # Max(s) PROVE y \in 1 .. k
          OBVIOUS
        <5>1. y \in 1 .. k + 1 /\ Max(s) \in 1 .. k + 1 /\ Max(s) >= y
          BY <4>1
        <5> QED
          BY <5>1
      <4>3. g[s \ {Max(s)}] = f[s \ {Max(s)}]
        <5> HIDE DEF g
        <5> QED BY <4>2, <2>2
      <4> HIDE DEF g
      <4> QED BY <4>3
    <3> QED BY <3>1, <3>2
  <2>4. g = [s \in SUBSET (1 .. k + 1) |-> Turn(g, s)]
    <3>1. g = [s \in SUBSET (1 .. k + 1) |-> Turn(f, s)]
      OBVIOUS
    <3> HIDE DEF g, Turn
    <3> QED BY <2>3, <3>1
  <2>5. IsFold(kind, a, base, q, k + 1, g)
    <3> HIDE DEF g
    <3> QED BY <2>4 DEF IsFold
  <2> QED
    BY <2>5
<1>3. n \in S
  <2> HIDE DEF S
  <2> QED BY <1>1, <1>2, Counting
<1> QED
  BY <1>3

LEMMA MaxPrefix == ASSUME NEW k \in Nat \ {0} PROVE Max(1 .. k) = k /\ (1 .. k) \ {Max(1 .. k)} = 1 .. k - 1
<1>1. k \in 1 .. k /\ 1 .. k \in SUBSET (1 .. k)
  OBVIOUS
<1>2. Max(1 .. k) \in 1 .. k /\ \A y \in 1 .. k : Max(1 .. k) >= y
  BY <1>1, MaxOf
<1>3. Max(1 .. k) = k
  BY <1>1, <1>2
<1> QED
  BY <1>3

LEMMA FoldSteps ==
    ASSUME NEW kind, NEW a, NEW base, NEW q, NEW n \in Nat, NEW f, IsFold(kind, a, base, q, n, f)
    PROVE  \E g : Unrolls(kind, a, base, q, n, g) /\ g[n] = f[1 .. n]
<1> DEFINE g == [k \in 0 .. n |-> f[1 .. k]]
<1>1. g[0] = base /\ g[n] = f[1 .. n]
  <2>1. 1 .. 0 = {} /\ {} \in SUBSET (1 .. n)
    OBVIOUS
  <2> QED BY <2>1 DEF IsFold
<1>2. ASSUME NEW k \in 0 .. n - 1 PROVE g[k + 1] = Apply(kind, a, g[k], q[k + 1])
  <2>1. 1 .. k + 1 \in SUBSET (1 .. n) /\ 1 .. k + 1 # {} /\ k \in 0 .. n /\ k + 1 \in 0 .. n
    OBVIOUS
  <2>2. Max(1 .. k + 1) = k + 1 /\ (1 .. k + 1) \ {Max(1 .. k + 1)} = 1 .. k
    <3>1. k + 1 \in Nat \ {0} /\ k + 1 - 1 = k
      OBVIOUS
    <3> QED BY <3>1, MaxPrefix
  <2>3. f[1 .. k + 1] = Apply(kind, a, f[(1 .. k + 1) \ {Max(1 .. k + 1)}], q[Max(1 .. k + 1)])
    BY <2>1 DEF IsFold
  <2> QED
    BY <2>1, <2>2, <2>3
<1>3. Unrolls(kind, a, base, q, n, g)
  BY <1>1, <1>2 DEF Unrolls
<1> QED
  BY <1>1, <1>3


LEMMA CsrcFold ==
    ASSUME NEW a, NEW R, NEW base, NEW q \in Seq(R)
    PROVE  \E g : Unrolls("csrc", a, base, q, Len(q), g) /\ ProcessCsrcs(base, q, a) = g[Len(q)]
<1> DEFINE Is(f) == f = [s \in SUBSET (1 .. Len(q)) |->
                            IF s = {} THEN base ELSE ProcessCsrc(f[s \ {Max(s)}], q[Max(s)], a)]
           iter == CHOOSE f : Is(f)
<1>1. /\ \A U, x : Apply("csrc", a, U, x) = ProcessCsrc(U, x, a)
      /\ Len(q) \in Nat /\ DOMAIN q = 1 .. Len(q)
  BY DEF Apply
<1>2. ASSUME NEW f PROVE IsFold("csrc", a, base, q, Len(q), f) <=> Is(f)
  BY <1>1 DEF IsFold
<1>3. IsFold("csrc", a, base, q, Len(q), iter)
  <2> HIDE DEF Is
  <2> QED
    BY <1>1, <1>2, FoldExists
<1>4. ProcessCsrcs(base, q, a) = iter[1 .. Len(q)]
  BY <1>1 DEF ProcessCsrcs, FoldLeft, MapThenFoldSet
<1> HIDE DEF iter
<1>5. \E g : Unrolls("csrc", a, base, q, Len(q), g) /\ g[Len(q)] = iter[1 .. Len(q)]
  BY <1>1, <1>3, FoldSteps
<1> QED
  BY <1>4, <1>5

LEMMA ItemFold ==
    ASSUME NEW a, NEW R, NEW base, NEW q \in Seq(R)
    PROVE  \E g : Unrolls("item", a, base, q, Len(q), g) /\ ProcessRTCPCompoundPacket(base, q, a) = g[Len(q)]
<1> DEFINE Is(f) == f = [s \in SUBSET (1 .. Len(q)) |->
                            IF s = {} THEN base ELSE ProcessItem(f[s \ {Max(s)}], q[Max(s)], a)]
           iter == CHOOSE f : Is(f)
<1>1. /\ \A U, x : Apply("item", a, U, x) = ProcessItem(U, x, a)
      /\ Len(q) \in Nat /\ DOMAIN q = 1 .. Len(q)
  BY DEF Apply
<1>2. ASSUME NEW f PROVE IsFold("item", a, base, q, Len(q), f) <=> Is(f)
  BY <1>1 DEF IsFold
<1>3. IsFold("item", a, base, q, Len(q), iter)
  <2> HIDE DEF Is
  <2> QED
    BY <1>1, <1>2, FoldExists
<1>4. ProcessRTCPCompoundPacket(base, q, a) = iter[1 .. Len(q)]
  BY <1>1 DEF ProcessRTCPCompoundPacket, FoldLeft, MapThenFoldSet
<1> HIDE DEF iter
<1>5. \E g : Unrolls("item", a, base, q, Len(q), g) /\ g[Len(q)] = iter[1 .. Len(q)]
  BY <1>1, <1>3, FoldSteps
<1> QED
  BY <1>4, <1>5

LEMMA FirstFold ==
    ASSUME NEW T, NEW R, NEW q \in Seq(R)
    PROVE  \E g : Unrolls("first", T, NoSsrc, q, Len(q), g) /\ FirstWithData(T, q) = g[Len(q)]
<1> DEFINE Is(f) == f = [s \in SUBSET (1 .. Len(q)) |->
                            IF s = {} THEN NoSsrc ELSE (IF f[s \ {Max(s)}] = NoSsrc /\ HasData(T, q[Max(s)]) THEN q[Max(s)] ELSE f[s \ {Max(s)}])]
           iter == CHOOSE f : Is(f)
<1>1. /\ \A U, x : Apply("first", T, U, x) = (IF U = NoSsrc /\ HasData(T, x) THEN x ELSE U)
      /\ Len(q) \in Nat /\ DOMAIN q = 1 .. Len(q)
  BY DEF Apply
<1>2. ASSUME NEW f PROVE IsFold("first", T, NoSsrc, q, Len(q), f) <=> Is(f)
  BY <1>1 DEF IsFold
<1>3. IsFold("first", T, NoSsrc, q, Len(q), iter)
  <2> HIDE DEF Is
  <2> QED
    BY <1>1, <1>2, FoldExists
<1>4. FirstWithData(T, q) = iter[1 .. Len(q)]
  BY <1>1 DEF FirstWithData, FoldLeft, MapThenFoldSet
<1> HIDE DEF iter
<1>5. \E g : Unrolls("first", T, NoSsrc, q, Len(q), g) /\ g[Len(q)] = iter[1 .. Len(q)]
  BY <1>1, <1>3, FoldSteps
<1> QED
  BY <1>4, <1>5

LEMMA SilentFold ==
    ASSUME NEW R, NEW base, NEW q \in Seq(R)
    PROVE  \E g : Unrolls("silent", 0, base, q, Len(q), g) /\ (\A T : T = base /\ T.list = q => Timeout(T) = Recount(g[Len(q)]))
<1> DEFINE Is(f) == f = [s \in SUBSET (1 .. Len(q)) |->
                            IF s = {} THEN base ELSE DropSilent(f[s \ {Max(s)}], q[Max(s)])]
           iter == CHOOSE f : Is(f)
<1>1. /\ \A U, x : Apply("silent", 0, U, x) = DropSilent(U, x)
      /\ Len(q) \in Nat /\ DOMAIN q = 1 .. Len(q)
  BY DEF Apply
<1>2. ASSUME NEW f PROVE IsFold("silent", 0, base, q, Len(q), f) <=> Is(f)
  BY <1>1 DEF IsFold
<1>3. IsFold("silent", 0, base, q, Len(q), iter)
  <2> HIDE DEF Is
  <2> QED
    BY <1>1, <1>2, FoldExists
<1>4. (\A T : T = base /\ T.list = q => Timeout(T) = Recount(iter[1 .. Len(q)]))
  BY <1>1 DEF Timeout, Walk, FoldLeft, MapThenFoldSet
<1> HIDE DEF iter
<1>5. \E g : Unrolls("silent", 0, base, q, Len(q), g) /\ g[Len(q)] = iter[1 .. Len(q)]
  BY <1>1, <1>3, FoldSteps
<1> QED
  BY <1>4, <1>5

LEMMA GoneFold ==
    ASSUME NEW R, NEW base, NEW q \in Seq(R)
    PROVE  \E g : Unrolls("gone", 0, base, q, Len(q), g) /\ (\A T : T = base /\ T.list = q => BYETimeout(T) = Recount(g[Len(q)]))
<1> DEFINE Is(f) == f = [s \in SUBSET (1 .. Len(q)) |->
                            IF s = {} THEN base ELSE DropGone(f[s \ {Max(s)}], q[Max(s)])]
           iter == CHOOSE f : Is(f)
<1>1. /\ \A U, x : Apply("gone", 0, U, x) = DropGone(U, x)
      /\ Len(q) \in Nat /\ DOMAIN q = 1 .. Len(q)
  BY DEF Apply
<1>2. ASSUME NEW f PROVE IsFold("gone", 0, base, q, Len(q), f) <=> Is(f)
  BY <1>1 DEF IsFold
<1>3. IsFold("gone", 0, base, q, Len(q), iter)
  <2> HIDE DEF Is
  <2> QED
    BY <1>1, <1>2, FoldExists
<1>4. (\A T : T = base /\ T.list = q => BYETimeout(T) = Recount(iter[1 .. Len(q)]))
  BY <1>1 DEF BYETimeout, Walk, FoldLeft, MapThenFoldSet
<1> HIDE DEF iter
<1>5. \E g : Unrolls("gone", 0, base, q, Len(q), g) /\ g[Len(q)] = iter[1 .. Len(q)]
  BY <1>1, <1>3, FoldSteps
<1> QED
  BY <1>4, <1>5

LEMMA NoteFold ==
    ASSUME NEW R, NEW base, NEW q \in Seq(R)
    PROVE  \E g : Unrolls("note", 0, base, q, Len(q), g) /\ (\A T : T = base /\ T.list = q => NoteTimeout(T) = Recount(g[Len(q)]))
<1> DEFINE Is(f) == f = [s \in SUBSET (1 .. Len(q)) |->
                            IF s = {} THEN base ELSE ForgetNote(f[s \ {Max(s)}], q[Max(s)])]
           iter == CHOOSE f : Is(f)
<1>1. /\ \A U, x : Apply("note", 0, U, x) = ForgetNote(U, x)
      /\ Len(q) \in Nat /\ DOMAIN q = 1 .. Len(q)
  BY DEF Apply
<1>2. ASSUME NEW f PROVE IsFold("note", 0, base, q, Len(q), f) <=> Is(f)
  BY <1>1 DEF IsFold
<1>3. IsFold("note", 0, base, q, Len(q), iter)
  <2> HIDE DEF Is
  <2> QED
    BY <1>1, <1>2, FoldExists
<1>4. (\A T : T = base /\ T.list = q => NoteTimeout(T) = Recount(iter[1 .. Len(q)]))
  BY <1>1 DEF NoteTimeout, Walk, FoldLeft, MapThenFoldSet
<1> HIDE DEF iter
<1>5. \E g : Unrolls("note", 0, base, q, Len(q), g) /\ g[Len(q)] = iter[1 .. Len(q)]
  BY <1>1, <1>3, FoldSteps
<1> QED
  BY <1>4, <1>5

LEMMA SenderFold ==
    ASSUME NEW R, NEW base, NEW q \in Seq(R)
    PROVE  \E g : Unrolls("sender", 0, base, q, Len(q), g) /\ (\A T : T = base /\ T.list = q => SenderTimeout(T) = Recount(g[Len(q)]))
<1> DEFINE Is(f) == f = [s \in SUBSET (1 .. Len(q)) |->
                            IF s = {} THEN base ELSE ForgetSender(f[s \ {Max(s)}], q[Max(s)])]
           iter == CHOOSE f : Is(f)
<1>1. /\ \A U, x : Apply("sender", 0, U, x) = ForgetSender(U, x)
      /\ Len(q) \in Nat /\ DOMAIN q = 1 .. Len(q)
  BY DEF Apply
<1>2. ASSUME NEW f PROVE IsFold("sender", 0, base, q, Len(q), f) <=> Is(f)
  BY <1>1 DEF IsFold
<1>3. IsFold("sender", 0, base, q, Len(q), iter)
  <2> HIDE DEF Is
  <2> QED
    BY <1>1, <1>2, FoldExists
<1>4. (\A T : T = base /\ T.list = q => SenderTimeout(T) = Recount(iter[1 .. Len(q)]))
  BY <1>1 DEF SenderTimeout, Walk, FoldLeft, MapThenFoldSet
<1> HIDE DEF iter
<1>5. \E g : Unrolls("sender", 0, base, q, Len(q), g) /\ g[Len(q)] = iter[1 .. Len(q)]
  BY <1>1, <1>3, FoldSteps
<1> QED
  BY <1>4, <1>5

LEMMA AllFold ==
    ASSUME NEW R, NEW base, NEW q \in Seq(R)
    PROVE  \E g : Unrolls("all", 0, base, q, Len(q), g) /\ (\A T : T = base /\ T.list = q => MultipleTimeouts(T) = Recount(g[Len(q)]))
<1> DEFINE Is(f) == f = [s \in SUBSET (1 .. Len(q)) |->
                            IF s = {} THEN base ELSE DropOrForget(f[s \ {Max(s)}], q[Max(s)])]
           iter == CHOOSE f : Is(f)
<1>1. /\ \A U, x : Apply("all", 0, U, x) = DropOrForget(U, x)
      /\ Len(q) \in Nat /\ DOMAIN q = 1 .. Len(q)
  BY DEF Apply
<1>2. ASSUME NEW f PROVE IsFold("all", 0, base, q, Len(q), f) <=> Is(f)
  BY <1>1 DEF IsFold
<1>3. IsFold("all", 0, base, q, Len(q), iter)
  <2> HIDE DEF Is
  <2> QED
    BY <1>1, <1>2, FoldExists
<1>4. (\A T : T = base /\ T.list = q => MultipleTimeouts(T) = Recount(iter[1 .. Len(q)]))
  BY <1>1 DEF MultipleTimeouts, Walk, FoldLeft, MapThenFoldSet
<1> HIDE DEF iter
<1>5. \E g : Unrolls("all", 0, base, q, Len(q), g) /\ g[Len(q)] = iter[1 .. Len(q)]
  BY <1>1, <1>3, FoldSteps
<1> QED
  BY <1>4, <1>5

\* Sets of tables, one for each place: a fold that goes from each to the next
\* ends in the last.
LEMMA FoldKeeps ==
    ASSUME NEW kind, NEW a, NEW base, NEW q, NEW n \in Nat, NEW g, Unrolls(kind, a, base, q, n, g),
           NEW I, base \in I[0],
           \A k \in 0 .. n - 1 : \A U \in I[k] : Apply(kind, a, U, q[k + 1]) \in I[k + 1]
    PROVE  g[n] \in I[n]
<1> DEFINE S == {k \in Nat : k <= n => g[k] \in I[k]}
<1>1. 0 \in S
  BY DEF Unrolls
<1>2. ASSUME NEW k \in Nat, k \in S PROVE k + 1 \in S
  <2> SUFFICES ASSUME k + 1 <= n PROVE g[k + 1] \in I[k + 1]
    OBVIOUS
  <2>1. k \in 0 .. n - 1 /\ g[k] \in I[k]
    BY <1>2
  <2> QED
    BY <2>1 DEF Unrolls
<1>3. n \in S
  <2> HIDE DEF S
  <2> QED BY <1>1, <1>2, Counting
<1> QED
  BY <1>3
-----------------------------------------------------------------------------
(* Lists without repetition *)

LEMMA AppendNew ==
    ASSUME NEW S, NEW q \in Seq(S), IsInjective(q), NEW s \in S, s \notin ToSet(q)
    PROVE  /\ Append(q, s) \in Seq(S) /\ IsInjective(Append(q, s))
           /\ ToSet(Append(q, s)) = ToSet(q) \cup {s}
<1> DEFINE r == Append(q, s)
<1>1. /\ r \in Seq(S) /\ Len(r) = Len(q) + 1 /\ Len(q) \in Nat
      /\ DOMAIN r = 1 .. Len(q) + 1 /\ DOMAIN q = 1 .. Len(q)
      /\ r[Len(q) + 1] = s /\ \A i \in 1 .. Len(q) : r[i] = q[i]
  OBVIOUS
<1> HIDE DEF r
<1>2. \A i \in 1 .. Len(q) : q[i] # s /\ r[i] # s
  BY <1>1 DEF ToSet
<1>3. IsInjective(r)
  <2> SUFFICES ASSUME NEW i \in DOMAIN r, NEW j \in DOMAIN r, r[i] = r[j] PROVE i = j
    BY DEF IsInjective
  <2>1. CASE i = Len(q) + 1 \/ j = Len(q) + 1
    BY <1>1, <1>2, <2>1
  <2>2. CASE i # Len(q) + 1 /\ j # Len(q) + 1
    <3>1. i \in 1 .. Len(q) /\ j \in 1 .. Len(q)
      BY <1>1, <2>2
    <3> QED
      BY <1>1, <3>1 DEF IsInjective
  <2> QED
    BY <2>1, <2>2
<1>4. ToSet(r) = ToSet(q) \cup {s}
  <2>1. \A i \in DOMAIN r : r[i] \in ToSet(q) \cup {s}
    <3> SUFFICES ASSUME NEW i \in DOMAIN r PROVE r[i] \in ToSet(q) \cup {s}
      OBVIOUS
    <3>1. i = Len(q) + 1 \/ i \in 1 .. Len(q)
      BY <1>1
    <3> QED
      BY <1>1, <3>1 DEF ToSet
  <2>2. \A i \in DOMAIN q : q[i] \in ToSet(r)
    BY <1>1 DEF ToSet
  <2>3. s \in ToSet(r)
    BY <1>1 DEF ToSet
  <2> QED
    BY <2>1, <2>2, <2>3 DEF ToSet
<1> QED
  BY <1>1, <1>3, <1>4 DEF r

LEMMA RemoveOne ==
    ASSUME NEW S, NEW q \in Seq(S), IsInjective(q), NEW i \in DOMAIN q
    PROVE  /\ RemoveAt(q, i) \in Seq(S) /\ IsInjective(RemoveAt(q, i))
           /\ ToSet(RemoveAt(q, i)) = ToSet(q) \ {q[i]}
<1> DEFINE r == RemoveAt(q, i)
           n == Len(q)
<1>1. n \in Nat /\ DOMAIN q = 1 .. n /\ i \in 1 .. n
  OBVIOUS
<1>2. /\ r \in Seq(S) /\ Len(r) = n - 1
      /\ \A k \in 1 .. n - 1 : r[k] = IF k < i THEN q[k] ELSE q[k + 1]
  <2> DEFINE a == SubSeq(q, 1, i - 1)
             b == SubSeq(q, i + 1, n)
  <2>1. a \in Seq(S) /\ Len(a) = i - 1 /\ \A k \in 1 .. i - 1 : a[k] = q[k]
    BY <1>1
  <2>2. b \in Seq(S) /\ Len(b) = n - i /\ \A k \in 1 .. n - i : b[k] = q[i + k]
    BY <1>1
  <2>3. r = a \o b
    BY DEF RemoveAt
  <2> HIDE DEF a, b, r
  <2>4. r \in Seq(S) /\ Len(r) = n - 1
    <3>1. r \in Seq(S)
      BY <2>1, <2>2, <2>3, ConcatProperties
    <3>2. Len(r) = Len(a) + Len(b)
      BY <2>1, <2>2, <2>3, ConcatProperties
    <3> HIDE DEF n
    <3> QED
      BY <1>1, <2>1, <2>2, <3>1, <3>2
  <2>5. ASSUME NEW k \in 1 .. n - 1 PROVE r[k] = IF k < i THEN q[k] ELSE q[k + 1]
    <3>1. CASE k < i
      BY <1>1, <2>1, <2>2, <2>3, <3>1
    <3>2. CASE ~(k < i)
      <4>1. k - (i - 1) \in 1 .. n - i /\ r[k] = b[k - (i - 1)] /\ i + (k - (i - 1)) = k + 1
        BY <1>1, <2>1, <2>2, <2>3, <3>2
      <4> QED
        BY <2>2, <3>2, <4>1
    <3> QED
      BY <3>1, <3>2
  <2> QED
    BY <2>4, <2>5
<1> HIDE DEF r, n
<1>3. DOMAIN r = 1 .. n - 1
  BY <1>1, <1>2
<1>4. IsInjective(r)
  <2> SUFFICES ASSUME NEW j \in 1 .. n - 1, NEW k \in 1 .. n - 1, r[j] = r[k] PROVE j = k
    BY <1>3 DEF IsInjective
  <2> DEFINE J == IF j < i THEN j ELSE j + 1
             K == IF k < i THEN k ELSE k + 1
  <2>1. r[j] = q[J] /\ r[k] = q[K] /\ J \in DOMAIN q /\ K \in DOMAIN q
    BY <1>1, <1>2
  <2>2. J = K
    BY <2>1 DEF IsInjective
  <2> QED
    BY <2>2, <1>1
<1>5. ASSUME NEW x \in ToSet(r) PROVE x \in ToSet(q) /\ x # q[i]
  <2>1. PICK k \in 1 .. n - 1 : x = r[k]
    BY <1>3 DEF ToSet
  <2> DEFINE K == IF k < i THEN k ELSE k + 1
  <2>2. x = q[K] /\ K \in DOMAIN q /\ K # i
    BY <1>1, <1>2, <2>1
  <2> QED
    BY <2>2 DEF ToSet, IsInjective
<1>6. ASSUME NEW x \in ToSet(q), x # q[i] PROVE x \in ToSet(r)
  <2>1. PICK k \in DOMAIN q : x = q[k]
    BY DEF ToSet
  <2> DEFINE K == IF k < i THEN k ELSE k - 1
  <2>2. k # i
    BY <1>6, <2>1
  <2>3. K \in 1 .. n - 1 /\ r[K] = x
    <3>1. CASE k < i
      BY <1>1, <1>2, <2>1, <3>1
    <3>2. CASE ~(k < i)
      <4>1. k - 1 \in 1 .. n - 1 /\ ~(k - 1 < i) /\ (k - 1) + 1 = k
        BY <1>1, <2>2, <3>2
      <4> QED
        BY <1>2, <2>1, <3>2, <4>1
    <3> QED
      BY <3>1, <3>2
  <2> QED
    BY <1>3, <2>3 DEF ToSet
<1> QED
  BY <1>2, <1>4, <1>5, <1>6 DEF r

\* A list without repetition is as long as its set is large.
LEMMA LengthIsSize ==
    ASSUME NEW S, NEW q \in Seq(S), IsInjective(q)
    PROVE  IsFiniteSet(ToSet(q)) /\ Cardinality(ToSet(q)) = Len(q)
<1>1. Len(q) \in Nat /\ DOMAIN q = 1 .. Len(q) /\ q \in [1 .. Len(q) -> ToSet(q)]
  BY DEF ToSet
<1>2. IsFiniteSet(1 .. Len(q)) /\ Cardinality(1 .. Len(q)) = Len(q)
  BY <1>1, FS_Interval
<1>3. q \in Injection(1 .. Len(q), ToSet(q)) /\ q \in Surjection(1 .. Len(q), ToSet(q))
  BY <1>1 DEF IsInjective, ToSet, Injection, Surjection, IsInjective
<1>4. q \in Bijection(1 .. Len(q), ToSet(q))
  BY <1>3 DEF Bijection
<1> QED
  BY <1>2, <1>4, FS_Bijection DEF ExistsBijection
-----------------------------------------------------------------------------
(* Counting *)

LEMMA CountAfter ==
    ASSUME NEW F, NEW G, IsFiniteSet(F), IsFiniteSet(G), NEW s, F \ {s} = G \ {s}
    PROVE  Cardinality(G) = Cardinality(F) + One(s \in G) - One(s \in F)
<1>1. Cardinality(F) \in Nat /\ Cardinality(G) \in Nat
  BY FS_CardinalityType
<1>2. /\ Cardinality(F \ {s}) = IF s \in F THEN Cardinality(F) - 1 ELSE Cardinality(F)
      /\ Cardinality(G \ {s}) = IF s \in G THEN Cardinality(G) - 1 ELSE Cardinality(G)
  BY FS_RemoveElement
<1>3. Cardinality(F \ {s}) = Cardinality(G \ {s})
  OBVIOUS
<1> DEFINE f == Cardinality(F)
           g == Cardinality(G)
<1>4. f \in Nat /\ g \in Nat
      /\ (IF s \in F THEN f - 1 ELSE f) = (IF s \in G THEN g - 1 ELSE g)
  BY <1>1, <1>2, <1>3
<1> HIDE DEF f, g
<1>5. g = f + One(s \in G) - One(s \in F)
  BY <1>4 DEF One
<1> QED
  BY <1>5 DEF f, g
-----------------------------------------------------------------------------
(* Tables *)

SourceRecord ==
    [own : BOOLEAN, validated : BOOLEAN, sender : BOOLEAN, csrc : BOOLEAN,
     receivedbye : BOOLEAN, cname : Cnames \cup {NoName}, note : BOOLEAN,
     rtpaddr : Senders \cup {NoAddress}, rtcpaddr : Senders \cup {NoAddress},
     probation : 0 .. ProbationCount, sentdata : BOOLEAN,
     packets : 0 .. MaxQueue, old : SUBSET Stamps]

SourceMaps == UNION {[D -> SourceRecord] : D \in SUBSET Ssrcs}

Tables ==
    [list : Seq(Ssrcs), src : SourceMaps, current : Ssrcs \cup {NoSsrc},
     owndata : Ssrcs \cup {NoSsrc}, total : Int, senders : Int, active : Int,
     announced : SUBSET Ssrcs, owncollision : BOOLEAN, missed : Int]

\* What HostsAgree says of one source, owner being the own one.
HostOK(owner, s, r) ==
    /\ r.own => s = owner /\ r.rtpaddr = Local /\ r.rtcpaddr = Local
    /\ r.rtpaddr # NoAddress /\ r.rtcpaddr # NoAddress =>
          \/ r.rtpaddr = Local /\ r.rtcpaddr = Local
          \/ r.rtpaddr \in Addresses /\ r.rtcpaddr \in Addresses
                /\ HostOf[r.rtpaddr] = HostOf[r.rtcpaddr]

\* What holds also while a timeout walks, and the counters.
Shape(T) ==
    /\ T \in Tables
    /\ IsInjective(T.list) /\ ToSet(T.list) = DOMAIN T.src
    /\ T.announced = DOMAIN T.src
    /\ \A s \in DOMAIN T.src : HostOK(T.owndata, s, T.src[s])

SendersOf(f) == {s \in DOMAIN f : f[s].sender}
ActiveOf(f) == {s \in DOMAIN f : IsActive(f[s])}

Counted(T) ==
    /\ T.total = Cardinality(DOMAIN T.src)
    /\ T.senders = Cardinality(SendersOf(T.src))
    /\ T.active + T.missed = Cardinality(ActiveOf(T.src))

Good(T) == Shape(T) /\ Counted(T)

LEMMA MapIs ==
    ASSUME NEW f
    PROVE  f \in SourceMaps <=> DOMAIN f \subseteq Ssrcs /\ f \in [DOMAIN f -> SourceRecord]
BY DEF SourceMaps

LEMMA MapSet ==
    ASSUME NEW f \in SourceMaps, NEW s, NEW r \in SourceRecord
    PROVE  [f EXCEPT ![s] = r] \in SourceMaps
<1>1. DOMAIN f \subseteq Ssrcs /\ f \in [DOMAIN f -> SourceRecord]
  BY MapIs
<1> DEFINE g == [f EXCEPT ![s] = r]
<1>2. DOMAIN g = DOMAIN f /\ g \in [DOMAIN f -> SourceRecord]
  BY <1>1
<1> HIDE DEF g
<1>3. g \in SourceMaps
  BY <1>1, <1>2, MapIs
<1> QED
  BY <1>3 DEF g

LEMMA MapAdd ==
    ASSUME NEW f \in SourceMaps, NEW s \in Ssrcs, NEW r \in SourceRecord
    PROVE  [x \in DOMAIN f \cup {s} |-> IF x = s THEN r ELSE f[x]] \in SourceMaps
<1>1. DOMAIN f \subseteq Ssrcs /\ f \in [DOMAIN f -> SourceRecord]
  BY MapIs
<1> DEFINE g == [x \in DOMAIN f \cup {s} |-> IF x = s THEN r ELSE f[x]]
<1>2. DOMAIN g = DOMAIN f \cup {s} /\ g \in [DOMAIN f \cup {s} -> SourceRecord]
  BY <1>1
<1> HIDE DEF g
<1>3. g \in SourceMaps
  BY <1>1, <1>2, MapIs
<1> QED
  BY <1>3 DEF g

LEMMA MapDrop ==
    ASSUME NEW f \in SourceMaps, NEW s
    PROVE  [x \in DOMAIN f \ {s} |-> f[x]] \in SourceMaps
<1>1. DOMAIN f \subseteq Ssrcs /\ f \in [DOMAIN f -> SourceRecord]
  BY MapIs
<1> DEFINE g == [x \in DOMAIN f \ {s} |-> f[x]]
<1>2. DOMAIN g = DOMAIN f \ {s} /\ g \in [DOMAIN f \ {s} -> SourceRecord]
  BY <1>1
<1> HIDE DEF g
<1>3. g \in SourceMaps
  BY <1>1, <1>2, MapIs
<1> QED
  BY <1>3 DEF g

LEMMA SourceIs ==
    ASSUME NEW f \in SourceMaps, NEW s \in DOMAIN f
    PROVE  f[s] \in SourceRecord /\ s \in Ssrcs
BY MapIs

\* A table has finitely many sources.
LEMMA Finite ==
    ASSUME NEW T, Shape(T)
    PROVE  /\ IsFiniteSet(DOMAIN T.src)
           /\ IsFiniteSet(SendersOf(T.src)) /\ IsFiniteSet(ActiveOf(T.src))
<1>1. T.list \in Seq(Ssrcs) /\ IsInjective(T.list) /\ ToSet(T.list) = DOMAIN T.src
  BY DEF Shape, Tables
<1>2. IsFiniteSet(DOMAIN T.src)
  BY <1>1, LengthIsSize
<1>3. SendersOf(T.src) \in SUBSET DOMAIN T.src /\ ActiveOf(T.src) \in SUBSET DOMAIN T.src
  BY DEF SendersOf, ActiveOf
<1> QED
  BY <1>2, <1>3, FS_Subset

\* One source changes, and the counters as it says.
LEMMA Changes ==
    ASSUME NEW T, Good(T), NEW U \in Tables, NEW s \in DOMAIN T.src,
           U.list = T.list, U.owndata = T.owndata, U.announced = T.announced,
           DOMAIN U.src = DOMAIN T.src,
           \A x \in DOMAIN T.src \ {s} : U.src[x] = T.src[x],
           HostOK(T.owndata, s, U.src[s]),
           U.total = T.total,
           U.senders = T.senders + One(U.src[s].sender) - One(T.src[s].sender),
           U.active + U.missed = T.active + T.missed + One(IsActive(U.src[s])) - One(IsActive(T.src[s]))
    PROVE  Good(U)
<1>1. Shape(T) /\ Counted(T)
  BY DEF Good
<1>2. Shape(U)
  BY <1>1 DEF Shape
<1>3. /\ s \in SendersOf(T.src) <=> T.src[s].sender
      /\ s \in SendersOf(U.src) <=> U.src[s].sender
      /\ SendersOf(T.src) \ {s} = SendersOf(U.src) \ {s}
  BY DEF SendersOf
<1>4. /\ s \in ActiveOf(T.src) <=> IsActive(T.src[s])
      /\ s \in ActiveOf(U.src) <=> IsActive(U.src[s])
      /\ ActiveOf(T.src) \ {s} = ActiveOf(U.src) \ {s}
  BY DEF ActiveOf
<1>5. /\ IsFiniteSet(SendersOf(T.src)) /\ IsFiniteSet(SendersOf(U.src))
      /\ IsFiniteSet(ActiveOf(T.src)) /\ IsFiniteSet(ActiveOf(U.src))
  BY <1>1, <1>2, Finite
<1>6. Cardinality(SendersOf(U.src))
        = Cardinality(SendersOf(T.src)) + One(U.src[s].sender) - One(T.src[s].sender)
  BY <1>3, <1>5, CountAfter DEF One
<1>7. Cardinality(ActiveOf(U.src))
        = Cardinality(ActiveOf(T.src)) + One(IsActive(U.src[s])) - One(IsActive(T.src[s]))
  BY <1>4, <1>5, CountAfter DEF One
<1>8. Counted(U)
  BY <1>1, <1>6, <1>7 DEF Counted
<1> QED
  BY <1>2, <1>8 DEF Good

\* A source is new, and told of.
LEMMA Adds ==
    ASSUME NEW T, Good(T), NEW U \in Tables, NEW s \in Ssrcs, s \notin DOMAIN T.src,
           U.list = Append(T.list, s), U.announced = T.announced \cup {s},
           U.owndata = T.owndata \/ (T.owndata = NoSsrc /\ U.owndata = s),
           DOMAIN U.src = DOMAIN T.src \cup {s},
           \A x \in DOMAIN T.src : U.src[x] = T.src[x],
           HostOK(U.owndata, s, U.src[s]),
           U.total = T.total + 1,
           U.senders = T.senders + One(U.src[s].sender),
           U.active + U.missed = T.active + T.missed + One(IsActive(U.src[s]))
    PROVE  Good(U)
<1>1. Shape(T) /\ Counted(T)
  BY DEF Good
<1>2. /\ T.list \in Seq(Ssrcs) /\ IsInjective(T.list) /\ ToSet(T.list) = DOMAIN T.src
      /\ T.announced = DOMAIN T.src /\ T.src \in SourceMaps
      /\ \A x \in DOMAIN T.src : HostOK(T.owndata, x, T.src[x])
  BY <1>1 DEF Shape, Tables
<1>3. IsInjective(U.list) /\ ToSet(U.list) = DOMAIN U.src
  BY <1>2, AppendNew
<1>4. ASSUME NEW x \in DOMAIN T.src PROVE HostOK(U.owndata, x, U.src[x])
  <2>1. HostOK(T.owndata, x, T.src[x]) /\ x \in Ssrcs /\ U.src[x] = T.src[x]
    BY <1>2, SourceIs
  <2> QED
    BY <2>1, SourceAssumption DEF HostOK
<1>5. Shape(U)
  BY <1>2, <1>3, <1>4 DEF Shape
<1>6. /\ s \notin SendersOf(T.src) /\ (s \in SendersOf(U.src) <=> U.src[s].sender)
      /\ SendersOf(T.src) \ {s} = SendersOf(U.src) \ {s}
  BY DEF SendersOf
<1>7. /\ s \notin ActiveOf(T.src) /\ (s \in ActiveOf(U.src) <=> IsActive(U.src[s]))
      /\ ActiveOf(T.src) \ {s} = ActiveOf(U.src) \ {s}
  BY DEF ActiveOf
<1>8. /\ IsFiniteSet(SendersOf(T.src)) /\ IsFiniteSet(SendersOf(U.src))
      /\ IsFiniteSet(ActiveOf(T.src)) /\ IsFiniteSet(ActiveOf(U.src))
      /\ IsFiniteSet(DOMAIN T.src)
  BY <1>1, <1>5, Finite
<1>9. /\ Cardinality(SendersOf(T.src)) \in Nat /\ Cardinality(ActiveOf(T.src)) \in Nat
      /\ Cardinality(DOMAIN T.src) \in Nat
  BY <1>8, FS_CardinalityType
<1>10. Cardinality(SendersOf(U.src)) = Cardinality(SendersOf(T.src)) + One(U.src[s].sender)
  BY <1>6, <1>8, <1>9, CountAfter DEF One
<1>11. Cardinality(ActiveOf(U.src)) = Cardinality(ActiveOf(T.src)) + One(IsActive(U.src[s]))
  <2>1. Cardinality(ActiveOf(U.src))
          = Cardinality(ActiveOf(T.src)) + One(s \in ActiveOf(U.src)) - One(s \in ActiveOf(T.src))
    BY <1>7, <1>8, CountAfter
  <2>2. /\ One(s \in ActiveOf(T.src)) = 0
        /\ One(s \in ActiveOf(U.src)) = One(IsActive(U.src[s]))
        /\ One(IsActive(U.src[s])) \in Nat
    BY <1>7 DEF One
  <2> QED
    BY <1>9, <2>1, <2>2
<1>12. Cardinality(DOMAIN U.src) = Cardinality(DOMAIN T.src) + 1
  BY ZenonT(60), <1>8, FS_AddElement
<1>13. Counted(U)
  BY <1>1, <1>10, <1>11, <1>12 DEF Counted
<1> QED
  BY <1>5, <1>13 DEF Good

\* Nothing of the sources changes.
LEMMA Stays ==
    ASSUME NEW T, Good(T), NEW U \in Tables,
           U.list = T.list, U.owndata = T.owndata, U.announced = T.announced,
           U.src = T.src, U.total = T.total, U.senders = T.senders,
           U.active + U.missed = T.active + T.missed
    PROVE  Good(U)
BY DEF Good, Shape, Counted

\* Where a source of a table stands in its list.
LEMMA PlaceIs ==
    ASSUME NEW T, Shape(T), NEW s \in DOMAIN T.src
    PROVE  Place(T, s) \in DOMAIN T.list /\ T.list[Place(T, s)] = s
<1>1. \E i \in DOMAIN T.list : T.list[i] = s
  BY DEF Shape, ToSet
<1> QED
  BY <1>1 DEF Place

LEMMA AtPlaceIs ==
    ASSUME NEW T, Shape(T), NEW i
    PROVE  AtPlace(T, i) \in DOMAIN T.src \cup {NoSsrc}
BY DEF AtPlace, Shape, ToSet

\* A source is deleted: what is left is in shape.
LEMMA Deletes ==
    ASSUME NEW T, Shape(T), NEW s \in DOMAIN T.src
    PROVE  LET U == OnRemoveSource(DeleteEntry(T, s), s)
           IN  /\ Shape(U) /\ U.owndata = T.owndata
               /\ U.src = [x \in DOMAIN T.src \ {s} |-> T.src[x]]
               /\ U.total = T.total /\ U.senders = T.senders /\ U.active = T.active
               /\ U.missed = T.missed /\ U.owncollision = T.owncollision
               /\ U.announced = T.announced \ {s}
<1> DEFINE U == OnRemoveSource(DeleteEntry(T, s), s)
           list == RemoveAt(T.list, Place(T, s))
           src == [x \in DOMAIN T.src \ {s} |-> T.src[x]]
           cur == After(T, s)
<1>1. /\ T \in Tables /\ T.list \in Seq(Ssrcs) /\ IsInjective(T.list)
      /\ ToSet(T.list) = DOMAIN T.src /\ T.announced = DOMAIN T.src /\ T.src \in SourceMaps
      /\ \A x \in DOMAIN T.src : HostOK(T.owndata, x, T.src[x])
  BY DEF Shape, Tables
<1>2. list \in Seq(Ssrcs) /\ IsInjective(list) /\ ToSet(list) = DOMAIN T.src \ {s}
  <2>1. Place(T, s) \in DOMAIN T.list /\ T.list[Place(T, s)] = s
    BY PlaceIs
  <2> QED
    BY <1>1, <2>1, RemoveOne
<1>3. src \in SourceMaps
  BY <1>1, MapDrop
<1>4. cur \in Ssrcs \cup {NoSsrc}
  <2>1. cur \in DOMAIN T.src \cup {NoSsrc}
    BY AtPlaceIs DEF After
  <2> HIDE DEF cur
  <2> QED
    BY <2>1, <1>1, MapIs
<1>5. U = [T EXCEPT !.list = list, !.src = src, !.current = cur, !.announced = T.announced \ {s}]
  BY <1>1 DEF OnRemoveSource, DeleteEntry, Tables
<1>6. DOMAIN src = DOMAIN T.src \ {s} /\ \A x \in DOMAIN src : src[x] = T.src[x]
  OBVIOUS
<1>7. T.announced \ {s} \in SUBSET Ssrcs
  BY <1>1 DEF Tables
<1> HIDE DEF list, src, cur, U
<1>8. /\ U \in Tables /\ U.list = list /\ U.src = src /\ U.owndata = T.owndata
      /\ U.announced = T.announced \ {s} /\ U.total = T.total /\ U.senders = T.senders
      /\ U.active = T.active /\ U.missed = T.missed /\ U.owncollision = T.owncollision
  BY <1>1, <1>2, <1>3, <1>4, <1>5, <1>7 DEF Tables
<1>9. Shape(U)
  BY <1>1, <1>2, <1>6, <1>8 DEF Shape
<1> QED
  BY <1>8, <1>9 DEF U, src
-----------------------------------------------------------------------------
(* What the operations of the table do *)

\* Two tables that differ in one source only.
Only(T, U, s) ==
    /\ U \in Tables /\ U.list = T.list /\ U.current = T.current /\ U.owndata = T.owndata
    /\ U.total = T.total /\ U.senders = T.senders /\ U.active = T.active
    /\ U.announced = T.announced /\ U.owncollision = T.owncollision /\ U.missed = T.missed
    /\ DOMAIN U.src = DOMAIN T.src
    /\ \A x \in DOMAIN T.src \ {s} : U.src[x] = T.src[x]

LEMMA Puts ==
    ASSUME NEW T \in Tables, NEW s \in DOMAIN T.src, NEW r \in SourceRecord,
           NEW U, U = [T EXCEPT !.src[s] = r]
    PROVE  Only(T, U, s) /\ U.src[s] = r
<1> DEFINE f == [T.src EXCEPT ![s] = r]
<1>1. f \in SourceMaps /\ DOMAIN f = DOMAIN T.src /\ f[s] = r
      /\ \A x \in DOMAIN T.src \ {s} : f[x] = T.src[x]
  <2>1. T.src \in SourceMaps
    BY DEF Tables
  <2> QED
    BY <2>1, MapSet
<1>2. U = [T EXCEPT !.src = f]
  BY DEF Tables
<1> HIDE DEF f
<1> QED
  BY <1>1, <1>2 DEF Only, Tables

LEMMA OnlyTwice ==
    ASSUME NEW T, NEW U, NEW V, NEW s, Only(T, U, s), Only(U, V, s)
    PROVE  Only(T, V, s)
BY DEF Only

LEMMA NewIsRecord == NewSource \in SourceRecord
<1>1. 0 \in 0 .. ProbationCount /\ 0 \in 0 .. MaxQueue
  BY SourceAssumption
<1> QED
  BY <1>1 DEF NewSource, SourceRecord

LEMMA ObtainsNew ==
    ASSUME NEW T, Shape(T), NEW s \in Ssrcs, s \notin DOMAIN T.src,
           NEW U, U = ObtainSourceDataInstance(T, s)
    PROVE  /\ U \in Tables /\ U.list = Append(T.list, s) /\ U.current = NoSsrc
           /\ U.owndata = T.owndata /\ U.total = T.total + 1 /\ U.senders = T.senders
           /\ U.active = T.active /\ U.announced = T.announced
           /\ U.owncollision = T.owncollision /\ U.missed = T.missed
           /\ DOMAIN U.src = DOMAIN T.src \cup {s} /\ U.src[s] = NewSource
           /\ \A x \in DOMAIN T.src : U.src[x] = T.src[x]
<1> DEFINE list == Append(T.list, s)
           f == [x \in DOMAIN T.src \cup {s} |-> IF x = s THEN NewSource ELSE T.src[x]]
<1>1. T \in Tables /\ T.list \in Seq(Ssrcs) /\ T.src \in SourceMaps
  BY DEF Shape, Tables
<1>2. f \in SourceMaps /\ DOMAIN f = DOMAIN T.src \cup {s} /\ f[s] = NewSource
      /\ \A x \in DOMAIN T.src : f[x] = T.src[x]
  BY <1>1, MapAdd, NewIsRecord
<1>3. list \in Seq(Ssrcs) /\ T.total + 1 \in Int
  BY <1>1 DEF Tables
<1>4. U = [T EXCEPT !.list = list, !.src = f, !.current = NoSsrc, !.total = T.total + 1]
  BY <1>1 DEF ObtainSourceDataInstance, Tables
<1> HIDE DEF f
<1> QED
  BY <1>1, <1>2, <1>3, <1>4 DEF Tables

LEMMA ObtainsOld ==
    ASSUME NEW T \in Tables, NEW s \in DOMAIN T.src, NEW U, U = ObtainSourceDataInstance(T, s)
    PROVE  U = [T EXCEPT !.current = s] /\ U \in Tables
<1>1. s \in Ssrcs
  BY SourceIs DEF Tables
<1> QED
  BY <1>1 DEF ObtainSourceDataInstance, GotoEntry, Tables

LEMMA SetsRtpAddress ==
    ASSUME NEW T \in Tables, NEW s \in DOMAIN T.src, NEW a \in Senders
    PROVE  /\ Only(T, SetAddress(T, s, a, TRUE), s)
           /\ SetAddress(T, s, a, TRUE).src[s] = [T.src[s] EXCEPT !.rtpaddr = a]
<1> DEFINE r == [T.src[s] EXCEPT !.rtpaddr = a]
           U == SetAddress(T, s, a, TRUE)
<1>1. T.src[s] \in SourceRecord
  BY SourceIs DEF Tables
<1>2. r \in SourceRecord
  BY <1>1 DEF SourceRecord
<1>3. U = [T EXCEPT !.src[s] = r]
  BY DEF SetAddress
<1> HIDE DEF r, U
<1>4. Only(T, U, s) /\ U.src[s] = r
  BY <1>2, <1>3, Puts
<1> QED
  BY <1>4 DEF r, U

LEMMA SetsRtcpAddress ==
    ASSUME NEW T \in Tables, NEW s \in DOMAIN T.src, NEW a \in Senders
    PROVE  /\ Only(T, SetAddress(T, s, a, FALSE), s)
           /\ SetAddress(T, s, a, FALSE).src[s] = [T.src[s] EXCEPT !.rtcpaddr = a]
<1> DEFINE r == [T.src[s] EXCEPT !.rtcpaddr = a]
           U == SetAddress(T, s, a, FALSE)
<1>1. T.src[s] \in SourceRecord
  BY SourceIs DEF Tables
<1>2. r \in SourceRecord
  BY <1>1 DEF SourceRecord
<1>3. U = [T EXCEPT !.src[s] = r]
  BY DEF SetAddress
<1> HIDE DEF r, U
<1>4. Only(T, U, s) /\ U.src[s] = r
  BY <1>2, <1>3, Puts
<1> QED
  BY <1>4 DEF r, U

\* An address that is in no conflict keeps the two of a source together.
LEMMA AddressFits ==
    ASSUME NEW o, NEW s, NEW r \in SourceRecord, HostOK(o, s, r), NEW a \in Senders
    PROVE  /\ ~Conflict(r.rtpaddr, r.rtcpaddr, a) => HostOK(o, s, [r EXCEPT !.rtpaddr = a])
           /\ ~Conflict(r.rtcpaddr, r.rtpaddr, a) => HostOK(o, s, [r EXCEPT !.rtcpaddr = a])
<1> USE SourceAssumption
<1>1. /\ r.rtpaddr \in Addresses \cup {Local, NoAddress} /\ r.rtcpaddr \in Addresses \cup {Local, NoAddress}
      /\ a \in Addresses \cup {Local}
  BY DEF SourceRecord, Senders
<1>2. ASSUME ~Conflict(r.rtpaddr, r.rtcpaddr, a) PROVE HostOK(o, s, [r EXCEPT !.rtpaddr = a])
  <2> DEFINE q == [r EXCEPT !.rtpaddr = a]
  <2>1. q.rtpaddr = a /\ q.rtcpaddr = r.rtcpaddr /\ q.own = r.own
    BY DEF SourceRecord
  <2> HIDE DEF q
  <2>2. HostOK(o, s, q)
    BY <1>1, <1>2, <2>1 DEF Conflict, HostOK, IsFromSameHost
  <2> QED
    BY <2>2 DEF q
<1>3. ASSUME ~Conflict(r.rtcpaddr, r.rtpaddr, a) PROVE HostOK(o, s, [r EXCEPT !.rtcpaddr = a])
  <2> DEFINE q == [r EXCEPT !.rtcpaddr = a]
  <2>1. q.rtcpaddr = a /\ q.rtpaddr = r.rtpaddr /\ q.own = r.own
    BY DEF SourceRecord
  <2> HIDE DEF q
  <2>2. HostOK(o, s, q)
    BY <1>1, <1>3, <2>1 DEF Conflict, HostOK, IsFromSameHost
  <2> QED
    BY <2>2 DEF q
<1> QED
  BY <1>2, <1>3

\* The first address of a source.
LEMMA FirstAddressFits ==
    ASSUME NEW o, NEW s, NEW a \in Senders, NEW q \in SourceRecord, ~q.own,
           q.rtpaddr = NoAddress \/ q.rtcpaddr = NoAddress
    PROVE  HostOK(o, s, q)
BY DEF HostOK

\* A table between two calls: the own source is there, and the cursor on a source.
Sound(T) ==
    /\ Good(T)
    /\ T.owndata \in DOMAIN T.src
    /\ T.current \in DOMAIN T.src \cup {NoSsrc}

LEMMA SoundIs ==
    ASSUME NEW T, Sound(T)
    PROVE  /\ Good(T) /\ Shape(T) /\ T \in Tables /\ T.src \in SourceMaps
           /\ \A s \in DOMAIN T.src : /\ s \in Ssrcs /\ T.src[s] \in SourceRecord
                                      /\ HostOK(T.owndata, s, T.src[s])
<1>1. Good(T) /\ Shape(T) /\ T \in Tables /\ T.src \in SourceMaps
  BY DEF Sound, Good, Shape, Tables
<1> QED
  BY <1>1, SourceIs DEF Shape

\* One source changed on the way to U; V has the cursor and the counters set.
LEMMA SoundAfter ==
    ASSUME NEW T, Sound(T), NEW s \in DOMAIN T.src, NEW U, NEW c,
           Only([T EXCEPT !.current = c], U, s),
           c \in DOMAIN T.src \cup {NoSsrc},
           HostOK(T.owndata, s, U.src[s]),
           NEW V \in Tables, V.list = U.list, V.current = U.current, V.owndata = U.owndata,
           V.src = U.src, V.total = U.total, V.announced = U.announced,
           V.senders = T.senders + One(U.src[s].sender) - One(T.src[s].sender),
           V.active + V.missed
             = T.active + T.missed + One(IsActive(U.src[s])) - One(IsActive(T.src[s]))
    PROVE  Sound(V) /\ V.owndata = T.owndata /\ DOMAIN V.src = DOMAIN T.src
<1>1. /\ Good(T) /\ T \in Tables
  BY SoundIs
<1>2. /\ V.list = T.list /\ V.owndata = T.owndata /\ V.announced = T.announced
      /\ DOMAIN V.src = DOMAIN T.src /\ V.total = T.total /\ V.current = c
      /\ \A x \in DOMAIN T.src \ {s} : V.src[x] = T.src[x]
  BY <1>1 DEF Only, Tables
<1>3. Good(V)
  BY <1>1, <1>2, Changes
<1> QED
  BY <1>2, <1>3 DEF Sound

LEMMA MovesCursor ==
    ASSUME NEW T, Sound(T), NEW c \in DOMAIN T.src \cup {NoSsrc}, NEW U, U = [T EXCEPT !.current = c]
    PROVE  Sound(U) /\ U \in Tables /\ U.owndata = T.owndata /\ U.src = T.src
           /\ U.senders = T.senders /\ U.active = T.active /\ U.missed = T.missed
           /\ U.current = c
<1>1. T \in Tables /\ c \in Ssrcs \cup {NoSsrc}
  BY SoundIs
<1>2. /\ U \in Tables /\ U.list = T.list /\ U.owndata = T.owndata /\ U.announced = T.announced
      /\ U.src = T.src /\ U.total = T.total /\ U.senders = T.senders
      /\ U.active = T.active /\ U.missed = T.missed /\ U.current = c
  BY <1>1 DEF Tables
<1>3. /\ U.active + U.missed = T.active + T.missed /\ Good(T)
      /\ T.owndata \in DOMAIN T.src
  BY <1>2 DEF Sound
<1>4. Good(U)
  BY <1>2, <1>3, Stays
<1> QED
  BY <1>2, <1>3, <1>4 DEF Sound

LEMMA Collision ==
    ASSUME NEW T, Sound(T), NEW s \in DOMAIN T.src, NEW U, U = OnSSRCCollision(T, s)
    PROVE  Sound(U) /\ U.owndata = T.owndata /\ U.src = T.src
<1>1. T \in Tables /\ T.src[s] \in SourceRecord
  BY SoundIs
<1>2. (T.owncollision \/ T.src[s].own) \in BOOLEAN
  BY <1>1 DEF Tables, SourceRecord
<1>3. /\ U \in Tables /\ U.list = T.list /\ U.owndata = T.owndata /\ U.announced = T.announced
      /\ U.src = T.src /\ U.total = T.total /\ U.senders = T.senders
      /\ U.active = T.active /\ U.missed = T.missed /\ U.current = T.current
  BY <1>1, <1>2 DEF Tables, OnSSRCCollision
<1>4. /\ U.active + U.missed = T.active + T.missed /\ Good(T)
      /\ T.owndata \in DOMAIN T.src /\ T.current \in DOMAIN T.src \cup {NoSsrc}
  BY <1>3 DEF Sound
<1>5. Good(U)
  BY <1>3, <1>4, Stays
<1> QED
  BY <1>3, <1>4, <1>5 DEF Sound

\* Sources come, and the own one stays the same.
Grows(T, U) == Sound(U) /\ U.owndata = T.owndata /\ DOMAIN T.src \subseteq DOMAIN U.src

\* A table with a new source that was told of and counted.
LEMMA SoundWithNew ==
    ASSUME NEW T, Sound(T), NEW s \in Ssrcs, s \notin DOMAIN T.src,
           NEW U, Only(ObtainSourceDataInstance(T, s), U, s),
           HostOK(T.owndata, s, U.src[s]),
           NEW V \in Tables, V.list = U.list, V.current = U.current, V.owndata = U.owndata,
           V.src = U.src, V.total = U.total, V.missed = U.missed,
           V.announced = U.announced \cup {s},
           V.senders = T.senders + One(U.src[s].sender),
           V.active = T.active + One(IsActive(U.src[s]))
    PROVE  Grows(T, V)
<1> DEFINE W == ObtainSourceDataInstance(T, s)
<1>1. /\ Good(T) /\ Shape(T) /\ T \in Tables
      /\ T.owndata \in DOMAIN T.src
  BY SoundIs DEF Sound
<1>2. /\ W \in Tables /\ W.list = Append(T.list, s) /\ W.current = NoSsrc
      /\ W.owndata = T.owndata /\ W.total = T.total + 1 /\ W.senders = T.senders
      /\ W.active = T.active /\ W.announced = T.announced
      /\ W.owncollision = T.owncollision /\ W.missed = T.missed
      /\ DOMAIN W.src = DOMAIN T.src \cup {s} /\ W.src[s] = NewSource
      /\ \A x \in DOMAIN T.src : W.src[x] = T.src[x]
  BY <1>1, ObtainsNew
<1> HIDE DEF W
<1>3. Only(W, U, s)
  BY DEF W
<1>4. /\ V.list = Append(T.list, s) /\ V.announced = T.announced \cup {s}
      /\ V.owndata = T.owndata /\ DOMAIN V.src = DOMAIN T.src \cup {s}
      /\ V.total = T.total + 1 /\ V.missed = T.missed /\ V.current = NoSsrc
      /\ \A x \in DOMAIN T.src : V.src[x] = T.src[x]
  BY <1>2, <1>3 DEF Only
<1>5. /\ T.active \in Int /\ T.missed \in Int
      /\ One(IsActive(U.src[s])) \in Int
  BY <1>1 DEF Tables, One
<1>6. V.active + V.missed = T.active + T.missed + One(IsActive(V.src[s]))
  BY <1>4, <1>5
<1>7. Good(V)
  BY <1>1, <1>4, <1>6, Adds
<1> QED
  BY <1>1, <1>4, <1>7 DEF Sound, Grows

LEMMA CsrcGrows ==
    ASSUME NEW T, Sound(T), NEW c \in Ssrcs, NEW a \in Senders
    PROVE  Grows(T, ProcessCsrc(T, c, a))
<1> DEFINE U == ObtainSourceDataInstance(T, c)
           V == [U EXCEPT !.src[c].validated = TRUE, !.src[c].csrc = TRUE]
<1>1. T \in Tables /\ Shape(T) /\ Good(T)
  BY SoundIs
<1>2. CASE c \notin DOMAIN T.src
  <2> DEFINE R == OnNewSource([V EXCEPT !.active = @ + One(IsActive(V.src[c]))], c)
             r == [NewSource EXCEPT !.validated = TRUE, !.csrc = TRUE]
  <2>1. U \in Tables /\ c \in DOMAIN U.src /\ U.src[c] = NewSource /\ U.active = T.active
        /\ U.senders = T.senders
    BY <1>1, <1>2, ObtainsNew
  <2>2. r \in SourceRecord /\ IsActive(r) /\ ~r.sender /\ ~r.own
        /\ r.rtpaddr = NoAddress
    BY NewIsRecord DEF SourceRecord, IsActive, NewSource
  <2>3. V = [U EXCEPT !.src[c] = r]
    <3> HIDE DEF U
    <3> QED BY <2>1 DEF Tables
  <2> HIDE DEF V, r
  <2>4. Only(U, V, c) /\ V.src[c] = r
    <3> HIDE DEF U
    <3> QED BY <2>1, <2>2, <2>3, Puts
  <2>5. V \in Tables /\ V.active = T.active /\ V.senders = T.senders
    BY <2>1, <2>4 DEF Only
  <2>6. HostOK(T.owndata, c, r)
    BY <2>2 DEF HostOK
  <2>7. /\ R \in Tables /\ R.list = V.list /\ R.current = V.current /\ R.owndata = V.owndata
        /\ R.src = V.src /\ R.total = V.total /\ R.missed = V.missed
        /\ R.announced = V.announced \cup {c} /\ R.senders = T.senders
        /\ R.active = T.active + One(IsActive(V.src[c]))
    <3> DEFINE n == V.active + One(IsActive(V.src[c]))
               A == V.announced \cup {c}
    <3>1. n \in Int /\ A \in SUBSET Ssrcs
      BY <2>5 DEF Tables, One
    <3>2. R = [V EXCEPT !.active = n, !.announced = A]
      BY <2>5 DEF OnNewSource, Tables
    <3>3. n = T.active + One(IsActive(V.src[c]))
      BY <2>5
    <3> HIDE DEF n, R
    <3> QED
      BY <2>5, <3>1, <3>2, <3>3 DEF Tables
  <2>8. T.senders = T.senders + One(V.src[c].sender)
    BY <1>1, <2>2, <2>4 DEF Tables, One
  <2> HIDE DEF R
  <2>9. Grows(T, R)
    BY <1>2, <2>4, <2>6, <2>7, <2>8, SoundWithNew
  <2>10. ProcessCsrc(T, c, a) = R
    BY <1>2 DEF ProcessCsrc, R, V
  <2> QED
    BY <2>9, <2>10
<1>3. CASE c \in DOMAIN T.src
  <2>1. U = [T EXCEPT !.current = c] /\ U \in Tables
    BY <1>1, <1>3, ObtainsOld
  <2> HIDE DEF U
  <2>2. Sound(U) /\ U.owndata = T.owndata /\ U.src = T.src
        /\ U.senders = T.senders /\ U.active = T.active /\ U.missed = T.missed
    BY <1>3, <2>1, MovesCursor
  <2>3. CASE Collides(U, c, a, TRUE)
    <3>1. ProcessCsrc(T, c, a) = OnSSRCCollision(U, c)
      BY <1>3, <2>3 DEF ProcessCsrc, U
    <3>2. Grows(T, OnSSRCCollision(U, c))
      BY <1>3, <2>2, Collision DEF Grows
    <3> QED
      BY <3>1, <3>2
  <2>4. CASE ~Collides(U, c, a, TRUE)
    <3> DEFINE W == SetAddress(V, c, a, TRUE)
               R == [W EXCEPT !.missed = @ + One(IsActive(V.src[c]) /\ ~IsActive(U.src[c]))]
               r == [T.src[c] EXCEPT !.validated = TRUE, !.csrc = TRUE]
    <3>1. T.src[c] \in SourceRecord /\ HostOK(T.owndata, c, T.src[c])
      BY <1>3, SoundIs
    <3>2. /\ r \in SourceRecord /\ r.own = T.src[c].own /\ r.sender = T.src[c].sender
          /\ r.rtpaddr = T.src[c].rtpaddr /\ r.rtcpaddr = T.src[c].rtcpaddr
          /\ (IsActive(T.src[c]) => IsActive(r))
      BY <3>1 DEF SourceRecord, IsActive
    <3>3. V = [U EXCEPT !.src[c] = r]
      BY ZenonT(60), <1>3, <2>1, <2>2 DEF Tables
    <3> HIDE DEF V, r
    <3>4. Only(U, V, c) /\ V.src[c] = r
      <4>1. U \in Tables /\ c \in DOMAIN U.src /\ r \in SourceRecord
        BY <1>3, <2>1, <2>2, <3>2
      <4> QED
        BY <3>3, <4>1, Puts
    <3>5. Only(V, W, c) /\ W.src[c] = [r EXCEPT !.rtpaddr = a]
      <4>1. V \in Tables /\ c \in DOMAIN V.src
        BY <1>3, <2>2, <3>4 DEF Only
      <4>2. Only(V, W, c) /\ W.src[c] = [V.src[c] EXCEPT !.rtpaddr = a]
        BY ZenonT(60), <4>1, SetsRtpAddress
      <4> HIDE DEF W
      <4> QED
        BY <3>4, <4>2
    <3> HIDE DEF W
    <3>6. Only(U, W, c)
      BY <3>4, <3>5, OnlyTwice
    <3>7. HostOK(T.owndata, c, W.src[c])
      <4>1. ~Conflict(T.src[c].rtpaddr, T.src[c].rtcpaddr, a)
        BY <2>2, <2>4 DEF Collides
      <4>2. HostOK(T.owndata, c, r)
        BY <3>1, <3>2 DEF HostOK
      <4>3. ~Conflict(r.rtpaddr, r.rtcpaddr, a)
        BY <3>2, <4>1
      <4>4. HostOK(T.owndata, c, [r EXCEPT !.rtpaddr = a])
        BY <3>2, <4>2, <4>3, AddressFits
      <4> QED
        BY <3>5, <4>4
    <3>8. /\ W.src[c].sender = T.src[c].sender
          /\ IsActive(W.src[c]) = IsActive(r)
      BY <3>2, <3>5 DEF SourceRecord, IsActive
    <3>9. /\ R \in Tables /\ R.list = W.list /\ R.current = W.current /\ R.owndata = W.owndata
          /\ R.src = W.src /\ R.total = W.total /\ R.announced = W.announced
          /\ R.senders = T.senders /\ R.active = T.active
          /\ R.missed = T.missed + One(IsActive(r) /\ ~IsActive(T.src[c]))
      <4>1. W \in Tables /\ W.senders = T.senders /\ W.active = T.active /\ W.missed = T.missed
        BY <2>2, <3>6 DEF Only
      <4> QED
        BY <2>2, <3>4, <4>1 DEF Tables, One
    <3>10. /\ T.senders = T.senders + One(W.src[c].sender) - One(T.src[c].sender)
           /\ T.active + (T.missed + One(IsActive(r) /\ ~IsActive(T.src[c])))
                = T.active + T.missed + One(IsActive(W.src[c])) - One(IsActive(T.src[c]))
      <4>1. T.senders \in Int /\ T.active \in Int /\ T.missed \in Int
        BY <1>1 DEF Tables
      <4> QED
        BY <3>2, <3>8, <4>1 DEF One
    <3> HIDE DEF R
    <3>11. Sound(R) /\ R.owndata = T.owndata /\ DOMAIN R.src = DOMAIN T.src
      BY <1>3, <2>1, <3>6, <3>7, <3>9, <3>10, SoundAfter
    <3>12. ProcessCsrc(T, c, a) = R
      BY <1>3, <2>4 DEF ProcessCsrc, R, W, V, U
    <3> QED
      BY <3>11, <3>12 DEF Grows
  <2> QED
    BY <2>3, <2>4
<1> QED
  BY <1>2, <1>3
-----------------------------------------------------------------------------
(* RTP packets *)

\* What the statistics and the queue do with a packet, where there is room.
LEMMA PacketKeeps ==
    ASSUME NEW r \in SourceRecord, r.packets < MaxQueue, NEW next \in BOOLEAN, NEW dup \in BOOLEAN,
           NEW q, q = SourceProcessRTPPacket(r, next, dup)
    PROVE  /\ q \in SourceRecord /\ q.own = r.own
           /\ q.rtpaddr = r.rtpaddr /\ q.rtcpaddr = r.rtcpaddr
           /\ (r.sender => q.sender) /\ (IsActive(r) => IsActive(q))
<1> USE SourceAssumption
<1> DEFINE seen == Stats(r, next)
           mid == [seen EXCEPT !.sender = @ \/ (seen.validated /\ ~seen.own)]
<1>1. Probation(r, next) \in 0 .. ProbationCount
  BY DEF Probation, SourceRecord
<1>2. /\ seen \in SourceRecord /\ seen.own = r.own
      /\ seen.rtpaddr = r.rtpaddr /\ seen.rtcpaddr = r.rtcpaddr /\ seen.packets = r.packets
      /\ seen.sender = r.sender /\ (r.validated => seen.validated) /\ seen.receivedbye = r.receivedbye
  <2> DEFINE p == Probation(r, next)
             s1 == [r EXCEPT !.probation = p, !.old = @ \ {"msg"}]
  <2>1. /\ s1 \in SourceRecord /\ s1.own = r.own
        /\ s1.rtpaddr = r.rtpaddr /\ s1.rtcpaddr = r.rtcpaddr /\ s1.packets = r.packets
        /\ s1.sender = r.sender /\ s1.validated = r.validated /\ s1.receivedbye = r.receivedbye
    <3> HIDE DEF p
    <3> QED BY <1>1 DEF SourceRecord, p
  <2>2. seen = IF Accepts(r, next)
               THEN [s1 EXCEPT !.sentdata = TRUE, !.validated = TRUE,
                               !.old = @ \ IF r.own THEN {} ELSE {"rtp"}]
               ELSE s1
    BY DEF Stats
  <2> HIDE DEF s1, seen
  <2> QED
    BY <2>1, <2>2 DEF SourceRecord
<1> HIDE DEF seen
<1>3. /\ mid \in SourceRecord /\ mid.own = r.own /\ mid.validated = seen.validated
      /\ mid.rtpaddr = r.rtpaddr /\ mid.rtcpaddr = r.rtcpaddr /\ mid.packets = r.packets
      /\ (r.sender => mid.sender) /\ mid.receivedbye = r.receivedbye
  BY <1>2 DEF SourceRecord
<1>4. q = Queued(mid, dup)
  BY DEF SourceProcessRTPPacket, seen
<1> HIDE DEF mid
<1>5. PICK n \in 0 .. MaxQueue : q = [mid EXCEPT !.packets = n]
  <2> DEFINE room == IF ~mid.validated /\ mid.packets = MaxProbation THEN mid.packets - 1
                     ELSE mid.packets
  <2>1. r.packets \in 0 .. MaxQueue
    BY DEF SourceRecord
  <2>2. room \in Nat /\ room + 1 \in 0 .. MaxQueue /\ room \in 0 .. MaxQueue
    BY <1>3, <2>1
  <2> QED
    BY <1>4, <2>2 DEF Queued
<1> QED
  BY <1>2, <1>3, <1>5 DEF SourceRecord, IsActive

\* What the counters move by.
LEMMA Moves ==
    ASSUME NEW before \in BOOLEAN, NEW after \in BOOLEAN, before => after
    PROVE  One(~before /\ after) = One(after) - One(before)
BY DEF One

LEMMA ActiveIsBoolean ==
    ASSUME NEW r \in SourceRecord
    PROVE  IsActive(r) \in BOOLEAN /\ r.sender \in BOOLEAN
BY DEF SourceRecord, IsActive

\* The first part of AcceptRTPPacket: the packet itself, before its list of
\* contributors.
Accepted(T, p, s, created) ==
    LET r == T.src[s]
        q == SourceProcessRTPPacket(r, p.next, p.dup)
        U == [T EXCEPT !.src[s] = q,
                       !.senders = @ + One(~r.sender /\ q.sender),
                       !.active = @ + One(~IsActive(r) /\ IsActive(q))]
    IN  IF created THEN OnNewSource(U, s) ELSE U

Packets == [ssrc : Ssrcs, next : BOOLEAN, dup : BOOLEAN, csrcs : Seq(Ssrcs)]

LEMMA AcceptedNew ==
    ASSUME NEW T, Sound(T), NEW p \in Packets, NEW a \in Senders, p.ssrc \notin DOMAIN T.src,
           MaxQueue > 0
    PROVE  Grows(T, Accepted(SetAddress(ObtainSourceDataInstance(T, p.ssrc), p.ssrc, a, TRUE),
                             p, p.ssrc, TRUE))
<1> DEFINE s == p.ssrc
           U == ObtainSourceDataInstance(T, s)
           V == SetAddress(U, s, a, TRUE)
           r == [NewSource EXCEPT !.rtpaddr = a]
           q == SourceProcessRTPPacket(r, p.next, p.dup)
           W == [V EXCEPT !.src[s] = q]
           R == Accepted(V, p, s, TRUE)
<1>1. s \in Ssrcs /\ Shape(T) /\ T \in Tables /\ p.next \in BOOLEAN /\ p.dup \in BOOLEAN
  BY SoundIs DEF Packets
<1>2. /\ U \in Tables /\ U.senders = T.senders /\ U.active = T.active
      /\ s \in DOMAIN U.src /\ U.src[s] = NewSource
  <2> HIDE DEF s
  <2> QED BY <1>1, ObtainsNew DEF s
<1> HIDE DEF s, U
<1>3. Only(U, V, s) /\ V.src[s] = r
  <2>1. Only(U, V, s) /\ V.src[s] = [U.src[s] EXCEPT !.rtpaddr = a]
    BY <1>2, SetsRtpAddress
  <2> HIDE DEF V
  <2> QED
    BY <1>2, <2>1
<1>4. /\ r \in SourceRecord /\ ~r.own /\ ~r.sender /\ ~IsActive(r) /\ r.rtcpaddr = NoAddress
      /\ r.packets < MaxQueue
  BY NewIsRecord DEF NewSource, SourceRecord, IsActive
<1> HIDE DEF r, V
<1>5. /\ q \in SourceRecord /\ ~q.own /\ q.rtcpaddr = NoAddress
  BY <1>1, <1>4, PacketKeeps
<1> HIDE DEF q
<1>6. V \in Tables /\ s \in DOMAIN V.src
  BY <1>2, <1>3 DEF Only
<1>7. Only(V, W, s) /\ W.src[s] = q
  BY <1>5, <1>6, Puts
<1>8. R = OnNewSource([V EXCEPT !.src[s] = q,
                               !.senders = @ + One(~r.sender /\ q.sender),
                               !.active = @ + One(~IsActive(r) /\ IsActive(q))], s)
  BY <1>3 DEF Accepted, q
<1> HIDE DEF R
<1>9. Only(U, W, s)
  BY <1>3, <1>7, OnlyTwice
<1>10. HostOK(T.owndata, s, W.src[s])
  BY <1>5, <1>7, FirstAddressFits
<1>11. /\ R \in Tables /\ R.list = W.list /\ R.current = W.current /\ R.owndata = W.owndata
       /\ R.src = W.src /\ R.total = W.total /\ R.missed = W.missed
       /\ R.announced = W.announced \cup {s}
       /\ R.senders = T.senders + One(W.src[s].sender)
       /\ R.active = T.active + One(IsActive(W.src[s]))
  <2> DEFINE m == V.senders + One(~r.sender /\ q.sender)
             n == V.active + One(~IsActive(r) /\ IsActive(q))
             A == V.announced \cup {s}
  <2>1. m \in Int /\ n \in Int /\ A \in SUBSET Ssrcs
    BY <1>1, <1>6 DEF Tables, One
  <2>2. m = T.senders + One(q.sender) /\ n = T.active + One(IsActive(q))
    BY <1>2, <1>3, <1>4 DEF Only, One
  <2>3. W \in Tables /\ W.announced = V.announced
    BY <1>7 DEF Only
  <2>4. R = [W EXCEPT !.senders = m, !.active = n, !.announced = A]
    BY <1>6, <1>8 DEF OnNewSource, Tables
  <2> HIDE DEF m, n, W
  <2> QED
    BY <1>7, <2>1, <2>2, <2>3, <2>4 DEF Tables
<1> HIDE DEF W
<1>12. Grows(T, R)
  <2>1. s \notin DOMAIN T.src
    BY DEF s
  <2>2. Only(ObtainSourceDataInstance(T, s), W, s)
    BY <1>9 DEF U
  <2> QED
    BY <1>1, <1>10, <1>11, <2>1, <2>2, SoundWithNew
<1> QED
  BY <1>12 DEF R, V, U, s

LEMMA AcceptedOld ==
    ASSUME NEW T, Sound(T), NEW p \in Packets, NEW a \in Senders, p.ssrc \in DOMAIN T.src,
           T.src[p.ssrc].packets < MaxQueue,
           ~Conflict(T.src[p.ssrc].rtpaddr, T.src[p.ssrc].rtcpaddr, a)
    PROVE  Grows(T, Accepted(SetAddress(ObtainSourceDataInstance(T, p.ssrc), p.ssrc, a, TRUE),
                             p, p.ssrc, FALSE))
<1> DEFINE s == p.ssrc
           U == ObtainSourceDataInstance(T, s)
           V == SetAddress(U, s, a, TRUE)
           o == T.src[s]
           r == [o EXCEPT !.rtpaddr = a]
           q == SourceProcessRTPPacket(r, p.next, p.dup)
           W == [V EXCEPT !.src[s] = q]
           R == Accepted(V, p, s, FALSE)
<1>1. s \in Ssrcs /\ Shape(T) /\ T \in Tables /\ p.next \in BOOLEAN /\ p.dup \in BOOLEAN
      /\ s \in DOMAIN T.src /\ o \in SourceRecord /\ HostOK(T.owndata, s, o)
      /\ o.packets < MaxQueue /\ ~Conflict(o.rtpaddr, o.rtcpaddr, a)
  BY SoundIs DEF Packets
<1> HIDE DEF s, o
<1>2. /\ U = [T EXCEPT !.current = s] /\ U \in Tables
  BY <1>1, ObtainsOld
<1> HIDE DEF U
<1>3. /\ U.src = T.src /\ U.senders = T.senders /\ U.active = T.active /\ U.missed = T.missed
  BY <1>1, <1>2 DEF Tables
<1>4. Only(U, V, s) /\ V.src[s] = r
  <2>1. s \in DOMAIN U.src /\ U.src[s] = o
    BY <1>1, <1>3 DEF o
  <2>0. U \in Tables
    BY <1>2
  <2>2. Only(U, V, s) /\ V.src[s] = [U.src[s] EXCEPT !.rtpaddr = a]
    BY ZenonT(60), <2>0, <2>1, SetsRtpAddress
  <2> HIDE DEF V
  <2> QED
    BY <2>1, <2>2
<1>5. /\ r \in SourceRecord /\ r.packets < MaxQueue /\ r.sender = o.sender
      /\ IsActive(r) = IsActive(o) /\ HostOK(T.owndata, s, r)
  <2>1. HostOK(T.owndata, s, r)
    BY <1>1, AddressFits
  <2> QED
    BY <1>1, <2>1 DEF SourceRecord, IsActive
<1> HIDE DEF r, V
<1>6. /\ q \in SourceRecord /\ HostOK(T.owndata, s, q)
      /\ (r.sender => q.sender) /\ (IsActive(r) => IsActive(q))
  <2>1. /\ q \in SourceRecord /\ q.own = r.own
        /\ q.rtpaddr = r.rtpaddr /\ q.rtcpaddr = r.rtcpaddr
        /\ (r.sender => q.sender) /\ (IsActive(r) => IsActive(q))
    BY <1>1, <1>5, PacketKeeps
  <2> HIDE DEF q
  <2> QED
    BY <1>5, <2>1 DEF HostOK
<1> HIDE DEF q
<1>7. V \in Tables /\ s \in DOMAIN V.src
  BY <1>1, <1>3, <1>4 DEF Only
<1>8. Only(V, W, s) /\ W.src[s] = q
  BY <1>6, <1>7, Puts
<1>9. R = [V EXCEPT !.src[s] = q,
                    !.senders = @ + One(~r.sender /\ q.sender),
                    !.active = @ + One(~IsActive(r) /\ IsActive(q))]
  BY <1>4 DEF Accepted, q
<1> HIDE DEF R
<1>10. Only(U, W, s)
  BY <1>4, <1>8, OnlyTwice
<1>11. /\ R \in Tables /\ R.list = W.list /\ R.current = W.current /\ R.owndata = W.owndata
       /\ R.src = W.src /\ R.total = W.total /\ R.announced = W.announced
       /\ R.senders = T.senders + One(W.src[s].sender) - One(o.sender)
       /\ R.active + R.missed = T.active + T.missed + One(IsActive(W.src[s])) - One(IsActive(o))
  <2> DEFINE m == V.senders + One(~r.sender /\ q.sender)
             n == V.active + One(~IsActive(r) /\ IsActive(q))
  <2>1. m \in Int /\ n \in Int /\ V.senders = T.senders /\ V.active = T.active
        /\ V.missed = T.missed /\ T.senders \in Int /\ T.active \in Int /\ T.missed \in Int
    BY <1>1, <1>3, <1>4, <1>7 DEF Tables, One, Only
  <2>2. /\ m = T.senders + One(q.sender) - One(o.sender)
        /\ n = T.active + One(IsActive(q)) - One(IsActive(o))
    <3>1. /\ One(~r.sender /\ q.sender) = One(q.sender) - One(r.sender)
          /\ One(~IsActive(r) /\ IsActive(q)) = One(IsActive(q)) - One(IsActive(r))
      BY <1>5, <1>6, Moves, ActiveIsBoolean
    <3> QED
      BY <1>5, <2>1, <3>1 DEF One
  <2>3. W \in Tables /\ W.missed = T.missed
    BY <1>8, <2>1 DEF Only
  <2>4. R = [W EXCEPT !.senders = m, !.active = n]
    BY <1>7, <1>9 DEF Tables
  <2>5. n + T.missed = T.active + T.missed + One(IsActive(q)) - One(IsActive(o))
    BY <2>1, <2>2 DEF One
  <2> HIDE DEF m, n, W
  <2> QED
    BY <1>8, <2>1, <2>2, <2>3, <2>4, <2>5 DEF Tables
<1> HIDE DEF W
<1>12. Sound(R) /\ R.owndata = T.owndata /\ DOMAIN R.src = DOMAIN T.src
  <2>1. HostOK(T.owndata, s, W.src[s]) /\ o = T.src[s]
    BY <1>6, <1>8 DEF o
  <2> QED
    BY SMTT(40), <1>1, <1>2, <1>10, <1>11, <2>1, SoundAfter
<1> QED
  BY <1>12 DEF R, V, U, s, Grows

LEMMA GrowsOn ==
    ASSUME NEW T, NEW U, NEW V, Grows(T, U), Grows(U, V)
    PROVE  Grows(T, V)
BY DEF Grows

\* The contributors of a packet, one after the other.
LEMMA CsrcsGrow ==
    ASSUME NEW T, Sound(T), NEW q \in Seq(Ssrcs), NEW a \in Senders
    PROVE  Grows(T, ProcessCsrcs(T, q, a))
<1> DEFINE I == [k \in 0 .. Len(q) |-> {U \in Tables : Grows(T, U)}]
<1>1. PICK g : Unrolls("csrc", a, T, q, Len(q), g) /\ ProcessCsrcs(T, q, a) = g[Len(q)]
  BY CsrcFold
<1>2. Len(q) \in Nat
  OBVIOUS
<1>3. T \in I[0]
  BY <1>2, SoundIs DEF Grows
<1>4. ASSUME NEW k \in 0 .. Len(q) - 1, NEW U \in I[k]
      PROVE  Apply("csrc", a, U, q[k + 1]) \in I[k + 1]
  <2>1. Grows(T, U) /\ Sound(U) /\ q[k + 1] \in Ssrcs
    BY DEF Grows
  <2>2. Grows(T, ProcessCsrc(U, q[k + 1], a))
    BY <2>1, CsrcGrows, GrowsOn
  <2>3. ProcessCsrc(U, q[k + 1], a) \in Tables
    BY <2>2, SoundIs DEF Grows
  <2> QED
    BY <2>2, <2>3 DEF Apply
<1>5. g[Len(q)] \in I[Len(q)]
  <2> HIDE DEF I
  <2> QED BY <1>1, <1>2, <1>3, <1>4, FoldKeeps
<1> QED
  BY <1>1, <1>2, <1>5

\* A packet is accepted with or without its contributors.
LEMMA AcceptIs ==
    ASSUME NEW T, NEW p, NEW a, NEW created
    PROVE  AcceptRTPPacket(T, p, a, created)
             \in {Accepted(T, p, p.ssrc, created),
                  ProcessCsrcs(Accepted(T, p, p.ssrc, created), p.csrcs, a)}
BY DEF AcceptRTPPacket, Accepted

LEMMA AcceptGrows ==
    ASSUME NEW T, NEW U, NEW p \in Packets, NEW a \in Senders, NEW created,
           Grows(T, Accepted(U, p, p.ssrc, created))
    PROVE  Grows(T, AcceptRTPPacket(U, p, a, created))
<1> DEFINE V == Accepted(U, p, p.ssrc, created)
           W == AcceptRTPPacket(U, p, a, created)
<1>1. W \in {V, ProcessCsrcs(V, p.csrcs, a)}
  BY AcceptIs
<1>2. Grows(T, V) /\ Sound(V) /\ p.csrcs \in Seq(Ssrcs)
  BY DEF Grows, Packets
<1> HIDE DEF V, W
<1>3. Grows(V, ProcessCsrcs(V, p.csrcs, a))
  BY <1>2, CsrcsGrow
<1>4. Grows(T, ProcessCsrcs(V, p.csrcs, a))
  BY <1>2, <1>3, GrowsOn
<1>5. Grows(T, W)
  BY <1>1, <1>2, <1>4
<1> QED
  BY <1>5 DEF W

\* A source in conflict: the cursor is on it, and a collision with the own one
\* is noted.
LEMMA ConflictGrows ==
    ASSUME NEW T, Sound(T), NEW s \in DOMAIN T.src
    PROVE  Grows(T, OnSSRCCollision(ObtainSourceDataInstance(T, s), s))
<1> DEFINE U == ObtainSourceDataInstance(T, s)
<1>1. T \in Tables
  BY SoundIs
<1>2. U = [T EXCEPT !.current = s]
  BY <1>1, ObtainsOld
<1> HIDE DEF U
<1>3. Sound(U) /\ U.owndata = T.owndata /\ U.src = T.src
  BY <1>2, MovesCursor
<1>4. Sound(OnSSRCCollision(U, s)) /\ OnSSRCCollision(U, s).owndata = U.owndata
      /\ OnSSRCCollision(U, s).src = U.src
  BY <1>3, Collision
<1>5. Grows(T, OnSSRCCollision(U, s))
  BY <1>3, <1>4 DEF Grows
<1> QED
  BY <1>5 DEF U

LEMMA RtpGrows ==
    ASSUME NEW T, Sound(T), NEW p \in Packets, NEW a \in Senders, MaxQueue > 0,
           \A s \in DOMAIN T.src : T.src[s].packets < MaxQueue
    PROVE  Grows(T, ProcessRTPPacket(T, p, a))
<1> DEFINE s == p.ssrc
           U == ObtainSourceDataInstance(T, s)
           V == SetAddress(U, s, a, TRUE)
<1>1. CASE s \notin DOMAIN T.src
  <2>1. ProcessRTPPacket(T, p, a) = AcceptRTPPacket(V, p, a, TRUE)
    BY <1>1 DEF ProcessRTPPacket
  <2>2. Grows(T, Accepted(V, p, p.ssrc, TRUE))
    BY <1>1, AcceptedNew
  <2> HIDE DEF V
  <2>3. Grows(T, AcceptRTPPacket(V, p, a, TRUE))
    BY <2>2, AcceptGrows
  <2> QED
    BY <2>1, <2>3
<1>2. CASE s \in DOMAIN T.src
  <2>1. Collides(U, s, a, TRUE) <=> Conflict(T.src[s].rtpaddr, T.src[s].rtcpaddr, a)
    <3>1. T \in Tables
      BY SoundIs
    <3>2. U = [T EXCEPT !.current = s]
      BY <1>2, <3>1, ObtainsOld
    <3> HIDE DEF U
    <3>3. U.src = T.src
      BY <3>1, <3>2 DEF Tables
    <3> QED
      BY <3>3 DEF Collides
  <2>2. CASE Collides(U, s, a, TRUE)
    <3>1. ProcessRTPPacket(T, p, a) = OnSSRCCollision(U, s)
      BY <1>2, <2>2 DEF ProcessRTPPacket, CheckCollision
    <3> QED
      BY <1>2, <3>1, ConflictGrows
  <2>3. CASE ~Collides(U, s, a, TRUE)
    <3>1. ProcessRTPPacket(T, p, a) = AcceptRTPPacket(V, p, a, FALSE)
      BY <1>2, <2>3 DEF ProcessRTPPacket, CheckCollision
    <3>2. Grows(T, Accepted(V, p, p.ssrc, FALSE))
      BY <1>2, <2>1, <2>3, AcceptedOld
    <3> HIDE DEF V
    <3>3. Grows(T, AcceptRTPPacket(V, p, a, FALSE))
      BY <3>2, AcceptGrows
    <3> QED
      BY <3>1, <3>3
  <2> QED
    BY <2>2, <2>3
<1> QED
  BY <1>1, <1>2
-----------------------------------------------------------------------------
(* RTCP packets *)

\* One source and the counters change.
LEMMA Updates ==
    ASSUME NEW T, Sound(T), NEW s \in DOMAIN T.src, NEW r \in SourceRecord,
           HostOK(T.owndata, s, r), NEW m, NEW n,
           m = T.senders + One(r.sender) - One(T.src[s].sender),
           n = T.active + One(IsActive(r)) - One(IsActive(T.src[s])),
           NEW U, U = [T EXCEPT !.src[s] = r, !.senders = m, !.active = n]
    PROVE  Grows(T, U)
<1> DEFINE W == [T EXCEPT !.src[s] = r]
<1>1. /\ Good(T) /\ T \in Tables /\ T.owndata \in DOMAIN T.src
      /\ T.current \in DOMAIN T.src \cup {NoSsrc}
  BY SoundIs DEF Sound
<1>2. m \in Int /\ n \in Int
  BY <1>1 DEF Tables, One
<1>3. Only(T, W, s) /\ W.src[s] = r
  BY <1>1, Puts
<1>4. U = [W EXCEPT !.senders = m, !.active = n]
  BY <1>1 DEF Tables
<1> HIDE DEF W
<1>5. /\ U \in Tables /\ U.list = T.list /\ U.owndata = T.owndata /\ U.announced = T.announced
      /\ U.total = T.total /\ U.missed = T.missed /\ U.current = T.current
      /\ DOMAIN U.src = DOMAIN T.src /\ U.src[s] = r
      /\ \A x \in DOMAIN T.src \ {s} : U.src[x] = T.src[x]
      /\ U.senders = m /\ U.active = n
  <2>1. /\ W \in Tables /\ W.list = T.list /\ W.owndata = T.owndata /\ W.announced = T.announced
        /\ W.total = T.total /\ W.missed = T.missed /\ W.current = T.current
        /\ DOMAIN W.src = DOMAIN T.src /\ W.src[s] = r
        /\ \A x \in DOMAIN T.src \ {s} : W.src[x] = T.src[x]
    BY <1>3 DEF Only
  <2>2. /\ U \in Tables /\ U.list = W.list /\ U.owndata = W.owndata /\ U.announced = W.announced
        /\ U.total = W.total /\ U.missed = W.missed /\ U.current = W.current /\ U.src = W.src
        /\ U.senders = m /\ U.active = n
    BY <1>2, <1>4, <2>1 DEF Tables
  <2> QED
    BY <2>1, <2>2
<1>6. /\ U.active + U.missed = T.active + T.missed + One(IsActive(U.src[s])) - One(IsActive(T.src[s]))
      /\ U.senders = T.senders + One(U.src[s].sender) - One(T.src[s].sender)
  <2>1. T.active \in Int /\ T.missed \in Int /\ One(IsActive(r)) \in Int
        /\ One(IsActive(T.src[s])) \in Int
    BY <1>1 DEF Tables, One
  <2> QED
    BY <1>5, <2>1
<1>7. Good(U)
  <2>1. HostOK(T.owndata, s, U.src[s])
    BY <1>5
  <2> QED
    BY ZenonT(60), <1>1, <1>5, <1>6, <2>1, Changes
<1> QED
  BY <1>1, <1>5, <1>7 DEF Sound, Grows

\* One source changes in what is not counted, its addresses left alone.
LEMMA Touches ==
    ASSUME NEW T, Sound(T), NEW s \in DOMAIN T.src, NEW r \in SourceRecord,
           r.own = T.src[s].own, r.rtpaddr = T.src[s].rtpaddr, r.rtcpaddr = T.src[s].rtcpaddr,
           r.sender = T.src[s].sender, IsActive(r) = IsActive(T.src[s]),
           NEW U, U = [T EXCEPT !.src[s] = r]
    PROVE  Grows(T, U)
<1>1. T \in Tables /\ HostOK(T.owndata, s, T.src[s])
  BY SoundIs
<1>2. HostOK(T.owndata, s, r)
  BY <1>1 DEF HostOK
<1> DEFINE m == T.senders
           n == T.active
           V == [T EXCEPT !.src[s] = r, !.senders = m, !.active = n]
<1>3. /\ m \in Int /\ n \in Int
      /\ U = V
  BY <1>1 DEF Tables
<1>4. /\ m = T.senders + One(r.sender) - One(T.src[s].sender)
      /\ n = T.active + One(IsActive(r)) - One(IsActive(T.src[s]))
  BY <1>3 DEF One
<1> HIDE DEF m, n
<1>5. Grows(T, V)
  BY <1>2, <1>4, Updates
<1> HIDE DEF V
<1> QED
  BY <1>3, <1>5

LEMMA HeardKeeps ==
    ASSUME NEW r \in SourceRecord, NEW stamps \in SUBSET Stamps
    PROVE  LET q == Heard(r, stamps)
           IN  /\ q \in SourceRecord /\ q.own = r.own
               /\ q.rtpaddr = r.rtpaddr /\ q.rtcpaddr = r.rtcpaddr
               /\ q.sender = r.sender /\ IsActive(q) = IsActive(r)
               /\ q.validated = r.validated /\ q.receivedbye = r.receivedbye
BY DEF Heard, SourceRecord, IsActive

\* The source of an RTCP item is found or comes.
LEMMA SourceDataGrows ==
    ASSUME NEW T, Sound(T), NEW s \in Ssrcs, NEW a \in Senders,
           NEW R, R = GetRTCPSourceData(T, s, a)
    PROVE  Grows(T, R.table) /\ (R.found => s \in DOMAIN R.table.src)
<1> DEFINE U == ObtainSourceDataInstance(T, s)
           V == SetAddress(U, s, a, FALSE)
<1>1. T \in Tables /\ Shape(T)
  BY SoundIs
<1>2. CASE s \notin DOMAIN T.src
  <2> DEFINE W == OnNewSource(V, s)
  <2>1. R.table = W
    BY <1>2 DEF GetRTCPSourceData
  <2>2. /\ U \in Tables /\ s \in DOMAIN U.src /\ U.src[s] = NewSource
        /\ U.senders = T.senders /\ U.active = T.active
    BY <1>1, <1>2, ObtainsNew
  <2>3. Only(U, V, s) /\ V.src[s] = [NewSource EXCEPT !.rtcpaddr = a]
    <3> HIDE DEF U
    <3>1. Only(U, V, s) /\ V.src[s] = [U.src[s] EXCEPT !.rtcpaddr = a]
      BY <2>2, SetsRtcpAddress
    <3> HIDE DEF V
    <3> QED
      BY <2>2, <3>1
  <2> HIDE DEF V
  <2>4. /\ V.src[s] \in SourceRecord /\ ~V.src[s].own /\ V.src[s].rtpaddr = NoAddress
        /\ ~V.src[s].sender /\ ~IsActive(V.src[s])
    BY <2>3, NewIsRecord DEF NewSource, SourceRecord, IsActive
  <2>5. HostOK(T.owndata, s, V.src[s])
    BY <2>4, FirstAddressFits
  <2>6. /\ W \in Tables /\ W.list = V.list /\ W.current = V.current /\ W.owndata = V.owndata
        /\ W.src = V.src /\ W.total = V.total /\ W.missed = V.missed
        /\ W.announced = V.announced \cup {s} /\ W.senders = T.senders /\ W.active = T.active
    BY <2>2, <2>3 DEF Only, Tables, OnNewSource
  <2>7. /\ W.senders = T.senders + One(V.src[s].sender)
        /\ W.active = T.active + One(IsActive(V.src[s]))
    BY <1>1, <2>4, <2>6 DEF Tables, One
  <2> HIDE DEF W
  <2>8. Grows(T, W)
    <3>1. Only(ObtainSourceDataInstance(T, s), V, s)
      BY <2>3
    <3> HIDE DEF U
    <3> QED
      BY <1>2, <2>5, <2>6, <2>7, <3>1, SoundWithNew
  <2>9. s \in DOMAIN W.src
    BY <2>2, <2>3, <2>6 DEF Only
  <2> QED
    BY <2>1, <2>8, <2>9
<1>3. CASE s \in DOMAIN T.src
  <2>1. U = [T EXCEPT !.current = s] /\ U \in Tables
    BY <1>1, <1>3, ObtainsOld
  <2>2. CASE Collides(U, s, a, FALSE)
    <3>1. R.table = OnSSRCCollision(U, s) /\ ~R.found
      BY <1>3, <2>2 DEF GetRTCPSourceData, CheckCollision
    <3> QED
      BY <1>3, <3>1, ConflictGrows
  <2>3. CASE ~Collides(U, s, a, FALSE)
    <3>1. R.table = V
      BY <1>3, <2>3 DEF GetRTCPSourceData, CheckCollision
    <3> HIDE DEF U
    <3>2. U.src = T.src /\ U.senders = T.senders /\ U.active = T.active /\ U.missed = T.missed
      BY <1>1, <2>1 DEF Tables
    <3>3. T.src[s] \in SourceRecord /\ HostOK(T.owndata, s, T.src[s])
      BY <1>3, SoundIs
    <3>4. ~Conflict(T.src[s].rtcpaddr, T.src[s].rtpaddr, a)
      BY <2>3, <3>2 DEF Collides
    <3>5. HostOK(T.owndata, s, [T.src[s] EXCEPT !.rtcpaddr = a])
      BY <3>3, <3>4, AddressFits
    <3>6. Only(U, V, s) /\ V.src[s] = [T.src[s] EXCEPT !.rtcpaddr = a]
      <4>1. s \in DOMAIN U.src
        BY <1>3, <3>2
      <4>2. U \in Tables
        BY <2>1
      <4>3. Only(U, V, s) /\ V.src[s] = [U.src[s] EXCEPT !.rtcpaddr = a]
        BY ZenonT(60), <4>1, <4>2, SetsRtcpAddress
      <4> HIDE DEF V
      <4> QED
        BY <3>2, <4>3
    <3> HIDE DEF V
    <3>7. V.src[s].sender = T.src[s].sender /\ IsActive(V.src[s]) = IsActive(T.src[s])
      BY <3>3, <3>6 DEF SourceRecord, IsActive
    <3>8. V \in Tables /\ V.senders = T.senders /\ V.active = T.active /\ V.missed = T.missed
      BY <3>2, <3>6 DEF Only
    <3>9. /\ V.senders = T.senders + One(V.src[s].sender) - One(T.src[s].sender)
          /\ V.active + V.missed
               = T.active + T.missed + One(IsActive(V.src[s])) - One(IsActive(T.src[s]))
      <4>1. T.senders \in Int /\ T.active \in Int /\ T.missed \in Int
        BY <1>1 DEF Tables
      <4> QED
        BY <3>7, <3>8, <4>1 DEF One
    <3>10. HostOK(T.owndata, s, V.src[s])
      BY <3>5, <3>6
    <3>11. Sound(V) /\ V.owndata = T.owndata /\ DOMAIN V.src = DOMAIN T.src
      <4>1. Only([T EXCEPT !.current = s], V, s)
        BY <2>1, <3>6
      <4>2. s \in DOMAIN T.src \cup {NoSsrc}
        BY <1>3
      <4> QED
        BY <1>3, <3>8, <3>9, <3>10, <4>1, <4>2, SoundAfter
    <3> QED
      BY <1>3, <3>1, <3>11 DEF Grows
  <2> QED
    BY <2>2, <2>3
<1> QED
  BY <1>2, <1>3

ItemSet ==
    [kind : {"sr", "rr", "priv", "name", "note", "cname", "bye"}, ssrc : Ssrcs,
     value : Cnames \cup {NoName}]

LEMMA SdesKeeps ==
    ASSUME NEW r \in SourceRecord, NEW kind, NEW value \in Cnames \cup {NoName},
           NEW q, q = SourceProcessSDESItem(r, kind, value)
    PROVE  /\ q \in SourceRecord /\ q.own = r.own
           /\ q.rtpaddr = r.rtpaddr /\ q.rtcpaddr = r.rtcpaddr
           /\ q.sender = r.sender /\ (IsActive(r) => IsActive(q))
<1> DEFINE h == Heard(r, {"msg"})
           n == Heard(h, {"note"})
<1>1. /\ {"msg"} \in SUBSET Stamps /\ {"note"} \in SUBSET Stamps
  BY DEF Stamps
<1>2. /\ h \in SourceRecord /\ h.own = r.own
      /\ h.rtpaddr = r.rtpaddr /\ h.rtcpaddr = r.rtcpaddr
      /\ h.sender = r.sender /\ h.validated = r.validated /\ h.receivedbye = r.receivedbye
  BY <1>1, HeardKeeps
<1> HIDE DEF h
<1>3. /\ n \in SourceRecord /\ n.own = r.own
      /\ n.rtpaddr = r.rtpaddr /\ n.rtcpaddr = r.rtcpaddr
      /\ n.sender = r.sender /\ n.validated = r.validated /\ n.receivedbye = r.receivedbye
  BY <1>1, <1>2, HeardKeeps
<1> HIDE DEF n
<1>4. q \in {h, [h EXCEPT !.cname = value, !.validated = TRUE], [n EXCEPT !.note = TRUE]}
  BY DEF SourceProcessSDESItem, h, n
<1> QED
  BY ZenonT(60), <1>2, <1>3, <1>4 DEF SourceRecord, IsActive

LEMMA ByeKeeps ==
    ASSUME NEW r \in SourceRecord, NEW q, q = SourceProcessBYEPacket(r)
    PROVE  /\ q \in SourceRecord /\ q.own = r.own
           /\ q.rtpaddr = r.rtpaddr /\ q.rtcpaddr = r.rtcpaddr
           /\ q.sender = r.sender /\ (IsActive(q) => IsActive(r))
<1> DEFINE h == Heard(r, {"msg", "bye"})
<1>1. {"msg", "bye"} \in SUBSET Stamps
  BY DEF Stamps
<1>2. /\ h \in SourceRecord /\ h.own = r.own
      /\ h.rtpaddr = r.rtpaddr /\ h.rtcpaddr = r.rtcpaddr
      /\ h.sender = r.sender /\ h.validated = r.validated /\ h.receivedbye = r.receivedbye
  BY <1>1, HeardKeeps
<1>3. q = [h EXCEPT !.receivedbye = TRUE]
  BY DEF SourceProcessBYEPacket
<1> HIDE DEF h
<1> QED
  BY <1>2, <1>3 DEF SourceRecord, IsActive

\* A source is heard of.
LEMMA HearsGrows ==
    ASSUME NEW T, Sound(T), NEW s \in DOMAIN T.src,
           NEW U, U = [T EXCEPT !.src[s] = Heard(@, {"msg"})]
    PROVE  Grows(T, U)
<1> DEFINE r == Heard(T.src[s], {"msg"})
<1>1. T.src[s] \in SourceRecord /\ {"msg"} \in SUBSET Stamps
  BY SoundIs DEF Stamps
<1>2. /\ r \in SourceRecord /\ r.own = T.src[s].own
      /\ r.rtpaddr = T.src[s].rtpaddr /\ r.rtcpaddr = T.src[s].rtcpaddr
      /\ r.sender = T.src[s].sender /\ IsActive(r) = IsActive(T.src[s])
  BY <1>1, HeardKeeps
<1>3. U = [T EXCEPT !.src[s] = r]
  OBVIOUS
<1> HIDE DEF r
<1> QED
  BY <1>2, <1>3, Touches

LEMMA SdesGrows ==
    ASSUME NEW T, Sound(T), NEW s \in DOMAIN T.src, NEW kind, NEW value \in Cnames \cup {NoName}
    PROVE  Grows(T, ProcessSDESNormalItem(T, s, kind, value))
<1> DEFINE o == T.src[s]
           q == SourceProcessSDESItem(o, kind, value)
           n == T.active + One(~IsActive(o) /\ IsActive(q))
           U == [T EXCEPT !.src[s] = q, !.senders = T.senders, !.active = n]
<1>1. T \in Tables /\ o \in SourceRecord /\ HostOK(T.owndata, s, o)
  BY SoundIs
<1>2. /\ q \in SourceRecord /\ q.own = o.own
      /\ q.rtpaddr = o.rtpaddr /\ q.rtcpaddr = o.rtcpaddr
      /\ q.sender = o.sender /\ (IsActive(o) => IsActive(q))
  <2> HIDE DEF o
  <2> QED BY <1>1, SdesKeeps
<1>3. ProcessSDESNormalItem(T, s, kind, value) = U
  <2>1. ProcessSDESNormalItem(T, s, kind, value) = [T EXCEPT !.src[s] = q, !.active = n]
    BY DEF ProcessSDESNormalItem
  <2> HIDE DEF q, n
  <2> QED
    BY <1>1, <2>1 DEF Tables
<1> HIDE DEF q
<1>4. HostOK(T.owndata, s, q)
  BY <1>1, <1>2 DEF HostOK
<1>5. /\ T.senders = T.senders + One(q.sender) - One(o.sender)
      /\ n = T.active + One(IsActive(q)) - One(IsActive(o))
  <2>1. T.senders \in Int /\ T.active \in Int
    BY <1>1 DEF Tables
  <2>2. One(~IsActive(o) /\ IsActive(q)) = One(IsActive(q)) - One(IsActive(o))
    BY <1>1, <1>2, Moves, ActiveIsBoolean
  <2> HIDE DEF o
  <2> QED
    BY <1>2, <2>1, <2>2 DEF One
<1> DEFINE m == T.senders
<1>6. m = T.senders + One(q.sender) - One(T.src[s].sender)
  BY <1>5
<1>7. n = T.active + One(IsActive(q)) - One(IsActive(T.src[s]))
  BY <1>5
<1>8. U = [T EXCEPT !.src[s] = q, !.senders = m, !.active = n]
  OBVIOUS
<1> HIDE DEF m, n, U, o
<1>9. Grows(T, U)
  BY <1>2, <1>4, <1>6, <1>7, <1>8, Updates
<1> QED
  BY <1>3, <1>9

LEMMA ByeGrows ==
    ASSUME NEW T, Sound(T), NEW s \in DOMAIN T.src
    PROVE  Grows(T, ProcessBYE(T, s))
<1>1. CASE s = T.owndata
  BY <1>1 DEF ProcessBYE, Grows
<1>2. CASE s # T.owndata
  <2> DEFINE o == T.src[s]
             q == SourceProcessBYEPacket(o)
             n == T.active - One(IsActive(o) /\ ~IsActive(q))
             m == T.senders
             U == [T EXCEPT !.src[s] = q, !.senders = m, !.active = n]
  <2>1. T \in Tables /\ o \in SourceRecord /\ HostOK(T.owndata, s, o)
    BY SoundIs
  <2>2. /\ q \in SourceRecord /\ q.own = o.own
        /\ q.rtpaddr = o.rtpaddr /\ q.rtcpaddr = o.rtcpaddr
        /\ q.sender = o.sender /\ (IsActive(q) => IsActive(o))
    <3> HIDE DEF o
    <3> QED BY <2>1, ByeKeeps
  <2>3. ProcessBYE(T, s) = U
    <3>1. ProcessBYE(T, s) = [T EXCEPT !.src[s] = q, !.active = n]
      BY <1>2 DEF ProcessBYE
    <3> HIDE DEF q, n
    <3> QED
      BY <2>1, <3>1 DEF Tables
  <2> HIDE DEF q
  <2>4. HostOK(T.owndata, s, q)
    BY <2>1, <2>2 DEF HostOK
  <2>5. /\ T.senders = T.senders + One(q.sender) - One(o.sender)
        /\ n = T.active + One(IsActive(q)) - One(IsActive(o))
    <3>1. T.senders \in Int /\ T.active \in Int
      BY <2>1 DEF Tables
    <3>2. One(~IsActive(q) /\ IsActive(o)) = One(IsActive(o)) - One(IsActive(q))
      BY <2>1, <2>2, Moves, ActiveIsBoolean
    <3>3. One(IsActive(o) /\ ~IsActive(q)) = One(~IsActive(q) /\ IsActive(o))
      BY DEF One
    <3> HIDE DEF o
    <3> QED
      BY <2>2, <3>1, <3>2, <3>3 DEF One
  <2>6. m = T.senders + One(q.sender) - One(T.src[s].sender)
    BY <2>5
  <2>7. n = T.active + One(IsActive(q)) - One(IsActive(T.src[s]))
    BY <2>5
  <2>8. U = [T EXCEPT !.src[s] = q, !.senders = m, !.active = n]
    OBVIOUS
  <2> HIDE DEF m, n, U, o
  <2>9. Grows(T, U)
    BY <2>2, <2>4, <2>6, <2>7, <2>8, Updates
  <2> QED
    BY <2>3, <2>9
<1> QED
  BY <1>1, <1>2

LEMMA ItemGrows ==
    ASSUME NEW T, Sound(T), NEW i \in ItemSet, NEW a \in Senders
    PROVE  Grows(T, ProcessItem(T, i, a))
<1> DEFINE got == GetRTCPSourceData(T, i.ssrc, a)
           U == got.table
           V == ProcessItem(T, i, a)
<1>1. /\ i.ssrc \in Ssrcs /\ i.value \in Cnames \cup {NoName}
      /\ i.kind \in {"sr", "rr", "priv", "name", "note", "cname", "bye"}
  BY DEF ItemSet
<1>2. Grows(T, U) /\ (got.found => i.ssrc \in DOMAIN U.src)
  BY <1>1, SourceDataGrows
<1>3. \/ ~got.found /\ V = U
      \/ /\ got.found
         /\ \/ i.kind = "sr" /\ V = ProcessRTCPSenderInfo(UpdateReceiveTime(U, i.ssrc), i.ssrc)
            \/ i.kind = "rr" /\ V = ProcessRTCPReportBlock(U, i.ssrc)
            \/ i.kind = "priv" /\ V = ProcessSDESPrivateItem(U, i.ssrc)
            \/ V = ProcessSDESNormalItem(U, i.ssrc, i.kind, i.value)
            \/ i.kind = "bye" /\ V = ProcessBYE(U, i.ssrc)
  <2>1. ASSUME ~got.found PROVE V = U
    BY <2>1 DEF ProcessItem
  <2>2. ASSUME got.found, i.kind = "sr"
        PROVE  V = ProcessRTCPSenderInfo(UpdateReceiveTime(U, i.ssrc), i.ssrc)
    BY <2>2 DEF ProcessItem
  <2>3. ASSUME got.found, i.kind = "rr" PROVE V = ProcessRTCPReportBlock(U, i.ssrc)
    BY <2>3 DEF ProcessItem
  <2>4. ASSUME got.found, i.kind = "priv" PROVE V = ProcessSDESPrivateItem(U, i.ssrc)
    BY <2>4 DEF ProcessItem
  <2>5. ASSUME got.found, i.kind \in {"name", "note", "cname"}
        PROVE  V = ProcessSDESNormalItem(U, i.ssrc, i.kind, i.value)
    BY <2>5 DEF ProcessItem
  <2>6. ASSUME got.found, i.kind = "bye" PROVE V = ProcessBYE(U, i.ssrc)
    BY <2>6 DEF ProcessItem
  <2> HIDE DEF got, V
  <2> QED
    BY <1>1, <2>1, <2>2, <2>3, <2>4, <2>5, <2>6
<1> HIDE DEF got, V
<1>4. CASE ~got.found
  BY <1>2, <1>3, <1>4 DEF V
<1>5. CASE got.found
  <2>1. Sound(U) /\ i.ssrc \in DOMAIN U.src
    BY <1>2, <1>5 DEF Grows
  <2> DEFINE W == [U EXCEPT !.src[i.ssrc] = Heard(@, {"msg"})]
  <2> HIDE DEF U
  <2>2. Grows(U, W)
    BY <2>1, HearsGrows
  <2>3. Grows(U, UpdateReceiveTime(U, i.ssrc)) /\ Grows(U, ProcessRTCPReportBlock(U, i.ssrc))
        /\ Grows(U, ProcessSDESPrivateItem(U, i.ssrc))
    BY <2>2 DEF UpdateReceiveTime, ProcessRTCPReportBlock, ProcessSDESPrivateItem
  <2>4. Grows(U, ProcessRTCPSenderInfo(UpdateReceiveTime(U, i.ssrc), i.ssrc))
    <3> DEFINE Z == UpdateReceiveTime(U, i.ssrc)
               Y == [Z EXCEPT !.src[i.ssrc] = Heard(@, {"msg"})]
    <3>1. Grows(U, Z)
      BY <2>3
    <3> HIDE DEF Z
    <3>2. Sound(Z) /\ i.ssrc \in DOMAIN Z.src
      BY <2>1, <3>1 DEF Grows
    <3>3. Grows(Z, Y)
      BY <3>2, HearsGrows
    <3>4. Grows(U, Y)
      BY <3>1, <3>3, GrowsOn
    <3>5. ProcessRTCPSenderInfo(Z, i.ssrc) = Y
      BY DEF ProcessRTCPSenderInfo
    <3> HIDE DEF Y
    <3>6. Grows(U, ProcessRTCPSenderInfo(Z, i.ssrc))
      BY <3>4, <3>5
    <3> QED
      BY <3>6 DEF Z
  <2>5. Grows(U, ProcessSDESNormalItem(U, i.ssrc, i.kind, i.value))
    BY <1>1, <2>1, SdesGrows
  <2>6. Grows(U, ProcessBYE(U, i.ssrc))
    BY <2>1, ByeGrows
  <2>7. Grows(U, V)
    BY <1>3, <1>5, <2>3, <2>4, <2>5, <2>6 DEF U
  <2>8. Grows(T, U)
    BY <1>2 DEF U
  <2> QED
    BY <2>7, <2>8, GrowsOn DEF V
<1>6. Grows(T, V)
  BY <1>4, <1>5 DEF V
<1> QED
  BY <1>6 DEF V

\* The items of a compound packet, one after the other.
LEMMA RtcpGrows ==
    ASSUME NEW T, Sound(T), NEW q \in Seq(ItemSet), NEW a \in Senders
    PROVE  Grows(T, ProcessRTCPCompoundPacket(T, q, a))
<1> DEFINE I == [k \in 0 .. Len(q) |-> {U \in Tables : Grows(T, U)}]
<1>1. PICK g : Unrolls("item", a, T, q, Len(q), g)
               /\ ProcessRTCPCompoundPacket(T, q, a) = g[Len(q)]
  BY ItemFold
<1>2. Len(q) \in Nat
  OBVIOUS
<1>3. T \in I[0]
  BY <1>2, SoundIs DEF Grows
<1>4. ASSUME NEW k \in 0 .. Len(q) - 1, NEW U \in I[k]
      PROVE  Apply("item", a, U, q[k + 1]) \in I[k + 1]
  <2>1. Grows(T, U) /\ Sound(U) /\ q[k + 1] \in ItemSet
    BY DEF Grows
  <2>2. Grows(T, ProcessItem(U, q[k + 1], a))
    BY <2>1, ItemGrows, GrowsOn
  <2>3. ProcessItem(U, q[k + 1], a) \in Tables
    BY <2>2, SoundIs DEF Grows
  <2> QED
    BY <2>2, <2>3 DEF Apply
<1>5. g[Len(q)] \in I[Len(q)]
  <2> HIDE DEF I
  <2> QED BY <1>1, <1>2, <1>3, <1>4, FoldKeeps
<1> QED
  BY <1>1, <1>2, <1>5
-----------------------------------------------------------------------------
(* The own source *)

\* A table without an own source gets one.
LEMMA CreatesOwn ==
    ASSUME NEW T, Good(T), T.owndata = NoSsrc, NEW s \in Ssrcs, s \notin DOMAIN T.src
    PROVE  LET U == CreateOwnSSRC(T, s)
           IN  Sound(U) /\ U.owndata = s
<1> DEFINE U == ObtainSourceDataInstance(T, s)
           r == [NewSource EXCEPT !.own = TRUE, !.validated = TRUE,
                                  !.rtpaddr = Local, !.rtcpaddr = Local]
           W == [U EXCEPT !.src[s] = r]
           n == U.active + 1
           A == U.announced \cup {s}
           V == [W EXCEPT !.owndata = s, !.active = n, !.announced = A]
<1>1. Shape(T) /\ T \in Tables
  BY DEF Good, Shape
<1>2. /\ U \in Tables /\ U.list = Append(T.list, s) /\ U.current = NoSsrc
      /\ U.total = T.total + 1 /\ U.senders = T.senders
      /\ U.active = T.active /\ U.announced = T.announced
      /\ U.missed = T.missed
      /\ DOMAIN U.src = DOMAIN T.src \cup {s} /\ U.src[s] = NewSource
      /\ \A x \in DOMAIN T.src : U.src[x] = T.src[x]
  BY <1>1, ObtainsNew
<1>3. CreateOwnSSRC(T, s)
        = OnNewSource([U EXCEPT !.owndata = s, !.active = @ + 1,
             !.src[s] = [@ EXCEPT !.own = TRUE, !.validated = TRUE,
                                  !.rtpaddr = Local, !.rtcpaddr = Local]], s)
  BY DEF CreateOwnSSRC
<1> HIDE DEF U
<1>4. /\ r \in SourceRecord /\ ~r.sender /\ IsActive(r) /\ HostOK(s, s, r)
  <2>1. /\ r \in SourceRecord /\ ~r.sender /\ r.validated /\ ~r.receivedbye
        /\ r.rtpaddr = Local /\ r.rtcpaddr = Local
    BY NewIsRecord DEF SourceRecord, NewSource, Senders
  <2> HIDE DEF r
  <2> QED
    BY <2>1 DEF HostOK, IsActive
<1>5. CreateOwnSSRC(T, s) = V
  BY <1>2, <1>3 DEF OnNewSource, Tables
<1> HIDE DEF r
<1>6. Only(U, W, s) /\ W.src[s] = r
  BY <1>2, <1>4, Puts
<1> HIDE DEF W
<1>7. n \in Int /\ n = T.active + 1 /\ A \in SUBSET Ssrcs /\ A = T.announced \cup {s}
  BY <1>2 DEF Tables
<1> HIDE DEF n, A
<1>8. /\ W \in Tables /\ W.list = Append(T.list, s) /\ W.current = NoSsrc
      /\ W.total = T.total + 1 /\ W.senders = T.senders /\ W.missed = T.missed
      /\ DOMAIN W.src = DOMAIN T.src \cup {s}
      /\ \A x \in DOMAIN T.src : W.src[x] = T.src[x]
  BY <1>2, <1>6 DEF Only
<1>9. /\ V \in Tables /\ V.list = W.list /\ V.current = W.current /\ V.owndata = s
      /\ V.total = W.total /\ V.senders = W.senders /\ V.missed = W.missed /\ V.src = W.src
      /\ V.active = n /\ V.announced = A
  BY <1>7, <1>8 DEF Tables
<1> HIDE DEF V
<1>10. /\ V.list = Append(T.list, s) /\ V.announced = T.announced \cup {s}
       /\ V.owndata = s /\ V.total = T.total + 1
       /\ DOMAIN V.src = DOMAIN T.src \cup {s} /\ V.src[s] = r
       /\ \A x \in DOMAIN T.src : V.src[x] = T.src[x]
  BY <1>6, <1>7, <1>8, <1>9
<1>11. /\ V.senders = T.senders + One(V.src[s].sender)
       /\ V.active + V.missed = T.active + T.missed + One(IsActive(V.src[s]))
  <2>1. T.senders \in Int /\ T.active \in Int /\ T.missed \in Int
    BY <1>1 DEF Tables
  <2> QED
    BY <1>4, <1>7, <1>8, <1>9, <1>10, <2>1 DEF One
<1>12. HostOK(V.owndata, s, V.src[s])
  BY <1>4, <1>10
<1>13. Good(V)
  BY <1>9, <1>10, <1>11, <1>12, Adds
<1>14. Sound(V) /\ V.owndata = s
  BY <1>8, <1>9, <1>10, <1>13 DEF Sound
<1> QED
  BY <1>5, <1>14

\* The table after its own source was deleted.
LEMMA DeletesOwn ==
    ASSUME NEW T, Sound(T)
    PROVE  LET U == DeleteOwnSSRC(T)
           IN  Good(U) /\ U.owndata = NoSsrc /\ DOMAIN U.src = DOMAIN T.src \ {T.owndata}
<1> DEFINE s == T.owndata
           r == T.src[s]
           W == OnRemoveSource(DeleteEntry(T, s), s)
           k == T.total - 1
           m == T.senders - One(r.sender)
           n == T.active - One(IsActive(r))
           V == [W EXCEPT !.owndata = NoSsrc, !.total = k, !.senders = m, !.active = n]
<1>1. /\ Good(T) /\ Shape(T) /\ T \in Tables /\ s \in DOMAIN T.src /\ s \in Ssrcs
      /\ T.announced = DOMAIN T.src
      /\ \A x \in DOMAIN T.src : x \in Ssrcs /\ HostOK(s, x, T.src[x])
  BY SoundIs DEF Sound, Shape
<1>2. s # NoSsrc
  BY <1>1, SourceAssumption
<1>3. DeleteOwnSSRC(T)
        = OnRemoveSource([DeleteEntry(T, s) EXCEPT
             !.owndata = NoSsrc, !.total = @ - 1,
             !.senders = @ - One(r.sender), !.active = @ - One(IsActive(r))], s)
  BY <1>2 DEF DeleteOwnSSRC
<1>4. DeleteOwnSSRC(T) = V
  <2> DEFINE list == RemoveAt(T.list, Place(T, s))
             src == [x \in DOMAIN T.src \ {s} |-> T.src[x]]
             cur == After(T, s)
  <2>1. DeleteEntry(T, s) = [T EXCEPT !.list = list, !.src = src, !.current = cur]
    BY <1>1 DEF DeleteEntry, Tables
  <2> HIDE DEF list, src, cur
  <2> QED
    BY ZenonT(60), <1>1, <1>3, <2>1 DEF OnRemoveSource, Tables
<1>5. /\ Shape(W) /\ W.owndata = s
      /\ W.src = [x \in DOMAIN T.src \ {s} |-> T.src[x]]
      /\ W.missed = T.missed
  <2>1. T.owndata = s
    OBVIOUS
  <2> HIDE DEF s
  <2> QED BY <1>1, <2>1, Deletes
<1>6. W \in Tables
  BY <1>5 DEF Shape
<1> HIDE DEF W
<1>7. k \in Int /\ m \in Int /\ n \in Int
  BY <1>1 DEF Tables, One
<1>8. /\ V \in Tables /\ V.list = W.list /\ V.src = W.src /\ V.announced = W.announced
      /\ V.owndata = NoSsrc /\ V.total = k /\ V.senders = m /\ V.active = n
      /\ V.missed = T.missed
  <2> HIDE DEF k, m, n
  <2> QED BY <1>5, <1>6, <1>7 DEF Tables
<1> HIDE DEF V
<1>9. DOMAIN V.src = DOMAIN T.src \ {s} /\ \A x \in DOMAIN T.src \ {s} : V.src[x] = T.src[x]
  BY <1>5, <1>8
<1>10. Shape(V)
  <2>1. ASSUME NEW x \in DOMAIN V.src PROVE HostOK(NoSsrc, x, V.src[x])
    <3>1. HostOK(s, x, T.src[x]) /\ x # s /\ V.src[x] = T.src[x]
      BY <1>1, <1>9
    <3> QED
      BY <3>1 DEF HostOK
  <2> QED
    BY <1>5, <1>8, <2>1 DEF Shape
<1>11. /\ IsFiniteSet(DOMAIN T.src)
       /\ IsFiniteSet(SendersOf(T.src)) /\ IsFiniteSet(ActiveOf(T.src))
  BY <1>1, Finite
<1>12. /\ SendersOf(V.src) = SendersOf(T.src) \ {s} /\ (s \in SendersOf(T.src) <=> r.sender)
       /\ ActiveOf(V.src) = ActiveOf(T.src) \ {s} /\ (s \in ActiveOf(T.src) <=> IsActive(r))
  BY <1>1, <1>9 DEF SendersOf, ActiveOf
<1>13. /\ Cardinality(DOMAIN V.src) = Cardinality(DOMAIN T.src) - 1
       /\ Cardinality(SendersOf(V.src)) = Cardinality(SendersOf(T.src)) - One(r.sender)
       /\ Cardinality(ActiveOf(V.src)) = Cardinality(ActiveOf(T.src)) - One(IsActive(r))
  <2>1. /\ Cardinality(SendersOf(T.src)) \in Nat /\ Cardinality(ActiveOf(T.src)) \in Nat
    BY <1>11, FS_CardinalityType
  <2>2. Cardinality(DOMAIN V.src) = Cardinality(DOMAIN T.src) - 1
    BY <1>1, <1>9, <1>11, FS_RemoveElement
  <2>3. Cardinality(SendersOf(V.src)) = Cardinality(SendersOf(T.src)) - One(r.sender)
    <3>1. CASE s \in SendersOf(T.src)
      BY <1>11, <1>12, <2>1, <3>1, FS_RemoveElement DEF One
    <3>2. CASE s \notin SendersOf(T.src)
      <4>1. SendersOf(V.src) = SendersOf(T.src)
        BY <1>12, <3>2
      <4>2. One(r.sender) = 0
        BY <1>12, <3>2 DEF One
      <4> QED
        BY <2>1, <4>1, <4>2
    <3> QED
      BY <3>1, <3>2
  <2>4. Cardinality(ActiveOf(V.src)) = Cardinality(ActiveOf(T.src)) - One(IsActive(r))
    <3>1. CASE s \in ActiveOf(T.src)
      BY <1>11, <1>12, <2>1, <3>1, FS_RemoveElement DEF One
    <3>2. CASE s \notin ActiveOf(T.src)
      <4>1. ActiveOf(V.src) = ActiveOf(T.src)
        BY <1>12, <3>2
      <4>2. One(IsActive(r)) = 0
        BY <1>12, <3>2 DEF One
      <4> QED
        BY <2>1, <4>1, <4>2
    <3> QED
      BY <3>1, <3>2
  <2> QED
    BY <2>2, <2>3, <2>4
<1>14. Counted(V)
  <2>1. /\ T.total = Cardinality(DOMAIN T.src)
        /\ T.senders = Cardinality(SendersOf(T.src))
        /\ T.active + T.missed = Cardinality(ActiveOf(T.src))
    BY <1>1 DEF Good, Counted
  <2>2. T.active \in Int /\ T.missed \in Int /\ One(IsActive(r)) \in Int
    BY <1>1 DEF Tables, One
  <2> QED
    BY <1>8, <1>13, <2>1, <2>2 DEF Counted
<1>15. Good(V) /\ V.owndata = NoSsrc /\ DOMAIN V.src = DOMAIN T.src \ {s}
  BY <1>8, <1>9, <1>10, <1>14 DEF Good
<1> QED
  BY <1>4, <1>15

LEMMA ReplacesOwn ==
    ASSUME NEW T, Sound(T), NEW s \in Ssrcs \ DOMAIN T.src
    PROVE  Sound(ReplaceOwnSSRC(T, s))
<1> DEFINE U == DeleteOwnSSRC(T)
<1>1. Good(U) /\ U.owndata = NoSsrc /\ DOMAIN U.src = DOMAIN T.src \ {T.owndata}
  BY DeletesOwn
<1> HIDE DEF U
<1>2. s \in Ssrcs /\ s \notin DOMAIN U.src
  BY <1>1
<1>3. Sound(CreateOwnSSRC(U, s))
  BY <1>1, <1>2, CreatesOwn
<1> QED
  BY <1>3 DEF ReplaceOwnSSRC, U

LEMMA SentGrows ==
    ASSUME NEW T, Sound(T)
    PROVE  Grows(T, SentRTPPacket(T))
<1> DEFINE s == T.owndata
           o == T.src[s]
           h == Heard(o, {"msg", "rtp"})
           r == [h EXCEPT !.sender = TRUE]
           m == T.senders + One(~o.sender)
           n == T.active
           U == [T EXCEPT !.src[s] = r, !.senders = m, !.active = n]
<1>1. T \in Tables /\ s \in DOMAIN T.src /\ s # NoSsrc
      /\ o \in SourceRecord /\ HostOK(T.owndata, s, o)
  BY SoundIs, SourceAssumption DEF Sound
<1>2. {"msg", "rtp"} \in SUBSET Stamps
  BY DEF Stamps
<1>3. SentRTPPacket(T) = U
  <2>1. SentRTPPacket(T) = [T EXCEPT !.senders = m, !.src[s] = r]
    BY <1>1 DEF SentRTPPacket
  <2> HIDE DEF r, m
  <2> QED
    BY <1>1, <2>1 DEF Tables
<1>4. /\ h \in SourceRecord /\ h.own = o.own
      /\ h.rtpaddr = o.rtpaddr /\ h.rtcpaddr = o.rtcpaddr
      /\ IsActive(h) = IsActive(o)
  <2> HIDE DEF o
  <2> QED BY <1>1, <1>2, HeardKeeps
<1> HIDE DEF h
<1>5. /\ r \in SourceRecord /\ r.sender /\ HostOK(T.owndata, s, r) /\ IsActive(r) = IsActive(o)
  <2>1. /\ r \in SourceRecord /\ r.sender /\ r.own = o.own
        /\ r.rtpaddr = o.rtpaddr /\ r.rtcpaddr = o.rtcpaddr
    BY <1>4 DEF SourceRecord
  <2>2. IsActive(r) = IsActive(h)
    BY <1>4 DEF SourceRecord, IsActive
  <2> HIDE DEF r
  <2> QED
    BY <1>1, <1>4, <2>1, <2>2 DEF HostOK
<1> HIDE DEF r
<1>6. T.senders \in Int /\ T.active \in Int /\ o.sender \in BOOLEAN
  BY <1>1 DEF Tables, SourceRecord
<1>7. m = T.senders + One(r.sender) - One(T.src[s].sender)
  BY <1>5, <1>6 DEF One
<1>8. n = T.active + One(IsActive(r)) - One(IsActive(T.src[s]))
  BY <1>5, <1>6 DEF One
<1> HIDE DEF m, n
<1>9. Grows(T, U)
  BY <1>1, <1>5, <1>7, <1>8, Updates
<1> QED
  BY <1>3, <1>9

\* Time passes for one source.
LEMMA AgeGrows ==
    ASSUME NEW T, Sound(T), NEW s \in DOMAIN T.src, NEW k \in Stamps,
           NEW U, U = [T EXCEPT !.src[s].old = @ \cup {k}]
    PROVE  Grows(T, U)
<1> DEFINE r == [T.src[s] EXCEPT !.old = @ \cup {k}]
<1>1. T.src[s] \in SourceRecord
  BY SoundIs
<1>2. /\ r \in SourceRecord /\ r.own = T.src[s].own
      /\ r.rtpaddr = T.src[s].rtpaddr /\ r.rtcpaddr = T.src[s].rtcpaddr
      /\ r.sender = T.src[s].sender /\ IsActive(r) = IsActive(T.src[s])
  BY <1>1 DEF SourceRecord, IsActive
<1>3. U = [T EXCEPT !.src[s] = r]
  OBVIOUS
<1> HIDE DEF r
<1> QED
  BY <1>2, <1>3, Touches

\* The reader takes a packet.
LEMMA TakeGrows ==
    ASSUME NEW T, Sound(T), T.current # NoSsrc
    PROVE  Grows(T, GetNextPacket(T))
<1> DEFINE s == T.current
           o == T.src[s]
           k == o.packets - One(HasData(T, s))
           r == [o EXCEPT !.packets = k]
           U == [T EXCEPT !.src[s] = r]
<1>1. s \in DOMAIN T.src
  BY DEF Sound
<1>2. o \in SourceRecord
  BY <1>1, SoundIs
<1>3. k \in 0 .. MaxQueue
  <2>1. HasData(T, s) => o.packets > 0
    BY DEF HasData
  <2>2. o.packets \in 0 .. MaxQueue /\ MaxQueue \in Nat
    BY <1>2, SourceAssumption DEF SourceRecord
  <2> HIDE DEF o, s
  <2> QED
    BY <2>1, <2>2 DEF One
<1> HIDE DEF k
<1>4. /\ r \in SourceRecord /\ r.own = o.own
      /\ r.rtpaddr = o.rtpaddr /\ r.rtcpaddr = o.rtcpaddr
      /\ r.sender = o.sender /\ IsActive(r) = IsActive(o)
  BY <1>2, <1>3 DEF SourceRecord, IsActive
<1>5. GetNextPacket(T) = U
  BY DEF GetNextPacket, k
<1> HIDE DEF r
<1>6. Grows(T, U)
  BY <1>1, <1>4, Touches
<1> QED
  BY <1>5, <1>6
-----------------------------------------------------------------------------
(* Timeouts *)

\* A table on the walk of a timeout through T, after k sources: what is counted
\* is out of date, the sources that the walk has still to see are there.
OnTheWay(T, k) ==
    {U \in Tables : /\ Shape(U)
                    /\ U.owndata = T.owndata /\ U.owndata \in DOMAIN U.src
                    /\ \A j \in DOMAIN T.list : j > k => T.list[j] \in DOMAIN U.src}

LEMMA WalkStarts ==
    ASSUME NEW T, Sound(T)
    PROVE  T \in OnTheWay(T, 0)
<1>1. Shape(T) /\ T \in Tables /\ T.owndata \in DOMAIN T.src
  BY SoundIs DEF Sound
<1>2. ASSUME NEW j \in DOMAIN T.list PROVE T.list[j] \in DOMAIN T.src
  BY <1>1 DEF Shape, ToSet
<1> QED
  BY <1>1, <1>2 DEF OnTheWay

\* The walk sees a source and lets it be.
LEMMA WalkPasses ==
    ASSUME NEW T, Sound(T), NEW k \in Nat, NEW U \in OnTheWay(T, k)
    PROVE  U \in OnTheWay(T, k + 1)
<1>1. T.list \in Seq(Ssrcs) /\ DOMAIN T.list \subseteq Nat
  BY SoundIs DEF Tables
<1>2. \A j \in DOMAIN T.list : j > k + 1 => j > k
  BY <1>1
<1> QED
  BY <1>2 DEF OnTheWay

\* The walk removes a source.
LEMMA WalkDrops ==
    ASSUME NEW T, Sound(T), NEW k \in Nat, k + 1 \in DOMAIN T.list,
           NEW U \in OnTheWay(T, k), T.list[k + 1] # U.owndata
    PROVE  Dropped(U, T.list[k + 1]) \in OnTheWay(T, k + 1)
<1> DEFINE s == T.list[k + 1]
           V == Dropped(U, s)
<1>1. /\ Shape(U) /\ U.owndata = T.owndata /\ U.owndata \in DOMAIN U.src
      /\ \A j \in DOMAIN T.list : j > k => T.list[j] \in DOMAIN U.src
      /\ s # U.owndata
  BY DEF OnTheWay
<1>2. T.list \in Seq(Ssrcs) /\ IsInjective(T.list) /\ DOMAIN T.list \subseteq Nat
  BY SoundIs DEF Shape, Tables
<1>3. s \in DOMAIN U.src
  BY <1>1
<1>4. \A j \in DOMAIN T.list : j > k + 1 => j > k /\ T.list[j] # s
  BY <1>2 DEF IsInjective
<1> HIDE DEF s
<1>5. /\ Shape(V) /\ V.owndata = U.owndata
      /\ V.src = [x \in DOMAIN U.src \ {s} |-> U.src[x]]
  BY <1>1, <1>3, Deletes DEF Dropped
<1> HIDE DEF V
<1>6. DOMAIN V.src = DOMAIN U.src \ {s} /\ V \in Tables
  BY <1>5 DEF Shape
<1>7. V \in OnTheWay(T, k + 1)
  BY <1>1, <1>4, <1>5, <1>6 DEF OnTheWay
<1> QED
  BY <1>7 DEF V, s

\* The walk changes a source, not whose it is nor its addresses.
LEMMA WalkChanges ==
    ASSUME NEW T, Sound(T), NEW k \in Nat, k + 1 \in DOMAIN T.list,
           NEW U \in OnTheWay(T, k), NEW r \in SourceRecord,
           r.own = U.src[T.list[k + 1]].own, r.rtpaddr = U.src[T.list[k + 1]].rtpaddr,
           r.rtcpaddr = U.src[T.list[k + 1]].rtcpaddr,
           NEW V, V = [U EXCEPT !.src[T.list[k + 1]] = r]
    PROVE  V \in OnTheWay(T, k + 1)
<1> DEFINE s == T.list[k + 1]
<1>1. /\ U \in Tables /\ Shape(U) /\ U.owndata = T.owndata /\ U.owndata \in DOMAIN U.src
      /\ \A j \in DOMAIN T.list : j > k => T.list[j] \in DOMAIN U.src
  BY DEF OnTheWay
<1>2. T.list \in Seq(Ssrcs) /\ DOMAIN T.list \subseteq Nat
  BY SoundIs DEF Tables
<1>3. s \in DOMAIN U.src
  BY <1>1
<1>4. V = [U EXCEPT !.src[s] = r] /\ HostOK(U.owndata, s, U.src[s])
      /\ r.own = U.src[s].own /\ r.rtpaddr = U.src[s].rtpaddr /\ r.rtcpaddr = U.src[s].rtcpaddr
  BY <1>1, <1>3 DEF Shape
<1> HIDE DEF s
<1>5. Only(U, V, s) /\ V.src[s] = r
  <2> DEFINE W == [U EXCEPT !.src[s] = r]
  <2>1. U \in Tables /\ V = W
    BY <1>1, <1>4
  <2>2. Only(U, W, s) /\ W.src[s] = r
    BY <1>3, <2>1, Puts
  <2> HIDE DEF W
  <2> QED
    BY <2>1, <2>2
<1>6. HostOK(U.owndata, s, r)
  BY <1>4 DEF HostOK
<1>7. Shape(V)
  BY <1>1, <1>3, <1>5, <1>6 DEF Shape, Only
<1>8. V.owndata = U.owndata /\ DOMAIN V.src = DOMAIN U.src /\ V \in Tables
  BY <1>5 DEF Only
<1>9. \A j \in DOMAIN T.list : j > k + 1 => T.list[j] \in DOMAIN V.src
  <2>1. \A j \in DOMAIN T.list : j > k + 1 => j > k
    BY <1>2
  <2> QED
    BY <1>1, <1>8, <2>1
<1> QED
  BY <1>1, <1>7, <1>8, <1>9 DEF OnTheWay

\* The counters are set anew at the end of the walk.
LEMMA Recounts ==
    ASSUME NEW T, NEW k, NEW U \in OnTheWay(T, k)
    PROVE  Sound(Recount(U))
<1> DEFINE n == Len(U.list)
           m == Quantify(DOMAIN U.src, LAMBDA s : U.src[s].sender)
           a == Quantify(DOMAIN U.src, LAMBDA s : IsActive(U.src[s]))
           V == [U EXCEPT !.current = NoSsrc, !.missed = 0, !.total = n, !.senders = m, !.active = a]
<1>1. Shape(U) /\ U \in Tables /\ U.owndata \in DOMAIN U.src
  BY DEF OnTheWay
<1>2. m = Cardinality(SendersOf(U.src)) /\ a = Cardinality(ActiveOf(U.src))
  BY DEF Quantify, SendersOf, ActiveOf
<1>3. Recount(U) = V
  BY DEF Recount
<1>4. n = Cardinality(DOMAIN U.src)
  BY <1>1, LengthIsSize DEF Shape, Tables
<1> HIDE DEF n, m, a
<1>5. n \in Int /\ m \in Int /\ a \in Int
  BY <1>1, <1>2, <1>4, Finite, FS_CardinalityType
<1>6. /\ V \in Tables /\ V.list = U.list /\ V.src = U.src /\ V.owndata = U.owndata
      /\ V.announced = U.announced /\ V.current = NoSsrc /\ V.missed = 0
      /\ V.total = n /\ V.senders = m /\ V.active = a
  <2>1. U \in Tables /\ NoSsrc \in Ssrcs \cup {NoSsrc} /\ 0 \in Int
    BY <1>1
  <2> QED
    BY <1>5, <2>1 DEF Tables
<1> HIDE DEF V
<1>7. Shape(V)
  BY <1>1, <1>6 DEF Shape
<1>8. Counted(V)
  BY <1>2, <1>4, <1>5, <1>6 DEF Counted
<1>9. Sound(V)
  BY <1>1, <1>6, <1>7, <1>8 DEF Sound, Good
<1> QED
  BY <1>3, <1>9

\* A walk that goes on from every place ends in a sound table.
LEMMA WalkEnds ==
    ASSUME NEW T, Sound(T), NEW kind, NEW g, Unrolls(kind, 0, T, T.list, Len(T.list), g),
           \A k \in Nat : k + 1 \in DOMAIN T.list =>
              \A U \in OnTheWay(T, k) : Apply(kind, 0, U, T.list[k + 1]) \in OnTheWay(T, k + 1)
    PROVE  Sound(Recount(g[Len(T.list)]))
<1> DEFINE n == Len(T.list)
           I == [k \in 0 .. n |-> OnTheWay(T, k)]
<1>1. n \in Nat /\ DOMAIN T.list = 1 .. n
  BY SoundIs DEF Tables
<1>2. T \in I[0]
  BY <1>1, WalkStarts
<1>3. ASSUME NEW k \in 0 .. n - 1, NEW U \in I[k] PROVE Apply(kind, 0, U, T.list[k + 1]) \in I[k + 1]
  <2>1. k \in Nat /\ k + 1 \in DOMAIN T.list /\ k \in 0 .. n /\ k + 1 \in 0 .. n
    BY <1>1
  <2>2. Apply(kind, 0, U, T.list[k + 1]) \in OnTheWay(T, k + 1)
    BY <2>1
  <2> QED
    BY <2>1, <2>2
<1> HIDE DEF n, I
<1>4. g[n] \in I[n]
  <2>1. Unrolls(kind, 0, T, T.list, n, g)
    BY DEF n
  <2> QED
    BY <1>1, <1>2, <1>3, <2>1, FoldKeeps
<1>5. g[n] \in OnTheWay(T, n)
  BY <1>1, <1>4 DEF I
<1>6. Sound(Recount(g[n]))
  BY <1>5, Recounts
<1> QED
  BY <1>6 DEF n

LEMMA ClearsKeep ==
    ASSUME NEW r \in SourceRecord
    PROVE  /\ ClearNote(r) \in SourceRecord /\ ClearNote(r).own = r.own
           /\ ClearNote(r).rtpaddr = r.rtpaddr /\ ClearNote(r).rtcpaddr = r.rtcpaddr
           /\ ClearSenderFlag(r) \in SourceRecord /\ ClearSenderFlag(r).own = r.own
           /\ ClearSenderFlag(r).rtpaddr = r.rtpaddr /\ ClearSenderFlag(r).rtcpaddr = r.rtcpaddr
BY ZenonT(60) DEF ClearNote, ClearSenderFlag, SourceRecord

\* The source that a walk comes to.
LEMMA WalkSees ==
    ASSUME NEW T, Sound(T), NEW k \in Nat, k + 1 \in DOMAIN T.list, NEW U \in OnTheWay(T, k)
    PROVE  U \in Tables /\ U.src[T.list[k + 1]] \in SourceRecord
<1>1. /\ U \in Tables /\ \A j \in DOMAIN T.list : j > k => T.list[j] \in DOMAIN U.src
  BY DEF OnTheWay
<1>2. T.list[k + 1] \in DOMAIN U.src
  BY <1>1
<1> QED
  BY <1>1, <1>2, SourceIs DEF Tables

LEMMA TimeoutSound ==
    ASSUME NEW T, Sound(T)
    PROVE  Sound(Timeout(T))
<1>1. ASSUME NEW k \in Nat, k + 1 \in DOMAIN T.list, NEW U \in OnTheWay(T, k)
      PROVE  Apply("silent", 0, U, T.list[k + 1]) \in OnTheWay(T, k + 1)
  <2> DEFINE s == T.list[k + 1]
  <2>1. Apply("silent", 0, U, s) = DropSilent(U, s)
    BY DEF Apply
  <2>2. CASE Silent(U, s)
    <3>1. s # U.owndata
      BY <2>2 DEF Silent
    <3>2. Dropped(U, s) \in OnTheWay(T, k + 1)
      BY <1>1, <3>1, WalkDrops
    <3> QED
      BY <2>1, <2>2, <3>2 DEF DropSilent
  <2>3. CASE ~Silent(U, s)
    <3>1. U \in OnTheWay(T, k + 1)
      BY <1>1, WalkPasses
    <3> QED
      BY <2>1, <2>3, <3>1 DEF DropSilent
  <2> QED
    BY <2>2, <2>3
<1>2. T.list \in Seq(Ssrcs)
  BY SoundIs DEF Tables
<1>3. PICK g : Unrolls("silent", 0, T, T.list, Len(T.list), g) /\ Timeout(T) = Recount(g[Len(T.list)])
  BY <1>2, SilentFold
<1>4. Sound(Recount(g[Len(T.list)]))
  BY <1>1, <1>3, WalkEnds
<1> QED
  BY <1>3, <1>4

LEMMA BYETimeoutSound ==
    ASSUME NEW T, Sound(T)
    PROVE  Sound(BYETimeout(T))
<1>1. ASSUME NEW k \in Nat, k + 1 \in DOMAIN T.list, NEW U \in OnTheWay(T, k)
      PROVE  Apply("gone", 0, U, T.list[k + 1]) \in OnTheWay(T, k + 1)
  <2> DEFINE s == T.list[k + 1]
  <2>1. Apply("gone", 0, U, s) = DropGone(U, s)
    BY DEF Apply
  <2>2. CASE Gone(U, s)
    <3>1. s # U.owndata
      BY <2>2 DEF Gone
    <3>2. Dropped(U, s) \in OnTheWay(T, k + 1)
      BY <1>1, <3>1, WalkDrops
    <3> QED
      BY <2>1, <2>2, <3>2 DEF DropGone
  <2>3. CASE ~Gone(U, s)
    <3>1. U \in OnTheWay(T, k + 1)
      BY <1>1, WalkPasses
    <3> QED
      BY <2>1, <2>3, <3>1 DEF DropGone
  <2> QED
    BY <2>2, <2>3
<1>2. T.list \in Seq(Ssrcs)
  BY SoundIs DEF Tables
<1>3. PICK g : Unrolls("gone", 0, T, T.list, Len(T.list), g) /\ BYETimeout(T) = Recount(g[Len(T.list)])
  BY <1>2, GoneFold
<1>4. Sound(Recount(g[Len(T.list)]))
  BY <1>1, <1>3, WalkEnds
<1> QED
  BY <1>3, <1>4

LEMMA NoteTimeoutSound ==
    ASSUME NEW T, Sound(T)
    PROVE  Sound(NoteTimeout(T))
<1>1. ASSUME NEW k \in Nat, k + 1 \in DOMAIN T.list, NEW U \in OnTheWay(T, k)
      PROVE  Apply("note", 0, U, T.list[k + 1]) \in OnTheWay(T, k + 1)
  <2> DEFINE s == T.list[k + 1]
             r == ClearNote(U.src[s])
             V == [U EXCEPT !.src[s] = r]
  <2>1. U.src[s] \in SourceRecord
    BY <1>1, WalkSees
  <2>2. /\ r \in SourceRecord /\ r.own = U.src[s].own
        /\ r.rtpaddr = U.src[s].rtpaddr /\ r.rtcpaddr = U.src[s].rtcpaddr
    BY <2>1, ClearsKeep
  <2> HIDE DEF r
  <2>3. V \in OnTheWay(T, k + 1)
    BY <1>1, <2>2, WalkChanges
  <2>4. Apply("note", 0, U, s) = V
    BY DEF Apply, ForgetNote, r
  <2> QED
    BY <2>3, <2>4
<1>2. T.list \in Seq(Ssrcs)
  BY SoundIs DEF Tables
<1>3. PICK g : Unrolls("note", 0, T, T.list, Len(T.list), g) /\ NoteTimeout(T) = Recount(g[Len(T.list)])
  BY <1>2, NoteFold
<1>4. Sound(Recount(g[Len(T.list)]))
  BY <1>1, <1>3, WalkEnds
<1> QED
  BY <1>3, <1>4

LEMMA SenderTimeoutSound ==
    ASSUME NEW T, Sound(T)
    PROVE  Sound(SenderTimeout(T))
<1>1. ASSUME NEW k \in Nat, k + 1 \in DOMAIN T.list, NEW U \in OnTheWay(T, k)
      PROVE  Apply("sender", 0, U, T.list[k + 1]) \in OnTheWay(T, k + 1)
  <2> DEFINE s == T.list[k + 1]
             r == ClearSenderFlag(U.src[s])
             V == [U EXCEPT !.src[s] = r]
  <2>1. U.src[s] \in SourceRecord
    BY <1>1, WalkSees
  <2>2. /\ r \in SourceRecord /\ r.own = U.src[s].own
        /\ r.rtpaddr = U.src[s].rtpaddr /\ r.rtcpaddr = U.src[s].rtcpaddr
    BY <2>1, ClearsKeep
  <2> HIDE DEF r
  <2>3. V \in OnTheWay(T, k + 1)
    BY <1>1, <2>2, WalkChanges
  <2>4. Apply("sender", 0, U, s) = V
    BY DEF Apply, ForgetSender, r
  <2> QED
    BY <2>3, <2>4
<1>2. T.list \in Seq(Ssrcs)
  BY SoundIs DEF Tables
<1>3. PICK g : Unrolls("sender", 0, T, T.list, Len(T.list), g) /\ SenderTimeout(T) = Recount(g[Len(T.list)])
  BY <1>2, SenderFold
<1>4. Sound(Recount(g[Len(T.list)]))
  BY <1>1, <1>3, WalkEnds
<1> QED
  BY <1>3, <1>4

LEMMA MultipleTimeoutsSound ==
    ASSUME NEW T, Sound(T)
    PROVE  Sound(MultipleTimeouts(T))
<1>1. ASSUME NEW k \in Nat, k + 1 \in DOMAIN T.list, NEW U \in OnTheWay(T, k)
      PROVE  Apply("all", 0, U, T.list[k + 1]) \in OnTheWay(T, k + 1)
  <2> DEFINE s == T.list[k + 1]
             r == ClearSenderFlag(ClearNote(U.src[s]))
             V == [U EXCEPT !.src[s] = r]
  <2>1. Apply("all", 0, U, s) = DropOrForget(U, s)
    BY DEF Apply
  <2>2. CASE Gone(U, s) \/ Silent(U, s)
    <3>1. s # U.owndata
      BY <2>2 DEF Gone, Silent
    <3>2. Dropped(U, s) \in OnTheWay(T, k + 1)
      BY <1>1, <3>1, WalkDrops
    <3> QED
      BY <2>1, <2>2, <3>2 DEF DropOrForget
  <2>3. CASE ~(Gone(U, s) \/ Silent(U, s))
    <3>1. U.src[s] \in SourceRecord
      BY <1>1, WalkSees
    <3>2. /\ r \in SourceRecord /\ r.own = U.src[s].own
          /\ r.rtpaddr = U.src[s].rtpaddr /\ r.rtcpaddr = U.src[s].rtcpaddr
      <4> DEFINE q == ClearNote(U.src[s])
      <4>1. /\ q \in SourceRecord /\ q.own = U.src[s].own
            /\ q.rtpaddr = U.src[s].rtpaddr /\ q.rtcpaddr = U.src[s].rtcpaddr
        BY <3>1, ClearsKeep
      <4> HIDE DEF q
      <4>2. /\ ClearSenderFlag(q) \in SourceRecord /\ ClearSenderFlag(q).own = q.own
            /\ ClearSenderFlag(q).rtpaddr = q.rtpaddr /\ ClearSenderFlag(q).rtcpaddr = q.rtcpaddr
        BY <4>1, ClearsKeep
      <4> QED
        BY <4>1, <4>2 DEF q
    <3> HIDE DEF r
    <3>3. V \in OnTheWay(T, k + 1)
      BY <1>1, <3>2, WalkChanges
    <3>4. DropOrForget(U, s) = V
      BY <2>3 DEF DropOrForget, r
    <3> QED
      BY <2>1, <3>3, <3>4
  <2> QED
    BY <2>2, <2>3
<1>2. T.list \in Seq(Ssrcs)
  BY SoundIs DEF Tables
<1>3. PICK g : Unrolls("all", 0, T, T.list, Len(T.list), g) /\ MultipleTimeouts(T) = Recount(g[Len(T.list)])
  BY <1>2, AllFold
<1>4. Sound(Recount(g[Len(T.list)]))
  BY <1>1, <1>3, WalkEnds
<1> QED
  BY <1>3, <1>4
-----------------------------------------------------------------------------
(* The cursor *)

LEMMA FirstIsSource ==
    ASSUME NEW T, Sound(T), NEW q \in Seq(DOMAIN T.src)
    PROVE  FirstWithData(T, q) \in DOMAIN T.src \cup {NoSsrc}
<1> DEFINE D == DOMAIN T.src \cup {NoSsrc}
           I == [k \in 0 .. Len(q) |-> D]
<1>1. PICK g : Unrolls("first", T, NoSsrc, q, Len(q), g) /\ FirstWithData(T, q) = g[Len(q)]
  BY FirstFold
<1>2. Len(q) \in Nat
  OBVIOUS
<1>3. NoSsrc \in I[0]
  BY <1>2
<1>4. ASSUME NEW k \in 0 .. Len(q) - 1, NEW U \in I[k]
      PROVE  Apply("first", T, U, q[k + 1]) \in I[k + 1]
  <2>1. q[k + 1] \in DOMAIN T.src
    BY <1>2
  <2> QED
    BY <1>2, <2>1 DEF Apply
<1>5. g[Len(q)] \in I[Len(q)]
  <2> HIDE DEF I
  <2> QED BY <1>1, <1>2, <1>3, <1>4, FoldKeeps
<1> QED
  BY <1>1, <1>2, <1>5

\* Wherever the application walks, it comes to a source or to the end.
LEMMA CursorStays ==
    ASSUME NEW T, Sound(T)
    PROVE  /\ Sound(GotoFirstSource(T)) /\ Sound(GotoFirstSourceWithData(T))
           /\ \A s : Sound(GetSourceInfo(T, s))
           /\ T.current # NoSsrc =>
                /\ Sound(GotoNextSource(T)) /\ Sound(GotoPreviousSource(T))
                /\ Sound(GotoNextSourceWithData(T)) /\ Sound(GotoPreviousSourceWithData(T))
<1> DEFINE D == DOMAIN T.src \cup {NoSsrc}
           n == Len(T.list)
           p == Place(T, T.current)
           onward == Onward(T, T.current)
           backward == Backward(T, T.current)
<1>1. Shape(T) /\ T \in Tables
  BY SoundIs
<1>2. n \in Nat /\ DOMAIN T.list = 1 .. n /\ T.list \in Seq(DOMAIN T.src)
  <2>1. T.list \in Seq(Ssrcs)
    BY <1>1 DEF Tables
  <2>2. \A i \in DOMAIN T.list : T.list[i] \in DOMAIN T.src
    BY <1>1 DEF Shape, ToSet
  <2> QED
    BY <2>1, <2>2
<1>3. T.current # NoSsrc => p \in 1 .. n
  <2> SUFFICES ASSUME T.current # NoSsrc PROVE p \in 1 .. n
    OBVIOUS
  <2>1. T.current \in DOMAIN T.src
    BY DEF Sound
  <2> QED
    BY <1>1, <1>2, <2>1, PlaceIs
<1>4. T.current # NoSsrc => onward \in Seq(DOMAIN T.src) /\ backward \in Seq(DOMAIN T.src)
  <2> SUFFICES ASSUME T.current # NoSsrc
               PROVE  onward \in Seq(DOMAIN T.src) /\ backward \in Seq(DOMAIN T.src)
    OBVIOUS
  <2>1. p \in 1 .. n
    BY <1>3
  <2> DEFINE b == SubSeq(T.list, 1, p - 1)
             o == SubSeq(T.list, p + 1, n)
  <2>2. onward = o /\ backward = Reverse(b)
    BY DEF Onward, Backward
  <2> HIDE DEF p
  <2>3. o \in Seq(DOMAIN T.src) /\ b \in Seq(DOMAIN T.src)
    <3>1. /\ p + 1 \in Int /\ n \in Int /\ 1 \in Int /\ p - 1 \in Int
          /\ \A i \in p + 1 .. n : T.list[i] \in DOMAIN T.src
          /\ \A i \in 1 .. p - 1 : T.list[i] \in DOMAIN T.src
      BY <1>2, <2>1
    <3>2. o \in Seq(DOMAIN T.src)
      BY <3>1, SubSeqProperties
    <3>3. b \in Seq(DOMAIN T.src)
      BY <3>1, SubSeqProperties
    <3> QED
      BY <3>2, <3>3
  <2> HIDE DEF o, b
  <2>4. Reverse(b) \in Seq(DOMAIN T.src)
    BY SMTT(40), <2>3 DEF Reverse
  <2> QED
    BY <2>2, <2>3, <2>4
<1> HIDE DEF onward, backward
<1>5. ASSUME NEW c \in D PROVE Sound([T EXCEPT !.current = c])
  BY MovesCursor
<1> HIDE DEF D
<1>6. Sound(GotoFirstSource(T))
  <2>1. AtPlace(T, 1) \in D
    BY <1>1, AtPlaceIs DEF D
  <2> QED
    BY <1>5, <2>1 DEF GotoFirstSource
<1>7. Sound(GotoFirstSourceWithData(T))
  <2>1. FirstWithData(T, T.list) \in D
    BY <1>2, FirstIsSource DEF D
  <2> QED
    BY <1>5, <2>1 DEF GotoFirstSourceWithData
<1>8. ASSUME NEW s PROVE Sound(GetSourceInfo(T, s))
  <2>1. (IF s \in DOMAIN T.src THEN s ELSE NoSsrc) \in D
    BY DEF D
  <2> QED
    BY <1>5, <2>1 DEF GetSourceInfo, GotoEntry
<1>9. ASSUME T.current # NoSsrc PROVE Sound(GotoNextSource(T))
  <2>1. After(T, T.current) \in D
    BY <1>1, AtPlaceIs DEF D, After
  <2> QED
    BY <1>5, <2>1 DEF GotoNextSource
<1>10. ASSUME T.current # NoSsrc PROVE Sound(GotoPreviousSource(T))
  <2>1. Before(T, T.current) \in D
    BY <1>1, AtPlaceIs DEF D, Before
  <2> QED
    BY <1>5, <2>1 DEF GotoPreviousSource
<1>11. ASSUME T.current # NoSsrc PROVE Sound(GotoNextSourceWithData(T))
  <2>1. FirstWithData(T, onward) \in D
    BY <1>4, <1>11, FirstIsSource DEF D
  <2> QED
    BY <1>5, <2>1 DEF GotoNextSourceWithData, onward
<1>12. ASSUME T.current # NoSsrc PROVE Sound(GotoPreviousSourceWithData(T))
  <2>1. FirstWithData(T, backward) \in D
    BY <1>4, <1>12, FirstIsSource DEF D
  <2> QED
    BY <1>5, <2>1 DEF GotoPreviousSourceWithData, backward
<1> QED
  BY <1>6, <1>7, <1>8, <1>9, <1>10, <1>11, <1>12
-----------------------------------------------------------------------------
(* The table of a session *)

LEMMA EmptyIsGood ==
    /\ Good(EmptyTable) /\ EmptyTable.owndata = NoSsrc /\ DOMAIN EmptyTable.src = {}
<1> DEFINE E == EmptyTable
<1>1. /\ E.list = <<>> /\ E.src = <<>> /\ E.current = NoSsrc /\ E.owndata = NoSsrc
      /\ E.total = 0 /\ E.senders = 0 /\ E.active = 0 /\ E.announced = {} /\ E.missed = 0
      /\ E = [list |-> <<>>, src |-> <<>>, current |-> NoSsrc, owndata |-> NoSsrc,
              total |-> 0, senders |-> 0, active |-> 0, announced |-> {},
              owncollision |-> FALSE, missed |-> 0]
  BY DEF EmptyTable
<1>2. DOMAIN E.src = {} /\ DOMAIN E.list = {}
  BY <1>1
<1>3. E.src \in SourceMaps
  <2>1. <<>> \in [{} -> SourceRecord]
    OBVIOUS
  <2> QED
    BY <1>1, <2>1 DEF SourceMaps
<1> HIDE DEF E
<1>4. E \in Tables
  <2>1. <<>> \in Seq(Ssrcs) /\ E.src = <<>>
    BY <1>1
  <2> QED
    BY <1>1, <1>3, <2>1 DEF Tables
<1>5. IsInjective(E.list) /\ ToSet(E.list) = {}
  BY <1>2 DEF IsInjective, ToSet
<1>6. Shape(E)
  BY <1>1, <1>2, <1>4, <1>5 DEF Shape
<1>7. Counted(E)
  <2>1. SendersOf(E.src) = {} /\ ActiveOf(E.src) = {}
    BY <1>2 DEF SendersOf, ActiveOf
  <2> QED
    <3>1. /\ E.total = 0 /\ E.senders = 0 /\ E.active + E.missed = 0
          /\ Cardinality({}) = 0
      BY <1>1, FS_EmptySet
    <3> QED
      BY <1>2, <2>1, <3>1 DEF Counted
<1>8. Good(E) /\ E.owndata = NoSsrc /\ DOMAIN E.src = {}
  BY <1>1, <1>2, <1>6, <1>7 DEF Good
<1> QED
  BY <1>8 DEF E

\* A table after ClearSourceList.
Cleared(T) ==
    /\ T.list = <<>> /\ DOMAIN T.src = {} /\ T.current = NoSsrc /\ T.owndata = NoSsrc
    /\ T.total = 0 /\ T.senders = 0 /\ T.active = 0 /\ T.missed = 0
    /\ T.owncollision \in BOOLEAN

\* Between two calls the table is sound, after the last it is empty.
SourceInv ==
    /\ ~ended => Sound(table)
    /\ ended => Cleared(table)
    /\ addresslist \in [Addresses -> {"none", "fresh", "old"}]
    /\ arrived \in 0 .. MaxPackets /\ ended \in BOOLEAN

LEMMA SourceStarts == SourceInit => SourceInv
<1> SUFFICES ASSUME SourceInit PROVE SourceInv
  OBVIOUS
<1>1. PICK s \in Ssrcs : table = CreateOwnSSRC(EmptyTable, s)
  BY DEF SourceInit
<1>2. Sound(CreateOwnSSRC(EmptyTable, s))
  <2> DEFINE E == EmptyTable
  <2>1. Good(E) /\ E.owndata = NoSsrc /\ s \notin DOMAIN E.src
    BY EmptyIsGood
  <2> HIDE DEF E
  <2>2. Sound(CreateOwnSSRC(E, s))
    BY <2>1, CreatesOwn
  <2> QED
    BY <2>2 DEF E
<1>3. Sound(table)
  BY <1>1, <1>2
<1>4. ~ended /\ arrived \in 0 .. MaxPackets /\ ended \in BOOLEAN
  <2>1. ended = FALSE /\ arrived = 0
    BY DEF SourceInit
  <2>2. 0 \in 0 .. MaxPackets
    BY SourceAssumption
  <2>3. ~ended /\ ended \in BOOLEAN
    BY <2>1
  <2> QED
    BY <2>1, <2>2, <2>3
<1>5. addresslist \in [Addresses -> {"none", "fresh", "old"}]
  BY DEF SourceInit
<1> QED
  BY <1>3, <1>4, <1>5 DEF SourceInv

\* What the invariant says: nothing of it is left to the bounds.
LEMMA SourceInvSays == SourceInv => SourceTypeOK /\ CountsAgree /\ HostsAgree
<1> SUFFICES ASSUME SourceInv PROVE SourceTypeOK /\ CountsAgree /\ HostsAgree
  OBVIOUS
<1>1. CASE ~ended
  <2>1. /\ Sound(table) /\ Good(table) /\ Shape(table) /\ Counted(table) /\ table \in Tables
        /\ \A s \in DOMAIN table.src : /\ s \in Ssrcs /\ table.src[s] \in SourceRecord
                                       /\ HostOK(table.owndata, s, table.src[s])
    BY <1>1, SoundIs DEF SourceInv, Good
  <2>2. SourceTypeOK
    BY <2>1 DEF SourceTypeOK, Sources, Shape, Tables, SourceRecord, SourceInv
  <2>3. CountsAgree
    BY <2>1 DEF CountsAgree, Counted, Quantify, SendersOf, ActiveOf, Sources
  <2>4. HostsAgree
    BY <2>1 DEF HostsAgree, HostOK, Sound, Shape, Sources
  <2> QED
    BY <2>2, <2>3, <2>4
<1>2. CASE ended
  <2>1. Cleared(table) /\ Sources = {}
    BY <1>2 DEF SourceInv, Cleared, Sources
  <2>2. SourceTypeOK
    <3>1. IsInjective(table.list) /\ ToSet(table.list) = {} /\ table.list \in Seq(Ssrcs)
      BY <2>1 DEF Cleared, IsInjective, ToSet
    <3> QED
      BY <2>1, <3>1 DEF SourceTypeOK, Cleared, SourceInv
  <2>3. CountsAgree
    <3>1. Cardinality({}) = 0
      BY FS_EmptySet
    <3>2. \A P : {s \in Sources : P} = {}
      BY <2>1
    <3>3. /\ Quantify(Sources, LAMBDA s : table.src[s].sender) = 0
          /\ Quantify(Sources, LAMBDA s : IsActive(table.src[s])) = 0
      <4>1. {s \in Sources : table.src[s].sender} = {} /\ {s \in Sources : IsActive(table.src[s])} = {}
        BY <2>1
      <4> QED
        BY <3>1, <4>1 DEF Quantify
    <3> QED
      BY <2>1, <3>1, <3>3 DEF CountsAgree, Cleared
  <2>4. HostsAgree
    BY <1>2, <2>1 DEF HostsAgree, Cleared
  <2> QED
    BY <2>2, <2>3, <2>4
<1> QED
  BY <1>1, <1>2
-----------------------------------------------------------------------------
(* What happens to the table *)

LEMMA QuietKeeps ==
    ASSUME SourceInv, NEW T, ~ended => Sound(T), Quiet(T)
    PROVE  SourceInv'
BY DEF SourceInv, Quiet

LEMMA FlagCleared ==
    ASSUME NEW T, T = ClearOwnCollisionFlag, Sound(table)
    PROVE  Sound(T) /\ T.src = table.src /\ T.owndata = table.owndata
<1>1. table \in Tables /\ Good(table)
  BY SoundIs
<1>2. /\ T \in Tables /\ T.list = table.list /\ T.owndata = table.owndata
      /\ T.announced = table.announced
      /\ T.src = table.src /\ T.total = table.total /\ T.senders = table.senders
      /\ T.active = table.active /\ T.missed = table.missed /\ T.current = table.current
  BY <1>1 DEF Tables, ClearOwnCollisionFlag
<1>3. T.active + T.missed = table.active + table.missed
  BY <1>2
<1>4. Good(T)
  BY <1>1, <1>2, <1>3, Stays
<1> QED
  BY <1>2, <1>4 DEF Sound

\* A packet was processed, and a collision with the own source is resolved.
LEMMA ProcessedKeeps ==
    ASSUME SourceInv, NEW R, ~ended => Sound(R), NEW a, Processed(R, a)
    PROVE  SourceInv'
<1>1. /\ ~ended /\ ~ended' /\ arrived < MaxPackets /\ arrived' = arrived + 1 /\ Resolve(R, a)
      /\ Sound(R)
  BY DEF Processed
<1>2. arrived' \in 0 .. MaxPackets
  BY <1>1, SourceAssumption DEF SourceInv
<1>3. addresslist' \in [Addresses -> {"none", "fresh", "old"}]
  BY <1>1 DEF Resolve, SourceInv
<1>4. table' = R \/ \E s \in Ssrcs \ DOMAIN R.src : table' = ReplaceOwnSSRC(R, s)
  BY <1>1 DEF Resolve
<1>5. Sound(table')
  BY <1>1, <1>4, ReplacesOwn
<1>6. ended' \in BOOLEAN
  BY DEF Processed, SourceInv
<1> QED
  BY <1>1, <1>2, <1>3, <1>5, <1>6 DEF SourceInv

LEMMA RtpKeeps ==
    ASSUME SourceInv, NEW p \in Packets, NEW a \in Senders, RtpArrives(p, a)
    PROVE  SourceInv'
<1> DEFINE T == ClearOwnCollisionFlag
           R == ProcessRTPPacket(T, p, a)
<1>1. Processed(R, a) /\ \A s \in Sources : table.src[s].packets < MaxQueue
  BY DEF RtpArrives
<1>2. ~ended => Sound(R)
  <2> SUFFICES ASSUME ~ended PROVE Sound(R)
    OBVIOUS
  <2>1. Sound(table)
    BY DEF SourceInv
  <2>2. Sound(T) /\ T.src = table.src
    BY <2>1, FlagCleared
  <2>3. MaxQueue > 0
    <3>1. table.owndata \in DOMAIN table.src /\ table.src[table.owndata].packets \in Nat
      BY <2>1, SoundIs DEF Sound, SourceRecord
    <3> QED
      BY <1>1, <3>1, SourceAssumption DEF Sources
  <2>4. \A s \in DOMAIN T.src : T.src[s].packets < MaxQueue
    BY <1>1, <2>2 DEF Sources
  <2> HIDE DEF T
  <2>5. Grows(T, R)
    BY <2>2, <2>3, <2>4, RtpGrows
  <2> QED
    BY <2>5 DEF Grows
<1> HIDE DEF R
<1> QED
  BY <1>1, <1>2, ProcessedKeeps

LEMMA RtcpKeeps ==
    ASSUME SourceInv, NEW q \in Seq(ItemSet), NEW a \in Senders, RtcpArrives(q, a)
    PROVE  SourceInv'
<1> DEFINE T == ClearOwnCollisionFlag
           R == ProcessRTCPCompoundPacket(T, q, a)
<1>1. Processed(R, a)
  BY DEF RtcpArrives
<1>2. ~ended => Sound(R)
  <2> SUFFICES ASSUME ~ended PROVE Sound(R)
    OBVIOUS
  <2>1. Sound(table)
    BY DEF SourceInv
  <2>2. Sound(T)
    BY <2>1, FlagCleared
  <2> HIDE DEF T
  <2>3. Grows(T, R)
    BY <2>2, RtcpGrows
  <2> QED
    BY <2>3 DEF Grows
<1> HIDE DEF R
<1> QED
  BY <1>1, <1>2, ProcessedKeeps

\* A packet given up half way: what it did is done, the list stays.
LEMMA RtcpFailsKeeps ==
    ASSUME SourceInv, NEW q \in Seq(ItemSet), NEW a \in Senders, RtcpFails(q, a)
    PROVE  SourceInv'
<1> DEFINE T == ClearOwnCollisionFlag
           R == ProcessRTCPCompoundPacket(T, q, a)
<1>1. /\ ~ended /\ ~ended' /\ arrived < MaxPackets /\ arrived' = arrived + 1
      /\ table' = R /\ UNCHANGED <<addresslist, ended>>
  BY DEF RtcpFails
<1>2. Sound(R)
  <2>1. Sound(table)
    BY <1>1 DEF SourceInv
  <2>2. Sound(T)
    BY <2>1, FlagCleared
  <2> HIDE DEF T
  <2>3. Grows(T, R)
    BY <2>2, RtcpGrows
  <2> QED
    BY <2>3 DEF Grows
<1> HIDE DEF R
<1>3. arrived' \in 0 .. MaxPackets
  BY <1>1, SourceAssumption DEF SourceInv
<1> QED
  BY <1>1, <1>2, <1>3 DEF SourceInv

LEMMA AgesKeeps ==
    ASSUME SourceInv, NEW s, NEW k \in Stamps, Ages(s, k)
    PROVE  SourceInv'
<1> DEFINE T == [table EXCEPT !.src[s].old = @ \cup {k}]
<1>1. s \in DOMAIN table.src /\ Quiet(T)
  BY DEF Ages, Sources
<1>2. ~ended => Sound(T)
  <2> SUFFICES ASSUME ~ended PROVE Sound(T)
    OBVIOUS
  <2>1. Sound(table)
    BY DEF SourceInv
  <2>2. Grows(table, T)
    BY <1>1, <2>1, AgeGrows
  <2> QED
    BY <2>2 DEF Grows
<1> HIDE DEF T
<1> QED
  BY <1>1, <1>2, QuietKeeps

LEMMA TimeoutsKeep ==
    ASSUME SourceInv, TimeoutsDue \/ OneTimeout
    PROVE  SourceInv'
<1>1. /\ ~ended => Sound(Timeout(table)) /\ Sound(BYETimeout(table)) /\ Sound(NoteTimeout(table))
                   /\ Sound(SenderTimeout(table)) /\ Sound(MultipleTimeouts(table))
  BY TimeoutSound, BYETimeoutSound, NoteTimeoutSound, SenderTimeoutSound, MultipleTimeoutsSound
     DEF SourceInv
<1>2. CASE TimeoutsDue
  <2> DEFINE T == MultipleTimeouts(table)
  <2>1. ~ended /\ ~ended' /\ table' = T /\ arrived' = arrived
    BY <1>2 DEF TimeoutsDue
  <2>5. ended' \in BOOLEAN /\ arrived \in 0 .. MaxPackets
    BY <1>2 DEF TimeoutsDue, SourceInv
  <2>2. Sound(T)
    BY <1>1, <2>1
  <2>3. addresslist' \in [Addresses -> {"none", "fresh", "old"}]
    BY <1>2 DEF TimeoutsDue, SourceInv
  <2> HIDE DEF T
  <2>4. Sound(table')
    BY <2>1, <2>2
  <2> QED
    BY <2>1, <2>3, <2>4, <2>5 DEF SourceInv
<1>3. CASE OneTimeout
  <2>1. CASE Quiet(Timeout(table))
    BY <1>1, <2>1, QuietKeeps
  <2>2. CASE Quiet(BYETimeout(table))
    BY <1>1, <2>2, QuietKeeps
  <2>3. CASE Quiet(NoteTimeout(table))
    BY <1>1, <2>3, QuietKeeps
  <2>4. CASE Quiet(SenderTimeout(table))
    BY <1>1, <2>4, QuietKeeps
  <2> QED
    BY <1>3, <2>1, <2>2, <2>3, <2>4 DEF OneTimeout
<1> QED
  BY <1>2, <1>3

LEMMA WalkKeeps ==
    ASSUME SourceInv, SendPacket \/ Goto \/ Step
    PROVE  SourceInv'
<1>1. ~ended => Sound(table)
  BY DEF SourceInv
<1>2. CASE SendPacket
  <2>1. ~ended => Sound(SentRTPPacket(table))
    BY <1>1, SentGrows DEF Grows
  <2> QED
    BY <1>2, <2>1, QuietKeeps DEF SendPacket
<1>3. CASE Goto
  <2>1. ~ended => /\ Sound(GotoFirstSource(table)) /\ Sound(GotoFirstSourceWithData(table))
                  /\ \A s : Sound(GetSourceInfo(table, s))
    BY <1>1, CursorStays
  <2>2. CASE Quiet(GotoFirstSource(table))
    BY <2>1, <2>2, QuietKeeps
  <2>3. CASE Quiet(GotoFirstSourceWithData(table))
    BY <2>1, <2>3, QuietKeeps
  <2>4. ASSUME NEW s \in Ssrcs, Quiet(GetSourceInfo(table, s)) PROVE SourceInv'
    BY <2>1, <2>4, QuietKeeps
  <2> QED
    BY <1>3, <2>2, <2>3, <2>4 DEF Goto
<1>4. CASE Step
  <2>1. table.current # NoSsrc
    BY <1>4 DEF Step
  <2>2. ~ended => /\ Sound(GotoNextSource(table)) /\ Sound(GotoPreviousSource(table))
                  /\ Sound(GotoNextSourceWithData(table)) /\ Sound(GotoPreviousSourceWithData(table))
    BY <1>1, <2>1, CursorStays
  <2>3. ~ended => Sound(GetNextPacket(table))
    BY <1>1, <2>1, TakeGrows DEF Grows
  <2>4. CASE Quiet(GotoNextSource(table))
    BY <2>2, <2>4, QuietKeeps
  <2>5. CASE Quiet(GotoPreviousSource(table))
    BY <2>2, <2>5, QuietKeeps
  <2>6. CASE Quiet(GotoNextSourceWithData(table))
    BY <2>2, <2>6, QuietKeeps
  <2>7. CASE Quiet(GotoPreviousSourceWithData(table))
    BY <2>2, <2>7, QuietKeeps
  <2>8. CASE Quiet(GetNextPacket(table))
    BY <2>3, <2>8, QuietKeeps
  <2> QED
    BY <1>4, <2>4, <2>5, <2>6, <2>7, <2>8 DEF Step
<1> QED
  BY <1>2, <1>3, <1>4

LEMMA DestroyKeeps ==
    ASSUME SourceInv, Destroy
    PROVE  SourceInv'
<1> DEFINE T == ClearSourceList(table)
<1>1. ~ended /\ ended' /\ table' = T /\ arrived' = arrived /\ Sound(table) /\ ended' \in BOOLEAN
  BY DEF Destroy, SourceInv
<1>2. table \in Tables
  BY <1>1, SoundIs
<1>3. Cleared(T)
  <2>1. DOMAIN <<>> = {}
    OBVIOUS
  <2> QED
    BY <1>2, <2>1 DEF ClearSourceList, EmptyTable, Cleared, Tables
<1>4. addresslist' \in [Addresses -> {"none", "fresh", "old"}]
  BY DEF Destroy
<1> HIDE DEF T
<1>5. Cleared(table')
  BY <1>1, <1>3
<1> QED
  BY <1>1, <1>4, <1>5 DEF SourceInv, Cleared

LEMMA AddressKeeps ==
    ASSUME SourceInv, NEW a \in Addresses, AddressAges(a)
    PROVE  SourceInv'
BY DEF SourceInv, AddressAges
=============================================================================
