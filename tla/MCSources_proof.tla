-------------------------- MODULE MCSources_proof --------------------------
(***************************************************************************)
(* The other participants of a session, for any number of members, sources, *)
(* addresses, packets and threads: the hash table, which finds exactly the  *)
(* keys it has and iterates over them in the order they came                *)
(* (OrderedTable), the RTCP timer, the numbers of a source, Start and the   *)
(* thread it creates, and, with SourceTable_proof, the source table; then   *)
(* the theorems about the specification that TLC checks.                    *)
(***************************************************************************)
EXTENDS MCSources, SourceTable_proof

-----------------------------------------------------------------------------
(* The hash table: any keys, buckets and hash *)

LEMMA LeastOf ==
    ASSUME NEW B, B \subseteq Nat, B # {}
    PROVE  \E m \in B : \A k \in B : m <= k
<1>1. PICK m \in B : \A k \in B : <<k, m>> \notin OpToRel(<, Nat)
  BY NatLessThanWellFounded, WFMin
<1>2. ASSUME NEW k \in B PROVE m <= k
  <2>1. k \in Nat /\ m \in Nat
    OBVIOUS
  <2>2. <<k, m>> \notin OpToRel(<, Nat)
    BY <1>1
  <2>3. ~(k < m)
    BY <2>1, <2>2 DEF OpToRel
  <2> QED
    BY <2>1, <2>3
<1> QED
  BY <1>2

-----------------------------------------------------------------------------
(* The invariant *)

Maybe == DOMAIN link \cup {Null}
At(s, i) == IF i \in DOMAIN s THEN s[i] ELSE Null

\* s is the list: its elements in the order they came.
InList(s) ==
    /\ s \in Seq(DOMAIN link)
    /\ \A i, j \in DOMAIN s : s[i] = s[j] => i = j
    /\ \A e \in DOMAIN link : \E i \in DOMAIN s : s[i] = e
    /\ first = At(s, 1) /\ last = At(s, Len(s))
    /\ \A i \in DOMAIN s : /\ link[s[i]].listprev = At(s, i - 1)
                           /\ link[s[i]].listnext = At(s, i + 1)

\* The elements of a bucket.
InBucket(b) == {e \in DOMAIN link : Bucket[e] = b}

\* Where r numbers the elements of M, g is the one before e, or the one after,
\* or there is none.
Down(r, M, e, g) ==
    \/ g = Null /\ \A f \in M : r[e] <= r[f]
    \/ /\ g \in M /\ r[g] < r[e]
       /\ \A f \in M : r[f] < r[e] => r[f] <= r[g]
Up(r, M, e, g) ==
    \/ g = Null /\ \A f \in M : r[f] <= r[e]
    \/ /\ g \in M /\ r[e] < r[g]
       /\ \A f \in M : r[e] < r[f] => r[g] <= r[f]

Numbers(r, M) == /\ Null \notin M
                 /\ \A e \in M : r[e] \in Nat
                 /\ \A e, f \in M : r[e] = r[f] => e = f

\* r numbers the elements below n; within a bucket later ones are in front.
InBuckets(r, n) ==
    /\ r \in [Keys -> Nat] /\ n \in Nat
    /\ \A e \in DOMAIN link : r[e] < n
    /\ Numbers(r, DOMAIN link)
    /\ \A b \in Buckets :
         \/ head[b] = Null /\ InBucket(b) = {}
         \/ head[b] \in InBucket(b) /\ Up(r, InBucket(b), head[b], Null)
    /\ \A e \in DOMAIN link :
         /\ Down(r, InBucket(Bucket[e]), e, link[e].hashnext)
         /\ Up(r, InBucket(Bucket[e]), e, link[e].hashprev)

\* The cursor stands on an element or nowhere.
HashInv ==
    /\ HashTypeOK
    /\ cur \in Maybe \cup {Wild}
    /\ \E s : InList(s)
    /\ \E n, r : InBuckets(r, n)

-----------------------------------------------------------------------------
(* What a search finds *)

IsBelow(f, k) == f = [e \in Maybe |-> e # Null /\ (e = k \/ f[link[e].hashnext])]

LEMMA BelowIs ==
    ASSUME NEW r, NEW n, InBuckets(r, n), Null \notin DOMAIN link, NEW k
    PROVE  /\ \E f : IsBelow(f, k)
           /\ \A f : IsBelow(f, k) =>
                \A e \in DOMAIN link :
                   f[e] <=> (k \in DOMAIN link /\ Bucket[e] = Bucket[k] /\ r[k] <= r[e])
<1> DEFINE has(e) == k \in DOMAIN link /\ Bucket[e] = Bucket[k] /\ r[k] <= r[e]
<1>0. \A e \in DOMAIN link : r[e] \in Nat
  BY DEF InBuckets, Numbers
<1>1. ASSUME NEW e \in DOMAIN link, e # k
      PROVE  has(e) <=> link[e].hashnext # Null /\ has(link[e].hashnext)
  <2> DEFINE g == link[e].hashnext
  <2>1. \/ g = Null /\ \A f \in InBucket(Bucket[e]) : r[e] <= r[f]
        \/ /\ g \in InBucket(Bucket[e]) /\ r[g] < r[e]
           /\ \A f \in InBucket(Bucket[e]) : r[f] < r[e] => r[f] <= r[g]
    BY DEF InBuckets, Down
  <2> HIDE DEF g
  <2>2. has(e) => k \in InBucket(Bucket[e]) /\ r[k] < r[e]
    <3> SUFFICES ASSUME has(e) PROVE k \in InBucket(Bucket[e]) /\ r[k] < r[e]
      OBVIOUS
    <3>1. k \in InBucket(Bucket[e]) /\ r[k] # r[e]
      BY <1>1 DEF InBucket, InBuckets, Numbers
    <3> QED
      BY <3>1, <1>0
  <2>3. CASE g = Null /\ \A f \in InBucket(Bucket[e]) : r[e] <= r[f]
    <3>1. ~has(e)
      <4> SUFFICES ASSUME has(e) PROVE FALSE
        OBVIOUS
      <4>1. k \in InBucket(Bucket[e]) /\ r[k] < r[e] /\ r[e] <= r[k] /\ k \in DOMAIN link
        BY <2>2, <2>3
      <4> QED
        BY <4>1, <1>0
    <3> QED
      BY <3>1, <2>3 DEF g
  <2>4. CASE /\ g \in InBucket(Bucket[e]) /\ r[g] < r[e]
             /\ \A f \in InBucket(Bucket[e]) : r[f] < r[e] => r[f] <= r[g]
    <3>1. g \in DOMAIN link /\ Bucket[g] = Bucket[e] /\ g # Null
      BY <2>4 DEF InBucket
    <3>2. has(e) => has(g)
      BY <2>2, <2>4, <3>1
    <3>3. has(g) => has(e)
      <4> SUFFICES ASSUME has(g) PROVE has(e)
        OBVIOUS
      <4>1. r[k] <= r[g] /\ r[g] < r[e] /\ k \in DOMAIN link
        BY <2>4
      <4>2. r[k] <= r[e]
        BY <4>1, <3>1, <1>0
      <4> QED
        BY <4>2, <3>1
    <3> HIDE DEF has
    <3> QED
      BY <3>1, <3>2, <3>3 DEF g
  <2> HIDE DEF has
  <2> QED
    BY <2>1, <2>3, <2>4
<1>2. has(k) <=> k \in DOMAIN link
  BY <1>0
<1>3. \E f : IsBelow(f, k)
  <2> DEFINE f == [e \in Maybe |-> e # Null /\ has(e)]
  <2>1. ASSUME NEW e \in Maybe
        PROVE  (e # Null /\ has(e)) <=> (e # Null /\ (e = k \/ f[link[e].hashnext]))
    <3>1. CASE e = Null
      BY <3>1
    <3>2. CASE e \in DOMAIN link /\ e = k
      BY <3>2, <1>2
    <3>3. CASE e \in DOMAIN link /\ e # k
      <4>1. link[e].hashnext \in Maybe
        BY <3>3 DEF InBuckets, InBucket, Down, Maybe
      <4> HIDE DEF has
      <4>2. f[link[e].hashnext] <=> link[e].hashnext # Null /\ has(link[e].hashnext)
        BY <4>1
      <4> HIDE DEF f
      <4> QED
        BY <3>3, <4>2, <1>1
    <3> QED
      BY <3>1, <3>2, <3>3 DEF Maybe
  <2> HIDE DEF has
  <2>2. f = [e \in Maybe |-> e # Null /\ (e = k \/ f[link[e].hashnext])]
    <3> DEFINE g == [e \in Maybe |-> e # Null /\ (e = k \/ f[link[e].hashnext])]
    <3>1. \A e \in Maybe : f[e] = g[e]
      <4> SUFFICES ASSUME NEW e \in Maybe PROVE f[e] = g[e]
        OBVIOUS
      <4>1. f[e] = (e # Null /\ has(e))
        OBVIOUS
      <4> HIDE DEF f
      <4>2. g[e] = (e # Null /\ (e = k \/ f[link[e].hashnext]))
        OBVIOUS
      <4> HIDE DEF g
      <4> QED
        BY <2>1, <4>1, <4>2
    <3> QED
      BY <3>1
  <2> QED
    BY <2>2 DEF IsBelow
<1>4. ASSUME NEW f, IsBelow(f, k), NEW e0 \in DOMAIN link, ~(f[e0] <=> has(e0))
      PROVE  FALSE
  <2> DEFINE B == {m \in Nat : \E e \in DOMAIN link : r[e] = m /\ ~(f[e] <=> has(e))}
  <2>1. B \subseteq Nat /\ r[e0] \in B
    BY <1>4, <1>0
  <2> HIDE DEF has
  <2>2. PICK m \in B : \A j \in B : m <= j
    <3> HIDE DEF B
    <3> QED
      BY <2>1, LeastOf
  <2>3. PICK e \in DOMAIN link : r[e] = m /\ ~(f[e] <=> has(e))
    BY <2>2
  <2>4. f[e] <=> (e # Null /\ (e = k \/ f[link[e].hashnext]))
    <3>1. e \in Maybe
      BY DEF Maybe
    <3> QED
      BY <1>4, <3>1 DEF IsBelow
  <2>5. e # k
    BY <2>3, <2>4, <1>2
  <2>6. has(e) <=> link[e].hashnext # Null /\ has(link[e].hashnext)
    BY <1>1, <2>5
  <2>7. CASE link[e].hashnext = Null
    <3>1. Null \in Maybe
      BY DEF Maybe
    <3>2. ~f[Null]
      BY <1>4, <3>1 DEF IsBelow
    <3> QED
      BY <3>2, <2>3, <2>4, <2>5, <2>6, <2>7
  <2>8. CASE link[e].hashnext # Null
    <3> DEFINE g == link[e].hashnext
    <3>1. g \in DOMAIN link /\ r[g] < r[e]
      BY <2>8 DEF InBuckets, InBucket, Down
    <3> HIDE DEF g
    <3>2. f[g] <=> has(g)
      <4> SUFFICES ASSUME ~(f[g] <=> has(g)) PROVE FALSE
        OBVIOUS
      <4>1. r[g] \in B
        BY <3>1, <1>0
      <4>2. m <= r[g]
        BY <4>1, <2>2
      <4> QED
        BY <4>2, <2>3, <3>1, <1>0
    <3>3. e # Null
      OBVIOUS
    <3> QED
      BY <3>2, <3>3, <2>3, <2>4, <2>5, <2>6, <2>8 DEF g
  <2> QED
    BY <2>7, <2>8
<1> QED
  BY <1>3, <1>4

\* The search finds the keys there are.
LEMMA FoundIs ==
    ASSUME HashInv, NEW k \in Keys
    PROVE  Found(k) <=> k \in DOMAIN link
<1>1. PICK n, r : InBuckets(r, n)
  BY DEF HashInv
<1>2. Null \notin DOMAIN link /\ Bucket[k] \in Buckets
  BY HashAssumption DEF HashInv, HashTypeOK
<1> DEFINE f == CHOOSE g : IsBelow(g, k)
           h == head[Bucket[k]]
<1>3. IsBelow(f, k) /\ \A e \in DOMAIN link :
                   f[e] <=> (k \in DOMAIN link /\ Bucket[e] = Bucket[k] /\ r[k] <= r[e])
  <2>1. \E g : IsBelow(g, k)
    BY <1>1, <1>2, BelowIs
  <2>2. IsBelow(f, k)
    BY <2>1
  <2> HIDE DEF f
  <2> QED
    BY <2>2, <1>1, <1>2, BelowIs
<1>4. Found(k) = f[h]
  BY DEF Found, IsBelow, Maybe
<1> HIDE DEF f
<1>5. \/ h = Null /\ \A e \in DOMAIN link : Bucket[e] # Bucket[k]
      \/ /\ h \in DOMAIN link /\ Bucket[h] = Bucket[k]
         /\ \A e \in InBucket(Bucket[h]) : r[e] <= r[h]
  <2>1. \/ h = Null /\ InBucket(Bucket[k]) = {}
        \/ h \in InBucket(Bucket[k]) /\ Up(r, InBucket(Bucket[k]), h, Null)
    BY <1>1, <1>2 DEF InBuckets
  <2>2. Null \notin InBucket(Bucket[k])
    BY <1>2 DEF InBucket
  <2> QED
    BY <2>1, <2>2 DEF InBucket, Up
<1> HIDE DEF h
<1>6. CASE h = Null /\ \A e \in DOMAIN link : Bucket[e] # Bucket[k]
  <2>1. Null \in Maybe
    BY DEF Maybe
  <2>2. ~f[Null]
    BY <1>3, <2>1 DEF IsBelow
  <2> QED
    BY <1>4, <1>6, <2>2
<1>7. CASE /\ h \in DOMAIN link /\ Bucket[h] = Bucket[k]
           /\ \A e \in InBucket(Bucket[h]) : r[e] <= r[h]
  <2>1. k \in DOMAIN link => k \in InBucket(Bucket[h])
    BY <1>7 DEF InBucket
  <2> QED
    BY <1>3, <1>4, <1>7, <2>1
<1> QED
  BY <1>5, <1>6, <1>7
-----------------------------------------------------------------------------
(* Neighbours *)

\* The one after the one before e is e,
LEMMA UpOfDown ==
    ASSUME NEW r, NEW M, Numbers(r, M), NEW e \in M, NEW g \in M, NEW h,
           Down(r, M, e, g), Up(r, M, g, h)
    PROVE  h = e
<1>1. Null \notin M /\ \A f \in M : r[f] \in Nat
  BY DEF Numbers
<1>2. r[g] < r[e] /\ \A f \in M : r[f] < r[e] => r[f] <= r[g]
  BY <1>1 DEF Down
<1>3. h \in M /\ r[g] < r[h] /\ \A f \in M : r[g] < r[f] => r[h] <= r[f]
  <2>1. ~(h = Null /\ \A f \in M : r[f] <= r[g])
    <3> SUFFICES ASSUME \A f \in M : r[f] <= r[g] PROVE FALSE
      OBVIOUS
    <3>1. r[e] <= r[g] /\ r[g] < r[e] /\ r[e] \in Nat /\ r[g] \in Nat
      BY <1>1, <1>2
    <3> QED
      BY <3>1
  <2> QED
    BY <2>1 DEF Up
<1>4. r[h] <= r[e]
  BY <1>2, <1>3
<1>5. ~(r[h] < r[e])
  <2> SUFFICES ASSUME r[h] < r[e] PROVE FALSE
    OBVIOUS
  <2>1. r[h] <= r[g] /\ r[g] < r[h] /\ r[h] \in Nat /\ r[g] \in Nat
    BY <1>1, <1>2, <1>3
  <2> QED
    BY <2>1
<1>6. r[h] = r[e]
  BY <1>1, <1>3, <1>4, <1>5
<1> QED
  BY <1>3, <1>6 DEF Numbers

\* and the one before the one after.
LEMMA DownOfUp ==
    ASSUME NEW r, NEW M, Numbers(r, M), NEW e \in M, NEW g \in M, NEW h,
           Up(r, M, e, g), Down(r, M, g, h)
    PROVE  h = e
<1>1. Null \notin M /\ \A f \in M : r[f] \in Nat
  BY DEF Numbers
<1>2. r[e] < r[g] /\ \A f \in M : r[e] < r[f] => r[g] <= r[f]
  BY <1>1 DEF Up
<1>3. h \in M /\ r[h] < r[g] /\ \A f \in M : r[f] < r[g] => r[f] <= r[h]
  <2>1. ~(h = Null /\ \A f \in M : r[g] <= r[f])
    <3> SUFFICES ASSUME \A f \in M : r[g] <= r[f] PROVE FALSE
      OBVIOUS
    <3>1. r[g] <= r[e] /\ r[e] < r[g] /\ r[e] \in Nat /\ r[g] \in Nat
      BY <1>1, <1>2
    <3> QED
      BY <3>1
  <2> QED
    BY <2>1 DEF Down
<1>4. r[e] <= r[h]
  BY <1>2, <1>3
<1>5. ~(r[e] < r[h])
  <2> SUFFICES ASSUME r[e] < r[h] PROVE FALSE
    OBVIOUS
  <2>1. r[g] <= r[h] /\ r[h] < r[g] /\ r[h] \in Nat /\ r[g] \in Nat
    BY <1>1, <1>2, <1>3
  <2> QED
    BY <2>1
<1>6. r[h] = r[e]
  BY <1>1, <1>3, <1>4, <1>5
<1> QED
  BY <1>3, <1>6 DEF Numbers

\* Without k, whose neighbours are g and h: who had k as a neighbour gets k's on
\* that side, and everyone else keeps theirs.
LEMMA DownWithout ==
    ASSUME NEW r, NEW M, Numbers(r, M), NEW k \in M, NEW g, NEW e \in M \ {k}, NEW d,
           Down(r, M, k, g), Down(r, M, e, d)
    PROVE  Down(r, M \ {k}, e, IF d = k THEN g ELSE d)
<1>1. Null \notin M /\ \A f \in M : r[f] \in Nat
  BY DEF Numbers
<1>2. CASE d # k
  BY <1>2 DEF Down
<1>3. CASE d = k
  <2>1. r[k] < r[e] /\ \A f \in M : r[f] < r[e] => r[f] <= r[k]
    BY <1>1, <1>3 DEF Down
  <2>2. \A f \in M \ {k} : r[f] # r[k]
    BY DEF Numbers
  <2>3. \A f \in M \ {k} : r[f] < r[e] => r[f] < r[k]
    BY <1>1, <2>1, <2>2
  <2>4. CASE g = Null /\ \A f \in M : r[k] <= r[f]
    <3>1. ASSUME NEW f \in M \ {k} PROVE r[e] <= r[f]
      <4>1. r[k] <= r[f] /\ ~(r[f] < r[k]) /\ r[f] \in Nat /\ r[e] \in Nat
        BY <1>1, <2>4
      <4> QED
        BY <2>3, <4>1
    <3> QED
      BY <1>3, <2>4, <3>1 DEF Down
  <2>5. CASE g \in M /\ r[g] < r[k] /\ \A f \in M : r[f] < r[k] => r[f] <= r[g]
    <3>1. g # k /\ r[g] < r[e]
      BY <1>1, <2>1, <2>5
    <3>2. \A f \in M \ {k} : r[f] < r[e] => r[f] <= r[g]
      BY <2>3, <2>5
    <3> QED
      BY <1>3, <2>5, <3>1, <3>2 DEF Down
  <2> QED
    BY <2>4, <2>5 DEF Down
<1> QED
  BY <1>2, <1>3

LEMMA UpWithout ==
    ASSUME NEW r, NEW M, Numbers(r, M), NEW k \in M, NEW g, NEW e \in M \ {k}, NEW d,
           Up(r, M, k, g), Up(r, M, e, d)
    PROVE  Up(r, M \ {k}, e, IF d = k THEN g ELSE d)
<1>1. Null \notin M /\ \A f \in M : r[f] \in Nat
  BY DEF Numbers
<1>2. CASE d # k
  BY <1>2 DEF Up
<1>3. CASE d = k
  <2>1. r[e] < r[k] /\ \A f \in M : r[e] < r[f] => r[k] <= r[f]
    BY <1>1, <1>3 DEF Up
  <2>2. \A f \in M \ {k} : r[f] # r[k]
    BY DEF Numbers
  <2>3. \A f \in M \ {k} : r[e] < r[f] => r[k] < r[f]
    BY <1>1, <2>1, <2>2
  <2>4. CASE g = Null /\ \A f \in M : r[f] <= r[k]
    <3>1. ASSUME NEW f \in M \ {k} PROVE r[f] <= r[e]
      <4>1. r[f] <= r[k] /\ ~(r[k] < r[f]) /\ r[f] \in Nat /\ r[e] \in Nat
        BY <1>1, <2>4
      <4> QED
        BY <2>3, <4>1
    <3> QED
      BY <1>3, <2>4, <3>1 DEF Up
  <2>5. CASE g \in M /\ r[k] < r[g] /\ \A f \in M : r[k] < r[f] => r[g] <= r[f]
    <3>1. g # k /\ r[e] < r[g]
      BY <1>1, <2>1, <2>5
    <3>2. \A f \in M \ {k} : r[e] < r[f] => r[g] <= r[f]
      BY <2>3, <2>5
    <3> QED
      BY <1>3, <2>5, <3>1, <3>2 DEF Up
  <2> QED
    BY <2>4, <2>5 DEF Up
<1> QED
  BY <1>2, <1>3

\* With k, numbered above all of M, whose last was t: k is after t.
LEMMA WithOneMore ==
    ASSUME NEW r, NEW M, Numbers(r, M), NEW n \in Nat, \A f \in M : r[f] < n,
           NEW k, k \notin M, k # Null, NEW t,
           \/ t = Null /\ M = {}
           \/ t \in M /\ Up(r, M, t, Null),
           NEW q, q[k] = n, \A f \in M : q[f] = r[f]
    PROVE  LET N == M \cup {k}
           IN  /\ Numbers(q, N)
               /\ Down(q, N, k, t) /\ Up(q, N, k, Null)
               /\ \A g : \A e \in M : Down(r, M, e, g) => Down(q, N, e, g)
               /\ \A g : \A e \in M : Up(r, M, e, g) => Up(q, N, e, IF e = t THEN k ELSE g)
<1> DEFINE N == M \cup {k}
<1>1. Null \notin M /\ \A f \in M : r[f] \in Nat /\ q[f] \in Nat /\ q[f] < n
  BY DEF Numbers
<1>2. Numbers(q, N)
  <2>1. \A f \in M : q[f] # q[k]
    BY <1>1
  <2> QED
    BY <1>1, <2>1 DEF Numbers
<1>3. Down(q, N, k, t)
  <2>1. CASE t = Null /\ M = {}
    <3>1. q[k] <= q[k]
      OBVIOUS
    <3> QED
      BY <2>1, <3>1 DEF Down
  <2>2. CASE t \in M /\ Up(r, M, t, Null)
    <3>1. \A f \in M : q[f] <= q[t]
      BY <1>1, <2>2 DEF Up
    <3>2. q[t] < q[k] /\ ~(q[k] < q[k])
      BY <1>1, <2>2
    <3> QED
      BY <2>2, <3>1, <3>2 DEF Down
  <2> QED
    BY <2>1, <2>2
<1>4. Up(q, N, k, Null)
  <2>1. \A f \in N : q[f] <= q[k]
    BY <1>1
  <2> QED
    BY <2>1 DEF Up
<1>5. ASSUME NEW e \in M, NEW g, Down(r, M, e, g) PROVE Down(q, N, e, g)
  <2>1. q[e] <= q[k] /\ ~(q[k] < q[e])
    BY <1>1
  <2> QED
    BY <1>1, <1>5, <2>1 DEF Down
<1>6. ASSUME NEW e \in M, NEW g, Up(r, M, e, g) PROVE Up(q, N, e, IF e = t THEN k ELSE g)
  <2>1. CASE e = t
    <3>1. \A f \in M : q[f] <= q[e]
      BY <1>1, <2>1 DEF Up
    <3>2. \A f \in N : q[e] < q[f] => q[k] <= q[f]
      <4>1. \A f \in M : ~(q[e] < q[f])
        BY <1>1, <3>1
      <4> QED
        BY <1>1, <4>1
    <3> QED
      BY <1>1, <2>1, <3>2 DEF Up
  <2>2. CASE e # t
    <3>1. t \in M /\ \A f \in M : r[f] <= r[t]
      BY <1>1 DEF Up
    <3>2. r[e] < r[t]
      <4>1. r[e] # r[t] /\ r[e] <= r[t] /\ r[e] \in Nat /\ r[t] \in Nat
        BY <1>1, <2>2, <3>1 DEF Numbers
      <4> QED
        BY <4>1
    <3>3. g \in M /\ r[e] < r[g] /\ \A f \in M : r[e] < r[f] => r[g] <= r[f]
      <4>1. ~(\A f \in M : r[f] <= r[e])
        BY <1>1, <3>1, <3>2
      <4> QED
        BY <1>6, <4>1 DEF Up
    <3> QED
      BY <1>1, <2>2, <3>3 DEF Up
  <2> QED
    BY <2>1, <2>2
<1> QED
  BY <1>2, <1>3, <1>4, <1>5, <1>6

-----------------------------------------------------------------------------
(* What a walk visits *)

IsWalk(f, L) ==
    f = [e \in DOMAIN L \cup {Null} |-> IF e = Null THEN <<>> ELSE <<e>> \o f[L[e].listnext]]

\* The pointers of L lead through s.
Leads(L, s) ==
    /\ Null \notin DOMAIN L
    /\ s \in Seq(DOMAIN L)
    /\ \A i, j \in DOMAIN s : s[i] = s[j] => i = j
    /\ \A e \in DOMAIN L : \E i \in DOMAIN s : s[i] = e
    /\ \A i \in DOMAIN s : L[s[i]].listnext = At(s, i + 1)

LEMMA FirstAndRest ==
    ASSUME NEW S, NEW s \in Seq(S), NEW i \in DOMAIN s
    PROVE  SubSeq(s, i, Len(s)) = <<s[i]>> \o SubSeq(s, i + 1, Len(s))
<1> DEFINE n == Len(s)
           a == SubSeq(s, i, n)
           b == SubSeq(s, i + 1, n)
           c == <<s[i]>> \o b
<1>1. n \in Nat /\ i \in 1 .. n
  OBVIOUS
<1>2. a \in Seq(S) /\ Len(a) = n - i + 1 /\ \A k \in 1 .. n - i + 1 : a[k] = s[i + k - 1]
  BY <1>1
<1>3. b \in Seq(S) /\ Len(b) = n - i /\ \A k \in 1 .. n - i : b[k] = s[i + k]
  BY <1>1
<1> HIDE DEF a, b
<1>4. c \in Seq(S) /\ Len(c) = 1 + Len(b)
  BY <1>3
<1>5. c[1] = s[i] /\ \A k \in 2 .. 1 + Len(b) : c[k] = b[k - 1]
  BY <1>3
<1> HIDE DEF c, n
<1>6. ASSUME NEW k \in 1 .. Len(a) PROVE a[k] = c[k]
  <2>1. CASE k = 1
    BY <1>1, <1>2, <1>5, <2>1
  <2>2. CASE k # 1
    <3>1. k \in 2 .. 1 + Len(b) /\ k - 1 \in 1 .. n - i /\ i + (k - 1) = i + k - 1
      BY <1>1, <1>2, <1>3, <2>2
    <3> QED
      BY <1>2, <1>3, <1>5, <3>1
  <2> QED
    BY <2>1, <2>2
<1>7. Len(a) = Len(c)
  BY <1>1, <1>2, <1>3, <1>4
<1>8. a = c
  BY <1>2, <1>4, <1>6, <1>7, SeqEqual
<1> QED
  BY <1>8 DEF a, b, c, n

\* The next place of a sequence exists unless this one is the last.
LEMMA NextPlace ==
    ASSUME NEW n \in Nat, NEW i \in 1 .. n
    PROVE  i + 1 \in 1 .. n <=> i # n
OBVIOUS

LEMMA WalkIs ==
    ASSUME NEW L, NEW s, Leads(L, s)
    PROVE  (CHOOSE f : IsWalk(f, L))[At(s, 1)] = s
<1> DEFINE n == Len(s)
           rest(i) == SubSeq(s, i, n)
           D == DOMAIN L
<1>0. /\ Null \notin D /\ s \in Seq(D) /\ n \in Nat /\ DOMAIN s = 1 .. n
      /\ \A i \in 1 .. n : s[i] \in D
  BY DEF Leads
<1>1. /\ \A i \in 1 .. n : rest(i) = <<s[i]>> \o rest(i + 1)
      /\ rest(n + 1) = <<>> /\ rest(1) = s
  <2>1. \A i \in 1 .. n : rest(i) = <<s[i]>> \o rest(i + 1)
    BY <1>0, FirstAndRest
  <2>2. rest(n + 1) = <<>>
    BY <1>0
  <2>3. rest(1) = s
    BY <1>0
  <2> QED
    BY <2>1, <2>2, <2>3
<1>2. ASSUME NEW i \in 1 .. n PROVE L[s[i]].listnext = IF i = n THEN Null ELSE s[i + 1]
  <2>1. L[s[i]].listnext = At(s, i + 1)
    BY <1>0 DEF Leads
  <2>2. i + 1 \in DOMAIN s <=> i # n
    BY <1>0, NextPlace
  <2> QED
    BY <2>1, <2>2 DEF At
<1> HIDE DEF n, rest, D
<1>3. \E f : IsWalk(f, L)
  <2> DEFINE place(e) == CHOOSE i \in 1 .. n : s[i] = e
             f == [e \in D \cup {Null} |-> IF e = Null THEN <<>> ELSE rest(place(e))]
             g == [e \in D \cup {Null} |-> IF e = Null THEN <<>> ELSE <<e>> \o f[L[e].listnext]]
  <2>1. \A e \in D : place(e) \in 1 .. n /\ s[place(e)] = e
    BY <1>0 DEF Leads, D
  <2>2. \A i \in 1 .. n : place(s[i]) = i
    BY <1>0, <2>1 DEF Leads
  <2> HIDE DEF place
  <2>3. f[Null] = <<>> /\ \A e \in D : f[e] = rest(place(e))
    BY <1>0
  <2>4. g[Null] = <<>> /\ \A e \in D : g[e] = <<e>> \o f[L[e].listnext]
    BY <1>0
  <2>5. ASSUME NEW e \in D PROVE f[e] = g[e]
    <3> DEFINE i == place(e)
    <3>1. i \in 1 .. n /\ s[i] = e /\ f[e] = <<e>> \o rest(i + 1)
      BY <1>1, <2>1, <2>3
    <3> HIDE DEF i, f, g
    <3>2. f[L[e].listnext] = rest(i + 1)
      <4>1. CASE i = n
        BY <1>1, <1>2, <2>3, <3>1, <4>1
      <4>2. CASE i # n
        <5>1. i + 1 \in 1 .. n
          BY <1>0, <3>1, <4>2
        <5> QED
          BY <1>0, <1>2, <2>2, <2>3, <3>1, <4>2, <5>1
      <4> QED
        BY <4>1, <4>2
    <3> QED
      BY <2>4, <3>1, <3>2
  <2>6. f = g
    <3>1. \A e \in D \cup {Null} : f[e] = g[e]
      <4> HIDE DEF f, g
      <4> QED
        BY <2>3, <2>4, <2>5
    <3> QED
      BY <3>1
  <2> HIDE DEF f
  <2> QED
    BY <2>6 DEF IsWalk, D
<1>4. ASSUME NEW f, IsWalk(f, L) PROVE f[At(s, 1)] = s
  <2>1. f[Null] = <<>> /\ \A e \in D : f[e] = <<e>> \o f[L[e].listnext]
    <3> DEFINE g == [e \in D \cup {Null} |-> IF e = Null THEN <<>> ELSE <<e>> \o f[L[e].listnext]]
    <3>1. f = g
      BY <1>4 DEF IsWalk, D
    <3>2. g[Null] = <<>> /\ \A e \in D : g[e] = <<e>> \o f[L[e].listnext]
      BY <1>0
    <3> HIDE DEF g
    <3> QED
      BY <3>1, <3>2
  <2>2. ASSUME NEW i \in 1 .. n PROVE f[s[i]] = rest(i)
    <3> DEFINE B == {m \in Nat : \E j \in 1 .. n : m = n - j /\ f[s[j]] # rest(j)}
    <3> SUFFICES ASSUME f[s[i]] # rest(i) PROVE FALSE
      OBVIOUS
    <3>1. n - i \in B /\ B \subseteq Nat
      BY <1>0
    <3>2. PICK m \in B : \A k \in B : m <= k
      <4> HIDE DEF B
      <4> QED
        BY <3>1, LeastOf
    <3>3. PICK j \in 1 .. n : m = n - j /\ f[s[j]] # rest(j)
      BY <3>2
    <3>4. f[L[s[j]].listnext] # rest(j + 1)
      BY <1>0, <1>1, <2>1, <3>3
    <3>5. j # n
      BY <1>0, <1>1, <1>2, <2>1, <3>4
    <3>6. j + 1 \in 1 .. n /\ n - (j + 1) \in Nat /\ ~(m <= n - (j + 1))
      BY <1>0, <3>3, <3>5
    <3>7. f[s[j + 1]] # rest(j + 1)
      BY <1>2, <3>4, <3>5
    <3>8. n - (j + 1) \in B
      BY <3>6, <3>7
    <3> QED
      BY <3>2, <3>6, <3>8
  <2>3. CASE n = 0
    <3>1. At(s, 1) = Null /\ s = <<>>
      BY <1>0, <2>3 DEF At, n
    <3> QED
      BY <2>1, <3>1
  <2>4. CASE n # 0
    <3>1. 1 \in 1 .. n /\ At(s, 1) = s[1]
      BY <1>0, <2>4 DEF At
    <3> QED
      BY <1>1, <2>2, <3>1
  <2> QED
    BY <2>3, <2>4
<1>5. IsWalk(CHOOSE f : IsWalk(f, L), L)
  BY <1>3
<1> QED
  BY <1>4, <1>5

\* The walk from the first element visits the list.
LEMMA ListIs ==
    \A q : Null \notin DOMAIN link /\ InList(q) => ListFrom[first] = q
<1> SUFFICES ASSUME NEW s, InList(s), Null \notin DOMAIN link PROVE ListFrom[first] = s
  OBVIOUS
<1>1. Leads(link, s) /\ first = At(s, 1)
  BY DEF InList, Leads
<1>2. ListFrom = CHOOSE f : IsWalk(f, link)
  BY DEF ListFrom, IsWalk
<1> QED
  BY <1>1, <1>2, WalkIs

-----------------------------------------------------------------------------
(* The list without one element, and with one more *)

LEMMA AtRemoved ==
    ASSUME NEW S, NEW s \in Seq(S), NEW p \in DOMAIN s
    PROVE  LET r == RemoveAt(s, p)
           IN  /\ r \in Seq(S) /\ Len(r) = Len(s) - 1
               /\ \A j \in Int : At(r, j) = IF j < p THEN At(s, j) ELSE At(s, j + 1)
<1> DEFINE r == RemoveAt(s, p)
           n == Len(s)
           a == SubSeq(s, 1, p - 1)
           b == SubSeq(s, p + 1, n)
<1>1. n \in Nat /\ DOMAIN s = 1 .. n /\ p \in 1 .. n
  OBVIOUS
<1>2. a \in Seq(S) /\ Len(a) = p - 1 /\ \A k \in 1 .. p - 1 : a[k] = s[k]
  BY <1>1
<1>3. b \in Seq(S) /\ Len(b) = n - p /\ \A k \in 1 .. n - p : b[k] = s[p + k]
  BY <1>1
<1>4. r = a \o b
  BY DEF RemoveAt
<1> HIDE DEF a, b, r, n
<1>5. r \in Seq(S) /\ Len(r) = n - 1
  <2>1. r \in Seq(S) /\ Len(r) = Len(a) + Len(b)
    BY <1>2, <1>3, <1>4, ConcatProperties
  <2> QED
    BY <1>1, <1>2, <1>3, <2>1
<1>6. DOMAIN r = 1 .. n - 1
  BY <1>1, <1>5
<1>7. ASSUME NEW j \in Int PROVE At(r, j) = IF j < p THEN At(s, j) ELSE At(s, j + 1)
  <2>1. CASE j < p /\ j \in 1 .. n - 1
    <3>1. r[j] = s[j] /\ j \in 1 .. n
      BY <1>1, <1>2, <1>3, <1>4, <2>1
    <3> QED
      BY <1>1, <1>6, <2>1, <3>1 DEF At
  <2>2. CASE j < p /\ j \notin 1 .. n - 1
    <3>1. j \notin 1 .. n
      BY <1>1, <2>2
    <3> QED
      BY <1>1, <1>6, <2>2, <3>1 DEF At
  <2>3. CASE ~(j < p) /\ j \in 1 .. n - 1
    <3>1. j - (p - 1) \in 1 .. n - p /\ r[j] = b[j - (p - 1)] /\ p + (j - (p - 1)) = j + 1
      BY SMTT(40), <1>1, <1>2, <1>3, <1>4, <2>3
    <3>2. r[j] = s[p + (j - (p - 1))]
      BY <1>3, <3>1
    <3>3. r[j] = s[j + 1] /\ j + 1 \in 1 .. n
      BY <1>1, <2>3, <3>1, <3>2
    <3> QED
      BY <1>1, <1>6, <2>3, <3>3 DEF At
  <2>4. CASE ~(j < p) /\ j \notin 1 .. n - 1
    <3>1. j + 1 \notin 1 .. n
      BY <1>1, <2>4
    <3> QED
      BY <1>1, <1>6, <2>4, <3>1 DEF At
  <2> QED
    BY <2>1, <2>2, <2>3, <2>4
<1> QED
  BY <1>5, <1>7 DEF r, n

LEMMA AtAppended ==
    ASSUME NEW S, NEW s \in Seq(S), NEW k \in S
    PROVE  LET r == Append(s, k)
           IN  /\ r \in Seq(S) /\ Len(r) = Len(s) + 1
               /\ \A j \in Int : At(r, j) = IF j = Len(s) + 1 THEN k ELSE At(s, j)
<1> DEFINE r == Append(s, k)
           n == Len(s)
<1>1. n \in Nat /\ DOMAIN s = 1 .. n
  OBVIOUS
<1>2. r \in Seq(S) /\ Len(r) = n + 1 /\ DOMAIN r = 1 .. n + 1
      /\ r[n + 1] = k /\ \A j \in 1 .. n : r[j] = s[j]
  BY <1>1
<1> HIDE DEF r, n
<1>3. ASSUME NEW j \in Int PROVE At(r, j) = IF j = n + 1 THEN k ELSE At(s, j)
  <2>1. CASE j = n + 1
    BY <1>1, <1>2, <2>1 DEF At
  <2>2. CASE j # n + 1 /\ j \in 1 .. n
    <3>1. j \in 1 .. n + 1
      BY <1>1, <2>2
    <3> QED
      BY <1>1, <1>2, <2>2, <3>1 DEF At
  <2>3. CASE j # n + 1 /\ j \notin 1 .. n
    <3>1. j \notin 1 .. n + 1
      BY <1>1, <2>3
    <3> QED
      BY <1>1, <1>2, <2>3, <3>1 DEF At
  <2> QED
    BY <2>1, <2>2, <2>3
<1> QED
  BY <1>2, <1>3 DEF r, n

\* A list read through At.
Reads(s) ==
    /\ s \in Seq(DOMAIN link)
    /\ \A j \in Int : At(s, j) # Null <=> j \in 1 .. Len(s)
    /\ \A i, j \in 1 .. Len(s) : At(s, i) = At(s, j) => i = j
    /\ \A e \in DOMAIN link : \E i \in 1 .. Len(s) : At(s, i) = e
    /\ first = At(s, 1) /\ last = At(s, Len(s))
    /\ \A i \in 1 .. Len(s) : /\ At(s, i) \in DOMAIN link
                              /\ link[At(s, i)].listprev = At(s, i - 1)
                              /\ link[At(s, i)].listnext = At(s, i + 1)

LEMMA ReadsIs ==
    \A q : Null \notin DOMAIN link => (InList(q) <=> Reads(q))
<1> SUFFICES ASSUME NEW s, Null \notin DOMAIN link, s \in Seq(DOMAIN link)
             PROVE  InList(s) <=> Reads(s)
  BY DEF InList, Reads
<1>1. Len(s) \in Nat /\ DOMAIN s = 1 .. Len(s) /\ \A i \in 1 .. Len(s) : s[i] \in DOMAIN link
  OBVIOUS
<1>2. \A i \in 1 .. Len(s) : At(s, i) = s[i] /\ s[i] # Null
  BY <1>1 DEF At
<1>3. \A j \in Int : j \notin 1 .. Len(s) => At(s, j) = Null
  BY <1>1 DEF At
<1>4. \A j \in Int : At(s, j) # Null <=> j \in 1 .. Len(s)
  BY <1>2, <1>3
<1>5. (\A i, j \in DOMAIN s : s[i] = s[j] => i = j)
      <=> (\A i, j \in 1 .. Len(s) : At(s, i) = At(s, j) => i = j)
  BY <1>1, <1>2
<1>6. (\A e \in DOMAIN link : \E i \in DOMAIN s : s[i] = e)
      <=> (\A e \in DOMAIN link : \E i \in 1 .. Len(s) : At(s, i) = e)
  BY <1>1, <1>2
<1>7. (\A i \in DOMAIN s : /\ link[s[i]].listprev = At(s, i - 1)
                           /\ link[s[i]].listnext = At(s, i + 1))
      <=> (\A i \in 1 .. Len(s) : /\ At(s, i) \in DOMAIN link
                              /\ link[At(s, i)].listprev = At(s, i - 1)
                              /\ link[At(s, i)].listnext = At(s, i + 1))
  <2>1. ASSUME NEW i \in 1 .. Len(s)
        PROVE  /\ At(s, i) \in DOMAIN link
               /\ link[s[i]].listprev = link[At(s, i)].listprev
               /\ link[s[i]].listnext = link[At(s, i)].listnext
    BY <1>1, <1>2
  <2> QED
    BY <1>1, <2>1
<1> QED
  BY <1>4, <1>5, <1>6, <1>7 DEF InList, Reads

\* The elements there are, and their fields.
LEMMA Elements ==
    ASSUME HashTypeOK
    PROVE  /\ Null \notin Keys /\ Wild \notin Keys /\ Null # Wild
           /\ Null \notin DOMAIN link
           /\ \A e \in DOMAIN link : e \in Keys /\ link[e] \in HashElement
BY HashAssumption DEF HashTypeOK

LEMMA ListWithout ==
    ASSUME HashTypeOK, NEW s, InList(s), NEW p \in DOMAIN s, Relink(s[p])
    PROVE  /\ Null \notin DOMAIN link'
           /\ InList(RemoveAt(s, p))'
           /\ cur' = At(s, p + 1)
<1> DEFINE k == s[p]
           r == RemoveAt(s, p)
           n == Len(s)
           D == DOMAIN link
<1>0. Null \notin D /\ Reads(s)
  BY Elements, ReadsIs
<1>1. /\ n \in Nat /\ p \in 1 .. n /\ s \in Seq(D)
      /\ At(s, p) = k /\ k \in D /\ k # Null
  <2>1. s \in Seq(D) /\ DOMAIN s = 1 .. n
    BY <1>0 DEF Reads
  <2> QED
    BY <1>0, <2>1 DEF At
<1>2. /\ r \in Seq(D) /\ Len(r) = n - 1
      /\ \A j \in Int : At(r, j) = IF j < p THEN At(s, j) ELSE At(s, j + 1)
  BY <1>1, AtRemoved
<1>3. DOMAIN link' = D \ {k} /\ Null \notin DOMAIN link'
  BY <1>0 DEF Relink, Unlinked
<1>4. /\ link[k].listprev = At(s, p - 1)
      /\ link[k].listnext = At(s, p + 1)
  BY <1>0, <1>1 DEF Reads
<1>5. /\ first' = IF At(s, p - 1) = Null THEN At(s, p + 1) ELSE first
      /\ last' = IF At(s, p + 1) = Null THEN At(s, p - 1) ELSE last
      /\ cur' = At(s, p + 1)
  BY <1>4 DEF Relink
<1>6. \A e \in D \ {k} :
        /\ link'[e].listprev = IF e = At(s, p + 1) THEN At(s, p - 1) ELSE link[e].listprev
        /\ link'[e].listnext = IF e = At(s, p - 1) THEN At(s, p + 1) ELSE link[e].listnext
  BY <1>4 DEF Relink, Unlinked
<1>7. /\ \A j \in Int : At(s, j) # Null <=> j \in 1 .. n
      /\ \A i, j \in 1 .. n : At(s, i) = At(s, j) => i = j
      /\ \A e \in D : \E i \in 1 .. n : At(s, i) = e
      /\ first = At(s, 1) /\ last = At(s, n)
      /\ \A i \in 1 .. n : /\ At(s, i) \in D
                           /\ link[At(s, i)].listprev = At(s, i - 1)
                           /\ link[At(s, i)].listnext = At(s, i + 1)
  BY <1>0 DEF Reads
<1> HIDE DEF k, r, n, D
<1>7a. \A i \in 1 .. n, j \in Int : At(s, i) = At(s, j) <=> i = j
  <2> SUFFICES ASSUME NEW i \in 1 .. n, NEW j \in Int, At(s, i) = At(s, j) PROVE i = j
    OBVIOUS
  <2>1. At(s, i) # Null
    BY <1>1, <1>7
  <2>2. j \in 1 .. n
    BY <1>7, <2>1
  <2> QED
    BY <1>7, <2>2
<1>7b. p - 1 \in Int /\ p + 1 \in Int /\ (p - 1 \in 1 .. n <=> p # 1) /\ (p + 1 \in 1 .. n <=> p # n)
  BY <1>1
<1>8. ASSUME NEW i \in 1 .. n - 1
      PROVE  /\ At(r, i) \in D \ {k}
             /\ link'[At(r, i)].listprev = At(r, i - 1)
             /\ link'[At(r, i)].listnext = At(r, i + 1)
  <2>1. i \in 1 .. n /\ i + 1 \in 1 .. n /\ p + 1 \in Int /\ p - 1 \in Int
    BY <1>1
  <2>2. CASE i < p
    <3>1. At(r, i) = At(s, i) /\ At(r, i - 1) = At(s, i - 1)
      BY <1>1, <1>2, <2>1, <2>2
    <3>2. At(s, i) \in D \ {k}
      BY <1>1, <1>7, <2>1, <2>2
    <3>3. At(s, i) # At(s, p + 1)
      BY <1>1, <1>7a, <1>7b, <2>1, <2>2
    <3>4. At(s, i) = At(s, p - 1) <=> i = p - 1
      BY <1>7a, <1>7b, <2>1
    <3>5. At(r, i + 1) = IF i = p - 1 THEN At(s, p + 1) ELSE At(s, i + 1)
      <4>1. i + 1 < p <=> i # p - 1
        BY <1>1, <2>1, <2>2
      <4>2. i = p - 1 => i + 1 + 1 = p + 1
        BY <1>1, <2>1
      <4> QED
        BY <1>2, <2>1, <4>1, <4>2
    <3> QED
      BY <1>6, <1>7, <2>1, <3>1, <3>2, <3>3, <3>4, <3>5
  <2>3. CASE ~(i < p)
    <3>1. At(r, i) = At(s, i + 1) /\ At(r, i + 1) = At(s, i + 2) /\ i + 1 + 1 = i + 2
      BY <1>1, <1>2, <2>1, <2>3
    <3>2. At(s, i + 1) \in D \ {k}
      BY <1>1, <1>7, <2>1, <2>3
    <3>3. At(s, i + 1) # At(s, p - 1)
      BY <1>1, <1>7a, <1>7b, <2>1, <2>3
    <3>4. At(s, i + 1) = At(s, p + 1) <=> i = p
      <4>1. i + 1 = p + 1 <=> i = p
        BY <1>1, <2>1
      <4> QED
        BY <1>7a, <1>7b, <2>1, <4>1
    <3>5. At(r, i - 1) = IF i = p THEN At(s, p - 1) ELSE At(s, i)
      <4>1. i - 1 \in Int /\ i - 1 + 1 = i /\ (i - 1 < p <=> i = p) /\ (i = p => i - 1 = p - 1)
        BY <1>1, <2>1, <2>3
      <4> QED
        BY <1>2, <4>1
    <3>6. link[At(s, i + 1)].listprev = At(s, i) /\ link[At(s, i + 1)].listnext = At(s, i + 2)
      <4>1. i + 1 - 1 = i /\ i + 1 + 1 = i + 2
        BY <2>1
      <4> QED
        BY <1>7, <2>1, <4>1
    <3> QED
      BY <1>6, <3>1, <3>2, <3>3, <3>4, <3>5, <3>6
  <2> QED
    BY <2>2, <2>3
<1>9. \A j \in Int : At(r, j) # Null <=> j \in 1 .. n - 1
  <2> SUFFICES ASSUME NEW j \in Int PROVE At(r, j) # Null <=> j \in 1 .. n - 1
    OBVIOUS
  <2>1. CASE j < p
    <3>1. j \in 1 .. n <=> j \in 1 .. n - 1
      BY <1>1, <2>1
    <3> QED
      BY <1>2, <1>7, <2>1, <3>1
  <2>2. CASE ~(j < p)
    <3>1. j + 1 \in Int /\ (j + 1 \in 1 .. n <=> j \in 1 .. n - 1)
      BY <1>1, <2>2
    <3> QED
      BY <1>2, <1>7, <2>2, <3>1
  <2> QED
    BY <2>1, <2>2
<1>10. \A i, j \in 1 .. n - 1 : At(r, i) = At(r, j) => i = j
  <2> SUFFICES ASSUME NEW i \in 1 .. n - 1, NEW j \in 1 .. n - 1, At(r, i) = At(r, j)
               PROVE  i = j
    OBVIOUS
  <2> DEFINE a == IF i < p THEN i ELSE i + 1
             b == IF j < p THEN j ELSE j + 1
  <2>1. /\ a \in 1 .. n /\ b \in 1 .. n /\ i \in Int /\ j \in Int
        /\ At(r, i) = At(s, a) /\ At(r, j) = At(s, b)
    <3>1. a \in 1 .. n /\ b \in 1 .. n /\ i \in Int /\ j \in Int
      BY <1>1
    <3> QED
      BY <1>2, <3>1
  <2>2. a = b
    <3> HIDE DEF a, b
    <3> QED
      BY <1>7, <2>1
  <2> QED
    BY <1>1, <2>2
<1>11. ASSUME NEW e \in D \ {k} PROVE \E i \in 1 .. n - 1 : At(r, i) = e
  <2>1. PICK i \in 1 .. n : At(s, i) = e
    BY <1>7
  <2>2. i # p
    BY <1>1, <2>1
  <2>3. CASE i < p
    <3>1. i \in 1 .. n - 1 /\ At(r, i) = e
      BY <1>1, <1>2, <2>1, <2>3
    <3> QED
      BY <3>1
  <2>4. CASE ~(i < p)
    <3>1. i - 1 \in 1 .. n - 1 /\ ~(i - 1 < p) /\ i - 1 + 1 = i
      BY <1>1, <2>2, <2>4
    <3>2. At(r, i - 1) = e
      BY <1>2, <2>1, <3>1
    <3> QED
      BY <3>1, <3>2
  <2> QED
    BY <2>3, <2>4
<1>12. first' = At(r, 1)
  <2>1. At(s, p - 1) = Null <=> p = 1
    BY <1>7, <1>7b
  <2>2. At(r, 1) = IF p = 1 THEN At(s, p + 1) ELSE At(s, 1)
    <3>1. 1 \in Int /\ (1 < p <=> p # 1)
      BY <1>1
    <3> QED
      BY <1>2, <3>1
  <2> QED
    BY <1>5, <1>7, <2>1, <2>2
<1>13. last' = At(r, n - 1)
  <2>1. At(s, p + 1) = Null <=> p = n
    BY <1>7, <1>7b
  <2>2. At(r, n - 1) = IF p = n THEN At(s, p - 1) ELSE At(s, n)
    <3>1. /\ n - 1 \in Int /\ n - 1 + 1 = n /\ (n - 1 < p <=> p = n) /\ (p = n => n - 1 = p - 1)
      BY <1>1
    <3> QED
      BY <1>2, <3>1
  <2> QED
    BY <1>5, <1>7, <2>1, <2>2
<1>14. r \in Seq(D \ {k})
  <2>1. Len(r) \in Nat /\ DOMAIN r = 1 .. n - 1 /\ r = [i \in 1 .. n - 1 |-> r[i]]
    BY <1>1, <1>2
  <2>2. \A i \in 1 .. n - 1 : r[i] \in D \ {k}
    BY <1>8, <2>1 DEF At
  <2> QED
    BY <1>1, <1>2, <2>1, <2>2
<1>15. Reads(r)'
  BY <1>2, <1>3, <1>8, <1>9, <1>10, <1>11, <1>12, <1>13, <1>14 DEF Reads
<1>16. (\A q : Null \notin DOMAIN link => (InList(q) <=> Reads(q)))'
  BY ReadsIs, PTL
<1> QED
  BY <1>3, <1>5, <1>15, <1>16 DEF r


LEMMA ListWith ==
    ASSUME HashTypeOK, NEW s, InList(s), NEW k \in Keys, k \notin DOMAIN link,
           link' = Linked(k), first' = (IF first = Null THEN k ELSE first), last' = k
    PROVE  /\ Null \notin DOMAIN link'
           /\ InList(Append(s, k))'
<1> DEFINE r == Append(s, k)
           n == Len(s)
           D == DOMAIN link
<1>0. Null \notin D /\ Reads(s) /\ k # Null
  BY Elements, ReadsIs
<1>1. n \in Nat /\ s \in Seq(D) /\ s \in Seq(D \cup {k})
  <2>1. s \in Seq(D)
    BY <1>0 DEF Reads
  <2> QED
    BY <2>1
<1>2. /\ r \in Seq(D \cup {k}) /\ Len(r) = n + 1
      /\ \A j \in Int : At(r, j) = IF j = n + 1 THEN k ELSE At(s, j)
  BY <1>1, AtAppended
<1>3. DOMAIN link' = D \cup {k} /\ Null \notin DOMAIN link'
  BY <1>0 DEF Linked
<1>4. \A e \in D : e # k /\ link[e] \in HashElement
  BY Elements
<1>5. /\ \A j \in Int : At(s, j) # Null <=> j \in 1 .. n
      /\ \A i, j \in 1 .. n : At(s, i) = At(s, j) => i = j
      /\ \A e \in D : \E i \in 1 .. n : At(s, i) = e
      /\ first = At(s, 1) /\ last = At(s, n)
      /\ \A i \in 1 .. n : /\ At(s, i) \in D
                           /\ link[At(s, i)].listprev = At(s, i - 1)
                           /\ link[At(s, i)].listnext = At(s, i + 1)
  BY <1>0 DEF Reads
<1>6. /\ link'[k].listprev = last /\ link'[k].listnext = Null
      /\ \A e \in D : /\ link'[e].listprev = link[e].listprev
                      /\ link'[e].listnext = IF e = last THEN k ELSE link[e].listnext
  BY <1>4 DEF Linked, HashElement
<1> HIDE DEF r, n, D
<1>7. ASSUME NEW i \in 1 .. n + 1
      PROVE  /\ At(r, i) \in D \cup {k}
             /\ link'[At(r, i)].listprev = At(r, i - 1)
             /\ link'[At(r, i)].listnext = At(r, i + 1)
  <2>0. i \in Int /\ i - 1 \in Int /\ i + 1 \in Int /\ i - 1 # n + 1
    BY <1>1
  <2>1. CASE i = n + 1
    <3>1. At(r, i) = k /\ At(r, i - 1) = last
      <4>1. i - 1 = n
        BY <1>1, <2>1
      <4> QED
        BY <1>2, <1>5, <2>0, <2>1, <4>1
    <3>2. At(r, i + 1) = Null
      <4>1. i + 1 # n + 1 /\ i + 1 \notin 1 .. n
        BY <1>1, <2>1
      <4> QED
        BY <1>2, <1>5, <2>0, <4>1
    <3> QED
      BY <1>6, <3>1, <3>2
  <2>2. CASE i # n + 1
    <3>1. i \in 1 .. n
      BY <1>1, <2>2
    <3>2. At(r, i) = At(s, i) /\ At(r, i - 1) = At(s, i - 1) /\ At(s, i) \in D
      BY <1>2, <1>5, <2>0, <2>2, <3>1
    <3>3. At(s, i) = last <=> i = n
      <4>1. n \in 1 .. n
        BY <1>1, <3>1
      <4> QED
        BY <1>5, <3>1, <4>1
    <3>4. At(r, i + 1) = IF i = n THEN k ELSE At(s, i + 1)
      <4>1. i + 1 = n + 1 <=> i = n
        BY <1>1, <2>0
      <4> QED
        BY <1>2, <2>0, <4>1
    <3> QED
      BY <1>5, <1>6, <3>1, <3>2, <3>3, <3>4
  <2> QED
    BY <2>1, <2>2
<1>8. \A j \in Int : At(r, j) # Null <=> j \in 1 .. n + 1
  <2> SUFFICES ASSUME NEW j \in Int PROVE At(r, j) # Null <=> j \in 1 .. n + 1
    OBVIOUS
  <2>1. j \in 1 .. n + 1 <=> j = n + 1 \/ j \in 1 .. n
    BY <1>1
  <2> QED
    BY <1>0, <1>2, <1>5, <2>1
<1>9. \A i, j \in 1 .. n + 1 : At(r, i) = At(r, j) => i = j
  <2> SUFFICES ASSUME NEW i \in 1 .. n + 1, NEW j \in 1 .. n + 1, At(r, i) = At(r, j)
               PROVE  i = j
    OBVIOUS
  <2>1. /\ i \in Int /\ j \in Int
        /\ i # n + 1 => i \in 1 .. n
        /\ j # n + 1 => j \in 1 .. n
    BY <1>1
  <2>2. \A m \in 1 .. n : At(s, m) # k
    BY <1>4, <1>5
  <2> QED
    BY <1>2, <1>5, <2>1, <2>2
<1>10. ASSUME NEW e \in D \cup {k} PROVE \E i \in 1 .. n + 1 : At(r, i) = e
  <2>1. n + 1 \in 1 .. n + 1 /\ At(r, n + 1) = k
    BY <1>1, <1>2
  <2>2. CASE e \in D
    <3>1. PICK i \in 1 .. n : At(s, i) = e
      BY <1>5, <2>2
    <3>2. i \in 1 .. n + 1 /\ i # n + 1 /\ i \in Int
      BY <1>1
    <3> QED
      BY <1>2, <3>1, <3>2
  <2> QED
    BY <2>1, <2>2
<1>11. first' = At(r, 1)
  <2>1. 1 \in Int /\ (1 = n + 1 <=> 1 \notin 1 .. n)
    BY <1>1
  <2> QED
    BY <1>2, <1>5, <2>1
<1>12. last' = At(r, n + 1)
  <2>1. n + 1 \in Int
    BY <1>1
  <2> QED
    BY <1>2, <2>1
<1>13. Reads(r)'
  BY <1>2, <1>3, <1>7, <1>8, <1>9, <1>10, <1>11, <1>12 DEF Reads
<1>14. (\A q : Null \notin DOMAIN link => (InList(q) <=> Reads(q)))'
  BY ReadsIs, PTL
<1> QED
  BY <1>3, <1>13, <1>14 DEF r


-----------------------------------------------------------------------------
(* The buckets without one element, and with one more *)

LEMMA BucketsWithout ==
    ASSUME HashTypeOK, NEW r, NEW n, InBuckets(r, n), NEW k \in DOMAIN link, Relink(k)
    PROVE  InBuckets(r, n)'
<1> DEFINE D == DOMAIN link
           M(b) == InBucket(b)
<1>0. /\ Null \notin D /\ k \in Keys /\ k \in D /\ k # Null
      /\ \A e \in D : e \in Keys /\ Bucket[e] \in Buckets /\ e \in M(Bucket[e])
      /\ \A b : M(b) \subseteq D /\ \A e \in M(b) : Bucket[e] = b
  BY Elements, HashAssumption DEF InBucket
<1>1. DOMAIN link' = D \ {k}
  BY DEF Relink, Unlinked
<1>2. \A b : InBucket(b)' = M(b) \ {k}
  BY <1>1 DEF InBucket
<1>3. /\ r \in [Keys -> Nat] /\ n \in Nat
      /\ \A e \in D : r[e] < n
      /\ Numbers(r, D)
      /\ \A b \in Buckets : \/ head[b] = Null /\ M(b) = {}
                            \/ head[b] \in M(b) /\ Up(r, M(b), head[b], Null)
      /\ \A e \in D : /\ Down(r, M(Bucket[e]), e, link[e].hashnext)
                      /\ Up(r, M(Bucket[e]), e, link[e].hashprev)
  BY DEF InBuckets
<1>4. \A b : Numbers(r, M(b))
  BY <1>0, <1>3 DEF Numbers
<1> DEFINE old == link[k]
           c == Bucket[k]
<1>5. /\ head' = IF old.hashprev = Null THEN [head EXCEPT ![c] = old.hashnext] ELSE head
      /\ \A e \in D \ {k} :
           /\ link'[e].hashprev = IF e = old.hashnext THEN old.hashprev ELSE link[e].hashprev
           /\ link'[e].hashnext = IF e = old.hashprev THEN old.hashnext ELSE link[e].hashnext
  BY DEF Relink, Unlinked
<1>6. head \in [Buckets -> Keys \cup {Null}] /\ c \in Buckets /\ k \in M(c)
      /\ Down(r, M(c), k, old.hashnext) /\ Up(r, M(c), k, old.hashprev)
  BY <1>0, <1>3 DEF HashTypeOK
<1>7. \A g : \A e \in M(c) :
        /\ Down(r, M(c), e, g) => g \in M(c) \/ g = Null
        /\ Up(r, M(c), e, g) => g \in M(c) \/ g = Null
  BY DEF Down, Up
<1> HIDE DEF M, D, old, c
<1>8. ASSUME NEW e \in D \ {k}
      PROVE  /\ Down(r, M(Bucket[e]) \ {k}, e, link'[e].hashnext)
             /\ Up(r, M(Bucket[e]) \ {k}, e, link'[e].hashprev)
  <2>1. /\ Down(r, M(Bucket[e]), e, link[e].hashnext)
        /\ Up(r, M(Bucket[e]), e, link[e].hashprev)
    BY <1>3
  <2>2. CASE Bucket[e] # c
    <3>1. M(Bucket[e]) \ {k} = M(Bucket[e])
      BY <1>0, <2>2 DEF c
    <3>2. old.hashprev # e /\ old.hashnext # e
      BY <1>0, <1>6, <1>7, <2>2
    <3> QED
      BY <1>5, <2>1, <3>1, <3>2
  <2>3. CASE Bucket[e] = c
    <3>0. e \in M(c) \ {k} /\ Numbers(r, M(c)) /\ e # Null
      BY <1>0, <1>4, <2>3
    <3>1. Down(r, M(c), e, link[e].hashnext) /\ Up(r, M(c), e, link[e].hashprev)
      BY <2>1, <2>3
    <3>2. link[e].hashnext = k <=> e = old.hashprev
      <4>1. link[e].hashnext = k => old.hashprev = e
        BY <1>6, <3>0, <3>1, UpOfDown
      <4>2. old.hashprev = e => link[e].hashnext = k
        BY <1>6, <3>0, <3>1, DownOfUp
      <4> QED
        BY <4>1, <4>2
    <3>3. link[e].hashprev = k <=> e = old.hashnext
      <4>1. link[e].hashprev = k => old.hashnext = e
        BY <1>6, <3>0, <3>1, DownOfUp
      <4>2. old.hashnext = e => link[e].hashprev = k
        BY <1>6, <3>0, <3>1, UpOfDown
      <4> QED
        BY <4>1, <4>2
    <3>4. Down(r, M(c) \ {k}, e, IF link[e].hashnext = k THEN old.hashnext ELSE link[e].hashnext)
      BY <1>6, <3>0, <3>1, DownWithout
    <3>5. Up(r, M(c) \ {k}, e, IF link[e].hashprev = k THEN old.hashprev ELSE link[e].hashprev)
      BY <1>6, <3>0, <3>1, UpWithout
    <3>6. link'[e].hashnext = IF link[e].hashnext = k THEN old.hashnext ELSE link[e].hashnext
      BY <1>5, <3>2
    <3>7. link'[e].hashprev = IF link[e].hashprev = k THEN old.hashprev ELSE link[e].hashprev
      BY <1>5, <3>3
    <3> QED
      BY <2>3, <3>4, <3>5, <3>6, <3>7
  <2> QED
    BY <2>2, <2>3
<1>9. ASSUME NEW b \in Buckets
      PROVE  \/ head'[b] = Null /\ M(b) \ {k} = {}
             \/ head'[b] \in M(b) \ {k} /\ Up(r, M(b) \ {k}, head'[b], Null)
  <2>0. \/ head[b] = Null /\ M(b) = {}
        \/ head[b] \in M(b) /\ Up(r, M(b), head[b], Null)
    BY <1>3
  <2>1. CASE b # c
    <3>1. M(b) \ {k} = M(b)
      BY <1>0, <2>1 DEF c
    <3>2. head'[b] = head[b]
      BY <1>5, <1>6, <2>1
    <3> QED
      BY <2>0, <3>1, <3>2
  <2>2. CASE b = c /\ old.hashprev # Null
    <3>1. head'[b] = head[b]
      BY <1>5, <2>2
    <3>2. head[b] \in M(c) /\ Up(r, M(c), head[b], Null)
      BY <1>6, <2>0, <2>2
    <3>3. head[b] # k
      <4> SUFFICES ASSUME head[b] = k PROVE FALSE
        OBVIOUS
      <4>1. \A f \in M(c) : r[f] <= r[k]
        BY <1>0, <3>2 DEF Up
      <4>2. old.hashprev \in M(c) /\ r[k] < r[old.hashprev]
        BY <1>6, <2>2 DEF Up
      <4>3. r[k] \in Nat /\ r[old.hashprev] \in Nat /\ r[old.hashprev] <= r[k]
        BY <1>4, <1>6, <4>1, <4>2 DEF Numbers
      <4> QED
        BY <4>2, <4>3
    <3>4. Up(r, M(c) \ {k}, head[b], Null)
      BY <1>0, <3>2 DEF Up
    <3> QED
      BY <2>2, <3>1, <3>2, <3>3, <3>4
  <2>3. CASE b = c /\ old.hashprev = Null
    <3>1. head'[b] = old.hashnext
      BY <1>5, <1>6, <2>3
    <3>2. \A f \in M(c) : r[f] <= r[k]
      BY <1>0, <1>6, <2>3 DEF Up
    <3>3. \A f \in M(c) \ {k} : r[f] < r[k]
      <4>1. \A f \in M(c) \ {k} : r[f] # r[k] /\ r[f] \in Nat /\ r[k] \in Nat
        BY <1>4, <1>6 DEF Numbers
      <4> QED
        BY <3>2, <4>1
    <3>4. CASE old.hashnext = Null
      <4>1. \A f \in M(c) : r[k] <= r[f]
        BY <1>0, <1>6, <3>4 DEF Down
      <4>2. ASSUME NEW f \in M(c) \ {k} PROVE FALSE
        <5>1. r[f] \in Nat /\ r[k] \in Nat
          BY <1>4, <1>6 DEF Numbers
        <5> QED
          BY <3>3, <4>1, <5>1
      <4> QED
        BY <2>3, <3>1, <3>4, <4>2
    <3>5. CASE old.hashnext # Null
      <4>1. /\ old.hashnext \in M(c) /\ r[old.hashnext] < r[k]
            /\ \A f \in M(c) : r[f] < r[k] => r[f] <= r[old.hashnext]
        BY <1>6, <3>5 DEF Down
      <4>2. old.hashnext # k
        <5>1. r[k] \in Nat
          BY <1>4, <1>6 DEF Numbers
        <5> QED
          BY <4>1, <5>1
      <4>3. \A f \in M(c) \ {k} : r[f] <= r[old.hashnext]
        BY <3>3, <4>1
      <4> QED
        BY <2>3, <3>1, <4>1, <4>2, <4>3 DEF Up
    <3> QED
      BY <3>4, <3>5
  <2> QED
    BY <2>1, <2>2, <2>3
<1>10. Numbers(r, D \ {k})
  BY <1>3 DEF Numbers
<1>11. \A e \in D \ {k} : r[e] < n
  BY <1>3
<1> QED
  BY <1>1, <1>2, <1>3, <1>8, <1>9, <1>10, <1>11 DEF InBuckets

LEMMA BucketsWith ==
    ASSUME HashTypeOK, NEW r, NEW n, InBuckets(r, n), NEW k \in Keys, k \notin DOMAIN link,
           link' = Linked(k), head' = [head EXCEPT ![Bucket[k]] = k]
    PROVE  InBuckets([r EXCEPT ![k] = n], n + 1)'
<1> DEFINE D == DOMAIN link
           M(b) == InBucket(b)
           q == [r EXCEPT ![k] = n]
           c == Bucket[k]
           t == head[c]
<1>0. /\ Null \notin D /\ k \notin D /\ k # Null /\ c \in Buckets
      /\ \A e \in D : e \in Keys /\ Bucket[e] \in Buckets /\ e \in M(Bucket[e]) /\ e # k
      /\ \A b : M(b) \subseteq D /\ \A e \in M(b) : Bucket[e] = b
      /\ \A e \in D : link[e] \in HashElement
      /\ head \in [Buckets -> Keys \cup {Null}]
  BY Elements, HashAssumption DEF InBucket, HashTypeOK
<1>1. DOMAIN link' = D \cup {k}
  BY DEF Linked
<1>2. \A b : InBucket(b)' = IF b = c THEN M(b) \cup {k} ELSE M(b)
  BY <1>1 DEF InBucket
<1>3. /\ r \in [Keys -> Nat] /\ n \in Nat
      /\ \A e \in D : r[e] < n
      /\ Numbers(r, D)
      /\ \A b \in Buckets : \/ head[b] = Null /\ M(b) = {}
                            \/ head[b] \in M(b) /\ Up(r, M(b), head[b], Null)
      /\ \A e \in D : /\ Down(r, M(Bucket[e]), e, link[e].hashnext)
                      /\ Up(r, M(Bucket[e]), e, link[e].hashprev)
  BY DEF InBuckets
<1>4. /\ q \in [Keys -> Nat] /\ n + 1 \in Nat /\ q[k] = n
      /\ \A e \in D : q[e] = r[e] /\ r[e] \in Nat
  BY <1>0, <1>3
<1>5. /\ link'[k].hashprev = Null /\ link'[k].hashnext = t
      /\ \A e \in D : /\ link'[e].hashprev = IF e = t THEN k ELSE link[e].hashprev
                      /\ link'[e].hashnext = link[e].hashnext
  <2>1. link'[k] = [hashprev |-> Null, hashnext |-> t, listprev |-> last, listnext |-> Null]
    BY DEF Linked
  <2>2. ASSUME NEW e \in D
        PROVE  link'[e] = [link[e] EXCEPT !.hashprev = IF e = t THEN k ELSE @,
                                          !.listnext = IF e = last THEN k ELSE @]
    BY <1>0 DEF Linked
  <2>3. ASSUME NEW e \in D
        PROVE  /\ link'[e].hashprev = IF e = t THEN k ELSE link[e].hashprev
               /\ link'[e].hashnext = link[e].hashnext
    <3>1. \A a, b : \A x \in HashElement :
            LET y == [x EXCEPT !.hashprev = a, !.listnext = b]
            IN  y.hashprev = a /\ y.hashnext = x.hashnext
      BY DEF HashElement
    <3>2. link'[e] = [link[e] EXCEPT !.hashprev = IF e = t THEN k ELSE link[e].hashprev,
                                     !.listnext = IF e = last THEN k ELSE link[e].listnext]
      BY <2>2
    <3> QED
      BY <1>0, <3>1, <3>2
  <2> QED
    BY <2>1, <2>3
<1>6. \A b \in Buckets : head'[b] = IF b = c THEN k ELSE head[b]
  BY <1>0
<1>7. \/ t = Null /\ M(c) = {}
      \/ t \in M(c) /\ Up(r, M(c), t, Null)
  BY <1>0, <1>3
<1>8. Numbers(r, M(c)) /\ k \notin M(c) /\ \A f \in M(c) : r[f] < n /\ q[f] = r[f]
  BY <1>0, <1>3, <1>4 DEF Numbers
<1> HIDE DEF M, D, q, c, t
<1>9. /\ Down(q, M(c) \cup {k}, k, t) /\ Up(q, M(c) \cup {k}, k, Null)
      /\ \A g : \A e \in M(c) : Down(r, M(c), e, g) => Down(q, M(c) \cup {k}, e, g)
      /\ \A g : \A e \in M(c) : Up(r, M(c), e, g) => Up(q, M(c) \cup {k}, e, IF e = t THEN k ELSE g)
  <2>1. n \in Nat /\ q[k] = n /\ k # Null
    BY <1>0, <1>3, <1>4
  <2> QED
    BY <1>7, <1>8, <2>1, WithOneMore, ZenonT(60)
<1>10. ASSUME NEW b, NEW e \in M(b), NEW g
       PROVE  /\ Down(r, M(b), e, g) => Down(q, M(b), e, g)
              /\ Up(r, M(b), e, g) => Up(q, M(b), e, g)
  <2>1. \A f \in M(b) : q[f] = r[f]
    BY <1>0, <1>4
  <2> QED
    BY <2>1 DEF Down, Up
<1>11. ASSUME NEW e \in D \cup {k}
       PROVE  /\ Down(q, InBucket(Bucket[e])', e, link'[e].hashnext)
              /\ Up(q, InBucket(Bucket[e])', e, link'[e].hashprev)
  <2>1. CASE e = k
    BY <1>2, <1>5, <1>9, <2>1 DEF c
  <2>2. CASE e \in D /\ Bucket[e] = c
    <3>1. e \in M(c) /\ Down(r, M(c), e, link[e].hashnext) /\ Up(r, M(c), e, link[e].hashprev)
      BY <1>0, <1>3, <2>2
    <3>2. InBucket(Bucket[e])' = M(c) \cup {k}
      BY <1>2, <2>2
    <3>3. /\ Down(q, M(c) \cup {k}, e, link[e].hashnext)
          /\ Up(q, M(c) \cup {k}, e, IF e = t THEN k ELSE link[e].hashprev)
      BY <1>9, <3>1
    <3> QED
      BY <1>5, <2>2, <3>2, <3>3
  <2>3. CASE e \in D /\ Bucket[e] # c
    <3>1. /\ e \in M(Bucket[e]) /\ Down(r, M(Bucket[e]), e, link[e].hashnext)
          /\ Up(r, M(Bucket[e]), e, link[e].hashprev)
      BY <1>0, <1>3, <2>3
    <3>2. InBucket(Bucket[e])' = M(Bucket[e])
      BY <1>2, <2>3
    <3>3. e # t
      BY <1>0, <1>7, <2>3
    <3> QED
      BY <1>5, <1>10, <2>3, <3>1, <3>2, <3>3
  <2> QED
    BY <2>1, <2>2, <2>3
<1>12. ASSUME NEW b \in Buckets
       PROVE  \/ head'[b] = Null /\ InBucket(b)' = {}
              \/ head'[b] \in InBucket(b)' /\ Up(q, InBucket(b)', head'[b], Null)
  <2>1. CASE b = c
    BY <1>2, <1>6, <1>9, <2>1
  <2>2. CASE b # c
    <3>1. head'[b] = head[b] /\ InBucket(b)' = M(b)
      BY <1>2, <1>6, <2>2
    <3>2. \/ head[b] = Null /\ M(b) = {}
          \/ head[b] \in M(b) /\ Up(r, M(b), head[b], Null)
      BY <1>3
    <3> QED
      BY <1>10, <3>1, <3>2
  <2> QED
    BY <2>1, <2>2
<1>13. Numbers(q, D \cup {k})
  <2>1. \A e \in D : q[e] # q[k]
    BY <1>3, <1>4
  <2>2. \A e, f \in D : q[e] = q[f] => e = f
    BY <1>3, <1>4 DEF Numbers
  <2> QED
    BY <1>0, <1>3, <1>4, <2>1, <2>2 DEF Numbers
<1>14. \A e \in D \cup {k} : q[e] < n + 1
  BY <1>3, <1>4
<1>15. InBuckets(q, n + 1)'
  BY <1>1, <1>4, <1>11, <1>12, <1>13, <1>14 DEF InBuckets
<1> QED
  BY <1>15 DEF q

-----------------------------------------------------------------------------
(* Every call keeps the invariant *)

\* A call that only moves the cursor, to an element, past the end or not at all,
LEMMA InvMoveTo ==
    ASSUME HashInv, NEW e, e \in Maybe \/ e = cur, NEW status, MoveTo(e, status)
    PROVE  HashInv' /\ \A s : InList(s) => InList(s)'
<1>1. UNCHANGED <<head, link, first, last>> /\ cur' = e
  BY DEF MoveTo
<1>2. HashTypeOK'
  <2>1. cur' \in Keys \cup {Null, Wild}
    BY <1>1 DEF HashInv, HashTypeOK, Maybe
  <2> QED
    BY <1>1, <2>1 DEF HashInv, HashTypeOK
<1>3. Maybe' = Maybe /\ cur' \in Maybe' \cup {Wild}
  BY <1>1 DEF HashInv, Maybe
<1>4. \A s : InList(s) => InList(s)'
  BY <1>1 DEF InList
<1>5. \A n, r : InBuckets(r, n) => InBuckets(r, n)'
  <2>1. \A b : InBucket(b)' = InBucket(b)
    BY <1>1 DEF InBucket
  <2> QED
    BY <1>1, <2>1 DEF InBuckets
<1> QED
  BY <1>2, <1>3, <1>4, <1>5 DEF HashInv

\* the deletion of an element,
LEMMA InvRelink ==
    ASSUME HashInv, NEW s, InList(s), NEW p \in DOMAIN s, Relink(s[p])
    PROVE  HashInv' /\ InList(RemoveAt(s, p))' /\ cur' = At(s, p + 1)
<1> DEFINE k == s[p]
           old == link[k]
<1>0. HashTypeOK /\ k \in DOMAIN link /\ k \in Keys /\ Null \notin DOMAIN link'
  <2>1. HashTypeOK /\ k \in DOMAIN link
    BY DEF HashInv, InList
  <2>2. k \in Keys
    BY <2>1, Elements
  <2>3. Null \notin DOMAIN link'
    BY <2>1, ListWithout
  <2> QED
    BY <2>1, <2>2, <2>3
<1>1. InList(RemoveAt(s, p))' /\ cur' = At(s, p + 1)
  BY <1>0, ListWithout
<1>2. PICK n, r : InBuckets(r, n)
  BY DEF HashInv
<1>3. InBuckets(r, n)'
  BY <1>0, <1>2, BucketsWithout
<1> HIDE DEF k
<1>4. old \in HashElement
  BY <1>0, Elements
<1>5. /\ old.hashprev \in Keys \cup {Null} /\ old.hashnext \in Keys \cup {Null}
      /\ old.listprev \in Keys \cup {Null} /\ old.listnext \in Keys \cup {Null}
  BY <1>4 DEF HashElement
<1>6. HashTypeOK'
  <2>1. head' \in [Buckets -> Keys \cup {Null}]
    BY <1>0, <1>5 DEF Relink, HashTypeOK, k
  <2>2. DOMAIN link' \subseteq Keys
    BY <1>0 DEF Relink, Unlinked, HashTypeOK, k
  <2>3. ASSUME NEW e \in DOMAIN link' PROVE link'[e] \in HashElement
    <3>1. e \in DOMAIN link /\ link[e] \in HashElement
      BY <1>0, Elements DEF Relink, Unlinked, k
    <3>2. /\ link[e].hashprev \in Keys \cup {Null} /\ link[e].hashnext \in Keys \cup {Null}
          /\ link[e].listprev \in Keys \cup {Null} /\ link[e].listnext \in Keys \cup {Null}
      BY <3>1 DEF HashElement
    <3>3. link'[e] =
            [hashprev |-> IF e = old.hashnext THEN old.hashprev ELSE link[e].hashprev,
             hashnext |-> IF e = old.hashprev THEN old.hashnext ELSE link[e].hashnext,
             listprev |-> IF e = old.listnext THEN old.listprev ELSE link[e].listprev,
             listnext |-> IF e = old.listprev THEN old.listnext ELSE link[e].listnext]
      BY DEF Relink, Unlinked, k
    <3> HIDE DEF old
    <3> QED
      BY <1>5, <3>2, <3>3 DEF HashElement
  <2>4. {first', last'} \subseteq Keys \cup {Null} /\ cur' \in Keys \cup {Null, Wild}
    BY <1>0, <1>5 DEF Relink, HashTypeOK, k
  <2> QED
    BY <2>1, <2>2, <2>3, <2>4 DEF HashTypeOK
<1>7. cur' \in Maybe' \cup {Wild}
  <2>1. cur' # k
    <3>1. At(s, p + 1) # s[p]
      <4>1. s \in Seq(DOMAIN link) /\ \A i, j \in DOMAIN s : s[i] = s[j] => i = j
        BY DEF InList
      <4>2. p \in Nat /\ p + 1 # p
        BY <4>1
      <4>3. s[p] # Null
        BY <1>0, Elements DEF k
      <4> QED
        BY <4>1, <4>2, <4>3 DEF At
    <3> QED
      BY <1>1, <3>1 DEF k
  <2>2. cur' \in Maybe
    <3>1. At(s, p + 1) \in Maybe
      BY DEF InList, At, Maybe
    <3> QED
      BY <1>1, <3>1
  <2>3. DOMAIN link' = DOMAIN link \ {k}
    BY DEF Relink, Unlinked, k
  <2> QED
    BY <2>1, <2>2, <2>3 DEF Maybe
<1> QED
  BY <1>1, <1>3, <1>6, <1>7 DEF HashInv

\* the arrival of a new one
LEMMA InvAdd ==
    ASSUME HashInv, NEW s, InList(s), NEW k \in Keys, k \notin DOMAIN link,
           AddElement(k), ~Found(k)
    PROVE  HashInv' /\ InList(Append(s, k))'
<1>1. /\ link' = Linked(k) /\ head' = [head EXCEPT ![Bucket[k]] = k]
      /\ first' = (IF first = Null THEN k ELSE first) /\ last' = k /\ cur' = cur
  BY DEF AddElement
<1>2. HashTypeOK
  BY DEF HashInv
<1>3. InList(Append(s, k))'
  BY <1>1, <1>2, ListWith
<1>4. PICK n, r : InBuckets(r, n)
  BY DEF HashInv
<1>5. InBuckets([r EXCEPT ![k] = n], n + 1)'
  BY <1>1, <1>2, <1>4, BucketsWith
<1>6. HashTypeOK'
  <2> DEFINE next == head[Bucket[k]]
  <2>1. Bucket[k] \in Buckets /\ next \in Keys \cup {Null} /\ last \in Keys \cup {Null}
    BY <1>2, HashAssumption DEF HashTypeOK
  <2>2. head' \in [Buckets -> Keys \cup {Null}] /\ DOMAIN link' \subseteq Keys
    BY <1>1, <1>2, <2>1 DEF HashTypeOK, Linked
  <2>3. ASSUME NEW e \in DOMAIN link' PROVE link'[e] \in HashElement
    <3>1. CASE e = k
      <4>1. link'[e] = [hashprev |-> Null, hashnext |-> next, listprev |-> last, listnext |-> Null]
        BY <1>1, <3>1 DEF Linked
      <4> HIDE DEF next
      <4> QED
        BY <2>1, <4>1 DEF HashElement
    <3>2. CASE e # k
      <4>1. e \in DOMAIN link /\ link[e] \in HashElement
        BY <1>1, <1>2, <3>2, Elements DEF Linked
      <4>2. link[e].hashprev \in Keys \cup {Null} /\ link[e].listnext \in Keys \cup {Null}
        BY <4>1 DEF HashElement
      <4> DEFINE a == IF e = next THEN k ELSE link[e].hashprev
                 b == IF e = last THEN k ELSE link[e].listnext
      <4>3. link'[e] = [link[e] EXCEPT !.hashprev = a, !.listnext = b]
        BY <1>1, <3>2, <4>1 DEF Linked
      <4>4. a \in Keys \cup {Null} /\ b \in Keys \cup {Null}
        BY <4>2
      <4> HIDE DEF a, b
      <4>5. [link[e] EXCEPT !.hashprev = a, !.listnext = b] \in HashElement
        BY <4>1, <4>4 DEF HashElement
      <4> QED
        BY <4>3, <4>5
    <3> QED
      BY <3>1, <3>2
  <2>4. {first', last'} \subseteq Keys \cup {Null} /\ cur' \in Keys \cup {Null, Wild}
    BY <1>1, <1>2 DEF HashTypeOK
  <2> QED
    BY <2>2, <2>3, <2>4 DEF HashTypeOK
<1>7. cur' \in Maybe' \cup {Wild}
  <2>1. DOMAIN link' = DOMAIN link \cup {k}
    BY <1>1 DEF Linked
  <2> QED
    BY <1>1, <2>1 DEF HashInv, Maybe
<1> QED
  BY <1>3, <1>5, <1>6, <1>7 DEF HashInv

\* and the deletion of all.  An empty table has the invariant.
LEMMA EmptyList ==
    link = <<>> /\ first = Null /\ last = Null => InList(<<>>)
BY DEF InList, At

LEMMA EmptyInv ==
    /\ head = [b \in Buckets |-> Null] /\ link = <<>> /\ first = Null /\ last = Null
    /\ cur \in {Null, Wild}
    => HashInv
<1> SUFFICES ASSUME head = [b \in Buckets |-> Null], link = <<>>, first = Null, last = Null,
                    cur \in {Null, Wild}
             PROVE  HashInv
  OBVIOUS
<1>1. DOMAIN link = {}
  OBVIOUS
<1>2. HashTypeOK
  BY <1>1 DEF HashTypeOK
<1>3. InList(<<>>)
  BY EmptyList
<1>4. InBuckets([k \in Keys |-> 0], 0)
  BY <1>1 DEF InBuckets, InBucket, Numbers
<1> QED
  BY <1>1, <1>2, <1>3, <1>4 DEF HashInv, Maybe

-----------------------------------------------------------------------------
(* The table of the abstract specification *)

LEMMA TableOf ==
    ASSUME HashInv, NEW s, InList(s)
    PROVE  /\ ListFrom[first] = s /\ s \in Seq(Keys) /\ Null \notin DOMAIN link
           /\ \A k \in Keys : Found(k) <=> \E p \in DOMAIN s : s[p] = k
           /\ \A k \in DOMAIN link : k \in Keys /\ \E p \in DOMAIN s : s[p] = k
           /\ \A k : Ordered!Listed(k) <=> \E p \in DOMAIN s : s[p] = k
           /\ \A p \in DOMAIN s : Ordered!Place(s[p]) = p
           /\ \A i : Ordered!At(i) = At(s, i)
<1>1. Null \notin DOMAIN link /\ DOMAIN link \subseteq Keys
  BY Elements DEF HashInv
<1>2. ListFrom[first] = s
  BY <1>1, ListIs
<1>3. s \in Seq(Keys)
  BY <1>1 DEF InList
<1>4. \A k \in Keys : Found(k) <=> \E p \in DOMAIN s : s[p] = k
  <2>1. \A k : k \in DOMAIN link <=> \E p \in DOMAIN s : s[p] = k
    BY DEF InList
  <2> QED
    BY <2>1, FoundIs
<1>5. \A p \in DOMAIN s : (CHOOSE i \in DOMAIN s : s[i] = s[p]) = p
  BY DEF InList
<1> QED
  BY <1>1, <1>2, <1>3, <1>4, <1>5 DEF InList, At, Ordered!Listed, Ordered!Place, Ordered!At

\* Every call keeps the invariant and is one of the ordered table.
LEMMA HashStep ==
    ASSUME HashInv, HashNext
    PROVE  HashInv' /\ Ordered!AbstractNext
<1>1. PICK s : InList(s)
  BY DEF HashInv
<1>2. /\ ListFrom[first] = s /\ s \in Seq(Keys) /\ Null \notin DOMAIN link
      /\ \A k \in Keys : Found(k) <=> \E p \in DOMAIN s : s[p] = k
      /\ \A k \in DOMAIN link : k \in Keys /\ \E p \in DOMAIN s : s[p] = k
      /\ \A k : Ordered!Listed(k) <=> \E p \in DOMAIN s : s[p] = k
      /\ \A p \in DOMAIN s : Ordered!Place(s[p]) = p
      /\ \A i : Ordered!At(i) = At(s, i)
  BY <1>1, TableOf
<1>3. /\ first = At(s, 1) /\ last = At(s, Len(s))
      /\ \A p \in DOMAIN s : /\ s[p] \in DOMAIN link
                             /\ link[s[p]].listprev = At(s, p - 1)
                             /\ link[s[p]].listnext = At(s, p + 1)
      /\ \A i : At(s, i) \in Maybe
  <2>1. \A i : At(s, i) \in Maybe
    BY <1>1 DEF InList, At, Maybe
  <2> QED
    BY <1>1, <2>1 DEF InList
<1>4. cur \in Maybe \cup {Wild}
  BY DEF HashInv
<1>5. (\A q : Null \notin DOMAIN link /\ InList(q) => ListFrom[first] = q)'
  BY ListIs, PTL
<1>6. (HashTypeOK => Null \notin DOMAIN link)'
  <2>1. HashTypeOK => Null \notin DOMAIN link
    BY Elements
  <2> QED
    BY <2>1, HashAssumption DEF HashTypeOK
<1>7. \A q : HashInv' /\ InList(q)' => (ListFrom[first])' = q
  BY <1>5, <1>6 DEF HashInv
<1>8. ASSUME NEW e, e \in Maybe \/ e = cur, NEW status, MoveTo(e, status)
      PROVE  HashInv' /\ Ordered!Goto(e, status)
  <2>1. HashInv' /\ InList(s)'
    BY <1>1, <1>8, InvMoveTo
  <2>2. (ListFrom[first])' = s
    BY <1>7, <2>1
  <2> QED
    BY <1>2, <1>8, <2>1, <2>2 DEF MoveTo, Ordered!Goto
<1>9. ASSUME NEW k \in Keys, Relink(k), \E p \in DOMAIN s : s[p] = k
      PROVE  HashInv' /\ Ordered!Take(k)
  <2>1. PICK p \in DOMAIN s : s[p] = k
    BY <1>9
  <2>2. HashInv' /\ InList(RemoveAt(s, p))' /\ cur' = At(s, p + 1)
    BY <1>1, <1>9, <2>1, InvRelink
  <2>3. (ListFrom[first])' = RemoveAt(s, p)
    BY <1>7, <2>2
  <2>4. answer' = "ok"
    BY <1>9 DEF Relink
  <2>5. Ordered!RemoveAt(s, p) = RemoveAt(s, p)
    BY DEF RemoveAt, Ordered!RemoveAt
  <2> QED
    BY <1>2, <2>1, <2>2, <2>3, <2>4, <2>5 DEF Ordered!Take
<1>10. Null \in Maybe /\ \A k \in DOMAIN link : k \in Maybe
  BY DEF Maybe
<1>11. CASE GotoFirstElement
  <2>1. HashInv' /\ Ordered!Goto(At(s, 1), "ok")
    BY <1>3, <1>8, <1>11 DEF GotoFirstElement
  <2> QED
    BY <1>2, <2>1 DEF Ordered!AbstractNext, Ordered!GotoFirst
<1>12. CASE GotoLastElement
  <2>1. HashInv' /\ Ordered!Goto(At(s, Len(s)), "ok")
    BY <1>3, <1>8, <1>12 DEF GotoLastElement
  <2> QED
    BY <1>2, <2>1 DEF Ordered!AbstractNext, Ordered!GotoLast
<1>13. CASE GotoNextElement
  <2>1. CASE cur = Null
    <3>1. HashInv' /\ Ordered!Goto(Null, "ok")
      BY <1>8, <1>10, <1>13, <2>1 DEF GotoNextElement
    <3> QED
      BY <1>13, <2>1, <3>1 DEF GotoNextElement, Ordered!AbstractNext, Ordered!GotoNext
  <2>2. CASE cur \in DOMAIN link
    <3>1. PICK p \in DOMAIN s : s[p] = cur
      BY <1>2, <2>2
    <3>2. HashInv' /\ Ordered!Goto(At(s, p + 1), "ok")
      BY <1>2, <1>3, <1>8, <1>13, <2>2, <3>1 DEF GotoNextElement
    <3>3. At(s, p + 1) = Ordered!At(Ordered!Place(cur) + 1)
      BY <1>2, <3>1
    <3> QED
      BY <1>2, <1>13, <2>2, <3>2, <3>3 DEF GotoNextElement, Ordered!AbstractNext, Ordered!GotoNext
  <2> QED
    BY <1>4, <1>13, <2>1, <2>2 DEF GotoNextElement, Maybe
<1>14. CASE GotoPreviousElement
  <2>1. CASE cur = Null
    <3>1. HashInv' /\ Ordered!Goto(Null, "ok")
      BY <1>8, <1>10, <1>14, <2>1 DEF GotoPreviousElement
    <3> QED
      BY <1>14, <2>1, <3>1 DEF GotoPreviousElement, Ordered!AbstractNext, Ordered!GotoPrevious
  <2>2. CASE cur \in DOMAIN link
    <3>1. PICK p \in DOMAIN s : s[p] = cur
      BY <1>2, <2>2
    <3>2. HashInv' /\ Ordered!Goto(At(s, p - 1), "ok")
      BY <1>2, <1>3, <1>8, <1>14, <2>2, <3>1 DEF GotoPreviousElement
    <3>3. At(s, p - 1) = Ordered!At(Ordered!Place(cur) - 1)
      BY <1>2, <3>1
    <3> QED
      BY <1>2, <1>14, <2>2, <3>2, <3>3 DEF GotoPreviousElement, Ordered!AbstractNext, Ordered!GotoPrevious
  <2> QED
    BY <1>4, <1>14, <2>1, <2>2 DEF GotoPreviousElement, Maybe
<1>15. CASE DeleteCurrentElement
  <2>1. CASE cur = Null
    <3>1. HashInv' /\ Ordered!Goto(Null, "no current")
      BY <1>8, <1>10, <1>15, <2>1 DEF DeleteCurrentElement
    <3> QED
      BY <1>15, <2>1, <3>1 DEF DeleteCurrentElement, Ordered!AbstractNext, Ordered!TakeCurrent
  <2>2. CASE cur \in DOMAIN link
    <3>1. HashInv' /\ Ordered!Take(cur)
      BY <1>2, <1>9, <1>15, <2>2 DEF DeleteCurrentElement
    <3> QED
      BY <1>2, <1>15, <2>2, <3>1 DEF DeleteCurrentElement, Ordered!AbstractNext, Ordered!TakeCurrent
  <2> QED
    BY <1>4, <1>15, <2>1, <2>2 DEF DeleteCurrentElement, Maybe
<1>16. CASE ClearElements
  <2>1. /\ head' = [b \in Buckets |-> Null] /\ link' = <<>> /\ first' = Null /\ last' = Null
        /\ cur' = (IF cur = Null THEN Null ELSE Wild) /\ answer' = "ok"
    BY <1>16 DEF ClearElements
  <2>2. (/\ head = [b \in Buckets |-> Null] /\ link = <<>> /\ first = Null /\ last = Null
         /\ cur \in {Null, Wild}
         => HashInv)'
    BY EmptyInv, PTL
  <2>3. (link = <<>> /\ first = Null /\ last = Null => InList(<<>>))'
    BY EmptyList, PTL
  <2>4. HashInv' /\ InList(<<>>)'
    BY <2>1, <2>2, <2>3
  <2>5. (ListFrom[first])' = <<>>
    BY <1>7, <2>4
  <2> QED
    BY <2>1, <2>4, <2>5 DEF Ordered!AbstractNext, Ordered!Clear
<1>17. ASSUME NEW k \in Keys, GotoElement(k) PROVE HashInv' /\ Ordered!AbstractNext
  <2>1. CASE Found(k)
    <3>1. HashInv' /\ Ordered!Goto(k, "ok") /\ Ordered!Listed(k)
      BY <1>2, <1>3, <1>8, <1>10, <1>17, <2>1 DEF GotoElement
    <3> QED
      BY <3>1 DEF Ordered!AbstractNext, Ordered!Seek
  <2>2. CASE ~Found(k)
    <3>1. HashInv' /\ Ordered!Goto(Null, "not found") /\ ~Ordered!Listed(k)
      BY <1>2, <1>8, <1>10, <1>17, <2>2 DEF GotoElement
    <3> QED
      BY <3>1 DEF Ordered!AbstractNext, Ordered!Seek
  <2> QED
    BY <2>1, <2>2
<1>18. ASSUME NEW k \in Keys, HasElement(k) PROVE HashInv' /\ Ordered!AbstractNext
  <2>1. CASE Found(k)
    <3>1. HashInv' /\ Ordered!Goto(cur, "ok") /\ Ordered!Listed(k)
      BY <1>2, <1>8, <1>18, <2>1 DEF HasElement
    <3> QED
      BY <3>1 DEF Ordered!AbstractNext, Ordered!Has
  <2>2. CASE ~Found(k)
    <3>1. HashInv' /\ Ordered!Goto(cur, "not found") /\ ~Ordered!Listed(k)
      BY <1>2, <1>8, <1>18, <2>2 DEF HasElement
    <3> QED
      BY <3>1 DEF Ordered!AbstractNext, Ordered!Has
  <2> QED
    BY <2>1, <2>2
<1>19. ASSUME NEW k \in Keys, AddElement(k) PROVE HashInv' /\ Ordered!AbstractNext
  <2>1. CASE Found(k)
    <3>1. HashInv' /\ Ordered!Goto(cur, "exists") /\ Ordered!Listed(k)
      BY <1>2, <1>8, <1>19, <2>1 DEF AddElement
    <3> QED
      BY <3>1 DEF Ordered!AbstractNext, Ordered!Put
  <2>2. CASE ~Found(k)
    <3>1. k \notin DOMAIN link /\ ~Ordered!Listed(k)
      BY <1>2, <2>2
    <3>2. HashInv' /\ InList(Append(s, k))'
      BY <1>1, <1>19, <2>2, <3>1, InvAdd
    <3>3. (ListFrom[first])' = Append(s, k)
      BY <1>7, <3>2
    <3>4. answer' = "ok" /\ cur' = cur
      BY <1>19, <2>2 DEF AddElement
    <3> QED
      BY <1>2, <3>1, <3>2, <3>3, <3>4 DEF Ordered!AbstractNext, Ordered!Put
  <2> QED
    BY <2>1, <2>2
<1>20. ASSUME NEW k \in Keys, DeleteElement(k) PROVE HashInv' /\ Ordered!AbstractNext
  <2>1. CASE Found(k)
    <3>1. HashInv' /\ Ordered!Take(k) /\ Ordered!Listed(k)
      BY <1>2, <1>9, <1>20, <2>1 DEF DeleteElement
    <3> QED
      BY <3>1 DEF Ordered!AbstractNext, Ordered!Delete
  <2>2. CASE ~Found(k)
    <3>1. HashInv' /\ Ordered!Goto(Null, "not found") /\ ~Ordered!Listed(k)
      BY <1>2, <1>8, <1>10, <1>20, <2>2 DEF DeleteElement
    <3> QED
      BY <3>1 DEF Ordered!AbstractNext, Ordered!Delete
  <2> QED
    BY <2>1, <2>2
<1> QED
  BY <1>11, <1>12, <1>13, <1>14, <1>15, <1>16, <1>17, <1>18, <1>19, <1>20 DEF HashNext

\* The empty table, with no cursor yet, is the empty ordered one.
LEMMA HashStart ==
    ASSUME HashInit
    PROVE  HashInv /\ Ordered!AbstractInit
<1>1. /\ head = [b \in Buckets |-> Null] /\ link = <<>> /\ first = Null /\ last = Null
      /\ cur = Wild /\ answer = "none"
  BY DEF HashInit
<1>2. HashInv /\ InList(<<>>)
  BY <1>1, EmptyInv, EmptyList
<1>3. ListFrom[first] = <<>>
  BY <1>2, TableOf
<1> QED
  BY <1>1, <1>2, <1>3 DEF Ordered!AbstractInit

\* A step that is none of the hash table leaves the ordered one alone.
LEMMA HashStands ==
    ASSUME HashInv, UNCHANGED hashVars
    PROVE  HashInv' /\ UNCHANGED Ordered!tableVars
<1>1. PICK s : InList(s)
  BY DEF HashInv
<1>2. UNCHANGED <<head, link, first, last, cur, answer>>
  BY DEF hashVars
<1>3. MoveTo(cur, answer)
  BY <1>2 DEF MoveTo
<1>4. HashInv' /\ InList(s)'
  BY <1>1, <1>3, InvMoveTo
<1>5. (\A q : Null \notin DOMAIN link /\ InList(q) => ListFrom[first] = q)'
  BY ListIs, PTL
<1>6. Null \notin DOMAIN link /\ ListFrom[first] = s
  BY <1>1, TableOf
<1>7. (ListFrom[first])' = s
  BY <1>2, <1>4, <1>5, <1>6
<1> QED
  BY <1>2, <1>4, <1>6, <1>7 DEF Ordered!tableVars

HashSpec == HashInit /\ [][HashNext]_hashVars

\* The table of chains always has its pointers in order,
THEOREM HashSafety == HashSpec => []HashInv
<1>1. HashInit => HashInv
  BY HashStart
<1>2. HashInv /\ [HashNext]_hashVars => HashInv'
  BY HashStep, HashStands
<1> QED
  BY <1>1, <1>2, PTL DEF HashSpec

\* and is, call by call, the ordered table.
THEOREM HashRefines == HashSpec => TableSpec
<1>1. HashInit => HashInv /\ Ordered!AbstractInit
  BY HashStart
<1>2. HashInv /\ [HashNext]_hashVars => HashInv' /\ [Ordered!AbstractNext]_(Ordered!tableVars)
  BY HashStep, HashStands
<1> QED
  BY <1>1, <1>2, PTL DEF HashSpec, TableSpec, Ordered!AbstractSpec

-----------------------------------------------------------------------------
(* The RTCP timer *)

\* Products and quotients of naturals.
LEMMA Product == ASSUME NEW a \in Nat, NEW b \in Nat PROVE a * b \in Nat
OBVIOUS

LEMMA Positive == ASSUME NEW a \in Nat \ {0}, NEW b \in Nat \ {0} PROVE a * b \in Nat \ {0}
OBVIOUS

LEMMA Quotient == ASSUME NEW a \in Nat, NEW b \in Nat \ {0} PROVE a \div b \in Nat
OBVIOUS

LEMMA QuotientBelow ==
    ASSUME NEW y \in Nat, NEW b \in Nat \ {0}, NEW x \in Nat, y < b * (x + 1)
    PROVE  y \div b <= x
OBVIOUS

\* A share of a whole is not more than the whole.
LEMMA Share ==
    ASSUME NEW a \in Nat, NEW b \in Nat, a < b, NEW x \in Nat
    PROVE  (a * x) \div b \in Nat /\ (a * x) \div b <= x
<1>1. /\ a * x \in Nat /\ b * x \in Nat /\ (b - a) * x \in Nat
      /\ (b - a) * x + a * x = b * x
      /\ b * (x + 1) = b * x + b
  OBVIOUS
<1>2. a * x < b * (x + 1)
  BY <1>1
<1> QED
  BY <1>1, <1>2, QuotientBelow, Quotient

\* Besides the types: at most all members send, and a BYE packet that waits
\* counted no more members than packets came in.
SchedInv ==
    /\ SchedulerTypeOK
    /\ NeverTooEarly
    /\ members.senders <= members.active
    /\ incoming \in 0 .. MaxIncoming
    /\ sched.byescheduled => sched.byemembers <= incoming + 1

SchedRecord ==
    [firstcall : BOOLEAN, hassentrtcp : BOOLEAN, avg : Nat, byescheduled : BOOLEAN,
     sendbyenow : BOOLEAN, byemembers : 0 .. MaxIncoming + 1, byeavg : Nat,
     next : Nat, since : 0 .. MaxSince, pmembers : 0 .. MaxActive]

LEMMA IntervalIsNat ==
    ASSUME SchedInv, NEW s \in SchedRecord
    PROVE  CalculateTransmissionInterval(s) \subseteq Nat
<1> USE SchedulerAssumption
<1>1. /\ members \in [active : 0 .. MaxActive, senders : 0 .. MaxActive, sender : BOOLEAN]
      /\ members.senders <= members.active
      /\ SenderPercent \in 1 .. 99 /\ Bandwidth \in Nat \ {0} /\ MinInterval \in Nat
      /\ s.avg \in Nat
  BY DEF SchedInv, SchedulerTypeOK, SchedRecord
<1>2. MinInterval \div 2 \in Nat
  BY <1>1
<1>3. ASSUME NEW n \in Nat, NEW share \in Nat \ {0}
      PROVE  (100 * n * s.avg) \div (share * Bandwidth) \in Nat
  <2>1. 100 * n \in Nat
    OBVIOUS
  <2>2. 100 * n * s.avg \in Nat
    BY <2>1, <1>1, Product
  <2> QED
    BY <2>2, <1>1, Positive, Quotient
<1>4. ASSUME NEW sender \in BOOLEAN
      PROVE  CalculateDeterministicInterval(s, sender) \in Nat
  <2> DEFINE total == IF members.active = 0 THEN 1 ELSE members.active
             few == 100 * members.senders <= SenderPercent * total
             share == IF ~few THEN 100 ELSE IF sender THEN SenderPercent ELSE 100 - SenderPercent
             n == IF ~few THEN total ELSE IF sender THEN members.senders ELSE total - members.senders
             min == IF ~s.hassentrtcp /\ HalfAtStartup THEN MinInterval \div 2 ELSE MinInterval
  <2>1. total \in Nat /\ members.senders \in Nat /\ members.senders <= total
    BY <1>1
  <2>2. n \in Nat /\ share \in Nat \ {0}
    <3> HIDE DEF few, total
    <3> QED BY <2>1, <1>1
  <2>3. min \in Nat
    BY <1>1, <1>2
  <2>4. (100 * n * s.avg) \div (share * Bandwidth) \in Nat
    <3> HIDE DEF n, share
    <3> QED BY <2>2, <1>3
  <2>5. CalculateDeterministicInterval(s, sender)
          = Larger(min, (100 * n * s.avg) \div (share * Bandwidth))
    BY DEF CalculateDeterministicInterval
  <2> HIDE DEF n, share, min
  <2> QED
    BY <2>3, <2>4, <2>5 DEF Larger
<1>5. ASSUME NEW m \in Multipliers
      PROVE  (CalculateDeterministicInterval(s, members.sender) * m) \div 100 \in Nat
  <2>1. CalculateDeterministicInterval(s, members.sender) \in Nat /\ m \in Nat
    BY <1>1, <1>4
  <2> QED
    BY <2>1, Product, Quotient
<1> QED
  BY <1>5 DEF CalculateTransmissionInterval

LEMMA ByeIntervalIsNat ==
    ASSUME NEW s \in SchedRecord
    PROVE  CalculateBYETransmissionInterval(s) \subseteq Nat
<1> USE SchedulerAssumption
<1> DEFINE min == IF HalfAtStartup THEN MinInterval \div 2 ELSE MinInterval
           td == Larger(min, (100 * s.byemembers * s.byeavg) \div ((100 - SenderPercent) * Bandwidth))
<1>1. /\ MinInterval \in Nat /\ 100 - SenderPercent \in Nat \ {0} /\ Bandwidth \in Nat \ {0}
      /\ s.byeavg \in Nat /\ s.byemembers \in Nat
  BY DEF SchedRecord
<1>2. min \in Nat
  BY <1>1
<1>3. 100 * s.byemembers * s.byeavg \in Nat
  <2>1. 100 * s.byemembers \in Nat
    BY <1>1
  <2> QED
    BY <2>1, <1>1, Product
<1>4. (100 * s.byemembers * s.byeavg) \div ((100 - SenderPercent) * Bandwidth) \in Nat
  BY <1>1, <1>3, Positive, Quotient
<1>5. td \in Nat
  BY <1>2, <1>4 DEF Larger
<1>6. ASSUME NEW m \in Multipliers PROVE (td * m) \div 100 \in Nat
  <2> HIDE DEF td
  <2> QED BY <1>5, Product, Quotient
<1>7. CalculateBYETransmissionInterval(s)
        = IF ~s.byescheduled \/ s.sendbyenow THEN {0} ELSE {(td * m) \div 100 : m \in Multipliers}
  BY DEF CalculateBYETransmissionInterval
<1>8. {(td * m) \div 100 : m \in Multipliers} \subseteq Nat /\ {0} \subseteq Nat
  BY <1>6
<1> HIDE DEF td
<1> QED
  BY <1>7, <1>8

LEMMA AverageIsNat ==
    ASSUME NEW a \in Nat, NEW size \in Sizes
    PROVE  Smoothed(a, Overhead + size) \in Nat
BY SchedulerAssumption DEF Smoothed

\* What IsTime and GetTransmissionDelay do with the timer.
LEMMA TimerStarts ==
    ASSUME SchedInv, NEW s \in FirstCall(sched) \cup Sent(sched)
    PROVE  /\ s \in SchedRecord /\ s.since = 0
           /\ s.byemembers = sched.byemembers /\ (s.byescheduled => sched.byescheduled)
<1>1. sched \in SchedRecord /\ members.active \in 0 .. MaxActive
  BY DEF SchedInv, SchedulerTypeOK, SchedRecord
<1>2. CalculateTransmissionInterval(sched) \subseteq Nat
  BY <1>1, IntervalIsNat
<1>3. 0 \in 0 .. MaxSince
  BY SchedulerAssumption
<1>4. PICK t \in Nat :
        \/ s = [sched EXCEPT !.firstcall = FALSE, !.since = 0, !.pmembers = members.active, !.next = t]
        \/ s = [sched EXCEPT !.byescheduled = FALSE, !.since = 0, !.pmembers = members.active, !.next = t]
  BY <1>2 DEF FirstCall, Sent
<1> QED
  BY <1>1, <1>3, <1>4 DEF SchedRecord

LEMMA CheckIsNat ==
    ASSUME SchedInv,
           NEW check \in IF sched.byescheduled THEN CalculateBYETransmissionInterval(sched)
                         ELSE CalculateTransmissionInterval(sched)
    PROVE  check \in Nat
<1>1. sched \in SchedRecord
  BY DEF SchedInv, SchedulerTypeOK, SchedRecord
<1> QED
  BY <1>1, IntervalIsNat, ByeIntervalIsNat

\* The share of the members that are left of a time is no more than that time.
LEMMA LeavingShortens ==
    ASSUME SchedInv, NEW active \in 0 .. MaxActive, ActiveMemberDecrease(active)
    PROVE  /\ sched' \in SchedRecord /\ sched'.since <= sched.since
           /\ sched'.firstcall = sched.firstcall
           /\ sched'.byemembers = sched.byemembers /\ sched'.byescheduled = sched.byescheduled
<1>1. sched \in SchedRecord
  BY DEF SchedInv, SchedulerTypeOK, SchedRecord
<1>2. CASE sched' = sched
  BY <1>1, <1>2, SchedulerAssumption DEF SchedRecord
<1>3. CASE sched' # sched
  <2> DEFINE before == IF sched.pmembers = 0 THEN 1 ELSE sched.pmembers
             next == (active * sched.next) \div before
             since == (active * sched.since) \div before
  <2>1. /\ active < sched.pmembers
        /\ sched' = [sched EXCEPT !.next = next, !.since = since, !.pmembers = active]
    BY <1>3 DEF ActiveMemberDecrease, PerformReverseReconsideration
  <2>2. /\ sched.pmembers \in Nat /\ active \in Nat /\ active < before /\ before \in Nat
        /\ sched.next \in Nat /\ sched.since \in 0 .. MaxSince /\ sched.since \in Nat
    BY <1>1, <2>1, SchedulerAssumption DEF SchedRecord
  <2>3. next \in Nat /\ since \in Nat /\ since <= sched.since
    <3> HIDE DEF before
    <3> QED BY <2>2, Share
  <2>4. since \in 0 .. MaxSince
    BY <2>2, <2>3, SchedulerAssumption
  <2> HIDE DEF next, since
  <2> QED
    BY <1>1, <2>1, <2>3, <2>4 DEF SchedRecord
<1> QED
  BY <1>2, <1>3

LEMMA SchedStarts == SchedulerInit => SchedInv
<1> SUFFICES ASSUME SchedulerInit PROVE SchedInv
  OBVIOUS
<1>1. sched = NewScheduler
  BY DEF SchedulerInit
<1>2. sched \in SchedRecord
  BY <1>1, SchedulerAssumption DEF NewScheduler, SchedRecord
<1>3. ~sched.byescheduled /\ sched.firstcall
  BY <1>1 DEF NewScheduler
<1>4. /\ members \in [active : 0 .. MaxActive, senders : 0 .. MaxActive, sender : BOOLEAN]
      /\ members.senders <= members.active
      /\ real \in 0 .. MaxSince /\ incoming \in 0 .. MaxIncoming
  BY SchedulerAssumption DEF SchedulerInit
<1> QED
  BY <1>2, <1>3, <1>4 DEF SchedInv, SchedulerTypeOK, SchedRecord, NeverTooEarly

LEMMA SchedStep ==
    ASSUME SchedInv, SchedulerNext
    PROVE  SchedInv'
<1> USE SchedulerAssumption
<1>1. /\ sched \in SchedRecord /\ real \in 0 .. MaxSince
      /\ members \in [active : 0 .. MaxActive, senders : 0 .. MaxActive, sender : BOOLEAN]
      /\ members.senders <= members.active /\ incoming \in 0 .. MaxIncoming
      /\ ~sched.firstcall => sched.since <= real
      /\ sched.byescheduled => sched.byemembers <= incoming + 1
  BY DEF SchedInv, SchedulerTypeOK, SchedRecord, NeverTooEarly
<1> SUFFICES
      /\ sched' \in SchedRecord /\ real' \in 0 .. MaxSince
      /\ members' \in [active : 0 .. MaxActive, senders : 0 .. MaxActive, sender : BOOLEAN]
      /\ members'.senders <= members'.active /\ incoming' \in 0 .. MaxIncoming
      /\ ~sched'.firstcall => sched'.since <= real'
      /\ sched'.byescheduled => sched'.byemembers <= incoming' + 1
  BY DEF SchedInv, SchedulerTypeOK, SchedRecord, NeverTooEarly
<1>2. CASE IsTimeStarts \/ GetTransmissionDelay
  <2>1. sched' \in FirstCall(sched) /\ UNCHANGED <<members, incoming, real>>
    BY <1>2 DEF IsTimeStarts, GetTransmissionDelay
  <2>2. /\ sched' \in SchedRecord /\ sched'.since = 0
        /\ sched'.byemembers = sched.byemembers
        /\ (sched'.byescheduled => sched.byescheduled)
    BY <2>1, TimerStarts
  <2> QED
    BY <1>1, <2>1, <2>2
<1>3. CASE IsTimeWaits
  <2>1. PICK check \in IF sched.byescheduled THEN CalculateBYETransmissionInterval(sched)
                       ELSE CalculateTransmissionInterval(sched) :
          check > sched.since /\ sched' \in Checked(sched, check)
    BY <1>3 DEF IsTimeWaits
  <2>2. check \in Nat /\ sched.since \in Nat
    BY <1>1, CheckIsNat DEF SchedRecord
  <2>3. sched' = [sched EXCEPT !.next = check - sched.since, !.pmembers = members.active]
    BY <2>1, <2>2 DEF Checked
  <2>4. check - sched.since \in Nat
    BY <2>1, <2>2
  <2>5. UNCHANGED <<members, incoming, real>>
    BY <1>3 DEF IsTimeWaits
  <2>6. sched' \in SchedRecord /\ sched'.since = sched.since /\ sched'.firstcall = sched.firstcall
        /\ sched'.byescheduled = sched.byescheduled /\ sched'.byemembers = sched.byemembers
    BY <1>1, <2>3, <2>4 DEF SchedRecord
  <2> QED
    BY <1>1, <2>5, <2>6
<1>4. ASSUME NEW size \in Sizes, IsTimeSends(size)
      PROVE  /\ sched' \in SchedRecord /\ sched'.since = 0
             /\ sched'.byemembers = sched.byemembers
             /\ (sched'.byescheduled => sched.byescheduled)
             /\ real' = 0 /\ UNCHANGED <<members, incoming>>
  <2>1. PICK check \in IF sched.byescheduled THEN CalculateBYETransmissionInterval(sched)
                       ELSE CalculateTransmissionInterval(sched) :
          /\ check <= sched.since
          /\ \E s \in Checked(sched, check) :
               sched' = AnalyseOutgoing(s, sched.byescheduled, size)
    BY <1>4 DEF IsTimeSends
  <2>2. PICK s \in Sent(sched) : sched' = AnalyseOutgoing(s, sched.byescheduled, size)
    BY <2>1 DEF Checked
  <2>3. /\ s \in SchedRecord /\ s.since = 0
        /\ s.byemembers = sched.byemembers /\ (s.byescheduled => sched.byescheduled)
    BY TimerStarts
  <2>4. s.avg \in Nat /\ Smoothed(s.avg, Overhead + size) \in Nat
    BY <2>3, AverageIsNat DEF SchedRecord
  <2>5. PICK avg \in Nat : sched' = [s EXCEPT !.avg = avg, !.hassentrtcp = TRUE]
    BY <2>2, <2>4 DEF AnalyseOutgoing
  <2> QED
    BY <1>4, <2>3, <2>5 DEF IsTimeSends, SchedRecord
<1>5. ASSUME NEW size \in Sizes, NEW isbye \in BOOLEAN, AnalyseIncoming(isbye, size)
      PROVE  /\ sched' \in SchedRecord /\ sched'.since = sched.since
             /\ sched'.firstcall = sched.firstcall
             /\ sched'.byescheduled => sched'.byemembers <= incoming' + 1
             /\ incoming' \in 0 .. MaxIncoming /\ UNCHANGED <<members, real>>
  <2>1. /\ sched.avg \in Nat /\ sched.byeavg \in Nat
        /\ sched.byemembers \in 0 .. MaxIncoming + 1
    BY <1>1 DEF SchedRecord
  <2>2. /\ Smoothed(sched.avg, Overhead + size) \in Nat
        /\ Smoothed(sched.byeavg, Overhead + size) \in Nat
    BY <2>1, AverageIsNat
  <2>3. incoming < MaxIncoming /\ incoming' = incoming + 1 /\ UNCHANGED <<members, real>>
    BY <1>5 DEF AnalyseIncoming
  <2>4. CASE sched' = [sched EXCEPT !.avg = Smoothed(@, Overhead + size)] \/ sched' = sched
    BY <1>1, <2>2, <2>3, <2>4 DEF SchedRecord
  <2>5. CASE /\ sched.byescheduled
             /\ sched' = [sched EXCEPT !.byeavg = Smoothed(@, Overhead + size), !.byemembers = @ + 1]
    <3>1. sched.byemembers + 1 \in 0 .. MaxIncoming + 1
      BY <1>1, <2>1, <2>3, <2>5
    <3>2. /\ sched' \in SchedRecord /\ sched'.byemembers = sched.byemembers + 1
          /\ sched'.since = sched.since /\ sched'.firstcall = sched.firstcall
      BY <1>1, <2>1, <2>2, <2>5, <3>1 DEF SchedRecord
    <3> QED
      BY <1>1, <2>1, <2>3, <2>5, <3>2
  <2> QED
    BY <1>5, <2>4, <2>5 DEF AnalyseIncoming
<1>6. ASSUME NEW size \in Sizes, ScheduleBYEPacket(size)
      PROVE  /\ sched' \in SchedRecord /\ sched'.since = 0 /\ sched'.byemembers = 1
             /\ UNCHANGED <<members, incoming, real>>
  <2> DEFINE s == [sched EXCEPT
                    !.pmembers = IF sched.firstcall THEN members.active ELSE @,
                    !.firstcall = FALSE, !.byescheduled = TRUE,
                    !.byeavg = size + Overhead, !.byemembers = 1,
                    !.sendbyenow = ImmediateBYE /\ members.active < FewMembers,
                    !.since = 0]
  <2>1. sched' \in {[s EXCEPT !.next = t] : t \in CalculateBYETransmissionInterval(s)}
    BY <1>6 DEF ScheduleBYEPacket
  <2>2. s \in SchedRecord /\ s.since = 0 /\ s.byemembers = 1
    <3>1. /\ size + Overhead \in Nat /\ 1 \in 0 .. MaxIncoming + 1 /\ 0 \in 0 .. MaxSince
          /\ (ImmediateBYE /\ members.active < FewMembers) \in BOOLEAN
      OBVIOUS
    <3> QED
      BY ZenonT(60), <1>1, <3>1 DEF SchedRecord
  <2> HIDE DEF s
  <2>3. PICK t \in Nat : sched' = [s EXCEPT !.next = t]
    BY <2>1, <2>2, ByeIntervalIsNat
  <2> QED
    BY <1>6, <2>2, <2>3 DEF ScheduleBYEPacket, SchedRecord
<1>7. CASE SessionEnds
  <2>1. sched' = [sched EXCEPT !.hassentrtcp = FALSE, !.firstcall = TRUE, !.avg = FirstAverage,
                               !.byescheduled = FALSE, !.sendbyenow = FALSE]
    BY <1>7 DEF SessionEnds, Reset
  <2>2. sched' \in SchedRecord /\ sched'.firstcall /\ ~sched'.byescheduled
    BY <1>1, <2>1 DEF SchedRecord
  <2> QED
    BY <1>7, <2>2 DEF SessionEnds
<1>8. CASE Joins
  BY <1>1, <1>8 DEF Joins
<1>9. CASE SendersChange
  <2>1. PICK own \in BOOLEAN, n \in 0 .. members.active :
          members' = [members EXCEPT !.senders = n, !.sender = own]
    BY <1>9 DEF SendersChange
  <2>2. n \in 0 .. MaxActive /\ n <= members.active
    BY <1>1, <2>1
  <2>3. /\ members' \in [active : 0 .. MaxActive, senders : 0 .. MaxActive, sender : BOOLEAN]
        /\ members'.senders <= members'.active
    BY <1>1, <2>1, <2>2
  <2> QED
    BY <1>1, <1>9, <2>3 DEF SendersChange
<1>10. CASE Leaves
  <2>1. members.active - 1 \in 0 .. MaxActive /\ ActiveMemberDecrease(members.active - 1)
    BY <1>1, <1>10 DEF Leaves
  <2>2. /\ sched' \in SchedRecord /\ sched'.since <= sched.since
        /\ sched'.firstcall = sched.firstcall
        /\ sched'.byemembers = sched.byemembers /\ sched'.byescheduled = sched.byescheduled
    BY <2>1, LeavingShortens
  <2>3. /\ members' \in [active : 0 .. MaxActive, senders : 0 .. MaxActive, sender : BOOLEAN]
        /\ members'.senders <= members'.active
    BY <1>1, <1>10 DEF Leaves
  <2> QED
    BY <1>1, <1>10, <2>2, <2>3 DEF Leaves, SchedRecord
<1>11. CASE Tick
  <2>1. /\ sched' = [sched EXCEPT !.next = Larger(@ - 1, 0), !.since = @ + 1]
        /\ ~sched.firstcall /\ sched.since < MaxSince /\ UNCHANGED <<members, incoming>>
        /\ real' = IF real < MaxSince THEN real + 1 ELSE real
    BY <1>11 DEF Tick
  <2>2. /\ sched.next \in Nat /\ sched.since \in 0 .. MaxSince
        /\ sched.since + 1 \in 0 .. MaxSince /\ Larger(sched.next - 1, 0) \in Nat
    BY <1>1, <2>1 DEF SchedRecord, Larger
  <2>3. /\ sched' \in SchedRecord /\ sched'.since = sched.since + 1
        /\ sched'.byemembers = sched.byemembers /\ sched'.byescheduled = sched.byescheduled
    BY <1>1, <2>1, <2>2 DEF SchedRecord
  <2> QED
    BY <1>1, <2>1, <2>2, <2>3
<1>12. CASE \E size \in Sizes : IsTimeSends(size)
  BY <1>1, <1>4, <1>12
<1>13. CASE \E size \in Sizes : \E isbye \in BOOLEAN : AnalyseIncoming(isbye, size)
  BY <1>1, <1>5, <1>13
<1>14. CASE \E size \in Sizes : ScheduleBYEPacket(size)
  <2>1. sched' \in SchedRecord /\ sched'.since = 0 /\ sched'.byemembers = 1
    BY <1>6, <1>14
  <2> QED
    BY <1>1, <1>6, <1>14, <2>1
<1> QED
  BY <1>2, <1>3, <1>7, <1>8, <1>9, <1>10, <1>11, <1>12, <1>13, <1>14
     DEF SchedulerNext, IsTime
-----------------------------------------------------------------------------
(* The numbers of one source *)

\* Quotient and remainder.
LEMMA ModIs ==
    ASSUME NEW m \in Nat \ {0}, NEW x \in Int
    PROVE  \E q \in Int, r \in 0 .. m - 1 : x = m * q + r /\ x \div m = q /\ x % m = r
<1>1. PICK r : r = x % m
  OBVIOUS
<1>2. PICK q : q = x \div m
  OBVIOUS
<1>3. r \in 0 .. m - 1
  BY <1>1
<1>4. q \in Int
  BY <1>2
<1>5. x = m * q + r
  BY <1>1, <1>2, SMTT(30)
<1> QED
  BY <1>1, <1>2, <1>3, <1>4, <1>5

LEMMA OneMultiple ==
    ASSUME NEW m \in Nat \ {0}, NEW a \in Int, NEW b \in Int, m * a - m * b < m, m * b - m * a < m
    PROVE  a = b
<1>1. CASE a > b
  <2>1. PICK d \in Nat : a = b + 1 + d
    <3>1. a - b - 1 \in Nat /\ a = b + 1 + (a - b - 1)
      BY <1>1
    <3> QED
      BY <3>1
  <2>2. m * a = m * b + m + m * d /\ m * d \in Nat /\ m * b \in Int
    BY <2>1
  <2> QED
    BY <2>2
<1>2. CASE b > a
  <2>1. PICK d \in Nat : b = a + 1 + d
    <3>1. b - a - 1 \in Nat /\ b = a + 1 + (b - a - 1)
      BY <1>2
    <3> QED
      BY <3>1
  <2>2. m * b = m * a + m + m * d /\ m * d \in Nat /\ m * a \in Int
    BY <2>1
  <2> QED
    BY <2>2
<1> QED
  BY <1>1, <1>2

LEMMA ModOf ==
    ASSUME NEW m \in Nat \ {0}, NEW q \in Int, NEW r \in 0 .. m - 1, NEW x \in Int, x = m * q + r
    PROVE  x % m = r /\ x \div m = q
<1>1. PICK p \in Int, s \in 0 .. m - 1 : x = m * p + s /\ x \div m = p /\ x % m = s
  BY ModIs
<1>2. m * q \in Int /\ m * p \in Int
  BY <1>1
<1>3. m * q - m * p < m /\ m * p - m * q < m
  BY <1>1, <1>2
<1>4. q = p
  BY <1>1, <1>3, OneMultiple
<1>5. s = r
  BY <1>1, <1>2, <1>4
<1> QED
  BY <1>1, <1>4, <1>5
\* x is m times q and r.
Split(x, m, q, r) == q \in Int /\ r \in 0 .. m - 1 /\ x \in Int /\ x = m * q + r

LEMMA SplitIs ==
    ASSUME NEW m \in Nat \ {0}, NEW x, x \in Int
    PROVE  \E q \in Int, r \in 0 .. m - 1 : Split(x, m, q, r)
<1>1. PICK p \in Int, s \in 0 .. m - 1 : x = m * p + s /\ x \div m = p /\ x % m = s
  BY ModIs
<1> QED
  BY <1>1 DEF Split

LEMMA SplitOf ==
    ASSUME NEW m \in Nat \ {0}, NEW x, NEW q, NEW r, Split(x, m, q, r)
    PROVE  x % m = r /\ x \div m = q
BY ModOf DEF Split
-----------------------------------------------------------------------------
StatsRecord ==
    [sentdata : BOOLEAN, validated : BOOLEAN, probation : 0 .. ProbationLength,
     prevseqnr : 0 .. SeqNumbers - 1, numcycles : Nat, baseseqnr : Nat, exthighseqnr : Nat,
     savedextseqnr : Nat, packetsreceived : Nat, numnewpackets : Nat,
     prevtimestamp : 0 .. TsNumbers - 1]

HistoryRecord ==
    [offset : Int, strayed : BOOLEAN, wrapped : BOOLEAN, step : Int, true : Int,
     previous : Int, lost : Int]

\* A packet that waits, and the order of those that do.
WaitingPackets == [packet : 0 .. LastPacket, ext : Nat]

Sorted(q) == \A i, j \in DOMAIN q : i < j => q[i].ext < q[j].ext

\* The numbers of the packets themselves, and those at a distance.
AsSent(q) == \A i \in DOMAIN q : q[i].ext = Seq16(q[i].packet)
AsNumbered(q, o) == \A i \in DOMAIN q : q[i].ext = q[i].packet + o

\* The highest packet is m, and the cycles are its cycles.
InStep(s, m, o) ==
    /\ s.exthighseqnr = m + o
    /\ Seq16(o) = 0
    /\ s.numcycles = SeqNumbers * (s.exthighseqnr \div SeqNumbers)

Strays(n, m, o) == n < m /\ (n + o) \div SeqNumbers < (m + o) \div SeqNumbers

\* As long as no packet was accepted, nothing was counted, and what waits is
\* sorted by the numbers of the packets themselves.
Probing ==
    /\ source.numcycles = 0 /\ source.packetsreceived = 0 /\ source.numnewpackets = 0
    /\ history.lost = 0 /\ ~history.strayed /\ ~history.wrapped
    /\ AsSent(waiting)

\* Later the packets keep their distance to the numbers they are known by, the
\* cycles are those of the highest, and every packet was counted as one that came
\* or one that was lost.
Extending16 ==
    /\ source.validated /\ newest >= 0
    /\ history.lost
         = source.savedextseqnr - source.baseseqnr - (source.packetsreceived - source.numnewpackets)
    /\ history.previous \in newest - MaxLate .. newest
    /\ source.prevtimestamp = Timestamp(history.previous)
    /\ ~history.strayed =>
         /\ InStep(source, newest, history.offset)
         /\ history.step = history.true
         /\ ~history.wrapped => AsNumbered(waiting, history.offset)

StatsInv ==
    /\ source \in StatsRecord /\ history \in HistoryRecord
    /\ waiting \in Seq(WaitingPackets) /\ Sorted(waiting)
    /\ newest \in -1 .. LastPacket
    /\ Len(waiting) <= IF source.validated THEN MaxWaiting ELSE ProbationPackets
    /\ newest = -1 => waiting = <<>> /\ ~source.sentdata
    /\ ~source.sentdata => Probing
    /\ source.sentdata => Extending16

LEMMA StatsConstants ==
    /\ SeqNumbers \in Nat \ {0} /\ TsNumbers \in Nat \ {0} /\ TsStep \in Nat \ {0}
    /\ ProbationLength \in Nat \ {0} /\ ProbationPackets \in Nat \ {0} /\ MaxGap \in Nat \ {0}
    /\ TsFirst \in Nat /\ MaxLate \in Nat /\ LastPacket \in Nat /\ MaxWaiting \in Nat
    /\ MaxAccepted \in Nat
    /\ FirstPackets \subseteq 0 .. LastPacket
    /\ ProbationPackets \in 2 .. MaxWaiting - 1
    /\ 2 * (MaxGap + MaxLate) < SeqNumbers
    /\ TsStep * (MaxGap + MaxLate) < TsNumbers \div 16
BY StatsAssumption

LEMMA NumbersFit ==
    ASSUME NEW n \in Int
    PROVE  Seq16(n) \in 0 .. SeqNumbers - 1 /\ Timestamp(n) \in 0 .. TsNumbers - 1
<1>1. TsFirst + TsStep * n \in Int
  BY StatsConstants
<1>2. n % SeqNumbers \in 0 .. SeqNumbers - 1
  BY StatsConstants, ModIs
<1>3. (TsFirst + TsStep * n) % TsNumbers \in 0 .. TsNumbers - 1
  BY <1>1, StatsConstants, ModIs
<1> QED
  BY <1>2, <1>3 DEF Seq16, Timestamp

\* The first accepted packet.
LEMMA Accepting ==
    ASSUME NEW s \in StatsRecord, NEW n \in Nat, s.numcycles = 0, NEW t, t = Accept(s, n)
    PROVE  /\ t \in StatsRecord /\ t.sentdata /\ t.validated
           /\ t.packetsreceived = s.packetsreceived + 1 /\ t.numnewpackets = s.numnewpackets + 1
           /\ t.savedextseqnr = t.baseseqnr /\ t.prevtimestamp = Timestamp(n)
           /\ t.exthighseqnr = (IF Seq16(n) = 0 THEN SeqNumbers ELSE Seq16(n))
           /\ t.numcycles = (IF Seq16(n) = 0 THEN SeqNumbers ELSE 0)
<1> DEFINE seq == Seq16(n)
           base == IF seq = 0 THEN SeqNumbers - 1 ELSE seq - 1
           ts == Timestamp(n)
           cycles == IF seq = 0 THEN SeqNumbers ELSE s.numcycles
           high == base + 1
           received == s.packetsreceived + 1
           new == s.numnewpackets + 1
<1>1. seq \in 0 .. SeqNumbers - 1 /\ ts \in 0 .. TsNumbers - 1
  BY NumbersFit
<1>2. t = [s EXCEPT !.sentdata = TRUE, !.validated = TRUE,
                  !.packetsreceived = received, !.numnewpackets = new,
                  !.numcycles = cycles,
                  !.baseseqnr = base, !.exthighseqnr = high, !.savedextseqnr = base,
                  !.prevtimestamp = ts]
  BY DEF Accept
<1> HIDE DEF seq, ts
<1>3. base \in Nat /\ base + 1 = (IF seq = 0 THEN SeqNumbers ELSE seq)
  BY <1>1, StatsConstants
<1>5. received \in Nat /\ new \in Nat /\ cycles \in Nat /\ high \in Nat
  BY <1>3, <1>1, StatsConstants DEF StatsRecord
<1>6. cycles = (IF seq = 0 THEN SeqNumbers ELSE 0)
  OBVIOUS
<1> HIDE DEF base, cycles, high, received, new
<1>4. /\ t \in StatsRecord /\ t.sentdata /\ t.validated
      /\ t.packetsreceived = received /\ t.numnewpackets = new
      /\ t.savedextseqnr = t.baseseqnr /\ t.prevtimestamp = ts
      /\ t.exthighseqnr = high /\ t.numcycles = cycles
  BY ZenonT(60), <1>1, <1>2, <1>3, <1>5 DEF StatsRecord
<1> QED
  BY <1>3, <1>4, <1>6 DEF seq, ts, received, new, high

\* A packet of a source on probation, or validated but without packets yet.
LEMMA Probes ==
    ASSUME NEW s \in StatsRecord, ~s.sentdata, s.numcycles = 0, NEW n \in Nat,
           NEW r, r = Probe(s, n)
    PROVE  /\ r.source \in StatsRecord /\ r.accept \in BOOLEAN /\ r.source.sentdata = r.accept
           /\ ~r.accept => /\ r.source.validated = s.validated /\ ~s.validated /\ r.ext = Seq16(n)
                           /\ r.source.numcycles = 0
                           /\ r.source.packetsreceived = s.packetsreceived
                           /\ r.source.numnewpackets = s.numnewpackets
           /\ r.accept => /\ r.source.validated /\ r.ext = r.source.exthighseqnr
                          /\ r.source.packetsreceived = s.packetsreceived + 1
                          /\ r.source.numnewpackets = s.numnewpackets + 1
                          /\ r.source.savedextseqnr = r.source.baseseqnr
                          /\ r.source.prevtimestamp = Timestamp(n)
                          /\ r.ext = (IF Seq16(n) = 0 THEN SeqNumbers ELSE Seq16(n))
                          /\ r.source.numcycles = (IF Seq16(n) = 0 THEN SeqNumbers ELSE 0)
<1> DEFINE seq == Seq16(n)
           next == s.probation > 0 /\ Seq16(s.prevseqnr + 1) = seq
           left == IF next THEN s.probation - 1 ELSE ProbationLength
           on == [s EXCEPT !.probation = left, !.prevseqnr = seq]
           a == Accept(IF s.validated THEN s ELSE on, n)
<1>1. seq \in 0 .. SeqNumbers - 1
  BY NumbersFit
<1>2. left \in 0 .. ProbationLength
  BY StatsConstants DEF StatsRecord
<1>3. r = IF s.validated \/ left = 0
          THEN [source |-> a, ext |-> a.exthighseqnr, accept |-> TRUE]
          ELSE [source |-> on, ext |-> seq, accept |-> FALSE]
  BY DEF Probe
<1> HIDE DEF seq, left
<1>4. /\ on \in StatsRecord /\ on.numcycles = 0 /\ on.validated = s.validated /\ ~on.sentdata
      /\ on.packetsreceived = s.packetsreceived /\ on.numnewpackets = s.numnewpackets
  BY <1>1, <1>2 DEF StatsRecord
<1> HIDE DEF on
<1>5. CASE s.validated \/ left = 0
  <2> DEFINE o == IF s.validated THEN s ELSE on
  <2>1. /\ o \in StatsRecord /\ o.numcycles = 0
        /\ o.packetsreceived = s.packetsreceived /\ o.numnewpackets = s.numnewpackets
    BY <1>4
  <2> HIDE DEF o
  <2>2. a = Accept(o, n)
    BY DEF o
  <2> HIDE DEF a
  <2>3. /\ a \in StatsRecord /\ a.sentdata /\ a.validated
        /\ a.packetsreceived = o.packetsreceived + 1 /\ a.numnewpackets = o.numnewpackets + 1
        /\ a.savedextseqnr = a.baseseqnr /\ a.prevtimestamp = Timestamp(n)
        /\ a.exthighseqnr = (IF Seq16(n) = 0 THEN SeqNumbers ELSE Seq16(n))
        /\ a.numcycles = (IF Seq16(n) = 0 THEN SeqNumbers ELSE 0)
    BY <2>1, <2>2, Accepting
  <2>4. r.source = a /\ r.ext = a.exthighseqnr /\ r.accept = TRUE
    BY <1>3, <1>5
  <2>5. a.sentdata = TRUE
    BY <2>3 DEF StatsRecord
  <2> QED
    BY <2>1, <2>3, <2>4, <2>5
<1>6. CASE ~(s.validated \/ left = 0)
  <2>1. r.source = on /\ r.ext = seq /\ r.accept = FALSE
    BY <1>3, <1>6
  <2>2. on.sentdata = FALSE
    BY <1>4 DEF StatsRecord
  <2> QED
    BY <1>4, <1>6, <2>1, <2>2 DEF seq
<1> QED
  BY <1>5, <1>6

\* Whatever the number, the counters count it.
LEMMA Extending ==
    ASSUME NEW s \in StatsRecord, NEW n \in Nat, NEW r, r = Extend(s, n)
    PROVE  /\ r.source \in StatsRecord /\ r.accept /\ r.ext \in Nat
           /\ r.source.sentdata <=> s.sentdata
           /\ r.source.validated <=> s.validated
           /\ r.source.packetsreceived = s.packetsreceived + 1
           /\ r.source.numnewpackets = s.numnewpackets + 1
           /\ r.source.baseseqnr = s.baseseqnr /\ r.source.savedextseqnr = s.savedextseqnr
           /\ r.source.prevtimestamp = Timestamp(n)
           /\ r.ext = r.source.numcycles + Seq16(n)
           /\ r.source.numcycles = (IF Wrapped(s, Seq16(n)) THEN s.numcycles + SeqNumbers
                                                           ELSE s.numcycles)
           /\ r.source.exthighseqnr = (IF Newer(s, Seq16(n)) \/ Wrapped(s, Seq16(n))
                                         THEN r.ext ELSE s.exthighseqnr)
<1> DEFINE seq == Seq16(n)
           ts == Timestamp(n)
           wrap == Wrapped(s, seq)
           newer == Newer(s, seq)
           cycles == IF wrap THEN s.numcycles + SeqNumbers ELSE s.numcycles
           ext == cycles + seq
           high == IF newer \/ wrap THEN ext ELSE s.exthighseqnr
           received == s.packetsreceived + 1
           new == s.numnewpackets + 1
           t == [s EXCEPT !.packetsreceived = received, !.numnewpackets = new,
                       !.numcycles = cycles, !.exthighseqnr = high,
                       !.prevtimestamp = ts]
<1>1. seq \in 0 .. SeqNumbers - 1 /\ ts \in 0 .. TsNumbers - 1
  BY NumbersFit
<1>2. r = [source |-> t, ext |-> ext, accept |-> TRUE]
  BY DEF Extend
<1> HIDE DEF seq, ts, wrap, newer
<1>3. cycles \in Nat /\ received \in Nat /\ new \in Nat
  BY StatsConstants DEF StatsRecord
<1> HIDE DEF cycles
<1>4. ext \in Nat
  BY <1>1, <1>3
<1> HIDE DEF ext
<1>5. high \in Nat
  BY <1>4 DEF StatsRecord
<1> HIDE DEF high, received, new
<1>6. /\ t \in StatsRecord /\ t.sentdata = s.sentdata /\ t.validated = s.validated
      /\ t.packetsreceived = received /\ t.numnewpackets = new
      /\ t.baseseqnr = s.baseseqnr /\ t.savedextseqnr = s.savedextseqnr
      /\ t.prevtimestamp = ts /\ t.numcycles = cycles /\ t.exthighseqnr = high
  BY <1>1, <1>3, <1>5 DEF StatsRecord
<1> HIDE DEF t
<1>7. r.source = t /\ r.ext = ext /\ r.accept = TRUE
  BY <1>2
<1>8. ext = cycles + seq
  BY DEF ext
<1>9. high = IF newer \/ wrap THEN ext ELSE s.exthighseqnr
  BY DEF high
<1> QED
  BY <1>4, <1>6, <1>7, <1>8, <1>9 DEF seq, ts, wrap, newer, cycles, received, new

\* A packet that is not from a cycle before the highest is extended to its number.
LEMMA Extended ==
    ASSUME NEW s \in StatsRecord, NEW n \in Nat, NEW m \in Nat, NEW o \in Int,
           InStep(s, m, o), ~Strays(n, m, o), n >= m - MaxLate, n <= m + MaxGap,
           NEW r, r = Extend(s, n)
    PROVE  /\ r.ext = n + o
           /\ InStep(r.source, IF n > m THEN n ELSE m, o)
<1> DEFINE S == SeqNumbers
<1>0. S \in Nat \ {0} /\ MaxGap \in Nat /\ MaxLate \in Nat /\ 2 * (MaxGap + MaxLate) < S
  BY StatsConstants
<1> HIDE DEF S
<1>1. PICK k \in Int : o = S * k
  <2>1. PICK q \in Int, z \in 0 .. S - 1 : o = S * q + z /\ o % S = z
    BY <1>0, ModIs
  <2>2. o % S = 0
    BY DEF Seq16, S, InStep
  <2>3. z = 0 /\ S * q \in Int
    BY <2>1, <2>2, <1>0
  <2> QED
    BY <2>1, <2>3
<1>19. n \in Int /\ m \in Int
  OBVIOUS
<1>20. PICK a \in Int, b \in 0 .. S - 1 : Split(n, S, a, b)
  BY <1>0, <1>19, SplitIs, Zenon
<1>2. n = S * a + b /\ n % S = b
  BY <1>20, <1>0, SplitOf DEF Split
<1>21. PICK c \in Int, d \in 0 .. S - 1 : Split(m, S, c, d)
  BY <1>0, <1>19, SplitIs, Zenon
<1>3. m = S * c + d /\ m % S = d
  BY <1>21, <1>0, SplitOf DEF Split
<1>4. /\ S * a \in Int /\ S * c \in Int /\ S * k \in Int
      /\ S * (a + k) = S * a + S * k /\ S * (c + k) = S * c + S * k
      /\ S * (c + 1) = S * c + S
  BY <1>0
<1>5. (n + o) \div S = a + k /\ (n + o) % S = b
  <2>1. Split(n + o, S, a + k, b)
    BY <1>1, <1>2, <1>4 DEF Split
  <2> QED
    BY <2>1, <1>0, SplitOf, Zenon
<1>6. (m + o) \div S = c + k /\ (m + o) % S = d
  <2>1. Split(m + o, S, c + k, d)
    BY <1>1, <1>3, <1>4 DEF Split
  <2> QED
    BY <2>1, <1>0, SplitOf, Zenon
<1>7. Seq16(n) = b /\ Seq16(s.exthighseqnr) = d /\ s.exthighseqnr = m + o
  BY <1>2, <1>6 DEF Seq16, S, InStep
<1>8. s.numcycles = S * c + S * k
  <2>1. s.numcycles = S * (c + k)
    BY <1>6 DEF S, InStep
  <2> QED
    BY <2>1, <1>4
<1>9. a = c \/ a = c + 1
  <2>1. CASE a < c
    <3>1. PICK e \in Nat : c = a + 1 + e
      <4>1. c - a - 1 \in Nat /\ c = a + 1 + (c - a - 1)
        BY <2>1
      <4> QED
        BY <4>1
    <3>2. S * c = S * a + S + S * e /\ S * e \in Nat
      BY <3>1, <1>0
    <3>3. n < m
      BY <3>2, <1>2, <1>3, <1>4, <1>0
    <3> QED
      BY <3>3, <2>1, <1>5, <1>6 DEF S, Strays
  <2>2. CASE a > c + 1
    <3>1. PICK e \in Nat : a = c + 2 + e
      <4>1. a - c - 2 \in Nat /\ a = c + 2 + (a - c - 2)
        BY <2>2
      <4> QED
        BY <4>1
    <3>2. S * a = S * c + 2 * S + S * e /\ S * e \in Nat
      BY <3>1, <1>0
    <3>3. n > m + S
      BY <3>2, <1>2, <1>3, <1>4, <1>0
    <3> QED
      BY <3>3, <1>0
  <2> QED
    BY <2>1, <2>2
<1>10. Newer(s, b) <=> b >= d
  BY <1>7 DEF Newer
<1>11. ASSUME b < d
       PROVE  Seq16(b - d) = S + b - d /\ Seq16(d - b) = d - b
  <2>1. Split(b - d, S, -1, S + b - d)
    BY <1>11, <1>0 DEF Split
  <2>2. Split(d - b, S, 0, d - b)
    BY <1>11, <1>0 DEF Split
  <2>3. (b - d) % S = S + b - d
    BY <2>1, <1>0, SplitOf, Zenon
  <2>4. (d - b) % S = d - b
    BY <2>2, <1>0, SplitOf, Zenon
  <2> QED
    BY <2>3, <2>4 DEF Seq16, S
<1>12. Wrapped(s, b) <=> b < d /\ Seq16(b - d) < Seq16(d - b)
  <2>1. Wrapped(s, b) <=> ~(b >= d) /\ Seq16(b - d) < Seq16(d - b)
    BY <1>7, <1>10 DEF Wrapped
  <2> QED
    BY <2>1, <1>0
<1>13. /\ r.ext = r.source.numcycles + b
       /\ r.source.numcycles = (IF Wrapped(s, b) THEN s.numcycles + S ELSE s.numcycles)
       /\ r.source.exthighseqnr = (IF Newer(s, b) \/ Wrapped(s, b)
                                         THEN r.ext ELSE s.exthighseqnr)
  <2>1. /\ r.ext = r.source.numcycles + Seq16(n)
        /\ r.source.numcycles = (IF Wrapped(s, Seq16(n)) THEN s.numcycles + SeqNumbers
                                                        ELSE s.numcycles)
        /\ r.source.exthighseqnr = (IF Newer(s, Seq16(n)) \/ Wrapped(s, Seq16(n))
                                      THEN r.ext ELSE s.exthighseqnr)
    <3>1. r.ext = r.source.numcycles + Seq16(n)
      BY Extending
    <3>2. r.source.numcycles = (IF Wrapped(s, Seq16(n)) THEN s.numcycles + SeqNumbers
                                                        ELSE s.numcycles)
      BY Extending
    <3>3. r.source.exthighseqnr = (IF Newer(s, Seq16(n)) \/ Wrapped(s, Seq16(n))
                                      THEN r.ext ELSE s.exthighseqnr)
      BY Extending
    <3> QED
      BY <3>1, <3>2, <3>3, Zenon
  <2> QED
    BY <2>1, <1>7 DEF S
<1>17. Seq16(o) = 0
  BY DEF InStep
<1>18. s.numcycles = S * ((m + o) \div S)
  BY DEF InStep, S
<1>14. CASE a = c /\ b >= d
  <2>1. Newer(s, b) /\ ~Wrapped(s, b)
    BY <1>14, <1>10, <1>12
  <2>2. r.ext = n + o /\ r.source.exthighseqnr = n + o /\ n >= m /\ r.source.numcycles = S * (a + k)
    BY <2>1, <1>13, <1>8, <1>14, <1>1, <1>2, <1>3, <1>4
  <2>3. (IF n > m THEN n ELSE m) = n
    BY <2>2
  <2>4. r.source.numcycles = S * (r.source.exthighseqnr \div S)
    BY <2>2, <1>5
  <2> QED
    BY <2>2, <2>3, <2>4, <1>17 DEF S, InStep
<1>15. CASE a = c /\ b < d
  <2>1. d - b <= MaxLate /\ n < m
    BY <1>15, <1>2, <1>3, <1>4, <1>0
  <2>2. ~Newer(s, b) /\ ~Wrapped(s, b)
    BY <2>1, <1>15, <1>10, <1>11, <1>12, <1>0
  <2>3. r.ext = n + o /\ r.source.exthighseqnr = m + o /\ r.source.numcycles = s.numcycles
    BY <2>2, <1>13, <1>8, <1>15, <1>1, <1>2, <1>4, <1>7
  <2>4. (IF n > m THEN n ELSE m) = m
    BY <2>1
  <2>5. r.source.numcycles = S * (r.source.exthighseqnr \div S)
    BY <2>3, <1>18
  <2> QED
    BY <2>3, <2>4, <2>5, <1>17 DEF S, InStep
<1>16. CASE a = c + 1
  <2>1. n = m + S + b - d /\ b < d
    BY <1>16, <1>2, <1>3, <1>4, <1>0
  <2>2. S + b - d <= MaxGap /\ d - b > MaxGap
    BY <2>1, <1>0
  <2>3. Wrapped(s, b)
    BY <2>1, <2>2, <1>11, <1>12, <1>0
  <2>4. r.ext = n + o /\ r.source.exthighseqnr = n + o /\ n > m /\ r.source.numcycles = S * (a + k)
    BY <2>1, <2>3, <1>13, <1>8, <1>16, <1>1, <1>2, <1>3, <1>4, <1>0
  <2>5. (IF n > m THEN n ELSE m) = n
    BY <2>4
  <2>6. r.source.numcycles = S * (r.source.exthighseqnr \div S)
    BY <2>4, <1>5
  <2> QED
    BY <2>4, <2>5, <2>6, <1>17 DEF S, InStep
<1> QED
  BY <1>9, <1>14, <1>15, <1>16

\* The step of the timestamp that the jitter is computed from is the true one.
LEMMA TimestampSteps ==
    ASSUME NEW n \in Int, NEW m \in Int, n - m <= MaxGap + MaxLate, m - n <= MaxGap + MaxLate
    PROVE  TimestampDiff(Timestamp(n), Timestamp(m)) = TsStep * (n - m)
<1> DEFINE N == TsNumbers
           G == MaxGap + MaxLate
           Q == N \div 16
           a == TsFirst + TsStep * n
           b == TsFirst + TsStep * m
<1>0. /\ N \in Nat \ {0} /\ TsStep \in Nat \ {0} /\ TsFirst \in Nat /\ G \in Nat
      /\ TsStep * G < Q
  BY StatsConstants
<1>1. Q \in Nat /\ 16 * Q <= N
  BY <1>0
<1> HIDE DEF N, G, Q
<1>2. a \in Int /\ b \in Int
  BY <1>0
<1>15. a - b = TsStep * (n - m)
  BY <1>0
<1>3. TsStep * (n - m) \in Int /\ TsStep * (n - m) < Q /\ -(TsStep * (n - m)) < Q
  <2>1. PICK x \in Nat : n - m = G - x
    <3>1. G - (n - m) \in Nat
      BY <1>0 DEF G
    <3>2. n - m = G - (G - (n - m))
      BY <1>0
    <3> QED
      BY <3>1, <3>2
  <2>2. PICK y \in Nat : n - m = y - G
    <3>1. G + (n - m) \in Nat
      BY <1>0 DEF G
    <3>2. n - m = (G + (n - m)) - G
      BY <1>0
    <3> QED
      BY <3>1, <3>2
  <2>3. TsStep * (n - m) = TsStep * G - TsStep * x /\ TsStep * x \in Nat /\ TsStep * G \in Nat
    BY <2>1, <1>0
  <2>4. TsStep * (n - m) = TsStep * y - TsStep * G /\ TsStep * y \in Nat
    BY <2>2, <1>0
  <2> QED
    BY <2>3, <2>4, <1>0, <1>1
<1> DEFINE D == TsStep * (n - m)
<1>16. PICK e \in Int, u \in 0 .. N - 1 : Split(a, N, e, u)
  BY <1>0, <1>2, SplitIs, Zenon
<1>4. a = N * e + u /\ a % N = u
  BY <1>16, <1>0, SplitOf DEF Split
<1>17. PICK f \in Int, v \in 0 .. N - 1 : Split(b, N, f, v)
  BY <1>0, <1>2, SplitIs, Zenon
<1>5. b = N * f + v /\ b % N = v
  BY <1>17, <1>0, SplitOf DEF Split
<1>6. Timestamp(n) = u /\ Timestamp(m) = v
  BY <1>4, <1>5 DEF Timestamp, N
<1> HIDE DEF a, b
<1>7. D \in Int /\ D = N * e + u - (N * f + v) /\ D < Q /\ -D < Q
  <2>1. D \in Int /\ D < Q /\ -D < Q /\ D = a - b
    BY <1>15, <1>3
  <2> HIDE DEF D
  <2> QED
    BY <2>1, <1>4, <1>5, <1>16, <1>17, <1>0 DEF Split
<1> HIDE DEF D
<1>8. N * e \in Int /\ N * f \in Int /\ N * (e - f) = N * e - N * f /\ N * (f - e) = N * f - N * e
  BY <1>0
<1>9. ASSUME D >= 0
      PROVE  (u - v) % N = D
  <2>1. Split(u - v, N, f - e, D)
    BY <1>9, <1>7, <1>8, <1>1, <1>0 DEF Split
  <2> QED
    BY <2>1, <1>0, SplitOf, Zenon
<1>10. ASSUME D > 0
       PROVE  (v - u) % N = N - D
  <2>1. N * (e - f - 1) = N * e - N * f - N
    BY <1>0, <1>8
  <2>2. Split(v - u, N, e - f - 1, N - D)
    BY <2>1, <1>10, <1>7, <1>8, <1>1, <1>0 DEF Split
  <2> QED
    BY <2>2, <1>0, SplitOf, Zenon
<1>11. ASSUME D <= 0
       PROVE  (v - u) % N = -D
  <2>1. Split(v - u, N, e - f, -D)
    BY <1>11, <1>7, <1>8, <1>1, <1>0 DEF Split
  <2> QED
    BY <2>1, <1>0, SplitOf, Zenon
<1>12. ASSUME D < 0
       PROVE  (u - v) % N = N + D
  <2>1. N * (f - e - 1) = N * f - N * e - N
    BY <1>0, <1>8
  <2>2. Split(u - v, N, f - e - 1, N + D)
    BY <2>1, <1>12, <1>7, <1>8, <1>1, <1>0 DEF Split
  <2> QED
    BY <2>2, <1>0, SplitOf, Zenon
<1>13. TimestampDiff(u, v) =
         IF u > v THEN IF (u - v) % N < Q THEN (u - v) % N ELSE -((v - u) % N)
         ELSE IF (v - u) % N < Q THEN -((v - u) % N) ELSE (u - v) % N
  BY DEF TimestampDiff, N, Q
<1>14. TimestampDiff(u, v) = D
  <2>1. CASE D > 0
    <3>1. (u - v) % N = D /\ (v - u) % N = N - D /\ ~(N - D < Q)
      BY <2>1, <1>1, <1>7, <1>9, <1>10, <1>0
    <3> QED
      BY <3>1, <1>7, <1>13
  <2>2. CASE D < 0
    <3>1. (u - v) % N = N + D /\ (v - u) % N = -D /\ ~(N + D < Q)
      BY <2>2, <1>1, <1>7, <1>11, <1>12, <1>0
    <3> QED
      BY <3>1, <1>7, <1>13
  <2>3. CASE D = 0
    <3>1. (u - v) % N = 0 /\ (v - u) % N = 0
      BY <2>3, <1>9, <1>11
    <3> QED
      BY <3>1, <2>3, <1>7, <1>13
  <2> QED
    BY <2>1, <2>2, <2>3, <1>7
<1> QED
  BY <1>6, <1>14 DEF D

-----------------------------------------------------------------------------
(* The queue of the packets that wait *)

\* A packet between the first i of a queue and the others.
Spliced(q, p, i) == SubSeq(q, 1, i) \o <<p>> \o SubSeq(q, i + 1, Len(q))

LEMMA Splicing ==
    ASSUME NEW T, NEW q \in Seq(T), NEW p \in T, NEW i \in 0 .. Len(q)
    PROVE  /\ Spliced(q, p, i) \in Seq(T) /\ Len(Spliced(q, p, i)) = Len(q) + 1
           /\ \A j \in 1 .. Len(q) + 1 :
                Spliced(q, p, i)[j] = IF j <= i THEN q[j] ELSE IF j = i + 1 THEN p ELSE q[j - 1]
<1> DEFINE a == SubSeq(q, 1, i)
           b == SubSeq(q, i + 1, Len(q))
           m == a \o <<p>>
<1>0. Len(q) \in Nat
  OBVIOUS
<1>1. a \in Seq(T) /\ Len(a) = i /\ \A j \in 1 .. i : a[j] = q[j]
  OBVIOUS
<1>2. b \in Seq(T) /\ Len(b) = Len(q) - i /\ \A j \in 1 .. Len(q) - i : b[j] = q[i + j]
  <2>1. b \in Seq(T) /\ Len(b) = Len(q) - i
    OBVIOUS
  <2>2. ASSUME NEW j \in 1 .. Len(q) - i PROVE b[j] = q[i + j]
    <3>1. b[j] = q[i + 1 + j - 1]
      OBVIOUS
    <3> QED
      BY <3>1
  <2> QED
    BY <2>1, <2>2
<1>3. Spliced(q, p, i) = m \o b
  BY DEF Spliced
<1> HIDE DEF a, b
<1>4. m \in Seq(T) /\ Len(m) = i + 1 /\ m[i + 1] = p /\ \A j \in 1 .. i : m[j] = q[j]
  BY <1>1
<1> HIDE DEF m
<1>5. m \o b \in Seq(T) /\ Len(m \o b) = Len(q) + 1
  BY <1>0, <1>2, <1>4
<1>6. ASSUME NEW j \in 1 .. Len(q) + 1
      PROVE  (m \o b)[j] = IF j <= i THEN q[j] ELSE IF j = i + 1 THEN p ELSE q[j - 1]
  <2>1. CASE j <= i
    BY <2>1, <1>0, <1>1, <1>2, <1>4, <1>5
  <2>2. CASE j = i + 1
    BY <2>2, <1>0, <1>1, <1>2, <1>4, <1>5
  <2>3. CASE j > i + 1
    <3>1. (m \o b)[j] = b[j - (i + 1)]
      BY <2>3, <1>0, <1>2, <1>4, <1>5
    <3>2. j - (i + 1) \in 1 .. Len(q) - i /\ i + (j - (i + 1)) = j - 1
      BY <2>3, <1>0
    <3>3. b[j - (i + 1)] = q[j - 1]
      BY <3>2, <1>2
    <3>4. ~(j <= i) /\ j # i + 1
      BY <2>3, <1>0
    <3> QED
      BY <3>1, <3>3, <3>4
  <2>4. j <= i \/ j = i + 1 \/ j > i + 1
    BY <1>0
  <2>5. j <= i => j # i + 1
    BY <1>0
  <2> QED
    BY <2>1, <2>2, <2>3, <2>4, <2>5, Zenon
<1> QED
  BY <1>3, <1>5, <1>6

LEMMA WaitingHas ==
    ASSUME NEW q \in Seq(WaitingPackets)
    PROVE  /\ Len(q) \in Nat /\ DOMAIN q = 1 .. Len(q)
           /\ \A k \in 1 .. Len(q) : q[k] \in WaitingPackets /\ q[k].ext \in Nat /\ q[k].packet \in Nat
<1>1. Len(q) \in Nat /\ DOMAIN q = 1 .. Len(q)
  OBVIOUS
<1>2. ASSUME NEW k \in 1 .. Len(q)
      PROVE  q[k] \in WaitingPackets /\ q[k].ext \in Nat /\ q[k].packet \in Nat
  <2>1. q[k] \in WaitingPackets
    OBVIOUS
  <2> QED
    BY <2>1, StatsConstants DEF WaitingPackets
<1> QED
  BY <1>1, <1>2

\* A packet goes to the place of its number, if no other has that number.
LEMMA Inserting ==
    ASSUME NEW q \in Seq(WaitingPackets), Sorted(q), NEW p \in WaitingPackets, NEW u, u = Insert(q, p)
    PROVE  /\ u \in Seq(WaitingPackets) /\ Sorted(u) /\ Len(u) <= Len(q) + 1
           /\ \A j \in DOMAIN u : u[j] = p \/ \E k \in DOMAIN q : u[j] = q[k]
<1> DEFINE below == {i \in DOMAIN q : q[i].ext <= p.ext}
           most == CHOOSE j \in below : \A k \in below : k <= j
           i == IF below = {} THEN 0 ELSE most
<1>0. /\ Len(q) \in Nat /\ DOMAIN q = 1 .. Len(q) /\ p.ext \in Nat
      /\ \A k \in 1 .. Len(q) : q[k].ext \in Nat
  BY WaitingHas DEF WaitingPackets
<1>1. u = IF i > 0 /\ q[i].ext = p.ext THEN q ELSE Spliced(q, p, i)
  BY DEF Insert, Spliced
<1>2. below # {} => most \in below /\ \A k \in below : k <= most
  <2> SUFFICES ASSUME below # {} PROVE most \in below /\ \A k \in below : k <= most
    OBVIOUS
  <2>1. below \in SUBSET (1 .. Len(q))
    BY <1>0
  <2> HIDE DEF below
  <2>2. Max(below) \in below /\ \A y \in below : Max(below) >= y
    BY <2>1, <1>0, MaxOf
  <2>3. \A k \in below : k <= Max(below)
    BY <2>1, <2>2, <1>0
  <2> QED
    BY <2>2, <2>3
<1> HIDE DEF most
<1>3. i \in 0 .. Len(q)
  BY <1>0, <1>2
<1>4. i > 0 => q[i].ext <= p.ext
  BY <1>0, <1>2
<1>5. \A k \in 1 .. Len(q) : k > i => q[k].ext > p.ext
  <2> SUFFICES ASSUME NEW k \in 1 .. Len(q), k > i, ~(q[k].ext > p.ext) PROVE FALSE
    OBVIOUS
  <2>1. k \in below
    BY <1>0
  <2>2. k <= i
    BY <2>1, <1>2
  <2> QED
    BY <2>2, <1>3
<1> HIDE DEF i
<1>6. CASE i > 0 /\ q[i].ext = p.ext
  <2>1. u = q
    BY <1>1, <1>6
  <2> QED
    BY <2>1, <1>0
<1>7. CASE ~(i > 0 /\ q[i].ext = p.ext)
  <2> DEFINE s == Spliced(q, p, i)
  <2>1. /\ s \in Seq(WaitingPackets) /\ Len(s) = Len(q) + 1
        /\ \A j \in 1 .. Len(q) + 1 :
             s[j] = IF j <= i THEN q[j] ELSE IF j = i + 1 THEN p ELSE q[j - 1]
    BY <1>3, Splicing
  <2>2. u = s
    BY <1>1, <1>7
  <2> HIDE DEF s
  <2>3. \A k \in 1 .. Len(q) : k <= i => q[k].ext < p.ext
    <3> SUFFICES ASSUME NEW k \in 1 .. Len(q), k <= i PROVE q[k].ext < p.ext
      OBVIOUS
    <3>1. i \in 1 .. Len(q) /\ q[i].ext < p.ext
      BY <1>0, <1>3, <1>4, <1>7
    <3>2. k < i => q[k].ext < q[i].ext
      BY <3>1, <1>0 DEF Sorted
    <3>3. k = i \/ k < i
      BY <3>1
    <3> QED
      BY <3>1, <3>2, <3>3, <1>0
  <2>4. ASSUME NEW j \in 1 .. Len(q) + 1, NEW k \in 1 .. Len(q) + 1, j < k
        PROVE  s[j].ext < s[k].ext
    <3>1. CASE k <= i
      <4>1. s[j] = q[j] /\ s[k] = q[k] /\ j \in 1 .. Len(q) /\ k \in 1 .. Len(q)
        BY <3>1, <2>1, <2>4, <1>3, <1>0
      <4> QED
        BY <4>1, <2>4, <1>0 DEF Sorted
    <3>2. CASE k = i + 1
      <4>1. s[j] = q[j] /\ s[k] = p /\ j \in 1 .. Len(q) /\ j <= i
        BY <3>2, <2>1, <2>4, <1>3, <1>0
      <4> QED
        BY <4>1, <2>3
    <3>3. CASE k > i + 1
      <4>1. s[k] = q[k - 1] /\ k - 1 \in 1 .. Len(q) /\ k - 1 > i
        BY <3>3, <2>1, <1>3, <1>0
      <4>2. CASE j <= i
        <5>1. s[j] = q[j] /\ j \in 1 .. Len(q) /\ j < k - 1
          BY <4>2, <3>3, <2>1, <1>3, <1>0
        <5> QED
          BY <5>1, <4>1, <1>0 DEF Sorted
      <4>3. CASE j = i + 1
        <5>1. s[j] = p
          BY <4>3, <2>1, <1>3, <1>0
        <5> QED
          BY <5>1, <4>1, <1>5, <1>0
      <4>4. CASE j > i + 1
        <5>1. s[j] = q[j - 1] /\ j - 1 \in 1 .. Len(q) /\ j - 1 < k - 1
          BY <4>4, <2>1, <2>4, <1>3, <1>0
        <5> QED
          BY <5>1, <4>1, <1>0 DEF Sorted
      <4> QED
        BY <4>2, <4>3, <4>4, <1>3
    <3> QED
      BY <3>1, <3>2, <3>3, <1>3
  <2>5. DOMAIN s = 1 .. Len(q) + 1
    BY <2>1
  <2>6. Sorted(s)
    BY <2>4, <2>5 DEF Sorted
  <2>7. ASSUME NEW j \in DOMAIN s PROVE s[j] = p \/ \E k \in DOMAIN q : s[j] = q[k]
    <3>1. CASE j <= i
      <4>1. s[j] = q[j] /\ j \in DOMAIN q
        BY <3>1, <2>1, <2>5, <1>0, <1>3
      <4> QED
        BY <4>1
    <3>2. CASE j = i + 1
      BY <3>2, <2>1, <2>5, <1>3
    <3>3. CASE j > i + 1
      <4>1. s[j] = q[j - 1] /\ j - 1 \in DOMAIN q
        BY <3>3, <2>1, <2>5, <1>0, <1>3
      <4> QED
        BY <4>1
    <3> QED
      BY <3>1, <3>2, <3>3, <2>5, <1>3
  <2> QED
    BY <2>1, <2>2, <2>6, <2>7, <1>0
<1> QED
  BY <1>6, <1>7

\* The first packet is taken or dropped.
LEMMA Shortening ==
    ASSUME NEW q \in Seq(WaitingPackets), Sorted(q), q # <<>>
    PROVE  /\ Tail(q) \in Seq(WaitingPackets) /\ Sorted(Tail(q)) /\ Len(Tail(q)) = Len(q) - 1
           /\ \A j \in DOMAIN Tail(q) : \E k \in DOMAIN q : Tail(q)[j] = q[k]
<1>1. Len(q) \in Nat \ {0} /\ DOMAIN q = 1 .. Len(q) /\ \A k \in 1 .. Len(q) : q[k].ext \in Nat
  BY WaitingHas
<1>2. /\ Tail(q) \in Seq(WaitingPackets) /\ Len(Tail(q)) = Len(q) - 1
      /\ DOMAIN Tail(q) = 1 .. Len(q) - 1
  OBVIOUS
<1>3. \A j \in 1 .. Len(q) - 1 : Tail(q)[j] = q[j + 1] /\ j + 1 \in 1 .. Len(q)
  BY <1>1
<1>4. Sorted(Tail(q))
  <2> SUFFICES ASSUME NEW i \in DOMAIN Tail(q), NEW j \in DOMAIN Tail(q), i < j
               PROVE  Tail(q)[i].ext < Tail(q)[j].ext
    BY DEF Sorted
  <2>1. i + 1 < j + 1 /\ i + 1 \in DOMAIN q /\ j + 1 \in DOMAIN q
    BY <1>1, <1>2
  <2>2. q[i + 1].ext < q[j + 1].ext
    BY <2>1 DEF Sorted
  <2> QED
    BY <2>2, <1>2, <1>3
<1> QED
  BY <1>1, <1>2, <1>3, <1>4

-----------------------------------------------------------------------------
(* Every action keeps the invariant *)

LEMMA NotesFit ==
    ASSUME NEW h \in HistoryRecord, NEW w \in BOOLEAN, NEW s \in BOOLEAN, NEW d \in Int, NEW e \in Int,
           NEW n \in Nat
    PROVE  [h EXCEPT !.wrapped = w, !.strayed = s, !.step = d, !.true = e, !.previous = n]
             \in HistoryRecord
<1> DEFINE a == [h EXCEPT !.wrapped = w]
           b == [a EXCEPT !.strayed = s]
           c == [b EXCEPT !.step = d]
           f == [c EXCEPT !.true = e]
<1>1. a \in HistoryRecord
  BY DEF HistoryRecord
<1> HIDE DEF a
<1>2. b \in HistoryRecord
  BY <1>1 DEF HistoryRecord
<1> HIDE DEF b
<1>3. c \in HistoryRecord
  BY <1>2 DEF HistoryRecord
<1> HIDE DEF c
<1>4. f \in HistoryRecord
  BY <1>3 DEF HistoryRecord
<1> HIDE DEF f
<1>5. [f EXCEPT !.previous = n] \in HistoryRecord
  BY <1>4 DEF HistoryRecord
<1> QED
  BY <1>5 DEF a, b, c, f

\* What is noted when a packet was stored.
LEMMA Noting ==
    ASSUME history \in HistoryRecord, NEW n \in Nat, NEW r, r.ext \in Nat, Note(n, r),
           source.sentdata \in BOOLEAN, r.accept \in BOOLEAN, source.prevtimestamp \in Int
    PROVE  /\ history' \in HistoryRecord
           /\ history'.previous = n /\ history'.lost = history.lost
           /\ ~source.sentdata =>
                /\ history'.offset = (IF r.accept THEN r.ext - n ELSE history.offset)
                /\ history'.strayed = history.strayed
                /\ history'.step = 0 /\ history'.true = 0
                /\ history'.wrapped <=>
                     \/ history.wrapped
                     \/ r.accept /\ \E i \in DOMAIN waiting :
                          (waiting[i].packet + history'.offset) \div SeqNumbers # 0
           /\ source.sentdata =>
                /\ history'.offset = history.offset /\ history'.wrapped = history.wrapped
                /\ history'.strayed <=> history.strayed \/ Strays(n, newest, history.offset)
                /\ history'.step = TimestampDiff(Timestamp(n), source.prevtimestamp)
                /\ history'.true = TsStep * (n - history.previous)
<1> DEFINE accepted == r.accept /\ ~source.sentdata
           h == IF accepted THEN [history EXCEPT !.offset = r.ext - n] ELSE history
           far == accepted /\ \E i \in DOMAIN waiting : Cycle(waiting[i].packet, h) # 0
           back == source.sentdata /\ n < newest /\ Cycle(n, h) < Cycle(newest, h)
           step == IF source.sentdata THEN TimestampDiff(Timestamp(n), source.prevtimestamp) ELSE 0
           true == IF source.sentdata THEN TsStep * (n - h.previous) ELSE 0
<1>1. history' = [h EXCEPT !.wrapped = @ \/ far, !.strayed = @ \/ back,
                           !.step = step, !.true = true, !.previous = n]
  BY DEF Note
<1>2. /\ h \in HistoryRecord /\ h.lost = history.lost /\ h.previous = history.previous
      /\ h.strayed = history.strayed /\ h.wrapped = history.wrapped
      /\ h.offset = (IF accepted THEN r.ext - n ELSE history.offset)
  BY DEF HistoryRecord
<1>3. \A x : Cycle(x, h) = (x + h.offset) \div SeqNumbers
  BY DEF Cycle
<1> HIDE DEF h
<1>4. far \in BOOLEAN /\ back \in BOOLEAN
  OBVIOUS
<1>5. step \in Int /\ true \in Int
  <2>1. h.previous \in Int /\ TsStep * (n - h.previous) \in Int
    BY <1>2, StatsConstants DEF HistoryRecord
  <2>2. TimestampDiff(Timestamp(n), source.prevtimestamp) \in Int
    <3>1. Timestamp(n) \in Int
      BY NumbersFit
    <3>2. \A d \in Int : d % TsNumbers \in Int
      BY StatsConstants, ModIs
    <3> QED
      BY <3>1, <3>2 DEF TimestampDiff
  <2> QED
    BY <2>1, <2>2
<1> DEFINE w == h.wrapped \/ far
           s == h.strayed \/ back
<1>6. w \in BOOLEAN /\ s \in BOOLEAN
  OBVIOUS
<1>7. history' = [h EXCEPT !.wrapped = w, !.strayed = s, !.step = step, !.true = true, !.previous = n]
  BY <1>1
<1>8. (w <=> history.wrapped \/ far) /\ (s <=> history.strayed \/ back)
  BY <1>2
<1> HIDE DEF w, s
<1>9. far <=> accepted /\ \E i \in DOMAIN waiting : (waiting[i].packet + h.offset) \div SeqNumbers # 0
  BY <1>3
<1>10. back <=> source.sentdata /\ Strays(n, newest, h.offset)
  BY <1>3 DEF Strays
<1>11. source.sentdata => step = TimestampDiff(Timestamp(n), source.prevtimestamp)
                          /\ true = TsStep * (n - history.previous)
  BY <1>2
<1>12. ~source.sentdata => step = 0 /\ true = 0
  OBVIOUS
<1> HIDE DEF far, back, step, true
<1>13. /\ history' \in HistoryRecord /\ history'.previous = n /\ history'.lost = h.lost
       /\ history'.offset = h.offset /\ history'.step = step /\ history'.true = true
       /\ history'.wrapped = w /\ history'.strayed = s
  <2>0. h \in HistoryRecord
    BY <1>2
  <2>1. history' \in HistoryRecord
    BY <2>0, <1>5, <1>6, <1>7, NotesFit
  <2>2. /\ history'.previous = n /\ history'.lost = h.lost
        /\ history'.offset = h.offset /\ history'.step = step /\ history'.true = true
    BY <2>0, <1>7 DEF HistoryRecord
  <2>3. history'.wrapped = w
    BY <2>0, <1>7, <1>6 DEF HistoryRecord
  <2>4. history'.strayed = s
    BY <2>0, <1>7, <1>6 DEF HistoryRecord
  <2> QED
    BY <2>1, <2>2, <2>3, <2>4
<1>14. CASE ~source.sentdata
  <2>1. history'.step = 0 /\ history'.true = 0
    BY <1>12, <1>13, <1>14
  <2>2. history'.offset = (IF r.accept THEN r.ext - n ELSE history.offset)
    BY <1>2, <1>13, <1>14
  <2>3. s = history.strayed
    BY <1>6, <1>8, <1>10, <1>14 DEF HistoryRecord
  <2>4. w <=> \/ history.wrapped
              \/ r.accept /\ \E i \in DOMAIN waiting :
                   (waiting[i].packet + history'.offset) \div SeqNumbers # 0
    BY <1>8, <1>9, <1>13, <1>14
  <2> QED
    BY <1>2, <1>13, <1>14, <2>1, <2>2, <2>3, <2>4
<1>15. CASE source.sentdata
  <2>1. history'.offset = history.offset
    BY <1>2, <1>13, <1>15
  <2>2. w = history.wrapped
    BY <1>6, <1>8, <1>9, <1>15 DEF HistoryRecord
  <2>3. s <=> history.strayed \/ Strays(n, newest, history.offset)
    BY <1>8, <1>10, <1>15, <2>1, <1>13
  <2> QED
    BY <1>2, <1>11, <1>13, <1>15, <2>1, <2>2, <2>3
<1> QED
  BY <1>14, <1>15

\* The distance of the first accepted packet: a number of whole cycles.
LEMMA Distance ==
    ASSUME NEW n \in Nat, NEW e, e = (IF Seq16(n) = 0 THEN SeqNumbers ELSE Seq16(n)),
           NEW c, c = (IF Seq16(n) = 0 THEN SeqNumbers ELSE 0)
    PROVE  e - n \in Int /\ Seq16(e - n) = 0 /\ c = SeqNumbers * (e \div SeqNumbers)
<1> DEFINE S == SeqNumbers
<1>0. S \in Nat \ {0} /\ n \in Int
  BY StatsConstants
<1> HIDE DEF S
<1>1. PICK a \in Int, b \in 0 .. S - 1 : Split(n, S, a, b)
  BY <1>0, SplitIs, Zenon
<1>2. n = S * a + b /\ Seq16(n) = b /\ S * a \in Int
  BY <1>1, <1>0, SplitOf DEF Split, Seq16, S
<1>3. S * (1 - a) = S - S * a /\ S * (-a) = -(S * a)
  BY <1>0
<1>4. CASE b = 0
  <2>1. e = S /\ c = S
    BY <1>2, <1>4 DEF S
  <2>2. Split(e - n, S, 1 - a, 0) /\ Split(e, S, 1, 0)
    BY <2>1, <1>0, <1>2, <1>3, <1>4 DEF Split
  <2>3. (e - n) % S = 0 /\ e \div S = 1
    BY <2>2, <1>0, SplitOf, Zenon
  <2> QED
    BY <2>1, <2>3, <1>0 DEF Seq16, S
<1>5. CASE b # 0
  <2>1. e = b /\ c = 0
    BY <1>2, <1>5 DEF S
  <2>2. Split(e - n, S, -a, 0) /\ Split(e, S, 0, b)
    BY <2>1, <1>0, <1>2, <1>3 DEF Split
  <2>3. (e - n) % S = 0 /\ e \div S = 0
    BY <2>2, <1>0, SplitOf, Zenon
  <2> QED
    BY <2>1, <2>3, <1>0 DEF Seq16, S
<1> QED
  BY <1>4, <1>5

\* What waited on probation has its number, if it is of the cycle of the first.
LEMMA SameNumber ==
    ASSUME NEW n \in Nat, NEW o \in Int, Seq16(o) = 0, (n + o) \div SeqNumbers = 0
    PROVE  Seq16(n) = n + o
<1> DEFINE S == SeqNumbers
<1>0. S \in Nat \ {0} /\ n + o \in Int
  BY StatsConstants
<1> HIDE DEF S
<1>1. PICK a \in Int, b \in 0 .. S - 1 : Split(n + o, S, a, b)
  BY <1>0, SplitIs, Zenon
<1>2. PICK c \in Int, d \in 0 .. S - 1 : Split(o, S, c, d)
  BY <1>0, SplitIs, Zenon
<1>3. (n + o) \div S = a /\ o % S = d
  BY <1>1, <1>2, <1>0, SplitOf, Zenon
<1>4. a = 0 /\ d = 0
  BY <1>3 DEF S, Seq16
<1>5. n + o = b /\ o = S * c /\ S * (-c) = -(S * c) /\ S * c \in Int
  BY <1>4, <1>1, <1>2, <1>0 DEF Split
<1>6. Split(n, S, -c, b)
  BY <1>5, <1>0 DEF Split
<1>7. n % S = b
  BY <1>6, <1>0, SplitOf, Zenon
<1> QED
  BY <1>5, <1>7 DEF S, Seq16

\* What the queue is when a packet was stored: it fits, and its numbers are those
\* of the packets that waited and of the one that came.
LEMMA Queueing ==
    ASSUME waiting \in Seq(WaitingPackets), Sorted(waiting), NEW s \in StatsRecord,
           Len(waiting) <= MaxWaiting,
           s.validated => Len(waiting) < MaxWaiting,
           ~s.validated => Len(waiting) <= ProbationPackets,
           NEW p \in WaitingPackets, waiting' = Insert(Shorten(waiting, s), p)
    PROVE  /\ waiting' \in Seq(WaitingPackets) /\ Sorted(waiting')
           /\ Len(waiting') <= (IF s.validated THEN MaxWaiting ELSE ProbationPackets)
           /\ \A j \in DOMAIN waiting' : \/ waiting'[j] = p
                                         \/ \E k \in DOMAIN waiting : waiting'[j] = waiting[k]
<1> DEFINE q == Shorten(waiting, s)
           most == IF s.validated THEN MaxWaiting ELSE ProbationPackets
<1>1. Len(waiting) \in Nat /\ ProbationPackets \in Nat \ {0} /\ MaxWaiting \in Nat
  BY StatsConstants
<1>2. /\ q \in Seq(WaitingPackets) /\ Sorted(q) /\ Len(q) + 1 <= most
      /\ \A j \in DOMAIN q : \E k \in DOMAIN waiting : q[j] = waiting[k]
  <2>1. CASE ~s.validated /\ Len(waiting) = ProbationPackets
    <3>1. q = Tail(waiting) /\ waiting # <<>>
      BY <2>1, <1>1 DEF Shorten
    <3>2. /\ Tail(waiting) \in Seq(WaitingPackets) /\ Sorted(Tail(waiting))
          /\ Len(Tail(waiting)) = Len(waiting) - 1
          /\ \A j \in DOMAIN Tail(waiting) : \E k \in DOMAIN waiting : Tail(waiting)[j] = waiting[k]
      BY <3>1, Shortening
    <3>3. Len(Tail(waiting)) + 1 <= most
      BY <3>2, <2>1, <1>1
    <3> HIDE DEF q, most
    <3> QED
      BY <3>1, <3>2, <3>3
  <2>2. CASE ~(~s.validated /\ Len(waiting) = ProbationPackets)
    <3>1. q = waiting
      BY <2>2 DEF Shorten
    <3>2. Len(waiting) + 1 <= most
      BY <2>2, <1>1
    <3> HIDE DEF q, most
    <3> QED
      BY <3>1, <3>2
  <2> QED
    BY <2>1, <2>2
<1> HIDE DEF q
<1>3. waiting' = Insert(q, p)
  BY DEF q
<1>4. /\ waiting' \in Seq(WaitingPackets) /\ Sorted(waiting') /\ Len(waiting') <= Len(q) + 1
      /\ \A j \in DOMAIN waiting' : waiting'[j] = p \/ \E k \in DOMAIN q : waiting'[j] = q[k]
  BY <1>2, <1>3, Inserting
<1>5. Len(waiting') \in Nat /\ Len(q) \in Nat /\ most \in Nat
  BY <1>1, <1>2, <1>4
<1>6. Len(waiting') <= most
  BY <1>2, <1>4, <1>5
<1>7. ASSUME NEW j \in DOMAIN waiting'
      PROVE  waiting'[j] = p \/ \E k \in DOMAIN waiting : waiting'[j] = waiting[k]
  BY <1>2, <1>4
<1> QED
  BY <1>4, <1>6, <1>7

\* A packet is stored: while the source is on probation, when it is accepted, later.
LEMMA Storing ==
    ASSUME StatsInv, NEW n \in 0 .. LastPacket, StorePacket(n),
           source.validated => Len(waiting) < MaxWaiting,
           source.sentdata => n \in newest - MaxLate .. newest + MaxGap
    PROVE  StatsInv'
<1>0. /\ source \in StatsRecord /\ history \in HistoryRecord
      /\ waiting \in Seq(WaitingPackets) /\ Sorted(waiting)
      /\ newest \in -1 .. LastPacket
      /\ Len(waiting) <= (IF source.validated THEN MaxWaiting ELSE ProbationPackets)
      /\ ~source.sentdata => Probing
      /\ source.sentdata => Extending16
      /\ n \in Nat
  BY StatsConstants DEF StatsInv
<1> DEFINE r == ProcessPacket(source, n)
           p == [packet |-> n, ext |-> r.ext]
<1>1. /\ source' = r.source
      /\ waiting' = Insert(Shorten(waiting, r.source), p)
      /\ newest' = IF n > newest \/ (r.accept /\ ~source.sentdata) THEN n ELSE newest
      /\ Note(n, r)
  BY DEF StorePacket
<1>2. source.sentdata \in BOOLEAN /\ source.prevtimestamp \in Int /\ source.validated \in BOOLEAN
  BY StatsConstants DEF StatsRecord, StatsInv
<1>3. newest' \in -1 .. LastPacket /\ newest' # -1
  BY <1>1, <1>0, StatsConstants
<1> HIDE DEF r
<1>4. ASSUME r.source \in StatsRecord, r.ext \in Nat, source.validated => r.source.validated
      PROVE  /\ waiting' \in Seq(WaitingPackets) /\ Sorted(waiting')
             /\ Len(waiting') <= (IF r.source.validated THEN MaxWaiting ELSE ProbationPackets)
             /\ \A j \in DOMAIN waiting' : \/ waiting'[j] = p
                                           \/ \E k \in DOMAIN waiting : waiting'[j] = waiting[k]
  <2>1. p \in WaitingPackets
    BY <1>4 DEF WaitingPackets
  <2>2. Len(waiting) <= MaxWaiting
    BY <1>0, StatsConstants
  <2>3. r.source.validated => Len(waiting) < MaxWaiting
    BY <1>0, StatsConstants
  <2>4. ~r.source.validated => Len(waiting) <= ProbationPackets
    BY <1>0, <1>4
  <2> HIDE DEF p
  <2> QED
    BY <1>0, <1>1, <1>4, <2>1, <2>2, <2>3, <2>4, Queueing
<1>5. CASE ~source.sentdata
  <2>1. Probing /\ source.numcycles = 0
    BY <1>0, <1>5 DEF Probing
  <2>2. r = Probe(source, n)
    BY <1>5 DEF r, ProcessPacket
  <2> DEFINE t == r.source
  <2>3. /\ t \in StatsRecord /\ r.accept \in BOOLEAN /\ t.sentdata = r.accept
        /\ ~r.accept => /\ t.validated = source.validated /\ ~source.validated /\ r.ext = Seq16(n)
                        /\ t.numcycles = 0
                        /\ t.packetsreceived = source.packetsreceived
                        /\ t.numnewpackets = source.numnewpackets
        /\ r.accept => /\ t.validated /\ r.ext = t.exthighseqnr
                       /\ t.packetsreceived = source.packetsreceived + 1
                       /\ t.numnewpackets = source.numnewpackets + 1
                       /\ t.savedextseqnr = t.baseseqnr
                       /\ t.prevtimestamp = Timestamp(n)
                       /\ r.ext = (IF Seq16(n) = 0 THEN SeqNumbers ELSE Seq16(n))
                       /\ t.numcycles = (IF Seq16(n) = 0 THEN SeqNumbers ELSE 0)
    BY <1>0, <1>5, <2>1, <2>2, Probes
  <2> HIDE DEF t
  <2>4. r.ext \in Nat
    <3>1. Seq16(n) \in Nat /\ SeqNumbers \in Nat
      BY <1>0, NumbersFit, StatsConstants
    <3>2. r.ext = Seq16(n) \/ r.ext = SeqNumbers
      BY <2>3
    <3> QED
      BY <3>1, <3>2
  <2>5. /\ waiting' \in Seq(WaitingPackets) /\ Sorted(waiting')
        /\ Len(waiting') <= (IF t.validated THEN MaxWaiting ELSE ProbationPackets)
        /\ \A j \in DOMAIN waiting' : \/ waiting'[j] = p
                                      \/ \E k \in DOMAIN waiting : waiting'[j] = waiting[k]
    <3>1. r.source \in StatsRecord /\ (source.validated => r.source.validated)
      BY <2>3 DEF t
    <3> QED
      BY <3>1, <2>4, <1>4 DEF t
  <2>6. source' = t
    BY <1>1 DEF t
  <2>7. /\ history' \in HistoryRecord
        /\ history'.previous = n /\ history'.lost = history.lost
        /\ history'.offset = (IF r.accept THEN r.ext - n ELSE history.offset)
        /\ history'.strayed = history.strayed
        /\ history'.step = 0 /\ history'.true = 0
        /\ history'.wrapped <=>
             \/ history.wrapped
             \/ r.accept /\ \E i \in DOMAIN waiting :
                  (waiting[i].packet + history'.offset) \div SeqNumbers # 0
    BY <1>0, <1>1, <1>2, <1>5, <2>3, <2>4, Noting
  <2>8. CASE ~r.accept
    <3>1. AsSent(waiting')
      <4> SUFFICES ASSUME NEW j \in DOMAIN waiting' PROVE waiting'[j].ext = Seq16(waiting'[j].packet)
        BY DEF AsSent
      <4>1. CASE waiting'[j] = p
        BY <4>1, <2>3, <2>8
      <4>2. ASSUME NEW k \in DOMAIN waiting, waiting'[j] = waiting[k]
            PROVE  waiting'[j].ext = Seq16(waiting'[j].packet)
        BY <4>2, <2>1 DEF Probing, AsSent
      <4> QED
        BY <4>1, <4>2, <2>5
    <3>2. Probing'
      BY <3>1, <2>1, <2>3, <2>6, <2>7, <2>8 DEF Probing
    <3>3. ~source'.sentdata
      BY <2>3, <2>6, <2>8
    <3> QED
      BY <3>2, <3>3, <1>3, <2>3, <2>5, <2>6, <2>7 DEF StatsInv
  <2>9. CASE r.accept
    <3> DEFINE o == r.ext - n
    <3>1. o \in Int /\ Seq16(o) = 0 /\ t.numcycles = SeqNumbers * (r.ext \div SeqNumbers)
      BY <1>0, <2>3, <2>9, Distance
    <3>2. history'.offset = o /\ newest' = n
      BY <2>7, <2>9, <1>1, <1>5
    <3>3. r.ext = n + o
      BY <2>4, <1>0
    <3> HIDE DEF o
    <3>4. InStep(t, n, o)
      BY <3>1, <3>3, <2>3, <2>9 DEF InStep
    <3>5. ASSUME ~history'.wrapped PROVE AsNumbered(waiting', o)
      <4> SUFFICES ASSUME NEW j \in DOMAIN waiting' PROVE waiting'[j].ext = waiting'[j].packet + o
        BY DEF AsNumbered
      <4>1. CASE waiting'[j] = p
        BY <4>1, <3>3
      <4>2. ASSUME NEW k \in DOMAIN waiting, waiting'[j] = waiting[k]
            PROVE  waiting'[j].ext = waiting'[j].packet + o
        <5>1. (waiting[k].packet + o) \div SeqNumbers = 0
          BY <2>7, <2>9, <3>2, <3>5
        <5>2. waiting[k].packet \in Nat
          BY <1>0, WaitingHas
        <5>3. Seq16(waiting[k].packet) = waiting[k].packet + o
          BY <5>1, <5>2, <3>1, SameNumber
        <5>4. waiting[k].ext = Seq16(waiting[k].packet)
          BY <2>1 DEF Probing, AsSent
        <5> QED
          BY <4>2, <5>3, <5>4
      <4> QED
        BY <4>1, <4>2, <2>5
    <3>6. n \in newest' - MaxLate .. newest'
      BY <3>2, <1>0, StatsConstants
    <3>7. t.savedextseqnr \in Nat /\ t.numnewpackets = t.packetsreceived /\ t.packetsreceived \in Nat
      BY <2>1, <2>3, <2>9 DEF Probing, StatsRecord
    <3>8. history'.lost = t.savedextseqnr - t.baseseqnr - (t.packetsreceived - t.numnewpackets)
      <4>1. history'.lost = 0 /\ t.savedextseqnr = t.baseseqnr
        BY <2>1, <2>3, <2>7, <2>9 DEF Probing
      <4> QED
        BY <3>7, <4>1
    <3>9. Extending16'
      <4>1. newest' >= 0
        BY <3>2, <1>0
      <4>2. source'.validated /\ source'.prevtimestamp = Timestamp(n) /\ history'.step = history'.true
        BY <2>3, <2>6, <2>7, <2>9
      <4> QED
        BY <4>1, <4>2, <3>2, <3>4, <3>5, <3>6, <3>8, <2>6, <2>7 DEF Extending16
    <3>10. source'.sentdata /\ source'.validated
      BY <2>3, <2>6, <2>9
    <3> QED
      BY <3>9, <3>10, <1>3, <2>3, <2>5, <2>6, <2>7 DEF StatsInv
  <2> QED
    BY <2>8, <2>9
<1>6. CASE source.sentdata
  <2>1. Extending16
    BY <1>0, <1>6
  <2>2. r = Extend(source, n)
    BY <1>6 DEF r, ProcessPacket
  <2> DEFINE t == r.source
  <2>3. /\ t \in StatsRecord /\ r.accept = TRUE /\ r.ext \in Nat
        /\ t.sentdata <=> source.sentdata
        /\ t.validated <=> source.validated
        /\ t.packetsreceived = source.packetsreceived + 1
        /\ t.numnewpackets = source.numnewpackets + 1
        /\ t.baseseqnr = source.baseseqnr /\ t.savedextseqnr = source.savedextseqnr
        /\ t.prevtimestamp = Timestamp(n)
    <3>0. source \in StatsRecord /\ n \in Nat
      BY <1>0
    <3>1. r.source \in StatsRecord
      BY <3>0, <2>2, Extending
    <3>2. r.accept = TRUE
      BY <2>2 DEF Extend
    <3>3. r.ext \in Nat
      BY <3>0, <2>2, Extending
    <3>4. r.source.sentdata <=> source.sentdata
      BY <3>0, <2>2, Extending
    <3>5. r.source.validated <=> source.validated
      BY <3>0, <2>2, Extending
    <3>6. r.source.packetsreceived = source.packetsreceived + 1 /\ r.source.numnewpackets = source.numnewpackets + 1
      BY <3>0, <2>2, Extending
    <3>7. r.source.baseseqnr = source.baseseqnr /\ r.source.savedextseqnr = source.savedextseqnr
      BY <3>0, <2>2, Extending
    <3>8. r.source.prevtimestamp = Timestamp(n)
      BY <3>0, <2>2, Extending
    <3> QED
      BY <3>1, <3>2, <3>3, <3>4, <3>5, <3>6, <3>7, <3>8 DEF t
  <2> HIDE DEF t
  <2>5. /\ waiting' \in Seq(WaitingPackets) /\ Sorted(waiting')
        /\ Len(waiting') <= (IF t.validated THEN MaxWaiting ELSE ProbationPackets)
        /\ \A j \in DOMAIN waiting' : \/ waiting'[j] = p
                                      \/ \E k \in DOMAIN waiting : waiting'[j] = waiting[k]
    <3>1. r.source \in StatsRecord /\ (source.validated => r.source.validated)
      BY <2>3 DEF t
    <3> QED
      BY <3>1, <2>3, <1>4 DEF t
  <2>6. source' = t
    BY <1>1 DEF t
  <2>7. /\ history' \in HistoryRecord
        /\ history'.previous = n /\ history'.lost = history.lost
        /\ history'.offset = history.offset /\ history'.wrapped = history.wrapped
        /\ history'.strayed <=> history.strayed \/ Strays(n, newest, history.offset)
        /\ history'.step = TimestampDiff(Timestamp(n), source.prevtimestamp)
        /\ history'.true = TsStep * (n - history.previous)
    BY <1>0, <1>1, <1>2, <1>6, <2>3, Noting
  <2>8. newest \in Nat /\ newest' = (IF n > newest THEN n ELSE newest) /\ newest' >= 0
    BY <2>1, <1>0, <1>1, <1>6 DEF Extending16
  <2>9. history.offset \in Int /\ history.previous \in newest - MaxLate .. newest
    BY <2>1, <1>0 DEF Extending16, HistoryRecord
  <2>10. n >= newest - MaxLate /\ n <= newest + MaxGap
    BY <1>6, <1>0, <2>8, StatsConstants
  <2>11. history'.step = history'.true
    <3>1. n - history.previous <= MaxGap + MaxLate /\ history.previous - n <= MaxGap + MaxLate
      BY <2>8, <2>9, <2>10, <1>0, StatsConstants
    <3>2. n \in Int /\ history.previous \in Int
      BY <1>0, <2>8, <2>9, StatsConstants
    <3>3. TimestampDiff(Timestamp(n), Timestamp(history.previous)) = TsStep * (n - history.previous)
      BY <3>1, <3>2, TimestampSteps
    <3> QED
      BY <3>3, <2>1, <2>7 DEF Extending16
  <2>12. n \in newest' - MaxLate .. newest'
    BY <2>8, <2>10, <1>0, StatsConstants
  <2>13. history'.lost = t.savedextseqnr - t.baseseqnr - (t.packetsreceived - t.numnewpackets)
    <3>1. /\ source.savedextseqnr \in Nat /\ source.baseseqnr \in Nat
          /\ source.packetsreceived \in Nat /\ source.numnewpackets \in Nat
      BY <1>0 DEF StatsRecord
    <3>2. history.lost = source.savedextseqnr - source.baseseqnr
                         - (source.packetsreceived - source.numnewpackets)
      BY <2>1 DEF Extending16
    <3>3. /\ t.savedextseqnr = source.savedextseqnr /\ t.baseseqnr = source.baseseqnr
          /\ t.packetsreceived = source.packetsreceived + 1
          /\ t.numnewpackets = source.numnewpackets + 1
          /\ history'.lost = history.lost
      BY <2>3, <2>7
    <3> QED
      BY SMTT(40), <3>1, <3>2, <3>3
  <2>14. ASSUME ~history'.strayed
         PROVE  /\ InStep(t, newest', history.offset)
                /\ ~history'.wrapped => AsNumbered(waiting', history.offset)
    <3>1. ~history.strayed /\ ~Strays(n, newest, history.offset)
      BY <2>7, <2>14
    <3>2. InStep(source, newest, history.offset)
      BY <3>1, <2>1 DEF Extending16
    <3> DEFINE o == history.offset
    <3>3. r.ext = n + o /\ InStep(r.source, IF n > newest THEN n ELSE newest, o)
      <4> HIDE DEF o
      <4> QED
        BY <3>1, <3>2, <2>2, <2>8, <2>9, <2>10, <1>0, Extended DEF o
    <3>4. ASSUME ~history'.wrapped PROVE AsNumbered(waiting', o)
      <4>1. AsNumbered(waiting, o)
        BY <3>1, <3>4, <2>1, <2>7 DEF Extending16
      <4> SUFFICES ASSUME NEW j \in DOMAIN waiting' PROVE waiting'[j].ext = waiting'[j].packet + o
        BY DEF AsNumbered
      <4>2. CASE waiting'[j] = p
        BY <4>2, <3>3
      <4>3. ASSUME NEW k \in DOMAIN waiting, waiting'[j] = waiting[k]
            PROVE  waiting'[j].ext = waiting'[j].packet + o
        BY <4>1, <4>3 DEF AsNumbered
      <4> QED
        BY <4>2, <4>3, <2>5
    <3> QED
      BY <3>3, <3>4, <2>8 DEF t
  <2>15. source'.sentdata /\ source'.validated
    BY <2>1, <2>3, <2>6, <1>6 DEF Extending16
  <2>16. Extending16'
    BY <2>3, <2>6, <2>7, <2>8, <2>11, <2>12, <2>13, <2>14, <2>15 DEF Extending16
  <2> QED
    BY <1>3, <2>3, <2>5, <2>6, <2>7, <2>15, <2>16 DEF StatsInv
<1> QED
  BY <1>5, <1>6

\* A report block was made: what the interval lost is counted.
LEMMA NewInterval ==
    ASSUME StatsInv, INF_StartNewInterval
    PROVE  StatsInv'
<1>0. /\ source \in StatsRecord /\ history \in HistoryRecord /\ source.sentdata /\ Extending16
      /\ waiting' = waiting /\ newest' = newest
  BY DEF StatsInv, INF_StartNewInterval
<1> DEFINE t == [source EXCEPT !.numnewpackets = 0, !.savedextseqnr = source.exthighseqnr]
           lost == history.lost + IntervalLost(source)
           h == [history EXCEPT !.lost = lost]
<1>1. source' = t /\ history' = h
  BY DEF INF_StartNewInterval
<1>2. /\ t \in StatsRecord /\ t.sentdata = source.sentdata /\ t.validated = source.validated
      /\ t.numnewpackets = 0 /\ t.savedextseqnr = source.exthighseqnr
      /\ t.exthighseqnr = source.exthighseqnr /\ t.numcycles = source.numcycles
      /\ t.baseseqnr = source.baseseqnr /\ t.packetsreceived = source.packetsreceived
      /\ t.prevtimestamp = source.prevtimestamp
  BY <1>0 DEF StatsRecord
<1>3. /\ source.exthighseqnr \in Nat /\ source.savedextseqnr \in Nat /\ source.baseseqnr \in Nat
      /\ source.packetsreceived \in Nat /\ source.numnewpackets \in Nat
  BY <1>0 DEF StatsRecord
<1>4. lost \in Int
        /\ lost = source.exthighseqnr - source.baseseqnr - source.packetsreceived
  <2>1. history.lost = source.savedextseqnr - source.baseseqnr
                       - (source.packetsreceived - source.numnewpackets)
    BY <1>0 DEF Extending16
  <2> QED
    BY <2>1, <1>3 DEF IntervalLost
<1> HIDE DEF t, lost
<1>5. /\ h \in HistoryRecord /\ h.lost = lost
      /\ h.offset = history.offset /\ h.step = history.step /\ h.true = history.true
      /\ h.previous = history.previous
      /\ h.strayed = history.strayed /\ h.wrapped = history.wrapped
  BY <1>0, <1>4 DEF HistoryRecord
<1> HIDE DEF h
<1>6. h.lost = t.savedextseqnr - t.baseseqnr - (t.packetsreceived - t.numnewpackets)
  BY <1>2, <1>3, <1>4, <1>5
<1>7. InStep(source, newest, history.offset) => InStep(t, newest, history.offset)
  BY <1>2 DEF InStep
<1>8. Extending16'
  BY <1>0, <1>1, <1>2, <1>5, <1>6, <1>7 DEF Extending16
<1>9. source'.sentdata /\ source'.validated = source.validated
  BY <1>0, <1>1, <1>2
<1> QED
  BY <1>0, <1>1, <1>2, <1>5, <1>8, <1>9 DEF StatsInv

\* The application takes the first packet.
LEMMA Taking ==
    ASSUME StatsInv, TakePacket
    PROVE  StatsInv'
<1>1. /\ waiting \in Seq(WaitingPackets) /\ Sorted(waiting) /\ waiting # <<>>
      /\ waiting' = Tail(waiting) /\ source' = source /\ newest' = newest /\ history' = history
  BY DEF StatsInv, TakePacket
<1>2. /\ waiting' \in Seq(WaitingPackets) /\ Sorted(waiting') /\ Len(waiting') = Len(waiting) - 1
      /\ \A j \in DOMAIN waiting' : \E k \in DOMAIN waiting : waiting'[j] = waiting[k]
  BY <1>1, Shortening
<1>3. Len(waiting') <= (IF source'.validated THEN MaxWaiting ELSE ProbationPackets)
  <2>1. Len(waiting) \in Nat /\ Len(waiting) <= (IF source.validated THEN MaxWaiting ELSE ProbationPackets)
    BY <1>1 DEF StatsInv
  <2> QED
    BY <2>1, <1>1, <1>2, StatsConstants
<1>4. AsSent(waiting) => AsSent(waiting')
  BY <1>2 DEF AsSent
<1>5. AsNumbered(waiting, history.offset) => AsNumbered(waiting', history.offset)
  BY <1>2 DEF AsNumbered
<1>6. Probing => Probing'
  BY <1>1, <1>4 DEF Probing
<1>7. Extending16 => Extending16'
  BY <1>1, <1>5 DEF Extending16
<1> QED
  BY <1>1, <1>2, <1>3, <1>6, <1>7 DEF StatsInv

\* A CNAME validates a source on probation.
LEMMA Validating ==
    ASSUME StatsInv, ValidateByCNAME
    PROVE  StatsInv'
<1>0. source \in StatsRecord /\ ~source.validated
  BY DEF StatsInv, ValidateByCNAME
<1> DEFINE t == [source EXCEPT !.validated = TRUE]
<1>1. source' = t /\ waiting' = waiting /\ newest' = newest /\ history' = history
  BY DEF ValidateByCNAME
<1>2. /\ t \in StatsRecord /\ t.sentdata = source.sentdata /\ t.validated
      /\ t.numnewpackets = source.numnewpackets
      /\ t.numcycles = source.numcycles /\ t.packetsreceived = source.packetsreceived
  BY <1>0 DEF StatsRecord
<1> HIDE DEF t
<1>3. ~source.sentdata
  BY <1>0 DEF StatsInv, Extending16
<1>4. Probing'
  <2>1. Probing
    BY <1>3 DEF StatsInv
  <2> QED
    BY <2>1, <1>1, <1>2 DEF Probing
<1>5. Len(waiting') <= (IF source'.validated THEN MaxWaiting ELSE ProbationPackets)
  <2>1. Len(waiting) \in Nat /\ Len(waiting) <= ProbationPackets
    BY <1>0 DEF StatsInv
  <2> QED
    BY <2>1, <1>1, <1>2, StatsConstants
<1>6. ~source'.sentdata
  BY <1>1, <1>2, <1>3
<1> QED
  BY <1>1, <1>2, <1>4, <1>5, <1>6 DEF StatsInv

LEMMA StatsStarts ==
    ASSUME StatsInit
    PROVE  StatsInv
<1> USE DEF StatsInit
<1>1. source \in StatsRecord /\ history \in HistoryRecord /\ ~source.sentdata /\ ~source.validated
  BY StatsConstants DEF NewStats, NewHistory, StatsRecord, HistoryRecord
<1>2. waiting \in Seq(WaitingPackets) /\ Len(waiting) = 0 /\ DOMAIN waiting = {}
  OBVIOUS
<1>3. Sorted(waiting) /\ Probing
  BY <1>2 DEF Sorted, Probing, AsSent, NewStats, NewHistory
<1>4. newest \in -1 .. LastPacket /\ Len(waiting) <= ProbationPackets
  BY <1>2, StatsConstants
<1> QED
  BY <1>1, <1>2, <1>3, <1>4 DEF StatsInv

LEMMA StatsStep ==
    ASSUME StatsInv, StatsNext
    PROVE  StatsInv'
<1>1. CASE Arrive
  <2>1. PICK n \in (newest - MaxLate) .. (newest + MaxGap) : n \in 0 .. LastPacket /\ StorePacket(n)
    BY <1>1 DEF Arrive
  <2>2. source.validated => Len(waiting) < MaxWaiting
    BY <1>1 DEF Arrive
  <2> QED
    BY <2>1, <2>2, Storing
<1>2. CASE ArriveFirst
  <2>1. PICK n \in FirstPackets : newest = -1 /\ StorePacket(n)
    BY <1>2 DEF ArriveFirst
  <2>2. n \in 0 .. LastPacket
    BY <2>1, StatsConstants
  <2>3. ~source.sentdata /\ Len(waiting) = 0
    BY <2>1 DEF StatsInv
  <2>4. Len(waiting) < MaxWaiting
    BY <2>3, StatsConstants
  <2> QED
    BY <2>1, <2>2, <2>3, <2>4, Storing
<1> QED
  BY <1>1, <1>2, NewInterval, Taking, Validating DEF StatsNext

LEMMA StatsQuiet ==
    ASSUME StatsInv, UNCHANGED statsVars
    PROVE  StatsInv'
BY DEF StatsInv, statsVars, Probing, Extending16

\* What it says of the numbers.
LEMMA StatsInvSays ==
    ASSUME StatsInv
    PROVE  StatsTypeOK /\ ArrivalsAreExact
<1>1. StatsTypeOK
  <2>1. Len(waiting) <= MaxWaiting
    <3>1. Len(waiting) \in Nat
             /\ Len(waiting) <= (IF source.validated THEN MaxWaiting ELSE ProbationPackets)
      BY DEF StatsInv
    <3> QED
      BY <3>1, StatsConstants
  <2> QED
    BY <2>1 DEF StatsInv, StatsTypeOK, StatsRecord
<1>2. ASSUME source.sentdata, ~history.strayed
      PROVE  /\ source.exthighseqnr = newest + history.offset
             /\ history.step = history.true
             /\ history.lost + IntervalLost(source) = CumulativeLost(source)
             /\ ~history.wrapped =>
                  \A i, j \in DOMAIN waiting : i < j => waiting[i].packet < waiting[j].packet
  <2>1. Extending16 /\ source \in StatsRecord /\ history \in HistoryRecord
        /\ waiting \in Seq(WaitingPackets) /\ Sorted(waiting)
    BY <1>2 DEF StatsInv
  <2>2. source.exthighseqnr = newest + history.offset /\ history.step = history.true
    BY <1>2, <2>1 DEF Extending16, InStep
  <2>3. history.lost + IntervalLost(source) = CumulativeLost(source)
    <3>1. /\ source.exthighseqnr \in Nat /\ source.savedextseqnr \in Nat /\ source.baseseqnr \in Nat
          /\ source.packetsreceived \in Nat /\ source.numnewpackets \in Nat
      BY <2>1 DEF StatsRecord
    <3>2. history.lost = source.savedextseqnr - source.baseseqnr
                         - (source.packetsreceived - source.numnewpackets)
      BY <2>1 DEF Extending16
    <3> QED
      BY <3>1, <3>2 DEF IntervalLost, CumulativeLost
  <2>4. ASSUME ~history.wrapped, NEW i \in DOMAIN waiting, NEW j \in DOMAIN waiting, i < j
        PROVE  waiting[i].packet < waiting[j].packet
    <3>1. AsNumbered(waiting, history.offset)
      BY <1>2, <2>1, <2>4 DEF Extending16
    <3>2. waiting[i].ext < waiting[j].ext
      BY <2>1, <2>4 DEF Sorted
    <3>3. waiting[i].packet \in Nat /\ waiting[j].packet \in Nat /\ history.offset \in Int
      BY <2>1, WaitingHas DEF HistoryRecord
    <3>4. /\ waiting[i].ext = waiting[i].packet + history.offset
          /\ waiting[j].ext = waiting[j].packet + history.offset
      BY <3>1 DEF AsNumbered
    <3> QED
      BY <3>2, <3>3, <3>4
  <2> QED
    BY <2>2, <2>3, <2>4
<1> QED
  BY <1>1, <1>2 DEF ArrivalsAreExact
-----------------------------------------------------------------------------
(* JThread *)

ThreadSpec == ThreadInit /\ [][ThreadNext]_threadVars

Late == {"told", "end", "gone"}

\* Whoever has not yet told is the thread of the Start that runs, and has
\* continuemutex2 from "set" on, so that Start cannot take it; and as long as no
\* cancelled thread came to its end, running belongs to the owner's thread.
OwnerInv ==
    /\ owner.pc \in {"poll", "wait2", "return"} => owner.thread \in Threads
    /\ owner.thread \in Threads => at[owner.thread] # "no"
    /\ owner.thread = Nobody => ~running
    /\ owner.pc = "create" => owner.thread = Nobody
    /\ owner.pc = "wait2" => at[owner.thread] \notin {"lock2", "set"}
EarlyInv ==
    \A t \in Threads :
       /\ at[t] \in {"lock2", "set"} => owner.pc = "poll" /\ owner.thread = t /\ ~running
       /\ at[t] \in {"set", "gate", "body"} => continuemutex2 = t
       /\ at[t] \in {"gate", "body"} => owner.pc \in {"poll", "wait2"} /\ owner.thread = t
CancelledInv == \A t \in cancelled : at[t] \in Late
RunningInv ==
    ~outlived =>
       /\ \A t \in Threads \ cancelled : Alive(t) => owner.thread = t /\ running
       /\ running => owner.thread \in Threads \ cancelled /\ Alive(owner.thread)
ThreadInv == ThreadTypeOK /\ OwnerInv /\ EarlyInv /\ CancelledInv /\ RunningInv

\* No thread was created yet.
LEMMA InitHasIt == ThreadInit => ThreadInv
PROOF
  <1> SUFFICES ASSUME ThreadInit PROVE ThreadInv
    OBVIOUS
  <1>1. ThreadTypeOK
    BY DEF ThreadInit, ThreadTypeOK, ThreadPlaces
  <1>2. OwnerInv /\ EarlyInv /\ CancelledInv /\ RunningInv
    BY ThreadAssumption DEF ThreadInit, OwnerInv, EarlyInv, CancelledInv, RunningInv, Alive
  <1>3. QED
    BY <1>1, <1>2 DEF ThreadInv

\* A step of the owner keeps it: Start from its first test to its return, and Kill.
LEMMA OwnerKeepsIt ==
    ASSUME ThreadInv, StartRefused \/ StartBegins \/ OwnerInStart \/ Kill
    PROVE  ThreadInv'
PROOF
  <1> USE ThreadAssumption DEF ThreadInv, OwnerGoes, threadVars
  <1>1. CASE StartRefused
    BY <1>1 DEF StartRefused, ThreadTypeOK, OwnerInv, EarlyInv, CancelledInv, RunningInv, Alive
  <1>2. CASE StartBegins
    BY <1>2 DEF StartBegins, ThreadTypeOK, OwnerInv, EarlyInv, CancelledInv, RunningInv, Alive
  <1>3. CASE StartCreates
    <2>1. PICK t \in Threads : /\ at[t] = "no"
                               /\ at' = [at EXCEPT ![t] = "lock2"]
                               /\ owner' = [pc |-> "poll", thread |-> t]
      BY <1>3 DEF StartCreates
    <2>2. ThreadTypeOK'
      BY <1>3, <2>1 DEF StartCreates, ThreadTypeOK, ThreadPlaces
    <2>3. QED
      BY <1>3, <2>1, <2>2
      DEF StartCreates, ThreadTypeOK, ThreadPlaces, OwnerInv, EarlyInv, CancelledInv,
          RunningInv, Alive, Late
  <1>4. CASE StartFails
    BY <1>4 DEF StartFails, ThreadTypeOK, OwnerInv, EarlyInv, CancelledInv, RunningInv, Alive
  <1>5. CASE StartSeesRunning
    BY <1>5 DEF StartSeesRunning, ThreadTypeOK, OwnerInv, EarlyInv, CancelledInv, RunningInv, Alive
  <1>6. CASE StartLocks2
    BY <1>6 DEF StartLocks2, ThreadTypeOK, OwnerInv, EarlyInv, CancelledInv, RunningInv, Alive
  <1>7. CASE StartReturns
    BY <1>7 DEF StartReturns, ThreadTypeOK, ThreadPlaces, OwnerInv, EarlyInv, CancelledInv,
                RunningInv, Alive, Late
  <1>8. CASE Kill
    <2>1. owner.thread \in Threads /\ at[owner.thread] \in Late
      BY <1>8 DEF Kill, ThreadTypeOK, ThreadPlaces, OwnerInv, EarlyInv, Late
    <2>2. QED
      BY <1>8, <2>1 DEF Kill, ThreadTypeOK, OwnerInv, EarlyInv, CancelledInv, RunningInv, Alive
  <1>9. QED
    BY <1>1, <1>2, <1>3, <1>4, <1>5, <1>6, <1>7, <1>8 DEF OwnerInStart

\* So does a step of a thread, old or new.
LEMMA ThreadKeepsIt ==
    ASSUME ThreadInv, NEW t \in Threads,
           \/ ThreadLocks2(t) \/ ThreadSetsRunning(t) \/ ThreadPassesGate(t)
           \/ ThreadStarted(t) \/ ThreadDies(t) \/ ThreadReturns(t) \/ ThreadEnds(t)
    PROVE  ThreadInv'
PROOF
  <1> USE ThreadAssumption DEF ThreadInv
  <1>1. CASE ThreadLocks2(t)
    BY <1>1 DEF ThreadLocks2, ThreadTypeOK, ThreadPlaces, OwnerInv, EarlyInv, CancelledInv,
                RunningInv, Alive, Late
  <1>2. CASE ThreadSetsRunning(t)
    BY <1>2 DEF ThreadSetsRunning, ThreadTypeOK, ThreadPlaces, OwnerInv, EarlyInv, CancelledInv,
                RunningInv, Alive, Late
  <1>3. CASE ThreadPassesGate(t)
    BY <1>3 DEF ThreadPassesGate, ThreadTypeOK, ThreadPlaces, OwnerInv, EarlyInv, CancelledInv,
                RunningInv, Alive, Late
  <1>4. CASE ThreadStarted(t)
    BY <1>4 DEF ThreadStarted, ThreadTypeOK, ThreadPlaces, OwnerInv, EarlyInv, CancelledInv,
                RunningInv, Alive, Late
  <1>5. CASE ThreadDies(t)
    BY <1>5 DEF ThreadDies, ThreadTypeOK, ThreadPlaces, OwnerInv, EarlyInv, CancelledInv,
                RunningInv, Alive, Late
  <1>6. CASE ThreadReturns(t)
    BY <1>6 DEF ThreadReturns, ThreadTypeOK, ThreadPlaces, OwnerInv, EarlyInv, CancelledInv,
                RunningInv, Alive, Late
  <1>7. CASE ThreadEnds(t)
    <2>1. outlived' \in BOOLEAN /\ (~outlived' => ~outlived /\ t \notin cancelled)
      BY <1>7, Zenon DEF ThreadEnds
    <2>2. ThreadTypeOK'
      BY <1>7, <2>1 DEF ThreadEnds, ThreadTypeOK, ThreadPlaces
    <2>3. OwnerInv' /\ EarlyInv' /\ CancelledInv'
      BY <1>7 DEF ThreadEnds, ThreadTypeOK, OwnerInv, EarlyInv, CancelledInv, Late
    <2>4. RunningInv'
      BY <1>7, <2>1 DEF ThreadEnds, ThreadTypeOK, RunningInv, Alive
    <2>5. QED
      BY <2>2, <2>3, <2>4
  <1>8. QED
    BY <1>1, <1>2, <1>3, <1>4, <1>5, <1>6, <1>7

LEMMA NextKeepsIt == ASSUME ThreadInv, ThreadNext PROVE ThreadInv'
  BY OwnerKeepsIt, ThreadKeepsIt DEF ThreadNext

\* The invariant says what StartedIsStarted asks.
LEMMA InvariantSaysIt == ThreadInv => StartedIsStarted
  BY DEF ThreadInv, ThreadTypeOK, ThreadPlaces, OwnerInv, EarlyInv, RunningInv, StartedIsStarted, Alive

\* Start (JThread::Start) returns only once its thread has called ThreadStarted,
\* and running is true exactly while an object has a thread that was not
\* cancelled, unless a cancelled one came to its end: for any number of threads,
\* one after the other or still dying.
THEOREM StartSafety == ThreadSpec => []StartedIsStarted
PROOF
  <1>1. ThreadInv /\ [ThreadNext]_threadVars => ThreadInv'
    <2> SUFFICES ASSUME ThreadInv, [ThreadNext]_threadVars PROVE ThreadInv'
      OBVIOUS
    <2>1. CASE ThreadNext
      BY <2>1, NextKeepsIt
    <2>2. CASE UNCHANGED threadVars
      BY <2>2 DEF threadVars, ThreadInv, ThreadTypeOK, OwnerInv, EarlyInv, CancelledInv,
                  RunningInv, Alive
    <2>3. QED
      BY <2>1, <2>2
  <1>2. QED
    BY InitHasIt, InvariantSaysIt, <1>1, PTL DEF ThreadSpec
-----------------------------------------------------------------------------
(* Together *)

\* What the views send is what the handlers take.
LEMMA PacketsFit ==
    ASSUME NEW s \in Ssrcs, NEW p \in Rtp(s)
    PROVE  p \in Packets
<1> DEFINE r == IF s \in Sources THEN table.src[s] ELSE NewSource
           nexts == IF r.probation > 0 /\ ~r.validated THEN BOOLEAN ELSE {TRUE}
           dups == IF r.packets > 0 THEN BOOLEAN ELSE {FALSE}
           lists == {<<>>} \cup {<<c>> : c \in Ssrcs}
<1>1. p \in [ssrc : {s}, next : nexts, dup : dups, csrcs : lists]
  BY DEF Rtp
<1>2. nexts \subseteq BOOLEAN /\ dups \subseteq BOOLEAN
  OBVIOUS
<1>3. lists \subseteq Seq(Ssrcs)
  <2>1. <<>> \in Seq(Ssrcs)
    OBVIOUS
  <2>2. ASSUME NEW c \in Ssrcs PROVE <<c>> \in Seq(Ssrcs)
    OBVIOUS
  <2> QED
    BY <2>1, <2>2
<1> HIDE DEF nexts, dups, lists
<1>4. [ssrc : {s}, next : nexts, dup : dups, csrcs : lists] \subseteq Packets
  BY <1>2, <1>3 DEF Packets
<1> QED
  BY <1>1, <1>4

LEMMA ItemFits ==
    ASSUME NEW k \in {"sr", "rr", "priv", "name", "note", "cname", "bye"}, NEW s \in Ssrcs,
           NEW v \in Cnames \cup {NoName}
    PROVE  Item(k, s, v) \in ItemSet /\ <<Item(k, s, v)>> \in Seq(ItemSet)
<1>1. Item(k, s, v) \in ItemSet
  BY DEF Item, ItemSet
<1> QED
  BY <1>1

LEMMA ItemsFit ==
    ASSUME NEW s \in Ssrcs, NEW i \in Items(s)
    PROVE  <<i>> \in Seq(ItemSet) /\ <<i, Item("bye", s, NoName)>> \in Seq(ItemSet)
<1>1. i \in ItemSet
  <2>1. CASE \E k \in {"sr", "rr", "priv", "name", "note", "bye"} : i = Item(k, s, NoName)
    BY <2>1, ItemFits
  <2>2. CASE \E c \in Cnames : i = Item("cname", s, c)
    BY <2>2, ItemFits
  <2> QED
    BY <2>1, <2>2 DEF Items
<1>2. Item("bye", s, NoName) \in ItemSet
  BY ItemFits
<1> QED
  BY <1>1, <1>2

LEMMA SomeSenders == 1 \in Addresses /\ 1 \in Senders /\ 3 \in Senders
BY AddressesAssumption DEF Senders

LEMMA KindsKeep ==
    ASSUME SourceInv, Kinds
    PROVE  SourceInv'
<1>0. Remote \subseteq Ssrcs
  BY DEF Remote
<1>1. ASSUME NEW s \in Remote, NEW p \in Rtp(s), RtpArrives(p, 1) PROVE SourceInv'
  BY <1>0, <1>1, PacketsFit, SomeSenders, RtpKeeps
<1>2. ASSUME NEW s \in Remote, NEW i \in Items(s), RtcpArrives(<<i>>, 1) PROVE SourceInv'
  BY <1>0, <1>2, ItemsFit, SomeSenders, RtcpKeeps
<1>3. ASSUME NEW s \in Remote, NEW i \in Items(s), RtcpArrives(<<i, Item("bye", s, NoName)>>, 1)
      PROVE  SourceInv'
  BY <1>0, <1>3, ItemsFit, SomeSenders, RtcpKeeps
<1>4. ASSUME NEW s \in Remote, NEW k \in Stamps, Ages(s, k) PROVE SourceInv'
  BY <1>4, AgesKeeps
<1>5. ASSUME NEW s \in Remote, NEW i \in Items(s), RtcpFails(<<i>>, 1) PROVE SourceInv'
  BY <1>0, <1>5, ItemsFit, SomeSenders, RtcpFailsKeeps
<1> QED
  BY <1>1, <1>2, <1>3, <1>4, <1>5, TimeoutsKeep DEF Kinds

LEMMA AddrsKeep ==
    ASSUME SourceInv, Addrs
    PROVE  SourceInv'
<1>0. Remote \subseteq Ssrcs /\ "msg" \in Stamps
  BY DEF Remote, Stamps
<1>1. ASSUME NEW s \in Ssrcs, NEW a \in Senders, NEW p \in Rtp(s), RtpArrives(p, a) PROVE SourceInv'
  BY <1>1, PacketsFit, RtpKeeps
<1>2. ASSUME NEW s \in Ssrcs, NEW a \in Senders,
             RtcpArrives(<<Item("rr", s, NoName)>>, a) \/ RtcpFails(<<Item("rr", s, NoName)>>, a)
      PROVE  SourceInv'
  <2>1. <<Item("rr", s, NoName)>> \in Seq(ItemSet)
    BY ItemFits
  <2> QED
    BY <1>2, <2>1, RtcpKeeps, RtcpFailsKeeps
<1>3. ASSUME NEW s \in Ssrcs, NEW a \in Senders, NEW c \in Cnames,
             RtcpArrives(<<Item("cname", s, c)>>, a)
      PROVE  SourceInv'
  <2>1. <<Item("cname", s, c)>> \in Seq(ItemSet)
    BY ItemFits
  <2> QED
    BY <1>3, <2>1, RtcpKeeps
<1>4. ASSUME NEW s \in Remote, Ages(s, "msg") PROVE SourceInv'
  BY <1>0, <1>4, AgesKeeps
<1> QED
  BY <1>1, <1>2, <1>3, <1>4, AddressKeeps, TimeoutsKeep, DestroyKeeps DEF Addrs

LEMMA WalksKeep ==
    ASSUME SourceInv, Walks
    PROVE  SourceInv'
<1>0. Remote \subseteq Ssrcs /\ "msg" \in Stamps /\ "rtp" \in Stamps
  BY DEF Remote, Stamps
<1>1. ASSUME NEW s \in Remote, NEW p \in Rtp(s), RtpArrives(p, 1) PROVE SourceInv'
  BY <1>0, <1>1, PacketsFit, SomeSenders, RtpKeeps
<1>2. ASSUME NEW s \in Ssrcs, RtcpArrives(<<Item("rr", s, NoName)>>, 3) PROVE SourceInv'
  <2>1. <<Item("rr", s, NoName)>> \in Seq(ItemSet)
    BY ItemFits
  <2> QED
    BY <1>2, <2>1, SomeSenders, RtcpKeeps
<1>3. ASSUME NEW s, Ages(s, "rtp") \/ Ages(s, "msg") PROVE SourceInv'
  BY <1>0, <1>3, AgesKeeps
<1> QED
  BY <1>1, <1>2, <1>3, TimeoutsKeep, WalkKeeps DEF Walks

\* No view disturbs what the others keep.
LEMMA SourceQuiet == ASSUME SourceInv, UNCHANGED sourceVars PROVE SourceInv'
BY DEF SourceInv, sourceVars

LEMMA SchedQuiet == ASSUME SchedInv, UNCHANGED schedVars PROVE SchedInv'
BY DEF SchedInv, SchedulerTypeOK, NeverTooEarly, schedVars

LEMMA ThreadQuiet == ASSUME ThreadInv, UNCHANGED threadVars PROVE ThreadInv'
BY DEF threadVars, ThreadInv, ThreadTypeOK, OwnerInv, EarlyInv, CancelledInv, RunningInv, Alive

LEMMA SourceStep ==
    ASSUME SourceInv, [MembersNext]_mcVars
    PROVE  SourceInv'
<1>1. CASE SourcesNext
  BY <1>1, KindsKeep, AddrsKeep, WalksKeep DEF SourcesNext
<1>2. CASE UNCHANGED sourceVars
  BY <1>2, SourceQuiet
<1> QED
  BY <1>1, <1>2 DEF MembersNext, NextStats, NextHash, NextTimer, NextThread, mcVars

LEMMA HashMembers ==
    ASSUME HashInv, [MembersNext]_mcVars
    PROVE  HashInv' /\ [Ordered!AbstractNext]_(Ordered!tableVars)
<1>1. CASE KeyHashNext
  <2>1. HashNext
    BY <1>1 DEF KeyHashNext, HashNext, GotoFirstKey, GotoLastKey, GotoNextKey, GotoPreviousKey,
                GotoKey, HasKey, DeleteCurrentKey, DeleteKey, ClearKeys, AddKeyElement
  <2> QED
    BY <2>1, HashStep
<1>2. CASE UNCHANGED keyVars
  BY <1>2, HashStands DEF keyVars
<1> QED
  BY <1>1, <1>2 DEF MembersNext, SourcesNext, NextStats, NextHash, NextTimer, NextThread, mcVars

LEMMA MembersStart == MCInit => SourceInv /\ StatsInv /\ SchedInv /\ ThreadInv
BY SourceStarts, StatsStarts, SchedStarts, InitHasIt DEF MCInit

\* The counters of the source table, whatever packets, items, timeouts and
\* collisions come, from any number of participants: totalcount and sendercount
\* are what a count of its entries gives, and activecount is short of it by the
\* known sources that a list of contributors validated since the last walk.
THEOREM CountsSafety == MembersSpec => []CountsAgree
<1>1. SourceInv => CountsAgree
  BY SourceInvSays
<1> QED
  BY MembersStart, SourceStep, <1>1, PTL DEF MembersSpec

\* The addresses of a source (RTPInternalSourceData: rtpaddr, rtcpaddr) are of one
\* host, nobody gets an address into the own source, the application was told of the
\* sources there are and its cursor stands on one of them, for any addresses and hosts.
THEOREM HostsSafety == MembersSpec => []HostsAgree
<1>1. SourceInv => HostsAgree
  BY SourceInvSays
<1> QED
  BY MembersStart, SourceStep, <1>1, PTL DEF MembersSpec

\* The numbers a source's packets are extended to, the timestamp steps, the losses
\* of its report blocks and the order of its queue (RTPSourceStats::ProcessPacket,
\* RTPInternalSourceData::ProcessRTPPacket) are right for every width of the
\* numbers that the gaps of the network leave unambiguous.
THEOREM ArrivalsSafety == MembersSpec => []ArrivalsAreExact
<1>1. StatsInv => ArrivalsAreExact
  BY StatsInvSays
<1>2. StatsInv /\ [MembersNext]_mcVars => StatsInv'
  BY StatsStep, StatsQuiet
     DEF MembersNext, SourcesNext, NextStats, NextHash, NextTimer, NextThread, mcVars
<1> QED
  BY MembersStart, <1>1, <1>2, PTL DEF MembersSpec

\* The RTCP timer (RTCPScheduler::IsTime with timer reconsideration) never believes
\* that more time passed since the last RTCP packet than did.
THEOREM TimerSafety == MembersSpec => []NeverTooEarly
<1>1. SchedInv => NeverTooEarly
  BY DEF SchedInv
<1>2. SchedInv /\ [MembersNext]_mcVars => SchedInv'
  BY SchedStep, SchedQuiet
     DEF MembersNext, SourcesNext, NextStats, NextHash, NextTimer, NextThread, mcVars
<1> QED
  BY MembersStart, <1>1, <1>2, PTL DEF MembersSpec

\* The hash table the sources are kept in (RTPKeyHashTable) is, call by call, a table
\* that keeps its keys in order of arrival and whose cursor survives a deletion, for
\* any keys, buckets and hash function: AddElement, GotoElement and the rest find
\* exactly the keys there are, and an iteration misses none and repeats none.
THEOREM TableRefines == MembersSpec => TableSpec
<1>1. MCInit => HashInv /\ Ordered!AbstractInit
  BY HashStart DEF MCInit, KeyHashInit
<1>2. HashInv /\ [MembersNext]_mcVars => HashInv' /\ [Ordered!AbstractNext]_(Ordered!tableVars)
  BY HashMembers
<1> QED
  BY <1>1, <1>2, PTL DEF MembersSpec, TableSpec, Ordered!AbstractSpec

\* The variables of the five parts have their types, the stored pointers of the hash
\* table among them.
THEOREM MembersTypes == MembersSpec => []MembersTypeOK
<1> DEFINE Inv == SourceInv /\ StatsInv /\ HashInv /\ SchedInv /\ ThreadInv
<1>1. MCInit => Inv
  BY MembersStart, HashStart DEF MCInit, KeyHashInit
<1>2. Inv /\ [MembersNext]_mcVars => Inv'
  <2>1. SourceInv /\ [MembersNext]_mcVars => SourceInv'
    BY SourceStep
  <2>2. StatsInv /\ [MembersNext]_mcVars => StatsInv'
    BY StatsStep, StatsQuiet
       DEF MembersNext, SourcesNext, NextStats, NextHash, NextTimer, NextThread, mcVars
  <2>3. HashInv /\ [MembersNext]_mcVars => HashInv'
    BY HashMembers
  <2>4. SchedInv /\ [MembersNext]_mcVars => SchedInv'
    BY SchedStep, SchedQuiet
       DEF MembersNext, SourcesNext, NextStats, NextHash, NextTimer, NextThread, mcVars
  <2>5. ThreadInv /\ [MembersNext]_mcVars => ThreadInv'
    BY NextKeepsIt, ThreadQuiet
       DEF MembersNext, SourcesNext, NextStats, NextHash, NextTimer, NextThread, mcVars
  <2> QED
    BY <2>1, <2>2, <2>3, <2>4, <2>5
<1>3. Inv => MembersTypeOK
  BY SourceInvSays, StatsInvSays DEF SchedInv, HashInv, ThreadInv, MembersTypeOK
<1> QED
  BY <1>1, <1>2, <1>3, PTL DEF MembersSpec
=============================================================================
