------------------------ MODULE ReflexEngine_proofs ------------------------
(***************************************************************************)
(* Proofs about ReflexEngine.  ReflexInv is not inductive: the bound on    *)
(* fruitless runs needs the two counters of the loop breaker, which are    *)
(* within their limits unless the reflex is parked, and what the file of   *)
(* the last save knows of them.  EngineIInv says so:                       *)
(*  - a fruitless run is in the counters, but for one lost per crash       *)
(*    (RunsAreCounted);                                                    *)
(*  - the file lacks one run of a reflex at most, and then its cooldown    *)
(*    has just begun and it is not booked, so no second run can begin      *)
(*    before the debounced save (FileIsOneBehind);                         *)
(*  - a parked reflex is not booked (ParkedIsNotBooked), nor one that has  *)
(*    run and not rested (BookedHaveRested): the queue is pruned when a    *)
(*    reflex is parked, and the cooldown starts when it is given up.       *)
(* Only and InsertWithPriority walk a sequence; what they keep is shown    *)
(* from the least index at which it would fail.                            *)
(***************************************************************************)
EXTENDS ReflexEngine, SequenceTheorems, WellFoundedInduction, TLAPS

\* A nonempty set of numbers has a least one, and, below a bound, a greatest.
LEMMA LeastExists ==
  ASSUME NEW T, T \subseteq Nat, T /= {}
  PROVE  \E x \in T : \A y \in T : x <= y
<1> DEFINE R == OpToRel(<, Nat)
<1>1. IsWellFoundedOn(R, Nat)
  BY NatLessThanWellFounded
<1>2. \A x, y \in Nat : <<y, x>> \in R <=> y < x
  BY DEF OpToRel
<1> HIDE DEF R
<1>3. \E x \in T : \A y \in T : <<y, x>> \notin R
  BY <1>1, WFMin
<1>4. \A x, y \in T : <<y, x>> \notin R => x <= y
  <2> SUFFICES ASSUME NEW x \in T, NEW y \in T, <<y, x>> \notin R PROVE x <= y
    OBVIOUS
  <2>1. x \in Nat /\ y \in Nat
    OBVIOUS
  <2>2. ~(y < x)
    BY <1>2, <2>1
  <2> QED  BY <2>1, <2>2
<1> QED  BY <1>3, <1>4

\* A queue in which no reflex is booked twice, in order of priority.
Ordered(q) ==
  \A i, j \in DOMAIN q : i < j => q[i] /= q[j] /\ Rank(q[i]) <= Rank(q[j])

\* There are two tiers.
LEMMA RanksAreNumbers == \A r \in Reflexes : Rank(r) \in {0, 1}
BY EntryAssumption DEF Rank, TierOrder, Entries

\* What a filter leaves of a sequence is in it, and in its order.
LEMMA OnlyKeeps ==
  ASSUME NEW s \in Seq(Reflexes), NEW R
  PROVE  /\ Only(s, R) \in Seq(Reflexes)
         /\ ToSet(Only(s, R)) \subseteq ToSet(s) \cap R
         /\ Ordered(s) => Ordered(Only(s, R))
<1> DEFINE Def(k, g) ==
      [n \in 0 .. k |-> IF n = 0 THEN << >>
                        ELSE IF s[n] \in R THEN Append(g[n - 1], s[n]) ELSE g[n - 1]]
           only == CHOOSE g : g = Def(Len(s), g)
<1>1. Only(s, R) = only[Len(s)] /\ Len(s) \in Nat
  BY DEF Only
<1>2. \A k \in Nat : \E g : g = Def(k, g)
  <2> DEFINE Bad == {k \in Nat : ~\E g : g = Def(k, g)}
  <2> SUFFICES ASSUME Bad /= {} PROVE FALSE
    OBVIOUS
  <2>1. PICK k \in Bad : \A m \in Bad : k <= m
    <3>1. Bad \subseteq Nat
      OBVIOUS
    <3> HIDE DEF Bad
    <3> QED  BY <3>1, LeastExists
  <2>2. k \in Nat /\ k /= 0
    <3>1. [n \in 0 .. 0 |-> << >>] = Def(0, [n \in 0 .. 0 |-> << >>])
      OBVIOUS
    <3>2. 0 \notin Bad
      BY <3>1
    <3> QED  BY <2>1, <3>2
  <2>3. PICK g : g = Def(k - 1, g)
    <3>1. k - 1 \in Nat /\ ~(k <= k - 1)
      BY <2>2
    <3>2. k - 1 \notin Bad
      BY <2>1, <3>1
    <3> QED  BY <3>1, <3>2
  <2> DEFINE last == IF s[k] \in R THEN Append(g[k - 1], s[k]) ELSE g[k - 1]
             h == [n \in 0 .. k |-> IF n = k THEN last ELSE g[n]]
  <2>4. ASSUME NEW n \in 0 .. k PROVE h[n] = Def(k, h)[n]
    <3>1. CASE n = k
      <4>1. k - 1 \in 0 .. k /\ k - 1 /= k
        BY <2>2
      <4>2. h[k - 1] = g[k - 1]
        BY <4>1
      <4> QED  BY <2>2, <3>1, <4>2
    <3>2. CASE n = 0
      <4>1. n \in 0 .. k - 1 /\ n /= k
        BY <2>2, <3>2
      <4>2. h[n] = << >>
        BY <2>3, <3>2, <4>1
      <4> QED  BY <3>2, <4>2
    <3>3. CASE n /= k /\ n /= 0
      <4>1. n \in 0 .. k - 1 /\ n - 1 \in 0 .. k /\ n - 1 /= k
        BY <2>2, <3>3
      <4>2. h[n] = g[n] /\ h[n - 1] = g[n - 1]
        BY <3>3, <4>1
      <4>3. g[n] = IF s[n] \in R THEN Append(g[n - 1], s[n]) ELSE g[n - 1]
        BY <2>3, <3>3, <4>1
      <4> QED  BY <3>3, <4>2, <4>3
    <3> QED  BY <3>1, <3>2, <3>3
  <2>5. h = Def(k, h)
    <3>1. h = [n \in 0 .. k |-> h[n]] /\ Def(k, h) = [n \in 0 .. k |-> Def(k, h)[n]]
      OBVIOUS
    <3> HIDE DEF h, Def
    <3> QED  BY <2>4, <3>1
  <2>6. k \notin Bad
    <3> HIDE DEF h, Def
    <3> QED  BY <2>5
  <2> QED  BY <2>1, <2>6
<1>3. only = Def(Len(s), only)
  <2>1. \E g : g = Def(Len(s), g)
    BY <1>1, <1>2
  <2> HIDE DEF Def
  <2> QED  BY <2>1
<1>4. /\ only[0] = << >>
      /\ \A n \in 1 .. Len(s) :
           only[n] = IF s[n] \in R THEN Append(only[n - 1], s[n]) ELSE only[n - 1]
  <2> DEFINE d == Def(Len(s), only)
  <2>1. d[0] = << >> /\ \A n \in 1 .. Len(s) :
           d[n] = IF s[n] \in R THEN Append(only[n - 1], s[n]) ELSE only[n - 1]
    <3> HIDE DEF only
    <3> QED  BY <1>1
  <2> HIDE DEF d
  <2>2. d = only
    BY <1>3 DEF d
  <2> HIDE DEF only
  <2> QED  BY <2>1, <2>2
<1> HIDE DEF only
<1> DEFINE Before(n) == {s[k] : k \in 1 .. n} \cap R
           Good(t, n) == /\ t \in Seq(Reflexes)
                         /\ \A i \in 1 .. Len(t) : t[i] \in Before(n)
                         /\ Ordered(s) => Ordered(t)
           Wrong == {n \in 0 .. Len(s) : ~Good(only[n], n)}
<1>5. ASSUME Wrong /= {} PROVE FALSE
  <2>1. PICK n \in Wrong : \A m \in Wrong : n <= m
    <3>1. Wrong \subseteq Nat
      BY <1>1
    <3> HIDE DEF Wrong
    <3> QED  BY <1>5, <3>1, LeastExists
  <2>2. n \in 1 .. Len(s)
    <3>1. << >> \in Seq(Reflexes) /\ Len(<< >>) = 0 /\ Ordered(<< >>)
      BY DEF Ordered
    <3>2. Good(<< >>, 0)
      BY <3>1
    <3>3. n \in 0 .. Len(s) /\ n /= 0
      <4> HIDE DEF Good
      <4> QED  BY <1>4, <2>1, <3>2
    <3> QED  BY <1>1, <3>3
  <2>3. Good(only[n - 1], n - 1)
    <3>1. n - 1 \in 0 .. Len(s) /\ ~(n <= n - 1)
      BY <1>1, <2>2
    <3> HIDE DEF Good
    <3> QED  BY <2>1, <3>1
  <2> DEFINE t == only[n - 1]
  <2>4. s[n] \in Reflexes /\ Before(n - 1) \subseteq Before(n)
    BY <1>1, <2>2
  <2>5. CASE s[n] \notin R
    <3>1. only[n] = t
      BY <1>4, <2>2, <2>5
    <3>2. Good(t, n)
      <4> HIDE DEF t, Before
      <4> QED  BY <2>3, <2>4 DEF t
    <3> HIDE DEF Good, t
    <3> QED  BY <2>1, <3>1, <3>2
  <2>6. CASE s[n] \in R
    <3> DEFINE u == Append(t, s[n])
    <3>1. only[n] = u
      BY <1>4, <2>2, <2>6
    <3>2. t \in Seq(Reflexes) /\ \A i \in 1 .. Len(t) : t[i] \in Before(n - 1)
      BY <2>3
    <3> HIDE DEF t
    <3>3. /\ u \in Seq(Reflexes) /\ Len(u) = Len(t) + 1 /\ u[Len(t) + 1] = s[n]
          /\ \A i \in 1 .. Len(t) : u[i] = t[i]
      BY <2>4, <3>2, AppendProperties
    <3> HIDE DEF u
    <3>4. Len(t) \in Nat /\ DOMAIN t = 1 .. Len(t) /\ DOMAIN u = 1 .. Len(t) + 1
      BY <3>2, <3>3
    <3>5. s[n] \in Before(n)
      BY <2>2, <2>6
    <3>6. \A i \in 1 .. Len(u) : u[i] \in Before(n)
      <4> HIDE DEF Before
      <4> QED  BY <2>4, <3>2, <3>3, <3>4, <3>5
    <3>7. ASSUME Ordered(s) PROVE Ordered(u)
      <4> SUFFICES ASSUME NEW i \in DOMAIN u, NEW j \in DOMAIN u, i < j
                   PROVE  u[i] /= u[j] /\ Rank(u[i]) <= Rank(u[j])
        BY DEF Ordered
      <4>1. CASE j <= Len(t)
        <5>1. i \in DOMAIN t /\ j \in DOMAIN t /\ u[i] = t[i] /\ u[j] = t[j]
          BY <3>3, <3>4, <4>1
        <5>2. Ordered(t)
          BY <2>3, <3>7 DEF t
        <5> QED  BY <5>1, <5>2 DEF Ordered
      <4>2. CASE ~(j <= Len(t))
        <5>1. i \in 1 .. Len(t) /\ u[j] = s[n] /\ u[i] = t[i]
          BY <3>3, <3>4, <4>2
        <5>2. PICK k \in 1 .. n - 1 : t[i] = s[k]
          BY <3>2, <5>1
        <5>3. k \in DOMAIN s /\ n \in DOMAIN s /\ k < n
          BY <1>1, <2>2
        <5> QED  BY <3>7, <5>1, <5>2, <5>3 DEF Ordered
      <4> QED  BY <4>1, <4>2
    <3>8. Good(u, n)
      <4> HIDE DEF Before
      <4> QED  BY <3>3, <3>6, <3>7
    <3> HIDE DEF Good
    <3> QED  BY <2>1, <3>1, <3>8
  <2> QED  BY <2>5, <2>6
<1>6. Good(only[Len(s)], Len(s))
  <2> HIDE DEF Good
  <2> QED  BY <1>1, <1>5
<1>7. Only(s, R) \in Seq(Reflexes) /\ (Ordered(s) => Ordered(Only(s, R)))
  BY <1>1, <1>6
<1>8. \A i \in 1 .. Len(Only(s, R)) : Only(s, R)[i] \in Before(Len(s))
  BY <1>1, <1>6
<1>9. ToSet(Only(s, R)) \subseteq Before(Len(s)) /\ Before(Len(s)) \subseteq ToSet(s) \cap R
  <2>1. DOMAIN Only(s, R) = 1 .. Len(Only(s, R)) /\ DOMAIN s = 1 .. Len(s)
    BY <1>7
  <2> QED  BY <1>8, <2>1 DEF ToSet
<1> QED  BY <1>7, <1>9

\* An insertion adds one booking, behind its betters and before the lower tiers.
LEMMA InsertKeeps ==
  ASSUME NEW q \in Seq(Reflexes), Ordered(q), NEW r \in Reflexes, r \notin ToSet(q)
  PROVE  /\ InsertWithPriority(q, r) \in Seq(Reflexes)
         /\ Ordered(InsertWithPriority(q, r))
         /\ ToSet(InsertWithPriority(q, r)) = ToSet(q) \union {r}
<1> DEFINE lower == {i \in DOMAIN q : Rank(q[i]) > Rank(r)}
           t == InsertWithPriority(q, r)
<1>1. Len(q) \in Nat /\ DOMAIN q = 1 .. Len(q) /\ \A i \in 1 .. Len(q) : q[i] \in Reflexes
  OBVIOUS
<1>2. ASSUME NEW at \in 1 .. Len(q) + 1,
             \A i \in 1 .. at - 1 : i \notin lower,
             \A i \in at .. Len(q) : i \in lower,
             t \in Seq(Reflexes), Len(t) = Len(q) + 1,
             \A i \in 1 .. Len(q) + 1 :
               t[i] = IF i < at THEN q[i] ELSE IF i = at THEN r ELSE q[i - 1]
      PROVE  Ordered(t) /\ ToSet(t) = ToSet(q) \union {r}
  <2> HIDE DEF t
  <2>1. DOMAIN t = 1 .. Len(q) + 1
    BY <1>2
  <2>2. \A i \in 1 .. Len(q) : Rank(q[i]) \in Nat /\ q[i] /= r
    BY <1>1, RanksAreNumbers DEF ToSet
  <2>3. Rank(r) \in Nat
    BY RanksAreNumbers
  <2>4. Ordered(t)
    <3> SUFFICES ASSUME NEW i \in DOMAIN t, NEW j \in DOMAIN t, i < j
                 PROVE  t[i] /= t[j] /\ Rank(t[i]) <= Rank(t[j])
      BY DEF Ordered
    <3>1. i \in 1 .. Len(q) + 1 /\ j \in 1 .. Len(q) + 1
      BY <2>1
    <3>2. CASE i /= at /\ j /= at
      <4> DEFINE a == IF i < at THEN i ELSE i - 1
                 b == IF j < at THEN j ELSE j - 1
      <4>1. a \in 1 .. Len(q) /\ b \in 1 .. Len(q) /\ a < b
        BY <1>1, <3>1, <3>2
      <4>2. t[i] = q[a] /\ t[j] = q[b]
        BY <1>2, <3>1, <3>2
      <4> HIDE DEF a, b
      <4> QED  BY <1>1, <4>1, <4>2 DEF Ordered
    <3>3. CASE i = at
      <4>1. t[i] = r /\ t[j] = q[j - 1] /\ j - 1 \in at .. Len(q) /\ j - 1 \in 1 .. Len(q)
        BY <1>1, <1>2, <3>1, <3>3
      <4>2. Rank(q[j - 1]) > Rank(r)
        BY <1>2, <4>1
      <4> QED  BY <2>2, <2>3, <4>1, <4>2
    <3>4. CASE j = at
      <4>1. t[i] = q[i] /\ t[j] = r /\ i \in 1 .. at - 1 /\ i \in 1 .. Len(q)
        BY <1>1, <1>2, <3>1, <3>4
      <4>2. ~(Rank(q[i]) > Rank(r))
        BY <1>1, <1>2, <4>1
      <4> QED  BY <2>2, <2>3, <4>1, <4>2
    <3> QED  BY <3>2, <3>3, <3>4
  <2>5. ToSet(t) \subseteq ToSet(q) \union {r}
    <3> SUFFICES ASSUME NEW i \in 1 .. Len(q) + 1 PROVE t[i] \in ToSet(q) \union {r}
      BY <2>1 DEF ToSet
    <3>1. i < at => i \in 1 .. Len(q)
      BY <1>1
    <3>2. i > at => i - 1 \in 1 .. Len(q)
      BY <1>1
    <3>3. \A k \in 1 .. Len(q) : q[k] \in ToSet(q)
      BY <1>1 DEF ToSet
    <3>4. i < at \/ i = at \/ i > at
      BY <1>1
    <3> QED  BY <1>2, <3>1, <3>2, <3>3, <3>4
  <2>6. r \in ToSet(t)
    BY <1>1, <1>2, <2>1 DEF ToSet
  <2>7. ToSet(q) \subseteq ToSet(t)
    <3> SUFFICES ASSUME NEW k \in 1 .. Len(q) PROVE q[k] \in ToSet(t)
      BY <1>1 DEF ToSet
    <3>1. CASE k < at
      <4>1. k \in 1 .. Len(q) + 1 /\ t[k] = q[k]
        BY <1>1, <1>2, <3>1
      <4> QED  BY <2>1, <4>1 DEF ToSet
    <3>2. CASE ~(k < at)
      <4>1. k + 1 \in 1 .. Len(q) + 1 /\ ~(k + 1 < at) /\ k + 1 /= at /\ (k + 1) - 1 = k
        BY <1>1, <3>2
      <4>2. t[k + 1] = q[k]
        BY <1>2, <4>1
      <4> QED  BY <2>1, <4>1, <4>2 DEF ToSet
    <3> QED  BY <3>1, <3>2
  <2> QED  BY <2>4, <2>5, <2>6, <2>7
<1>3. CASE lower = {}
  <2>1. t = Append(q, r)
    BY <1>3 DEF InsertWithPriority
  <2>2. /\ t \in Seq(Reflexes) /\ Len(t) = Len(q) + 1 /\ t[Len(q) + 1] = r
        /\ \A i \in 1 .. Len(q) : t[i] = q[i]
    BY <2>1, AppendProperties
  <2> DEFINE at == Len(q) + 1
  <2>3. at \in 1 .. Len(q) + 1 /\ \A i \in at .. Len(q) : FALSE
    BY <1>1
  <2>4. \A i \in 1 .. Len(q) + 1 :
          t[i] = IF i < at THEN q[i] ELSE IF i = at THEN r ELSE q[i - 1]
    <3> HIDE DEF t
    <3> QED  BY <1>1, <2>2
  <2> HIDE DEF t, at
  <2> QED  BY <1>2, <1>3, <2>2, <2>3, <2>4 DEF t
<1>4. CASE lower /= {}
  <2> DEFINE at == CHOOSE i \in lower : \A j \in lower : i <= j
  <2>1. at \in lower /\ \A j \in lower : at <= j
    <3>1. lower \subseteq Nat
      BY <1>1
    <3> HIDE DEF lower
    <3>2. \E i \in lower : \A j \in lower : i <= j
      BY <1>4, <3>1, LeastExists
    <3> QED  BY <3>2
  <2>2. t = SubSeq(q, 1, at - 1) \o <<r>> \o SubSeq(q, at, Len(q))
    BY <1>4 DEF InsertWithPriority
  <2>3. at \in 1 .. Len(q) /\ Rank(q[at]) > Rank(r)
    BY <1>1, <2>1
  <2>4. \A i \in 1 .. at - 1 : i \notin lower
    <3> HIDE DEF lower
    <3> QED  BY <2>1, <2>3
  <2> HIDE DEF at
  <2>5. \A i \in at .. Len(q) : i \in lower
    <3> SUFFICES ASSUME NEW i \in at .. Len(q), i /= at PROVE i \in lower
      BY <2>1
    <3>1. i \in 1 .. Len(q) /\ at < i
      BY <1>1, <2>3
    <3>2. Rank(q[at]) <= Rank(q[i])
      BY <1>1, <2>3, <3>1 DEF Ordered
    <3>3. Rank(q[at]) \in Nat /\ Rank(q[i]) \in Nat /\ Rank(r) \in Nat
      BY <1>1, <2>3, <3>1, RanksAreNumbers
    <3> QED  BY <1>1, <2>3, <3>1, <3>2, <3>3
  <2> DEFINE a == SubSeq(q, 1, at - 1)
             b == SubSeq(q, at, Len(q))
             c == a \o <<r>>
  <2>6. /\ a \in Seq(Reflexes) /\ Len(a) = at - 1 /\ \A i \in 1 .. at - 1 : a[i] = q[i]
    <3>1. /\ 1 \in Int /\ at - 1 \in Int /\ \A i \in 1 .. at - 1 : q[i] \in Reflexes
      BY <1>1, <2>3
    <3>2. /\ a \in Seq(Reflexes) /\ Len(a) = IF 1 <= at - 1 THEN (at - 1) - 1 + 1 ELSE 0
          /\ \A i \in 1 .. (at - 1) - 1 + 1 : a[i] = q[1 + i - 1]
      BY <3>1, SubSeqProperties
    <3> HIDE DEF a
    <3> QED  BY <2>3, <3>2
  <2>7. /\ b \in Seq(Reflexes) /\ Len(b) = Len(q) - at + 1
        /\ \A i \in 1 .. Len(q) - at + 1 : b[i] = q[at + i - 1]
    <3>1. /\ Len(q) \in Int /\ at \in Int /\ \A i \in at .. Len(q) : q[i] \in Reflexes
      BY <1>1, <2>3
    <3>2. /\ b \in Seq(Reflexes) /\ Len(b) = IF at <= Len(q) THEN Len(q) - at + 1 ELSE 0
          /\ \A i \in 1 .. Len(q) - at + 1 : b[i] = q[at + i - 1]
      BY <3>1, SubSeqProperties
    <3> HIDE DEF b
    <3> QED  BY <1>1, <2>3, <3>2
  <2>8. /\ c \in Seq(Reflexes) /\ Len(c) = at
        /\ \A i \in 1 .. at : c[i] = IF i < at THEN q[i] ELSE r
    <3>1. <<r>> \in Seq(Reflexes) /\ Len(<<r>>) = 1 /\ <<r>>[1] = r
      OBVIOUS
    <3> HIDE DEF a
    <3>2. /\ c \in Seq(Reflexes) /\ Len(c) = Len(a) + 1
          /\ \A i \in 1 .. Len(a) + 1 : c[i] = IF i <= Len(a) THEN a[i] ELSE <<r>>[i - Len(a)]
      BY <2>6, <3>1, ConcatProperties
    <3> HIDE DEF c
    <3> QED  BY <2>3, <2>6, <3>1, <3>2
  <2>9. t = c \o b
    BY <2>2
  <2> HIDE DEF a, b, c
  <2>10. /\ t \in Seq(Reflexes) /\ Len(t) = Len(c) + Len(b)
         /\ \A i \in 1 .. Len(c) + Len(b) : t[i] = IF i <= Len(c) THEN c[i] ELSE b[i - Len(c)]
    <3> HIDE DEF t
    <3> QED  BY <2>7, <2>8, <2>9, ConcatProperties
  <2> HIDE DEF t
  <2>11. Len(t) = Len(q) + 1 /\ Len(c) + Len(b) = Len(q) + 1
    BY <1>1, <2>3, <2>7, <2>8, <2>10
  <2>12. \A i \in 1 .. Len(q) + 1 :
          t[i] = IF i < at THEN q[i] ELSE IF i = at THEN r ELSE q[i - 1]
    <3> SUFFICES ASSUME NEW i \in 1 .. Len(q) + 1
                 PROVE  t[i] = IF i < at THEN q[i] ELSE IF i = at THEN r ELSE q[i - 1]
      OBVIOUS
    <3>1. CASE i <= at
      BY <2>3, <2>8, <2>10, <2>11, <3>1
    <3>2. CASE ~(i <= at)
      <4>1. i - at \in 1 .. Len(q) - at + 1 /\ at + (i - at) - 1 = i - 1
        BY <1>1, <2>3, <3>2
      <4>2. b[i - at] = q[i - 1]
        BY <2>7, <4>1
      <4> QED  BY <2>3, <2>8, <2>10, <2>11, <3>2, <4>2
    <3> QED  BY <3>1, <3>2
  <2> QED
    <3>1. at \in 1 .. Len(q) + 1
      BY <1>1, <2>3
    <3> QED  BY <1>2, <2>4, <2>5, <2>10, <2>11, <2>12, <3>1 DEF t
<1> QED  BY <1>3, <1>4

\* What is left when the first booking is taken.
LEMMA TailKeeps ==
  ASSUME NEW q \in Seq(Reflexes), q /= << >>, Ordered(q)
  PROVE  /\ Head(q) \in Reflexes /\ Tail(q) \in Seq(Reflexes) /\ Ordered(Tail(q))
         /\ Head(q) \in ToSet(q) /\ ToSet(Tail(q)) \subseteq ToSet(q)
         /\ Head(q) \notin ToSet(Tail(q))
<1> DEFINE t == Tail(q)
<1>1. /\ Head(q) \in Reflexes /\ t \in Seq(Reflexes) /\ Len(t) = Len(q) - 1
      /\ \A i \in 1 .. Len(t) : t[i] = q[i + 1]
  BY HeadTailProperties
<1>2. Head(q) = q[1] /\ Len(q) \in Nat /\ Len(q) >= 1 /\ DOMAIN q = 1 .. Len(q)
  OBVIOUS
<1> HIDE DEF t
<1>3. DOMAIN t = 1 .. Len(q) - 1 /\ \A i \in 1 .. Len(q) - 1 : t[i] = q[i + 1]
  BY <1>1
<1>4. Ordered(t)
  <2> SUFFICES ASSUME NEW i \in DOMAIN t, NEW j \in DOMAIN t, i < j
               PROVE  t[i] /= t[j] /\ Rank(t[i]) <= Rank(t[j])
    BY DEF Ordered
  <2>1. i + 1 \in DOMAIN q /\ j + 1 \in DOMAIN q /\ i + 1 < j + 1
    BY <1>2, <1>3
  <2>2. t[i] = q[i + 1] /\ t[j] = q[j + 1]
    BY <1>3
  <2> QED  BY <2>1, <2>2 DEF Ordered
<1>5. \A i \in 1 .. Len(q) - 1 : i + 1 \in DOMAIN q /\ 1 \in DOMAIN q /\ 1 < i + 1
  BY <1>2
<1>6. ToSet(t) \subseteq ToSet(q) /\ q[1] \notin ToSet(t) /\ q[1] \in ToSet(q)
  <2>1. \A i \in 1 .. Len(q) - 1 : t[i] \in ToSet(q) /\ t[i] /= q[1]
    BY <1>3, <1>5 DEF Ordered, ToSet
  <2>2. q[1] \in ToSet(q)
    BY <1>2 DEF ToSet
  <2> QED  BY <1>3, <2>1, <2>2 DEF ToSet
<1> QED  BY <1>1, <1>2, <1>4, <1>6 DEF t

-----------------------------------------------------------------------------

\* The longest cooldown is a number of units.
LEMMA LongAgoIsOne == LongAgo \in Nat \ {0}
BY CooldownsAssumption DEF LongAgo

\* The reflexes that wait or run.
Booked == Waiting \union ({active} \ {Nobody})

\* An engine that waits for something has an entry, and a child has a timer.
Attended ==
  /\ phase \in {"idle", "drain"} => active = Nobody /\ ladder = "off"
  /\ phase = "approval" => active \in Reflexes /\ ladder = "off"
  /\ phase \in {"mechanism", "skill"} => active \in Reflexes /\ ladder /= "off"

\* Short of parked, both counters are short of their limits.
WithinLimits(b) ==
  /\ ~b.stuck => b.consecutive < LoopBreakerLimit /\ b.incomplete < IncompleteLimit
  /\ b.consecutive + b.incomplete <= LoopBreakerLimit + IncompleteLimit - 1

CountersAreLimited == \A r \in Reflexes : WithinLimits(brakes[r]) /\ WithinLimits(saved[r])

ParkedIsNotBooked == \A r \in Booked : ~brakes[r].stuck

\* A fruitless run is in the counters, but for one lost with each crash ...
RunsAreCounted ==
  \A r \in Reflexes : fruitless[r] <= brakes[r].consecutive + brakes[r].incomplete + crashes

\* ... as the file lacks the last run at most, and then no other can begin.
FileIsOneBehind ==
  \A r \in Reflexes :
    \/ fruitless[r] <= saved[r].consecutive + saved[r].incomplete + crashes
    \/ /\ dirty /\ brakes[r].age = 0 /\ r \notin Booked
       /\ fruitless[r] <= saved[r].consecutive + saved[r].incomplete + crashes + 1

\* Who has run is not booked before time has passed.
BookedHaveRested ==
  \A r \in Reflexes : ~rested[r] => brakes[r].age = 0 /\ r \notin Booked

EngineIInv ==
  /\ TypeOK /\ Attended /\ BookedOnce /\ ChannelsExclude
  /\ CountersAreLimited /\ ParkedIsNotBooked
  /\ RunsAreCounted /\ FileIsOneBehind /\ BookedHaveRested

\* An engine that starts with no state file has nothing to forget.
LEMMA EngineStart == Init => EngineIInv
<1> SUFFICES ASSUME Init PROVE EngineIInv
  OBVIOUS
<1>1. Released \in Brake /\ WithinLimits(Released)
  BY LongAgoIsOne, LimitsAssumption DEF Released, Brake, WithinLimits
<1>2. brakes \in [Reflexes -> Brake] /\ \A r \in Reflexes : brakes[r] = Released
  BY <1>1 DEF Init
<1>3. << >> \in Seq(Reflexes) /\ DOMAIN << >> = {}
  OBVIOUS
<1>4. TypeOK
  <2>1. NoCopy(readonly) \in Copies
    BY DiagnosticAssumption DEF Init, NoCopy, Copies
  <2> QED  BY <1>2, <1>3, <2>1, DiagnosticAssumption DEF Init, TypeOK, Ladder
<1>5. Waiting = {} /\ Booked = {} /\ Held = {}
  BY <1>3 DEF Init, Waiting, Booked, Held, ToSet
<1>6. Attended /\ BookedOnce /\ ChannelsExclude /\ ParkedIsNotBooked /\ BookedHaveRested
  BY <1>3, <1>5
  DEF Init, Attended, BookedOnce, ChannelsExclude, ParkedIsNotBooked, BookedHaveRested
<1>7. CountersAreLimited
  BY <1>1, <1>2 DEF Init, CountersAreLimited
<1>8. RunsAreCounted /\ FileIsOneBehind
  BY <1>2 DEF Init, Released, RunsAreCounted, FileIsOneBehind
<1> QED  BY <1>4, <1>6, <1>7, <1>8 DEF EngineIInv

\* What the run checks follows.
LEMMA EngineFollows == EngineIInv => ReflexInv
<1> SUFFICES ASSUME EngineIInv PROVE ReflexInv
  OBVIOUS
<1>1. FruitlessRunsAreBounded
  <2> SUFFICES ASSUME NEW r \in Reflexes
               PROVE  fruitless[r] <= LoopBreakerLimit + IncompleteLimit - 1 + crashes
    BY DEF FruitlessRunsAreBounded
  <2>1. /\ fruitless[r] \in Nat /\ crashes \in Nat
        /\ brakes[r].consecutive \in Nat /\ brakes[r].incomplete \in Nat
    BY DEF EngineIInv, TypeOK, Brake
  <2>2. /\ fruitless[r] <= brakes[r].consecutive + brakes[r].incomplete + crashes
        /\ brakes[r].consecutive + brakes[r].incomplete
             <= LoopBreakerLimit + IncompleteLimit - 1
    BY DEF EngineIInv, RunsAreCounted, CountersAreLimited, WithinLimits
  <2> QED  BY <2>1, <2>2, LimitsAssumption
<1> QED  BY <1>1 DEF EngineIInv, ReflexInv

\* A step that changes what is booked and nothing else: what it adds has cooled down,
\* is not parked and has a free channel.
LEMMA BookingKeeps ==
  ASSUME EngineIInv, UNCHANGED <<channel, brakes, saved, dirty, crashes, fruitless, rested>>,
         TypeOK', Attended', BookedOnce',
         \A r \in Booked' :
           \/ r \in Booked
           \/ /\ r \in Reflexes /\ brakes[r].age >= 1 /\ ~brakes[r].stuck
              /\ CommandOf(r) \notin channel
  PROVE  EngineIInv'
<1>1. ChannelsExclude'
  <2>1. Held = {CommandOf(r) : r \in Booked} /\ Held' = {CommandOf(r) : r \in Booked'}
    BY DEF Held, Booked
  <2> QED  BY <2>1 DEF EngineIInv, ChannelsExclude
<1>2. CountersAreLimited' /\ RunsAreCounted'
  BY DEF EngineIInv, CountersAreLimited, RunsAreCounted
<1>3. ParkedIsNotBooked'
  BY DEF EngineIInv, ParkedIsNotBooked
<1>4. FileIsOneBehind'
  <2>1. \A r \in Reflexes : brakes[r].age = 0 /\ r \notin Booked => r \notin Booked'
    OBVIOUS
  <2> QED  BY <2>1 DEF EngineIInv, FileIsOneBehind
<1>5. BookedHaveRested'
  <2>1. \A r \in Reflexes : brakes[r].age = 0 /\ r \notin Booked => r \notin Booked'
    OBVIOUS
  <2> QED  BY <2>1 DEF EngineIInv, BookedHaveRested
<1> QED  BY <1>1, <1>2, <1>3, <1>4, <1>5 DEF EngineIInv

\* A step that writes the record of one booked reflex and gives it up.
LEMMA SettleKeeps ==
  ASSUME EngineIInv, NEW r \in Reflexes, NEW b \in Brake, NEW n \in Nat,
         r \in Booked, r \notin Booked', Booked' \subseteq Booked,
         brakes' = [brakes EXCEPT ![r] = b], fruitless' = [fruitless EXCEPT ![r] = n],
         rested' \in {rested, [rested EXCEPT ![r] = FALSE]},
         dirty' = TRUE, UNCHANGED <<channel, saved, crashes>>,
         WithinLimits(b), n <= b.consecutive + b.incomplete + crashes,
         \/ b.age = 0 /\ n <= fruitless[r] + 1
         \/ n = fruitless[r] /\ rested' = rested,
         TypeOK', Attended', BookedOnce'
  PROVE  EngineIInv'
<1>1. /\ \A q \in Reflexes : q /= r => /\ brakes'[q] = brakes[q]
                                       /\ fruitless'[q] = fruitless[q]
                                       /\ rested'[q] = rested[q]
      /\ brakes'[r] = b /\ fruitless'[r] = n
      /\ rested'[r] \in {rested[r], FALSE}
      /\ rested' = rested => rested'[r] = rested[r]
  BY DEF EngineIInv, TypeOK
<1>2. ChannelsExclude'
  <2>1. Held = {CommandOf(q) : q \in Booked} /\ Held' = {CommandOf(q) : q \in Booked'}
    BY DEF Held, Booked
  <2> QED  BY <2>1 DEF EngineIInv, ChannelsExclude
<1>3. CountersAreLimited'
  BY <1>1 DEF EngineIInv, CountersAreLimited
<1>4. ParkedIsNotBooked'
  <2>1. \A q \in Booked' : q \in Reflexes /\ q /= r
    BY DEF EngineIInv, TypeOK, Attended, Booked, Waiting, ToSet
  <2> QED  BY <1>1, <2>1 DEF EngineIInv, ParkedIsNotBooked
<1>5. RunsAreCounted'
  BY <1>1 DEF EngineIInv, RunsAreCounted
<1>6. FileIsOneBehind'
  <2>1. fruitless[r] <= saved[r].consecutive + saved[r].incomplete + crashes
    BY DEF EngineIInv, FileIsOneBehind
  <2>2. /\ fruitless[r] \in Nat /\ crashes \in Nat
        /\ saved[r].consecutive \in Nat /\ saved[r].incomplete \in Nat
    BY DEF EngineIInv, TypeOK, Brake
  <2>3. \/ n <= saved[r].consecutive + saved[r].incomplete + crashes
        \/ b.age = 0 /\ n <= saved[r].consecutive + saved[r].incomplete + crashes + 1
    BY <2>1, <2>2
  <2>4. ASSUME NEW q \in Reflexes, q /= r
        PROVE  \/ fruitless[q] <= saved[q].consecutive + saved[q].incomplete + crashes
               \/ /\ brakes[q].age = 0 /\ q \notin Booked'
                  /\ fruitless[q] <= saved[q].consecutive + saved[q].incomplete + crashes + 1
    BY DEF EngineIInv, FileIsOneBehind
  <2> QED  BY <1>1, <2>3, <2>4 DEF FileIsOneBehind
<1>7. BookedHaveRested'
  <2>1. rested[r]
    BY DEF EngineIInv, BookedHaveRested
  <2> QED  BY <1>1, <2>1 DEF EngineIInv, BookedHaveRested
<1> QED  BY <1>2, <1>3, <1>4, <1>5, <1>6, <1>7 DEF EngineIInv

\* What may be booked: a reflex that has cooled down, is not parked, and whose command
\* the exec channel does not have.
LEMMA EligibleMayBook ==
  ASSUME TypeOK, NEW r \in Reflexes, NEW cooldown \in Cooldowns, Eligible(r, cooldown)
  PROVE  brakes[r].age >= 1 /\ ~brakes[r].stuck /\ CommandOf(r) \notin channel
<1>1. brakes[r].age \in Nat /\ cooldown \in Nat \ {0}
  BY CooldownsAssumption, LongAgoIsOne DEF TypeOK, Brake
<1> QED  BY <1>1 DEF Eligible, Cooling

\* What _isSkillReadonly holds is made of what the file said since it was read.
CopyFollows ==
  /\ copy.known \subseteq copy.lately /\ readonly \subseteq copy.lately
  /\ copy.expired => copy.known = {}

\* What is read is the copy, or the file when there is no copy.
LEMMA FoundIsKnown ==
  ASSUME TypeOK, NEW seen \in Found
  PROVE  /\ seen \subseteq Commands
         /\ CopyFollows => seen \subseteq copy.lately
         /\ \A known \in FoundAfter(seen) :
              /\ known \subseteq Commands
              /\ CopyFollows => known \subseteq copy.lately
  BY DEF TypeOK, Copies, CopyFollows, Found, FoundAfter

\* ... and remembering it leaves a copy of that kind.
LEMMA RememberedIsKnown ==
  ASSUME TypeOK, UNCHANGED readonly, NEW known \in SUBSET Commands, Remembers(known),
         CopyFollows => known \subseteq copy.lately,
         copy.expired => known \subseteq readonly
  PROVE  copy' \in Copies /\ (CopyFollows => CopyFollows')
  BY DEF TypeOK, Copies, CopyFollows, Remembers

\* Whoever reads it does one or the other.
LEMMA ReadersRemember ==
  ASSUME TypeOK, UNCHANGED readonly,
         \/ \E known \in Found : Remembers(known)
         \/ \E known \in SUBSET Commands, r \in Reflexes :
              RunsOn(r, known) /\ Remembers(known)
  PROVE  copy' \in Copies /\ (CopyFollows => CopyFollows')
<1>1. PICK known :
        Remembers(known) /\ (known \in Found \/ \E seen \in Found : known \in FoundAfter(seen))
  BY DEF RunsOn
<1>2. /\ known \in SUBSET Commands
      /\ CopyFollows => known \subseteq copy.lately
  BY <1>1, FoundIsKnown
<1>3. copy.expired => known \subseteq readonly
  BY <1>1 DEF Found, FoundAfter
<1> QED  BY <1>1, <1>2, <1>3, RememberedIsKnown

\* The copy after any step of the engine.
LEMMA CopyIsTyped == TypeOK /\ Next => copy' \in Copies /\ (CopyFollows => CopyFollows')
<1> SUFFICES ASSUME TypeOK, Next PROVE copy' \in Copies /\ (CopyFollows => CopyFollows')
  OBVIOUS
<1>1. CASE UNCHANGED <<readonly, copy>>
  BY <1>1 DEF TypeOK, CopyFollows
<1>2. CASE \/ CheckEntry \/ AskOperator \/ Suppress \/ Close \/ ForceSettle
           \/ \E r \in Reflexes : InjectReflex(r)
  <2>1. UNCHANGED readonly /\ \E known \in Found : Remembers(known)
    BY <1>2 DEF CheckEntry, AskOperator, Suppress, Popped, Close, ForceSettle, Ended,
                InjectReflex
  <2> QED  BY <2>1, ReadersRemember
<1>3. CASE Retire \/ Spawn \/ SpawnFails
  <2>1. /\ queue /= << >> /\ UNCHANGED readonly
        /\ \E known \in SUBSET Commands : RunsOn(Head(queue), known) /\ Remembers(known)
    BY <1>3 DEF Retire, Spawn, SpawnFails, Popped
  <2>2. Head(queue) \in Reflexes
    BY <2>1 DEF TypeOK
  <2> QED  BY <2>1, <2>2, ReadersRemember
<1>4. CASE Restart \/ Tick \/ CopyExpires
  <2>1. copy' = NoCopy(readonly) /\ UNCHANGED readonly
    BY <1>4 DEF Restart, Tick, CopyExpires
  <2> QED  BY <2>1 DEF NoCopy, TypeOK, Copies, CopyFollows
<1>5. CASE MetadataChanges
  BY <1>5, DiagnosticAssumption DEF MetadataChanges, TypeOK, Copies, CopyFollows
<1>6. CASE \/ Check \/ DrainNothing \/ WindowCloses \/ KillTimer \/ Escalate \/ SaveTimer
           \/ \E R \in SUBSET Reflexes : ClearStuck(R)
           \/ \E c \in Commands : ChannelTakes(c) \/ ChannelGives(c)
  <2>1. UNCHANGED <<readonly, copy>>
    BY <1>6 DEF Check, DrainNothing, WindowCloses, KillTimer, Escalate, SaveTimer,
                ClearStuck, ChannelTakes, ChannelGives, world
  <2> QED  BY <2>1, <1>1
<1> QED  BY <1>2, <1>3, <1>4, <1>5, <1>6 DEF Next, Node, Drain, Timers

\* An entry that is judged, or a regression that is reported.
LEMMA JudgementKeeps ==
  ASSUME EngineIInv, CheckEntry \/ \E r \in Reflexes : InjectReflex(r)
  PROVE  EngineIInv'
<1>1. /\ UNCHANGED <<window, readonly, channel, active, ladder, brakes, disk, past>>
      /\ copy' \in Copies /\ todo' \in Seq(Reflexes) /\ phase' \in {phase, "drain"}
      /\ phase' = phase \/ phase = "idle"
  <2>1. todo \in Seq(Reflexes)
    BY DEF EngineIInv, TypeOK
  <2>2. todo /= << >> => Tail(todo) \in Seq(Reflexes)
    BY <2>1
  <2>3. copy' \in Copies
    BY CopyIsTyped DEF EngineIInv, Next, Node
  <2> QED  BY <2>1, <2>2, <2>3 DEF CheckEntry, InjectReflex, AfterEntry
<1>2. \/ UNCHANGED queue
      \/ \E r \in Reflexes, cooldown \in Cooldowns :
           Eligible(r, cooldown) /\ NotBooked(r) /\ queue' = InsertWithPriority(queue, r)
  <2>1. CASE CheckEntry
    <3>1. todo /= << >> /\ Head(todo) \in Reflexes
      BY <2>1 DEF CheckEntry, EngineIInv, TypeOK
    <3> QED  BY <2>1, <3>1 DEF CheckEntry
  <2>2. CASE \E r \in Reflexes : InjectReflex(r)
    BY <2>2 DEF InjectReflex
  <2> QED  BY <2>1, <2>2
<1>3. Attended'
  BY <1>1 DEF EngineIInv, Attended
<1>4. ASSUME queue' \in Seq(Reflexes) PROVE TypeOK'
  BY <1>1, <1>4 DEF EngineIInv, TypeOK, disk, past
<1>5. CASE UNCHANGED queue
  <2>1. TypeOK'
    BY <1>4, <1>5 DEF EngineIInv, TypeOK
  <2>2. BookedOnce' /\ Booked' = Booked
    BY <1>1, <1>5 DEF EngineIInv, BookedOnce, Booked, Waiting
  <2> QED  BY <1>1, <1>3, <2>1, <2>2, BookingKeeps DEF disk, past
<1>6. CASE \E r \in Reflexes, cooldown \in Cooldowns :
             Eligible(r, cooldown) /\ NotBooked(r) /\ queue' = InsertWithPriority(queue, r)
  <2>1. PICK r \in Reflexes, cooldown \in Cooldowns :
          Eligible(r, cooldown) /\ NotBooked(r) /\ queue' = InsertWithPriority(queue, r)
    BY <1>6
  <2>2. /\ queue \in Seq(Reflexes) /\ Ordered(queue) /\ active \notin Waiting /\ TypeOK
    BY DEF EngineIInv, TypeOK, BookedOnce, Ordered
  <2>3. /\ queue' \in Seq(Reflexes) /\ Ordered(queue') /\ Waiting' = Waiting \union {r}
    BY <2>1, <2>2, InsertKeeps DEF NotBooked, Waiting
  <2>4. BookedOnce'
    BY <1>1, <2>1, <2>2, <2>3 DEF BookedOnce, Ordered, NotBooked
  <2>5. Booked' = Booked \union {r}
    BY <1>1, <2>3 DEF Booked
  <2>6. brakes[r].age >= 1 /\ ~brakes[r].stuck /\ CommandOf(r) \notin channel
    BY <2>1, <2>2, EligibleMayBook
  <2> QED  BY <1>1, <1>3, <1>4, <2>3, <2>4, <2>5, <2>6, BookingKeeps DEF disk, past
<1> QED  BY <1>2, <1>5, <1>6

\* The queue forgets what the payload no longer lists.
LEMMA CheckKeeps == EngineIInv /\ Check => EngineIInv'
<1> SUFFICES ASSUME EngineIInv, Check PROVE EngineIInv'
  OBVIOUS
<1>1. PICK payload \in SUBSET Reflexes :
        todo' = Only(Listing, payload) /\ queue' = Only(queue, payload)
  BY DEF Check
<1>2. UNCHANGED <<world, active, phase, ladder, brakes, disk, past>>
  BY DEF Check
<1>3. /\ queue \in Seq(Reflexes) /\ Ordered(queue) /\ active \notin Waiting
      /\ Listing \in Seq(Reflexes)
  BY ListingAssumption DEF EngineIInv, TypeOK, BookedOnce, Ordered
<1>4. /\ todo' \in Seq(Reflexes) /\ queue' \in Seq(Reflexes) /\ Ordered(queue')
      /\ Waiting' \subseteq Waiting
  BY <1>1, <1>3, OnlyKeeps DEF Waiting
<1>5. TypeOK'
  BY <1>2, <1>4 DEF EngineIInv, TypeOK, world, disk, past
<1>6. BookedOnce'
  BY <1>2, <1>3, <1>4 DEF BookedOnce, Ordered
<1>7. Booked' \subseteq Booked
  BY <1>2, <1>4 DEF Booked
<1>8. Attended'
  BY <1>2 DEF EngineIInv, Attended
<1> QED  BY <1>2, <1>5, <1>6, <1>7, <1>8, BookingKeeps DEF world, disk, past

\* What is true when the drain takes an entry.
LEMMA PoppedEntry ==
  ASSUME EngineIInv, queue /= << >>, phase = "drain", queue' = Tail(queue)
  PROVE  /\ Head(queue) \in Reflexes /\ Head(queue) \in Waiting /\ Head(queue) \in Booked
         /\ active = Nobody /\ queue' \in Seq(Reflexes) /\ Ordered(queue')
         /\ Waiting' \subseteq Waiting /\ Head(queue) \notin Waiting'
<1>1. queue \in Seq(Reflexes) /\ Ordered(queue)
  BY DEF EngineIInv, TypeOK, BookedOnce, Ordered
<1> QED  BY <1>1, TailKeeps DEF EngineIInv, Attended, Waiting, Booked

\* Steps of the drain that start nothing or start a run, and the timers before the last.
LEMMA DrainKeeps ==
  ASSUME EngineIInv,
         DrainNothing \/ AskOperator \/ Retire \/ Spawn \/ KillTimer \/ Escalate
  PROVE  EngineIInv'
<1>1. UNCHANGED <<window, readonly, channel, todo, brakes, disk, past>> /\ copy' \in Copies
  <2>1. copy' \in Copies
    BY CopyIsTyped DEF EngineIInv, Next, Node, Drain, Timers
  <2> QED  BY <2>1 DEF DrainNothing, AskOperator, Retire, Spawn, KillTimer, Escalate,
                      Popped, world
<1>2. CASE DrainNothing \/ KillTimer \/ Escalate
  <2>1. UNCHANGED <<queue, active>>
    BY <1>2 DEF DrainNothing, KillTimer, Escalate
  <2>2. TypeOK' /\ Attended'
    <3>1. TypeOK /\ Attended
      BY DEF EngineIInv
    <3>2. /\ phase' \in {"idle", "drain", "approval", "mechanism", "skill"}
          /\ ladder' \in Ladder
      BY <1>2, <3>1 DEF DrainNothing, KillTimer, Escalate, TypeOK, Ladder
    <3>3. Attended'
      BY <1>2, <2>1, <3>1 DEF DrainNothing, KillTimer, Escalate, TypeOK, Attended, Ladder
    <3> QED  BY <1>1, <2>1, <3>1, <3>2, <3>3 DEF TypeOK, disk, past
  <2>3. BookedOnce' /\ Booked' = Booked
    BY <2>1 DEF EngineIInv, BookedOnce, Booked, Waiting
  <2> QED  BY <1>1, <2>2, <2>3, BookingKeeps DEF disk, past
<1>3. CASE AskOperator \/ Retire \/ Spawn
  <2> DEFINE r == Head(queue)
  <2>1. queue /= << >> /\ phase = "drain" /\ queue' = Tail(queue)
    BY <1>3 DEF AskOperator, Retire, Spawn, Popped
  <2>2. /\ r \in Reflexes /\ r \in Booked /\ active = Nobody /\ queue' \in Seq(Reflexes)
        /\ Ordered(queue') /\ Waiting' \subseteq Waiting /\ r \notin Waiting'
    BY <2>1, PoppedEntry
  <2>3. /\ active' \in {r, Nobody}
        /\ phase' \in {"drain", "approval", "mechanism", "skill"} /\ ladder' \in Ladder
        /\ phase' = "drain" => active' = Nobody /\ ladder' = "off"
        /\ phase' = "approval" => active' = r /\ ladder' = "off"
        /\ phase' \in {"mechanism", "skill"} => active' = r /\ ladder' /= "off"
    <3>1. ladder = "off"
      BY <2>1 DEF EngineIInv, Attended
    <3> QED  BY <1>3, <3>1 DEF AskOperator, Retire, Spawn, StandDown, Ladder
  <2> HIDE DEF r
  <2>4. TypeOK' /\ Attended'
    BY <1>1, <2>2, <2>3 DEF EngineIInv, TypeOK, Attended, disk, past
  <2>5. \A q \in Waiting' : q \in Reflexes
    BY <2>2 DEF Waiting, ToSet
  <2>6. BookedOnce'
    BY <2>2, <2>3, <2>5, NobodyAssumption DEF BookedOnce, Ordered
  <2>7. Booked' \subseteq Booked
    BY <2>2, <2>3 DEF Booked
  <2> QED  BY <1>1, <2>4, <2>6, <2>7, BookingKeeps DEF disk, past
<1> QED  BY <1>2, <1>3

\* What _afterRun makes of the brakes of a reflex that is not parked.
LEMMA CountedKeeps ==
  ASSUME NEW b \in Brake, WithinLimits(b), ~b.stuck, NEW progress \in BOOLEAN, NEW status,
         NEW n \in Nat, NEW c \in Nat, n <= b.consecutive + b.incomplete + c
  PROVE  LET p == [Parked(Counted(b, progress, status)) EXCEPT !.age = 0]
         IN  /\ p \in Brake /\ p.age = 0 /\ WithinLimits(p)
             /\ (IF progress THEN 0 ELSE n + 1) <= p.consecutive + p.incomplete + c
<1>1. /\ b.consecutive \in Nat /\ b.incomplete \in Nat /\ b.stuck \in BOOLEAN
      /\ b.age \in 0 .. LongAgo /\ b.consecutive < LoopBreakerLimit
      /\ b.incomplete < IncompleteLimit /\ LongAgo \in Nat \ {0}
      /\ LoopBreakerLimit \in Nat \ {0} /\ IncompleteLimit \in Nat \ {0}
  BY LongAgoIsOne, LimitsAssumption DEF Brake, WithinLimits
<1> DEFINE k == Counted(b, progress, status)
<1>2. /\ k \in Brake /\ k.stuck = FALSE
      /\ \/ progress /\ k.consecutive = 0 /\ k.incomplete = 0
         \/ /\ ~progress /\ k.consecutive = b.consecutive
            /\ k.incomplete = b.incomplete + 1
         \/ /\ ~progress /\ k.consecutive = b.consecutive + 1
            /\ k.incomplete = b.incomplete
  <2>1. CASE progress = TRUE
    BY <1>1, <2>1 DEF Counted, Brake
  <2>2. CASE progress = FALSE /\ status = "timeout"
    BY <1>1, <2>2 DEF Counted, Brake
  <2>3. CASE progress = FALSE /\ status /= "timeout"
    BY <1>1, <2>3 DEF Counted, Brake
  <2> QED  BY <2>1, <2>2, <2>3
<1> HIDE DEF k
<1> DEFINE p == [Parked(k) EXCEPT !.age = 0]
           full == k.consecutive >= LoopBreakerLimit \/ k.incomplete >= IncompleteLimit
<1>3. /\ p \in Brake /\ p.age = 0
      /\ p.consecutive = k.consecutive /\ p.incomplete = k.incomplete
      /\ p.stuck = FALSE => ~full
  <2>1. CASE full
    <3> DEFINE e == [k EXCEPT !.stuck = TRUE]
    <3>1. p = [e EXCEPT !.age = 0]
      BY <2>1 DEF Parked
    <3>2. /\ e \in Brake /\ e.stuck = TRUE
          /\ e.consecutive = k.consecutive /\ e.incomplete = k.incomplete
      BY <1>2 DEF Brake
    <3> HIDE DEF p, full, e
    <3>3. /\ p \in Brake /\ p.age = 0 /\ p.stuck = TRUE
          /\ p.consecutive = k.consecutive /\ p.incomplete = k.incomplete
      BY <1>1, <3>1, <3>2 DEF Brake
    <3> QED  BY <3>3
  <2>2. CASE ~full
    <3>1. Parked(k) = k
      BY <2>2 DEF Parked
    <3>2. p = [k EXCEPT !.age = 0]
      BY <3>1
    <3> HIDE DEF p
    <3>3. /\ p \in Brake /\ p.age = 0
          /\ p.consecutive = k.consecutive /\ p.incomplete = k.incomplete
      BY <1>1, <1>2, <3>2 DEF Brake
    <3> QED  BY <2>2, <3>3
  <2> QED  BY <2>1, <2>2
<1> HIDE DEF p
<1>4. k.consecutive \in Nat /\ k.incomplete \in Nat /\ p.stuck \in BOOLEAN
  BY <1>2, <1>3 DEF Brake
<1>5. WithinLimits(p)
  <2>1. ~p.stuck => p.consecutive < LoopBreakerLimit /\ p.incomplete < IncompleteLimit
    BY <1>1, <1>3, <1>4
  <2>2. p.consecutive + p.incomplete <= LoopBreakerLimit + IncompleteLimit - 1
    BY <1>1, <1>2, <1>3, <1>4
  <2> QED  BY <2>1, <2>2 DEF WithinLimits
<1>6. (IF progress THEN 0 ELSE n + 1) <= p.consecutive + p.incomplete + c
  BY <1>1, <1>2, <1>3, <1>4
<1> QED  BY <1>3, <1>5, <1>6 DEF p, k

\* A run that ends, whose record is written and whose reflex is given up.
LEMMA RunEndKeeps ==
  ASSUME EngineIInv, NEW r \in Booked, NEW progress \in BOOLEAN, NEW status,
         brakes' = AfterBrakes(r, progress, status),
         fruitless' = [fruitless EXCEPT ![r] = IF progress THEN 0 ELSE @ + 1],
         rested' = [rested EXCEPT ![r] = FALSE],
         queue' \in Seq(Reflexes), Ordered(queue'), Waiting' \subseteq Waiting \ {r},
         StandDown, SaveState, UNCHANGED <<window, readonly, channel, todo>>,
         copy' \in Copies
  PROVE  EngineIInv'
<1> DEFINE b == [Parked(Counted(brakes[r], progress, status)) EXCEPT !.age = 0]
           n == IF progress THEN 0 ELSE fruitless[r] + 1
<1>1. r \in Reflexes /\ TypeOK
  BY DEF EngineIInv, TypeOK, Attended, Booked, Waiting, ToSet
<1>2. /\ brakes[r] \in Brake /\ ~brakes[r].stuck /\ WithinLimits(brakes[r])
      /\ fruitless[r] \in Nat /\ crashes \in Nat
      /\ fruitless[r] <= brakes[r].consecutive + brakes[r].incomplete + crashes
  BY <1>1 DEF TypeOK, EngineIInv, ParkedIsNotBooked, CountersAreLimited, RunsAreCounted
<1>3. /\ b \in Brake /\ b.age = 0 /\ WithinLimits(b)
      /\ n <= b.consecutive + b.incomplete + crashes
  BY <1>2, CountedKeeps
<1>4. brakes' = [brakes EXCEPT ![r] = b]
  BY DEF AfterBrakes
<1>5. n \in Nat /\ n <= fruitless[r] + 1
  BY <1>2
<1>6. fruitless' = [fruitless EXCEPT ![r] = n]
  BY <1>1 DEF TypeOK
<1> HIDE DEF b, n
<1>7. /\ active' = Nobody /\ phase' = "drain" /\ ladder' = "off" /\ dirty' = TRUE
      /\ UNCHANGED <<saved, crashes, window, readonly, channel, todo>>
  BY DEF StandDown, SaveState
<1>8. TypeOK' /\ Attended'
  <2>1. /\ brakes' \in [Reflexes -> Brake] /\ fruitless' \in [Reflexes -> Nat]
        /\ rested' \in [Reflexes -> BOOLEAN]
    BY <1>1, <1>3, <1>4, <1>5, <1>6 DEF TypeOK
  <2> QED  BY <1>1, <1>7, <2>1 DEF TypeOK, Attended, Ladder
<1>9. BookedOnce'
  <2>1. \A q \in Waiting' : q \in Reflexes
    BY DEF Waiting, ToSet
  <2> QED  BY <1>7, <2>1, NobodyAssumption DEF BookedOnce, Ordered
<1>10. Booked' \subseteq Booked /\ r \notin Booked'
  BY <1>7 DEF Booked
<1> QED  BY <1>1, <1>3, <1>4, <1>5, <1>6, <1>7, <1>8, <1>9, <1>10, SettleKeeps

\* A child that closes, is given up after SIGKILL, or could not be spawned.
LEMMA RunsKeep == EngineIInv /\ (Close \/ ForceSettle \/ SpawnFails) => EngineIInv'
<1> SUFFICES ASSUME EngineIInv, Close \/ ForceSettle \/ SpawnFails PROVE EngineIInv'
  OBVIOUS
<1>0. copy' \in Copies
  BY CopyIsTyped DEF EngineIInv, Next, Node, Drain, Timers
<1>1. queue \in Seq(Reflexes) /\ Ordered(queue) /\ active \notin Waiting
  BY DEF EngineIInv, TypeOK, BookedOnce, Ordered
<1>2. CASE SpawnFails
  <2> DEFINE r == Head(queue)
  <2>1. /\ queue /= << >> /\ phase = "drain" /\ queue' = Tail(queue)
        /\ brakes' = AfterBrakes(r, FALSE, "error")
        /\ fruitless' = [fruitless EXCEPT ![r] = IF FALSE THEN 0 ELSE @ + 1]
        /\ rested' = [rested EXCEPT ![r] = FALSE]
        /\ StandDown /\ SaveState /\ UNCHANGED <<window, readonly, channel, todo>>
    BY <1>2 DEF SpawnFails
  <2>2. /\ r \in Booked /\ queue' \in Seq(Reflexes) /\ Ordered(queue')
        /\ Waiting' \subseteq Waiting \ {r}
    BY <2>1, PoppedEntry
  <2> HIDE DEF r
  <2> QED  BY <1>0, <2>1, <2>2, RunEndKeeps
<1>3. CASE Close \/ ForceSettle
  <2>1. /\ ladder /= "off" /\ UNCHANGED <<window, readonly, channel, todo>>
        /\ \E t \in BOOLEAN : Ended(t)
    <3>1. ForceSettle => ladder /= "off" /\ Ended(TRUE)
      BY DEF ForceSettle
    <3>2. Close => Ended(ladder /= "armed") /\ (ladder /= "armed") \in BOOLEAN
      BY DEF Close
    <3> QED  BY <1>3, <3>1, <3>2 DEF Close, ForceSettle
  <2>2. PICK status : AfterRun(active, status)
    BY <2>1 DEF Ended
  <2>3. active \in Reflexes /\ active \in Booked
    BY <2>1, NobodyAssumption DEF EngineIInv, TypeOK, Attended, Booked
  <2>4. PICK progress \in Progress(active, status) :
          /\ brakes' = AfterBrakes(active, progress, status)
          /\ fruitless' = [fruitless EXCEPT ![active] = IF progress THEN 0 ELSE @ + 1]
    BY <2>2 DEF AfterRun
  <2>5. progress \in BOOLEAN
    BY <2>4 DEF Progress
  <2>6. /\ rested' = [rested EXCEPT ![active] = FALSE] /\ StandDown /\ SaveState
        /\ queue' = queue \/ queue' = Only(queue, Reflexes \ {active})
    BY <2>2 DEF AfterRun
  <2>7. /\ queue' \in Seq(Reflexes) /\ Ordered(queue')
        /\ Waiting' \subseteq Waiting \ {active}
    <3>1. CASE queue' = queue
      BY <1>1, <3>1 DEF Waiting
    <3>2. CASE queue' = Only(queue, Reflexes \ {active})
      BY <1>1, <3>2, OnlyKeeps DEF Waiting
    <3> QED  BY <2>6, <3>1, <3>2
  <2> QED  BY <1>0, <2>1, <2>3, <2>4, <2>5, <2>6, <2>7, RunEndKeeps
<1> QED  BY <1>2, <1>3

\* A phantom that is suppressed, and a window that closes.
LEMMA NoRunKeeps == EngineIInv /\ (Suppress \/ WindowCloses) => EngineIInv'
<1> SUFFICES ASSUME EngineIInv, Suppress \/ WindowCloses PROVE EngineIInv'
  OBVIOUS
<1>1. TypeOK /\ LongAgo \in Nat \ {0}
  BY LongAgoIsOne DEF EngineIInv
<1>2. /\ active' = Nobody /\ phase' = "drain" /\ ladder' = "off" /\ dirty' = TRUE
      /\ UNCHANGED <<saved, crashes, window, readonly, channel, todo, rested>>
      /\ copy' \in Copies
  <2>1. copy' \in Copies
    BY <1>1, CopyIsTyped DEF Next, Node, Drain, Timers
  <2> QED  BY <2>1 DEF Suppress, WindowCloses, Popped, StandDown, SaveState, world, past
<1>3. ASSUME NEW r \in Reflexes, NEW b \in Brake, NEW n \in Nat,
             brakes' = [brakes EXCEPT ![r] = b], fruitless' = [fruitless EXCEPT ![r] = n],
             queue' \in Seq(Reflexes), Ordered(queue')
      PROVE  TypeOK' /\ Attended' /\ BookedOnce'
  <2>1. brakes' \in [Reflexes -> Brake] /\ fruitless' \in [Reflexes -> Nat]
    BY <1>1, <1>3 DEF TypeOK
  <2>2. \A q \in Waiting' : q \in Reflexes
    BY <1>3 DEF Waiting, ToSet
  <2>3. TypeOK' /\ Attended'
    BY <1>1, <1>2, <1>3, <2>1 DEF TypeOK, Attended, Ladder
  <2> QED  BY <1>2, <1>3, <2>2, <2>3, NobodyAssumption DEF BookedOnce, Ordered
<1>4. CASE Suppress
  <2> DEFINE r == Head(queue)
             b == [brakes[r] EXCEPT !.age = 0, !.consecutive = 0, !.incomplete = 0]
  <2>1. /\ queue /= << >> /\ phase = "drain" /\ queue' = Tail(queue)
        /\ fruitless' = [fruitless EXCEPT ![r] = 0]
    BY <1>4 DEF Suppress, Popped
  <2>2. /\ r \in Reflexes /\ r \in Booked /\ queue' \in Seq(Reflexes) /\ Ordered(queue')
        /\ Waiting' \subseteq Waiting /\ r \notin Waiting'
    BY <2>1, PoppedEntry
  <2>3. brakes' = [brakes EXCEPT ![r] = b]
    BY <1>1, <1>4, <2>2 DEF Suppress, TypeOK
  <2>4. b \in Brake /\ b.age = 0 /\ b.consecutive = 0 /\ b.incomplete = 0
    <3>1. brakes[r] \in Brake /\ 0 \in 0 .. LongAgo /\ 0 \in Nat
      <4> HIDE DEF r
      <4> QED  BY <1>1, <2>2 DEF TypeOK
    <3> DEFINE c == brakes[r]
               d == [c EXCEPT !.age = 0]
               e == [d EXCEPT !.consecutive = 0]
    <3>2. b = [e EXCEPT !.incomplete = 0]
      OBVIOUS
    <3>3. c \in Brake
      BY <3>1
    <3> HIDE DEF b, c
    <3>4. d \in Brake /\ d.age = 0
      BY <3>1, <3>3 DEF Brake
    <3> HIDE DEF d
    <3>5. e \in Brake /\ e.age = 0 /\ e.consecutive = 0
      BY <3>1, <3>4 DEF Brake
    <3> HIDE DEF e
    <3> QED  BY <3>1, <3>2, <3>5 DEF Brake
  <2> HIDE DEF r, b
  <2>5. WithinLimits(b) /\ crashes \in Nat /\ fruitless[r] \in Nat
    BY <1>1, <2>2, <2>4, LimitsAssumption DEF WithinLimits, TypeOK
  <2>6. TypeOK' /\ Attended' /\ BookedOnce'
    BY <1>3, <2>1, <2>2, <2>3, <2>4
  <2>7. r \notin Booked' /\ Booked' \subseteq Booked
    BY <1>2, <2>2 DEF Booked
  <2>8. 0 <= b.consecutive + b.incomplete + crashes /\ 0 <= fruitless[r] + 1
    BY <2>4, <2>5
  <2> QED  BY <1>2, <2>1, <2>2, <2>3, <2>4, <2>5, <2>6, <2>7, <2>8, SettleKeeps
<1>5. CASE WindowCloses
  <2> DEFINE r == active
             age == IF Half < LongAgo THEN Half ELSE LongAgo
             b == [brakes[r] EXCEPT !.age = age]
  <2>1. /\ phase = "approval" /\ UNCHANGED <<queue, fruitless>>
        /\ brakes' = [brakes EXCEPT ![r].age = age]
    BY <1>5 DEF WindowCloses, past
  <2>2. r \in Reflexes /\ r \in Booked /\ r \notin Waiting
    BY <2>1, NobodyAssumption DEF EngineIInv, Attended, BookedOnce, Booked
  <2>3. queue' \in Seq(Reflexes) /\ Ordered(queue') /\ Waiting' = Waiting
    BY <2>1 DEF EngineIInv, TypeOK, BookedOnce, Ordered, Waiting
  <2>4. age \in 0 .. LongAgo
    BY <1>1 DEF Half
  <2> HIDE DEF age
  <2>5. /\ b \in Brake /\ b.consecutive = brakes[r].consecutive
        /\ b.incomplete = brakes[r].incomplete /\ b.stuck = brakes[r].stuck
    BY <1>1, <2>2, <2>4 DEF TypeOK, Brake
  <2>6. brakes' = [brakes EXCEPT ![r] = b]
    BY <1>1, <2>1, <2>2 DEF TypeOK
  <2> HIDE DEF b
  <2>7. /\ WithinLimits(b) /\ fruitless[r] \in Nat
        /\ fruitless[r] <= b.consecutive + b.incomplete + crashes
    BY <1>1, <2>2, <2>5
    DEF EngineIInv, CountersAreLimited, RunsAreCounted, WithinLimits, TypeOK
  <2>8. fruitless' = [fruitless EXCEPT ![r] = fruitless[r]]
    BY <1>1, <2>1, <2>2 DEF TypeOK
  <2>9. TypeOK' /\ Attended' /\ BookedOnce'
    BY <1>3, <2>2, <2>3, <2>5, <2>6, <2>7, <2>8
  <2>10. r \notin Booked' /\ Booked' \subseteq Booked
    BY <1>2, <2>2, <2>3 DEF Booked
  <2> HIDE DEF r
  <2> QED  BY <1>2, <2>2, <2>5, <2>6, <2>7, <2>8, <2>9, <2>10, SettleKeeps
<1> QED  BY <1>4, <1>5

\* The operator releases parked reflexes.
LEMMA ReleaseKeeps ==
  ASSUME EngineIInv, NEW R \in SUBSET Reflexes, ClearStuck(R)
  PROVE  EngineIInv'
<1>1. TypeOK /\ UNCHANGED <<world, engine, rested, saved, crashes>> /\ dirty' = TRUE
  BY DEF EngineIInv, ClearStuck, SaveState
<1>2. Booked' = Booked /\ Held' = Held
  BY <1>1 DEF Booked, Held, Waiting, engine
<1>3. ASSUME NEW r \in Reflexes, r \notin R
      PROVE  brakes'[r] = brakes[r] /\ fruitless'[r] = fruitless[r]
  BY <1>3 DEF ClearStuck
<1>4. ASSUME NEW r \in R
      PROVE  /\ brakes'[r] \in Brake /\ brakes'[r].age = brakes[r].age
             /\ brakes'[r].consecutive = 0 /\ brakes'[r].incomplete = 0
             /\ brakes'[r].stuck = FALSE /\ fruitless'[r] = 0
  <2>1. brakes'[r] = [Released EXCEPT !.age = brakes[r].age] /\ fruitless'[r] = 0
    BY DEF ClearStuck
  <2> DEFINE a == brakes[r].age
             b == [Released EXCEPT !.age = a]
  <2>2. r \in Reflexes /\ brakes[r] \in Brake
    BY <1>1 DEF TypeOK
  <2>3. a \in 0 .. LongAgo
    BY <2>2 DEF Brake
  <2> HIDE DEF a
  <2> DEFINE c == Released
  <2>4. c \in Brake /\ c.consecutive = 0 /\ c.incomplete = 0 /\ c.stuck = FALSE
    BY LongAgoIsOne DEF Released, Brake
  <2> HIDE DEF c
  <2>5. b = [c EXCEPT !.age = a]
    BY DEF c
  <2> HIDE DEF b
  <2>6. b \in Brake /\ b.age = a /\ b.consecutive = 0 /\ b.incomplete = 0 /\ b.stuck = FALSE
    BY <2>3, <2>4, <2>5 DEF Brake
  <2> QED  BY <2>1, <2>6 DEF a, b
<1>5. TypeOK'
  <2>1. /\ brakes' = [r \in Reflexes |-> brakes'[r]]
        /\ fruitless' = [r \in Reflexes |-> fruitless'[r]]
    BY DEF ClearStuck
  <2>2. ASSUME NEW r \in Reflexes PROVE brakes'[r] \in Brake /\ fruitless'[r] \in Nat
    <3>1. CASE r \in R
      <4>1. brakes'[r] \in Brake /\ fruitless'[r] = 0
        BY <1>4, <3>1
      <4> QED  BY <4>1
    <3>2. CASE r \notin R
      <4>1. brakes'[r] = brakes[r] /\ fruitless'[r] = fruitless[r]
        BY <1>3, <3>2
      <4>2. brakes[r] \in Brake /\ fruitless[r] \in Nat
        BY <1>1 DEF TypeOK
      <4> QED  BY <4>1, <4>2
    <3> QED  BY <3>1, <3>2
  <2>3. brakes' \in [Reflexes -> Brake] /\ fruitless' \in [Reflexes -> Nat]
    BY <2>1, <2>2
  <2> QED  BY <1>1, <2>3 DEF TypeOK, world, engine
<1>6. Attended' /\ BookedOnce' /\ ChannelsExclude'
  BY <1>1, <1>2
  DEF EngineIInv, Attended, BookedOnce, ChannelsExclude, Waiting, engine, world
<1>7. \A r \in Reflexes : r \notin R \/ r \in R
  OBVIOUS
<1>8. CountersAreLimited'
  <2>1. ASSUME NEW r \in R PROVE WithinLimits(brakes'[r])
    <3> DEFINE b == brakes'[r]
    <3>1. b.stuck = FALSE /\ b.consecutive = 0 /\ b.incomplete = 0
      BY <1>4
    <3> HIDE DEF b
    <3>2. WithinLimits(b)
      BY <3>1, LimitsAssumption DEF WithinLimits
    <3> QED  BY <3>2 DEF b
  <2> QED  BY <1>1, <1>3, <2>1 DEF EngineIInv, CountersAreLimited
<1>9. ParkedIsNotBooked'
  <2>1. Booked \subseteq Reflexes
    BY <1>1 DEF TypeOK, Booked, Waiting, ToSet
  <2> QED  BY <1>2, <1>3, <1>4, <2>1 DEF EngineIInv, ParkedIsNotBooked
<1>10. crashes \in Nat /\ \A r \in Reflexes :
         saved[r].consecutive \in Nat /\ saved[r].incomplete \in Nat
  BY <1>1 DEF TypeOK, Brake
<1>11. RunsAreCounted'
  <2> SUFFICES ASSUME NEW r \in Reflexes
               PROVE  fruitless'[r] <= brakes'[r].consecutive + brakes'[r].incomplete + crashes
    BY <1>1 DEF RunsAreCounted
  <2>1. CASE r \in R
    <3>1. /\ fruitless'[r] = 0 /\ brakes'[r].consecutive = 0 /\ brakes'[r].incomplete = 0
      BY <1>4, <2>1
    <3> QED  BY <1>10, <3>1
  <2>2. CASE r \notin R
    BY <1>3, <2>2 DEF EngineIInv, RunsAreCounted
  <2> QED  BY <2>1, <2>2
<1>12. FileIsOneBehind'
  <2> SUFFICES ASSUME NEW r \in Reflexes
               PROVE  \/ fruitless'[r] <= saved[r].consecutive + saved[r].incomplete + crashes
                      \/ /\ brakes'[r].age = 0 /\ r \notin Booked
                         /\ fruitless'[r]
                              <= saved[r].consecutive + saved[r].incomplete + crashes + 1
    BY <1>1, <1>2 DEF FileIsOneBehind
  <2>1. CASE r \in R
    <3>1. fruitless'[r] = 0
      BY <1>4, <2>1
    <3> QED  BY <1>10, <3>1
  <2>2. CASE r \notin R
    BY <1>3, <2>2 DEF EngineIInv, FileIsOneBehind
  <2> QED  BY <2>1, <2>2
<1>13. BookedHaveRested'
  BY <1>1, <1>2, <1>3, <1>4 DEF EngineIInv, BookedHaveRested
<1> QED  BY <1>5, <1>6, <1>8, <1>9, <1>11, <1>12, <1>13 DEF EngineIInv

\* A save writes what the engine knows.
LEMMA SaveKeeps == EngineIInv /\ SaveTimer => EngineIInv'
<1> SUFFICES ASSUME EngineIInv, SaveTimer PROVE EngineIInv'
  OBVIOUS
<1>1. /\ TypeOK /\ UNCHANGED <<world, engine, brakes, crashes, past>>
      /\ saved' = brakes /\ dirty' = FALSE
  BY DEF EngineIInv, SaveTimer
<1>2. Booked' = Booked /\ Held' = Held
  BY <1>1 DEF Booked, Held, Waiting, engine
<1>3. TypeOK'
  BY <1>1 DEF TypeOK, world, engine, past
<1>4. Attended' /\ BookedOnce' /\ ChannelsExclude'
  BY <1>1, <1>2
  DEF EngineIInv, Attended, BookedOnce, ChannelsExclude, Waiting, engine, world
<1>5. CountersAreLimited' /\ RunsAreCounted' /\ FileIsOneBehind'
  BY <1>1
  DEF EngineIInv, CountersAreLimited, RunsAreCounted, FileIsOneBehind, past
<1>6. ParkedIsNotBooked' /\ BookedHaveRested'
  BY <1>1, <1>2 DEF EngineIInv, ParkedIsNotBooked, BookedHaveRested, past
<1> QED  BY <1>3, <1>4, <1>5, <1>6 DEF EngineIInv

\* A restart books nothing and knows what the file says.
LEMMA RestartKeeps == EngineIInv /\ Restart => EngineIInv'
<1> SUFFICES ASSUME EngineIInv, Restart PROVE EngineIInv'
  OBVIOUS
<1>1. /\ TypeOK /\ UNCHANGED <<window, readonly, channel, saved, fruitless>>
      /\ crashes' = crashes + 1
      /\ todo' = << >> /\ queue' = << >> /\ active' = Nobody /\ phase' = "idle"
      /\ ladder' = "off" /\ brakes' = saved /\ dirty' = FALSE
      /\ rested' = [r \in Reflexes |-> rested[r] \/ saved[r].age /= brakes[r].age]
  BY DEF EngineIInv, Restart
<1>2. << >> \in Seq(Reflexes) /\ DOMAIN << >> = {}
  OBVIOUS
<1>3. Waiting' = {} /\ Booked' = {} /\ Held' = {}
  BY <1>1, <1>2 DEF Waiting, Booked, Held, ToSet
<1>4. TypeOK'
  <2>1. crashes' \in Nat /\ rested' \in [Reflexes -> BOOLEAN]
    BY <1>1 DEF TypeOK
  <2>2. copy' \in Copies
    BY <1>1, CopyIsTyped DEF Next
  <2> QED  BY <1>1, <1>2, <2>1, <2>2 DEF TypeOK, Ladder
<1>5. Attended' /\ BookedOnce' /\ ChannelsExclude' /\ ParkedIsNotBooked'
  BY <1>1, <1>2, <1>3
  DEF Attended, BookedOnce, ChannelsExclude, ParkedIsNotBooked
<1>6. CountersAreLimited'
  BY <1>1 DEF EngineIInv, CountersAreLimited
<1>7. \A r \in Reflexes :
        fruitless[r] <= saved[r].consecutive + saved[r].incomplete + (crashes + 1)
  <2> SUFFICES ASSUME NEW r \in Reflexes
               PROVE  fruitless[r] <=
                        saved[r].consecutive + saved[r].incomplete + (crashes + 1)
    OBVIOUS
  <2>1. /\ fruitless[r] \in Nat /\ crashes \in Nat
        /\ saved[r].consecutive \in Nat /\ saved[r].incomplete \in Nat
    BY <1>1 DEF TypeOK, Brake
  <2>2. fruitless[r] <= saved[r].consecutive + saved[r].incomplete + crashes + 1
    BY <2>1 DEF EngineIInv, FileIsOneBehind
  <2> QED  BY <2>1, <2>2
<1>8. RunsAreCounted' /\ FileIsOneBehind'
  BY <1>1, <1>7 DEF RunsAreCounted, FileIsOneBehind
<1>9. BookedHaveRested'
  <2> SUFFICES ASSUME NEW r \in Reflexes, ~rested'[r] PROVE brakes'[r].age = 0
    BY <1>3 DEF BookedHaveRested
  <2>1. ~rested[r] /\ saved[r].age = brakes[r].age
    BY <1>1
  <2> QED  BY <1>1, <2>1 DEF EngineIInv, BookedHaveRested
<1> QED  BY <1>4, <1>5, <1>6, <1>8, <1>9 DEF EngineIInv

\* A record that ages keeps its counters.
LEMMA OlderKeeps ==
  ASSUME NEW b \in Brake
  PROVE  /\ Older(b) \in Brake /\ Older(b).consecutive = b.consecutive
         /\ Older(b).incomplete = b.incomplete /\ Older(b).stuck = b.stuck
<1> DEFINE a == IF b.age < LongAgo THEN b.age + 1 ELSE b.age
<1>1. a \in 0 .. LongAgo
  BY LongAgoIsOne DEF Brake
<1>2. Older(b) = [b EXCEPT !.age = a]
  BY DEF Older, Brake
<1> HIDE DEF a
<1> QED  BY <1>1, <1>2 DEF Brake

\* Time passes, with nothing left to save.
LEMMA TickKeeps == EngineIInv /\ Tick => EngineIInv'
<1> SUFFICES ASSUME EngineIInv, Tick PROVE EngineIInv'
  OBVIOUS
<1>1. /\ TypeOK /\ UNCHANGED <<window, readonly, channel, engine, dirty, crashes, fruitless>>
      /\ ~dirty
      /\ brakes' = [r \in Reflexes |-> Older(brakes[r])]
      /\ saved' = [r \in Reflexes |-> Older(saved[r])]
      /\ rested' = [r \in Reflexes |-> TRUE]
  BY DEF EngineIInv, Tick
<1>2. Booked' = Booked /\ Held' = Held
  BY <1>1 DEF Booked, Held, Waiting, engine
<1>3. ASSUME NEW r \in Reflexes
      PROVE  /\ brakes'[r] \in Brake /\ brakes'[r].consecutive = brakes[r].consecutive
             /\ brakes'[r].incomplete = brakes[r].incomplete
             /\ brakes'[r].stuck = brakes[r].stuck
             /\ saved'[r] \in Brake /\ saved'[r].consecutive = saved[r].consecutive
             /\ saved'[r].incomplete = saved[r].incomplete /\ saved'[r].stuck = saved[r].stuck
  <2>1. brakes[r] \in Brake /\ saved[r] \in Brake
    BY <1>1 DEF TypeOK
  <2>2. brakes'[r] = Older(brakes[r]) /\ saved'[r] = Older(saved[r])
    BY <1>1
  <2> QED  BY <2>1, <2>2, OlderKeeps
<1>4. TypeOK'
  <2>1. /\ brakes' = [r \in Reflexes |-> brakes'[r]] /\ saved' = [r \in Reflexes |-> saved'[r]]
    BY <1>1
  <2>2. brakes' \in [Reflexes -> Brake] /\ saved' \in [Reflexes -> Brake]
    BY <1>3, <2>1
  <2>3. rested' \in [Reflexes -> BOOLEAN]
    BY <1>1
  <2>4. copy' \in Copies
    BY <1>1, CopyIsTyped DEF Next
  <2> QED  BY <1>1, <2>2, <2>3, <2>4 DEF TypeOK, engine
<1>5. Attended' /\ BookedOnce' /\ ChannelsExclude'
  BY <1>1, <1>2
  DEF EngineIInv, Attended, BookedOnce, ChannelsExclude, Waiting, engine
<1>6. CountersAreLimited'
  BY <1>3 DEF EngineIInv, CountersAreLimited, WithinLimits
<1>7. RunsAreCounted' /\ FileIsOneBehind'
  BY <1>1, <1>3 DEF EngineIInv, RunsAreCounted, FileIsOneBehind
<1>8. ParkedIsNotBooked'
  <2>1. Booked \subseteq Reflexes
    BY <1>1 DEF TypeOK, Booked, Waiting, ToSet
  <2> QED  BY <1>2, <1>3, <2>1 DEF EngineIInv, ParkedIsNotBooked
<1>9. BookedHaveRested'
  BY <1>1 DEF BookedHaveRested
<1> QED  BY <1>4, <1>5, <1>6, <1>7, <1>8, <1>9 DEF EngineIInv

\* The metadata, and the exec channel.
LEMMA WorldKeeps ==
  ASSUME EngineIInv,
         \/ MetadataChanges \/ CopyExpires
         \/ \E c \in Commands : ChannelTakes(c) \/ ChannelGives(c)
  PROVE  EngineIInv'
<1>1. TypeOK /\ UNCHANGED <<window, engine, brakes, disk, past>>
  BY DEF EngineIInv, MetadataChanges, CopyExpires, ChannelTakes, ChannelGives
<1>2. Booked' = Booked /\ Held' = Held
  BY <1>1 DEF Booked, Held, Waiting, engine
<1>3. readonly' \subseteq Commands /\ channel' \subseteq Commands /\ copy' \in Copies
  <2>1. copy' \in Copies
    BY <1>1, CopyIsTyped DEF Next
  <2> QED  BY <1>1, <2>1, DiagnosticAssumption
           DEF TypeOK, MetadataChanges, CopyExpires, ChannelTakes, ChannelGives
<1>4. TypeOK'
  BY <1>1, <1>3 DEF TypeOK, engine, disk, past
<1>5. Attended' /\ BookedOnce'
  BY <1>1 DEF EngineIInv, Attended, BookedOnce, Waiting, engine
<1>6. ChannelsExclude'
  BY <1>2 DEF EngineIInv, ChannelsExclude, MetadataChanges, CopyExpires, ChannelTakes,
              ChannelGives
<1>7. CountersAreLimited' /\ RunsAreCounted' /\ FileIsOneBehind'
  BY <1>1, <1>2
  DEF EngineIInv, CountersAreLimited, RunsAreCounted, FileIsOneBehind, disk, past
<1>8. ParkedIsNotBooked' /\ BookedHaveRested'
  BY <1>1, <1>2 DEF EngineIInv, ParkedIsNotBooked, BookedHaveRested, past
<1> QED  BY <1>4, <1>5, <1>6, <1>7, <1>8 DEF EngineIInv

\* What other programs do changes nothing here.
LEMMA StutterKeeps == EngineIInv /\ UNCHANGED vars => EngineIInv'
<1> SUFFICES ASSUME EngineIInv, UNCHANGED vars PROVE EngineIInv'
  OBVIOUS
<1>1. UNCHANGED <<world, engine, brakes, disk, past>>
  BY DEF vars
<1>2. Booked' = Booked /\ Held' = Held /\ Waiting' = Waiting
  BY <1>1 DEF Booked, Held, Waiting, engine
<1>3. TypeOK' /\ Attended' /\ BookedOnce' /\ ChannelsExclude'
  BY <1>1, <1>2 DEF EngineIInv, TypeOK, Attended, BookedOnce, ChannelsExclude,
                    world, engine, disk, past
<1>4. /\ CountersAreLimited' /\ ParkedIsNotBooked'
      /\ RunsAreCounted' /\ FileIsOneBehind' /\ BookedHaveRested'
  BY <1>1, <1>2 DEF EngineIInv, CountersAreLimited, ParkedIsNotBooked, RunsAreCounted,
                    FileIsOneBehind, BookedHaveRested, disk, past
<1> QED  BY <1>3, <1>4 DEF EngineIInv

\* Every handler of the engine keeps the invariant.
LEMMA EngineStepKeeps == EngineIInv /\ [Next]_vars => EngineIInv'
<1> SUFFICES ASSUME EngineIInv, Next \/ UNCHANGED vars PROVE EngineIInv'
  OBVIOUS
<1>1. CASE Check
  BY <1>1, CheckKeeps
<1>2. CASE CheckEntry \/ \E r \in Reflexes : InjectReflex(r)
  BY <1>2, JudgementKeeps
<1>3. CASE DrainNothing \/ AskOperator \/ Retire \/ Spawn \/ KillTimer \/ Escalate
  BY <1>3, DrainKeeps
<1>4. CASE Suppress \/ WindowCloses
  BY <1>4, NoRunKeeps
<1>5. CASE Close \/ ForceSettle \/ SpawnFails
  BY <1>5, RunsKeep
<1>6. CASE \E R \in SUBSET Reflexes : ClearStuck(R)
  BY <1>6, ReleaseKeeps
<1>7. CASE SaveTimer \/ Restart \/ Tick
  BY <1>7, SaveKeeps, RestartKeeps, TickKeeps
<1>8. CASE \/ MetadataChanges \/ CopyExpires
           \/ \E c \in Commands : ChannelTakes(c) \/ ChannelGives(c)
  BY <1>8, WorldKeeps
<1>9. CASE UNCHANGED vars
  BY <1>9, StutterKeeps
<1> QED  BY <1>1, <1>2, <1>3, <1>4, <1>5, <1>6, <1>7, <1>8, <1>9
         DEF Next, Node, Drain, Timers

\* The three brakes, the queue and the exec channel together: what holds of the engine
\* after checks, drains, runs, crashes and clicks in any order
\* (api/src/reflex-engine.ts:574-606, 835-935, 1270-1403).
THEOREM EngineKeepsItsBooks == Spec => []ReflexInv
<1>1. Init => EngineIInv
  BY EngineStart
<1>2. EngineIInv /\ [Next]_vars => EngineIInv'
  BY EngineStepKeeps
<1>3. EngineIInv => ReflexInv
  BY EngineFollows
<1> QED  BY <1>1, <1>2, <1>3, PTL DEF Spec

\* Only Spawn starts a child, and it starts the one it took from the queue.
LEMMA OnlySpawnStarts ==
  ASSUME EngineIInv, [Next]_vars
  PROVE  \/ Spawn
         \/ /\ phase' \in {"mechanism", "skill"} => active' = active
            /\ phase' = "skill" => phase = "skill"
<1>1. CASE Check \/ KillTimer \/ Escalate
  BY <1>1 DEF Check, KillTimer, Escalate
<1>2. CASE CheckEntry
  BY <1>2 DEF CheckEntry, AfterEntry
<1>3. CASE \E r \in Reflexes : InjectReflex(r)
  BY <1>3 DEF InjectReflex
<1>4. CASE DrainNothing \/ AskOperator
  BY <1>4 DEF DrainNothing, AskOperator
<1>5. CASE Suppress \/ Retire \/ SpawnFails \/ WindowCloses
  BY <1>5 DEF Suppress, Retire, SpawnFails, WindowCloses, StandDown
<1>6. CASE Close \/ ForceSettle
  BY <1>6 DEF Close, ForceSettle, Ended, AfterRun, StandDown
<1>7. CASE \E R \in SUBSET Reflexes : ClearStuck(R)
  BY <1>7 DEF ClearStuck, engine
<1>8. CASE SaveTimer \/ Restart \/ Tick
  BY <1>8 DEF SaveTimer, Restart, Tick, engine
<1>9. CASE \/ MetadataChanges \/ CopyExpires
           \/ \E c \in Commands : ChannelTakes(c) \/ ChannelGives(c)
  BY <1>9 DEF MetadataChanges, CopyExpires, ChannelTakes, ChannelGives, engine
<1>10. CASE UNCHANGED vars
  BY <1>10 DEF vars, engine
<1> QED  BY <1>1, <1>2, <1>3, <1>4, <1>5, <1>6, <1>7, <1>8, <1>9, <1>10
         DEF Next, Node, Drain, Timers

\* Autonomous repair is retired for good: whatever the metadata said when a reflex was
\* queued, a skill is spawned only if the metadata has called it read-only since the
\* copy in use was read, a minute ago at most
\* (api/src/reflex-engine.ts:607-611, 905-918, 1664-1683).
THEOREM RepairStaysRetired == Spec => NoAutonomousRepair
<1> DEFINE Judged == phase /= "skill" /\ phase' = "skill" => CommandOf(active') \in copy.lately
           Inv    == EngineIInv /\ CopyFollows
<1>1. Init => Inv
  BY EngineStart DEF Init, NoCopy, CopyFollows
<1>2. Inv /\ [Next]_vars => Inv'
  <2>1. Inv /\ Next => CopyFollows'
    BY CopyIsTyped DEF EngineIInv
  <2>2. Inv /\ UNCHANGED vars => CopyFollows'
    BY DEF vars, world, CopyFollows
  <2> QED  BY <2>1, <2>2, EngineStepKeeps
<1>3. ASSUME Inv, [Next]_vars PROVE Judged
  <2>1. ASSUME Spawn, phase' = "skill" PROVE CommandOf(active') \in copy.lately
    <3>1. PICK known \in SUBSET Commands :
            RunsOn(Head(queue), known) /\ MayQueueRepair(Head(queue), known)
      BY <2>1 DEF Spawn
    <3>2. PICK seen \in Found : known \in FoundAfter(seen)
      BY <3>1 DEF RunsOn
    <3>3. known \subseteq copy.lately
      BY <1>3, <3>2, FoundIsKnown DEF EngineIInv
    <3>4. active' = Head(queue) /\ Mechanism(Head(queue)) = "none"
      BY <2>1 DEF Spawn
    <3> QED  BY <3>1, <3>3, <3>4 DEF MayQueueRepair
  <2> QED  BY <1>3, <2>1, OnlySpawnStarts
<1>4. Inv /\ [Next]_vars => [Judged]_vars
  BY <1>3
<1> QED  BY <1>1, <1>2, <1>4, PTL DEF Spec, NoAutonomousRepair

\* Between two runs of one reflex time passes, unless a crash lost the first's record
\* (api/src/reflex-engine.ts:628-640, 1133-1143).
THEOREM RunsAreRested == Spec => RestBetweenRuns
<1> DEFINE Rests == \A r \in Reflexes : Starts(r) => rested[r]
<1>1. ASSUME EngineIInv, [Next]_vars PROVE Rests
  <2>1. ASSUME Spawn, NEW r \in Reflexes, Starts(r) PROVE rested[r]
    <3>1. queue /= << >> /\ phase = "drain" /\ queue' = Tail(queue) /\ active' = Head(queue)
      BY <2>1 DEF Spawn, Popped
    <3>2. r \in Booked
      BY <1>1, <2>1, <3>1, PoppedEntry DEF Starts
    <3> QED  BY <1>1, <3>2 DEF EngineIInv, BookedHaveRested
  <2> QED  BY <1>1, <2>1, OnlySpawnStarts DEF Starts
<1>2. EngineIInv /\ [Next]_vars => [Rests]_vars
  BY <1>1
<1> QED  BY <1>2, EngineStart, EngineStepKeeps, PTL DEF Spec, RestBetweenRuns
=============================================================================
