-------------------------- MODULE BlockParserProofs --------------------------
(* Proofs about BlockParser, for any lines and any number of blocks. *)
EXTENDS BlockParser, TLAPS, WellFoundedInduction, FiniteSetTheorems

-----------------------------------------------------------------------------
(* Sets of numbers, and sequences. *)

LEMMA LeastNat ==
  ASSUME NEW T, T \subseteq Nat, T # {}
  PROVE  \E m \in T : \A k \in T : m <= k
<1> DEFINE I == {0 .. n : n \in T}
<1>1. IsWellFoundedOn(StrictSubsetOrdering(Nat), FiniteSubsetsOf(Nat))
  BY FS_StrictSubsetOrderingWellFounded
<1>2. ASSUME NEW n \in T
      PROVE  0 .. n \in FiniteSubsetsOf(Nat)
  BY FS_Interval, SMT DEF FiniteSubsetsOf
<1>3. I \subseteq FiniteSubsetsOf(Nat) /\ I # {}
  BY <1>2
<1>4. PICK x \in I : \A y \in I : <<y, x>> \notin StrictSubsetOrdering(Nat)
  BY <1>1, <1>3, WFMin
<1>5. PICK m \in T : x = 0 .. m
  OBVIOUS
<1>6. ASSUME NEW k \in T, k < m
      PROVE  FALSE
  <2>1. k \in Nat /\ m \in Nat
    OBVIOUS
  <2>2. m \in 0 .. m /\ m \notin 0 .. k /\ 0 .. k \subseteq 0 .. m
    BY <1>6, <2>1
  <2>3. <<0 .. k, 0 .. m>> \in StrictSubsetOrdering(Nat)
    BY <2>1, <2>2 DEF StrictSubsetOrdering
  <2> QED BY <1>4, <1>5, <2>3
<1> QED BY <1>5, <1>6

LEMMA RemoveFirstEffect ==
  ASSUME NEW S, NEW s \in Seq(S), IsInjective(s), NEW e
  PROVE  /\ RemoveFirst(s, e) \in Seq(S)
         /\ ToSet(RemoveFirst(s, e)) = ToSet(s) \ {e}
         /\ IsInjective(RemoveFirst(s, e))
         /\ s # <<>> /\ Last(s) # e =>
              /\ RemoveFirst(s, e) # <<>>
              /\ Last(RemoveFirst(s, e)) = Last(s)
         /\ \A j, k \in 1 .. Len(RemoveFirst(s, e)) : j < k =>
              \E x, y \in 1 .. Len(s) : /\ x < y
                                        /\ RemoveFirst(s, e)[j] = s[x]
                                        /\ RemoveFirst(s, e)[k] = s[y]
<1>1. CASE \E i \in 1 .. Len(s) : s[i] = e
  <2>1. PICK i \in 1 .. Len(s) : s[i] = e
    BY <1>1
  <2>2. {j \in 1 .. Len(s) : s[j] = e} = {i}
    BY <2>1 DEF IsInjective
  <2>3. Min({i}) = i
    BY DEF Min
  <2>4. RemoveFirst(s, e) = RemoveAt(s, i)
    BY <1>1, <2>2, <2>3 DEF RemoveFirst, SelectInSeq
  <2> DEFINE r == RemoveAt(s, i)
  <2>5. /\ r \in Seq(S)
        /\ Len(r) = Len(s) - 1
        /\ \A j \in 1 .. Len(s) - 1 : r[j] = IF j < i THEN s[j] ELSE s[j + 1]
    <3> DEFINE p == SubSeq(s, 1, i - 1)
               q == SubSeq(s, i + 1, Len(s))
    <3>1. /\ p \in Seq(S) /\ Len(p) = i - 1
          /\ \A j \in 1 .. i - 1 : p[j] = s[j]
      BY <2>1
    <3>2. /\ q \in Seq(S) /\ Len(q) = Len(s) - i
          /\ \A j \in 1 .. Len(s) - i : q[j] = s[j + i]
      BY <2>1
    <3>3. r = p \o q
      BY DEF RemoveAt
    <3> HIDE DEF p, q, r
    <3>4. r \in Seq(S) /\ Len(r) = Len(s) - 1
      BY <2>1, <3>1, <3>2, <3>3
    <3>5. ASSUME NEW j \in 1 .. Len(s) - 1
          PROVE  r[j] = IF j < i THEN s[j] ELSE s[j + 1]
      <4>1. CASE j < i
        BY <2>1, <3>1, <3>2, <3>3, <4>1
      <4>2. CASE ~(j < i)
        <5>1. j - (i - 1) \in 1 .. Len(s) - i
          BY <2>1, <4>2
        <5>2. r[j] = q[j - (i - 1)]
          BY <2>1, <3>1, <3>2, <3>3, <4>2, <5>1
        <5>3. q[j - (i - 1)] = s[(j - (i - 1)) + i]
          BY <3>2, <5>1
        <5>4. (j - (i - 1)) + i = j + 1
          BY <2>1
        <5> QED BY <4>2, <5>2, <5>3, <5>4
      <4> QED BY <4>1, <4>2
    <3> QED BY <3>4, <3>5
  <2> HIDE DEF r
  <2>6. ToSet(r) = ToSet(s) \ {e}
    <3>1. ASSUME NEW x \in ToSet(s) \ {e}
          PROVE  x \in ToSet(r)
      <4>1. PICK j \in 1 .. Len(s) : s[j] = x
        BY DEF ToSet
      <4>2. j # i
        BY <2>1, <4>1
      <4>3. CASE j < i
        BY <2>1, <2>5, <4>1, <4>3 DEF ToSet
      <4>4. CASE j > i
        <5>1. j - 1 \in 1 .. Len(s) - 1 /\ ~(j - 1 < i) /\ (j - 1) + 1 = j
          BY <2>1, <4>1, <4>4
        <5>2. r[j - 1] = x /\ j - 1 \in DOMAIN r
          BY <2>5, <4>1, <5>1
        <5> QED BY <5>2 DEF ToSet
      <4> QED BY <4>2, <4>3, <4>4
    <3>2. ASSUME NEW x \in ToSet(r)
          PROVE  x \in ToSet(s) \ {e}
      <4>1. PICK j \in 1 .. Len(s) - 1 : r[j] = x
        BY <2>5 DEF ToSet
      <4>2. PICK k \in 1 .. Len(s) : s[k] = x /\ k # i
        BY <2>1, <2>5, <4>1
      <4>3. s[k] # s[i]
        BY <2>1, <4>2 DEF IsInjective
      <4> QED BY <2>1, <4>2, <4>3 DEF ToSet
    <3> QED BY <3>1, <3>2
  <2>7. IsInjective(r)
    <3> SUFFICES ASSUME NEW j \in 1 .. Len(s) - 1, NEW k \in 1 .. Len(s) - 1,
                        r[j] = r[k]
                 PROVE  j = k
      BY <2>5 DEF IsInjective
    <3>1. PICK x \in 1 .. Len(s) : x = (IF j < i THEN j ELSE j + 1) /\ r[j] = s[x]
      BY <2>1, <2>5
    <3>2. PICK y \in 1 .. Len(s) : y = (IF k < i THEN k ELSE k + 1) /\ r[k] = s[y]
      BY <2>1, <2>5
    <3>3. x = y
      <4>1. s[x] = s[y]
        BY <3>1, <3>2
      <4>2. DOMAIN s = 1 .. Len(s)
        OBVIOUS
      <4> QED BY <4>1, <4>2 DEF IsInjective
    <3> QED BY <2>1, <3>1, <3>2, <3>3
  <2>8. ASSUME s # <<>>, Last(s) # e
        PROVE  r # <<>> /\ Last(r) = Last(s)
    <3>1. i < Len(s)
      BY <2>1, <2>8 DEF Last
    <3> QED BY <2>1, <2>5, <3>1 DEF Last
  <2>9. ASSUME NEW j \in 1 .. Len(r), NEW k \in 1 .. Len(r), j < k
        PROVE  \E x, y \in 1 .. Len(s) : x < y /\ r[j] = s[x] /\ r[k] = s[y]
    <3>1. PICK x \in 1 .. Len(s) : x = (IF j < i THEN j ELSE j + 1) /\ r[j] = s[x]
      BY <2>1, <2>5
    <3>2. PICK y \in 1 .. Len(s) : y = (IF k < i THEN k ELSE k + 1) /\ r[k] = s[y]
      BY <2>1, <2>5
    <3>3. x < y
      BY <2>1, <2>5, <2>9, <3>1, <3>2
    <3> QED BY <3>1, <3>2, <3>3
  <2> QED BY <2>4, <2>5, <2>6, <2>7, <2>8, <2>9 DEF r
<1>2. CASE ~ \E i \in 1 .. Len(s) : s[i] = e
  BY <1>2 DEF RemoveFirst, ToSet
<1> QED BY <1>1, <1>2

LEMMA AppendEffect ==
  ASSUME NEW S, NEW s \in Seq(S), IsInjective(s), NEW e \in S, e \notin ToSet(s)
  PROVE  /\ Append(s, e) \in Seq(S)
         /\ ToSet(Append(s, e)) = ToSet(s) \cup {e}
         /\ IsInjective(Append(s, e))
         /\ Append(s, e) # <<>>
         /\ Last(Append(s, e)) = e
<1> DEFINE r == Append(s, e)
<1>1. /\ r \in Seq(S)
      /\ Len(r) = Len(s) + 1
      /\ \A i \in 1 .. Len(s) : r[i] = s[i]
      /\ r[Len(s) + 1] = e
  OBVIOUS
<1> HIDE DEF r
<1>2. ToSet(r) = ToSet(s) \cup {e}
  BY <1>1 DEF ToSet
<1>3. IsInjective(r)
  BY <1>1 DEF IsInjective, ToSet
<1> QED BY <1>1, <1>2, <1>3 DEF Last, r

-----------------------------------------------------------------------------
(* The blocks above a block. *)

Blocks(ns) == {n \in Id : ns[n] # Unused}

\* The loop over ->parent that Up stands for, as a sequence of its values.
IsClimb(up, ns, n) ==
  /\ up[0] = n
  /\ \A i \in 1 .. MaxBlocks :
       up[i] = IF up[i - 1] = None THEN None ELSE ns[up[i - 1]].parent

LEMMA UpClimb ==
  ASSUME NEW ns, NEW n
  PROVE  \E up : /\ IsClimb(up, ns, n)
                 /\ Up(ns, n) = {up[i] : i \in 0 .. MaxBlocks} \ {None}
<1> DEFINE Good(k, up) ==
      up = [i \in 0 .. k |->
              IF i = 0 THEN n
              ELSE IF up[i - 1] = None THEN None ELSE ns[up[i - 1]].parent]
    Bad == {k \in Nat : ~ \E up : Good(k, up)}
<1>1. MaxBlocks \in Nat
  BY BoundsAssumption
<1>2. ASSUME Bad # {}
      PROVE  FALSE
  <2>1. PICK k \in Bad : \A j \in Bad : k <= j
    <3>1. Bad \subseteq Nat
      OBVIOUS
    <3> HIDE DEF Bad
    <3> QED BY <1>2, <3>1, LeastNat
  <2>2. k \in Nat
    OBVIOUS
  <2>3. CASE k = 0
    <3> DEFINE f == [i \in 0 .. 0 |-> n]
    <3>1. Good(0, f)
      <4>1. \A i \in 0 .. 0 : i = 0
        OBVIOUS
      <4> QED BY <4>1
    <3> QED BY <2>1, <2>3, <3>1
  <2>4. CASE k # 0
    <3>1. k - 1 \in Nat /\ k - 1 \notin Bad
      <4>1. k - 1 \in Nat /\ ~(k <= k - 1)
        BY <2>2, <2>4
      <4> HIDE DEF Bad
      <4> QED BY <2>1, <4>1
    <3>2. PICK f : Good(k - 1, f)
      BY <3>1
    <3> DEFINE g == [i \in 0 .. k |->
                       IF i = 0 THEN n
                       ELSE IF f[i - 1] = None THEN None ELSE ns[f[i - 1]].parent]
    <3>3. \A i \in 0 .. k - 1 : g[i] = f[i]
      BY <2>2, <3>1, <3>2
    <3>4. \A i \in 0 .. k : i # 0 => i - 1 \in 0 .. k - 1
      BY <2>2
    <3>5. Good(k, g)
      <4> SUFFICES ASSUME NEW i \in 0 .. k
                   PROVE  (IF i = 0 THEN n ELSE IF f[i - 1] = None THEN None
                                                ELSE ns[f[i - 1]].parent)
                            = (IF i = 0 THEN n ELSE IF g[i - 1] = None THEN None
                                                    ELSE ns[g[i - 1]].parent)
        OBVIOUS
      <4> QED BY <3>3, <3>4
    <3> QED BY <2>1, <3>5
  <2> QED BY <2>3, <2>4
<1>3. \E up : Good(MaxBlocks, up)
  BY <1>1, <1>2
<1> DEFINE up == CHOOSE up : Good(MaxBlocks, up)
<1>4. Good(MaxBlocks, up)
  BY <1>3
<1>5. Up(ns, n) = {up[i] : i \in 0 .. MaxBlocks} \ {None}
  BY DEF Up
<1> HIDE DEF up
<1>6. IsClimb(up, ns, n)
  BY <1>1, <1>4 DEF IsClimb
<1> QED BY <1>5, <1>6

\* Every block but the root has a parent, and is one step further from the
\* root than its parent: there is no cycle.
Hangs(ns) ==
  /\ Root \in Blocks(ns) /\ ns[Root].parent = None
  /\ \A n \in Blocks(ns) \ {Root} : ns[n].parent \in Blocks(ns)
Ranked(ns, d) ==
  /\ d \in [Id -> Nat]
  /\ d[Root] = 0
  /\ \A n \in Blocks(ns) \ {Root} : d[n] = d[ns[n].parent] + 1

LEMMA ClimbRank ==
  ASSUME NEW ns, Hangs(ns), NEW d, Ranked(ns, d), NEW n \in Blocks(ns),
         NEW up, IsClimb(up, ns, n), NEW i \in 0 .. MaxBlocks
  PROVE  IF i <= d[n] THEN up[i] \in Blocks(ns) /\ d[up[i]] = d[n] - i
         ELSE up[i] = None
<1> DEFINE Good(k) == IF k <= d[n] THEN up[k] \in Blocks(ns) /\ d[up[k]] = d[n] - k
                      ELSE up[k] = None
           Bad == {k \in 0 .. MaxBlocks : ~Good(k)}
<1>1. MaxBlocks \in Nat /\ d[n] \in Nat /\ Blocks(ns) \subseteq Id /\ None \notin Id
  BY BoundsAssumption DEF Ranked, Blocks, Id, None
<1>2. ASSUME Bad # {}
      PROVE  FALSE
  <2>1. PICK k \in Bad : \A j \in Bad : k <= j
    <3>1. Bad \subseteq Nat
      OBVIOUS
    <3> HIDE DEF Bad
    <3> QED BY <1>2, <3>1, LeastNat
  <2>2. k \in 0 .. MaxBlocks
    OBVIOUS
  <2>3. CASE k = 0
    <3>1. Good(0)
      BY <1>1 DEF IsClimb
    <3> QED BY <2>1, <2>3, <3>1
  <2>4. CASE k # 0
    <3>1. k - 1 \in 0 .. MaxBlocks /\ ~(k <= k - 1) /\ k \in 1 .. MaxBlocks
      BY <1>1, <2>2, <2>4
    <3>2. Good(k - 1)
      <4>1. k - 1 \notin Bad
        <5> HIDE DEF Bad
        <5> QED BY <2>1, <3>1
      <4> QED BY <3>1, <4>1
    <3>3. up[k] = IF up[k - 1] = None THEN None ELSE ns[up[k - 1]].parent
      BY <3>1 DEF IsClimb
    <3>4. CASE k - 1 > d[n]
      BY <1>1, <2>1, <2>2, <3>2, <3>3, <3>4
    <3>5. CASE k - 1 <= d[n]
      <4>1. up[k - 1] \in Blocks(ns) /\ d[up[k - 1]] = d[n] - (k - 1)
        BY <3>2, <3>5
      <4>2. up[k] = ns[up[k - 1]].parent
        BY <1>1, <3>3, <4>1
      <4>3. CASE k <= d[n]
        <5>1. up[k - 1] # Root
          BY <1>1, <2>2, <4>1, <4>3 DEF Ranked
        <5>2. /\ ns[up[k - 1]].parent \in Blocks(ns)
              /\ d[up[k - 1]] = d[ns[up[k - 1]].parent] + 1
          BY <4>1, <5>1 DEF Hangs, Ranked
        <5>3. d[up[k]] \in Nat
          BY <1>1, <4>2, <5>2 DEF Ranked
        <5>4. d[up[k]] = d[n] - k
          BY <1>1, <2>2, <4>1, <4>2, <5>2, <5>3
        <5> QED BY <2>1, <4>2, <4>3, <5>2, <5>4
      <4>4. CASE k > d[n]
        <5>1. d[up[k - 1]] = 0
          BY <1>1, <2>2, <3>5, <4>1, <4>4
        <5>2. up[k - 1] = Root
          <6> SUFFICES ASSUME up[k - 1] # Root
                       PROVE  FALSE
            OBVIOUS
          <6> DEFINE q == ns[up[k - 1]].parent
          <6>1. q \in Id /\ d[up[k - 1]] = d[q] + 1
            BY <1>1, <4>1 DEF Hangs, Ranked
          <6>2. d[q] \in Nat
            BY <6>1 DEF Ranked
          <6> QED BY <5>1, <6>1, <6>2
        <5>3. up[k] = None
          BY <4>2, <5>2 DEF Hangs
        <5> QED BY <1>1, <2>1, <2>2, <4>4, <5>3
      <4> QED BY <1>1, <2>2, <4>3, <4>4
    <3> QED BY <1>1, <2>2, <3>4, <3>5
  <2> QED BY <2>3, <2>4
<1>3. Good(i)
  BY <1>2
<1> QED BY <1>3

LEMMA RankBound ==
  ASSUME NEW ns, Hangs(ns), NEW d, Ranked(ns, d), NEW n \in Blocks(ns)
  PROVE  d[n] < MaxBlocks
<1> SUFFICES ASSUME ~(d[n] < MaxBlocks)
             PROVE  FALSE
  OBVIOUS
<1>1. MaxBlocks \in Nat /\ d[n] \in Nat /\ Blocks(ns) \subseteq Id
  BY BoundsAssumption DEF Ranked, Blocks
<1>2. PICK up : IsClimb(up, ns, n)
  BY UpClimb
<1>3. \A i \in 0 .. MaxBlocks : up[i] \in Id /\ d[up[i]] = d[n] - i
  BY <1>1, <1>2, ClimbRank
<1> DEFINE f == [i \in 0 .. MaxBlocks |-> up[i]]
<1>4. f \in [0 .. MaxBlocks -> Id]
  BY <1>3
<1>5. /\ IsFiniteSet(0 .. MaxBlocks) /\ IsFiniteSet(Id)
      /\ Cardinality(Id) < Cardinality(0 .. MaxBlocks)
  <2>1. /\ IsFiniteSet(0 .. MaxBlocks)
        /\ Cardinality(0 .. MaxBlocks) = MaxBlocks + 1
    BY <1>1, FS_Interval
  <2>2. /\ IsFiniteSet(1 .. MaxBlocks)
        /\ Cardinality(1 .. MaxBlocks) = MaxBlocks
    BY BoundsAssumption, FS_Interval
  <2> QED BY <1>1, <2>1, <2>2 DEF Id
<1>6. PICK x, y \in 0 .. MaxBlocks : x # y /\ f[x] = f[y]
  <2> HIDE DEF f
  <2> QED BY <1>4, <1>5, FS_PigeonHole
<1>7. d[n] - x = d[n] - y
  BY <1>3, <1>6
<1> QED BY <1>1, <1>6, <1>7

LEMMA UpRoot ==
  ASSUME NEW ns, Hangs(ns)
  PROVE  Up(ns, Root) = {Root}
<1>1. PICK up : IsClimb(up, ns, Root) /\ Up(ns, Root) = {up[i] : i \in 0 .. MaxBlocks} \ {None}
  BY UpClimb
<1>2. MaxBlocks \in Nat \ {0} /\ Root # None
  BY BoundsAssumption DEF Root, None
<1> DEFINE Bad == {k \in 1 .. MaxBlocks : up[k] # None}
<1>3. Bad = {}
  <2> SUFFICES ASSUME Bad # {}
               PROVE  FALSE
    OBVIOUS
  <2>1. PICK k \in Bad : \A j \in Bad : k <= j
    <3>1. Bad \subseteq Nat
      OBVIOUS
    <3> HIDE DEF Bad
    <3> QED BY <3>1, LeastNat
  <2>2. CASE k = 1
    BY <1>1, <1>2, <2>1, <2>2 DEF IsClimb, Hangs
  <2>3. CASE k # 1
    <3>1. k - 1 \in 1 .. MaxBlocks /\ ~(k <= k - 1)
      BY <1>2, <2>3
    <3>2. k - 1 \notin Bad
      <4> HIDE DEF Bad
      <4> QED BY <2>1, <3>1
    <3>3. up[k - 1] = None
      BY <3>1, <3>2
    <3> QED BY <1>1, <2>1, <3>3 DEF IsClimb
  <2> QED BY <2>2, <2>3
<1>4. up[0] = Root
  BY <1>1 DEF IsClimb
<1>5. \A i \in 0 .. MaxBlocks : i = 0 \/ up[i] = None
  BY <1>2, <1>3
<1> QED BY <1>1, <1>2, <1>4, <1>5

Rooted(ns) == Hangs(ns) /\ \E d : Ranked(ns, d)

\* Induction from the root down.
LEMMA TreeInduction ==
  ASSUME NEW ns, Rooted(ns), NEW S, Root \in S,
         \A n \in Blocks(ns) \ {Root} : ns[n].parent \in S => n \in S
  PROVE  Blocks(ns) \subseteq S
<1>1. PICK d : Ranked(ns, d)
  BY DEF Rooted
<1>2. Blocks(ns) \subseteq Id /\ Hangs(ns)
  BY DEF Blocks, Rooted
<1> DEFINE Bad == Blocks(ns) \ S
           T   == {d[n] : n \in Bad}
<1> SUFFICES ASSUME Bad # {}
             PROVE  FALSE
  OBVIOUS
<1>3. T \subseteq Nat /\ T # {}
  BY <1>1, <1>2 DEF Ranked
<1>4. PICK k \in T : \A j \in T : k <= j
  <2> HIDE DEF T
  <2> QED BY <1>3, LeastNat
<1>5. PICK n \in Bad : d[n] = k
  OBVIOUS
<1>6. n \in Blocks(ns) \ {Root}
  OBVIOUS
<1>7. ns[n].parent \in Bad
  BY <1>2, <1>6 DEF Hangs
<1>8. k <= d[ns[n].parent]
  BY <1>4, <1>7
<1>9. d[n] = d[ns[n].parent] + 1 /\ d[ns[n].parent] \in Nat
  BY <1>1, <1>2, <1>6, <1>7 DEF Ranked
<1> QED BY <1>5, <1>8, <1>9

LEMMA UpStep ==
  ASSUME NEW ns, Rooted(ns), NEW n \in Blocks(ns) \ {Root}
  PROVE  Up(ns, n) = {n} \cup Up(ns, ns[n].parent)
<1> DEFINE p == ns[n].parent
<1>1. PICK d : Ranked(ns, d)
  BY DEF Rooted
<1>2. /\ Hangs(ns) /\ p \in Blocks(ns) /\ Blocks(ns) \subseteq Id
      /\ MaxBlocks \in Nat \ {0} /\ None \notin Id
  BY BoundsAssumption DEF Rooted, Hangs, Blocks, Id, None
<1>3. PICK up : IsClimb(up, ns, n) /\ Up(ns, n) = {up[i] : i \in 0 .. MaxBlocks} \ {None}
  BY UpClimb
<1>4. PICK vp : IsClimb(vp, ns, p) /\ Up(ns, p) = {vp[i] : i \in 0 .. MaxBlocks} \ {None}
  BY UpClimb
<1> DEFINE Bad == {k \in 1 .. MaxBlocks : up[k] # vp[k - 1]}
<1>5. Bad = {}
  <2> SUFFICES ASSUME Bad # {}
               PROVE  FALSE
    OBVIOUS
  <2>1. PICK k \in Bad : \A j \in Bad : k <= j
    <3>1. Bad \subseteq Nat
      OBVIOUS
    <3> HIDE DEF Bad
    <3> QED BY <3>1, LeastNat
  <2>2. CASE k = 1
    <3>1. up[0] = n /\ vp[0] = p /\ n # None
      BY <1>2, <1>3, <1>4 DEF IsClimb
    <3>2. up[1] = p
      BY <1>2, <1>3, <3>1 DEF IsClimb
    <3> QED BY <2>1, <2>2, <3>1, <3>2
  <2>3. CASE k # 1
    <3>1. /\ k \in 1 .. MaxBlocks /\ k - 1 \in 1 .. MaxBlocks /\ ~(k <= k - 1)
          /\ (k - 1) - 1 = k - 2
      BY <1>2, <2>3
    <3>2. up[k - 1] = vp[k - 2]
      <4>1. k - 1 \notin Bad
        <5> HIDE DEF Bad
        <5> QED BY <2>1, <3>1
      <4> QED BY <3>1, <4>1
    <3>3. up[k] = IF up[k - 1] = None THEN None ELSE ns[up[k - 1]].parent
      BY <1>3, <3>1 DEF IsClimb
    <3>4. vp[k - 1] = IF vp[k - 2] = None THEN None ELSE ns[vp[k - 2]].parent
      BY <1>4, <3>1 DEF IsClimb
    <3> QED BY <2>1, <3>2, <3>3, <3>4
  <2> QED BY <2>2, <2>3
<1>6. vp[MaxBlocks] = None
  <2>1. d[p] < MaxBlocks /\ d[p] \in Nat
    BY <1>1, <1>2, RankBound DEF Ranked
  <2> QED BY <1>1, <1>2, <1>4, <2>1, ClimbRank
<1>7. up[0] = n /\ n # None
  BY <1>2, <1>3 DEF IsClimb
<1>8. \A i \in 1 .. MaxBlocks : up[i] = vp[i - 1]
  BY <1>5
<1>9. ASSUME NEW x \in Up(ns, n), x # n
      PROVE  x \in Up(ns, p)
  <2>1. PICK i \in 0 .. MaxBlocks : x = up[i] /\ x # None
    BY <1>3
  <2>2. i \in 1 .. MaxBlocks /\ i - 1 \in 0 .. MaxBlocks
    BY <1>2, <1>7, <1>9, <2>1
  <2> QED BY <1>4, <1>8, <2>1, <2>2
<1>10. ASSUME NEW x \in Up(ns, p)
       PROVE  x \in Up(ns, n)
  <2>1. PICK i \in 0 .. MaxBlocks : x = vp[i] /\ x # None
    BY <1>4
  <2>2. i + 1 \in 1 .. MaxBlocks /\ (i + 1) - 1 = i
    BY <1>2, <1>6, <2>1
  <2>3. x = up[i + 1] /\ i + 1 \in 0 .. MaxBlocks
    BY <1>2, <1>8, <2>1, <2>2
  <2> QED BY <1>3, <2>1, <2>3
<1>11. n \in Up(ns, n)
  BY <1>2, <1>3, <1>7
<1> QED BY <1>9, <1>10, <1>11

\* The blocks above n are blocks, n and the root among them.
LEMMA UpBlocks ==
  ASSUME NEW ns, Rooted(ns), NEW n \in Blocks(ns)
  PROVE  n \in Up(ns, n) /\ Root \in Up(ns, n) /\ Up(ns, n) \subseteq Blocks(ns)
<1> DEFINE S == {m \in Blocks(ns) : /\ m \in Up(ns, m) /\ Root \in Up(ns, m)
                                    /\ Up(ns, m) \subseteq Blocks(ns)}
<1>1. Root \in S
  BY UpRoot DEF Rooted, Hangs
<1>2. \A m \in Blocks(ns) \ {Root} : ns[m].parent \in S => m \in S
  BY UpStep
<1> HIDE DEF S
<1>3. n \in S
  BY <1>1, <1>2, TreeInduction
<1> QED BY <1>3 DEF S

LEMMA UpTransitive ==
  ASSUME NEW ns, Rooted(ns), NEW n \in Blocks(ns), NEW m \in Up(ns, n)
  PROVE  Up(ns, m) \subseteq Up(ns, n)
<1> DEFINE S == {k \in Blocks(ns) : \A j \in Up(ns, k) : Up(ns, j) \subseteq Up(ns, k)}
<1>1. Root \in S
  BY UpRoot DEF Rooted, Hangs
<1>2. \A k \in Blocks(ns) \ {Root} : ns[k].parent \in S => k \in S
  BY UpStep
<1> HIDE DEF S
<1>3. n \in S
  BY <1>1, <1>2, TreeInduction
<1> QED BY <1>3 DEF S

\* From a block above n the way to n goes on through one of its children.
LEMMA UpChild ==
  ASSUME NEW ns, Rooted(ns), NEW n \in Blocks(ns), NEW m \in Up(ns, n), m # n
  PROVE  \E k \in Up(ns, n) \ {Root} : ns[k].parent = m
<1> DEFINE S == {j \in Blocks(ns) : \A i \in Up(ns, j) \ {j} :
                                      \E k \in Up(ns, j) \ {Root} : ns[k].parent = i}
<1>1. Root \in S
  BY UpRoot DEF Rooted, Hangs
<1>2. ASSUME NEW j \in Blocks(ns) \ {Root}, ns[j].parent \in S
      PROVE  j \in S
  <2>1. Up(ns, j) = {j} \cup Up(ns, ns[j].parent)
    BY UpStep
  <2> QED BY <1>2, <2>1
<1> HIDE DEF S
<1>3. n \in S
  BY <1>1, <1>2, TreeInduction
<1> QED BY <1>3 DEF S

\* No block is above itself.
LEMMA UpAcyclic ==
  ASSUME NEW ns, Rooted(ns), NEW n \in Blocks(ns) \ {Root}
  PROVE  n \notin Up(ns, ns[n].parent)
<1>1. PICK d : Ranked(ns, d)
  BY DEF Rooted
<1>2. Blocks(ns) \subseteq Id /\ Hangs(ns)
  BY DEF Blocks, Rooted
<1> DEFINE S == {k \in Blocks(ns) : \A j \in Up(ns, k) : d[j] <= d[k]}
<1>3. Root \in S
  BY <1>1, <1>2, UpRoot DEF Rooted, Hangs, Ranked
<1>4. ASSUME NEW k \in Blocks(ns) \ {Root}, ns[k].parent \in S
      PROVE  k \in S
  <2>1. Up(ns, k) = {k} \cup Up(ns, ns[k].parent)
    BY UpStep
  <2>2. d[k] = d[ns[k].parent] + 1 /\ ns[k].parent \in Blocks(ns)
    BY <1>1, <1>2 DEF Ranked, Hangs
  <2>3. Up(ns, k) \subseteq Id
    BY <1>2, UpBlocks
  <2>4. d \in [Id -> Nat]
    BY <1>1 DEF Ranked
  <2> QED BY <1>2, <1>4, <2>1, <2>2, <2>3, <2>4
<1> HIDE DEF S
<1>5. ns[n].parent \in S
  BY <1>2, <1>3, <1>4, TreeInduction DEF Hangs
<1>6. d[n] = d[ns[n].parent] + 1 /\ d[ns[n].parent] \in Nat
  BY <1>1, <1>2 DEF Ranked, Hangs
<1> QED BY <1>5, <1>6 DEF S

\* The blocks above n depend on their parents only.
LEMMA UpSame ==
  ASSUME NEW ns, Rooted(ns), NEW ms, Rooted(ms), NEW n \in Blocks(ns),
         \A m \in Up(ns, n) : m \in Blocks(ms) /\ ms[m].parent = ns[m].parent
  PROVE  Up(ms, n) = Up(ns, n)
<1> DEFINE S == {k \in Blocks(ns) : k \in Up(ns, n) => Up(ms, k) = Up(ns, k)}
<1>1. Root \in S
  BY UpRoot DEF Rooted, Hangs
<1>2. ASSUME NEW k \in Blocks(ns) \ {Root}, ns[k].parent \in S
      PROVE  k \in S
  <2> SUFFICES ASSUME k \in Up(ns, n)
               PROVE  Up(ms, k) = Up(ns, k)
    OBVIOUS
  <2>1. ns[k].parent \in Up(ns, n)
    <3>1. Up(ns, k) = {k} \cup Up(ns, ns[k].parent) /\ ns[k].parent \in Blocks(ns)
      BY UpStep DEF Rooted, Hangs
    <3>2. ns[k].parent \in Up(ns, k)
      BY <3>1, UpBlocks
    <3> QED BY <3>2, UpTransitive
  <2>2. k \in Blocks(ms) \ {Root} /\ ms[k].parent = ns[k].parent
    OBVIOUS
  <2>3. Up(ns, k) = {k} \cup Up(ns, ns[k].parent)
    BY UpStep
  <2>4. Up(ms, k) = {k} \cup Up(ms, ms[k].parent)
    BY <2>2, UpStep
  <2>5. Up(ms, ns[k].parent) = Up(ns, ns[k].parent)
    BY <1>2, <2>1
  <2> QED BY <2>2, <2>3, <2>4, <2>5
<1> HIDE DEF S
<1>3. n \in S
  BY <1>1, <1>2, TreeInduction
<1> QED BY <1>3, UpBlocks DEF S

-----------------------------------------------------------------------------
(* The tree, and what the code does to it: fields of blocks change, a      *)
(* childless block goes, a block is appended.                              *)

Fields == {"type", "parent", "kids", "open", "blank", "start", "end", "text", "as"}
BlockTypes == {"document", "block_quote", "list", "item", "paragraph", "heading",
               "code_block", "html_block", "thematic_break"}
IsBlock(b) == /\ b = [f \in Fields |-> b[f]]
              /\ b.type \in BlockTypes
              /\ b.parent \in Id \cup {None}
              /\ b.kids \in Seq(Id)
              /\ b.open \in BOOLEAN
              /\ b.blank \in BOOLEAN

Tree(ns) ==
  /\ ns = [n \in Id |-> ns[n]]
  /\ Rooted(ns)
  /\ ns[Root].type = "document"
  /\ \A n \in Blocks(ns) :
       /\ IsBlock(ns[n])
       /\ ToSet(ns[n].kids) = {m \in Blocks(ns) : ns[m].parent = n}
       /\ IsInjective(ns[n].kids)
  /\ \A n \in Blocks(ns) \ {Root} : CanContain(ns[ns[n].parent].type, ns[n].type)

IsLeaf(t) == t \notin {"document", "block_quote", "list", "item"}

LEMMA BlockUsed ==
  ASSUME NEW b, IsBlock(b)
  PROVE  b # Unused
BY DEF IsBlock, Unused, BlockTypes

LEMMA TreeFacts ==
  ASSUME NEW ns, Tree(ns), NEW n \in Blocks(ns)
  PROVE  /\ n \in Id /\ IsBlock(ns[n]) /\ Root \in Blocks(ns)
         /\ n = Root => ns[n].parent = None /\ ns[n].type = "document"
         /\ n # Root => /\ ns[n].parent \in Blocks(ns)
                        /\ CanContain(ns[ns[n].parent].type, ns[n].type)
                        /\ n \in ToSet(ns[ns[n].parent].kids)
                        /\ ns[n].parent # n
<1>1. n # Root => ns[n].parent # n
  BY UpAcyclic, UpBlocks DEF Tree
<1> QED BY <1>1 DEF Tree, Rooted, Hangs, Blocks

LEMMA LeafHasNoKids ==
  ASSUME NEW ns, Tree(ns), NEW n \in Blocks(ns), IsLeaf(ns[n].type)
  PROVE  /\ ns[n].kids = <<>>
         /\ n # Root
         /\ \A m \in Blocks(ns) : ns[m].parent # n
         /\ \A m \in Blocks(ns) : n \in Up(ns, m) => m = n
<1>1. n # Root /\ n \in Id
  BY TreeFacts DEF IsLeaf
<1>2. ASSUME NEW m \in Blocks(ns), ns[m].parent = n
      PROVE  FALSE
  <2>1. m # Root
    BY <1>1, <1>2, TreeFacts DEF Id, None
  <2> QED BY <1>2, <2>1, TreeFacts DEF IsLeaf, CanContain
<1>3. ToSet(ns[n].kids) = {} /\ ns[n].kids \in Seq(Id)
  BY <1>2 DEF Tree, IsBlock
<1>4. ns[n].kids = <<>>
  <2> DEFINE s == ns[n].kids
  <2>1. s \in Seq(Id) /\ \A i \in 1 .. Len(s) : s[i] \in ToSet(s)
    BY <1>3 DEF ToSet
  <2> HIDE DEF s
  <2>2. Len(s) = 0
    <3>1. Len(s) # 0 => 1 \in 1 .. Len(s)
      BY <2>1
    <3> QED BY <1>3, <2>1, <3>1 DEF s
  <2> QED BY <2>1, <2>2 DEF s
<1>5. ASSUME NEW m \in Blocks(ns), n \in Up(ns, m), m # n
      PROVE  FALSE
  <2>1. PICK k \in Up(ns, m) \ {Root} : ns[k].parent = n
    BY <1>5, UpChild DEF Tree
  <2> QED BY <1>2, <2>1, UpBlocks DEF Tree
<1> QED BY <1>1, <1>2, <1>4, <1>5

\* A step that moves no block.
SameTree(ns, ms) ==
  /\ ms = [n \in Id |-> ms[n]]
  /\ Blocks(ms) = Blocks(ns)
  /\ \A n \in Blocks(ns) :
       /\ IsBlock(ms[n])
       /\ ms[n].parent = ns[n].parent /\ ms[n].kids = ns[n].kids
       /\ \/ ms[n].type = ns[n].type
          \/ ns[n].type = "paragraph" /\ ms[n].type = "heading"

LEMMA SameTreeKeeps ==
  ASSUME NEW ns, Tree(ns), NEW ms, SameTree(ns, ms)
  PROVE  Tree(ms) /\ \A n \in Blocks(ns) : Up(ms, n) = Up(ns, n)
<1>1. Rooted(ms)
  <2>1. Hangs(ms)
    BY DEF Tree, Rooted, Hangs, SameTree
  <2>2. PICK d : Ranked(ns, d)
    BY DEF Tree, Rooted
  <2>3. Ranked(ms, d)
    BY <2>2 DEF Ranked, SameTree
  <2> QED BY <2>1, <2>3 DEF Rooted
<1>2. ms[Root].type = "document"
  BY TreeFacts DEF Tree, Rooted, Hangs, SameTree
<1>3. ASSUME NEW n \in Blocks(ms)
      PROVE  /\ IsBlock(ms[n])
             /\ ToSet(ms[n].kids) = {m \in Blocks(ms) : ms[m].parent = n}
             /\ IsInjective(ms[n].kids)
  BY DEF Tree, SameTree
<1>4. ASSUME NEW n \in Blocks(ms) \ {Root}
      PROVE  CanContain(ms[ms[n].parent].type, ms[n].type)
  <2> DEFINE p == ns[n].parent
  <2>1. n \in Blocks(ns) /\ p \in Blocks(ns) /\ CanContain(ns[p].type, ns[n].type)
    BY TreeFacts DEF SameTree
  <2>2. ns[p].type # "paragraph"
    BY <2>1 DEF CanContain
  <2>3. ms[n].parent = p /\ ms[p].type = ns[p].type
    BY <2>1, <2>2 DEF SameTree
  <2>4. \/ ms[n].type = ns[n].type
        \/ ns[n].type = "paragraph" /\ ms[n].type = "heading"
    BY <2>1 DEF SameTree
  <2> QED BY <2>1, <2>3, <2>4 DEF CanContain
<1>5. Tree(ms)
  BY <1>1, <1>2, <1>3, <1>4 DEF Tree, SameTree
<1>6. ASSUME NEW n \in Blocks(ns)
      PROVE  Up(ms, n) = Up(ns, n)
  <2>1. \A m \in Up(ns, n) : m \in Blocks(ms) /\ ms[m].parent = ns[m].parent
    BY UpBlocks DEF Tree, SameTree
  <2> QED BY <1>1, <2>1, UpSame DEF Tree
<1> QED BY <1>5, <1>6

\* A childless block goes: the others stay, but for the children of its parent.
DropEffect(ns, ms, n) ==
  /\ Tree(ms)
  /\ Blocks(ms) = Blocks(ns) \ {n}
  /\ \A m \in Blocks(ms) :
       /\ m # ns[n].parent => ms[m] = ns[m]
       /\ \A f \in Fields \ {"kids"} : ms[m][f] = ns[m][f]
       /\ ns[m].kids # <<>> /\ Last(ns[m].kids) # n =>
            ms[m].kids # <<>> /\ Last(ms[m].kids) = Last(ns[m].kids)
       /\ Up(ms, m) = Up(ns, m) /\ n \notin Up(ns, m)

LEMMA DropKeeps ==
  ASSUME NEW ns, Tree(ns), NEW n \in Blocks(ns), IsLeaf(ns[n].type)
  PROVE  DropEffect(ns, Drop(ns, n), n)
<1> DEFINE p  == ns[n].parent
           ms == Drop(ns, n)
           b  == [ns[p] EXCEPT !.kids = RemoveFirst(@, n)]
<1>1. /\ n \in Id /\ n # Root /\ p \in Blocks(ns) /\ p # n /\ p \in Id
      /\ IsBlock(ns[p]) /\ IsInjective(ns[p].kids)
      /\ ToSet(ns[p].kids) = {m \in Blocks(ns) : ns[m].parent = p}
  <2>1. n # Root /\ n \in Id
    BY LeafHasNoKids, TreeFacts
  <2>2. p \in Blocks(ns) /\ p # n
    BY <2>1, TreeFacts
  <2>3. p \in Id
    BY <2>2, TreeFacts
  <2> QED BY <2>1, <2>2, <2>3 DEF Tree
<1>2. /\ ms = [m \in Id |-> ms[m]]
      /\ \A m \in Id : ms[m] = IF m = n THEN Unused ELSE IF m = p THEN b ELSE ns[m]
  BY <1>1 DEF Drop, Tree
<1> DEFINE r == RemoveFirst(ns[p].kids, n)
<1>3. /\ r \in Seq(Id)
      /\ ToSet(r) = ToSet(ns[p].kids) \ {n}
      /\ IsInjective(r)
      /\ ns[p].kids # <<>> /\ Last(ns[p].kids) # n => r # <<>> /\ Last(r) = Last(ns[p].kids)
  BY <1>1, RemoveFirstEffect DEF IsBlock
<1>4. /\ b.kids = r
      /\ \A f \in Fields \ {"kids"} : b[f] = ns[p][f]
      /\ IsBlock(b)
  <2>1. /\ b = [f \in Fields |-> b[f]]
        /\ b.kids = r
        /\ \A f \in Fields \ {"kids"} : b[f] = ns[p][f]
    BY <1>1 DEF IsBlock, Fields
  <2> HIDE DEF b, r
  <2> QED BY <1>1, <1>3, <2>1 DEF IsBlock, Fields
<1> HIDE DEF b, r, ms
<1>5. Blocks(ms) = Blocks(ns) \ {n}
  BY <1>1, <1>2, <1>4, BlockUsed DEF Blocks
<1>6. \A m \in Blocks(ms) :
        /\ m # p => ms[m] = ns[m]
        /\ \A f \in Fields \ {"kids"} : ms[m][f] = ns[m][f]
  BY <1>1, <1>2, <1>4, <1>5 DEF Blocks
<1>7. \A m \in Blocks(ms) : ms[m].parent = ns[m].parent /\ ms[m].type = ns[m].type
  BY <1>6 DEF Fields
<1>8. \A m \in Blocks(ms) : ns[m].parent # n /\ n \notin Up(ns, m)
  BY <1>5, LeafHasNoKids
<1>9. Rooted(ms)
  <2>1. Hangs(ms)
    <3>1. Root \in Blocks(ms) /\ ms[Root].parent = None
      BY <1>1, <1>5, <1>7, TreeFacts
    <3>2. ASSUME NEW m \in Blocks(ms) \ {Root}
          PROVE  ms[m].parent \in Blocks(ms)
      BY <1>5, <1>7, <1>8, TreeFacts
    <3> QED BY <3>1, <3>2 DEF Hangs
  <2>2. PICK d : Ranked(ns, d)
    BY DEF Tree, Rooted
  <2>3. Ranked(ms, d)
    BY <1>5, <1>7, <2>2 DEF Ranked
  <2> QED BY <2>1, <2>3 DEF Rooted
<1>10. ASSUME NEW m \in Blocks(ms)
       PROVE  /\ IsBlock(ms[m])
              /\ ToSet(ms[m].kids) = {k \in Blocks(ms) : ms[k].parent = m}
              /\ IsInjective(ms[m].kids)
  <2>1. m \in Blocks(ns) /\ m # n /\ m \in Id
    BY <1>5 DEF Blocks
  <2>2. {k \in Blocks(ms) : ms[k].parent = m} = {k \in Blocks(ns) : ns[k].parent = m} \ {n}
    BY <1>5, <1>7
  <2>3. CASE m = p
    BY <1>1, <1>2, <1>3, <1>4, <2>1, <2>2, <2>3
  <2>4. CASE m # p
    <3>1. ms[m] = ns[m]
      BY <1>6, <2>4
    <3>2. n \notin {k \in Blocks(ns) : ns[k].parent = m}
      BY <2>4
    <3> QED BY <2>1, <2>2, <3>1, <3>2 DEF Tree
  <2> QED BY <2>3, <2>4
<1>11. Tree(ms)
  <2>1. ms[Root].type = "document"
    BY <1>1, <1>5, <1>7, TreeFacts
  <2>2. ASSUME NEW m \in Blocks(ms) \ {Root}
        PROVE  CanContain(ms[ms[m].parent].type, ms[m].type)
    <3>1. m \in Blocks(ns) /\ ms[m].parent \in Blocks(ms)
      BY <1>5, <1>9 DEF Rooted, Hangs
    <3> QED BY <1>7, <3>1, <2>2, TreeFacts
  <2> QED BY <1>2, <1>9, <1>10, <2>1, <2>2 DEF Tree
<1>12. ASSUME NEW m \in Blocks(ms)
       PROVE  Up(ms, m) = Up(ns, m)
  <2>1. Up(ns, m) \subseteq Blocks(ns) \ {n}
    BY <1>5, <1>8, UpBlocks DEF Tree
  <2> QED BY <1>5, <1>7, <1>9, <2>1, UpSame DEF Tree
<1>13. ASSUME NEW m \in Blocks(ms), ns[m].kids # <<>>, Last(ns[m].kids) # n
       PROVE  ms[m].kids # <<>> /\ Last(ms[m].kids) = Last(ns[m].kids)
  <2>1. CASE m = p
    BY <1>1, <1>2, <1>3, <1>4, <1>13, <2>1 DEF r
  <2>2. CASE m # p
    BY <1>6, <1>13, <2>2
  <2> QED BY <2>1, <2>2
<1> QED BY <1>5, <1>6, <1>8, <1>11, <1>12, <1>13 DEF DropEffect, ms

\* A block is appended to the children of c.
AddEffect(ns, ms, c, n, b) ==
  /\ Tree(ms)
  /\ Blocks(ms) = Blocks(ns) \cup {n}
  /\ ms[n] = [b EXCEPT !.parent = c]
  /\ ms[n].parent = c /\ ms[n].type = b.type /\ ms[n].open = b.open
  /\ \A m \in Blocks(ns) :
       /\ m # c => ms[m] = ns[m]
       /\ \A f \in Fields \ {"kids"} : ms[m][f] = ns[m][f]
       /\ Up(ms, m) = Up(ns, m)
  /\ Up(ms, n) = {n} \cup Up(ns, c)
  /\ ms[c].kids # <<>> /\ Last(ms[c].kids) = n

LEMMA AddKeeps ==
  ASSUME NEW ns, Tree(ns), NEW c \in Blocks(ns), NEW n \in Id, n \notin Blocks(ns),
         NEW b, IsBlock(b), b.kids = <<>>, CanContain(ns[c].type, b.type),
         NEW ms, ms = [ns EXCEPT ![n] = [b EXCEPT !.parent = c],
                                 ![c].kids = Append(@, n)]
  PROVE  AddEffect(ns, ms, c, n, b)
<1> DEFINE new == [b EXCEPT !.parent = c]
           top == [ns[c] EXCEPT !.kids = Append(@, n)]
           r   == Append(ns[c].kids, n)
<1>1. /\ c \in Id /\ n # c /\ n # Root /\ Root \in Blocks(ns)
      /\ IsBlock(ns[c]) /\ IsInjective(ns[c].kids)
      /\ ToSet(ns[c].kids) = {m \in Blocks(ns) : ns[m].parent = c}
  BY TreeFacts DEF Tree
<1>2. /\ ms = [m \in Id |-> ms[m]]
      /\ \A m \in Id : ms[m] = IF m = n THEN new ELSE IF m = c THEN top ELSE ns[m]
  BY <1>1 DEF Tree
<1>3. /\ r \in Seq(Id)
      /\ ToSet(r) = ToSet(ns[c].kids) \cup {n}
      /\ IsInjective(r)
      /\ r # <<>> /\ Last(r) = n
  <2>1. ns[c].kids \in Seq(Id) /\ n \notin ToSet(ns[c].kids)
    BY <1>1 DEF IsBlock
  <2> QED BY <1>1, <2>1, AppendEffect
<1>4. /\ top.kids = r
      /\ \A f \in Fields \ {"kids"} : top[f] = ns[c][f]
      /\ IsBlock(top)
  <2>1. /\ top = [f \in Fields |-> top[f]]
        /\ top.kids = r
        /\ \A f \in Fields \ {"kids"} : top[f] = ns[c][f]
    BY <1>1 DEF IsBlock, Fields
  <2> HIDE DEF top, r
  <2> QED BY <1>1, <1>3, <2>1 DEF IsBlock, Fields
<1>5. /\ new.parent = c
      /\ \A f \in Fields \ {"parent"} : new[f] = b[f]
      /\ IsBlock(new)
  <2>1. /\ new = [f \in Fields |-> new[f]]
        /\ new.parent = c
        /\ \A f \in Fields \ {"parent"} : new[f] = b[f]
    BY DEF IsBlock, Fields
  <2> HIDE DEF new
  <2> QED BY <1>1, <2>1 DEF IsBlock, Fields
<1>6. new.type = b.type /\ new.open = b.open /\ new.kids = <<>>
  BY <1>5 DEF Fields
<1> HIDE DEF new, top, r
<1>7. Blocks(ms) = Blocks(ns) \cup {n}
  <2>1. new # Unused /\ top # Unused
    BY <1>4, <1>5, BlockUsed
  <2>2. \A m \in Id : ms[m] # Unused <=> m = n \/ m = c \/ ns[m] # Unused
    BY <1>2, <2>1
  <2> QED BY <2>2 DEF Blocks
<1>8. \A m \in Blocks(ns) : /\ m # c => ms[m] = ns[m]
                            /\ \A f \in Fields \ {"kids"} : ms[m][f] = ns[m][f]
  BY <1>1, <1>2, <1>4 DEF Blocks
<1>9. \A m \in Blocks(ns) : ms[m].parent = ns[m].parent /\ ms[m].type = ns[m].type
  BY <1>8 DEF Fields
<1>10. ms[n] = new /\ ms[n].parent = c /\ ms[n].type = b.type /\ ms[n].open = b.open
  BY <1>2, <1>5, <1>6
<1>11. Rooted(ms)
  <2>1. Hangs(ms)
    <3>1. Root \in Blocks(ms) /\ ms[Root].parent = None
      BY <1>1, <1>7, <1>9, TreeFacts
    <3>2. ASSUME NEW m \in Blocks(ms) \ {Root}
          PROVE  ms[m].parent \in Blocks(ms)
      <4>1. CASE m = n
        BY <1>7, <1>10, <4>1
      <4>2. CASE m # n
        BY <1>7, <1>9, <3>2, <4>2, TreeFacts
      <4> QED BY <4>1, <4>2
    <3> QED BY <3>1, <3>2 DEF Hangs
  <2>2. PICK d : Ranked(ns, d)
    BY DEF Tree, Rooted
  <2> DEFINE e == [d EXCEPT ![n] = d[c] + 1]
  <2>3. e \in [Id -> Nat] /\ e[n] = e[c] + 1 /\ \A m \in Id \ {n} : e[m] = d[m]
    BY <1>1, <2>2 DEF Ranked
  <2> HIDE DEF e
  <2>4. ASSUME NEW m \in Blocks(ms) \ {Root}
        PROVE  e[m] = e[ms[m].parent] + 1
    <3>1. CASE m = n
      BY <1>10, <2>3, <3>1
    <3>2. CASE m # n
      <4>1. m \in Blocks(ns) \ {Root} /\ ns[m].parent \in Blocks(ns) /\ m \in Id
        BY <1>7, <3>2, TreeFacts
      <4>2. ns[m].parent \in Id \ {n}
        BY <4>1 DEF Blocks
      <4> QED BY <1>9, <2>2, <2>3, <3>2, <4>1, <4>2 DEF Ranked
    <3> QED BY <3>1, <3>2
  <2>5. Ranked(ms, e)
    BY <1>1, <2>2, <2>3, <2>4 DEF Ranked, Blocks
  <2> QED BY <2>1, <2>5 DEF Rooted
<1>12. \A m \in Blocks(ns) : ns[m].parent # n
  BY <1>1, TreeFacts DEF Id, None
<1>13. ASSUME NEW m \in Blocks(ms)
       PROVE  /\ IsBlock(ms[m])
              /\ ToSet(ms[m].kids) = {k \in Blocks(ms) : ms[k].parent = m}
              /\ IsInjective(ms[m].kids)
  <2>1. CASE m = n
    <3>1. {k \in Blocks(ms) : ms[k].parent = m} = {}
      BY <1>1, <1>7, <1>9, <1>10, <1>12, <2>1
    <3>2. ToSet(<<>>) = {} /\ IsInjective(<<>>)
      BY DEF ToSet, IsInjective
    <3> QED BY <1>5, <1>6, <1>10, <2>1, <3>1, <3>2
  <2>2. CASE m = c
    <3>1. {k \in Blocks(ms) : ms[k].parent = m} = {k \in Blocks(ns) : ns[k].parent = m} \cup {n}
      BY <1>7, <1>9, <1>10, <2>2
    <3> QED BY <1>1, <1>2, <1>3, <1>4, <2>2, <3>1
  <2>3. CASE m # n /\ m # c
    <3>1. m \in Blocks(ns) /\ ms[m] = ns[m]
      BY <1>7, <1>8, <2>3
    <3>2. {k \in Blocks(ms) : ms[k].parent = m} = {k \in Blocks(ns) : ns[k].parent = m}
      BY <1>7, <1>9, <1>10, <2>3
    <3> QED BY <3>1, <3>2 DEF Tree
  <2> QED BY <2>1, <2>2, <2>3
<1>14. Tree(ms)
  <2>1. ms[Root].type = "document"
    BY <1>1, <1>9, TreeFacts
  <2>2. ASSUME NEW m \in Blocks(ms) \ {Root}
        PROVE  CanContain(ms[ms[m].parent].type, ms[m].type)
    <3>1. CASE m = n
      BY <1>9, <1>10, <3>1
    <3>2. CASE m # n
      <4>1. m \in Blocks(ns) /\ ns[m].parent \in Blocks(ns)
        BY <1>7, <2>2, <3>2, TreeFacts
      <4>2. CanContain(ns[ns[m].parent].type, ns[m].type)
        BY <2>2, <4>1, TreeFacts
      <4> QED BY <1>9, <4>1, <4>2
    <3> QED BY <3>1, <3>2
  <2> QED BY <1>2, <1>11, <1>13, <2>1, <2>2 DEF Tree
<1>15. ASSUME NEW m \in Blocks(ns)
       PROVE  Up(ms, m) = Up(ns, m)
  <2>1. Rooted(ns)
    BY DEF Tree
  <2>2. \A k \in Up(ns, m) : k \in Blocks(ms) /\ ms[k].parent = ns[k].parent
    BY <1>7, <1>9, <2>1, UpBlocks
  <2> QED BY <1>11, <2>1, <2>2, UpSame
<1>16. Up(ms, n) = {n} \cup Up(ns, c)
  <2>1. n \in Blocks(ms) \ {Root}
    BY <1>1, <1>7
  <2>2. Up(ms, n) = {n} \cup Up(ms, ms[n].parent)
    BY <1>11, <2>1, UpStep
  <2> QED BY <1>10, <1>15, <2>2
<1>17. ms[c].kids # <<>> /\ Last(ms[c].kids) = n
  BY <1>1, <1>2, <1>3, <1>4
<1> QED BY <1>7, <1>8, <1>10, <1>14, <1>15, <1>16, <1>17 DEF AddEffect, new

\* One block gets other fields.
Puts(ns, ms, n, b) == /\ ms = [m \in Id |-> ms[m]]
                      /\ \A m \in Id : ms[m] = IF m = n THEN b ELSE ns[m]

LEMMA PutBlock ==
  ASSUME NEW ns, Tree(ns), NEW n \in Blocks(ns), NEW b, IsBlock(b),
         b.parent = ns[n].parent, b.kids = ns[n].kids,
         \/ b.type = ns[n].type
         \/ ns[n].type = "paragraph" /\ b.type = "heading",
         NEW ms, Puts(ns, ms, n, b)
  PROVE  /\ SameTree(ns, ms)
         /\ ms[n] = b
         /\ \A m \in Blocks(ns) : m # n => ms[m] = ns[m]
<1>1. n \in Id
  BY TreeFacts
<1>2. /\ ms = [m \in Id |-> ms[m]]
      /\ \A m \in Id : ms[m] = IF m = n THEN b ELSE ns[m]
  BY DEF Puts
<1>3. b # Unused
  BY BlockUsed
<1>4. Blocks(ms) = Blocks(ns)
  BY <1>1, <1>2, <1>3 DEF Blocks
<1>5. \A m \in Blocks(ns) : m # n => ms[m] = ns[m]
  BY <1>2 DEF Blocks
<1>6. ms[n] = b
  BY <1>1, <1>2
<1>7. \A m \in Blocks(ns) : IsBlock(ns[m])
  BY DEF Tree
<1> QED BY <1>2, <1>4, <1>5, <1>6, <1>7 DEF SameTree

Opened(ns)    == {n \in Blocks(ns) : ns[n].open}
IsLast(ns, n) == LET k == ns[ns[n].parent].kids IN k # <<>> /\ Last(k) = n

\* What closing n does, whether it drops the block or not.
CloseEffect(ns, ms, n) ==
  /\ Tree(ms)
  /\ \/ Blocks(ms) = Blocks(ns)
     \/ ns[n].type = "paragraph" /\ Blocks(ms) = Blocks(ns) \ {n}
  /\ Opened(ms) = Opened(ns) \ {n}
  /\ \A m \in Blocks(ms) : /\ Up(ms, m) = Up(ns, m)
                           /\ ms[m].type = ns[m].type
                           /\ ms[m].parent = ns[m].parent
                           /\ m # Root /\ IsLast(ns, m) => IsLast(ms, m)
                           /\ n \notin Blocks(ms) => n \notin Up(ns, m)
  /\ \A m \in Blocks(ns) \ {n} : n \in Blocks(ms) \/ m # ns[n].parent => ms[m] = ns[m]

LEMMA ClosedBlock ==
  ASSUME NEW ns, Tree(ns), NEW n \in Blocks(ns), NEW b, IsBlock(b), ~b.open,
         b.type = ns[n].type, b.parent = ns[n].parent, b.kids = ns[n].kids,
         NEW ms, Puts(ns, ms, n, b)
  PROVE  CloseEffect(ns, ms, n)
<1>1. /\ SameTree(ns, ms)
      /\ ms[n] = b
      /\ \A m \in Blocks(ns) : m # n => ms[m] = ns[m]
  <2>1. b.type = ns[n].type \/ (ns[n].type = "paragraph" /\ b.type = "heading")
    OBVIOUS
  <2> QED BY <2>1, PutBlock
<1>2. Tree(ms) /\ \A m \in Blocks(ns) : Up(ms, m) = Up(ns, m)
  BY <1>1, SameTreeKeeps
<1>3. Blocks(ms) = Blocks(ns)
  BY <1>1 DEF SameTree
<1>4. \A m \in Blocks(ns) : /\ ms[m].type = ns[m].type
                            /\ ms[m].parent = ns[m].parent
                            /\ ms[m].kids = ns[m].kids
  BY <1>1
<1>5. Opened(ms) = Opened(ns) \ {n}
  BY <1>1, <1>3 DEF Opened
<1>6. ASSUME NEW m \in Blocks(ns), m # Root, IsLast(ns, m)
      PROVE  IsLast(ms, m)
  <2>1. ns[m].parent \in Blocks(ns) /\ ms[m].parent = ns[m].parent
    BY <1>4, <1>6, TreeFacts
  <2>2. ms[ns[m].parent].kids = ns[ns[m].parent].kids
    BY <1>4, <2>1
  <2> QED BY <1>6, <2>1, <2>2 DEF IsLast
<1>7. \A m \in Blocks(ns) : ms[m].type = ns[m].type /\ ms[m].parent = ns[m].parent
  BY <1>4
<1>8. \A m \in Blocks(ns) \ {n} : n \in Blocks(ms) \/ m # ns[n].parent => ms[m] = ns[m]
  BY <1>1
<1> QED BY <1>2, <1>3, <1>5, <1>6, <1>7, <1>8 DEF CloseEffect

LEMMA DroppedBlock ==
  ASSUME NEW ns, Tree(ns), NEW n \in Blocks(ns), ns[n].type = "paragraph"
  PROVE  CloseEffect(ns, Drop(ns, n), n)
<1> DEFINE ms == Drop(ns, n)
<1>1. IsLeaf(ns[n].type)
  BY DEF IsLeaf
<1>2. DropEffect(ns, ms, n)
  BY <1>1, DropKeeps
<1> HIDE DEF ms
<1>3. Tree(ms) /\ Blocks(ms) = Blocks(ns) \ {n}
  BY <1>2 DEF DropEffect
<1>4. \A m \in Blocks(ms) : /\ ms[m].type = ns[m].type
                            /\ ms[m].parent = ns[m].parent
                            /\ ms[m].open = ns[m].open
                            /\ Up(ms, m) = Up(ns, m) /\ n \notin Up(ns, m)
                            /\ m # ns[n].parent => ms[m] = ns[m]
  BY <1>2 DEF DropEffect, Fields
<1>5. Opened(ms) = Opened(ns) \ {n}
  BY <1>3, <1>4 DEF Opened
<1>6. ASSUME NEW m \in Blocks(ms), m # Root, IsLast(ns, m)
      PROVE  IsLast(ms, m)
  <2> DEFINE p == ns[m].parent
  <2>1. p \in Blocks(ns) /\ p # n
    BY <1>1, <1>3, <1>6, LeafHasNoKids, TreeFacts
  <2>2. ns[p].kids # <<>> /\ Last(ns[p].kids) = m /\ m # n
    BY <1>3, <1>6 DEF IsLast
  <2>3. ms[p].kids # <<>> /\ Last(ms[p].kids) = m
    BY <1>2, <1>3, <2>1, <2>2 DEF DropEffect
  <2> QED BY <1>4, <2>3 DEF IsLast
<1>7. \A m \in Blocks(ns) \ {n} : n \in Blocks(ms) \/ m # ns[n].parent => ms[m] = ns[m]
  BY <1>3, <1>4
<1> QED BY <1>3, <1>4, <1>5, <1>6, <1>7 DEF CloseEffect, ms

LEMMA FinalizeEffect ==
  ASSUME NEW ns, Tree(ns), NEW n \in Blocks(ns)
  PROVE  CloseEffect(ns, Finalize(ns, n), n)
<1> DEFINE b  == [ns[n] EXCEPT !.open = FALSE, !.end = EndLine(ns[n])]
           ms == Finalize(ns, n)
<1>1. /\ IsBlock(b) /\ ~b.open
      /\ b.type = ns[n].type /\ b.parent = ns[n].parent /\ b.kids = ns[n].kids
      /\ b.text = ns[n].text
  <2>1. n \in Id /\ IsBlock(ns[n])
    BY TreeFacts
  <2> DEFINE e == EndLine(ns[n])
  <2> HIDE DEF e
  <2>2. [ns[n] EXCEPT !.open = FALSE, !.end = e]
          = [f \in Fields |-> IF f = "open" THEN FALSE ELSE IF f = "end" THEN e ELSE ns[n][f]]
    BY <2>1 DEF IsBlock, Fields
  <2> QED BY <2>1, <2>2 DEF IsBlock, Fields, e
<1> HIDE DEF b
\* the other fields finalize sets
<1>2. ASSUME NEW f \in {"text", "as"}, NEW v,
             Puts(ns, ms, n, [b EXCEPT ![f] = v])
      PROVE  CloseEffect(ns, ms, n)
  <2> DEFINE c == [b EXCEPT ![f] = v]
  <2>1. c = [g \in Fields |-> IF g = f THEN v ELSE b[g]]
    BY <1>1 DEF IsBlock, Fields
  <2>2. /\ IsBlock(c) /\ ~c.open
        /\ c.type = ns[n].type /\ c.parent = ns[n].parent /\ c.kids = ns[n].kids
    BY <1>1, <2>1 DEF IsBlock, Fields
  <2> HIDE DEF c
  <2> QED BY <1>2, <2>2, ClosedBlock DEF c
<1>3. ns = [m \in Id |-> ns[m]] /\ n \in Id
  BY TreeFacts DEF Tree
<1>4. CASE b.type = "paragraph"
  <2> DEFINE text == WithoutRefs(b.text)
  <2>1. ms = IF text = <<>> THEN Drop(ns, n) ELSE [ns EXCEPT ![n] = [b EXCEPT !.text = text]]
    BY <1>4 DEF Finalize, b
  <2> HIDE DEF text, ms
  <2>2. CASE text = <<>>
    BY <1>1, <1>4, <2>1, <2>2, DroppedBlock DEF ms
  <2>3. CASE text # <<>>
    <3>1. Puts(ns, ms, n, [b EXCEPT !["text"] = text])
      BY <1>3, <2>1, <2>3 DEF Puts
    <3> QED BY <1>2, <3>1 DEF ms
  <2> QED BY <2>2, <2>3
<1>5. CASE b.type = "code_block" /\ b.as.char = "none"
  <2> DEFINE text == Trim(b.text)
  <2>1. ms = [ns EXCEPT ![n] = [b EXCEPT !.text = text]]
    BY <1>5 DEF Finalize, b
  <2> HIDE DEF text, ms
  <2>2. Puts(ns, ms, n, [b EXCEPT !["text"] = text])
    BY <1>3, <2>1 DEF Puts
  <2> QED BY <1>2, <2>2 DEF ms
<1>6. CASE b.type = "list"
  <2> DEFINE as == [b.as EXCEPT !.tight = Tight(ns, n)]
  <2>1. ms = [ns EXCEPT ![n] = [b EXCEPT !.as = as]]
    BY <1>6 DEF Finalize, b
  <2> HIDE DEF as, ms
  <2>2. Puts(ns, ms, n, [b EXCEPT !["as"] = as])
    BY <1>3, <2>1 DEF Puts
  <2> QED BY <1>2, <2>2 DEF ms
<1>7. CASE /\ b.type # "paragraph" /\ b.type # "list"
           /\ ~(b.type = "code_block" /\ b.as.char = "none")
  <2>1. ms = [ns EXCEPT ![n] = b]
    BY <1>7 DEF Finalize, b
  <2> HIDE DEF ms
  <2>2. Puts(ns, ms, n, b)
    BY <1>3, <2>1 DEF Puts
  <2> QED BY <1>1, <2>2, ClosedBlock DEF ms
<1> QED BY <1>4, <1>5, <1>6, <1>7

\* What a line does to blocks besides closing them: it flags them, or gets into one.
MarkEffect(ns, ms) ==
  /\ Tree(ms)
  /\ Blocks(ms) = Blocks(ns)
  /\ Opened(ms) = Opened(ns)
  /\ \A m \in Blocks(ns) : /\ Up(ms, m) = Up(ns, m)
                           /\ ms[m].parent = ns[m].parent
                           /\ ms[m].kids = ns[m].kids
                           /\ ms[m].open = ns[m].open
                           /\ \/ ms[m].type = ns[m].type
                              \/ ns[m].type = "paragraph" /\ ms[m].type = "heading"
                           /\ m # Root /\ IsLast(ns, m) => IsLast(ms, m)

LEMMA Marked ==
  ASSUME NEW ns, Tree(ns), NEW ms, SameTree(ns, ms),
         \A m \in Blocks(ns) : ms[m].open = ns[m].open
  PROVE  MarkEffect(ns, ms)
<1>1. Tree(ms) /\ \A m \in Blocks(ns) : Up(ms, m) = Up(ns, m)
  BY SameTreeKeeps
<1>2. /\ Blocks(ms) = Blocks(ns)
      /\ \A m \in Blocks(ns) : /\ ms[m].parent = ns[m].parent
                               /\ ms[m].kids = ns[m].kids
                               /\ \/ ms[m].type = ns[m].type
                                  \/ ns[m].type = "paragraph" /\ ms[m].type = "heading"
  BY DEF SameTree
<1>3. ASSUME NEW m \in Blocks(ns), m # Root, IsLast(ns, m)
      PROVE  IsLast(ms, m)
  <2>1. ns[m].parent \in Blocks(ns)
    BY <1>3, TreeFacts
  <2> QED BY <1>2, <1>3, <2>1 DEF IsLast
<1>4. Opened(ms) = Opened(ns)
  BY <1>2 DEF Opened
<1> QED BY <1>1, <1>2, <1>3, <1>4 DEF MarkEffect

LEMMA WithLineEffect ==
  ASSUME NEW ns, Tree(ns), NEW n \in Blocks(ns), NEW r
  PROVE  /\ MarkEffect(ns, WithLine(ns, n, r))
         /\ \A m \in Blocks(ns) : /\ WithLine(ns, n, r)[m].type = ns[m].type
                                  /\ m # n => WithLine(ns, n, r)[m] = ns[m]
<1> DEFINE ms == WithLine(ns, n, r)
           t  == Append(ns[n].text, [line |-> lineno, what |-> What(r)])
           b  == [ns[n] EXCEPT !.text = t]
<1>1. n \in Id /\ IsBlock(ns[n]) /\ ns = [m \in Id |-> ns[m]]
  BY TreeFacts DEF Tree
<1>2. ms = [ns EXCEPT ![n] = b]
  BY <1>1 DEF WithLine
<1> HIDE DEF t, ms
<1>3. b = [f \in Fields |-> IF f = "text" THEN t ELSE ns[n][f]]
  BY <1>1 DEF IsBlock, Fields
<1> HIDE DEF b
<1>4. /\ IsBlock(b) /\ b.type = ns[n].type /\ b.open = ns[n].open
      /\ b.parent = ns[n].parent /\ b.kids = ns[n].kids
  BY <1>1, <1>3 DEF IsBlock, Fields
<1>5. Puts(ns, ms, n, b)
  BY <1>1, <1>2 DEF Puts
<1>6. /\ SameTree(ns, ms)
      /\ ms[n] = b
      /\ \A m \in Blocks(ns) : m # n => ms[m] = ns[m]
  BY <1>4, <1>5, PutBlock
<1>7. \A m \in Blocks(ns) : ms[m].open = ns[m].open /\ ms[m].type = ns[m].type
  BY <1>4, <1>6
<1>8. MarkEffect(ns, ms)
  BY <1>6, <1>7, Marked
<1> QED BY <1>6, <1>7, <1>8 DEF ms

LEMMA FlaggedEffect ==
  ASSUME Tree(nodes)
  PROVE  /\ MarkEffect(nodes, Flagged)
         /\ \A m \in Live : /\ Flagged[m].type = nodes[m].type
                            /\ \E b \in BOOLEAN : Flagged[m] = [nodes[m] EXCEPT !.blank = b]
<1>1. Live = Blocks(nodes)
  BY DEF Live, Blocks
<1>2. \A m \in Blocks(nodes) : m \in Id /\ IsBlock(nodes[m])
  BY TreeFacts
<1>3. ASSUME NEW m \in Blocks(nodes), NEW b \in BOOLEAN
      PROVE  LET c == [nodes[m] EXCEPT !.blank = b]
             IN  /\ IsBlock(c) /\ c.type = nodes[m].type /\ c.open = nodes[m].open
                 /\ c.parent = nodes[m].parent /\ c.kids = nodes[m].kids
  <2> DEFINE c == [nodes[m] EXCEPT !.blank = b]
  <2>1. c = [f \in Fields |-> IF f = "blank" THEN b ELSE nodes[m][f]]
    BY <1>2 DEF IsBlock, Fields
  <2> HIDE DEF c
  <2>2. /\ IsBlock(c) /\ c.type = nodes[m].type /\ c.open = nodes[m].open
        /\ c.parent = nodes[m].parent /\ c.kids = nodes[m].kids
    BY <1>2, <2>1 DEF IsBlock, Fields
  <2> QED BY <2>2 DEF c
<1>4. LineBlank \in BOOLEAN
  BY DEF LineBlank
<1>5. \A m \in Blocks(nodes) : \E b \in BOOLEAN : Flagged[m] = [nodes[m] EXCEPT !.blank = b]
  <2> SUFFICES ASSUME NEW m \in Blocks(nodes)
               PROVE  \E b \in BOOLEAN : Flagged[m] = [nodes[m] EXCEPT !.blank = b]
    OBVIOUS
  <2> DEFINE flag == IF m = container THEN LineBlank
                     ELSE IF m \in Up(nodes, container) \ {container} THEN FALSE
                     ELSE IF /\ Blank /\ nodes[container].kids # <<>>
                             /\ m = Last(nodes[container].kids) THEN TRUE
                     ELSE nodes[m].blank
  <2>1. Flagged[m] = [nodes[m] EXCEPT !.blank = flag]
    BY <1>1, <1>2 DEF Flagged
  <2>2. flag \in BOOLEAN
    BY <1>2, <1>4 DEF IsBlock
  <2> QED BY <2>1, <2>2
<1>6. \A m \in Id \ Live : Flagged[m] = nodes[m]
  BY DEF Flagged
<1>7. Flagged = [m \in Id |-> Flagged[m]]
  BY DEF Flagged
<1>8. \A m \in Blocks(nodes) :
        /\ IsBlock(Flagged[m])
        /\ Flagged[m].type = nodes[m].type /\ Flagged[m].open = nodes[m].open
        /\ Flagged[m].parent = nodes[m].parent /\ Flagged[m].kids = nodes[m].kids
  <2> SUFFICES ASSUME NEW m \in Blocks(nodes)
               PROVE  /\ IsBlock(Flagged[m])
                      /\ Flagged[m].type = nodes[m].type /\ Flagged[m].open = nodes[m].open
                      /\ Flagged[m].parent = nodes[m].parent /\ Flagged[m].kids = nodes[m].kids
    OBVIOUS
  <2>1. PICK b \in BOOLEAN : Flagged[m] = [nodes[m] EXCEPT !.blank = b]
    BY <1>5
  <2> DEFINE c == [nodes[m] EXCEPT !.blank = b]
  <2>2. /\ IsBlock(c) /\ c.type = nodes[m].type /\ c.open = nodes[m].open
        /\ c.parent = nodes[m].parent /\ c.kids = nodes[m].kids
    BY <1>3
  <2>3. Flagged[m] = c
    BY <2>1
  <2> HIDE DEF c
  <2> QED BY <2>2, <2>3
<1>9. Blocks(Flagged) = Blocks(nodes)
  <2>1. \A m \in Id : Flagged[m] # Unused <=> nodes[m] # Unused
    BY <1>1, <1>6, <1>8, BlockUsed DEF Blocks
  <2> QED BY <2>1 DEF Blocks
<1>10. SameTree(nodes, Flagged)
  BY <1>7, <1>8, <1>9 DEF SameTree
<1> QED BY <1>1, <1>5, <1>8, <1>10, Marked

-----------------------------------------------------------------------------
(* The open blocks. Between two lines they are one branch of the tree, its *)
(* right edge. While a line is placed they are two: the one that ends in   *)
(* container, and what the line did not match of the one that ends in      *)
(* current, below matched. Nothing is appended below an unmatched block;   *)
(* if the line is lazy, and goes to current after all, nothing was         *)
(* appended below matched, either.                                         *)

OnEdge(ns, n) == \A m \in Up(ns, n) \ {Root} : IsLast(ns, m)

SpineOpen(ns, n) == /\ n \in Blocks(ns)
                    /\ Opened(ns) = Up(ns, n)
                    /\ OnEdge(ns, n)

Unmatched(ns, cur, mat) == IF cur = mat THEN {} ELSE Up(ns, cur) \ Up(ns, mat)

BranchesOpen(ns, con, cur, mat) ==
  /\ con \in Blocks(ns)
  /\ Opened(ns) = Up(ns, con) \cup Unmatched(ns, cur, mat)
  /\ OnEdge(ns, con)
  /\ cur # mat => /\ cur \in Blocks(ns)
                  /\ mat \in Up(ns, cur)
                  /\ Up(ns, con) \cap Unmatched(ns, cur, mat) = {}
                  /\ con = mat => OnEdge(ns, cur)
                  /\ ns[mat].open \/ ns[mat].type = "list"

LEMMA OneBranch ==
  ASSUME NEW ns, NEW con, NEW cur
  PROVE  BranchesOpen(ns, con, cur, cur) <=> SpineOpen(ns, con)
BY DEF BranchesOpen, SpineOpen, Unmatched

\* The line matched down to mat.
LEMMA BranchAt ==
  ASSUME NEW ns, Tree(ns), NEW cur, SpineOpen(ns, cur), NEW mat \in Up(ns, cur)
  PROVE  BranchesOpen(ns, mat, cur, mat)
<1>1. cur \in Blocks(ns) /\ mat \in Blocks(ns) /\ Rooted(ns)
  BY UpBlocks DEF SpineOpen, Tree
<1>2. Up(ns, mat) \subseteq Up(ns, cur)
  BY <1>1, UpTransitive
<1>3. Opened(ns) = Up(ns, mat) \cup Unmatched(ns, cur, mat)
  BY <1>2 DEF SpineOpen, Unmatched
<1>4. ns[mat].open
  BY DEF SpineOpen, Opened
<1>5. OnEdge(ns, mat)
  BY <1>2 DEF SpineOpen, OnEdge
<1> QED BY <1>1, <1>3, <1>4, <1>5 DEF BranchesOpen, SpineOpen, Unmatched

\* The line goes on with what it did not match, after all.
LEMMA LazyBranch ==
  ASSUME NEW ns, Tree(ns), NEW cur, NEW mat, cur # mat, BranchesOpen(ns, mat, cur, mat)
  PROVE  SpineOpen(ns, cur)
<1>1. Up(ns, mat) \subseteq Up(ns, cur)
  BY UpTransitive DEF BranchesOpen, Tree
<1> QED BY <1>1 DEF BranchesOpen, SpineOpen, Unmatched

LEMMA SpineClose ==
  ASSUME NEW ns, Tree(ns), NEW n, n # Root, SpineOpen(ns, n),
         NEW ms, CloseEffect(ns, ms, n)
  PROVE  SpineOpen(ms, ns[n].parent)
<1> DEFINE p == ns[n].parent
<1>1. n \in Blocks(ns) /\ p \in Blocks(ns) /\ p # n /\ Rooted(ns)
  BY TreeFacts DEF SpineOpen, Tree
<1>2. p \in Blocks(ms)
  BY <1>1 DEF CloseEffect
<1>3. Up(ns, n) = {n} \cup Up(ns, p) /\ n \notin Up(ns, p)
  BY <1>1, UpStep, UpAcyclic
<1>4. Up(ms, p) = Up(ns, p)
  BY <1>2 DEF CloseEffect
<1>5. Opened(ms) = Up(ms, p)
  BY <1>3, <1>4 DEF CloseEffect, SpineOpen
<1>6. Up(ms, p) \subseteq Blocks(ms)
  BY <1>2, UpBlocks DEF CloseEffect, Tree
<1>7. OnEdge(ms, p)
  BY <1>3, <1>4, <1>6 DEF CloseEffect, SpineOpen, OnEdge
<1> QED BY <1>2, <1>5, <1>7 DEF SpineOpen

LEMMA BranchClose ==
  ASSUME NEW ns, Tree(ns), NEW con, NEW cur, NEW mat, BranchesOpen(ns, con, cur, mat),
         con # Root, ns[con].type \notin {"document", "block_quote", "item"},
         cur # mat => con \in Up(ns, mat),
         NEW ms, CloseEffect(ns, ms, con)
  PROVE  BranchesOpen(ms, ns[con].parent, cur, mat)
<1>1. CASE cur = mat
  BY <1>1, OneBranch, SpineClose
<1>2. CASE cur # mat
  <2> DEFINE p == ns[con].parent
             U == Up(ns, cur) \ Up(ns, mat)
  <2>1. /\ Rooted(ns)
        /\ con \in Blocks(ns) /\ cur \in Blocks(ns) /\ mat \in Up(ns, cur)
        /\ con \in Up(ns, mat)
        /\ Opened(ns) = Up(ns, con) \cup U
        /\ Up(ns, con) \cap U = {}
        /\ OnEdge(ns, con)
        /\ ns[mat].open \/ ns[mat].type = "list"
    BY <1>2 DEF BranchesOpen, Unmatched, Tree
  <2>2. mat \in Blocks(ns) /\ p \in Blocks(ns)
    BY <2>1, UpBlocks, TreeFacts
  <2>3. con \in Up(ns, cur) /\ con # cur
    <3>1. Up(ns, mat) \subseteq Up(ns, cur) /\ Up(ns, con) \subseteq Up(ns, mat)
      BY <2>1, <2>2, UpTransitive
    <3>2. cur \in Up(ns, cur) /\ con \in Up(ns, con)
      BY <2>1, UpBlocks
    <3>3. cur \notin Up(ns, mat)
      <4> SUFFICES ASSUME cur \in Up(ns, mat)
                   PROVE  FALSE
        OBVIOUS
      <4>1. PICK k \in Up(ns, cur) \ {Root} : ns[k].parent = mat
        BY <1>2, <2>1, UpChild
      <4>2. k \in Blocks(ns) \ {Root} /\ Up(ns, cur) \subseteq Up(ns, mat)
        BY <2>1, <2>2, <4>1, UpBlocks, UpTransitive
      <4> QED BY <2>1, <4>1, <4>2, UpAcyclic
    <3> QED BY <2>1, <3>1, <3>2, <3>3
  <2>4. ns[con].type = "list"
    <3>1. ~IsLeaf(ns[con].type)
      BY <2>1, <2>3, LeafHasNoKids
    <3> QED BY <3>1 DEF IsLeaf
  <2>5. Blocks(ms) = Blocks(ns)
    BY <2>4 DEF CloseEffect
  <2>6. \A m \in Blocks(ns) : /\ Up(ms, m) = Up(ns, m)
                              /\ ms[m].type = ns[m].type
                              /\ m # con => ms[m] = ns[m]
    BY <2>1, <2>5 DEF CloseEffect
  <2>7. Up(ns, con) = {con} \cup Up(ns, p) /\ con \notin Up(ns, p)
    BY <2>1, UpStep, UpAcyclic
  <2>8. Opened(ms) = Up(ms, p) \cup (Up(ms, cur) \ Up(ms, mat))
    BY <2>1, <2>2, <2>5, <2>6, <2>7 DEF CloseEffect
  <2>9. OnEdge(ms, p)
    <3>1. Up(ns, p) \subseteq Blocks(ns)
      BY <2>1, <2>2, UpBlocks
    <3> QED BY <2>1, <2>2, <2>5, <2>6, <2>7, <3>1 DEF CloseEffect, OnEdge
  <2>10. Up(ms, p) \cap (Up(ms, cur) \ Up(ms, mat)) = {}
    BY <2>1, <2>2, <2>6, <2>7
  <2>11. p # mat
    BY <2>1, <2>2, <2>7, UpAcyclic
  <2>12. ms[mat].open \/ ms[mat].type = "list"
    BY <2>1, <2>2, <2>4, <2>6
  <2> QED BY <1>2, <2>1, <2>2, <2>5, <2>6, <2>8, <2>9, <2>10, <2>11, <2>12
          DEF BranchesOpen, Unmatched
<1> QED BY <1>1, <1>2

LEMMA UnmatchedClose ==
  ASSUME NEW ns, Tree(ns), NEW con, NEW cur, NEW mat, cur # mat,
         BranchesOpen(ns, con, cur, mat),
         NEW ms, CloseEffect(ns, ms, cur)
  PROVE  BranchesOpen(ms, con, ns[cur].parent, mat)
<1> DEFINE p == ns[cur].parent
           U == Up(ns, cur) \ Up(ns, mat)
<1>1. /\ Rooted(ns)
      /\ con \in Blocks(ns) /\ cur \in Blocks(ns) /\ mat \in Up(ns, cur)
      /\ Opened(ns) = Up(ns, con) \cup U
      /\ Up(ns, con) \cap U = {}
      /\ OnEdge(ns, con)
      /\ con = mat => OnEdge(ns, cur)
      /\ ns[mat].open \/ ns[mat].type = "list"
  BY DEF BranchesOpen, Unmatched, Tree
<1>2. cur # Root
  BY <1>1, UpRoot DEF Rooted
<1>3. /\ p \in Blocks(ns) /\ mat \in Blocks(ns)
      /\ Up(ns, cur) = {cur} \cup Up(ns, p) /\ cur \notin Up(ns, p)
  BY <1>1, <1>2, UpStep, UpAcyclic, UpBlocks, TreeFacts
<1>4. mat \in Up(ns, p) /\ Up(ns, mat) \subseteq Up(ns, p)
  BY <1>1, <1>3, UpTransitive
<1>5. cur \in U /\ cur \notin Up(ns, con) /\ con # cur
  BY <1>1, <1>3, <1>4, UpBlocks
<1>6. con \in Blocks(ms) /\ mat \in Blocks(ms) /\ p \in Blocks(ms)
  BY <1>1, <1>3, <1>4, <1>5 DEF CloseEffect
<1>7. \A m \in Blocks(ms) : Up(ms, m) = Up(ns, m) /\ ms[m].type = ns[m].type
  BY DEF CloseEffect
<1>8. Opened(ms) = Opened(ns) \ {cur}
  BY DEF CloseEffect
<1>9. OnEdge(ms, con)
  <2>1. Up(ms, con) \subseteq Blocks(ms)
    BY <1>6, UpBlocks DEF CloseEffect, Tree
  <2> QED BY <1>1, <1>6, <1>7, <2>1 DEF CloseEffect, OnEdge
<1>10. ms[mat].open \/ ms[mat].type = "list"
  <2>1. mat # cur
    OBVIOUS
  <2>2. ns[mat].open => mat \in Opened(ns)
    BY <1>3 DEF Opened
  <2>3. ns[mat].open => ms[mat].open
    BY <1>8, <2>1, <2>2 DEF Opened
  <2> QED BY <1>1, <1>6, <1>7, <2>3
<1>11. CASE p = mat
  <2>1. Opened(ms) = Up(ms, con)
    BY <1>1, <1>3, <1>5, <1>6, <1>7, <1>8, <1>11
  <2> QED BY <1>6, <1>9, <1>11, <2>1 DEF BranchesOpen, Unmatched
<1>12. CASE p # mat
  <2>1. Opened(ms) = Up(ms, con) \cup (Up(ms, p) \ Up(ms, mat))
    BY <1>1, <1>3, <1>5, <1>6, <1>7, <1>8
  <2>2. Up(ms, con) \cap (Up(ms, p) \ Up(ms, mat)) = {}
    BY <1>1, <1>3, <1>6, <1>7
  <2>3. ASSUME con = mat
        PROVE  OnEdge(ms, p)
    <3>1. Up(ms, p) \subseteq Blocks(ms) /\ Up(ms, p) = Up(ns, p)
      BY <1>6, <1>7, UpBlocks DEF CloseEffect, Tree
    <3>2. \A m \in Up(ns, p) \ {Root} : IsLast(ns, m)
      BY <1>1, <1>3, <2>3 DEF OnEdge
    <3> QED BY <3>1, <3>2 DEF CloseEffect, OnEdge
  <2> QED BY <1>4, <1>6, <1>7, <1>9, <1>10, <1>12, <2>1, <2>2, <2>3
          DEF BranchesOpen, Unmatched
<1> QED BY <1>11, <1>12

LEMMA BranchAdd ==
  ASSUME NEW ns, Tree(ns), NEW con, NEW cur, NEW mat, BranchesOpen(ns, con, cur, mat),
         NEW n, n \notin Blocks(ns), NEW b, b.open,
         NEW ms, AddEffect(ns, ms, con, n, b)
  PROVE  BranchesOpen(ms, n, cur, mat)
<1>1. /\ con \in Blocks(ns) /\ Rooted(ns)
      /\ Opened(ns) = Up(ns, con) \cup Unmatched(ns, cur, mat)
      /\ OnEdge(ns, con)
  BY DEF BranchesOpen, Tree
<1>2. /\ Blocks(ms) = Blocks(ns) \cup {n}
      /\ ms[n].open /\ ms[n].parent = con
      /\ Up(ms, n) = {n} \cup Up(ns, con)
      /\ ms[con].kids # <<>> /\ Last(ms[con].kids) = n
  BY DEF AddEffect
<1>3. \A m \in Blocks(ns) : /\ m # con => ms[m] = ns[m]
                            /\ ms[m].open = ns[m].open
                            /\ ms[m].type = ns[m].type
                            /\ ms[m].parent = ns[m].parent
                            /\ Up(ms, m) = Up(ns, m)
  BY DEF AddEffect, Fields
<1>4. Opened(ms) = Opened(ns) \cup {n}
  BY <1>2, <1>3 DEF Opened
<1>5. Unmatched(ms, cur, mat) = Unmatched(ns, cur, mat)
  <2>1. cur # mat => cur \in Blocks(ns) /\ mat \in Blocks(ns)
    BY <1>1, UpBlocks DEF BranchesOpen
  <2> QED BY <1>3, <2>1 DEF Unmatched
<1>6. OnEdge(ms, n)
  <2> SUFFICES ASSUME NEW m \in Up(ms, n) \ {Root}
               PROVE  IsLast(ms, m)
    BY DEF OnEdge
  <2>1. CASE m = n
    BY <1>2, <2>1 DEF IsLast
  <2>2. CASE m # n
    <3>1. m \in Up(ns, con) /\ m \in Blocks(ns) \ {Root} /\ IsLast(ns, m)
      BY <1>1, <1>2, <2>2, UpBlocks DEF OnEdge
    <3>2. ns[m].parent \in Blocks(ns) /\ ns[m].parent # con
      BY <1>1, <3>1, UpAcyclic, TreeFacts
    <3> QED BY <1>3, <3>1, <3>2 DEF IsLast
  <2> QED BY <2>1, <2>2
<1>7. cur # mat =>
        /\ cur \in Blocks(ms) /\ mat \in Up(ms, cur)
        /\ Up(ms, n) \cap Unmatched(ms, cur, mat) = {}
        /\ n # mat
        /\ ms[mat].open \/ ms[mat].type = "list"
  <2> SUFFICES ASSUME cur # mat
               PROVE  /\ cur \in Blocks(ms) /\ mat \in Up(ms, cur)
                      /\ Up(ms, n) \cap Unmatched(ms, cur, mat) = {}
                      /\ n # mat
                      /\ ms[mat].open \/ ms[mat].type = "list"
    OBVIOUS
  <2>1. /\ cur \in Blocks(ns) /\ mat \in Up(ns, cur)
        /\ Up(ns, con) \cap Unmatched(ns, cur, mat) = {}
        /\ ns[mat].open \/ ns[mat].type = "list"
    BY DEF BranchesOpen
  <2>2. Up(ns, cur) \subseteq Blocks(ns)
    BY <1>1, <2>1, UpBlocks
  <2>3. n \notin Unmatched(ns, cur, mat)
    BY <2>2 DEF Unmatched
  <2> QED BY <1>2, <1>3, <1>5, <2>1, <2>2, <2>3
<1> QED BY <1>1, <1>2, <1>4, <1>5, <1>6, <1>7 DEF BranchesOpen

LEMMA BranchMark ==
  ASSUME NEW ns, Tree(ns), NEW ms, MarkEffect(ns, ms)
  PROVE  /\ \A n : SpineOpen(ns, n) => SpineOpen(ms, n)
         /\ \A con, cur, mat : BranchesOpen(ns, con, cur, mat) => BranchesOpen(ms, con, cur, mat)
<1>1. /\ Rooted(ns) /\ Blocks(ms) = Blocks(ns) /\ Opened(ms) = Opened(ns)
      /\ \A m \in Blocks(ns) : /\ Up(ms, m) = Up(ns, m)
                               /\ ms[m].open = ns[m].open
                               /\ ns[m].type = "list" => ms[m].type = "list"
                               /\ m # Root /\ IsLast(ns, m) => IsLast(ms, m)
  BY DEF MarkEffect, Tree
<1>2. ASSUME NEW n \in Blocks(ns), OnEdge(ns, n)
      PROVE  OnEdge(ms, n)
  <2>1. Up(ns, n) \subseteq Blocks(ns)
    BY <1>1, UpBlocks
  <2> QED BY <1>1, <1>2, <2>1 DEF OnEdge
<1>3. ASSUME NEW n, SpineOpen(ns, n)
      PROVE  SpineOpen(ms, n)
  BY <1>1, <1>2, <1>3 DEF SpineOpen
<1>4. ASSUME NEW con, NEW cur, NEW mat, BranchesOpen(ns, con, cur, mat)
      PROVE  BranchesOpen(ms, con, cur, mat)
  <2>1. con \in Blocks(ns)
    BY <1>4 DEF BranchesOpen
  <2>2. cur # mat => cur \in Blocks(ns) /\ mat \in Blocks(ns)
    BY <1>1, <1>4, UpBlocks DEF BranchesOpen
  <2>3. Unmatched(ms, cur, mat) = Unmatched(ns, cur, mat)
    BY <1>1, <2>2 DEF Unmatched
  <2> QED BY <1>1, <1>2, <1>4, <2>1, <2>2, <2>3 DEF BranchesOpen
<1> QED BY <1>3, <1>4

-----------------------------------------------------------------------------
(* Closed blocks. *)

Stays(ns, ms, n)   == \E b \in BOOLEAN : ms[n] = [ns[n] EXCEPT !.blank = b]
ClosedStay(ns, ms) == \A n \in Blocks(ns) : ~ns[n].open => Stays(ns, ms, n)

LEMMA SameStays ==
  ASSUME NEW ns, Tree(ns), NEW n \in Blocks(ns), NEW ms, ms[n] = ns[n]
  PROVE  Stays(ns, ms, n)
<1>1. IsBlock(ns[n])
  BY TreeFacts
<1>2. ns[n] = [ns[n] EXCEPT !.blank = ns[n].blank] /\ ns[n].blank \in BOOLEAN
  BY <1>1 DEF IsBlock, Fields
<1> QED BY <1>2 DEF Stays

LEMMA CloseStays ==
  ASSUME NEW ns, Tree(ns), NEW n \in Opened(ns), NEW ms, CloseEffect(ns, ms, n),
         ns[n].type = "paragraph" => ns[ns[n].parent].open
  PROVE  ClosedStay(ns, ms)
<1> SUFFICES ASSUME NEW m \in Blocks(ns), ~ns[m].open
             PROVE  Stays(ns, ms, m)
  BY DEF ClosedStay
<1>1. m # n
  BY DEF Opened
<1>2. n \in Blocks(ms) \/ m # ns[n].parent
  BY DEF CloseEffect, Opened
<1>3. ms[m] = ns[m]
  BY <1>1, <1>2 DEF CloseEffect
<1> QED BY <1>3, SameStays

\* The parent of a block that is open because the line matched down to it is open.
LEMMA ParentOpen ==
  ASSUME NEW ns, Tree(ns), NEW con \in Blocks(ns) \ {Root}, Up(ns, con) \subseteq Opened(ns)
  PROVE  con \in Opened(ns) /\ ns[ns[con].parent].open
<1>1. Rooted(ns) /\ ns[con].parent \in Blocks(ns)
  BY TreeFacts DEF Tree
<1>2. con \in Up(ns, con) /\ ns[con].parent \in Up(ns, con)
  BY <1>1, UpStep, UpBlocks
<1> QED BY <1>2 DEF Opened

\* So is the parent of the paragraph that the line did not match.
LEMMA UnmatchedParentOpen ==
  ASSUME NEW ns, Tree(ns), NEW con, NEW cur, NEW mat, cur # mat,
         BranchesOpen(ns, con, cur, mat)
  PROVE  /\ cur \in Opened(ns) /\ cur # Root
         /\ ns[cur].type = "paragraph" => ns[ns[cur].parent].open
<1> DEFINE p == ns[cur].parent
<1>1. /\ Rooted(ns) /\ cur \in Blocks(ns) /\ mat \in Up(ns, cur)
      /\ Up(ns, cur) \ Up(ns, mat) \subseteq Opened(ns)
      /\ ns[mat].open \/ ns[mat].type = "list"
  BY DEF BranchesOpen, Unmatched, Tree
<1>2. cur # Root
  BY <1>1, UpRoot DEF Rooted
<1>3. /\ p \in Blocks(ns) /\ mat \in Blocks(ns) /\ p # cur
      /\ Up(ns, cur) = {cur} \cup Up(ns, p) /\ cur \notin Up(ns, p)
  BY <1>1, <1>2, UpStep, UpAcyclic, UpBlocks, TreeFacts
<1>4. Up(ns, mat) \subseteq Up(ns, p) /\ p \in Up(ns, p)
  BY <1>1, <1>3, UpBlocks, UpTransitive
<1>5. cur \in Opened(ns)
  BY <1>1, <1>3, <1>4
<1>6. ASSUME ns[cur].type = "paragraph"
      PROVE  ns[p].open
  <2>1. CASE p = mat
    <3>1. ns[mat].type # "list"
      BY <1>1, <1>2, <1>6, <2>1, TreeFacts DEF CanContain
    <3> QED BY <1>1, <2>1, <3>1
  <2>2. CASE p # mat
    <3>1. p \notin Up(ns, mat)
      <4> SUFFICES ASSUME p \in Up(ns, mat)
                   PROVE  FALSE
        OBVIOUS
      <4>1. PICK k \in Up(ns, mat) \ {Root} : ns[k].parent = p
        BY <1>1, <1>3, <2>2, UpChild
      <4>2. k \in Up(ns, p) /\ k \in Blocks(ns)
        BY <1>1, <1>3, <1>4, <4>1, UpBlocks
      <4>3. k \notin Up(ns, p)
        BY <1>1, <4>1, <4>2, UpAcyclic
      <4> QED BY <4>2, <4>3
    <3>2. p \in Opened(ns)
      BY <1>1, <1>3, <1>4, <3>1
    <3> QED BY <3>2 DEF Opened
  <2> QED BY <2>1, <2>2
<1> QED BY <1>2, <1>5, <1>6

-----------------------------------------------------------------------------
(* The inductive invariant. *)

NewBlock(b) == IsBlock(b) /\ b.open /\ b.kids = <<>>

\* add_child is called for one block, or for a list and its item. Only a
\* paragraph is added once the unmatched blocks are closed, and a thematic
\* break takes the rest of the line.
AddingSound ==
  \/ \E b : /\ adding = <<b>> /\ NewBlock(b) /\ b.type \notin {"document", "list"}
            /\ b.type = "thematic_break" => rest = Eol
            /\ b.type = "paragraph" => current = matched
  \/ \E l, i : /\ adding = <<l, i>> /\ NewBlock(l) /\ NewBlock(i)
               /\ l.type = "list" /\ i.type = "item"

\* What the line has opened it does not close again.
NewStaysOpen ==
  current # matched /\ container \notin Up(nodes, matched) =>
    /\ pc = "open" => \/ Type(container) \in {"block_quote", "item", "html_block"}
                      \/ rest = Eol
    /\ pc = "add"  => CanContain(Type(container), adding[1].type)

Phases == {"idle", "check", "open", "add", "text", "close", "line", "finish", "done"}

IInv == /\ Tree(nodes)
        /\ pc \in Phases
        /\ pc \in {"idle", "check", "finish"} => SpineOpen(nodes, current)
        /\ pc = "check" => container \in Up(nodes, current)
        /\ pc \in {"open", "add", "text", "close", "line"} =>
             BranchesOpen(nodes, container, current, matched)
        /\ pc = "add" => AddingSound
        /\ pc \in {"open", "add"} => NewStaysOpen
        /\ pc = "line" => current = matched
        /\ pc = "done" => Opened(nodes) = {}

\* What every step must do.
StepSound == IInv' /\ ClosedStay(nodes, nodes')

LEMMA LiveBlocks == Live = Blocks(nodes)
BY DEF Live, Blocks

LEMMA InitIInv == Init => IInv
<1> SUFFICES ASSUME Init
             PROVE  IInv
  OBVIOUS
<1> DEFINE root == [type |-> "document", parent |-> None, kids |-> <<>>,
                    open |-> TRUE, blank |-> FALSE, start |-> 1, end |-> 1,
                    text |-> <<>>, as |-> <<>>]
<1>1. /\ nodes = [n \in Id |-> IF n = Root THEN root ELSE Unused]
      /\ pc = "idle" /\ current = Root
  BY DEF Init
<1>2. Root \in Id /\ None \notin Id /\ Root # None
  BY BoundsAssumption DEF Id, Root, None
<1>3. /\ IsBlock(root) /\ root.type = "document" /\ root.parent = None
      /\ root.kids = <<>> /\ root.open
  BY DEF IsBlock, Fields, BlockTypes
<1> HIDE DEF root
<1>4. nodes[Root] = root /\ root # Unused /\ Blocks(nodes) = {Root}
  BY <1>1, <1>2, <1>3, BlockUsed DEF Blocks
<1>5. Rooted(nodes)
  <2>1. Hangs(nodes)
    BY <1>3, <1>4 DEF Hangs
  <2> DEFINE d == [n \in Id |-> 0]
  <2>2. Ranked(nodes, d)
    BY <1>2, <1>4 DEF Ranked
  <2> QED BY <2>1, <2>2 DEF Rooted
<1>6. ToSet(<<>>) = {} /\ IsInjective(<<>>)
  BY DEF ToSet, IsInjective
<1>7. Tree(nodes)
  BY <1>1, <1>2, <1>3, <1>4, <1>5, <1>6 DEF Tree
<1>8. SpineOpen(nodes, current)
  <2>1. Up(nodes, Root) = {Root}
    BY <1>5, UpRoot DEF Rooted
  <2> QED BY <1>1, <1>3, <1>4, <2>1 DEF SpineOpen, Opened, OnEdge
<1> QED BY <1>1, <1>7, <1>8 DEF IInv, Phases

-----------------------------------------------------------------------------
(* The steps, one lemma for each action. *)

LEMMA UnchangedStays == Tree(nodes) /\ nodes' = nodes => ClosedStay(nodes, nodes')
BY SameStays DEF ClosedStay

LEMMA ReadLineStep ==
  ASSUME IInv, NEW l, ReadLine(l)
  PROVE  StepSound
<1>1. /\ Tree(nodes) /\ SpineOpen(nodes, current)
      /\ nodes' = nodes /\ current' = current /\ pc' = "check" /\ container' = Root
  BY DEF IInv, ReadLine
<1>2. Root \in Up(nodes, current)
  BY <1>1, UpBlocks DEF SpineOpen, Tree
<1>3. IInv'
  BY <1>1, <1>2 DEF IInv, Phases
<1> QED BY <1>1, <1>3, UnchangedStays DEF StepSound

LEMMA DescendStep ==
  ASSUME IInv, pc = "check", NEW n \in Up(nodes, current), NEW r, Descend(n, r)
  PROVE  StepSound
<1>1. /\ Tree(nodes) /\ SpineOpen(nodes, current)
      /\ nodes' = nodes /\ current' = current /\ pc' = "check" /\ container' = n
  BY DEF IInv, Descend
<1>2. IInv'
  BY <1>1 DEF IInv, Phases
<1> QED BY <1>1, <1>2, UnchangedStays DEF StepSound

LEMMA StopCheckingStep ==
  ASSUME IInv, pc = "check", StopChecking
  PROVE  StepSound
<1>1. /\ Tree(nodes) /\ SpineOpen(nodes, current) /\ container \in Up(nodes, current)
      /\ nodes' = nodes /\ current' = current /\ pc' = "open"
      /\ container' = container /\ matched' = container
  BY DEF IInv, StopChecking
<1>2. BranchesOpen(nodes', container', current', matched')
  BY <1>1, BranchAt
<1>3. container \in Up(nodes, container)
  BY <1>1, UpBlocks DEF SpineOpen, Tree
<1>4. IInv'
  BY <1>1, <1>2, <1>3 DEF IInv, Phases, NewStaysOpen
<1> QED BY <1>1, <1>4, UnchangedStays DEF StepSound

\* The blocks that check_open_blocks tries are those of the open branch.
LEMMA NextTried ==
  ASSUME IInv, pc = "check", LastOpenChild(container) # None
  PROVE  LastOpenChild(container) \in Up(nodes, current) \ {Root}
<1> DEFINE k == nodes[container].kids
           n == LastOpenChild(container)
<1>1. /\ Tree(nodes) /\ SpineOpen(nodes, current) /\ container \in Up(nodes, current)
      /\ Rooted(nodes)
  BY DEF IInv, Tree
<1>2. container \in Blocks(nodes)
  BY <1>1, UpBlocks DEF SpineOpen
<1>3. /\ k \in Seq(Id) /\ ToSet(k) = {m \in Blocks(nodes) : nodes[m].parent = container}
  BY <1>1, <1>2 DEF Tree, IsBlock
<1>4. k # <<>> /\ n = Last(k) /\ nodes[n].open
  BY DEF LastOpenChild
<1>5. n \in ToSet(k)
  <2>1. Len(k) \in 1 .. Len(k)
    BY <1>3, <1>4
  <2> QED BY <1>3, <1>4, <2>1 DEF ToSet, Last
<1>6. n \in Opened(nodes) /\ nodes[n].parent = container
  BY <1>3, <1>4, <1>5 DEF Opened
<1>7. n # Root
  <2>1. container # None /\ nodes[Root].parent = None
    BY <1>1, <1>2 DEF Rooted, Hangs, Blocks, Id, None
  <2> QED BY <1>6, <2>1
<1> QED BY <1>1, <1>6, <1>7 DEF SpineOpen

LEMMA CloseFenceStep ==
  ASSUME IInv, pc = "check", NEW n \in Up(nodes, current) \ {Root}, CloseFence(n)
  PROVE  StepSound
<1>1. /\ Tree(nodes) /\ SpineOpen(nodes, current) /\ nodes[n].type = "code_block"
      /\ nodes' = Finalize(nodes, n) /\ current' = nodes[n].parent /\ pc' = "idle"
  BY DEF IInv, CloseFence, Close, EndOfLine, Type
<1>2. current \in Blocks(nodes) /\ n \in Blocks(nodes) /\ n \in Opened(nodes)
  BY <1>1, UpBlocks DEF SpineOpen, Tree
<1>3. n = current
  <2>1. IsLeaf(nodes[n].type)
    BY <1>1 DEF IsLeaf
  <2> QED BY <1>1, <1>2, <2>1, LeafHasNoKids
<1>4. CloseEffect(nodes, nodes', n)
  BY <1>1, <1>2, FinalizeEffect
<1>5. SpineOpen(nodes', current')
  BY <1>1, <1>3, <1>4, SpineClose
<1>6. Tree(nodes')
  BY <1>4 DEF CloseEffect
<1>7. IInv'
  BY <1>1, <1>5, <1>6 DEF IInv, Phases
<1>8. ClosedStay(nodes, nodes')
  BY <1>1, <1>2, <1>4, CloseStays
<1> QED BY <1>7, <1>8 DEF StepSound

LEMMA CheckOpenBlocksStep ==
  ASSUME IInv, CheckOpenBlocks
  PROVE  StepSound
<1> DEFINE n == LastOpenChild(container)
<1>1. pc = "check"
  BY DEF CheckOpenBlocks
<1>2. CASE n = None
  BY <1>1, <1>2, StopCheckingStep DEF CheckOpenBlocks
<1>3. CASE n # None
  <2>1. n \in Up(nodes, current) \ {Root}
    BY <1>1, <1>3, NextTried
  <2>2. \/ CheckQuote(n) \/ CheckItem(n) \/ CheckIndentedCode(n)
        \/ CheckFencedCode(n) \/ CloseFence(n) \/ CheckHtml(n)
        \/ CheckParagraph(n) \/ CheckOther(n) \/ Mismatch(n)
    BY <1>3 DEF CheckOpenBlocks
  <2> HIDE DEF n
  <2>3. ASSUME \/ CheckQuote(n) \/ CheckItem(n) \/ CheckIndentedCode(n)
               \/ CheckFencedCode(n) \/ CheckHtml(n) \/ CheckParagraph(n) \/ CheckOther(n)
        PROVE  StepSound
    <3>1. \E r : Descend(n, r)
      BY <2>3 DEF CheckQuote, CheckItem, CheckIndentedCode, CheckFencedCode,
                  CheckHtml, CheckParagraph, CheckOther
    <3> QED BY <1>1, <2>1, <3>1, DescendStep
  <2>4. CASE CloseFence(n)
    BY <1>1, <2>1, <2>4, CloseFenceStep
  <2>5. CASE Mismatch(n)
    BY <1>1, <2>5, StopCheckingStep DEF Mismatch
  <2> QED BY <2>2, <2>3, <2>4, <2>5
<1> QED BY <1>2, <1>3

LEMMA NewBlocks ==
  ASSUME NEW t \in BlockTypes, NEW as
  PROVE  NewBlock(Block(t, as)) /\ Block(t, as).type = t
<1> DEFINE b == Block(t, as)
<1>1. /\ b = [f \in Fields |-> b[f]]
      /\ b.type = t /\ b.parent = None /\ b.kids = <<>> /\ b.open = TRUE /\ b.blank = FALSE
  BY DEF Block, Fields
<1> HIDE DEF b
<1>2. <<>> \in Seq(Id)
  OBVIOUS
<1> QED BY <1>1, <1>2 DEF NewBlock, IsBlock, b

LEMMA EolStartsNothing == rest = Eol => NothingStarts
<1> SUFFICES ASSUME rest = Eol
             PROVE  NothingStarts
  OBVIOUS
<1>1. Tok = "eol"
  BY DEF Tok, Eol
<1>2. Tok \notin DOMAIN FenceOf /\ Tok \notin DOMAIN HtmlStart /\ Tok \notin DOMAIN Marker
  BY <1>1 DEF FenceOf, HtmlStart, Marker
<1> QED BY <1>1, <1>2 DEF NothingStarts, StartsQuote, StartsAtx, StartsFence, StartsHtml,
        StartsSetext, StartsRule, StartsItem, StartsIndentedCode, Blank, Underline, Rule

LEMMA OpenStep ==
  ASSUME IInv, pc = "open", ~NothingStarts, NEW blocks, NEW r, Open(blocks, r),
         AddingSound'
  PROVE  StepSound
<1>1. /\ Tree(nodes) /\ BranchesOpen(nodes, container, current, matched) /\ NewStaysOpen
      /\ nodes' = nodes /\ current' = current /\ pc' = "add"
      /\ container' = container /\ matched' = matched
  BY DEF IInv, Open
<1>2. NewStaysOpen'
  <2> SUFFICES ASSUME current # matched, container \notin Up(nodes, matched)
               PROVE  CanContain(nodes[container].type, adding'[1].type)
    BY <1>1 DEF NewStaysOpen, Type
  <2>1. Type(container) \in {"block_quote", "item"}
    BY <1>1, EolStartsNothing DEF NewStaysOpen, NothingStarts
  <2> QED BY <2>1 DEF Type, CanContain
<1>3. IInv'
  BY <1>1, <1>2 DEF IInv, Phases
<1> QED BY <1>1, <1>3, UnchangedStays DEF StepSound

LEMMA TurnSetextStep ==
  ASSUME IInv, pc = "open", TurnSetext
  PROVE  StepSound
<1>1. /\ Tree(nodes) /\ BranchesOpen(nodes, container, current, matched)
      /\ nodes[container].type = "paragraph"
      /\ nodes' = [nodes EXCEPT ![container].type = "heading",
                                ![container].as = [setext |-> TRUE]]
      /\ current' = current /\ pc' = "text" /\ container' = container /\ matched' = matched
  BY DEF IInv, TurnSetext, StartsSetext, Type
<1>2. container \in Blocks(nodes) /\ container \in Id /\ IsBlock(nodes[container])
  BY <1>1, TreeFacts DEF BranchesOpen
<1> DEFINE b == [nodes[container] EXCEPT !.type = "heading", !.as = [setext |-> TRUE]]
<1>3. /\ IsBlock(b) /\ b.type = "heading" /\ b.open = nodes[container].open
      /\ b.parent = nodes[container].parent /\ b.kids = nodes[container].kids
  <2>1. b = [f \in Fields |-> IF f = "type" THEN "heading"
                              ELSE IF f = "as" THEN [setext |-> TRUE]
                              ELSE nodes[container][f]]
    BY <1>2 DEF IsBlock, Fields
  <2> HIDE DEF b
  <2> QED BY <1>2, <2>1 DEF IsBlock, Fields, BlockTypes
<1>4. Puts(nodes, nodes', container, b)
  <2>1. nodes = [m \in Id |-> nodes[m]]
    BY <1>1 DEF Tree
  <2> QED BY <1>1, <1>2, <2>1 DEF Puts
<1> HIDE DEF b
<1>5. /\ SameTree(nodes, nodes')
      /\ nodes'[container] = b
      /\ \A m \in Blocks(nodes) : m # container => nodes'[m] = nodes[m]
  <2>1. \/ b.type = nodes[container].type
        \/ nodes[container].type = "paragraph" /\ b.type = "heading"
    BY <1>1, <1>3
  <2>2. Tree(nodes)
    BY <1>1
  <2> QED BY <1>2, <1>3, <1>4, <2>1, <2>2, PutBlock
<1>6. MarkEffect(nodes, nodes')
  <2>1. \A m \in Blocks(nodes) : nodes'[m].open = nodes[m].open
    BY <1>3, <1>5
  <2>2. Tree(nodes) /\ SameTree(nodes, nodes')
    BY <1>1, <1>5
  <2> QED BY <2>1, <2>2, Marked
<1>7. Tree(nodes') /\ BranchesOpen(nodes', container', current', matched')
  <2>1. Tree(nodes) /\ BranchesOpen(nodes, container, current, matched)
    BY <1>1
  <2>2. BranchesOpen(nodes', container, current, matched)
    BY <1>6, <2>1, BranchMark
  <2> QED BY <1>1, <1>6, <2>2 DEF MarkEffect
<1>8. IInv'
  BY <1>1, <1>7 DEF IInv, Phases
<1>9. ClosedStay(nodes, nodes')
  <2>1. container \in Opened(nodes)
    BY <1>1, <1>2, UpBlocks DEF BranchesOpen, Tree
  <2> QED BY <1>1, <1>5, <2>1, SameStays DEF ClosedStay, Opened
<1> QED BY <1>8, <1>9 DEF StepSound

LEMMA OpenNewBlocksStep ==
  ASSUME IInv, OpenNewBlocks
  PROVE  StepSound
<1>1. pc = "open"
  BY DEF OpenNewBlocks
<1>2. CASE NothingStarts
  <2>1. /\ Tree(nodes) /\ BranchesOpen(nodes, container, current, matched)
        /\ nodes' = nodes /\ current' = current /\ pc' = "text"
        /\ container' = container /\ matched' = matched
    BY <1>1, <1>2 DEF IInv, OpenNewBlocks, StopOpening
  <2>2. IInv'
    BY <2>1 DEF IInv, Phases
  <2> QED BY <2>1, <2>2, UnchangedStays DEF StepSound
<1>3. CASE ~NothingStarts
  \* one block that is neither a list nor a paragraph
  <2>1. ASSUME NEW t \in BlockTypes \ {"document", "list", "paragraph"}, NEW as, NEW r,
               Open(<<Block(t, as)>>, r), t = "thematic_break" => r = Eol
        PROVE  StepSound
    <3>1. adding' = <<Block(t, as)>> /\ rest' = r
      BY <2>1 DEF Open
    <3>2. NewBlock(Block(t, as)) /\ Block(t, as).type = t
      BY NewBlocks
    <3> DEFINE b == Block(t, as)
    <3> HIDE DEF b
    <3>3. AddingSound'
      BY <2>1, <3>1, <3>2 DEF AddingSound, b
    <3> QED BY <1>1, <1>3, <2>1, <3>3, OpenStep
  <2>2. CASE OpenQuote
    BY <2>1, <2>2 DEF OpenQuote, BlockTypes
  <2>3. CASE OpenAtx
    BY <2>1, <2>3 DEF OpenAtx, BlockTypes
  <2>4. CASE OpenFence
    BY <2>1, <2>4 DEF OpenFence, BlockTypes
  <2>5. CASE OpenHtml
    BY <2>1, <2>5 DEF OpenHtml, BlockTypes
  <2>6. CASE OpenRule
    BY <2>1, <2>6 DEF OpenRule, BlockTypes
  <2>7. CASE OpenIndentedCode
    BY <2>1, <2>7 DEF OpenIndentedCode, BlockTypes
  <2>8. CASE OpenItem
    <3> DEFINE m    == Marker[Tok]
               item == Block("item", [mark |-> m.kind, need |-> Need(m, Tail(rest))])
               list == Block("list", [mark |-> m.kind, tight |-> FALSE])
    <3>1. \E r : Open(IF Joins(m) THEN <<item>> ELSE <<list, item>>, r)
      BY <2>8 DEF OpenItem
    <3>2. PICK r : Open(IF Joins(m) THEN <<item>> ELSE <<list, item>>, r)
      BY <3>1
    <3>3. /\ NewBlock(item) /\ item.type = "item"
          /\ NewBlock(list) /\ list.type = "list"
      BY NewBlocks DEF BlockTypes
    <3> HIDE DEF item, list
    <3>4. CASE Joins(m)
      <4>1. adding' = <<item>>
        BY <3>2, <3>4 DEF Open
      <4>2. AddingSound'
        BY <3>3, <4>1 DEF AddingSound
      <4> QED BY <1>1, <1>3, <3>2, <4>2, OpenStep
    <3>5. CASE ~Joins(m)
      <4>1. adding' = <<list, item>>
        BY <3>2, <3>5 DEF Open
      <4>2. AddingSound'
        BY <3>3, <4>1 DEF AddingSound
      <4> QED BY <1>1, <1>3, <3>2, <4>2, OpenStep
    <3> QED BY <3>4, <3>5
  <2>9. CASE TurnSetext
    BY <1>1, <2>9, TurnSetextStep
  <2> QED BY <1>3, <2>2, <2>3, <2>4, <2>5, <2>6, <2>7, <2>8, <2>9 DEF OpenNewBlocks
<1> QED BY <1>2, <1>3

\* add_child gives up a block only for what it cannot hold.
LEMMA CloseForChildStep ==
  ASSUME IInv, pc = "add", CloseForChild
  PROVE  StepSound
<1>1. /\ Tree(nodes) /\ BranchesOpen(nodes, container, current, matched)
      /\ AddingSound /\ NewStaysOpen
      /\ ~CanContain(nodes[container].type, adding[1].type)
      /\ nodes' = Finalize(nodes, container) /\ container' = nodes[container].parent
      /\ current' = current /\ pc' = pc /\ matched' = matched
      /\ adding' = adding /\ rest' = rest
  <2>1. AddingSound
    BY DEF IInv
  <2>2. Head(adding) = adding[1]
    BY <2>1 DEF AddingSound
  <2> QED BY <2>1, <2>2 DEF IInv, CloseForChild, Close, Type
<1>2. container \in Blocks(nodes)
  BY <1>1 DEF BranchesOpen
<1>3. nodes[container].type \notin {"document", "block_quote", "item"} /\ container # Root
  BY <1>1, <1>2, TreeFacts DEF CanContain
<1>4. CloseEffect(nodes, nodes', container)
  BY <1>1, <1>2, FinalizeEffect
<1>5. current # matched => container \in Up(nodes, matched)
  BY <1>1 DEF NewStaysOpen, Type
<1>6. BranchesOpen(nodes', container', current', matched')
  BY <1>1, <1>3, <1>4, <1>5, BranchClose
<1>7. AddingSound'
  BY <1>1 DEF AddingSound
<1>8. NewStaysOpen'
  <2> SUFFICES ASSUME current # matched, container' \notin Up(nodes', matched)
               PROVE  FALSE
    BY <1>1 DEF NewStaysOpen
  <2>1. matched \in Blocks(nodes) /\ Rooted(nodes)
    BY <1>1, UpBlocks DEF BranchesOpen, Tree
  <2>2. nodes[container].parent \in Up(nodes, matched)
    <3>1. nodes[container].parent \in Up(nodes, container)
      <4>1. nodes[container].parent \in Blocks(nodes)
        BY <1>1, <1>2, <1>3, TreeFacts
      <4>2. nodes[container].parent \in Up(nodes, nodes[container].parent)
        BY <2>1, <4>1, UpBlocks
      <4> QED BY <1>2, <1>3, <2>1, <4>2, UpStep
    <3> QED BY <1>5, <2>1, <3>1, UpTransitive
  <2>3. matched \in Blocks(nodes')
    <3>1. matched \in Up(nodes', current')
      BY <1>1, <1>6 DEF BranchesOpen
    <3> QED BY <1>1, <1>4, <1>6, <3>1, UpBlocks DEF BranchesOpen, CloseEffect, Tree
  <2>4. Up(nodes', matched) = Up(nodes, matched)
    BY <1>4, <2>3 DEF CloseEffect
  <2> QED BY <1>1, <2>2, <2>4
<1>9. IInv'
  BY <1>1, <1>4, <1>6, <1>7, <1>8 DEF IInv, CloseEffect, Phases
<1>10. ClosedStay(nodes, nodes')
  <2>1. Up(nodes, container) \subseteq Opened(nodes)
    BY <1>1 DEF BranchesOpen
  <2>2. container \in Opened(nodes) /\ nodes[nodes[container].parent].open
    BY <1>1, <1>2, <1>3, <2>1, ParentOpen
  <2> QED BY <1>1, <1>4, <2>2, CloseStays
<1> QED BY <1>9, <1>10 DEF StepSound

LEMMA FreeId ==
  ASSUME Live # Id
  PROVE  Min(Id \ Live) \in Id \ Blocks(nodes)
<1> DEFINE F == Id \ Live
<1>1. F # {} /\ F \subseteq Nat
  BY LiveBlocks DEF Live, Id
<1>2. \E m \in F : \A k \in F : m <= k
  <2> HIDE DEF F
  <2> QED BY <1>1, LeastNat
<1>3. Min(F) \in F
  BY <1>2 DEF Min
<1> QED BY <1>3, LiveBlocks

LEMMA AddBlockStep ==
  ASSUME IInv, pc = "add", AddBlock
  PROVE  StepSound
<1> DEFINE n == Min(Id \ Live)
           b == Head(adding)
<1>1. /\ Tree(nodes) /\ BranchesOpen(nodes, container, current, matched)
      /\ AddingSound
      /\ container \in Blocks(nodes)
  BY DEF IInv, BranchesOpen
<1>2. n \in Id /\ n \notin Blocks(nodes)
  BY FreeId DEF AddBlock
<1>3. NewBlock(b)
  BY <1>1 DEF AddingSound
<1>4. /\ CanContain(nodes[container].type, b.type)
      /\ nodes' = [nodes EXCEPT ![n] = [b EXCEPT !.parent = container],
                                ![container].kids = Append(@, n)]
      /\ container' = n /\ adding' = Tail(adding)
      /\ pc' = IF Len(adding) > 1 THEN "add"
               ELSE IF b.type = "paragraph" THEN "line"
               ELSE IF Accepts(b.type) THEN "text" ELSE "open"
      /\ current' = current /\ matched' = matched /\ rest' = rest
  BY DEF AddBlock, Type
<1> HIDE DEF n, b
<1>5. AddEffect(nodes, nodes', container, n, b)
  BY <1>1, <1>2, <1>3, <1>4, AddKeeps DEF NewBlock
<1>6. BranchesOpen(nodes', container', current', matched')
  BY <1>1, <1>2, <1>3, <1>4, <1>5, BranchAdd DEF NewBlock
<1>7. nodes'[n].type = b.type
  BY <1>5 DEF AddEffect
<1>8. ASSUME Len(adding) > 1
      PROVE  IInv'
  <2>1. PICK l, i : /\ adding = <<l, i>> /\ NewBlock(l) /\ NewBlock(i)
                    /\ l.type = "list" /\ i.type = "item"
    <3>1. ASSUME NEW x, adding = <<x>>
          PROVE  FALSE
      BY <1>8, <3>1
    <3> QED BY <1>1, <3>1 DEF AddingSound
  <2>2. pc' = "add" /\ adding' = <<i>> /\ b = l
    BY <1>4, <1>8, <2>1 DEF b
  <2>3. AddingSound'
    BY <2>1, <2>2 DEF AddingSound
  <2>4. NewStaysOpen'
    BY <1>4, <1>7, <2>1, <2>2 DEF NewStaysOpen, Type, CanContain
  <2>5. Tree(nodes')
    BY <1>5 DEF AddEffect
  <2> QED BY <1>6, <2>2, <2>3, <2>4, <2>5 DEF IInv, Phases
<1>9. ASSUME ~(Len(adding) > 1)
      PROVE  IInv'
  <2>1. /\ b.type \notin {"document", "list"}
        /\ b.type = "thematic_break" => rest = Eol
        /\ b.type = "paragraph" => current = matched
    BY <1>1, <1>9 DEF AddingSound, b
  <2>2. pc' = IF b.type = "paragraph" THEN "line"
              ELSE IF Accepts(b.type) THEN "text" ELSE "open"
    BY <1>4, <1>9
  <2>3. pc' = "open" => b.type \in {"block_quote", "item", "html_block", "thematic_break"}
    BY <1>3, <2>1, <2>2 DEF NewBlock, IsBlock, BlockTypes, Accepts
  <2>4. NewStaysOpen'
    BY <1>4, <1>7, <2>1, <2>2, <2>3 DEF NewStaysOpen, Type
  <2>5. pc' = "line" => current' = matched'
    BY <1>4, <2>1, <2>2
  <2>6. pc' \in {"line", "text", "open"}
    BY <2>2
  <2>7. Tree(nodes')
    BY <1>5 DEF AddEffect
  <2> QED BY <1>6, <2>4, <2>5, <2>6, <2>7 DEF IInv, Phases
<1>10. ClosedStay(nodes, nodes')
  <2>1. container \in Opened(nodes)
    BY <1>1, UpBlocks DEF BranchesOpen, Tree
  <2>2. \A m \in Blocks(nodes) : m # container => nodes'[m] = nodes[m]
    BY <1>5 DEF AddEffect
  <2> SUFFICES ASSUME NEW m \in Blocks(nodes), ~nodes[m].open
               PROVE  Stays(nodes, nodes', m)
    BY DEF ClosedStay
  <2>3. nodes'[m] = nodes[m]
    BY <2>1, <2>2 DEF Opened
  <2>4. Tree(nodes)
    BY <1>1
  <2> QED BY <2>3, <2>4, SameStays
<1>11. IInv'
  BY <1>8, <1>9
<1> QED BY <1>10, <1>11 DEF StepSound

LEMMA LazyLineStep ==
  ASSUME IInv, pc = "text", LazyLine
  PROVE  StepSound
<1>1. /\ Tree(nodes) /\ BranchesOpen(nodes, matched, current, matched) /\ current # matched
      /\ nodes' = WithLine(Flagged, current, rest)
      /\ current' = current /\ pc' = "idle"
  BY DEF IInv, LazyLine, IsLazy, EndOfLine
<1>2. SpineOpen(nodes, current) /\ current \in Blocks(nodes)
  BY <1>1, LazyBranch DEF SpineOpen
<1>3. MarkEffect(nodes, Flagged)
  BY <1>1, FlaggedEffect
<1>4. Tree(Flagged) /\ Blocks(Flagged) = Blocks(nodes) /\ SpineOpen(Flagged, current)
  BY <1>1, <1>2, <1>3, BranchMark DEF MarkEffect
<1>5. MarkEffect(Flagged, nodes') /\ \A m \in Blocks(nodes) : m # current => nodes'[m] = Flagged[m]
  BY <1>1, <1>2, <1>4, WithLineEffect
<1>6. Tree(nodes') /\ SpineOpen(nodes', current')
  BY <1>1, <1>4, <1>5, BranchMark DEF MarkEffect
<1>7. IInv'
  BY <1>1, <1>6 DEF IInv, Phases
<1>8. ClosedStay(nodes, nodes')
  <2> SUFFICES ASSUME NEW m \in Blocks(nodes), ~nodes[m].open
               PROVE  Stays(nodes, nodes', m)
    BY DEF ClosedStay
  <2>1. m # current
    BY <1>1, <1>2, UpBlocks DEF SpineOpen, Opened, Tree
  <2>2. \E b \in BOOLEAN : Flagged[m] = [nodes[m] EXCEPT !.blank = b]
    BY <1>1, FlaggedEffect, LiveBlocks
  <2> QED BY <1>5, <2>1, <2>2 DEF Stays
<1> QED BY <1>7, <1>8 DEF StepSound

LEMMA NotLazyStep ==
  ASSUME IInv, pc = "text", NotLazy
  PROVE  StepSound
<1>1. /\ Tree(nodes) /\ BranchesOpen(nodes, container, current, matched)
      /\ nodes' = Flagged
      /\ current' = current /\ pc' = "close" /\ container' = container /\ matched' = matched
  BY DEF IInv, NotLazy
<1>2. MarkEffect(nodes, nodes')
  BY <1>1, FlaggedEffect
<1>3. Tree(nodes') /\ BranchesOpen(nodes', container', current', matched')
  <2>1. BranchesOpen(nodes', container, current, matched)
    BY <1>1, <1>2, BranchMark
  <2> QED BY <1>1, <1>2, <2>1 DEF MarkEffect
<1>4. IInv'
  BY <1>1, <1>3 DEF IInv, Phases
<1>5. ClosedStay(nodes, nodes')
  BY <1>1, FlaggedEffect, LiveBlocks DEF ClosedStay, Stays
<1> QED BY <1>4, <1>5 DEF StepSound

LEMMA CloseUnmatchedStep ==
  ASSUME IInv, CloseUnmatched
  PROVE  StepSound
<1>1. /\ Tree(nodes) /\ BranchesOpen(nodes, container, current, matched)
      /\ current # matched
      /\ nodes' = Finalize(nodes, current) /\ current' = nodes[current].parent
      /\ pc' = "close" /\ container' = container /\ matched' = matched
  BY DEF IInv, CloseUnmatched, Close
<1>2. current \in Blocks(nodes)
  BY <1>1 DEF BranchesOpen
<1>3. CloseEffect(nodes, nodes', current)
  BY <1>1, <1>2, FinalizeEffect
<1>4. BranchesOpen(nodes', container', current', matched')
  BY <1>1, <1>3, UnmatchedClose
<1>5. Tree(nodes')
  BY <1>3 DEF CloseEffect
<1>6. IInv'
  BY <1>1, <1>4, <1>5 DEF IInv, Phases
<1>7. ClosedStay(nodes, nodes')
  BY <1>1, <1>3, CloseStays, UnmatchedParentOpen
<1> QED BY <1>6, <1>7 DEF StepSound

\* The line goes to the end of the open branch.
LEMMA TextIntoStep ==
  ASSUME Tree(nodes), SpineOpen(nodes, container), NEW r, TextInto(container, r)
  PROVE  StepSound
<1>1. /\ nodes' = WithLine(nodes, container, r)
      /\ current' = container /\ pc' = "idle"
  BY DEF TextInto, EndOfLine
<1>2. container \in Blocks(nodes) /\ container \in Opened(nodes)
  BY UpBlocks DEF SpineOpen, Tree
<1>3. MarkEffect(nodes, nodes') /\ \A m \in Blocks(nodes) : m # container => nodes'[m] = nodes[m]
  BY <1>1, <1>2, WithLineEffect
<1>4. Tree(nodes') /\ SpineOpen(nodes', current')
  BY <1>1, <1>3, BranchMark DEF MarkEffect
<1>5. IInv'
  BY <1>1, <1>4 DEF IInv, Phases
<1>6. ClosedStay(nodes, nodes')
  BY <1>2, <1>3, SameStays DEF ClosedStay, Opened
<1> QED BY <1>5, <1>6 DEF StepSound

LEMMA HtmlLineStep ==
  ASSUME Tree(nodes), SpineOpen(nodes, container), Type(container) = "html_block",
         HtmlLine(container)
  PROVE  StepSound
<1> DEFINE ns   == WithLine(nodes, container, rest)
           ends == \E i \in DOMAIN rest : rest[i].tok \in HtmlEnd(nodes[container].as.html)
<1>1. /\ nodes' = IF ends THEN Finalize(ns, container) ELSE ns
      /\ current' = IF ends THEN nodes[container].parent ELSE container
      /\ pc' = "idle"
  BY DEF HtmlLine, EndOfLine
<1>2. container \in Blocks(nodes) /\ container \in Opened(nodes)
  BY UpBlocks DEF SpineOpen, Tree
<1>3. /\ MarkEffect(nodes, ns)
      /\ \A m \in Blocks(nodes) : /\ ns[m].type = nodes[m].type
                                  /\ m # container => ns[m] = nodes[m]
  BY <1>2, WithLineEffect
<1> HIDE DEF ns, ends
<1>4. /\ Tree(ns) /\ SpineOpen(ns, container) /\ Blocks(ns) = Blocks(nodes)
      /\ ns[container].parent = nodes[container].parent
      /\ ns[container].type = "html_block"
      /\ container \in Opened(ns)
  BY <1>2, <1>3, BranchMark DEF MarkEffect, Type
<1>5. CASE ends
  <2>1. CloseEffect(ns, nodes', container)
    BY <1>1, <1>2, <1>4, <1>5, FinalizeEffect
  <2>2. container # Root
    BY <1>2, TreeFacts DEF Type
  <2>3. SpineOpen(nodes', current')
    BY <1>1, <1>4, <1>5, <2>1, <2>2, SpineClose
  <2>4. IInv'
    BY <1>1, <2>1, <2>3 DEF IInv, Phases, CloseEffect
  <2>5. ClosedStay(nodes, nodes')
    <3> SUFFICES ASSUME NEW m \in Blocks(nodes), ~nodes[m].open
                 PROVE  Stays(nodes, nodes', m)
      BY DEF ClosedStay
    <3>1. m # container /\ ns[m] = nodes[m]
      BY <1>2, <1>3 DEF Opened
    <3>2. container \in Blocks(nodes')
      BY <1>4, <2>1 DEF CloseEffect, Opened
    <3>3. nodes'[m] = ns[m]
      BY <1>4, <2>1, <3>1, <3>2 DEF CloseEffect
    <3> QED BY <3>1, <3>3, SameStays
  <2> QED BY <2>4, <2>5 DEF StepSound
<1>6. CASE ~ends
  <2>1. IInv'
    BY <1>1, <1>4, <1>6 DEF IInv, Phases
  <2>2. ClosedStay(nodes, nodes')
    <3> SUFFICES ASSUME NEW m \in Blocks(nodes), ~nodes[m].open
                 PROVE  Stays(nodes, nodes', m)
      BY DEF ClosedStay
    <3>1. nodes'[m] = nodes[m]
      BY <1>1, <1>2, <1>3, <1>6 DEF Opened
    <3> QED BY <3>1, SameStays
  <2> QED BY <2>1, <2>2 DEF StepSound
<1> QED BY <1>5, <1>6

LEMMA PlaceTextStep ==
  ASSUME IInv, PlaceText
  PROVE  StepSound
<1>1. /\ Tree(nodes) /\ BranchesOpen(nodes, container, current, matched)
      /\ pc = "close" /\ current = matched
  BY DEF IInv, PlaceText
<1>2. SpineOpen(nodes, container)
  BY <1>1, OneBranch
<1>3. \/ \E r : TextInto(container, r)
      \/ Type(container) = "html_block" /\ HtmlLine(container)
      \/ BlankLine
      \/ NewParagraph
  BY DEF PlaceText
<1>4. CASE \E r : TextInto(container, r)
  BY <1>1, <1>2, <1>4, TextIntoStep
<1>5. CASE Type(container) = "html_block" /\ HtmlLine(container)
  BY <1>1, <1>2, <1>5, HtmlLineStep
<1>6. CASE BlankLine
  <2>1. nodes' = nodes /\ current' = container /\ pc' = "idle"
    BY <1>6 DEF BlankLine, EndOfLine
  <2>2. IInv'
    BY <1>1, <1>2, <2>1 DEF IInv, Phases
  <2> QED BY <1>1, <2>1, <2>2, UnchangedStays DEF StepSound
<1>7. CASE NewParagraph
  <2>1. /\ nodes' = nodes /\ current' = current /\ pc' = "add"
        /\ container' = container /\ matched' = matched
        /\ adding' = <<Block("paragraph", <<>>)>>
    BY <1>7 DEF NewParagraph
  <2> DEFINE b == Block("paragraph", <<>>)
  <2>2. NewBlock(b) /\ b.type = "paragraph"
    BY NewBlocks DEF BlockTypes
  <2> HIDE DEF b
  <2>3. AddingSound'
    BY <1>1, <2>1, <2>2 DEF AddingSound, b
  <2>4. NewStaysOpen'
    BY <1>1, <2>1 DEF NewStaysOpen
  <2>5. IInv'
    BY <1>1, <2>1, <2>3, <2>4 DEF IInv, Phases
  <2> QED BY <1>1, <2>1, <2>5, UnchangedStays DEF StepSound
<1> QED BY <1>3, <1>4, <1>5, <1>6, <1>7

LEMMA ParagraphLineStep ==
  ASSUME IInv, ParagraphLine
  PROVE  StepSound
<1>1. Tree(nodes) /\ SpineOpen(nodes, container)
  BY OneBranch DEF IInv, ParagraphLine
<1> QED BY <1>1, TextIntoStep DEF ParagraphLine

LEMMA FinishStep ==
  ASSUME IInv, Finish
  PROVE  StepSound
<1>1. /\ Tree(nodes) /\ SpineOpen(nodes, current)
      /\ nodes' = nodes /\ current' = current /\ pc' = "finish"
  BY DEF IInv, Finish
<1>2. IInv'
  BY <1>1 DEF IInv, Phases
<1> QED BY <1>1, <1>2, UnchangedStays DEF StepSound

LEMMA FinishBlockStep ==
  ASSUME IInv, FinishBlock
  PROVE  StepSound
<1>1. /\ Tree(nodes) /\ SpineOpen(nodes, current)
      /\ nodes' = Finalize(nodes, current)
      /\ current' = IF current = Root THEN Root ELSE nodes[current].parent
      /\ pc' = IF current = Root THEN "done" ELSE "finish"
  BY DEF IInv, FinishBlock, Close
<1>2. current \in Blocks(nodes) /\ Up(nodes, current) = Opened(nodes) /\ Rooted(nodes)
  BY <1>1 DEF SpineOpen, Tree
<1>3. CloseEffect(nodes, nodes', current)
  BY <1>1, <1>2, FinalizeEffect
<1>4. Tree(nodes')
  BY <1>3 DEF CloseEffect
<1>5. CASE current = Root
  <2>1. Opened(nodes) = {Root}
    BY <1>2, <1>5, UpRoot DEF Rooted
  <2>2. Opened(nodes') = {}
    BY <1>3, <1>5, <2>1 DEF CloseEffect
  <2>3. IInv'
    BY <1>1, <1>4, <1>5, <2>2 DEF IInv, Phases
  <2>4. nodes[current].type # "paragraph"
    BY <1>1, <1>2, <1>5, TreeFacts
  <2> QED BY <1>1, <1>3, <1>5, <2>1, <2>3, <2>4, CloseStays DEF StepSound
<1>6. CASE current # Root
  <2>1. SpineOpen(nodes', current')
    BY <1>1, <1>3, <1>6, SpineClose
  <2>2. IInv'
    BY <1>1, <1>4, <1>6, <2>1 DEF IInv, Phases
  <2>3. current \in Opened(nodes) /\ nodes[nodes[current].parent].open
    BY <1>1, <1>2, <1>6, ParentOpen
  <2> QED BY <1>1, <1>3, <2>2, <2>3, CloseStays DEF StepSound
<1> QED BY <1>5, <1>6

LEMMA NextStep ==
  ASSUME IInv, [Next]_vars
  PROVE  StepSound
<1>1. ASSUME UNCHANGED vars
      PROVE  StepSound
  <2>1. Tree(nodes) /\ nodes' = nodes
    BY <1>1 DEF IInv, vars
  <2>2. IInv'
    BY <1>1 DEF IInv, vars, AddingSound, NewStaysOpen, Type
  <2> QED BY <2>1, <2>2, UnchangedStays DEF StepSound
<1>2. CASE \E l \in Lines : ReadLine(l)
  BY <1>2, ReadLineStep
<1>3. CASE Finish
  BY <1>3, FinishStep
<1>4. CASE CheckOpenBlocks
  BY <1>4, CheckOpenBlocksStep
<1>5. CASE OpenNewBlocks
  BY <1>5, OpenNewBlocksStep
<1>6. CASE AddChild
  BY <1>6, CloseForChildStep, AddBlockStep DEF AddChild
<1>7. CASE AddText
  BY <1>7, LazyLineStep, NotLazyStep DEF AddText
<1>8. CASE CloseUnmatched
  BY <1>8, CloseUnmatchedStep
<1>9. CASE PlaceText
  BY <1>9, PlaceTextStep
<1>10. CASE ParagraphLine
  BY <1>10, ParagraphLineStep
<1>11. CASE FinishBlock
  BY <1>11, FinishBlockStep
<1> QED BY <1>1, <1>2, <1>3, <1>4, <1>5, <1>6, <1>7, <1>8, <1>9, <1>10, <1>11
        DEF Next, Work, Done

LEMMA SpecIInv == Spec => []IInv
<1>1. IInv /\ [Next]_vars => IInv'
  BY NextStep DEF StepSound
<1> QED BY InitIInv, <1>1, PTL DEF Spec

-----------------------------------------------------------------------------
(* What follows from the invariant. *)

LEMMA OpenedAre == \A n : n \in Opened(nodes) <=> n \in Live /\ nodes[n].open
BY LiveBlocks DEF Opened

LEMMA TreeSoundFollows == IInv => TreeSound
<1> SUFFICES ASSUME IInv
             PROVE  TreeSound
  OBVIOUS
<1>1. Tree(nodes) /\ Rooted(nodes)
  BY DEF IInv, Tree
<1>2. TreeIntact
  <2>1. \A n \in Live : /\ ToSet(nodes[n].kids) = {m \in Live : nodes[m].parent = n}
                        /\ IsInjective(nodes[n].kids)
    BY <1>1, LiveBlocks DEF Tree
  <2>2. Below(Root) = Live
    BY <1>1, LiveBlocks, UpBlocks DEF Below
  <2> QED BY <2>1, <2>2 DEF TreeIntact
<1>3. OpenBlocksAreSpine
  <2> SUFFICES ASSUME pc = "idle"
               PROVE  /\ {n \in Live : nodes[n].open} = Up(nodes, current)
                      /\ \A n \in Up(nodes, current) \ {Root} :
                           n = Last(nodes[nodes[n].parent].kids)
    BY DEF OpenBlocksAreSpine
  <2>1. SpineOpen(nodes, current)
    BY DEF IInv
  <2>2. {n \in Live : nodes[n].open} = Up(nodes, current)
    BY <2>1, LiveBlocks DEF SpineOpen, Opened
  <2> QED BY <2>1, <2>2 DEF SpineOpen, OnEdge, IsLast
<1> QED BY <1>2, <1>3 DEF TreeSound

(* At any time and after any input the blocks are one tree, its two link   *)
(* directions agree, and between two lines the open ones are its right     *)
(* edge from the root down to parser->current.                             *)
THEOREM TreeStaysSound == Spec => []TreeSound
BY SpecIInv, TreeSoundFollows, PTL

LEMMA AssertionsFollow == IInv => AssertionsHold
<1> SUFFICES ASSUME IInv
             PROVE  AssertionsHold
  OBVIOUS
<1>1. Tree(nodes) /\ Rooted(nodes)
  BY DEF IInv, Tree
<1>2. ASSUME pc \in {"open", "add", "text", "close", "line"}
      PROVE  /\ BranchesOpen(nodes, container, current, matched)
             /\ container \in Live /\ nodes[container].open
  <2>1. BranchesOpen(nodes, container, current, matched)
    BY <1>2 DEF IInv
  <2>2. container \in Blocks(nodes) /\ container \in Opened(nodes)
    BY <1>1, <2>1, UpBlocks DEF BranchesOpen
  <2> QED BY <2>1, <2>2, OpenedAre
<1>3. ASSUME pc \in {"idle", "check", "finish"}
      PROVE  current \in Blocks(nodes) /\ current \in Live /\ nodes[current].open
  <2>1. SpineOpen(nodes, current)
    BY <1>3 DEF IInv
  <2>2. current \in Blocks(nodes) /\ current \in Opened(nodes)
    BY <1>1, <2>1, UpBlocks DEF SpineOpen
  <2> QED BY <2>2, OpenedAre
<1>4. ASSUME pc = "add", ~CanContain(Type(container), Head(adding).type)
      PROVE  container # Root
  <2>1. Type(Root) = "document"
    BY <1>1 DEF Tree, Type
  <2> QED BY <1>4, <2>1 DEF CanContain
<1>5. ASSUME pc = "text", IsLazy
      PROVE  current \in Live /\ nodes[current].open
  <2>1. SpineOpen(nodes, current)
    BY <1>1, <1>2, <1>5, LazyBranch DEF IsLazy
  <2>2. current \in Opened(nodes)
    BY <1>1, <2>1, UpBlocks DEF SpineOpen
  <2> QED BY <2>2, OpenedAre
<1>6. ASSUME pc = "close", current # matched
      PROVE  current \in Live /\ nodes[current].open /\ current # Root
  BY <1>1, <1>2, <1>6, UnmatchedParentOpen, OpenedAre
<1>7. pc = "check" => container \in Live
  BY <1>1, <1>3, UpBlocks, LiveBlocks DEF IInv
<1> QED BY <1>2, <1>3, <1>4, <1>5, <1>6, <1>7 DEF AssertionsHold

(* No call of finalize or add_line is ever made on a block that is closed, *)
(* none climbs past the root, and no freed block is looked at: the         *)
(* assertions of blocks.c cannot fail, on any input.                       *)
THEOREM AssertionsAlwaysHold == Spec => []AssertionsHold
BY SpecIInv, AssertionsFollow, PTL

(* A closed block is final: nothing but its flag for a trailing blank line *)
(* changes any more, and it is not removed, whatever lines follow.         *)
THEOREM ClosedBlocksAreFinal == Spec => ClosedBlocksStay
<1>1. IInv /\ [Next]_vars =>
        [\A n \in Live : ~nodes[n].open =>
           \E b \in BOOLEAN : nodes'[n] = [nodes[n] EXCEPT !.blank = b]]_vars
  BY NextStep, LiveBlocks DEF StepSound, ClosedStay, Stays
<1> QED BY SpecIInv, <1>1, PTL DEF Spec, ClosedBlocksStay

-----------------------------------------------------------------------------
\* PositionsRight says where a block starts and ends by what is in the tree when
\* a line is done.  Its inductive invariant has to say it in the middle of a line
\* too, when nodes have been closed, dropped or added and the line may still
\* go to an old block: Sited, for the line that the blocks were placed up to.
Entry == [line : Nat, what : {"blank", "ref", "text"}]
\* The lines that were placed.
Placed == IF pc \in {"idle", "finish", "done"} THEN lineno ELSE lineno - 1
\* A line is being placed, and its first blocks may be there.
Underway == pc \in {"open", "add", "text", "close", "line"}

\* What finalize takes for the end of these is the line after.
Late(b) == IF \/ b.type = "code_block" /\ b.as.char # "none"
              \/ b.type = "heading" /\ b.as.setext THEN 1 ELSE 0
\* The lines a block is known to be on.
Marks(b) == {b.text[i].line : i \in DOMAIN b.text} \cup {b.start}
Dated(b) == b.start \in Nat /\ b.end \in Nat /\ b.text \in Seq(Entry)

\* a and c are siblings in this order.
Before(ns, a, c) == \E p \in Blocks(ns) : LET k == ns[p].kids IN
  \E i, j \in 1 .. Len(k) : i < j /\ k[i] = a /\ k[j] = c

\* A block holds no line from before it starts, and none from where a later sibling
\* starts: blocks are appended only, and always by the line that is current.
Ordered(ns) ==
  /\ \A n \in Blocks(ns) \ {Root}, m \in Blocks(ns) : n \in Up(ns, m) =>
       \A x \in Marks(ns[m]) : ns[n].start <= x
  /\ \A a, c, m \in Blocks(ns) : Before(ns, a, c) /\ a \in Up(ns, m) =>
       \A x \in Marks(ns[m]) : x < ns[c].start

\* A closed block does not end behind the last line, nor behind its parent, and
\* it closes with all below it, but for the open blocks that this line leaves
\* to finalize.
Ended(ns, last) ==
  /\ \A n \in Blocks(ns) : ~ns[n].open => ns[n].end <= last + Late(ns[n])
  /\ \A n \in Blocks(ns) \ {Root} : LET p == ns[n].parent IN ~ns[p].open =>
       IF ns[n].open THEN ns[p].end = last
       ELSE ns[n].end <= ns[p].end + Late(ns[n])

Rising(t) == \A i, j \in 1 .. Len(t) : i < j => t[i].line < t[j].line
Reaches(b, last) == /\ b.text # <<>> /\ Rising(b.text)
                    /\ Last(b.text).line = IF b.open THEN last ELSE b.end
\* A paragraph has text, up to the last line or, when closed, to where it ends;
\* new is the one that add_line is about to be called for.
Written(ns, last, new) ==
  \A n \in Blocks(ns) \ {new} : ns[n].type = "paragraph" => Reaches(ns[n], last)

Limits(ns, now, last) ==
  \A n \in Blocks(ns) : /\ Dated(ns[n])
                        /\ n # Root => ns[n].start <= now /\ ns[n].type # "document"
                        /\ \A i \in 1 .. Len(ns[n].text) : ns[n].text[i].line <= last

Sited(ns, now, last, new) ==
  /\ Limits(ns, now, last)
  /\ Ordered(ns)
  /\ Ended(ns, last)
  /\ Written(ns, last, new)

\* The blocks the line added are in one branch.
Fresh(ns, now) == {n \in Blocks(ns) \ {Root} : ns[n].start = now}
\* What the line opened last can hold what comes next: it is not closed again.
NewHolds ==
  container \in Fresh(nodes, lineno) =>
    /\ pc = "open" => \/ Type(container) \in {"block_quote", "item", "html_block"}
                      \/ rest = Eol
    /\ pc \in {"text", "close"} =>
         \/ Type(container) \in {"block_quote", "item", "html_block", "code_block",
                                 "heading", "paragraph"}
         \/ rest = Eol
    /\ pc = "add" => CanContain(Type(container), adding[1].type)
AddingHere == \A i \in DOMAIN adding : /\ adding[i].text = <<>>
                                       /\ adding[i].start = lineno
                                       /\ adding[i].end = lineno

\* Inductive with IInv.
PInv ==
  /\ lineno \in Nat /\ (pc \notin {"idle", "finish", "done"} => lineno # 0)
  /\ Sited(nodes, lineno, Placed, IF pc = "line" THEN container ELSE None)
  /\ pc = "check" => Fresh(nodes, lineno) = {}
  /\ Underway => Fresh(nodes, lineno) \subseteq Up(nodes, container)
  /\ Underway => NewHolds
  /\ pc = "add" => AddingHere
  /\ pc = "line" => Type(container) = "paragraph" /\ nodes[container].text = <<>>
  /\ pc \in {"check", "open", "text", "close"} /\ Type(container) = "paragraph" => ~Blank


-----------------------------------------------------------------------------
LEMMA GreatestNat ==
  ASSUME NEW T, T \subseteq Nat, T # {}, NEW b \in Nat, \A k \in T : k <= b
  PROVE  \E m \in T : \A k \in T : k <= m
<1> DEFINE D == {b - k : k \in T}
<1>1. D \subseteq Nat /\ D # {}
  <2>1. \A k \in T : k \in Nat /\ k <= b
    OBVIOUS
  <2>2. \A k \in T : b - k \in Nat
    BY <2>1
  <2> QED BY <2>2
<1>2. PICK x \in D : \A y \in D : x <= y
  <2> HIDE DEF D
  <2> QED BY <1>1, LeastNat
<1>3. PICK m \in T : x = b - m
  OBVIOUS
<1>4. ASSUME NEW k \in T
      PROVE  k <= m
  <2>1. x <= b - k /\ k \in Nat /\ m \in Nat
    BY <1>2
  <2> QED BY <1>3, <2>1
<1> QED BY <1>4

LEMMA MaxIs ==
  ASSUME NEW T, T \subseteq Nat, NEW m \in T, \A k \in T : k <= m
  PROVE  Max(T) = m
<1>1. \E x \in T : \A y \in T : x >= y
  OBVIOUS
<1>2. Max(T) \in T /\ \A y \in T : Max(T) >= y
  BY <1>1 DEF Max
<1> DEFINE x == Max(T)
<1> HIDE DEF x
<1>3. x \in Nat /\ m \in Nat /\ x >= m /\ x <= m
  BY <1>2 DEF x
<1>4. x = m
  BY <1>3
<1> QED BY <1>4 DEF x

\* The definitions a paragraph begins with.
LEMMA RefCountIs ==
  ASSUME NEW t \in Seq(Entry)
  PROVE  /\ RefCount(t) \in 0 .. Len(t)
         /\ WithoutRefs(t) = SubSeq(t, RefCount(t) + 1, Len(t))
         /\ \A i \in 1 .. RefCount(t) : t[i].what = "ref"
<1> DEFINE stop == {i \in DOMAIN t : t[i].what # "ref"}
<1>1. RefCount(t) = IF stop = {} THEN Len(t) ELSE Min(stop) - 1
  BY DEF RefCount
<1>2. CASE stop = {}
  BY <1>1, <1>2 DEF WithoutRefs
<1>3. CASE stop # {}
  <2>1. stop \subseteq 1 .. Len(t) /\ stop \subseteq Nat
    OBVIOUS
  <2>2. \E m \in stop : \A k \in stop : m <= k
    <3> HIDE DEF stop
    <3> QED BY <1>3, <2>1, LeastNat
  <2>3. Min(stop) \in stop /\ \A k \in stop : Min(stop) <= k
    <3> HIDE DEF stop
    <3> QED BY <2>2 DEF Min
  <2> DEFINE m == Min(stop)
  <2> HIDE DEF m
  <2>4. m \in 1 .. Len(t) /\ RefCount(t) = m - 1 /\ \A i \in 1 .. Len(t) : i < m => i \notin stop
    <3> HIDE DEF stop
    <3>1. m \in stop /\ \A k \in stop : m <= k
      BY <2>3 DEF m
    <3>2. m \in 1 .. Len(t)
      BY <2>1, <3>1
    <3>3. RefCount(t) = m - 1
      BY <1>1, <1>3 DEF m
    <3>4. ASSUME NEW i \in 1 .. Len(t), i < m
          PROVE  i \notin stop
      BY <3>1, <3>2, <3>4
    <3> QED BY <3>2, <3>3, <3>4
  <2> QED BY <2>4 DEF WithoutRefs
<1> QED BY <1>2, <1>3

LEMMA TrimIs ==
  ASSUME NEW t \in Seq(Entry)
  PROVE  \E b \in 0 .. Len(t) : /\ Trim(t) = SubSeq(t, 1, b)
                                /\ \A i \in b + 1 .. Len(t) : t[i].what = "blank"
<1> DEFINE keep == {i \in DOMAIN t : t[i].what # "blank"}
           b == IF keep = {} THEN 0 ELSE Max(keep)
<1>1. Trim(t) = SubSeq(t, 1, b)
  BY DEF Trim
<1>2. CASE keep = {}
  <2>1. b = 0 /\ Len(t) \in Nat
    BY <1>2
  <2>2. \A i \in b + 1 .. Len(t) : t[i].what = "blank"
    BY <1>2, <2>1
  <2>3. b \in 0 .. Len(t)
    BY <2>1
  <2> HIDE DEF b, keep
  <2> QED BY <1>1, <2>2, <2>3
<1>3. CASE keep # {}
  <2>1. keep \subseteq 1 .. Len(t) /\ keep \subseteq Nat /\ \A k \in keep : k <= Len(t)
    OBVIOUS
  <2>2. \E m \in keep : \A k \in keep : k <= m
    <3>1. Len(t) \in Nat
      OBVIOUS
    <3> HIDE DEF keep
    <3> QED BY <1>3, <2>1, <3>1, GreatestNat
  <2>3. PICK m \in keep : \A k \in keep : k <= m
    BY <2>2
  <2>4. Max(keep) = m
    <3> HIDE DEF keep
    <3> QED BY <2>1, <2>3, MaxIs
  <2>5. b = m /\ m \in 1 .. Len(t)
    BY <1>3, <2>1, <2>4
  <2>6. \A i \in b + 1 .. Len(t) : t[i].what = "blank"
    <3> SUFFICES ASSUME NEW i \in b + 1 .. Len(t), t[i].what # "blank"
                 PROVE  FALSE
      OBVIOUS
    <3>1. i \in keep
      BY <2>5
    <3> QED BY <2>3, <2>5, <3>1
  <2>7. b \in 0 .. Len(t)
    BY <2>5
  <2> HIDE DEF b, keep
  <2> QED BY <1>1, <2>6, <2>7
<1> QED BY <1>2, <1>3

\* What closing n does to texts, lines and the order of blocks.
CloseDetail(ns, ms, n) ==
  /\ CloseEffect(ns, ms, n)
  /\ \A m \in Blocks(ms) : ms[m].start = ns[m].start
  /\ \A m \in Blocks(ms) \ {n} : /\ ms[m].text = ns[m].text /\ ms[m].end = ns[m].end
                                 /\ ms[m].as = ns[m].as /\ ms[m].open = ns[m].open
  /\ n \in Blocks(ms) => /\ ms[n].end = EndLine(ns[n]) /\ ~ms[n].open
                         /\ Late(ms[n]) = Late(ns[n])
  /\ \A a, c : Before(ms, a, c) => Before(ns, a, c)
\* a entries became definitions, those from b on were blank.
TextSplit(ns, ms, n) ==
  LET t == ns[n].text IN
  \E a \in 0 .. Len(t) : \E b \in a .. Len(t) :
    /\ RefsOf(ns, n) = [i \in 1 .. a |-> t[i].line]
    /\ \A i \in b + 1 .. Len(t) : t[i].what = "blank"
    /\ ns[n].type = "paragraph" => b = Len(t)
    /\ ns[n].type # "paragraph" => a = 0 /\ n \in Blocks(ms)
    /\ IF n \in Blocks(ms) THEN /\ ms[n].text = SubSeq(t, a + 1, b)
                                /\ ns[n].type = "paragraph" => a < b
       ELSE a = b

LEMMA PutDetail ==
  ASSUME NEW ns, Tree(ns), NEW n \in Blocks(ns), NEW b, IsBlock(b), ~b.open,
         b.type = ns[n].type, b.parent = ns[n].parent, b.kids = ns[n].kids,
         b.start = ns[n].start, b.end = EndLine(ns[n]), Late(b) = Late(ns[n]),
         NEW ms, Puts(ns, ms, n, b)
  PROVE  CloseDetail(ns, ms, n) /\ n \in Blocks(ms) /\ ms[n] = b
<1>1. /\ SameTree(ns, ms)
      /\ ms[n] = b
      /\ \A m \in Blocks(ns) : m # n => ms[m] = ns[m]
  <2>1. b.type = ns[n].type \/ (ns[n].type = "paragraph" /\ b.type = "heading")
    OBVIOUS
  <2> QED BY <2>1, PutBlock
<1>2. CloseEffect(ns, ms, n)
  BY ClosedBlock
<1>3. Blocks(ms) = Blocks(ns)
  BY <1>1 DEF SameTree
<1>4. \A m \in Blocks(ms) : ms[m].start = ns[m].start /\ ms[m].kids = ns[m].kids
  BY <1>1, <1>3
<1>5. \A m \in Blocks(ms) \ {n} : /\ ms[m].text = ns[m].text /\ ms[m].end = ns[m].end
                                  /\ ms[m].as = ns[m].as /\ ms[m].open = ns[m].open
  BY <1>1, <1>3
<1>6. \A a, c : Before(ms, a, c) => Before(ns, a, c)
  BY <1>3, <1>4 DEF Before
<1> QED BY <1>1, <1>2, <1>3, <1>4, <1>5, <1>6 DEF CloseDetail

LEMMA DropDetail ==
  ASSUME NEW ns, Tree(ns), NEW n \in Blocks(ns), ns[n].type = "paragraph"
  PROVE  CloseDetail(ns, Drop(ns, n), n) /\ n \notin Blocks(Drop(ns, n))
<1> DEFINE ms == Drop(ns, n)
           p  == ns[n].parent
<1>1. IsLeaf(ns[n].type)
  BY DEF IsLeaf
<1>2. DropEffect(ns, ms, n)
  BY <1>1, DropKeeps
<1>3. CloseEffect(ns, ms, n)
  BY DroppedBlock
<1>4. n # Root /\ n \in Id /\ p \in Blocks(ns) /\ p # n /\ p \in Id
  <2>1. n # Root /\ n \in Id
    BY <1>1, LeafHasNoKids, TreeFacts
  <2>2. p \in Blocks(ns) /\ p # n
    BY <2>1, TreeFacts
  <2> QED BY <2>1, <2>2, TreeFacts
<1>5. ms[p].kids = RemoveFirst(ns[p].kids, n)
  <2>1. ns = [m \in Id |-> ns[m]] /\ IsBlock(ns[p])
    BY <1>4, TreeFacts DEF Tree
  <2>2. ms[p] = [ns[p] EXCEPT !.kids = RemoveFirst(@, n)]
    BY <1>4, <2>1 DEF Drop
  <2> QED BY <2>1, <2>2 DEF IsBlock, Fields
<1> HIDE DEF ms
<1>6. Blocks(ms) = Blocks(ns) \ {n}
  BY <1>2 DEF DropEffect
<1>7. \A m \in Blocks(ms) : /\ ms[m].start = ns[m].start
                            /\ ms[m].text = ns[m].text /\ ms[m].end = ns[m].end
                            /\ ms[m].as = ns[m].as /\ ms[m].open = ns[m].open
  BY <1>2 DEF DropEffect, Fields
<1>8. ASSUME NEW a, NEW c, Before(ms, a, c)
      PROVE  Before(ns, a, c)
  <2>1. PICK q \in Blocks(ms) : \E i, j \in 1 .. Len(ms[q].kids) :
                                  i < j /\ ms[q].kids[i] = a /\ ms[q].kids[j] = c
    BY <1>8 DEF Before
  <2>2. CASE q = p
    <3>1. ns[p].kids \in Seq(Id) /\ IsInjective(ns[p].kids)
      BY <1>4 DEF Tree, IsBlock
    <3>2. \E x, y \in 1 .. Len(ns[p].kids) : x < y /\ ns[p].kids[x] = a /\ ns[p].kids[y] = c
      <4> DEFINE s == ns[p].kids
      <4> HIDE DEF s
      <4>1. PICK i, j \in 1 .. Len(RemoveFirst(s, n)) :
              i < j /\ RemoveFirst(s, n)[i] = a /\ RemoveFirst(s, n)[j] = c
        BY <1>5, <2>1, <2>2 DEF s
      <4>2. s \in Seq(Id) /\ IsInjective(s)
        BY <3>1 DEF s
      <4>3. \E x, y \in 1 .. Len(s) : /\ x < y
                                      /\ RemoveFirst(s, n)[i] = s[x]
                                      /\ RemoveFirst(s, n)[j] = s[y]
        BY <4>1, <4>2, RemoveFirstEffect
      <4> QED BY <4>1, <4>3 DEF s
    <3> QED BY <1>4, <3>2 DEF Before
  <2>3. CASE q # p
    <3>1. ms[q] = ns[q] /\ q \in Blocks(ns)
      BY <1>2, <1>6, <2>3 DEF DropEffect
    <3> QED BY <2>1, <3>1 DEF Before
  <2> QED BY <2>2, <2>3
<1> QED BY <1>3, <1>6, <1>7, <1>8 DEF CloseDetail, ms

LEMMA FinalizeDetail ==
  ASSUME NEW ns, Tree(ns), NEW n \in Blocks(ns), Dated(ns[n])
  PROVE  CloseDetail(ns, Finalize(ns, n), n) /\ TextSplit(ns, Finalize(ns, n), n)
<1> DEFINE b  == [ns[n] EXCEPT !.open = FALSE, !.end = EndLine(ns[n])]
           ms == Finalize(ns, n)
           t  == ns[n].text
<1>1. /\ IsBlock(b) /\ ~b.open
      /\ b.type = ns[n].type /\ b.parent = ns[n].parent /\ b.kids = ns[n].kids
      /\ b.text = ns[n].text /\ b.start = ns[n].start /\ b.end = EndLine(ns[n])
      /\ b.as = ns[n].as
  <2>1. n \in Id /\ IsBlock(ns[n])
    BY TreeFacts
  <2> DEFINE e == EndLine(ns[n])
  <2> HIDE DEF e
  <2>2. [ns[n] EXCEPT !.open = FALSE, !.end = e]
          = [f \in Fields |-> IF f = "open" THEN FALSE ELSE IF f = "end" THEN e ELSE ns[n][f]]
    BY <2>1 DEF IsBlock, Fields
  <2> QED BY <2>1, <2>2 DEF IsBlock, Fields, e
<1> HIDE DEF b
<1>2. ASSUME NEW f \in {"text", "as"}, NEW v,
             f = "as" => ns[n].type = "list",
             Puts(ns, ms, n, [b EXCEPT ![f] = v])
      PROVE  /\ CloseDetail(ns, ms, n) /\ n \in Blocks(ms)
             /\ ms[n].text = IF f = "text" THEN v ELSE t
  <2> DEFINE c == [b EXCEPT ![f] = v]
  <2>1. c = [g \in Fields |-> IF g = f THEN v ELSE b[g]]
    BY <1>1 DEF IsBlock, Fields
  <2>2. /\ IsBlock(c) /\ ~c.open
        /\ c.type = ns[n].type /\ c.parent = ns[n].parent /\ c.kids = ns[n].kids
        /\ c.start = ns[n].start /\ c.end = EndLine(ns[n])
        /\ c.text = IF f = "text" THEN v ELSE t
        /\ f = "text" => c.as = ns[n].as
    BY <1>1, <2>1 DEF IsBlock, Fields
  <2> HIDE DEF c
  <2>3. Late(c) = Late(ns[n])
    <3>1. CASE f = "text"
      BY <2>2, <3>1 DEF Late
    <3>2. CASE f = "as"
      <4>1. c.type = "list" /\ ns[n].type = "list"
        BY <1>2, <2>2, <3>2
      <4> QED BY <4>1 DEF Late
    <3> QED BY <3>1, <3>2
  <2>4. Puts(ns, ms, n, c)
    BY <1>2 DEF c
  <2> HIDE DEF ms
  <2>5. CloseDetail(ns, ms, n) /\ n \in Blocks(ms) /\ ms[n] = c
    BY <2>2, <2>3, <2>4, PutDetail
  <2> QED BY <2>2, <2>5
<1>3. ns = [m \in Id |-> ns[m]] /\ n \in Id /\ t \in Seq(Entry) /\ Len(t) \in Nat
  <2>1. ns = [m \in Id |-> ns[m]]
    BY DEF Tree
  <2>2. n \in Id
    BY TreeFacts
  <2>3. t \in Seq(Entry)
    BY DEF Dated
  <2> QED BY <2>1, <2>2, <2>3
<1>4. CASE b.type = "paragraph"
  <2> DEFINE text == WithoutRefs(b.text)
             a    == RefCount(t)
  <2>1. ms = IF text = <<>> THEN Drop(ns, n) ELSE [ns EXCEPT ![n] = [b EXCEPT !.text = text]]
    BY <1>4 DEF Finalize, b
  <2>2. a \in 0 .. Len(t) /\ text = SubSeq(t, a + 1, Len(t))
    BY <1>1, <1>3, RefCountIs
  <2>3. RefsOf(ns, n) = [i \in 1 .. a |-> t[i].line]
    <3> DEFINE u == SubSeq(t, 1, a)
    <3>1. RefsOf(ns, n) = [i \in DOMAIN u |-> u[i].line]
      BY <1>1, <1>4 DEF RefsOf
    <3>2. DOMAIN u = 1 .. a /\ \A i \in 1 .. a : u[i] = t[i]
      BY <1>3, <2>2
    <3> QED BY <3>1, <3>2
  <2>4. Len(text) = Len(t) - a /\ (text = <<>> <=> a = Len(t))
    <3> HIDE DEF text, a, t
    <3>1. Len(text) = Len(t) - a
      BY <1>3, <2>2
    <3>2. text \in Seq(Entry)
      BY <1>3, <2>2
    <3>3. text = <<>> <=> Len(text) = 0
      BY <3>2
    <3>4. Len(t) - a = 0 <=> a = Len(t)
      <4> DEFINE e == Len(t)
      <4>1. e \in Nat /\ a \in Nat
        BY <1>3, <2>2
      <4> HIDE DEF e
      <4>2. e - a = 0 <=> a = e
        BY <4>1
      <4> QED BY <4>2 DEF e
    <3> QED BY <3>1, <3>3, <3>4
  <2> HIDE DEF text, ms, a
  <2>5. CASE text = <<>>
    <3>1. CloseDetail(ns, ms, n) /\ n \notin Blocks(ms)
      BY <1>1, <1>4, <2>1, <2>5, DropDetail DEF ms
    <3>2. TextSplit(ns, ms, n)
      <4> DEFINE e == Len(t)
      <4>1. a = e /\ e \in 0 .. Len(t) /\ e \in e .. Len(t) /\ \A i \in e + 1 .. Len(t) : FALSE
        BY <1>3, <2>4, <2>5
      <4>2. RefsOf(ns, n) = [i \in 1 .. e |-> t[i].line]
        BY <2>3, <4>1
      <4> HIDE DEF e
      <4>3. ns[n].type = "paragraph" /\ e = Len(t)
        BY <1>1, <1>4 DEF e
      <4> QED BY <3>1, <4>1, <4>2, <4>3 DEF TextSplit
    <3> QED BY <3>1, <3>2 DEF ms
  <2>6. CASE text # <<>>
    <3>1. Puts(ns, ms, n, [b EXCEPT !["text"] = text])
      BY <1>3, <2>1, <2>6 DEF Puts
    <3>2. CloseDetail(ns, ms, n) /\ n \in Blocks(ms) /\ ms[n].text = text
      BY <1>2, <3>1
    <3>3. TextSplit(ns, ms, n)
      <4> DEFINE e == Len(t)
      <4>1. /\ a < e /\ a \in 0 .. Len(t) /\ e \in a .. Len(t)
            /\ \A i \in e + 1 .. Len(t) : FALSE
        BY <1>3, <2>2, <2>4, <2>6
      <4>2. ns[n].type = "paragraph" /\ e = Len(t) /\ ms[n].text = SubSeq(t, a + 1, e)
        BY <1>1, <1>4, <2>2, <3>2
      <4> HIDE DEF e
      <4> QED BY <2>3, <3>2, <4>1, <4>2 DEF TextSplit
    <3> QED BY <3>2, <3>3 DEF ms
  <2> QED BY <2>5, <2>6
<1>5. ASSUME ns[n].type # "paragraph", CloseDetail(ns, ms, n), n \in Blocks(ms),
             NEW e \in 0 .. Len(t), ms[n].text = SubSeq(t, 1, e),
             \A i \in e + 1 .. Len(t) : t[i].what = "blank"
      PROVE  TextSplit(ns, ms, n)
  <2>1. RefsOf(ns, n) = [i \in 1 .. 0 |-> t[i].line]
    BY <1>5 DEF RefsOf
  <2>2. 0 \in 0 .. Len(t) /\ e \in 0 .. Len(t) /\ 0 + 1 = 1
    BY <1>3
  <2> HIDE DEF ms
  <2> QED BY <1>5, <2>1, <2>2 DEF TextSplit
<1>6. ASSUME ns[n].type # "paragraph", CloseDetail(ns, ms, n), n \in Blocks(ms),
             ms[n].text = t
      PROVE  TextSplit(ns, ms, n)
  <2>1. Len(t) \in 0 .. Len(t) /\ t = SubSeq(t, 1, Len(t)) /\ \A i \in Len(t) + 1 .. Len(t) : FALSE
    BY <1>3
  <2> HIDE DEF ms
  <2> QED BY <1>5, <1>6, <2>1 DEF ms
<1>7. CASE b.type = "code_block" /\ b.as.char = "none"
  <2> DEFINE text == Trim(b.text)
  <2>1. ms = [ns EXCEPT ![n] = [b EXCEPT !.text = text]]
    BY <1>7 DEF Finalize, b
  <2>2. PICK e \in 0 .. Len(t) : /\ text = SubSeq(t, 1, e)
                                 /\ \A i \in e + 1 .. Len(t) : t[i].what = "blank"
    BY <1>1, <1>3, TrimIs
  <2> HIDE DEF text, ms
  <2>3. Puts(ns, ms, n, [b EXCEPT !["text"] = text])
    BY <1>3, <2>1 DEF Puts
  <2>4. CloseDetail(ns, ms, n) /\ n \in Blocks(ms) /\ ms[n].text = text
    BY <1>2, <2>3 DEF ms
  <2>5. ns[n].type # "paragraph"
    BY <1>1, <1>7
  <2> QED BY <1>5, <2>2, <2>4, <2>5 DEF ms
<1>8. CASE b.type = "list"
  <2> DEFINE as == [b.as EXCEPT !.tight = Tight(ns, n)]
  <2>1. ms = [ns EXCEPT ![n] = [b EXCEPT !.as = as]]
    BY <1>8 DEF Finalize, b
  <2> HIDE DEF as, ms
  <2>2. Puts(ns, ms, n, [b EXCEPT !["as"] = as])
    BY <1>3, <2>1 DEF Puts
  <2>3. ns[n].type = "list"
    BY <1>1, <1>8
  <2>4. CloseDetail(ns, ms, n) /\ n \in Blocks(ms) /\ ms[n].text = t
    BY <1>2, <2>2, <2>3 DEF ms
  <2> QED BY <1>6, <2>3, <2>4 DEF ms
<1>9. CASE /\ b.type # "paragraph" /\ b.type # "list"
           /\ ~(b.type = "code_block" /\ b.as.char = "none")
  <2>1. ms = [ns EXCEPT ![n] = b]
    BY <1>9 DEF Finalize, b
  <2> HIDE DEF ms
  <2>2. Puts(ns, ms, n, b)
    BY <1>3, <2>1 DEF Puts
  <2>3. Late(b) = Late(ns[n])
    BY <1>1 DEF Late
  <2>4. CloseDetail(ns, ms, n) /\ n \in Blocks(ms) /\ ms[n].text = t
    BY <1>1, <2>2, <2>3, PutDetail
  <2> QED BY <1>1, <1>6, <1>9, <2>4 DEF ms
<1> QED BY <1>4, <1>7, <1>8, <1>9

-----------------------------------------------------------------------------
(* What the changes to the tree do to the lines of the blocks. *)

LEMMA MarksNat ==
  ASSUME NEW b, Dated(b)
  PROVE  Marks(b) \subseteq Nat /\ b.start \in Marks(b)
<1>1. \A i \in DOMAIN b.text : b.text[i] \in Entry
  BY DEF Dated
<1>2. \A e \in Entry : e.line \in Nat
  BY DEF Entry
<1> QED BY <1>1, <1>2 DEF Marks, Dated

\* No marks are added and no end moves.
LEMMA OrderedKept ==
  ASSUME NEW ns, NEW ms, Ordered(ns), Blocks(ms) \subseteq Blocks(ns),
         \A m \in Blocks(ms) : /\ Up(ms, m) = Up(ns, m) /\ ms[m].start = ns[m].start
                               /\ Marks(ms[m]) \subseteq Marks(ns[m]),
         \A a, c : Before(ms, a, c) => Before(ns, a, c)
  PROVE  Ordered(ms)
<1>1. ASSUME NEW n \in Blocks(ms) \ {Root}, NEW m \in Blocks(ms), n \in Up(ms, m),
             NEW x \in Marks(ms[m])
      PROVE  ms[n].start <= x
  BY <1>1 DEF Ordered
<1>2. ASSUME NEW a \in Blocks(ms), NEW c \in Blocks(ms), NEW m \in Blocks(ms),
             Before(ms, a, c), a \in Up(ms, m), NEW x \in Marks(ms[m])
      PROVE  x < ms[c].start
  BY <1>2 DEF Ordered
<1> QED BY <1>1, <1>2 DEF Ordered

\* What a text loses at its two ends.
LEMMA SubText ==
  ASSUME NEW t \in Seq(Entry), NEW a \in 0 .. Len(t), NEW b \in a .. Len(t)
  PROVE  /\ SubSeq(t, a + 1, b) \in Seq(Entry)
         /\ Len(SubSeq(t, a + 1, b)) = b - a
         /\ \A i \in 1 .. b - a : SubSeq(t, a + 1, b)[i] = t[a + i]
<1> DEFINE e == Len(t)
<1>1. e \in Nat /\ a \in Nat /\ b \in Nat /\ a <= b /\ b <= e
  OBVIOUS
<1>2. SubSeq(t, a + 1, b) = [i \in 1 .. b - a |-> t[a + i]]
  BY <1>1
<1>3. \A i \in 1 .. b - a : a + i \in 1 .. e
  <2> HIDE DEF e
  <2> QED BY <1>1
<1>4. \A i \in 1 .. b - a : t[a + i] \in Entry
  BY <1>3
<1>5. b - a \in Nat
  BY <1>1
<1> DEFINE d == b - a
           u == SubSeq(t, a + 1, b)
<1> HIDE DEF d, e
<1>6. u = [i \in 1 .. d |-> t[a + i]] /\ d \in Nat /\ \A i \in 1 .. d : t[a + i] \in Entry
  BY <1>2, <1>4, <1>5 DEF d
<1> HIDE DEF u
<1>7. u \in Seq(Entry) /\ Len(u) = d /\ \A i \in 1 .. d : u[i] = t[a + i]
  BY <1>6
<1> QED BY <1>7 DEF d, u

\* A block is closed, and given a line it may end on.
LEMMA SitedClose ==
  ASSUME NEW ns, Tree(ns), NEW n \in Opened(ns), NEW now \in Nat, NEW last \in Nat,
         Sited(ns, now, last, None),
         EndLine(ns[n]) \in Nat, EndLine(ns[n]) <= last + Late(ns[n]),
         ~IsLeaf(ns[n].type) \/ ns[n].type = "paragraph" => EndLine(ns[n]) = last,
         NEW ms, CloseDetail(ns, ms, n), TextSplit(ns, ms, n)
  PROVE  Sited(ms, now, last, None)
<1> DEFINE e == EndLine(ns[n])
           t == ns[n].text
<1>1. /\ n \in Blocks(ns) /\ ns[n].open
      /\ Limits(ns, now, last) /\ Ordered(ns) /\ Ended(ns, last) /\ Written(ns, last, None)
  BY DEF Opened, Sited
<1>2. Blocks(ms) \subseteq Blocks(ns) /\ None \notin Blocks(ns)
  BY DEF CloseDetail, CloseEffect, Blocks, Id, None
<1>3. \A m \in Blocks(ms) : /\ ms[m].type = ns[m].type /\ ms[m].parent = ns[m].parent
                            /\ ms[m].start = ns[m].start /\ Up(ms, m) = Up(ns, m)
  BY DEF CloseDetail, CloseEffect
<1>4. \A m \in Blocks(ms) \ {n} : /\ ms[m].text = ns[m].text /\ ms[m].end = ns[m].end
                                  /\ ms[m].as = ns[m].as /\ ms[m].open = ns[m].open
  BY DEF CloseDetail
<1>5. n \in Blocks(ms) => ms[n].end = e /\ ~ms[n].open /\ Late(ms[n]) = Late(ns[n])
  BY DEF CloseDetail
<1>6. \A m \in Blocks(ms) : Late(ms[m]) = Late(ns[m])
  BY <1>3, <1>4, <1>5 DEF Late
<1>7. t \in Seq(Entry) /\ \A i \in 1 .. Len(t) : t[i].line <= last
  BY <1>1 DEF Limits, Dated
<1>8. n \in Blocks(ms) =>
        \E a \in 0 .. Len(t) : \E b \in a .. Len(t) :
          /\ ms[n].text = SubSeq(t, a + 1, b)
          /\ ns[n].type = "paragraph" => a < b /\ b = Len(t)
  BY DEF TextSplit
<1>9. ASSUME n \in Blocks(ms)
      PROVE  /\ ms[n].text \in Seq(Entry)
             /\ \A i \in 1 .. Len(ms[n].text) : \E j \in 1 .. Len(t) : ms[n].text[i] = t[j]
             /\ ns[n].type = "paragraph" => Reaches(ms[n], last)
  <2>1. PICK a \in 0 .. Len(t) : \E b \in a .. Len(t) :
               /\ ms[n].text = SubSeq(t, a + 1, b)
               /\ ns[n].type = "paragraph" => a < b /\ b = Len(t)
    BY <1>8, <1>9
  <2>2. PICK b \in a .. Len(t) : /\ ms[n].text = SubSeq(t, a + 1, b)
                                 /\ ns[n].type = "paragraph" => a < b /\ b = Len(t)
    BY <2>1
  <2> DEFINE u == ms[n].text
             l == Len(t)
  <2>3. /\ u \in Seq(Entry) /\ Len(u) = b - a
        /\ \A i \in 1 .. b - a : u[i] = t[a + i]
    BY <1>7, <2>2, SubText
  <2>4. l \in Nat /\ a \in Nat /\ b \in Nat /\ a <= b /\ b <= l
    BY <1>7
  <2> HIDE DEF l, u
  <2>5. \A i \in 1 .. Len(u) : a + i \in 1 .. l /\ u[i] = t[a + i]
    BY <2>3, <2>4
  <2>6. ASSUME ns[n].type = "paragraph"
        PROVE  Reaches(ms[n], last)
    <3>1. a < b /\ b = l
      BY <2>2, <2>6 DEF l
    <3>2. Reaches(ns[n], last)
      BY <1>1, <1>2, <2>6 DEF Written
    <3>3. t # <<>> /\ Rising(t) /\ Last(t).line = last
      BY <1>1, <3>2 DEF Reaches
    <3>4. u # <<>> /\ Last(u) = Last(t)
      <4>1. Len(u) \in 1 .. Len(u) /\ a + Len(u) = l
        BY <2>3, <2>4, <3>1
      <4>2. u[Len(u)] = t[l]
        BY <2>5, <4>1
      <4>3. u # <<>>
        BY <2>3, <4>1
      <4> QED BY <4>2, <4>3 DEF Last, l
    <3>5. Rising(u)
      <4> SUFFICES ASSUME NEW i \in 1 .. Len(u), NEW j \in 1 .. Len(u), i < j
                   PROVE  u[i].line < u[j].line
        BY DEF Rising
      <4>1. a + i < a + j
        BY <2>3, <2>4
      <4>2. /\ a + i \in 1 .. l /\ a + j \in 1 .. l
            /\ u[i] = t[a + i] /\ u[j] = t[a + j]
        BY <2>5
      <4>3. t[a + i].line < t[a + j].line
        <5> DEFINE x == a + i
                   y == a + j
        <5> HIDE DEF x, y
        <5> SUFFICES t[x].line < t[y].line
          BY DEF x, y
        <5>1. x \in 1 .. l /\ y \in 1 .. l /\ x < y
          BY <4>1, <4>2 DEF x, y
        <5> QED BY <3>3, <5>1 DEF Rising, l
      <4> QED BY <4>2, <4>3
    <3>6. ms[n].end = last
      BY <1>5, <1>9, <2>6
    <3>7. ~ms[n].open
      BY <1>5, <1>9
    <3> QED BY <3>3, <3>4, <3>5, <3>6, <3>7 DEF Reaches, u
  <2> QED BY <2>3, <2>5, <2>6 DEF l, u
<1>10. Limits(ms, now, last)
  <2> SUFFICES ASSUME NEW m \in Blocks(ms)
               PROVE  /\ Dated(ms[m])
                      /\ m # Root => ms[m].start <= now /\ ms[m].type # "document"
                      /\ \A i \in 1 .. Len(ms[m].text) : ms[m].text[i].line <= last
    BY DEF Limits
  <2>1. CASE m = n
    BY <1>1, <1>3, <1>5, <1>7, <1>9, <2>1 DEF Limits, Dated
  <2>2. CASE m # n
    BY <1>1, <1>2, <1>3, <1>4, <2>2 DEF Limits, Dated
  <2> QED BY <2>1, <2>2
<1>11. \A m \in Blocks(ms) : Marks(ms[m]) \subseteq Marks(ns[m])
  <2> SUFFICES ASSUME NEW m \in Blocks(ms)
               PROVE  Marks(ms[m]) \subseteq Marks(ns[m])
    OBVIOUS
  <2>1. CASE m = n
    <3>1. DOMAIN ms[n].text = 1 .. Len(ms[n].text) /\ DOMAIN t = 1 .. Len(t)
      BY <1>7, <1>9, <2>1
    <3> QED BY <1>3, <1>9, <2>1, <3>1 DEF Marks
  <2>2. CASE m # n
    BY <1>3, <1>4, <2>2 DEF Marks
  <2> QED BY <2>1, <2>2
<1>12. Ordered(ms)
  <2>1. \A a, c : Before(ms, a, c) => Before(ns, a, c)
    BY DEF CloseDetail
  <2> QED BY <1>1, <1>2, <1>3, <1>11, <2>1, OrderedKept
<1>13. Ended(ms, last)
  <2>1. ASSUME NEW m \in Blocks(ms), ~ms[m].open
        PROVE  ms[m].end <= last + Late(ms[m])
    <3>1. CASE m = n
      BY <1>5, <3>1
    <3>2. CASE m # n
      BY <1>1, <1>2, <1>4, <1>6, <2>1, <3>2 DEF Ended
    <3> QED BY <3>1, <3>2
  <2>2. ASSUME NEW m \in Blocks(ms) \ {Root}, ~ms[ms[m].parent].open
        PROVE  IF ms[m].open THEN ms[ms[m].parent].end = last
               ELSE ms[m].end <= ms[ms[m].parent].end + Late(ms[m])
    <3> DEFINE p == ns[m].parent
    <3>1. /\ m \in Blocks(ns) /\ p \in Blocks(ns) /\ p # m
          /\ p \in Blocks(ms) /\ ms[m].parent = p
      <4>1. m \in Blocks(ns) /\ ms[m].parent = p
        BY <1>2, <1>3
      <4>2. p \in Blocks(ms)
        BY <2>2, <4>1, TreeFacts DEF CloseDetail, CloseEffect
      <4> QED BY <4>1, <4>2, TreeFacts
    <3> HIDE DEF p
    <3>2. CASE p = n
      <4>1. ~IsLeaf(ns[n].type)
        BY <1>1, <3>1, <3>2, LeafHasNoKids DEF p
      <4>2. ms[p].end = last
        BY <1>5, <3>1, <3>2, <4>1
      <4>3. m # n
        BY <3>1, <3>2
      <4> QED BY <2>1, <3>1, <4>2
    <3>3. CASE p # n
      <4>1. ms[p].end = ns[p].end /\ ~ns[p].open
        BY <1>4, <2>2, <3>1, <3>3
      <4>2. IF ns[m].open THEN ns[p].end = last
            ELSE ns[m].end <= ns[p].end + Late(ns[m])
        BY <1>1, <2>2, <3>1, <4>1 DEF Ended, p
      <4>3. CASE m = n
        BY <1>1, <1>5, <3>1, <4>1, <4>2, <4>3
      <4>4. CASE m # n
        BY <1>4, <1>6, <3>1, <4>1, <4>2, <4>4
      <4> QED BY <4>3, <4>4
    <3> QED BY <3>2, <3>3
  <2> QED BY <2>1, <2>2 DEF Ended
<1>14. Written(ms, last, None)
  <2> SUFFICES ASSUME NEW m \in Blocks(ms), ms[m].type = "paragraph"
               PROVE  Reaches(ms[m], last)
    BY DEF Written
  <2>1. CASE m = n
    BY <1>3, <1>9, <2>1
  <2>2. CASE m # n
    <3>1. Reaches(ns[m], last)
      BY <1>1, <1>2, <1>3 DEF Written
    <3> QED BY <1>4, <2>2, <3>1 DEF Reaches
  <2> QED BY <2>1, <2>2
<1> QED BY <1>10, <1>12, <1>13, <1>14 DEF Sited

LEMMA LimitsLater ==
  ASSUME NEW ns, NEW now \in Nat, NEW last \in Nat, Limits(ns, now, last),
         NEW now2 \in Nat, NEW last2 \in Nat, now <= now2, last <= last2
  PROVE  Limits(ns, now2, last2)
<1> SUFFICES ASSUME NEW n \in Blocks(ns)
             PROVE  /\ Dated(ns[n])
                    /\ n # Root => ns[n].start <= now2 /\ ns[n].type # "document"
                    /\ \A i \in 1 .. Len(ns[n].text) : ns[n].text[i].line <= last2
  BY DEF Limits
<1>1. /\ Dated(ns[n])
      /\ n # Root => ns[n].start <= now /\ ns[n].type # "document"
      /\ \A i \in 1 .. Len(ns[n].text) : ns[n].text[i].line <= last
  BY DEF Limits
<1>2. ns[n].start \in Nat /\ \A i \in 1 .. Len(ns[n].text) : ns[n].text[i].line \in Nat
  <2> DEFINE t == ns[n].text
  <2>1. t \in Seq(Entry) /\ ns[n].start \in Nat
    BY <1>1 DEF Dated
  <2> HIDE DEF t
  <2>2. \A e \in Entry : e.line \in Nat
    BY DEF Entry
  <2>3. \A i \in 1 .. Len(t) : t[i] \in Entry
    BY <2>1
  <2> QED BY <2>1, <2>2, <2>3 DEF t
<1>3. n # Root => ns[n].start <= now2
  BY <1>1, <1>2
<1>4. \A i \in 1 .. Len(ns[n].text) : ns[n].text[i].line <= last2
  BY <1>1, <1>2
<1> QED BY <1>1, <1>3, <1>4

\* Below the right edge there is nothing with a next sibling.
LEMMA NothingAfterEdge ==
  ASSUME NEW ns, Tree(ns), NEW x \in Blocks(ns), OnEdge(ns, x), NEW a \in Up(ns, x), NEW c
  PROVE  ~Before(ns, a, c)
<1> SUFFICES ASSUME Before(ns, a, c)
             PROVE  FALSE
  OBVIOUS
<1>1. PICK p \in Blocks(ns) : \E i, j \in 1 .. Len(ns[p].kids) :
                                i < j /\ ns[p].kids[i] = a /\ ns[p].kids[j] = c
  BY DEF Before
<1> DEFINE k == ns[p].kids
<1>2. /\ k \in Seq(Id) /\ IsInjective(k)
      /\ ToSet(k) = {m \in Blocks(ns) : ns[m].parent = p}
  BY DEF Tree, IsBlock
<1> HIDE DEF k
<1>3. PICK i \in 1 .. Len(k), j \in 1 .. Len(k) : i < j /\ k[i] = a
  BY <1>1 DEF k
<1>4. a \in ToSet(k)
  BY <1>2, <1>3 DEF ToSet
<1>5. a \in Blocks(ns) /\ ns[a].parent = p
  BY <1>2, <1>4
<1>6. a # Root
  BY <1>5, TreeFacts DEF Blocks, Id, None
<1>7. k # <<>> /\ k[Len(k)] = a
  BY <1>5, <1>6 DEF OnEdge, IsLast, Last, k
<1>8. i = Len(k)
  <2>1. Len(k) \in DOMAIN k /\ i \in DOMAIN k
    BY <1>2, <1>3
  <2> QED BY <1>2, <1>3, <1>7, <2>1 DEF IsInjective
<1> QED BY <1>2, <1>3, <1>8

\* The lines of closed blocks do not depend on the line the open ones reach.
LEMMA SitedAdvance ==
  ASSUME NEW ns, Tree(ns), NEW x, SpineOpen(ns, x), ns[x].type # "paragraph",
         NEW now \in Nat, NEW last \in Nat, Sited(ns, now, last, None)
  PROVE  Sited(ns, now, last + 1, None)
<1>1. /\ Rooted(ns) /\ x \in Blocks(ns) /\ Opened(ns) = Up(ns, x)
      /\ Limits(ns, now, last) /\ Ordered(ns) /\ Ended(ns, last) /\ Written(ns, last, None)
  BY DEF SpineOpen, Sited, Tree
<1>2. Limits(ns, now, last + 1)
  BY <1>1, LimitsLater
<1>3. \A n \in Blocks(ns) : ns[n].end \in Nat /\ Late(ns[n]) \in {0, 1}
  BY <1>1 DEF Limits, Dated, Late
<1>4. ASSUME NEW n \in Blocks(ns) \ {Root}, ns[n].open
      PROVE  ns[ns[n].parent].open
  <2>1. n \in Up(ns, x)
    BY <1>1, <1>4 DEF Opened
  <2>2. Up(ns, n) \subseteq Opened(ns)
    BY <1>1, <2>1, UpTransitive
  <2> QED BY <2>2, ParentOpen
<1>5. Ended(ns, last + 1)
  <2>1. ASSUME NEW n \in Blocks(ns), ~ns[n].open
        PROVE  ns[n].end <= (last + 1) + Late(ns[n])
    <3>1. ns[n].end <= last + Late(ns[n])
      BY <1>1, <2>1 DEF Ended
    <3> QED BY <1>3, <3>1
  <2>2. ASSUME NEW n \in Blocks(ns) \ {Root}, ~ns[ns[n].parent].open
        PROVE  /\ ~ns[n].open
               /\ ns[n].end <= ns[ns[n].parent].end + Late(ns[n])
    BY <1>1, <1>4, <2>2 DEF Ended
  <2> QED BY <2>1, <2>2 DEF Ended
<1>6. Written(ns, last + 1, None)
  <2> SUFFICES ASSUME NEW n \in Blocks(ns), ns[n].type = "paragraph"
               PROVE  Reaches(ns[n], last + 1)
    BY DEF Written
  <2>1. ~ns[n].open
    <3> SUFFICES ASSUME ns[n].open
                 PROVE  FALSE
      OBVIOUS
    <3>1. n \in Up(ns, x)
      BY <1>1 DEF Opened
    <3>2. IsLeaf(ns[n].type)
      BY DEF IsLeaf
    <3> QED BY <1>1, <3>1, <3>2, LeafHasNoKids
  <2>2. Reaches(ns[n], last)
    BY <1>1 DEF Written, None, Blocks, Id
  <2> QED BY <2>1, <2>2 DEF Reaches
<1> QED BY <1>1, <1>2, <1>5, <1>6 DEF Sited

\* Nothing but flags, and the types and kinds of open blocks, change.
SameText(ns, ms) ==
  \A m \in Blocks(ns) : /\ ms[m].start = ns[m].start /\ ms[m].end = ns[m].end
                        /\ ms[m].text = ns[m].text
                        /\ ~ns[m].open => Late(ms[m]) = Late(ns[m])
LEMMA SitedMark ==
  ASSUME NEW ns, Tree(ns), NEW ms, MarkEffect(ns, ms), SameText(ns, ms),
         NEW now, NEW last, NEW new, Sited(ns, now, last, new)
  PROVE  Sited(ms, now, last, new)
<1>1. /\ Blocks(ms) = Blocks(ns)
      /\ \A m \in Blocks(ns) : /\ ms[m].start = ns[m].start /\ ms[m].end = ns[m].end
                               /\ ms[m].text = ns[m].text
                               /\ ~ns[m].open => Late(ms[m]) = Late(ns[m])
                               /\ ms[m].open = ns[m].open /\ Up(ms, m) = Up(ns, m)
                               /\ ms[m].parent = ns[m].parent /\ ms[m].kids = ns[m].kids
                               /\ \/ ms[m].type = ns[m].type
                                  \/ ns[m].type = "paragraph" /\ ms[m].type = "heading"
  BY DEF MarkEffect, SameText
<1>2. Limits(ms, now, last)
  BY <1>1 DEF Sited, Limits, Dated
<1>3. Ordered(ms)
  <2>1. \A m \in Blocks(ms) : Marks(ms[m]) \subseteq Marks(ns[m])
    BY <1>1 DEF Marks
  <2>2. \A a, c : Before(ms, a, c) => Before(ns, a, c)
    BY <1>1 DEF Before
  <2> QED BY <1>1, <2>1, <2>2, OrderedKept DEF Sited
<1>4. Ended(ms, last)
  <2>1. \A n \in Blocks(ns) \ {Root} : ns[n].parent \in Blocks(ns)
    BY TreeFacts
  <2> QED BY <1>1, <2>1 DEF Sited, Ended
<1>5. Written(ms, last, new)
  BY <1>1 DEF Sited, Written, Reaches
<1> QED BY <1>2, <1>3, <1>4, <1>5 DEF Sited

\* What add_line does to the block it is called for.
Lengthens(ns, ms, n, r) ==
  LET l == Len(ns[n].text) IN
  /\ ms[n].start = ns[n].start /\ ms[n].end = ns[n].end /\ ms[n].as = ns[n].as
  /\ ms[n].text \in Seq(Entry)
  /\ Len(ms[n].text) = l + 1
  /\ ms[n].text[l + 1].line = lineno
  /\ ms[n].text[l + 1].what = What(r)
  /\ \A i \in 1 .. l : ms[n].text[i] = ns[n].text[i]

LEMMA WithLineDetail ==
  ASSUME NEW ns, Tree(ns), NEW n \in Blocks(ns), Dated(ns[n]), NEW r, lineno \in Nat
  PROVE  Lengthens(ns, WithLine(ns, n, r), n, r)
<1> DEFINE ms == WithLine(ns, n, r)
           e  == [line |-> lineno, what |-> What(r)]
           t  == ns[n].text
           u  == Append(t, e)
           b  == [ns[n] EXCEPT !.text = u]
<1>1. n \in Id /\ IsBlock(ns[n]) /\ ns = [m \in Id |-> ns[m]] /\ t \in Seq(Entry)
  BY TreeFacts DEF Tree, Dated
<1>2. e \in Entry /\ e.line = lineno /\ e.what = What(r)
  BY DEF Entry, What
<1> HIDE DEF e, t
<1>3. /\ u \in Seq(Entry) /\ Len(u) = Len(t) + 1
      /\ u[Len(t) + 1] = e /\ e.line = lineno /\ e.what = What(r)
      /\ \A i \in 1 .. Len(t) : u[i] = t[i]
  BY <1>1, <1>2
<1>4. ms[n] = b
  BY <1>1 DEF WithLine, e, t
<1> HIDE DEF u, ms
<1>5. b = [f \in Fields |-> IF f = "text" THEN u ELSE ns[n][f]]
  BY <1>1 DEF IsBlock, Fields
<1>6. ms[n].start = ns[n].start /\ ms[n].end = ns[n].end /\ ms[n].as = ns[n].as /\ ms[n].text = u
  BY <1>4, <1>5 DEF Fields
<1> QED BY <1>3, <1>6 DEF Lengthens, ms, t

\* The line gets into the block at the end of the open branch.
LEMMA SitedText ==
  ASSUME NEW ns, Tree(ns), NEW x, x # Root, SpineOpen(ns, x),
         lineno \in Nat, lineno # 0, NEW new \in {None, x},
         Sited(ns, lineno, lineno - 1, new), new = x => ns[x].text = <<>>,
         NEW r, NEW ms, ms = WithLine(ns, x, r)
  PROVE  Sited(ms, lineno, lineno, None)
<1> DEFINE t == ns[x].text
           u == ms[x].text
           l == Len(t)
<1>1. /\ Rooted(ns) /\ x \in Blocks(ns) /\ Opened(ns) = Up(ns, x) /\ OnEdge(ns, x)
      /\ Limits(ns, lineno, lineno - 1) /\ Ordered(ns) /\ Ended(ns, lineno - 1)
      /\ Written(ns, lineno - 1, new)
  BY DEF SpineOpen, Sited, Tree
<1>2. \A n \in Blocks(ns) : Dated(ns[n])
  BY <1>1 DEF Limits
<1>3. /\ MarkEffect(ns, ms)
      /\ \A m \in Blocks(ns) : /\ ms[m].type = ns[m].type
                               /\ m # x => ms[m] = ns[m]
  BY <1>1, WithLineEffect
<1>4. /\ ms[x].start = ns[x].start /\ ms[x].end = ns[x].end /\ ms[x].as = ns[x].as
      /\ u \in Seq(Entry) /\ Len(u) = l + 1
      /\ u[l + 1].line = lineno
      /\ \A i \in 1 .. l : u[i] = t[i]
  <2>1. Lengthens(ns, ms, x, r)
    BY <1>1, <1>2, WithLineDetail
  <2> QED BY <2>1 DEF Lengthens
<1>5. t \in Seq(Entry) /\ l \in Nat /\ lineno - 1 \in Nat
  BY <1>1, <1>2 DEF Dated
<1>6. /\ Blocks(ms) = Blocks(ns)
      /\ \A m \in Blocks(ns) : /\ ms[m].start = ns[m].start /\ ms[m].end = ns[m].end
                               /\ ms[m].open = ns[m].open /\ Up(ms, m) = Up(ns, m)
                               /\ ms[m].parent = ns[m].parent /\ ms[m].kids = ns[m].kids
                               /\ Late(ms[m]) = Late(ns[m])
  BY <1>3, <1>4 DEF MarkEffect, Late
<1> HIDE DEF t, u, l
<1>7. Limits(ns, lineno, lineno)
  BY <1>1, <1>5, LimitsLater
<1>8. Limits(ms, lineno, lineno)
  <2> SUFFICES ASSUME NEW m \in Blocks(ns)
               PROVE  /\ Dated(ms[m])
                      /\ m # Root => ms[m].start <= lineno /\ ms[m].type # "document"
                      /\ \A i \in 1 .. Len(ms[m].text) : ms[m].text[i].line <= lineno
    BY <1>6 DEF Limits
  <2>1. CASE m = x
    <3>1. \A i \in 1 .. Len(u) : u[i].line <= lineno
      <4> SUFFICES ASSUME NEW i \in 1 .. Len(u)
                   PROVE  u[i].line <= lineno
        OBVIOUS
      <4>1. CASE i = l + 1
        BY <1>4, <4>1
      <4>2. CASE i # l + 1
        <5>1. i \in 1 .. l
          BY <1>4, <1>5, <4>2
        <5>2. t[i].line <= lineno
          BY <1>1, <1>7, <5>1 DEF Limits, t, l
        <5> QED BY <1>4, <5>1, <5>2
      <4> QED BY <4>1, <4>2
    <3>2. Dated(ms[x])
      BY <1>1, <1>2, <1>4 DEF Dated, u
    <3> QED BY <1>1, <1>3, <1>4, <1>7, <2>1, <3>1, <3>2 DEF Limits, u
  <2>2. CASE m # x
    BY <1>3, <1>7, <2>2 DEF Limits
  <2> QED BY <2>1, <2>2
<1>9. \A m \in Blocks(ns) : \A y \in Marks(ms[m]) : y \in Marks(ns[m]) \/ (m = x /\ y = lineno)
  <2> SUFFICES ASSUME NEW m \in Blocks(ns), NEW y \in Marks(ms[m])
               PROVE  y \in Marks(ns[m]) \/ (m = x /\ y = lineno)
    OBVIOUS
  <2>1. CASE m = x
    <3>1. DOMAIN u = 1 .. Len(u) /\ DOMAIN t = 1 .. l
      BY <1>4, <1>5 DEF l
    <3>2. \A i \in DOMAIN u : u[i].line = lineno \/ (i \in DOMAIN t /\ u[i] = t[i])
      BY <1>4, <1>5, <3>1
    <3> QED BY <1>4, <2>1, <3>2 DEF Marks, t, u
  <2>2. CASE m # x
    BY <1>3, <2>2
  <2> QED BY <2>1, <2>2
<1>10. Ordered(ms)
  <2>1. ASSUME NEW n \in Blocks(ns) \ {Root}, NEW m \in Blocks(ns), n \in Up(ns, m),
               NEW y \in Marks(ms[m])
        PROVE  ns[n].start <= y
    <3>1. CASE y \in Marks(ns[m])
      BY <1>1, <2>1, <3>1 DEF Ordered
    <3>2. CASE m = x /\ y = lineno
      BY <1>1, <3>2 DEF Limits
    <3> QED BY <1>9, <3>1, <3>2
  <2>2. ASSUME NEW a \in Blocks(ns), NEW c \in Blocks(ns), NEW m \in Blocks(ns),
               Before(ns, a, c), a \in Up(ns, m), NEW y \in Marks(ms[m])
        PROVE  y < ns[c].start
    <3>1. CASE y \in Marks(ns[m])
      BY <1>1, <2>2, <3>1 DEF Ordered
    <3>2. CASE m = x /\ y = lineno
      BY <1>1, <2>2, <3>2, NothingAfterEdge
    <3> QED BY <1>9, <3>1, <3>2
  <2>3. \A a, c : Before(ms, a, c) => Before(ns, a, c)
    BY <1>6 DEF Before
  <2> QED BY <1>6, <2>1, <2>2, <2>3 DEF Ordered
<1>11. ASSUME NEW n \in Blocks(ns) \ {Root}, ns[n].open
       PROVE  ns[n].parent \in Blocks(ns) /\ ns[ns[n].parent].open
  <2>1. n \in Up(ns, x)
    BY <1>1, <1>11 DEF Opened
  <2>2. Up(ns, n) \subseteq Opened(ns)
    BY <1>1, <2>1, UpTransitive
  <2> QED BY <2>2, ParentOpen, TreeFacts
<1>12. Ended(ms, lineno)
  <2>1. ASSUME NEW n \in Blocks(ns), ~ns[n].open
        PROVE  ns[n].end <= lineno + Late(ns[n])
    <3>1. ns[n].end <= (lineno - 1) + Late(ns[n])
      BY <1>1, <2>1 DEF Ended
    <3>2. ns[n].end \in Nat /\ Late(ns[n]) \in {0, 1}
      BY <1>2 DEF Dated, Late
    <3> QED BY <3>1, <3>2
  <2>2. ASSUME NEW n \in Blocks(ns) \ {Root}, ~ns[ns[n].parent].open
        PROVE  /\ ~ns[n].open /\ ns[n].parent \in Blocks(ns)
               /\ ns[n].end <= ns[ns[n].parent].end + Late(ns[n])
    <3>1. ~ns[n].open
      BY <1>11, <2>2
    <3> QED BY <1>1, <2>2, <3>1, TreeFacts DEF Ended
  <2>3. ASSUME NEW n \in Blocks(ms), ~ms[n].open
        PROVE  ms[n].end <= lineno + Late(ms[n])
    BY <1>6, <2>1, <2>3
  <2>4. ASSUME NEW n \in Blocks(ms) \ {Root}, ~ms[ms[n].parent].open
        PROVE  ~ms[n].open /\ ms[n].end <= ms[ms[n].parent].end + Late(ms[n])
    <3>1. n \in Blocks(ns) \ {Root} /\ ns[n].parent \in Blocks(ns)
      BY <1>6, TreeFacts
    <3>2. ~ns[ns[n].parent].open
      BY <1>6, <2>4, <3>1
    <3> QED BY <1>6, <2>2, <3>1, <3>2
  <2> QED BY <2>3, <2>4 DEF Ended
<1>13. Written(ms, lineno, None)
  <2> SUFFICES ASSUME NEW m \in Blocks(ns), ms[m].type = "paragraph"
               PROVE  Reaches(ms[m], lineno)
    BY <1>6 DEF Written
  <2>1. ns[m].type = "paragraph"
    BY <1>3
  <2>2. CASE m = x
    <3>1. ns[x].open
      BY <1>1, UpBlocks DEF Opened
    <3>2. \A i, j \in 1 .. l : i < j => t[i].line < t[j].line
      <4>1. CASE new = x
        <5>1. l = 0
          BY <4>1 DEF t, l
        <5> QED BY <5>1
      <4>2. CASE new # x
        <5>1. Reaches(ns[x], lineno - 1)
          BY <1>1, <2>1, <2>2, <4>2 DEF Written
        <5> QED BY <5>1 DEF Reaches, Rising, t, l
      <4> QED BY <4>1, <4>2
    <3>3. \A i \in 1 .. l : t[i].line < lineno
      <4> SUFFICES ASSUME NEW i \in 1 .. l
                   PROVE  t[i].line < lineno
        OBVIOUS
      <4>1. t[i].line <= lineno - 1
        BY <1>1 DEF Limits, t, l
      <4>2. t[i] \in Entry
        BY <1>5 DEF l
      <4>3. t[i].line \in Nat
        BY <4>2 DEF Entry
      <4> QED BY <4>1, <4>3
    <3>4. Rising(u)
      <4> SUFFICES ASSUME NEW i \in 1 .. Len(u), NEW j \in 1 .. Len(u), i < j
                   PROVE  u[i].line < u[j].line
        BY DEF Rising
      <4>1. i \in 1 .. l /\ u[i] = t[i]
        BY <1>4, <1>5
      <4>2. CASE j = l + 1
        BY <1>4, <3>3, <4>1, <4>2
      <4>3. CASE j # l + 1
        <5>1. j \in 1 .. l /\ u[j] = t[j]
          BY <1>4, <1>5, <4>3
        <5> QED BY <3>2, <4>1, <5>1
      <4> QED BY <4>2, <4>3
    <3>5. u # <<>> /\ Last(u).line = lineno
      <4>1. Len(u) # 0
        BY <1>4, <1>5
      <4> QED BY <1>4, <4>1 DEF Last
    <3> QED BY <1>6, <2>2, <3>1, <3>4, <3>5 DEF Reaches, u
  <2>3. CASE m # x
    <3>1. Reaches(ns[m], lineno - 1)
      BY <1>1, <2>1, <2>3 DEF Written, None, Blocks, Id
    <3>2. ~ns[m].open
      <4> SUFFICES ASSUME ns[m].open
                   PROVE  FALSE
        OBVIOUS
      <4>1. m \in Up(ns, x)
        BY <1>1 DEF Opened
      <4>2. IsLeaf(ns[m].type)
        BY <2>1 DEF IsLeaf
      <4> QED BY <1>1, <2>3, <4>1, <4>2, LeafHasNoKids
    <3> QED BY <1>3, <2>3, <3>1, <3>2 DEF Reaches
  <2> QED BY <2>2, <2>3
<1> QED BY <1>8, <1>10, <1>12, <1>13 DEF Sited

Appends(ns, ms, c, n, b) ==
  ms = [ns EXCEPT ![n] = [b EXCEPT !.parent = c], ![c].kids = Append(@, n)]

\* What may come before what once n is appended.
LEMMA BeforeAdd ==
  ASSUME NEW ns, Tree(ns), NEW c \in Blocks(ns), NEW n \in Id, n \notin Blocks(ns),
         NEW ms, NEW b, IsBlock(b), b.kids = <<>>, AddEffect(ns, ms, c, n, b),
         Appends(ns, ms, c, n, b),
         NEW x, NEW y, Before(ms, x, y)
  PROVE  Before(ns, x, y) \/ (y = n /\ x \in Blocks(ns) \ {Root} /\ ns[x].parent = c)
<1>1. PICK p \in Blocks(ms) : \E i, j \in 1 .. Len(ms[p].kids) :
                                i < j /\ ms[p].kids[i] = x /\ ms[p].kids[j] = y
  BY DEF Before
<1>2. /\ c \in Id /\ n # c /\ IsBlock(ns[c]) /\ ns = [m \in Id |-> ns[m]]
      /\ Root \in Blocks(ns) /\ None \notin Id
  <2>1. c \in Id /\ IsBlock(ns[c]) /\ Root \in Blocks(ns)
    BY TreeFacts
  <2>2. ns = [m \in Id |-> ns[m]] /\ n # c
    BY DEF Tree
  <2>3. None \notin Id
    BY DEF Id, None
  <2> QED BY <2>1, <2>2, <2>3
<1>3. CASE p = n
  <2>1. ms[n] = [b EXCEPT !.parent = c]
    BY DEF AddEffect
  <2>2. ms[n].kids = <<>>
    BY <2>1 DEF IsBlock, Fields
  <2> QED BY <1>1, <1>3, <2>2
<1>4. CASE p = c
  <2> DEFINE k == ns[c].kids
  <2>1. ms[c] = [ns[c] EXCEPT !.kids = Append(@, n)]
    BY <1>2 DEF Appends
  <2>2. ms[c].kids = Append(k, n)
    BY <1>2, <2>1 DEF IsBlock, Fields
  <2>3. k \in Seq(Id) /\ ToSet(k) = {m \in Blocks(ns) : ns[m].parent = c}
    BY DEF Tree, IsBlock
  <2> HIDE DEF k
  <2>4. PICK i, j \in 1 .. Len(Append(k, n)) : i < j /\ Append(k, n)[i] = x /\ Append(k, n)[j] = y
    BY <1>1, <1>4, <2>2
  <2>5. i \in 1 .. Len(k) /\ k[i] = x
    BY <2>3, <2>4
  <2>6. CASE j = Len(k) + 1
    <3>1. y = n
      BY <2>3, <2>4, <2>6
    <3>2. x \in ToSet(k)
      BY <2>3, <2>5 DEF ToSet
    <3>3. x \in Blocks(ns) /\ ns[x].parent = c
      BY <2>3, <3>2
    <3>4. x # Root
      BY <1>2, <3>3, TreeFacts
    <3> QED BY <3>1, <3>3, <3>4
  <2>7. CASE j # Len(k) + 1
    <3>1. j \in 1 .. Len(k) /\ k[j] = y
      BY <2>3, <2>4, <2>7
    <3> QED BY <2>4, <2>5, <3>1 DEF Before, k
  <2> QED BY <2>6, <2>7
<1>5. CASE p # n /\ p # c
  <2>1. p \in Blocks(ns) /\ ms[p] = ns[p]
    BY <1>5 DEF AddEffect
  <2> QED BY <1>1, <2>1 DEF Before
<1> QED BY <1>3, <1>4, <1>5

\* A block of the line is appended to the open branch, which holds all others.
LEMMA SitedAdd ==
  ASSUME NEW ns, Tree(ns), NEW c \in Blocks(ns), OnEdge(ns, c), Up(ns, c) \subseteq Opened(ns),
         NEW n \in Id, n \notin Blocks(ns), NEW now \in Nat \ {0},
         NEW b, NewBlock(b), b.text = <<>>, b.start = now, b.end = now, b.type # "document",
         NEW ms, AddEffect(ns, ms, c, n, b),
         Appends(ns, ms, c, n, b),
         Sited(ns, now, now - 1, None), Fresh(ns, now) \subseteq Up(ns, c)
  PROVE  /\ Sited(ms, now, now - 1, IF b.type = "paragraph" THEN n ELSE None)
         /\ Fresh(ms, now) \subseteq Up(ms, n)
         /\ ms[n].text = <<>>
<1>1. /\ Rooted(ns) /\ n # Root /\ n # c /\ Root \in Blocks(ns)
      /\ Limits(ns, now, now - 1) /\ Ordered(ns) /\ Ended(ns, now - 1)
      /\ Written(ns, now - 1, None) /\ IsBlock(b) /\ b.kids = <<>> /\ b.open
      /\ None \notin Blocks(ns) /\ now - 1 \in Nat
  <2>1. Root \in Blocks(ns) /\ n # Root /\ n # c
    BY TreeFacts
  <2>2. Rooted(ns) /\ None \notin Blocks(ns)
    BY DEF Tree, Blocks, Id, None
  <2>3. /\ Limits(ns, now, now - 1) /\ Ordered(ns) /\ Ended(ns, now - 1)
        /\ Written(ns, now - 1, None)
    BY DEF Sited
  <2>4. IsBlock(b) /\ b.kids = <<>> /\ b.open
    BY DEF NewBlock
  <2> QED BY <2>1, <2>2, <2>3, <2>4
<1>2. ms[n] = [b EXCEPT !.parent = c] /\ Blocks(ms) = Blocks(ns) \cup {n}
  BY DEF AddEffect
<1>3. /\ ms[n].text = <<>> /\ ms[n].start = now /\ ms[n].end = now /\ ms[n].open
      /\ ms[n].type = b.type /\ ms[n].parent = c
  BY <1>1, <1>2 DEF IsBlock, Fields
<1>4. \A m \in Blocks(ns) : /\ ms[m].start = ns[m].start /\ ms[m].end = ns[m].end
                            /\ ms[m].text = ns[m].text /\ ms[m].open = ns[m].open
                            /\ ms[m].type = ns[m].type /\ ms[m].as = ns[m].as
                            /\ ms[m].parent = ns[m].parent
                            /\ Up(ms, m) = Up(ns, m) /\ Up(ns, m) \subseteq Blocks(ns)
                            /\ Late(ms[m]) = Late(ns[m])
  BY <1>1, UpBlocks DEF AddEffect, Fields, Late
<1>5. Up(ms, n) = {n} \cup Up(ns, c) /\ Up(ns, c) \subseteq Blocks(ns)
  BY <1>1, UpBlocks DEF AddEffect
<1>6. Marks(ms[n]) = {now} /\ \A m \in Blocks(ns) : Marks(ms[m]) = Marks(ns[m])
  BY <1>3, <1>4 DEF Marks
\* the rest of the tree has no mark on this line
<1>7. ASSUME NEW m \in Blocks(ns) \ {Root}, NEW y \in Marks(ns[m])
      PROVE  y <= now /\ (y = now => m \in Up(ns, c))
  <2>1. /\ Dated(ns[m]) /\ ns[m].start <= now
        /\ \A i \in 1 .. Len(ns[m].text) : ns[m].text[i].line <= now - 1
    BY <1>1 DEF Limits
  <2>2. y \in Nat
    BY <2>1, MarksNat
  <2>3. CASE y = ns[m].start
    BY <2>1, <2>3 DEF Fresh
  <2>4. CASE y # ns[m].start
    <3>1. y \in {ns[m].text[i].line : i \in DOMAIN ns[m].text}
      BY <2>4 DEF Marks
    <3>2. DOMAIN ns[m].text = 1 .. Len(ns[m].text)
      BY <2>1 DEF Dated
    <3>3. y <= now - 1
      BY <2>1, <3>1, <3>2
    <3> QED BY <2>2, <3>3
  <2> QED BY <2>3, <2>4
<1>8. Limits(ms, now, now - 1)
  <2> SUFFICES ASSUME NEW m \in Blocks(ms)
               PROVE  /\ Dated(ms[m])
                      /\ m # Root => ms[m].start <= now /\ ms[m].type # "document"
                      /\ \A i \in 1 .. Len(ms[m].text) : ms[m].text[i].line <= now - 1
    BY DEF Limits
  <2>1. CASE m = n
    <3>1. <<>> \in Seq(Entry) /\ 1 .. Len(<<>>) = {}
      OBVIOUS
    <3>2. Dated(ms[n])
      BY <1>3, <3>1 DEF Dated
    <3>3. \A i \in 1 .. Len(ms[n].text) : FALSE
      BY <1>3, <3>1
    <3> QED BY <1>3, <2>1, <3>2, <3>3
  <2>2. CASE m # n
    BY <1>1, <1>2, <1>4, <2>2 DEF Limits, Dated
  <2> QED BY <2>1, <2>2
<1>9. Ordered(ms)
  <2>1. ASSUME NEW a \in Blocks(ms) \ {Root}, NEW m \in Blocks(ms), a \in Up(ms, m),
               NEW y \in Marks(ms[m])
        PROVE  ms[a].start <= y
    <3>1. CASE m = n
      <4>1. y = now
        BY <1>6, <3>1
      <4>2. CASE a = n
        BY <1>3, <4>1, <4>2
      <4>3. CASE a # n
        BY <1>1, <1>2, <1>4, <4>1, <4>3 DEF Limits
      <4> QED BY <4>2, <4>3
    <3>2. CASE m # n
      <4>1. m \in Blocks(ns) /\ a \in Blocks(ns) /\ a \in Up(ns, m) /\ y \in Marks(ns[m])
        BY <1>2, <1>4, <1>6, <2>1, <3>2
      <4> QED BY <1>1, <1>4, <4>1 DEF Ordered
    <3> QED BY <3>1, <3>2
  <2>2. ASSUME NEW a \in Blocks(ms), NEW e \in Blocks(ms), NEW m \in Blocks(ms),
               Before(ms, a, e), a \in Up(ms, m), NEW y \in Marks(ms[m])
        PROVE  y < ms[e].start
    <3>1. Before(ns, a, e) \/ (e = n /\ a \in Blocks(ns) \ {Root} /\ ns[a].parent = c)
      BY <1>1, <2>2, BeforeAdd
    <3>2. CASE Before(ns, a, e)
      <4>1. a \in Blocks(ns) /\ e \in Blocks(ns)
        <5>1. PICK p \in Blocks(ns) : \E i, j \in 1 .. Len(ns[p].kids) :
                                        i < j /\ ns[p].kids[i] = a /\ ns[p].kids[j] = e
          BY <3>2 DEF Before
        <5> DEFINE k == ns[p].kids
        <5>2. k \in Seq(Id) /\ ToSet(k) \subseteq Blocks(ns)
          BY DEF Tree, IsBlock
        <5> HIDE DEF k
        <5>3. PICK i, j \in 1 .. Len(k) : i < j /\ k[i] = a /\ k[j] = e
          BY <5>1 DEF k
        <5> QED BY <5>2, <5>3 DEF ToSet
      <4>2. CASE m = n
        <5>1. a \in Up(ns, c)
          BY <1>5, <2>2, <4>1, <4>2
        <5> QED BY <3>2, <5>1, NothingAfterEdge
      <4>3. CASE m # n
        <5>1. m \in Blocks(ns) /\ a \in Up(ns, m) /\ y \in Marks(ns[m])
          BY <1>2, <1>4, <1>6, <2>2, <4>3
        <5> QED BY <1>1, <1>4, <3>2, <4>1, <5>1 DEF Ordered
      <4> QED BY <4>2, <4>3
    <3>3. CASE e = n /\ a \in Blocks(ns) \ {Root} /\ ns[a].parent = c
      <4>1. a \notin Up(ns, c)
        BY <1>1, <3>3, UpAcyclic
      <4>2. m \in Blocks(ns) /\ a \in Up(ns, m) /\ y \in Marks(ns[m])
        BY <1>2, <1>4, <1>5, <1>6, <2>2, <3>3, <4>1
      <4>3. m # Root
        BY <1>1, <3>3, <4>2, UpRoot DEF Rooted
      <4>4. m \notin Up(ns, c)
        BY <1>1, <4>1, <4>2, UpTransitive
      <4>5. y <= now /\ y # now
        BY <1>7, <4>2, <4>3, <4>4
      <4>6. y \in Nat
        BY <1>1, <4>2, MarksNat DEF Limits
      <4> QED BY <1>3, <3>3, <4>5, <4>6
    <3> QED BY <3>1, <3>2, <3>3
  <2> QED BY <2>1, <2>2 DEF Ordered
<1>10. Ended(ms, now - 1)
  <2>1. ASSUME NEW m \in Blocks(ms), ~ms[m].open
        PROVE  ms[m].end <= (now - 1) + Late(ms[m])
    <3>1. m \in Blocks(ns)
      BY <1>2, <1>3, <2>1
    <3> QED BY <1>1, <1>4, <2>1, <3>1 DEF Ended
  <2>2. ASSUME NEW m \in Blocks(ms) \ {Root}, ~ms[ms[m].parent].open
        PROVE  IF ms[m].open THEN ms[ms[m].parent].end = now - 1
               ELSE ms[m].end <= ms[ms[m].parent].end + Late(ms[m])
    <3>1. m # n
      <4>1. c \in Opened(ns)
        BY <1>1, UpBlocks
      <4>2. ms[c].open
        BY <1>4, <4>1 DEF Opened
      <4> QED BY <1>3, <2>2, <4>2
    <3>2. m \in Blocks(ns) /\ ns[m].parent \in Blocks(ns)
      BY <1>2, <3>1, TreeFacts
    <3>3. ~ns[ns[m].parent].open
      BY <1>4, <2>2, <3>2
    <3>4. IF ns[m].open THEN ns[ns[m].parent].end = now - 1
          ELSE ns[m].end <= ns[ns[m].parent].end + Late(ns[m])
      BY <1>1, <3>2, <3>3 DEF Ended
    <3> QED BY <1>4, <3>2, <3>4
  <2> QED BY <2>1, <2>2 DEF Ended
<1>11. Written(ms, now - 1, IF b.type = "paragraph" THEN n ELSE None)
  <2> SUFFICES ASSUME NEW m \in Blocks(ns), ms[m].type = "paragraph"
               PROVE  Reaches(ms[m], now - 1)
    BY <1>2, <1>3 DEF Written
  <2>1. Reaches(ns[m], now - 1)
    BY <1>1, <1>4 DEF Written
  <2> QED BY <1>4, <2>1 DEF Reaches
<1>12. Fresh(ms, now) \subseteq Up(ms, n)
  BY <1>2, <1>4, <1>5 DEF Fresh
<1> QED BY <1>3, <1>8, <1>9, <1>10, <1>11, <1>12 DEF Sited

-----------------------------------------------------------------------------
(* The steps, one lemma for each action. *)

\* A block that is closed while a line is placed ends on the line before, but
\* for the two types of block that take the current line.
LEMMA EndLineIs ==
  ASSUME lineno \in Nat \ {0}, NEW b, b.type # "document"
  PROVE  EndLine(b) = IF pc = "finish" THEN lineno ELSE (lineno - 1) + Late(b)
BY DEF EndLine, Late

LEMMA CloseSited ==
  ASSUME lineno \in Nat \ {0}, pc # "finish",
         NEW ns, Tree(ns), NEW n \in Opened(ns), n # Root, Sited(ns, lineno, lineno - 1, None)
  PROVE  /\ CloseDetail(ns, Finalize(ns, n), n)
         /\ TextSplit(ns, Finalize(ns, n), n)
         /\ Sited(Finalize(ns, n), lineno, lineno - 1, None)
<1>1. n \in Blocks(ns) /\ Dated(ns[n])
  BY DEF Opened, Sited, Limits
<1>2. CloseDetail(ns, Finalize(ns, n), n) /\ TextSplit(ns, Finalize(ns, n), n)
  BY <1>1, FinalizeDetail
<1>3. ns[n].type # "document"
  BY <1>1 DEF Sited, Limits
<1> DEFINE e == EndLine(ns[n])
<1>4. e = (lineno - 1) + Late(ns[n])
  BY <1>3, EndLineIs
<1>5. Late(ns[n]) \in {0, 1} /\ (~IsLeaf(ns[n].type) \/ ns[n].type = "paragraph" => Late(ns[n]) = 0)
  BY DEF Late, IsLeaf
<1>6. e \in Nat /\ e <= (lineno - 1) + Late(ns[n])
  BY <1>4, <1>5
<1>7. ~IsLeaf(ns[n].type) \/ ns[n].type = "paragraph" => e = lineno - 1
  BY <1>4, <1>5
<1>8. lineno - 1 \in Nat /\ lineno \in Nat
  OBVIOUS
<1> QED BY <1>2, <1>6, <1>7, <1>8, SitedClose

LEMMA InitPInv == Init => PInv
<1> SUFFICES ASSUME Init
             PROVE  PInv
  OBVIOUS
<1> DEFINE root == [type |-> "document", parent |-> None, kids |-> <<>>,
                    open |-> TRUE, blank |-> FALSE, start |-> 1, end |-> 1,
                    text |-> <<>>, as |-> <<>>]
<1>1. /\ nodes = [n \in Id |-> IF n = Root THEN root ELSE Unused]
      /\ pc = "idle" /\ lineno = 0
  BY DEF Init
<1>2. Root \in Id /\ None \notin Id /\ Root # None
  BY BoundsAssumption DEF Id, Root, None
<1>3. /\ IsBlock(root) /\ root.type = "document" /\ root.kids = <<>> /\ root.open
      /\ root.start = 1 /\ root.end = 1 /\ root.text = <<>>
  BY DEF IsBlock, Fields, BlockTypes
<1> HIDE DEF root
<1>4. nodes[Root] = root /\ Blocks(nodes) = {Root}
  BY <1>1, <1>2, <1>3, BlockUsed DEF Blocks
<1>5. Limits(nodes, 0, 0)
  <2>1. <<>> \in Seq(Entry) /\ 1 .. Len(<<>>) = {}
    OBVIOUS
  <2>2. Dated(root) /\ \A i \in 1 .. Len(root.text) : FALSE
    BY <1>3, <2>1 DEF Dated
  <2> QED BY <1>4, <2>2 DEF Limits
<1>6. Ordered(nodes)
  <2>1. \A a, c : ~Before(nodes, a, c)
    <3>1. 1 .. Len(<<>>) = {}
      OBVIOUS
    <3> QED BY <1>3, <1>4, <3>1 DEF Before
  <2> QED BY <1>4, <2>1 DEF Ordered
<1>7. Ended(nodes, 0) /\ Written(nodes, 0, None)
  BY <1>3, <1>4 DEF Ended, Written
<1> QED BY <1>1, <1>5, <1>6, <1>7 DEF PInv, Sited, Placed, Underway

LEMMA ReadLinePos ==
  ASSUME IInv, PInv, NEW l, ReadLine(l)
  PROVE  PInv'
<1>1. /\ nodes' = nodes /\ pc' = "check" /\ container' = Root /\ lineno' = lineno + 1
      /\ lineno \in Nat /\ Sited(nodes, lineno, lineno, None) /\ nodes[Root].type = "document"
  BY DEF ReadLine, PInv, Placed, IInv, Tree
<1>2. Sited(nodes, lineno + 1, lineno, None)
  BY <1>1, LimitsLater DEF Sited
<1>3. (lineno + 1) - 1 = lineno /\ lineno + 1 \in Nat \ {0}
  BY <1>1
<1>4. Fresh(nodes, lineno + 1) = {}
  <2> SUFFICES ASSUME NEW n \in Blocks(nodes) \ {Root}, nodes[n].start = lineno + 1
               PROVE  FALSE
    BY DEF Fresh
  <2>1. nodes[n].start <= lineno
    BY <1>1 DEF Sited, Limits
  <2> QED BY <1>1, <2>1
<1> QED BY <1>1, <1>2, <1>3, <1>4 DEF PInv, Placed, Underway, Type

\* Most of the walk changes neither the tree nor the line.
LEMMA WalkPos ==
  ASSUME IInv, PInv, pc = "check", UNCHANGED <<nodes, lineno>>, pc' \in {"check", "open"},
         pc' = "open" => container' = container /\ rest' = rest,
         pc' = "check" => (Type(container') = "paragraph" => ~Blank')
  PROVE  PInv'
<1>1. /\ Sited(nodes, lineno, lineno - 1, None) /\ lineno \in Nat /\ lineno # 0
      /\ Fresh(nodes, lineno) = {}
      /\ Type(container) = "paragraph" => ~Blank
  BY DEF PInv, Placed
<1> QED BY <1>1 DEF PInv, Placed, Underway, NewHolds, Type, Blank, Tok

LEMMA CloseFencePos ==
  ASSUME IInv, PInv, pc = "check", NEW n \in Up(nodes, current) \ {Root}, CloseFence(n)
  PROVE  PInv'
<1>1. /\ Tree(nodes) /\ SpineOpen(nodes, current) /\ nodes[n].type = "code_block"
      /\ nodes' = Finalize(nodes, n) /\ pc' = "idle" /\ lineno' = lineno
  BY DEF IInv, CloseFence, Close, EndOfLine, Type, line
<1>2. current \in Blocks(nodes) /\ n \in Blocks(nodes) /\ n \in Opened(nodes)
  BY <1>1, UpBlocks DEF SpineOpen, Tree
<1>3. n = current
  <2>1. IsLeaf(nodes[n].type)
    BY <1>1 DEF IsLeaf
  <2> QED BY <1>1, <1>2, <2>1, LeafHasNoKids
<1>4. Sited(nodes, lineno, lineno - 1, None) /\ lineno \in Nat \ {0}
  BY DEF PInv, Placed
<1>5. CloseDetail(nodes, nodes', n) /\ Sited(nodes', lineno, lineno - 1, None)
  BY <1>1, <1>2, <1>4, CloseSited
<1>6. CloseEffect(nodes, nodes', n) /\ Tree(nodes')
  BY <1>5 DEF CloseDetail, CloseEffect
<1> DEFINE p == nodes[n].parent
<1>7. SpineOpen(nodes', p)
  BY <1>1, <1>3, <1>6, SpineClose
<1>8. p \in Blocks(nodes) /\ nodes[p].type # "paragraph"
  BY <1>1, <1>2, TreeFacts DEF CanContain
<1>9. nodes'[p].type = nodes[p].type
  BY <1>6, <1>7 DEF CloseEffect, SpineOpen
<1>10. lineno - 1 \in Nat /\ (lineno - 1) + 1 = lineno
  BY <1>4
<1>11. Sited(nodes', lineno, lineno, None)
  <2>1. Sited(nodes', lineno, (lineno - 1) + 1, None)
    BY <1>4, <1>5, <1>6, <1>7, <1>8, <1>9, <1>10, SitedAdvance
  <2> QED BY <1>10, <2>1
<1> QED BY <1>1, <1>4, <1>11 DEF PInv, Placed, Underway

LEMMA CheckOpenBlocksPos ==
  ASSUME IInv, PInv, CheckOpenBlocks
  PROVE  PInv'
<1> DEFINE n == LastOpenChild(container)
<1>1. pc = "check"
  BY DEF CheckOpenBlocks
<1>2. CASE StopChecking
  BY <1>1, <1>2, WalkPos DEF StopChecking, line
<1>3. CASE n # None /\ ~StopChecking
  <2>1. n \in Up(nodes, current) \ {Root}
    BY <1>1, <1>3, NextTried
  <2>2. \/ CheckQuote(n) \/ CheckItem(n) \/ CheckIndentedCode(n)
        \/ CheckFencedCode(n) \/ CloseFence(n) \/ CheckHtml(n)
        \/ CheckParagraph(n) \/ CheckOther(n)
    BY <1>3 DEF CheckOpenBlocks, Mismatch
  <2> HIDE DEF n
  <2>3. ASSUME \/ CheckQuote(n) \/ CheckItem(n) \/ CheckIndentedCode(n)
               \/ CheckFencedCode(n) \/ CheckHtml(n) \/ CheckParagraph(n) \/ CheckOther(n)
        PROVE  PInv'
    <3>1. \E r : Descend(n, r) /\ (Type(n) = "paragraph" => r = rest /\ ~Blank)
      BY <2>3 DEF CheckQuote, CheckItem, CheckIndentedCode, CheckFencedCode,
                  CheckHtml, CheckParagraph, CheckOther
    <3>2. PICK r : Descend(n, r) /\ (Type(n) = "paragraph" => r = rest /\ ~Blank)
      BY <3>1
    <3>3. /\ UNCHANGED <<nodes, lineno>> /\ pc' = "check" /\ container' = n /\ rest' = r
      BY <1>1, <3>2 DEF Descend, line
    <3>4. Type(container') = "paragraph" => ~Blank'
      BY <3>2, <3>3 DEF Type, Blank, Tok
    <3> QED BY <1>1, <3>3, <3>4, WalkPos
  <2>4. CASE CloseFence(n)
    BY <1>1, <2>1, <2>4, CloseFencePos
  <2> QED BY <2>2, <2>3, <2>4
<1> QED BY <1>2, <1>3 DEF CheckOpenBlocks

\* The block a line adds starts and ends, for now, on that line.
LEMMA NewBlocksHere ==
  ASSUME NEW t, NEW as
  PROVE  /\ Block(t, as).text = <<>> /\ Block(t, as).start = lineno
         /\ Block(t, as).end = lineno
BY DEF Block

LEMMA OpenPos ==
  ASSUME IInv, PInv, pc = "open", ~NothingStarts, NEW blocks, NEW r, Open(blocks, r),
         \A i \in DOMAIN blocks : /\ blocks[i].text = <<>> /\ blocks[i].start = lineno
                                  /\ blocks[i].end = lineno
  PROVE  PInv'
<1>1. /\ nodes' = nodes /\ pc' = "add" /\ container' = container /\ lineno' = lineno
      /\ adding' = blocks
  BY DEF Open, line
<1>2. /\ Sited(nodes, lineno, lineno - 1, None) /\ lineno \in Nat /\ lineno # 0
      /\ Fresh(nodes, lineno) \subseteq Up(nodes, container)
      /\ NewHolds
  BY DEF PInv, Placed, Underway
<1>3. NewHolds'
  <2> SUFFICES ASSUME container \in Fresh(nodes, lineno)
               PROVE  CanContain(Type(container), blocks[1].type)
    BY <1>1 DEF NewHolds, Type
  <2>1. Type(container) \in {"block_quote", "item"}
    BY <1>2, EolStartsNothing DEF NewHolds, NothingStarts
  <2> QED BY <2>1 DEF CanContain
<1>4. AddingHere'
  BY <1>1 DEF AddingHere
<1> QED BY <1>1, <1>2, <1>3, <1>4 DEF PInv, Placed, Underway

LEMMA SetextMarks ==
  ASSUME IInv, pc = "open", TurnSetext
  PROVE  /\ MarkEffect(nodes, nodes') /\ SameText(nodes, nodes')
         /\ nodes'[container].type = "heading" /\ container \in Blocks(nodes)
<1>1. /\ Tree(nodes) /\ BranchesOpen(nodes, container, current, matched)
      /\ nodes[container].type = "paragraph"
      /\ nodes' = [nodes EXCEPT ![container].type = "heading",
                                ![container].as = [setext |-> TRUE]]
      /\ pc' = "text" /\ container' = container /\ lineno' = lineno /\ rest' = Eol
  BY DEF IInv, TurnSetext, StartsSetext, Type, line
<1>2. /\ container \in Blocks(nodes) /\ container \in Id /\ IsBlock(nodes[container])
      /\ nodes[container].open
  BY <1>1, UpBlocks, TreeFacts DEF BranchesOpen, Tree, Opened
<1> DEFINE b == [nodes[container] EXCEPT !.type = "heading", !.as = [setext |-> TRUE]]
<1>3. /\ IsBlock(b) /\ b.type = "heading" /\ b.open = nodes[container].open
      /\ b.parent = nodes[container].parent /\ b.kids = nodes[container].kids
      /\ b.start = nodes[container].start /\ b.end = nodes[container].end
      /\ b.text = nodes[container].text
  <2>1. b = [f \in Fields |-> IF f = "type" THEN "heading"
                              ELSE IF f = "as" THEN [setext |-> TRUE]
                              ELSE nodes[container][f]]
    BY <1>2 DEF IsBlock, Fields
  <2> HIDE DEF b
  <2> QED BY <1>2, <2>1 DEF IsBlock, Fields, BlockTypes
<1>4. Puts(nodes, nodes', container, b)
  <2>1. nodes = [m \in Id |-> nodes[m]]
    BY <1>1 DEF Tree
  <2> QED BY <1>1, <1>2, <2>1 DEF Puts
<1> HIDE DEF b
<1>5. /\ SameTree(nodes, nodes')
      /\ nodes'[container] = b
      /\ \A m \in Blocks(nodes) : m # container => nodes'[m] = nodes[m]
  <2>1. \/ b.type = nodes[container].type
        \/ nodes[container].type = "paragraph" /\ b.type = "heading"
    BY <1>1, <1>3
  <2>2. Tree(nodes)
    BY <1>1
  <2> QED BY <1>2, <1>3, <1>4, <2>1, <2>2, PutBlock
<1>6. MarkEffect(nodes, nodes')
  <2>1. \A m \in Blocks(nodes) : nodes'[m].open = nodes[m].open
    BY <1>3, <1>5
  <2>2. Tree(nodes) /\ SameTree(nodes, nodes')
    BY <1>1, <1>5
  <2> QED BY <2>1, <2>2, Marked
<1>7. SameText(nodes, nodes')
  <2> SUFFICES ASSUME NEW m \in Blocks(nodes)
               PROVE  /\ nodes'[m].start = nodes[m].start /\ nodes'[m].end = nodes[m].end
                      /\ nodes'[m].text = nodes[m].text
                      /\ ~nodes[m].open => Late(nodes'[m]) = Late(nodes[m])
    BY DEF SameText
  <2>1. CASE m = container
    BY <1>2, <1>3, <1>5, <2>1
  <2>2. CASE m # container
    BY <1>5, <2>2
  <2> QED BY <2>1, <2>2
<1> QED BY <1>2, <1>3, <1>5, <1>6, <1>7

LEMMA TurnSetextPos ==
  ASSUME IInv, PInv, pc = "open", TurnSetext
  PROVE  PInv'
<1>1. /\ Tree(nodes) /\ container \in Blocks(nodes)
      /\ pc' = "text" /\ container' = container /\ lineno' = lineno /\ rest' = Eol
  BY SetextMarks DEF IInv, TurnSetext, line
<1>2. /\ MarkEffect(nodes, nodes') /\ SameText(nodes, nodes')
      /\ nodes'[container].type = "heading"
  BY SetextMarks
<1>3. /\ Sited(nodes, lineno, lineno - 1, None) /\ lineno \in Nat /\ lineno # 0
      /\ Fresh(nodes, lineno) \subseteq Up(nodes, container)
  BY DEF PInv, Placed, Underway
<1>4. Sited(nodes', lineno, lineno - 1, None)
  BY <1>1, <1>2, <1>3, SitedMark
<1>5. Fresh(nodes', lineno) \subseteq Up(nodes', container)
  BY <1>1, <1>2, <1>3 DEF Fresh, MarkEffect, SameText
<1>6. NewHolds'
  BY <1>1 DEF NewHolds
<1> QED BY <1>1, <1>2, <1>3, <1>4, <1>5, <1>6 DEF PInv, Placed, Underway, Type

LEMMA OpenNewBlocksPos ==
  ASSUME IInv, PInv, OpenNewBlocks
  PROVE  PInv'
<1>1. pc = "open"
  BY DEF OpenNewBlocks
<1>2. CASE NothingStarts
  <2>1. /\ nodes' = nodes /\ pc' = "text" /\ container' = container /\ lineno' = lineno
        /\ rest' = rest
    BY <1>1, <1>2 DEF OpenNewBlocks, StopOpening, line
  <2>2. NewHolds'
    BY <1>1, <2>1 DEF PInv, Underway, NewHolds, Type
  <2> QED BY <1>1, <2>1, <2>2 DEF PInv, Placed, Underway, Type, Blank, Tok
<1>3. CASE ~NothingStarts
  <2>1. ASSUME NEW t, NEW as, NEW r, Open(<<Block(t, as)>>, r)
        PROVE  PInv'
    <3> DEFINE b == Block(t, as)
    <3>1. b.text = <<>> /\ b.start = lineno /\ b.end = lineno
      BY NewBlocksHere
    <3> HIDE DEF b
    <3>2. \A i \in DOMAIN <<b>> : <<b>>[i] = b
      OBVIOUS
    <3>3. Open(<<b>>, r)
      BY <2>1 DEF b
    <3> QED BY <1>1, <1>3, <3>1, <3>2, <3>3, OpenPos
  <2>2. CASE OpenQuote
    BY <2>1, <2>2 DEF OpenQuote
  <2>3. CASE OpenAtx
    BY <2>1, <2>3 DEF OpenAtx
  <2>4. CASE OpenFence
    BY <2>1, <2>4 DEF OpenFence
  <2>5. CASE OpenHtml
    BY <2>1, <2>5 DEF OpenHtml
  <2>6. CASE OpenRule
    BY <2>1, <2>6 DEF OpenRule
  <2>7. CASE OpenIndentedCode
    BY <2>1, <2>7 DEF OpenIndentedCode
  <2>8. CASE OpenItem
    <3> DEFINE m    == Marker[Tok]
               item == Block("item", [mark |-> m.kind, need |-> Need(m, Tail(rest))])
               list == Block("list", [mark |-> m.kind, tight |-> FALSE])
    <3>1. \E r : Open(IF Joins(m) THEN <<item>> ELSE <<list, item>>, r)
      BY <2>8 DEF OpenItem
    <3>2. PICK r : Open(IF Joins(m) THEN <<item>> ELSE <<list, item>>, r)
      BY <3>1
    <3>3. /\ item.text = <<>> /\ item.start = lineno /\ item.end = lineno
          /\ list.text = <<>> /\ list.start = lineno /\ list.end = lineno
      BY NewBlocksHere
    <3>4. CASE Joins(m)
      BY <2>1, <3>2, <3>4
    <3> HIDE DEF item, list
    <3>5. CASE ~Joins(m)
      <4>1. \A i \in DOMAIN <<list, item>> : <<list, item>>[i] \in {list, item}
        OBVIOUS
      <4>2. Open(<<list, item>>, r)
        BY <3>2, <3>5
      <4> QED BY <1>1, <1>3, <3>3, <4>1, <4>2, OpenPos
    <3> QED BY <3>4, <3>5
  <2>9. CASE TurnSetext
    BY <1>1, <2>9, TurnSetextPos
  <2> QED BY <1>3, <2>2, <2>3, <2>4, <2>5, <2>6, <2>7, <2>8, <2>9 DEF OpenNewBlocks
<1> QED BY <1>2, <1>3

LEMMA CloseForChildPos ==
  ASSUME IInv, PInv, pc = "add", CloseForChild
  PROVE  PInv'
<1> DEFINE c == container
           p == nodes[c].parent
<1>1. /\ Tree(nodes) /\ Rooted(nodes) /\ BranchesOpen(nodes, c, current, matched)
      /\ ~CanContain(nodes[c].type, adding[1].type)
      /\ nodes' = Finalize(nodes, c) /\ container' = p
      /\ pc' = "add" /\ adding' = adding /\ lineno' = lineno
  <2>1. AddingSound
    BY DEF IInv
  <2>2. Head(adding) = adding[1]
    BY <2>1 DEF AddingSound
  <2> QED BY <2>2 DEF IInv, CloseForChild, Close, Type, line, Tree
<1>2. c \in Blocks(nodes) /\ c \in Opened(nodes) /\ c # Root
  <2>1. c \in Blocks(nodes) /\ c \in Opened(nodes)
    BY <1>1, UpBlocks DEF BranchesOpen
  <2>2. nodes[c].type # "document"
    BY <1>1 DEF CanContain
  <2> QED BY <1>1, <2>1, <2>2 DEF Tree
<1>3. /\ Sited(nodes, lineno, lineno - 1, None) /\ lineno \in Nat \ {0}
      /\ Fresh(nodes, lineno) \subseteq Up(nodes, c)
      /\ NewHolds /\ AddingHere
  BY DEF PInv, Placed, Underway
<1>4. CloseDetail(nodes, nodes', c) /\ Sited(nodes', lineno, lineno - 1, None)
  BY <1>1, <1>2, <1>3, CloseSited
<1>5. /\ Blocks(nodes') \subseteq Blocks(nodes)
      /\ \A m \in Blocks(nodes') : /\ nodes'[m].start = nodes[m].start
                                   /\ Up(nodes', m) = Up(nodes, m)
      /\ p \in Blocks(nodes')
  <2>1. p \in Blocks(nodes) /\ p # c
    BY <1>1, <1>2, TreeFacts
  <2> QED BY <1>4, <2>1 DEF CloseDetail, CloseEffect
<1>6. c \notin Fresh(nodes, lineno)
  BY <1>1, <1>3 DEF NewHolds, Type
<1>7. Up(nodes, c) = {c} \cup Up(nodes, p) /\ p \in Up(nodes, p)
  <2>1. p \in Blocks(nodes)
    BY <1>5
  <2> QED BY <1>1, <1>2, <2>1, UpStep, UpBlocks
<1>8. p \notin Fresh(nodes, lineno)
  <2> SUFFICES ASSUME p # Root, nodes[p].start = lineno
               PROVE  FALSE
    BY DEF Fresh
  <2>1. Dated(nodes[c]) /\ nodes[c].start <= lineno
    BY <1>2, <1>3 DEF Sited, Limits
  <2>2. nodes[c].start \in Marks(nodes[c]) /\ nodes[c].start \in Nat
    BY <2>1, MarksNat DEF Dated
  <2>3. nodes[c].start # lineno
    BY <1>2, <1>6 DEF Fresh
  <2>4. p \in Blocks(nodes) \ {Root} /\ p \in Up(nodes, c)
    BY <1>5, <1>7
  <2>5. nodes[p].start <= nodes[c].start
    BY <1>2, <1>3, <2>2, <2>4 DEF Sited, Ordered
  <2> QED BY <1>3, <2>1, <2>2, <2>3, <2>5
<1>9. Fresh(nodes', lineno) \subseteq Fresh(nodes, lineno)
  BY <1>5 DEF Fresh
<1>10. Fresh(nodes', lineno) \subseteq Up(nodes', p)
  BY <1>3, <1>5, <1>6, <1>7, <1>9
<1>11. p \notin Fresh(nodes', lineno)
  BY <1>8, <1>9
<1>12. NewHolds' /\ AddingHere'
  BY <1>1, <1>3, <1>11 DEF NewHolds, AddingHere
<1> HIDE DEF p, c
<1> QED BY <1>1, <1>3, <1>4, <1>10, <1>12 DEF PInv, Placed, Underway

LEMMA AddBlockPos ==
  ASSUME IInv, PInv, pc = "add", AddBlock
  PROVE  PInv'
<1> DEFINE n == Min(Id \ Live)
           b == Head(adding)
<1>1. /\ Tree(nodes) /\ Rooted(nodes) /\ AddingSound
      /\ container \in Blocks(nodes) /\ OnEdge(nodes, container)
      /\ Up(nodes, container) \subseteq Opened(nodes)
  BY DEF IInv, BranchesOpen, Tree
<1>2. n \in Id /\ n \notin Blocks(nodes)
  BY FreeId DEF AddBlock
<1>3. NewBlock(b) /\ b.type # "document" /\ DOMAIN adding \in {1 .. 1, 1 .. 2} /\ b = adding[1]
  <2>1. ASSUME NEW x, adding = <<x>>
        PROVE  DOMAIN adding = 1 .. 1 /\ b = x /\ adding[1] = x
    BY <2>1
  <2>2. ASSUME NEW x, NEW y, adding = <<x, y>>
        PROVE  DOMAIN adding = 1 .. 2 /\ b = x /\ adding[1] = x
    BY <2>2
  <2> HIDE DEF b
  <2> QED BY <1>1, <2>1, <2>2 DEF AddingSound
<1>4. /\ CanContain(nodes[container].type, b.type)
      /\ nodes' = [nodes EXCEPT ![n] = [b EXCEPT !.parent = container],
                                ![container].kids = Append(@, n)]
      /\ container' = n /\ adding' = Tail(adding)
      /\ pc' = IF Len(adding) > 1 THEN "add"
               ELSE IF b.type = "paragraph" THEN "line"
               ELSE IF Accepts(b.type) THEN "text" ELSE "open"
      /\ rest' = rest /\ lineno' = lineno
  BY DEF AddBlock, Type, line
<1>5. Appends(nodes, nodes', container, n, b)
  BY <1>4 DEF Appends
<1> HIDE DEF n, b
<1>6. AddEffect(nodes, nodes', container, n, b)
  BY <1>1, <1>2, <1>3, <1>4, AddKeeps DEF NewBlock
<1>7. /\ container' = n /\ adding' = Tail(adding)
      /\ pc' = IF Len(adding) > 1 THEN "add"
               ELSE IF b.type = "paragraph" THEN "line"
               ELSE IF Accepts(b.type) THEN "text" ELSE "open"
      /\ rest' = rest /\ lineno' = lineno
  BY <1>4
<1>8. /\ Sited(nodes, lineno, lineno - 1, None) /\ lineno \in Nat \ {0}
      /\ Fresh(nodes, lineno) \subseteq Up(nodes, container)
      /\ AddingHere
  BY DEF PInv, Placed, Underway
<1>9. b.text = <<>> /\ b.start = lineno /\ b.end = lineno
  BY <1>3, <1>8 DEF AddingHere
<1>10. /\ Sited(nodes', lineno, lineno - 1, IF b.type = "paragraph" THEN n ELSE None)
       /\ Fresh(nodes', lineno) \subseteq Up(nodes', n)
       /\ nodes'[n].text = <<>>
  BY <1>1, <1>2, <1>3, <1>5, <1>6, <1>8, <1>9, SitedAdd
<1>11. nodes'[n].type = b.type
  BY <1>6 DEF AddEffect
<1>12. CASE Len(adding) > 1
  <2>1. PICK l, i : /\ adding = <<l, i>> /\ NewBlock(l) /\ NewBlock(i)
                    /\ l.type = "list" /\ i.type = "item"
    <3>1. ASSUME NEW x, adding = <<x>>
          PROVE  FALSE
      BY <1>12, <3>1
    <3> QED BY <1>1, <3>1 DEF AddingSound
  <2>2. pc' = "add" /\ adding' = <<i>> /\ b = l /\ i = adding[2]
    BY <1>7, <1>12, <2>1 DEF b
  <2>3. i.text = <<>> /\ i.start = lineno /\ i.end = lineno
    <3>1. 2 \in DOMAIN adding
      BY <2>1
    <3> QED BY <1>8, <2>2, <3>1 DEF AddingHere
  <2>4. AddingHere'
    <3>1. \A j \in DOMAIN <<i>> : <<i>>[j] = i
      OBVIOUS
    <3> QED BY <1>7, <2>2, <2>3, <3>1 DEF AddingHere
  <2>5. NewHolds'
    <3>1. adding'[1] = i
      BY <2>2
    <3> QED BY <1>7, <1>11, <2>1, <2>2, <3>1 DEF NewHolds, Type, CanContain
  <2>6. Sited(nodes', lineno, lineno - 1, None)
    BY <1>10, <2>1, <2>2
  <2> QED BY <1>7, <1>8, <1>10, <2>2, <2>4, <2>5, <2>6 DEF PInv, Placed, Underway
<1>13. CASE ~(Len(adding) > 1)
  <2>1. /\ b.type \notin {"document", "list"}
        /\ b.type = "thematic_break" => rest = Eol
    BY <1>1, <1>13 DEF AddingSound, b
  <2>2. pc' = IF b.type = "paragraph" THEN "line"
              ELSE IF Accepts(b.type) THEN "text" ELSE "open"
    BY <1>7, <1>13
  <2>3. /\ pc' \in {"line", "text", "open"}
        /\ pc' = "line" <=> b.type = "paragraph"
        /\ pc' = "text" => b.type \in {"heading", "code_block"}
        /\ pc' = "open" => b.type \in {"block_quote", "item", "html_block", "thematic_break"}
    BY <1>3, <2>1, <2>2 DEF NewBlock, IsBlock, BlockTypes, Accepts
  <2>4. NewHolds'
    BY <1>7, <1>11, <2>1, <2>3 DEF NewHolds, Type
  <2>5. Sited(nodes', lineno, lineno - 1, IF pc' = "line" THEN n ELSE None)
    BY <1>10, <2>3
  <2> QED BY <1>7, <1>8, <1>10, <1>11, <2>3, <2>4, <2>5 DEF PInv, Placed, Underway, Type
<1> QED BY <1>12, <1>13

LEMMA FlaggedSited ==
  ASSUME Tree(nodes), NEW now, NEW last, NEW new, Sited(nodes, now, last, new)
  PROVE  /\ Sited(Flagged, now, last, new) /\ SameText(nodes, Flagged)
         /\ \A m \in Blocks(nodes) : Flagged[m].type = nodes[m].type
<1>1. /\ MarkEffect(nodes, Flagged)
      /\ \A m \in Blocks(nodes) : /\ Flagged[m].type = nodes[m].type
                                  /\ \E b \in BOOLEAN : Flagged[m] = [nodes[m] EXCEPT !.blank = b]
  BY FlaggedEffect, LiveBlocks
<1>2. SameText(nodes, Flagged)
  <2> SUFFICES ASSUME NEW m \in Blocks(nodes)
               PROVE  /\ Flagged[m].start = nodes[m].start /\ Flagged[m].end = nodes[m].end
                      /\ Flagged[m].text = nodes[m].text
                      /\ ~nodes[m].open => Late(Flagged[m]) = Late(nodes[m])
    BY DEF SameText
  <2> DEFINE f == Flagged[m]
  <2>1. PICK b \in BOOLEAN : f = [nodes[m] EXCEPT !.blank = b]
    BY <1>1
  <2>2. IsBlock(nodes[m])
    BY TreeFacts
  <2> HIDE DEF f
  <2>3. f = [g \in Fields |-> IF g = "blank" THEN b ELSE nodes[m][g]]
    BY <2>1, <2>2 DEF IsBlock, Fields
  <2>4. /\ f.start = nodes[m].start /\ f.end = nodes[m].end /\ f.text = nodes[m].text
        /\ f.type = nodes[m].type /\ f.as = nodes[m].as
    BY <2>3 DEF Fields
  <2>5. Late(f) = Late(nodes[m])
    BY <2>4 DEF Late
  <2> QED BY <2>4, <2>5 DEF f
<1> QED BY <1>1, <1>2, SitedMark

LEMMA LazyLinePos ==
  ASSUME IInv, PInv, pc = "text", LazyLine
  PROVE  PInv'
<1>1. /\ Tree(nodes) /\ BranchesOpen(nodes, matched, current, matched) /\ current # matched
      /\ nodes' = WithLine(Flagged, current, rest)
      /\ pc' = "idle" /\ lineno' = lineno /\ nodes[current].type = "paragraph"
  BY DEF IInv, LazyLine, IsLazy, EndOfLine, Type, line
<1>2. SpineOpen(nodes, current) /\ current \in Blocks(nodes)
  BY <1>1, LazyBranch DEF SpineOpen
<1>3. current # Root
  BY <1>1 DEF Tree
<1>4. Tree(Flagged) /\ SpineOpen(Flagged, current)
  BY <1>1, <1>2, FlaggedEffect, BranchMark DEF MarkEffect
<1>5. Sited(nodes, lineno, lineno - 1, None) /\ lineno \in Nat /\ lineno # 0
  BY DEF PInv, Placed
<1>6. Sited(Flagged, lineno, lineno - 1, None)
  BY <1>1, <1>5, FlaggedSited
<1>7. None # current
  BY <1>2 DEF Blocks, Id, None
<1> DEFINE fs == Flagged
<1> HIDE DEF fs
<1>8. Sited(nodes', lineno, lineno, None)
  BY <1>1, <1>3, <1>4, <1>5, <1>6, <1>7, SitedText DEF fs
<1> QED BY <1>1, <1>5, <1>8 DEF PInv, Placed, Underway

LEMMA NotLazyPos ==
  ASSUME IInv, PInv, pc = "text", NotLazy
  PROVE  PInv'
<1>1. /\ Tree(nodes) /\ container \in Blocks(nodes)
      /\ nodes' = Flagged
      /\ pc' = "close" /\ container' = container /\ lineno' = lineno /\ rest' = rest
  BY DEF IInv, NotLazy, line, BranchesOpen
<1>2. /\ Sited(nodes, lineno, lineno - 1, None) /\ lineno \in Nat /\ lineno # 0
      /\ Fresh(nodes, lineno) \subseteq Up(nodes, container)
      /\ NewHolds
      /\ Type(container) = "paragraph" => ~Blank
  BY DEF PInv, Placed, Underway
<1>3. /\ Sited(nodes', lineno, lineno - 1, None)
      /\ SameText(nodes, nodes') /\ MarkEffect(nodes, nodes')
      /\ \A m \in Blocks(nodes) : nodes'[m].type = nodes[m].type
  BY <1>1, <1>2, FlaggedSited, FlaggedEffect
<1>4. nodes'[container].type = nodes[container].type
  BY <1>1, <1>3
<1>5. Fresh(nodes', lineno) = Fresh(nodes, lineno) /\ Up(nodes', container) = Up(nodes, container)
  BY <1>1, <1>3 DEF Fresh, MarkEffect, SameText
<1>6. /\ pc' = "close" /\ container' = container /\ lineno' = lineno /\ rest' = rest
  BY <1>1
<1>7. NewHolds'
  BY <1>2, <1>4, <1>5, <1>6 DEF NewHolds, Type
<1>8. Type(container)' = "paragraph" => ~Blank'
  BY <1>2, <1>4, <1>6 DEF Type, Blank, Tok
<1> QED BY <1>2, <1>3, <1>5, <1>6, <1>7, <1>8 DEF PInv, Placed, Underway

LEMMA CloseUnmatchedPos ==
  ASSUME IInv, PInv, CloseUnmatched
  PROVE  PInv'
<1>1. /\ Tree(nodes) /\ BranchesOpen(nodes, container, current, matched)
      /\ current # matched /\ pc = "close"
      /\ nodes' = Finalize(nodes, current) /\ current' = nodes[current].parent
      /\ pc' = "close" /\ container' = container /\ lineno' = lineno /\ rest' = rest
  BY DEF IInv, CloseUnmatched, Close, line
<1>2. current \in Opened(nodes) /\ current # Root
  BY <1>1, UnmatchedParentOpen
<1>3. /\ Sited(nodes, lineno, lineno - 1, None) /\ lineno \in Nat \ {0}
      /\ Fresh(nodes, lineno) \subseteq Up(nodes, container)
      /\ NewHolds
      /\ Type(container) = "paragraph" => ~Blank
  BY <1>1 DEF PInv, Placed, Underway
<1>4. CloseDetail(nodes, nodes', current) /\ Sited(nodes', lineno, lineno - 1, None)
  BY <1>1, <1>2, <1>3, CloseSited
<1>5. CloseEffect(nodes, nodes', current)
  BY <1>4 DEF CloseDetail
<1>6. container \in Blocks(nodes')
  <2>1. BranchesOpen(nodes', container, nodes[current].parent, matched)
    BY <1>1, <1>5, UnmatchedClose
  <2> QED BY <2>1 DEF BranchesOpen
<1>7. /\ nodes'[container].type = nodes[container].type
      /\ Up(nodes', container) = Up(nodes, container)
      /\ Fresh(nodes', lineno) \subseteq Fresh(nodes, lineno)
  <2>1. \A m \in Blocks(nodes') : nodes'[m].start = nodes[m].start /\ m \in Blocks(nodes)
    BY <1>4, <1>5 DEF CloseDetail, CloseEffect
  <2> QED BY <1>5, <1>6, <2>1 DEF CloseEffect, Fresh
<1>8. pc' = "close" /\ container' = container /\ lineno' = lineno /\ rest' = rest /\ pc = "close"
  BY <1>1
<1>9. NewHolds'
  BY <1>3, <1>7, <1>8 DEF NewHolds, Type
<1>10. Type(container)' = "paragraph" => ~Blank'
  BY <1>3, <1>7, <1>8 DEF Type, Blank, Tok
<1> QED BY <1>3, <1>4, <1>7, <1>8, <1>9, <1>10 DEF PInv, Placed, Underway

LEMMA TextIntoPos ==
  ASSUME PInv, pc \in {"close", "line"}, Tree(nodes), SpineOpen(nodes, container),
         container # Root, NEW r, TextInto(container, r)
  PROVE  PInv'
<1>1. /\ nodes' = WithLine(nodes, container, r)
      /\ pc' = "idle" /\ lineno' = lineno
  BY DEF TextInto, EndOfLine, line
<1> DEFINE new == IF pc = "line" THEN container ELSE None
<1>2. /\ Sited(nodes, lineno, lineno - 1, new) /\ lineno \in Nat /\ lineno # 0
      /\ new \in {None, container} /\ container # None
      /\ new = container => nodes[container].text = <<>>
  <2>1. container # None
    BY DEF SpineOpen, Blocks, Id, None
  <2> QED BY <2>1 DEF PInv, Placed
<1> HIDE DEF new
<1>3. Sited(nodes', lineno, lineno, None)
  BY <1>1, <1>2, SitedText
<1> QED BY <1>1, <1>2, <1>3 DEF PInv, Placed, Underway

LEMMA HtmlLinePos ==
  ASSUME PInv, pc = "close", Tree(nodes), SpineOpen(nodes, container),
         Type(container) = "html_block", HtmlLine(container)
  PROVE  PInv'
<1> DEFINE ns   == WithLine(nodes, container, rest)
           ends == \E i \in DOMAIN rest : rest[i].tok \in HtmlEnd(nodes[container].as.html)
<1>1. /\ nodes' = IF ends THEN Finalize(ns, container) ELSE ns
      /\ pc' = "idle" /\ lineno' = lineno
  BY DEF HtmlLine, EndOfLine, line
<1>2. container \in Blocks(nodes) /\ container \in Opened(nodes)
  BY UpBlocks DEF SpineOpen, Tree
<1>3. container # Root /\ container # None
  BY <1>2 DEF Type, Tree, Blocks, Id, None
<1>4. /\ MarkEffect(nodes, ns)
      /\ \A m \in Blocks(nodes) : ns[m].type = nodes[m].type
  BY <1>2, WithLineEffect
<1>5. Sited(nodes, lineno, lineno - 1, None) /\ lineno \in Nat /\ lineno # 0
  BY DEF PInv, Placed
<1>6. Sited(ns, lineno, lineno, None)
  BY <1>3, <1>5, SitedText
<1> HIDE DEF ns, ends
<1>7. CASE ends
  <2>1. Tree(ns) /\ container \in Opened(ns) /\ container \in Blocks(ns)
    BY <1>2, <1>4 DEF MarkEffect
  <2>2. Dated(ns[container])
    BY <1>6, <2>1 DEF Sited, Limits
  <2>3. CloseDetail(ns, nodes', container) /\ TextSplit(ns, nodes', container)
    BY <1>1, <1>7, <2>1, <2>2, FinalizeDetail
  <2>4. ns[container].type = "html_block"
    BY <1>2, <1>4 DEF Type
  <2> DEFINE e == EndLine(ns[container])
  <2>5. e = lineno - 1
    BY <2>4 DEF EndLine
  <2>6. Late(ns[container]) = 0 /\ IsLeaf(ns[container].type)
    BY <2>4 DEF Late, IsLeaf
  <2>7. e \in Nat /\ e <= lineno + Late(ns[container])
    BY <1>5, <2>5, <2>6
  <2> HIDE DEF e
  <2>8. ~IsLeaf(ns[container].type) \/ ns[container].type = "paragraph" => e = lineno
    BY <2>4, <2>6
  <2>9. Sited(nodes', lineno, lineno, None)
    BY <1>5, <1>6, <2>1, <2>3, <2>7, <2>8, SitedClose DEF e
  <2> QED BY <1>1, <1>5, <2>9 DEF PInv, Placed, Underway
<1>8. CASE ~ends
  BY <1>1, <1>5, <1>6, <1>8 DEF PInv, Placed, Underway
<1> QED BY <1>7, <1>8

LEMMA PlaceTextPos ==
  ASSUME IInv, PInv, PlaceText
  PROVE  PInv'
<1>1. /\ Tree(nodes) /\ BranchesOpen(nodes, container, current, matched)
      /\ pc = "close" /\ current = matched
  BY DEF IInv, PlaceText
<1>2. SpineOpen(nodes, container)
  BY <1>1, OneBranch
<1>3. /\ Sited(nodes, lineno, lineno - 1, None) /\ lineno \in Nat /\ lineno # 0
      /\ Fresh(nodes, lineno) \subseteq Up(nodes, container)
      /\ NewHolds
      /\ Type(container) = "paragraph" => ~Blank
  BY <1>1 DEF PInv, Placed, Underway
<1>4. \/ /\ Type(container) \in {"code_block", "paragraph", "heading"}
         /\ \E r : TextInto(container, r)
      \/ Type(container) = "html_block" /\ HtmlLine(container)
      \/ Blank /\ BlankLine
      \/ /\ NewParagraph /\ ~Blank
         /\ Type(container) \notin {"code_block", "html_block", "paragraph", "heading"}
  BY DEF PlaceText
<1>5. CASE /\ Type(container) \in {"code_block", "paragraph", "heading"}
           /\ \E r : TextInto(container, r)
  <2>1. container # Root
    BY <1>1, <1>5 DEF Type, Tree
  <2> QED BY <1>1, <1>2, <1>5, <2>1, TextIntoPos
<1>6. CASE Type(container) = "html_block" /\ HtmlLine(container)
  BY <1>1, <1>2, <1>6, HtmlLinePos
<1>7. CASE Blank /\ BlankLine
  <2>1. nodes' = nodes /\ pc' = "idle" /\ lineno' = lineno
    BY <1>7 DEF BlankLine, EndOfLine, line
  <2>2. nodes[container].type # "paragraph"
    BY <1>3, <1>7 DEF Type
  <2>3. lineno - 1 \in Nat /\ (lineno - 1) + 1 = lineno
    BY <1>3
  <2>4. Sited(nodes, lineno, (lineno - 1) + 1, None)
    BY <1>1, <1>2, <1>3, <2>2, <2>3, SitedAdvance
  <2>5. Sited(nodes, lineno, lineno, None)
    BY <2>3, <2>4
  <2> QED BY <1>3, <2>1, <2>5 DEF PInv, Placed, Underway
<1>8. CASE /\ NewParagraph /\ ~Blank
           /\ Type(container) \notin {"code_block", "html_block", "paragraph", "heading"}
  <2>1. /\ nodes' = nodes /\ pc' = "add" /\ container' = container /\ lineno' = lineno
        /\ adding' = <<Block("paragraph", <<>>)>>
    BY <1>8 DEF NewParagraph, line
  <2> DEFINE b == Block("paragraph", <<>>)
  <2>2. b.text = <<>> /\ b.start = lineno /\ b.end = lineno
    BY NewBlocksHere
  <2> HIDE DEF b
  <2>3. AddingHere'
    <3>1. adding' = <<b>> /\ \A i \in DOMAIN <<b>> : <<b>>[i] = b
      BY <2>1 DEF b
    <3> QED BY <2>1, <2>2, <3>1 DEF AddingHere
  <2>4. NewHolds'
    <3> SUFFICES ASSUME container \in Fresh(nodes, lineno)
                 PROVE  CanContain(Type(container), adding'[1].type)
      BY <2>1 DEF NewHolds, Type
    <3>1. rest # Eol
      BY <1>8 DEF Blank, Tok, Eol
    <3>2. Type(container) \in {"block_quote", "item"}
      BY <1>1, <1>3, <1>8, <3>1 DEF NewHolds
    <3> QED BY <3>2 DEF CanContain
  <2> QED BY <1>3, <2>1, <2>3, <2>4 DEF PInv, Placed, Underway
<1> QED BY <1>4, <1>5, <1>6, <1>7, <1>8

LEMMA FinishBlockPos ==
  ASSUME IInv, PInv, FinishBlock
  PROVE  PInv'
<1>1. /\ Tree(nodes) /\ SpineOpen(nodes, current) /\ pc = "finish"
      /\ nodes' = Finalize(nodes, current)
      /\ pc' \in {"finish", "done"} /\ lineno' = lineno
  BY DEF IInv, FinishBlock, Close, line
<1>2. current \in Opened(nodes) /\ current \in Blocks(nodes)
  BY <1>1, UpBlocks DEF SpineOpen, Tree
<1>3. Sited(nodes, lineno, lineno, None) /\ lineno \in Nat
  BY <1>1 DEF PInv, Placed
<1>4. Dated(nodes[current])
  BY <1>2, <1>3 DEF Sited, Limits
<1>5. CloseDetail(nodes, nodes', current) /\ TextSplit(nodes, nodes', current)
  BY <1>1, <1>2, <1>4, FinalizeDetail
<1> DEFINE e == EndLine(nodes[current])
<1>6. e = lineno
  BY <1>1 DEF EndLine
<1>7. Late(nodes[current]) \in {0, 1}
  BY DEF Late
<1>8. e \in Nat /\ e <= lineno + Late(nodes[current])
  BY <1>3, <1>6, <1>7
<1> HIDE DEF e
<1>9. Sited(nodes', lineno, lineno, None)
  BY <1>1, <1>2, <1>3, <1>5, <1>6, <1>8, SitedClose DEF e
<1> QED BY <1>1, <1>3, <1>9 DEF PInv, Placed, Underway

LEMMA NextPos ==
  ASSUME IInv, PInv, [Next]_vars
  PROVE  PInv'
<1>1. CASE UNCHANGED vars
  BY <1>1 DEF vars, PInv, Placed, Underway, NewHolds, AddingHere, Type, Blank, Tok
<1>2. CASE \E l \in Lines : ReadLine(l)
  BY <1>2, ReadLinePos
<1>3. CASE Finish
  BY <1>3 DEF Finish, line, PInv, Placed, Underway
<1>4. CASE CheckOpenBlocks
  BY <1>4, CheckOpenBlocksPos
<1>5. CASE OpenNewBlocks
  BY <1>5, OpenNewBlocksPos
<1>6. CASE AddChild
  BY <1>6, CloseForChildPos, AddBlockPos DEF AddChild
<1>7. CASE AddText
  BY <1>7, LazyLinePos, NotLazyPos DEF AddText
<1>8. CASE CloseUnmatched
  BY <1>8, CloseUnmatchedPos
<1>9. CASE PlaceText
  BY <1>9, PlaceTextPos
<1>10. CASE ParagraphLine
  <2>1. Tree(nodes) /\ SpineOpen(nodes, container) /\ pc = "line"
    BY <1>10, OneBranch DEF IInv, ParagraphLine
  <2>2. container # Root
    BY <2>1 DEF PInv, Type, Tree
  <2> QED BY <1>10, <2>1, <2>2, TextIntoPos DEF ParagraphLine
<1>11. CASE FinishBlock
  BY <1>11, FinishBlockPos
<1> QED BY <1>1, <1>2, <1>3, <1>4, <1>5, <1>6, <1>7, <1>8, <1>9, <1>10, <1>11
        DEF Next, Work, Done

LEMMA SpecPInv == Spec => []PInv
<1>1. IInv /\ PInv /\ [Next]_vars => PInv'
  BY NextPos
<1> QED BY SpecIInv, InitPInv, <1>1, PTL DEF Spec

-----------------------------------------------------------------------------
LEMMA MarksIn ==
  ASSUME NEW n \in Live, NEW x \in Extent(n)
  PROVE  \E m \in Blocks(nodes) : n \in Up(nodes, m) /\ x \in Marks(nodes[m])
<1>1. PICK m \in Below(n) : x \in LinesOf(m) \cup {nodes[m].start}
  BY DEF Extent
<1>2. m \in Blocks(nodes) /\ n \in Up(nodes, m)
  BY LiveBlocks DEF Below
<1>3. x \in Marks(nodes[m])
  BY <1>1 DEF LinesOf, Marks
<1> QED BY <1>2, <1>3

LEMMA PositionsFollow == IInv /\ PInv => PositionsRight
<1> SUFFICES ASSUME IInv, PInv
             PROVE  PositionsRight
  OBVIOUS
<1>1. Tree(nodes) /\ \A m \in Blocks(nodes) : Dated(nodes[m])
  BY DEF IInv, PInv, Sited, Limits
<1>2. Ordered(nodes)
  BY DEF PInv, Sited
<1>3. InOrder
  <2> SUFFICES ASSUME NEW p \in Live, NEW i \in 1 .. Len(nodes[p].kids) - 1,
                      NEW x \in Extent(nodes[p].kids[i]),
                      NEW y \in Extent(nodes[p].kids[i + 1])
               PROVE  x < y
    BY DEF InOrder
  <2> DEFINE k == nodes[p].kids
  <2>1. p \in Blocks(nodes)
    BY LiveBlocks
  <2>2. k \in Seq(Id) /\ ToSet(k) = {m \in Blocks(nodes) : nodes[m].parent = p}
    BY <1>1, <2>1 DEF Tree, IsBlock
  <2> HIDE DEF k
  <2>3. /\ i \in 1 .. Len(k) /\ i + 1 \in 1 .. Len(k) /\ i < i + 1
        /\ x \in Extent(k[i]) /\ y \in Extent(k[i + 1])
    BY <2>2 DEF k
  <2> DEFINE a == k[i]
             c == k[i + 1]
  <2>4. /\ a \in Blocks(nodes) /\ c \in Blocks(nodes) /\ nodes[c].parent = p
    BY <2>2, <2>3 DEF ToSet
  <2>5. Before(nodes, a, c)
    <3>1. \E s, t \in 1 .. Len(k) : s < t /\ k[s] = a /\ k[t] = c
      BY <2>3
    <3> QED BY <2>1, <3>1 DEF Before, k
  <2>6. c # Root
    BY <1>1, <2>1, <2>4, TreeFacts DEF Blocks, Id, None
  <2> HIDE DEF a, c
  <2>7. PICK m \in Blocks(nodes) : a \in Up(nodes, m) /\ x \in Marks(nodes[m])
    BY <2>3, <2>4, MarksIn, LiveBlocks DEF a
  <2>8. PICK o \in Blocks(nodes) : c \in Up(nodes, o) /\ y \in Marks(nodes[o])
    BY <2>3, <2>4, MarksIn, LiveBlocks DEF c
  <2>9. x < nodes[c].start
    BY <1>2, <2>4, <2>5, <2>7 DEF Ordered
  <2>10. nodes[c].start <= y
    BY <1>2, <2>4, <2>6, <2>8 DEF Ordered
  <2>11. x \in Nat /\ y \in Nat /\ nodes[c].start \in Nat
    BY <1>1, <2>4, <2>7, <2>8, MarksNat DEF Dated
  <2> QED BY <2>9, <2>10, <2>11
<1>4. EndLinesRight
  <2> SUFFICES ASSUME pc = "done", NEW n \in Live \ {Root}
               PROVE  /\ Type(n) = "paragraph" => nodes[n].end = Max(LinesOf(n))
                      /\ LET late == IF Fenced(n) \/ Setext(n) THEN 1 ELSE 0
                         IN  nodes[n].end <= nodes[nodes[n].parent].end + late
    BY DEF EndLinesRight
  <2>1. n \in Blocks(nodes) /\ nodes[n].parent \in Blocks(nodes)
    BY <1>1, LiveBlocks, TreeFacts
  <2>2. ~nodes[n].open /\ ~nodes[nodes[n].parent].open
    BY <2>1 DEF IInv, Opened
  <2>3. Ended(nodes, lineno) /\ Written(nodes, lineno, None)
    BY DEF PInv, Sited, Placed
  <2>4. nodes[n].end <= nodes[nodes[n].parent].end + Late(nodes[n])
    BY <2>1, <2>2, <2>3 DEF Ended
  <2>5. Late(nodes[n]) = IF Fenced(n) \/ Setext(n) THEN 1 ELSE 0
    BY DEF Late, Fenced, Setext, Type
  <2>6. ASSUME Type(n) = "paragraph"
        PROVE  nodes[n].end = Max(LinesOf(n))
    <3> DEFINE t == nodes[n].text
               e == nodes[n].end
    <3>1. t # <<>> /\ Rising(t) /\ Last(t).line = e
      BY <2>1, <2>2, <2>3, <2>6 DEF Written, Reaches, Type, None, Blocks, Id
    <3>2. t \in Seq(Entry)
      BY <1>1, <2>1 DEF Dated
    <3>3. LinesOf(n) = {t[i].line : i \in 1 .. Len(t)}
      BY <3>2 DEF LinesOf
    <3> HIDE DEF t, e
    <3>4. \A i \in 1 .. Len(t) : t[i].line \in Nat
      <4>1. \A i \in 1 .. Len(t) : t[i] \in Entry
        BY <3>2
      <4> QED BY <4>1 DEF Entry
    <3>5. Len(t) \in 1 .. Len(t) /\ t[Len(t)].line = e
      BY <3>1, <3>2 DEF Last
    <3>6. \A i \in 1 .. Len(t) : t[i].line <= e
      <4> SUFFICES ASSUME NEW i \in 1 .. Len(t)
                   PROVE  t[i].line <= e
        OBVIOUS
      <4>1. CASE i = Len(t)
        BY <3>4, <3>5, <4>1
      <4>2. CASE i # Len(t)
        <5>1. i < Len(t)
          BY <3>2, <4>2
        <5>2. t[i].line < t[Len(t)].line
          BY <3>1, <3>5, <5>1 DEF Rising
        <5> QED BY <3>4, <3>5, <5>2
      <4> QED BY <4>1, <4>2
    <3> DEFINE T == {t[i].line : i \in 1 .. Len(t)}
    <3>7. T \subseteq Nat /\ e \in T /\ \A x \in T : x <= e
      BY <3>4, <3>5, <3>6
    <3> HIDE DEF T
    <3>8. Max(T) = e
      BY <3>7, MaxIs
    <3> QED BY <3>3, <3>8 DEF T, e
  <2> QED BY <2>4, <2>5, <2>6
<1> QED BY <1>3, <1>4 DEF PositionsRight

\* PositionsRight: whatever the lines are, the source positions that finalize and
\* add_child give the blocks agree with the lines whose text they hold: a block
\* starts where its first child does or earlier, siblings and their texts
\* follow one another in the order of the lines, and a closed block ends with
\* its last line, or one line later where the code takes the current line.
THEOREM PositionsStayRight == Spec => []PositionsRight
BY SpecIInv, SpecPInv, PositionsFollow, PTL

-----------------------------------------------------------------------------
(* Where the text of the lines is. *)

\* TextKept counts where the text of a line is when the line is done.  Its
\* inductive invariant says in addition what is left of the line that is being
\* placed, that no text is among what trailing blank lines are dropped for, and
\* that the one open paragraph is behind all definitions there are.

\* r is what is left of the line l: if l has text, r has.
Remains(r, l) ==
  /\ \E I, S : r \in Seq([ind : I, tok : S])
  /\ r # <<>>
  /\ \A i \in 1 .. Len(r) : r[i].tok = "eol" <=> i = Len(r)
  /\ \A i \in 1 .. Len(r) : r[i].tok \in Rule => r[i + 1].tok = "eol"
  /\ HasText(l) => HasText(r)

Held(b)    == {b.text[i].line : i \in 1 .. Len(b.text)}
Listed(rs) == {rs[j] : j \in 1 .. Len(rs)}
Ascending(rs) == \A i, j \in 1 .. Len(rs) : i < j => rs[i] < rs[j]
BlanksBlank(b, doc) ==
  \A i \in 1 .. Len(b.text) : b.text[i].what = "blank" => ~HasText(doc[b.text[i].line])

\* The text of the lines up to last is in one block each, or a definition.
Stored(ns, rs, doc, last) ==
  /\ rs \in Seq(Nat) /\ Ascending(rs) /\ \A x \in Listed(rs) : x <= last
  /\ \A n, m \in Blocks(ns) : n # m => Held(ns[n]) \cap Held(ns[m]) = {}
  /\ \A n \in Blocks(ns) : /\ Held(ns[n]) \subseteq 1 .. last
                           /\ Held(ns[n]) \cap Listed(rs) = {}
                           /\ BlanksBlank(ns[n], doc)
  /\ \A n \in Opened(ns) : ns[n].type = "paragraph" =>
       /\ \A x \in Listed(rs), y \in Held(ns[n]) : x < y
       /\ \A m \in Opened(ns) : ns[m].type = "paragraph" => m = n
  /\ \A l \in 1 .. last : HasText(doc[l]) =>
       l \in Listed(rs) \/ \E n \in Blocks(ns) : l \in Held(ns[n])

\* Inductive with IInv and PInv.
TInv ==
  /\ input \in Seq(Lines) /\ lineno = Len(input)
  /\ pc \notin {"idle", "finish", "done"} => Remains(rest, input[lineno])
  /\ Stored(nodes, refs, input, Placed)

-----------------------------------------------------------------------------
LEMMA SeqIs ==
  ASSUME NEW T, NEW s \in Seq(T)
  PROVE  /\ Len(s) \in Nat /\ DOMAIN s = 1 .. Len(s)
         /\ s = [i \in 1 .. Len(s) |-> s[i]]
         /\ \A i \in 1 .. Len(s) : s[i] \in T
         /\ s # <<>> => Len(s) # 0
OBVIOUS

LEMMA TailIs ==
  ASSUME NEW T, NEW s \in Seq(T), s # <<>>
  PROVE  /\ Tail(s) \in Seq(T) /\ Len(Tail(s)) = Len(s) - 1
         /\ \A i \in 1 .. Len(s) - 1 : Tail(s)[i] = s[i + 1]
OBVIOUS

LEMMA RemainsTail ==
  ASSUME NEW r, NEW l, Remains(r, l), r[1].tok \notin {"eol", "text", "ref"}
  PROVE  Remains(Tail(r), l)
<1>1. PICK I, S : r \in Seq([ind : I, tok : S])
  BY DEF Remains
<1> DEFINE k == Len(r)
           q == Tail(r)
<1>2. k \in Nat /\ k >= 2
  <2>1. k \in Nat /\ k # 0
    BY <1>1, SeqIs DEF Remains
  <2>2. 1 # k
    <3>1. 1 \in 1 .. k
      BY <2>1
    <3> QED BY <3>1 DEF Remains
  <2> HIDE DEF k
  <2> QED BY <2>1, <2>2
<1>3. q \in Seq([ind : I, tok : S]) /\ Len(q) = k - 1
      /\ \A i \in 1 .. k - 1 : q[i] = r[i + 1]
  BY <1>1, TailIs DEF Remains
<1>3a. DOMAIN q = 1 .. k - 1 /\ DOMAIN r = 1 .. k /\ q # <<>>
  <2>1. DOMAIN q = 1 .. k - 1 /\ DOMAIN r = 1 .. k
    BY <1>1, <1>3, SeqIs
  <2>2. 1 \in 1 .. k - 1
    BY <1>2
  <2> QED BY <2>1, <2>2
<1> HIDE DEF q, k
<1>4. \A i \in 1 .. k - 1 : q[i].tok = "eol" <=> i = k - 1
  <2> SUFFICES ASSUME NEW i \in 1 .. k - 1
               PROVE  q[i].tok = "eol" <=> i = k - 1
    OBVIOUS
  <2>1. i + 1 \in 1 .. k /\ (r[i + 1].tok = "eol" <=> i + 1 = k)
    BY <1>2 DEF Remains, k
  <2>2. q[i].tok = r[i + 1].tok
    BY <1>3
  <2>3. i + 1 = k <=> i = k - 1
    BY <1>2
  <2> QED BY <2>1, <2>2, <2>3
<1>5. \A i \in 1 .. k - 1 : q[i].tok \in Rule => q[i + 1].tok = "eol"
  <2> SUFFICES ASSUME NEW i \in 1 .. k - 1, q[i].tok \in Rule
               PROVE  q[i + 1].tok = "eol"
    OBVIOUS
  <2>1. i + 1 \in 1 .. k /\ r[i + 1].tok \in Rule /\ r[i + 1].tok # "eol"
    BY <1>2, <1>3 DEF Rule
  <2>2. i + 1 # k /\ r[(i + 1) + 1].tok = "eol"
    BY <2>1 DEF Remains, k
  <2>3. i + 1 \in 1 .. k - 1
    BY <1>2, <2>1, <2>2
  <2> QED BY <1>3, <2>2, <2>3
<1>6. ASSUME HasText(l)
      PROVE  HasText(q)
  <2>1. PICK i \in 1 .. k : r[i].tok \in {"text", "ref"}
    BY <1>3a, <1>6 DEF Remains, HasText
  <2>2. i # 1
    BY <2>1
  <2>3. i - 1 \in 1 .. k - 1 /\ (i - 1) + 1 = i
    BY <1>2, <2>1, <2>2
  <2>4. q[i - 1].tok \in {"text", "ref"}
    BY <1>3, <2>1, <2>3
  <2>5. i - 1 \in DOMAIN q
    BY <1>3a, <2>3
  <2> QED BY <2>4, <2>5 DEF HasText
<1> QED BY <1>3, <1>3a, <1>4, <1>5, <1>6 DEF Remains, q

LEMMA RemainsSkip ==
  ASSUME NEW r, NEW l, Remains(r, l), NEW k
  PROVE  Remains(Skip(r, k), l) /\ Skip(r, k)[1].tok = r[1].tok
<1>1. PICK I, S : r \in Seq([ind : I, tok : S])
  BY DEF Remains
<1> DEFINE x == r[1].ind - k
           J == I \cup {x}
           q == Skip(r, k)
<1>2. 1 \in 1 .. Len(r) /\ Len(r) \in Nat
  BY <1>1, SeqIs DEF Remains
<1>3. q = [r EXCEPT ![1] = [r[1] EXCEPT !.ind = x]]
  BY DEF Skip
<1> HIDE DEF x, q
<1> DEFINE e == [r[1] EXCEPT !.ind = x]
<1>4. e \in [ind : J, tok : S] /\ e.tok = r[1].tok
  <2>1. r[1] \in [ind : I, tok : S]
    BY <1>1, <1>2, SeqIs
  <2> QED BY <2>1
<1> HIDE DEF e
<1>5. q = [i \in 1 .. Len(r) |-> IF i = 1 THEN e ELSE r[i]]
  <2>1. r = [i \in 1 .. Len(r) |-> r[i]]
    BY <1>1, SeqIs
  <2> QED BY <1>2, <1>3, <2>1 DEF e
<1>6. \A i \in 1 .. Len(r) : r[i] \in [ind : J, tok : S]
  <2>1. \A i \in 1 .. Len(r) : r[i] \in [ind : I, tok : S]
    BY <1>1, SeqIs
  <2> QED BY <2>1
<1> HIDE DEF J
<1>7. /\ q \in Seq([ind : J, tok : S]) /\ Len(q) = Len(r)
      /\ \A i \in 1 .. Len(r) : q[i].tok = r[i].tok
  <2> DEFINE T == [ind : J, tok : S]
             d == Len(r)
  <2>1. e \in T /\ d \in Nat /\ q = [i \in 1 .. d |-> IF i = 1 THEN e ELSE r[i]]
    BY <1>2, <1>4, <1>5
  <2>2. \A i \in 1 .. d : r[i] \in T
    BY <1>6
  <2>3. \A i \in 1 .. d : q[i].tok = r[i].tok
    BY <1>4, <2>1
  <2> HIDE DEF T, d
  <2>4. q \in Seq(T) /\ Len(q) = d
    BY <2>1, <2>2
  <2> QED BY <2>3, <2>4 DEF T, d
<1>8. q # <<>>
  BY <1>2, <1>7
<1>9. \A i \in 1 .. Len(r) : q[i].tok = "eol" <=> i = Len(r)
  BY <1>7 DEF Remains
<1>10. \A i \in 1 .. Len(r) : q[i].tok \in Rule => q[i + 1].tok = "eol"
  <2> SUFFICES ASSUME NEW i \in 1 .. Len(r), q[i].tok \in Rule
               PROVE  q[i + 1].tok = "eol"
    OBVIOUS
  <2>1. r[i].tok \in Rule /\ r[i].tok # "eol"
    BY <1>7 DEF Rule
  <2>2. r[i + 1].tok = "eol" /\ i # Len(r)
    BY <2>1 DEF Remains
  <2>3. i + 1 \in 1 .. Len(r)
    BY <1>2, <2>2
  <2> QED BY <1>7, <2>2, <2>3
<1>11. HasText(l) => HasText(q)
  <2>1. DOMAIN q = 1 .. Len(r) /\ DOMAIN r = 1 .. Len(r)
    BY <1>1, <1>5, SeqIs
  <2> QED BY <1>7, <2>1 DEF Remains, HasText
<1> QED BY <1>2, <1>7, <1>8, <1>9, <1>10, <1>11 DEF Remains, q

\* A line that is at its end, or of which a marker is left, has no text.
LEMMA RemainsNone ==
  ASSUME NEW r, NEW l, Remains(r, l), r[1].tok \notin {"text", "ref"},
         r[1].tok = "eol" \/ r[2].tok = "eol"
  PROVE  ~HasText(l)
<1>1. PICK I, S : r \in Seq([ind : I, tok : S])
  BY DEF Remains
<1> DEFINE k == Len(r)
<1>2. k \in Nat /\ k # 0 /\ DOMAIN r = 1 .. k
  BY <1>1, SeqIs DEF Remains
<1>3. \A i \in 1 .. k : r[i].tok = "eol" <=> i = k
  BY DEF Remains
<1> HIDE DEF k
<1>4. k \in {1, 2}
  <2> SUFFICES ASSUME k # 1, k # 2
               PROVE  FALSE
    OBVIOUS
  <2>1. 1 \in 1 .. k /\ 2 \in 1 .. k
    BY <1>2
  <2> QED BY <1>3, <2>1
<1>5. \A i \in 1 .. k : r[i].tok \notin {"text", "ref"}
  <2> SUFFICES ASSUME NEW i \in 1 .. k, r[i].tok \in {"text", "ref"}
               PROVE  FALSE
    OBVIOUS
  <2>1. i # k
    BY <1>3
  <2> QED BY <1>4, <2>1
<1> QED BY <1>2, <1>5 DEF Remains, HasText

LEMMA RemainsEol ==
  ASSUME NEW l, ~HasText(l)
  PROVE  Remains(Eol, l)
<1>1. Eol \in Seq([ind : {0}, tok : {"eol"}])
  <2> DEFINE e == [ind |-> 0, tok |-> "eol"]
             T == [ind : {0}, tok : {"eol"}]
  <2>1. e \in T
    OBVIOUS
  <2> HIDE DEF e, T
  <2>2. <<e>> \in Seq(T)
    BY <2>1
  <2> QED BY <2>2 DEF Eol, e, T
<1>2. Len(Eol) = 1 /\ Eol[1].tok = "eol" /\ Eol # <<>>
  BY DEF Eol
<1>3. \A i \in 1 .. Len(Eol) : Eol[i].tok = "eol" /\ i = Len(Eol)
  BY <1>2
<1> HIDE DEF Eol
<1>4. \A i \in 1 .. Len(Eol) : Eol[i].tok \notin Rule
  BY <1>3 DEF Rule
<1> QED BY <1>1, <1>2, <1>3, <1>4 DEF Remains

\* What closing n does to the lines it holds: they stay, become definitions, or
\* have no text.
LEMMA ClosedLines ==
  ASSUME NEW ns, NEW ms, NEW n, ns[n].text \in Seq(Entry), TextSplit(ns, ms, n),
         ns[n].type = "paragraph" => Rising(ns[n].text),
         NEW doc, BlanksBlank(ns[n], doc)
  PROVE  LET rs == RefsOf(ns, n) IN
         /\ rs \in Seq(Nat) /\ Ascending(rs) /\ Listed(rs) \subseteq Held(ns[n])
         /\ ns[n].type # "paragraph" => rs = <<>>
         /\ n \in Blocks(ms) => /\ Held(ms[n]) \subseteq Held(ns[n])
                                /\ Held(ms[n]) \cap Listed(rs) = {}
                                /\ BlanksBlank(ms[n], doc)
         /\ \A x \in Held(ns[n]) : HasText(doc[x]) =>
              x \in Listed(rs) \/ (n \in Blocks(ms) /\ x \in Held(ms[n]))
<1> DEFINE t  == ns[n].text
           rs == RefsOf(ns, n)
<1>0. PICK a \in 0 .. Len(t) : \E b \in a .. Len(t) :
        /\ rs = [i \in 1 .. a |-> t[i].line]
        /\ \A i \in b + 1 .. Len(t) : t[i].what = "blank"
        /\ ns[n].type = "paragraph" => b = Len(t)
        /\ ns[n].type # "paragraph" => a = 0 /\ n \in Blocks(ms)
        /\ IF n \in Blocks(ms) THEN /\ ms[n].text = SubSeq(t, a + 1, b)
                                    /\ ns[n].type = "paragraph" => a < b
           ELSE a = b
  BY DEF TextSplit
<1>1. PICK b \in a .. Len(t) :
        /\ rs = [i \in 1 .. a |-> t[i].line]
        /\ \A i \in b + 1 .. Len(t) : t[i].what = "blank"
        /\ ns[n].type = "paragraph" => b = Len(t)
        /\ ns[n].type # "paragraph" => a = 0 /\ n \in Blocks(ms)
        /\ IF n \in Blocks(ms) THEN /\ ms[n].text = SubSeq(t, a + 1, b)
                                    /\ ns[n].type = "paragraph" => a < b
           ELSE a = b
  BY <1>0
<1> DEFINE k == Len(t)
<1>2. /\ k \in Nat /\ a \in Nat /\ b \in Nat /\ a <= b /\ b <= k
      /\ \A i \in 1 .. k : t[i].line \in Nat
  <2>1. Len(t) \in Nat /\ \A i \in 1 .. Len(t) : t[i] \in Entry
    BY SeqIs
  <2> QED BY <2>1 DEF Entry
<1>3. /\ n \in Blocks(ms) => /\ Len(ms[n].text) = b - a
                             /\ \A i \in 1 .. b - a : ms[n].text[i] = t[a + i]
  BY <1>1, SubText
<1>4. ns[n].type = "paragraph" => \A i, j \in 1 .. k : i < j => t[i].line < t[j].line
  BY DEF Rising
<1>5. /\ Held(ns[n]) = {t[i].line : i \in 1 .. k}
      /\ BlanksBlank(ns[n], doc) <=>
           \A i \in 1 .. k : t[i].what = "blank" => ~HasText(doc[t[i].line])
      /\ n \in Blocks(ms) =>
           /\ Held(ms[n]) = {t[a + i].line : i \in 1 .. b - a}
           /\ BlanksBlank(ms[n], doc) <=>
                \A i \in 1 .. b - a : t[a + i].what = "blank" => ~HasText(doc[t[a + i].line])
  BY <1>3 DEF Held, BlanksBlank
<1>6. /\ rs \in Seq(Nat) /\ Len(rs) = a /\ \A i \in 1 .. a : rs[i] = t[i].line
      /\ a = 0 => rs = <<>>
  <2> HIDE DEF rs, t
  <2>1. \A i \in 1 .. a : t[i].line \in Nat
    BY <1>2 DEF k
  <2>2. rs = [i \in 1 .. a |-> t[i].line]
    BY <1>1
  <2>3. rs \in Seq(Nat) /\ Len(rs) = a
    BY <1>2, <2>1, <2>2
  <2>4. \A i \in 1 .. a : rs[i] = t[i].line
    BY <2>2
  <2> QED BY <2>3, <2>4
<1>7. Listed(rs) = {t[i].line : i \in 1 .. a}
  BY <1>6 DEF Listed
<1>8. ns[n].type # "paragraph" => a = 0
  BY <1>1
<1>9. \A i \in b + 1 .. k : t[i].what = "blank"
  BY <1>1
<1>10. n \notin Blocks(ms) => a = b /\ b = k
  BY <1>1
<1> HIDE DEF k, t, rs
<1>11. Ascending(rs)
  <2>1. a # 0 => \A i, j \in 1 .. a : i < j => rs[i] < rs[j]
    BY <1>2, <1>4, <1>6, <1>8
  <2> QED BY <1>2, <1>6, <2>1 DEF Ascending
<1>12. Listed(rs) \subseteq Held(ns[n])
  BY <1>2, <1>5, <1>7
<1>13. n \in Blocks(ms) => /\ Held(ms[n]) \subseteq Held(ns[n])
                           /\ Held(ms[n]) \cap Listed(rs) = {}
                           /\ BlanksBlank(ms[n], doc)
  <2> SUFFICES ASSUME n \in Blocks(ms)
               PROVE  /\ Held(ms[n]) \subseteq Held(ns[n])
                      /\ Held(ms[n]) \cap Listed(rs) = {}
                      /\ BlanksBlank(ms[n], doc)
    OBVIOUS
  <2>1. \A i \in 1 .. b - a : a + i \in 1 .. k
    BY <1>2
  <2>2. Held(ms[n]) \subseteq Held(ns[n])
    BY <1>5, <2>1
  <2>3. BlanksBlank(ms[n], doc)
    BY <1>5, <2>1
  <2>4. ASSUME NEW i \in 1 .. b - a, NEW j \in 1 .. a, t[a + i].line = t[j].line
        PROVE  FALSE
    <3>1. j < a + i /\ j \in 1 .. k /\ ns[n].type = "paragraph"
      BY <1>2, <1>8
    <3>2. t[j].line < t[a + i].line /\ t[j].line \in Nat
      BY <1>2, <1>4, <2>1, <3>1
    <3> QED BY <2>4, <3>2
  <2> QED BY <1>5, <1>7, <2>2, <2>3, <2>4
<1>14. ASSUME NEW x \in Held(ns[n]), HasText(doc[x])
       PROVE  x \in Listed(rs) \/ (n \in Blocks(ms) /\ x \in Held(ms[n]))
  <2>1. PICK i \in 1 .. k : x = t[i].line
    BY <1>5
  <2>2. CASE i <= a
    <3>1. i \in 1 .. a
      BY <1>2, <2>2
    <3> QED BY <1>7, <2>1, <3>1
  <2>3. CASE a < i /\ i <= b
    <3>1. i - a \in 1 .. b - a /\ a + (i - a) = i
      BY <1>2, <2>3
    <3>2. n \in Blocks(ms)
      BY <1>2, <1>10, <2>3
    <3> QED BY <1>5, <2>1, <3>1, <3>2
  <2>4. CASE b < i
    <3>1. i \in b + 1 .. k
      BY <1>2, <2>4
    <3> QED BY <1>5, <1>9, <1>14, <2>1, <3>1
  <2> QED BY <1>2, <2>2, <2>3, <2>4
<1>15. ns[n].type # "paragraph" => rs = <<>>
  BY <1>6, <1>8
<1> QED BY <1>6, <1>11, <1>12, <1>13, <1>14, <1>15 DEF rs

\* Two lists of lines one after the other.
LEMMA ListedBoth ==
  ASSUME NEW rs \in Seq(Nat), NEW qs \in Seq(Nat), Ascending(rs), Ascending(qs),
         \A x \in Listed(rs), y \in Listed(qs) : x < y
  PROVE  /\ rs \o qs \in Seq(Nat) /\ Ascending(rs \o qs)
         /\ Listed(rs \o qs) = Listed(rs) \cup Listed(qs)
         /\ qs = <<>> => rs \o qs = rs /\ Listed(qs) = {}
<1> DEFINE k == Len(rs)
           h == Len(qs)
           s == rs \o qs
<1>1. /\ s \in Seq(Nat) /\ Len(s) = k + h /\ k \in Nat /\ h \in Nat
      /\ \A i \in 1 .. k : s[i] = rs[i]
      /\ \A i \in 1 .. h : s[k + i] = qs[i]
  OBVIOUS
<1>2. qs = <<>> => s = rs /\ Listed(qs) = {}
  BY DEF Listed
<1>3. /\ \A i, j \in 1 .. k : i < j => rs[i] < rs[j]
      /\ \A i, j \in 1 .. h : i < j => qs[i] < qs[j]
      /\ \A i \in 1 .. k, j \in 1 .. h : rs[i] < qs[j]
      /\ Listed(rs) = {rs[i] : i \in 1 .. k} /\ Listed(qs) = {qs[i] : i \in 1 .. h}
      /\ Listed(s) = {s[i] : i \in 1 .. k + h}
  BY <1>1 DEF Ascending, Listed
<1> HIDE DEF k, h, s
<1>4. \A i \in 1 .. k + h : i \in 1 .. k \/ (i - k \in 1 .. h /\ k + (i - k) = i)
  BY <1>1
<1>5. \A i \in 1 .. k + h : IF i \in 1 .. k THEN s[i] = rs[i]
                            ELSE i - k \in 1 .. h /\ s[i] = qs[i - k]
  <2> SUFFICES ASSUME NEW i \in 1 .. k + h, i \notin 1 .. k
               PROVE  i - k \in 1 .. h /\ s[i] = qs[i - k]
    BY <1>1
  <2>1. i - k \in 1 .. h /\ k + (i - k) = i
    BY <1>4
  <2>2. s[k + (i - k)] = qs[i - k]
    BY <1>1, <2>1
  <2> QED BY <2>1, <2>2
<1>6. ASSUME NEW i \in 1 .. k + h, NEW j \in 1 .. k + h, i < j
      PROVE  s[i] < s[j]
  <2>1. CASE j \in 1 .. k
    <3>1. i \in 1 .. k
      BY <1>1, <1>6, <2>1
    <3> QED BY <1>1, <1>3, <1>6, <2>1, <3>1
  <2>2. CASE i \in 1 .. k /\ j \notin 1 .. k
    BY <1>3, <1>5, <2>2
  <2>3. CASE i \notin 1 .. k /\ j \notin 1 .. k
    <3>1. /\ i - k \in 1 .. h /\ s[i] = qs[i - k]
          /\ j - k \in 1 .. h /\ s[j] = qs[j - k]
      BY <1>5, <2>3
    <3>2. i - k < j - k
      BY <1>1, <1>6
    <3> QED BY <1>3, <3>1, <3>2
  <2> QED BY <2>1, <2>2, <2>3
<1>7. Listed(s) = Listed(rs) \cup Listed(qs)
  <2>1. Listed(s) \subseteq Listed(rs) \cup Listed(qs)
    BY <1>3, <1>5
  <2>2. Listed(rs) \subseteq Listed(s)
    <3>1. \A i \in 1 .. k : i \in 1 .. k + h
      BY <1>1
    <3> QED BY <1>1, <1>3, <3>1
  <2>3. Listed(qs) \subseteq Listed(s)
    <3>1. \A i \in 1 .. h : k + i \in 1 .. k + h
      BY <1>1
    <3> QED BY <1>1, <1>3, <3>1
  <2> QED BY <2>1, <2>2, <2>3
<1>8. Ascending(s)
  BY <1>1, <1>6 DEF Ascending
<1> QED BY <1>1, <1>2, <1>7, <1>8 DEF s

LEMMA StoredClose ==
  ASSUME NEW ns, Tree(ns), NEW n \in Opened(ns), Dated(ns[n]),
         ns[n].type = "paragraph" => Rising(ns[n].text),
         NEW rs, NEW doc, NEW last \in Nat, Stored(ns, rs, doc, last),
         NEW ms, CloseDetail(ns, ms, n), TextSplit(ns, ms, n)
  PROVE  Stored(ms, rs \o RefsOf(ns, n), doc, last)
<1> DEFINE qs == RefsOf(ns, n)
           us == rs \o qs
<1>1. /\ Opened(ms) = Opened(ns) \ {n} /\ n \in Blocks(ns)
      /\ Blocks(ms) \subseteq Blocks(ns) /\ Blocks(ns) \ {n} \subseteq Blocks(ms)
      /\ \A m \in Blocks(ms) : ms[m].type = ns[m].type
      /\ \A m \in Blocks(ms) \ {n} : ms[m].text = ns[m].text
  <2>1. /\ CloseEffect(ns, ms, n) /\ \A m \in Blocks(ms) \ {n} : ms[m].text = ns[m].text
    BY DEF CloseDetail
  <2> QED BY <2>1 DEF CloseEffect, Opened
<1>2. \A m \in Blocks(ms) \ {n} : /\ Held(ms[m]) = Held(ns[m])
                                  /\ BlanksBlank(ms[m], doc) <=> BlanksBlank(ns[m], doc)
  BY <1>1 DEF Held, BlanksBlank
<1>3. /\ rs \in Seq(Nat) /\ Ascending(rs) /\ \A x \in Listed(rs) : x <= last
      /\ \A m, p \in Blocks(ns) : m # p => Held(ns[m]) \cap Held(ns[p]) = {}
      /\ \A m \in Blocks(ns) : /\ Held(ns[m]) \subseteq 1 .. last
                               /\ Held(ns[m]) \cap Listed(rs) = {}
                               /\ BlanksBlank(ns[m], doc)
      /\ \A m \in Opened(ns) : ns[m].type = "paragraph" =>
           /\ \A x \in Listed(rs), y \in Held(ns[m]) : x < y
           /\ \A p \in Opened(ns) : ns[p].type = "paragraph" => p = m
      /\ \A l \in 1 .. last : HasText(doc[l]) =>
           l \in Listed(rs) \/ \E m \in Blocks(ns) : l \in Held(ns[m])
  BY DEF Stored
<1>4. /\ qs \in Seq(Nat) /\ Ascending(qs) /\ Listed(qs) \subseteq Held(ns[n])
      /\ ns[n].type # "paragraph" => qs = <<>>
      /\ n \in Blocks(ms) => /\ Held(ms[n]) \subseteq Held(ns[n])
                             /\ Held(ms[n]) \cap Listed(qs) = {}
                             /\ BlanksBlank(ms[n], doc)
      /\ \A x \in Held(ns[n]) : HasText(doc[x]) =>
           x \in Listed(qs) \/ (n \in Blocks(ms) /\ x \in Held(ms[n]))
  <2>1. BlanksBlank(ns[n], doc) /\ ns[n].text \in Seq(Entry)
    BY <1>1, <1>3 DEF Dated
  <2> QED BY <2>1, ClosedLines
<1> HIDE DEF qs, us
<1>5. qs = <<>> => Listed(qs) = {}
  BY DEF Listed
<1>6. \A x \in Listed(rs), y \in Listed(qs) : x < y
  BY <1>3, <1>4, <1>5
<1>7. us \in Seq(Nat) /\ Ascending(us) /\ Listed(us) = Listed(rs) \cup Listed(qs)
  BY <1>3, <1>4, <1>6, ListedBoth DEF us
<1>8. \A x \in Listed(us) : x <= last
  BY <1>1, <1>3, <1>4, <1>7
<1>9. \A m, p \in Blocks(ms) : m # p => Held(ms[m]) \cap Held(ms[p]) = {}
  <2> SUFFICES ASSUME NEW m \in Blocks(ms), NEW p \in Blocks(ms), m # p
               PROVE  Held(ms[m]) \cap Held(ms[p]) = {}
    OBVIOUS
  <2>1. \A k \in Blocks(ms) : Held(ms[k]) \subseteq Held(ns[k])
    BY <1>2, <1>4
  <2>2. Held(ns[m]) \cap Held(ns[p]) = {}
    BY <1>1, <1>3
  <2> QED BY <2>1, <2>2
<1>10. ASSUME NEW m \in Blocks(ms)
       PROVE  /\ Held(ms[m]) \subseteq 1 .. last
              /\ Held(ms[m]) \cap Listed(us) = {}
              /\ BlanksBlank(ms[m], doc)
  <2>1. CASE m = n
    BY <1>1, <1>3, <1>4, <1>7, <2>1
  <2>2. CASE m # n
    <3>1. Held(ms[m]) = Held(ns[m]) /\ m \in Blocks(ns)
      BY <1>1, <1>2, <2>2
    <3>2. Held(ns[m]) \cap Held(ns[n]) = {}
      BY <1>1, <1>3, <2>2, <3>1
    <3>3. BlanksBlank(ms[m], doc)
      BY <1>2, <1>3, <2>2, <3>1
    <3> QED BY <1>3, <1>4, <1>7, <3>1, <3>2, <3>3
  <2> QED BY <2>1, <2>2
<1>11. ASSUME NEW m \in Opened(ms), ms[m].type = "paragraph"
       PROVE  /\ \A x \in Listed(us), y \in Held(ms[m]) : x < y
              /\ \A p \in Opened(ms) : ms[p].type = "paragraph" => p = m
  <2>1. m \in Opened(ns) /\ m # n /\ m \in Blocks(ms) /\ Opened(ms) \subseteq Blocks(ms)
    BY <1>1 DEF Opened
  <2>2. ns[m].type = "paragraph" /\ Held(ms[m]) = Held(ns[m])
    BY <1>1, <1>2, <1>11, <2>1
  <2>3. ns[n].type # "paragraph"
    BY <1>3, <2>1, <2>2
  <2>4. Listed(us) = Listed(rs)
    BY <1>4, <1>5, <1>7, <2>3
  <2>5. \A x \in Listed(us), y \in Held(ms[m]) : x < y
    BY <1>3, <2>1, <2>2, <2>4
  <2>6. \A p \in Opened(ms) : ms[p].type = "paragraph" => p = m
    BY <1>1, <1>3, <2>1, <2>2
  <2> QED BY <2>5, <2>6
<1>12. ASSUME NEW l \in 1 .. last, HasText(doc[l])
       PROVE  l \in Listed(us) \/ \E m \in Blocks(ms) : l \in Held(ms[m])
  <2>1. CASE l \in Listed(rs)
    BY <1>7, <2>1
  <2>2. CASE \E m \in Blocks(ns) : l \in Held(ns[m])
    <3>1. PICK m \in Blocks(ns) : l \in Held(ns[m])
      BY <2>2
    <3>2. CASE m = n
      BY <1>4, <1>7, <1>12, <3>1, <3>2
    <3>3. CASE m # n
      <4>1. m \in Blocks(ms)
        BY <1>1, <3>3
      <4> QED BY <1>2, <3>1, <3>3, <4>1
    <3> QED BY <3>2, <3>3
  <2> QED BY <1>3, <1>12, <2>1, <2>2
<1> QED BY <1>7, <1>8, <1>9, <1>10, <1>11, <1>12 DEF Stored, us, qs

\* A line without text is done.
LEMMA StoredBlank ==
  ASSUME NEW ns, NEW rs, NEW doc, NEW last \in Nat, Stored(ns, rs, doc, last),
         ~HasText(doc[last + 1]), rs \in Seq(Nat)
  PROVE  Stored(ns, rs, doc, last + 1)
<1>1. \A x \in Listed(rs) : x <= last + 1
  <2>1. \A x \in Listed(rs) : x \in Nat /\ x <= last
    <3>1. \A i \in 1 .. Len(rs) : rs[i] \in Nat
      BY SeqIs
    <3> QED BY <3>1 DEF Stored, Listed
  <2> QED BY <2>1
<1>2. 1 .. last \subseteq 1 .. last + 1
  OBVIOUS
<1>3. \A l \in 1 .. last + 1 : HasText(doc[l]) => l \in 1 .. last
  OBVIOUS
<1> QED BY <1>1, <1>2, <1>3 DEF Stored

\* The next line comes.
LEMMA StoredRead ==
  ASSUME NEW ns, NEW rs, NEW doc \in Seq(Lines), NEW l \in Lines,
         \A n \in Blocks(ns) : Dated(ns[n]), Stored(ns, rs, doc, Len(doc))
  PROVE  Stored(ns, rs, Append(doc, l), Len(doc))
<1> DEFINE d == Append(doc, l)
           k == Len(doc)
<1>1. \A i \in 1 .. k : d[i] = doc[i]
  OBVIOUS
<1> HIDE DEF d, k
<1>2. ASSUME NEW n \in Blocks(ns)
      PROVE  BlanksBlank(ns[n], d)
  <2>1. \A i \in 1 .. Len(ns[n].text) : ns[n].text[i].line \in 1 .. k
    BY DEF Stored, Held, k
  <2> QED BY <1>1, <2>1 DEF Stored, BlanksBlank
<1>3. \A i \in 1 .. k : HasText(d[i]) => HasText(doc[i])
  BY <1>1
<1> QED BY <1>2, <1>3 DEF Stored, k, d

\* Nothing but flags, and the types of paragraphs, change.
LEMMA StoredMark ==
  ASSUME NEW ns, NEW ms, MarkEffect(ns, ms), SameText(ns, ms),
         NEW rs, NEW doc, NEW last, Stored(ns, rs, doc, last)
  PROVE  Stored(ms, rs, doc, last)
<1>1. /\ Blocks(ms) = Blocks(ns) /\ Opened(ms) = Opened(ns)
      /\ \A m \in Blocks(ns) : /\ Held(ms[m]) = Held(ns[m])
                               /\ BlanksBlank(ms[m], doc) <=> BlanksBlank(ns[m], doc)
                               /\ ms[m].type = "paragraph" => ns[m].type = "paragraph"
  BY DEF MarkEffect, SameText, Held, BlanksBlank
<1>2. Opened(ns) \subseteq Blocks(ns)
  BY DEF Opened
<1> QED BY <1>1, <1>2 DEF Stored

\* add_line: the text of the line is in n.
LEMMA StoredText ==
  ASSUME NEW ns, Tree(ns), NEW n \in Blocks(ns), Dated(ns[n]), lineno \in Nat \ {0},
         NEW rs, NEW doc, Stored(ns, rs, doc, lineno - 1),
         NEW r, What(r) = "blank" => ~HasText(doc[lineno]),
         NEW ms, ms = WithLine(ns, n, r)
  PROVE  Stored(ms, rs, doc, lineno)
<1> DEFINE last == lineno - 1
           k    == Len(ns[n].text)
<1>1. /\ Blocks(ms) = Blocks(ns) /\ Opened(ms) = Opened(ns) /\ Opened(ns) \subseteq Blocks(ns)
      /\ \A m \in Blocks(ns) : /\ ms[m].type = ns[m].type
                               /\ m # n => ms[m] = ns[m]
  <2>1. /\ MarkEffect(ns, ms)
        /\ \A m \in Blocks(ns) : ms[m].type = ns[m].type /\ (m # n => ms[m] = ns[m])
    BY WithLineEffect
  <2> QED BY <2>1 DEF MarkEffect, Opened
<1>2. /\ Len(ms[n].text) = k + 1
      /\ ms[n].text[k + 1].line = lineno /\ ms[n].text[k + 1].what = What(r)
      /\ \A i \in 1 .. k : ms[n].text[i] = ns[n].text[i]
      /\ k \in Nat
  <2>1. Lengthens(ns, ms, n, r)
    BY WithLineDetail
  <2>2. k \in Nat
    BY SeqIs DEF Dated
  <2> QED BY <2>1, <2>2 DEF Lengthens
<1>3. \A m \in Blocks(ns) \ {n} : /\ Held(ms[m]) = Held(ns[m])
                                  /\ BlanksBlank(ms[m], doc) <=> BlanksBlank(ns[m], doc)
  BY <1>1 DEF Held, BlanksBlank
<1>4. /\ Held(ms[n]) = Held(ns[n]) \cup {lineno}
      /\ BlanksBlank(ns[n], doc) => BlanksBlank(ms[n], doc)
  <2> DEFINE t == ns[n].text
             u == ms[n].text
  <2>1. /\ \A i \in 1 .. k : u[i] = t[i]
        /\ u[k + 1].line = lineno /\ u[k + 1].what = What(r) /\ Len(u) = k + 1
    BY <1>2
  <2>2. /\ Held(ns[n]) = {t[i].line : i \in 1 .. k} /\ Held(ms[n]) = {u[i].line : i \in 1 .. k + 1}
        /\ BlanksBlank(ns[n], doc) <=>
             \A i \in 1 .. k : t[i].what = "blank" => ~HasText(doc[t[i].line])
        /\ BlanksBlank(ms[n], doc) <=>
             \A i \in 1 .. k + 1 : u[i].what = "blank" => ~HasText(doc[u[i].line])
    BY <1>2 DEF Held, BlanksBlank
  <2> HIDE DEF t, u, k
  <2>3. 1 .. k + 1 = (1 .. k) \cup {k + 1}
    BY <1>2
  <2>4. Held(ms[n]) = Held(ns[n]) \cup {lineno}
    BY <2>1, <2>2, <2>3
  <2>5. BlanksBlank(ns[n], doc) => BlanksBlank(ms[n], doc)
    BY <2>1, <2>2, <2>3
  <2> QED BY <2>4, <2>5
<1> HIDE DEF k
<1>5. /\ rs \in Seq(Nat) /\ Ascending(rs) /\ \A x \in Listed(rs) : x <= last
      /\ \A m, p \in Blocks(ns) : m # p => Held(ns[m]) \cap Held(ns[p]) = {}
      /\ \A m \in Blocks(ns) : /\ Held(ns[m]) \subseteq 1 .. last
                               /\ Held(ns[m]) \cap Listed(rs) = {}
                               /\ BlanksBlank(ns[m], doc)
      /\ \A m \in Opened(ns) : ns[m].type = "paragraph" =>
           /\ \A x \in Listed(rs), y \in Held(ns[m]) : x < y
           /\ \A p \in Opened(ns) : ns[p].type = "paragraph" => p = m
      /\ \A l \in 1 .. last : HasText(doc[l]) =>
           l \in Listed(rs) \/ \E m \in Blocks(ns) : l \in Held(ns[m])
  BY DEF Stored
<1>6. /\ last \in Nat /\ 1 .. last \subseteq 1 .. lineno /\ lineno \in 1 .. lineno
      /\ lineno \notin 1 .. last
      /\ \A l \in 1 .. lineno : l = lineno \/ l \in 1 .. last
  OBVIOUS
<1>7. \A x \in Listed(rs) : x < lineno
  <2>1. \A x \in Listed(rs) : x \in Nat /\ x <= last
    <3>1. \A i \in 1 .. Len(rs) : rs[i] \in Nat
      BY <1>5, SeqIs
    <3> QED BY <1>5, <3>1 DEF Listed
  <2> QED BY <2>1
<1>7a. \A x \in Listed(rs) : x <= lineno /\ x # lineno
  <2>1. \A x \in Listed(rs) : x \in Nat
    <3>1. \A i \in 1 .. Len(rs) : rs[i] \in Nat
      BY <1>5, SeqIs
    <3> QED BY <3>1 DEF Listed
  <2> QED BY <1>7, <2>1
<1> HIDE DEF last
<1>8. \A m, p \in Blocks(ns) : m # p => Held(ms[m]) \cap Held(ms[p]) = {}
  <2> SUFFICES ASSUME NEW m \in Blocks(ns), NEW p \in Blocks(ns), m # p
               PROVE  Held(ms[m]) \cap Held(ms[p]) = {}
    OBVIOUS
  <2>1. \A q \in Blocks(ns) : /\ q = n => Held(ms[q]) = Held(ns[q]) \cup {lineno}
                              /\ q # n => Held(ms[q]) = Held(ns[q])
                              /\ lineno \notin Held(ns[q])
    BY <1>3, <1>4, <1>5, <1>6
  <2>2. Held(ns[m]) \cap Held(ns[p]) = {}
    BY <1>5
  <2>3. CASE m = n
    <3>1. Held(ms[p]) = Held(ns[p]) /\ lineno \notin Held(ns[p])
      BY <2>1, <2>3
    <3> QED BY <2>1, <2>2, <3>1
  <2>4. CASE m # n
    <3>1. Held(ms[m]) = Held(ns[m]) /\ lineno \notin Held(ns[m])
      BY <2>1, <2>4
    <3> QED BY <2>1, <2>2, <3>1
  <2> QED BY <2>3, <2>4
<1>9. \A m \in Blocks(ns) : /\ Held(ms[m]) \subseteq 1 .. lineno
                            /\ Held(ms[m]) \cap Listed(rs) = {}
                            /\ BlanksBlank(ms[m], doc)
  <2> SUFFICES ASSUME NEW m \in Blocks(ns)
               PROVE  /\ Held(ms[m]) \subseteq 1 .. lineno
                      /\ Held(ms[m]) \cap Listed(rs) = {}
                      /\ BlanksBlank(ms[m], doc)
    OBVIOUS
  <2>1. CASE m = n
    BY <1>4, <1>5, <1>6, <1>7a, <2>1
  <2>2. CASE m # n
    BY <1>3, <1>5, <1>6, <2>2
  <2> QED BY <2>1, <2>2
<1>10. ASSUME NEW m \in Opened(ns), ns[m].type = "paragraph"
       PROVE  \A x \in Listed(rs), y \in Held(ms[m]) : x < y
  <2>1. \A y \in Held(ms[m]) : y \in Held(ns[m]) \/ y = lineno
    BY <1>1, <1>3, <1>4
  <2> QED BY <1>5, <1>7, <1>10, <2>1
<1>11. \A l \in 1 .. lineno : HasText(doc[l]) =>
         l \in Listed(rs) \/ \E m \in Blocks(ns) : l \in Held(ms[m])
  <2> SUFFICES ASSUME NEW l \in 1 .. lineno, HasText(doc[l])
               PROVE  l \in Listed(rs) \/ \E m \in Blocks(ns) : l \in Held(ms[m])
    OBVIOUS
  <2>1. CASE l = lineno
    BY <1>4, <2>1
  <2>2. CASE l \in 1 .. last
    BY <1>3, <1>4, <1>5, <2>2
  <2> QED BY <1>6, <2>1, <2>2
<1>12. \A m \in Opened(ms) : ms[m].type = "paragraph" =>
         /\ \A x \in Listed(rs), y \in Held(ms[m]) : x < y
         /\ \A p \in Opened(ms) : ms[p].type = "paragraph" => p = m
  <2>1. \A m \in Opened(ns) : ms[m].type = ns[m].type
    BY <1>1
  <2> QED BY <1>1, <1>5, <1>10, <2>1
<1> QED BY <1>1, <1>5, <1>7a, <1>8, <1>9, <1>11, <1>12 DEF Stored

\* make_block and the appending to its parent.
LEMMA StoredAdd ==
  ASSUME NEW ns, NEW c, NEW n, n \notin Blocks(ns), NEW b, IsBlock(b), b.text = <<>>,
         NEW ms, AddEffect(ns, ms, c, n, b),
         b.type = "paragraph" => \A m \in Opened(ns) : ns[m].type # "paragraph",
         NEW rs, NEW doc, NEW last, Stored(ns, rs, doc, last)
  PROVE  Stored(ms, rs, doc, last)
<1>1. /\ Blocks(ms) = Blocks(ns) \cup {n}
      /\ ms[n].text = <<>> /\ ms[n].type = b.type
      /\ \A m \in Blocks(ns) : /\ ms[m].text = ns[m].text /\ ms[m].type = ns[m].type
                               /\ ms[m].open = ns[m].open
  <2>1. ms[n] = [b EXCEPT !.parent = c] /\ b = [f \in Fields |-> b[f]]
    BY DEF AddEffect, IsBlock
  <2>2. ms[n].text = b.text
    BY <2>1 DEF Fields
  <2>3. \A m \in Blocks(ns) : \A f \in {"text", "type", "open"} : ms[m][f] = ns[m][f]
    BY DEF AddEffect, Fields
  <2> QED BY <2>2, <2>3 DEF AddEffect
<1>2. /\ Held(ms[n]) = {} /\ BlanksBlank(ms[n], doc)
      /\ \A m \in Blocks(ns) : /\ Held(ms[m]) = Held(ns[m])
                               /\ BlanksBlank(ms[m], doc) <=> BlanksBlank(ns[m], doc)
  BY <1>1 DEF Held, BlanksBlank
<1>3. Opened(ns) \subseteq Opened(ms) /\ Opened(ms) \subseteq Opened(ns) \cup {n}
  BY <1>1 DEF Opened
<1>4. Opened(ns) \subseteq Blocks(ns)
  BY DEF Opened
<1>5. \A m \in Opened(ms) : ms[m].type = "paragraph" =>
         /\ \A x \in Listed(rs), y \in Held(ms[m]) : x < y
         /\ \A p \in Opened(ms) : ms[p].type = "paragraph" => p = m
  <2> SUFFICES ASSUME NEW m \in Opened(ms), ms[m].type = "paragraph"
               PROVE  /\ \A x \in Listed(rs), y \in Held(ms[m]) : x < y
                      /\ \A p \in Opened(ms) : ms[p].type = "paragraph" => p = m
    OBVIOUS
  <2>1. CASE m = n
    BY <1>1, <1>2, <1>3, <1>4, <2>1
  <2>2. CASE m # n
    <3>1. m \in Opened(ns) /\ ns[m].type = "paragraph" /\ b.type # "paragraph"
      BY <1>1, <1>3, <1>4, <2>2
    <3>2. \A x \in Listed(rs), y \in Held(ms[m]) : x < y
      BY <1>2, <1>4, <3>1 DEF Stored
    <3>3. \A p \in Opened(ms) : ms[p].type = "paragraph" => p = m
      BY <1>1, <1>3, <1>4, <3>1 DEF Stored
    <3> QED BY <3>2, <3>3
  <2> QED BY <2>1, <2>2
<1>6. \A m, p \in Blocks(ms) : m # p => Held(ms[m]) \cap Held(ms[p]) = {}
  <2> SUFFICES ASSUME NEW m \in Blocks(ms), NEW p \in Blocks(ms), m # p
               PROVE  Held(ms[m]) \cap Held(ms[p]) = {}
    OBVIOUS
  <2>1. CASE m = n \/ p = n
    BY <1>2, <2>1
  <2>2. CASE m # n /\ p # n
    <3>1. m \in Blocks(ns) /\ p \in Blocks(ns)
      BY <1>1, <2>2
    <3>2. Held(ns[m]) \cap Held(ns[p]) = {}
      BY <3>1 DEF Stored
    <3> QED BY <1>2, <3>1, <3>2
  <2> QED BY <2>1, <2>2
<1>7. \A m \in Blocks(ms) : /\ Held(ms[m]) \subseteq 1 .. last
                            /\ Held(ms[m]) \cap Listed(rs) = {}
                            /\ BlanksBlank(ms[m], doc)
  BY <1>1, <1>2 DEF Stored
<1>8. \A l \in 1 .. last : HasText(doc[l]) =>
        l \in Listed(rs) \/ \E m \in Blocks(ms) : l \in Held(ms[m])
  BY <1>1, <1>2 DEF Stored
<1> QED BY <1>5, <1>6, <1>7, <1>8 DEF Stored

-----------------------------------------------------------------------------
LEMMA InitTInv == Init => TInv
<1> SUFFICES ASSUME Init
             PROVE  TInv
  OBVIOUS
<1>1. IInv /\ PInv /\ pc = "idle" /\ lineno = 0 /\ refs = <<>> /\ input = <<>>
  BY InitIInv, InitPInv DEF Init
<1>2. \A n \in Blocks(nodes) : nodes[n].text = <<>> /\ nodes[n].type = "document"
  BY DEF Init, Blocks
<1>3. 1 .. Len(<<>>) = {} /\ Len(<<>>) = 0 /\ 1 .. 0 = {}
  OBVIOUS
<1>4. \A n \in Blocks(nodes) : Held(nodes[n]) = {} /\ BlanksBlank(nodes[n], <<>>)
  <2>1. \A n \in Blocks(nodes) : 1 .. Len(nodes[n].text) = {}
    BY <1>2, <1>3
  <2> QED BY <2>1 DEF Held, BlanksBlank
<1>5. Listed(<<>>) = {} /\ Ascending(<<>>) /\ <<>> \in Seq(Nat)
  BY <1>3 DEF Listed, Ascending
<1>6. Opened(nodes) \subseteq Blocks(nodes)
  BY DEF Opened
<1>7. Stored(nodes, <<>>, <<>>, 0)
  BY <1>2, <1>3, <1>4, <1>5, <1>6 DEF Stored
<1>8. input \in Seq(Lines) /\ lineno = Len(input)
  BY <1>1
<1> QED BY <1>1, <1>7, <1>8 DEF TInv, Placed

LEMMA LineRemains ==
  ASSUME NEW l \in Lines
  PROVE  Remains(l, l)
<1>1. /\ l \in Seq([ind : Nat, tok : STRING]) /\ l # <<>>
      /\ \A i \in DOMAIN l : l[i].tok = "eol" <=> i = Len(l)
      /\ \A i \in DOMAIN l : l[i].tok \in Rule => l[i + 1].tok = "eol"
  BY LinesAssumption, RulesAssumption
<1>2. DOMAIN l = 1 .. Len(l)
  BY <1>1, SeqIs
<1> QED BY <1>1, <1>2 DEF Remains

LEMMA ReadLineText ==
  ASSUME PInv, TInv, NEW l \in Lines, ReadLine(l)
  PROVE  TInv'
<1>1. /\ nodes' = nodes /\ refs' = refs /\ pc' = "check" /\ rest' = l /\ pc = "idle"
      /\ lineno' = lineno + 1 /\ input' = Append(input, l)
  BY DEF ReadLine
<1>2. /\ input \in Seq(Lines) /\ lineno = Len(input) /\ lineno \in Nat
      /\ Stored(nodes, refs, input, Len(input))
      /\ \A n \in Blocks(nodes) : Dated(nodes[n])
  BY <1>1 DEF TInv, PInv, Sited, Limits, Placed
<1>3. input' \in Seq(Lines) /\ lineno' = Len(input') /\ input'[lineno'] = l
      /\ lineno' - 1 = lineno
  BY <1>1, <1>2
<1>4. Stored(nodes, refs, input', Len(input))
  BY <1>1, <1>2, StoredRead
<1> QED BY <1>1, <1>2, <1>3, <1>4, LineRemains DEF TInv, Placed

\* A block is closed on the way.
LEMMA CloseStored ==
  ASSUME IInv, PInv, TInv, NEW last \in Nat, Sited(nodes, lineno, last, None),
         Stored(nodes, refs, input, last), NEW n \in Opened(nodes), Close(n)
  PROVE  Stored(nodes', refs', input, last)
<1>1. Tree(nodes) /\ nodes' = Finalize(nodes, n) /\ refs' = refs \o RefsOf(nodes, n)
  BY DEF IInv, Close
<1>2. n \in Blocks(nodes) /\ n # None
  BY DEF Opened, Blocks, Id, None
<1>3. Dated(nodes[n]) /\ (nodes[n].type = "paragraph" => Rising(nodes[n].text))
  BY <1>2 DEF Sited, Limits, Written, Reaches
<1>4. CloseDetail(nodes, nodes', n) /\ TextSplit(nodes, nodes', n)
  BY <1>1, <1>2, <1>3, FinalizeDetail
<1> QED BY <1>1, <1>3, <1>4, StoredClose

\* Neither blocks nor definitions change while a line is looked at.
LEMMA LookText ==
  ASSUME TInv, UNCHANGED <<nodes, refs, input, lineno>>,
         pc \notin {"idle", "finish", "done"}, pc' \notin {"idle", "finish", "done"},
         Remains(rest', input[lineno])
  PROVE  TInv'
BY DEF TInv, Placed

LEMMA SkipRemains ==
  ASSUME NEW r, NEW l, Remains(r, l)
  PROVE  /\ Remains(SkipOne(r), l) /\ Remains(SkipAll(r), l)
         /\ SkipAll(r)[1].tok = r[1].tok
BY RemainsSkip DEF SkipOne, SkipAll

\* A line is done that has no text.
LEMMA BlankDone ==
  ASSUME NEW ns, NEW rs, lineno \in Nat \ {0}, ~HasText(input[lineno]),
         Stored(ns, rs, input, lineno - 1)
  PROVE  Stored(ns, rs, input, lineno)
<1> DEFINE last == lineno - 1
<1>1. last \in Nat /\ last + 1 = lineno
  OBVIOUS
<1>2. Stored(ns, rs, input, last) /\ rs \in Seq(Nat) /\ ~HasText(input[last + 1])
  BY <1>1 DEF Stored
<1> HIDE DEF last
<1>3. Stored(ns, rs, input, last + 1)
  BY <1>1, <1>2, StoredBlank
<1> QED BY <1>1, <1>3

LEMMA HeadRemains ==
  ASSUME NEW r, NEW l, Remains(r, l)
  PROVE  Head(r) = r[1]
<1>1. PICK I, S : r \in Seq([ind : I, tok : S])
  BY DEF Remains
<1> DEFINE T == [ind : I, tok : S]
<1>2. r \in Seq(T) /\ r # <<>>
  BY <1>1 DEF Remains
<1> HIDE DEF T
<1> QED BY <1>2

LEMMA CheckOpenBlocksText ==
  ASSUME IInv, PInv, TInv, CheckOpenBlocks
  PROVE  TInv'
<1> DEFINE n == LastOpenChild(container)
           l == input[lineno]
<1>1. /\ pc = "check" /\ Remains(rest, l) /\ input \in Seq(Lines) /\ lineno = Len(input)
      /\ Stored(nodes, refs, input, lineno - 1) /\ lineno \in Nat \ {0}
      /\ Sited(nodes, lineno, lineno - 1, None)
  BY DEF CheckOpenBlocks, TInv, Placed, PInv
<1>1a. Tok = rest[1].tok
  BY <1>1, HeadRemains DEF Tok
<1> HIDE DEF n, l
<1>2. CASE StopChecking
  <2>1. /\ UNCHANGED <<nodes, refs, input, lineno>> /\ pc' = "open" /\ rest' = rest
    BY <1>2 DEF StopChecking, line
  <2> QED BY <1>1, <2>1, LookText DEF l
<1>3. ASSUME NEW m, NEW r, Descend(m, r), Remains(r, l)
      PROVE  TInv'
  <2>1. /\ UNCHANGED <<nodes, refs, input, lineno>> /\ pc' = pc /\ rest' = r
    BY <1>3 DEF Descend, line
  <2> QED BY <1>1, <1>3, <2>1, LookText DEF l
<1>4. CASE CheckQuote(n)
  <2>1. Descend(n, SkipOne(Tail(rest))) /\ rest[1].tok = ">"
    BY <1>1a, <1>4 DEF CheckQuote, QuoteGoesOn
  <2>2. Remains(SkipOne(Tail(rest)), l)
    BY <1>1, <2>1, RemainsTail, SkipRemains
  <2> QED BY <1>3, <2>1, <2>2
<1>5. CASE CheckItem(n)
  <2>1. Descend(n, Skip(rest, nodes[n].as.need)) \/ Descend(n, SkipAll(rest))
    BY <1>5 DEF CheckItem
  <2> QED BY <1>1, <1>3, <2>1, RemainsSkip, SkipRemains
<1>6. CASE CheckIndentedCode(n)
  <2>1. Descend(n, Skip(rest, 4)) \/ Descend(n, SkipAll(rest))
    BY <1>6 DEF CheckIndentedCode
  <2> QED BY <1>1, <1>3, <2>1, RemainsSkip, SkipRemains
<1>7. CASE CheckFencedCode(n) \/ CheckHtml(n) \/ CheckParagraph(n) \/ CheckOther(n)
  <2>1. Descend(n, rest)
    BY <1>7 DEF CheckFencedCode, CheckHtml, CheckParagraph, CheckOther
  <2> QED BY <1>1, <1>3, <2>1
<1>8. CASE CloseFence(n) /\ n # None
  <2>1. n \in Up(nodes, current) /\ SpineOpen(nodes, current)
    BY <1>1, <1>8, NextTried DEF n, IInv
  <2>2. n \in Opened(nodes)
    BY <2>1 DEF SpineOpen
  <2>3. Close(n) /\ pc' = "idle" /\ UNCHANGED <<input, lineno>>
    BY <1>8 DEF CloseFence, EndOfLine, line
  <2>4. lineno - 1 \in Nat
    BY <1>1
  <2>5. Stored(nodes', refs', input, lineno - 1)
    BY <1>1, <2>2, <2>3, <2>4, CloseStored
  <2>6. rest[1].tok \in {"ticks3", "ticks4", "tildes3"} /\ rest[2].tok = "eol"
    BY <1>1a, <1>8 DEF CloseFence, ClosesFence, FenceOf
  <2>7. ~HasText(l)
    BY <1>1, <2>6, RemainsNone
  <2>8. Stored(nodes', refs', input, lineno)
    BY <1>1, <2>5, <2>7, BlankDone DEF l
  <2> QED BY <1>1, <2>3, <2>8 DEF TInv, Placed
<1> QED BY <1>2, <1>4, <1>5, <1>6, <1>7, <1>8 DEF CheckOpenBlocks, Mismatch, n

LEMMA OpenNewBlocksText ==
  ASSUME IInv, PInv, TInv, OpenNewBlocks
  PROVE  TInv'
<1> DEFINE l == input[lineno]
<1>1. /\ pc = "open" /\ Remains(rest, l) /\ input \in Seq(Lines) /\ lineno = Len(input)
      /\ Stored(nodes, refs, input, lineno - 1) /\ lineno \in Nat \ {0}
  BY DEF OpenNewBlocks, TInv, Placed, PInv
<1>1a. Tok = rest[1].tok
  BY <1>1, HeadRemains DEF Tok
<1> HIDE DEF l
<1>2. CASE NothingStarts
  <2>1. /\ UNCHANGED <<nodes, refs, input, lineno>> /\ pc' = "text" /\ rest' = rest
    BY <1>2 DEF OpenNewBlocks, StopOpening, line
  <2> QED BY <1>1, <2>1, LookText DEF l
<1>3. ASSUME NEW bs, NEW r, Open(bs, r), Remains(r, l)
      PROVE  TInv'
  <2>1. /\ UNCHANGED <<nodes, refs, input, lineno>> /\ pc' = "add" /\ rest' = r
    BY <1>3 DEF Open, line
  <2> QED BY <1>1, <1>3, <2>1, LookText DEF l
<1>4. CASE OpenQuote
  <2>1. rest[1].tok = ">"
    BY <1>1a, <1>4 DEF OpenQuote, StartsQuote
  <2>2. Remains(SkipOne(Tail(rest)), l)
    BY <1>1, <2>1, RemainsTail, SkipRemains
  <2> QED BY <1>3, <1>4, <2>2 DEF OpenQuote
<1>5. CASE OpenAtx
  <2>1. rest[1].tok = "#"
    BY <1>1a, <1>5 DEF OpenAtx, StartsAtx
  <2>2. Remains(SkipAll(Tail(rest)), l)
    BY <1>1, <2>1, RemainsTail, SkipRemains
  <2> QED BY <1>3, <1>5, <2>2 DEF OpenAtx
<1>6. CASE OpenFence
  <2>1. rest[1].tok \in {"ticks3", "ticks4", "tildes3"}
    BY <1>1a, <1>6 DEF OpenFence, StartsFence, FenceOf
  <2>2. Remains(Tail(rest), l)
    BY <1>1, <2>1, RemainsTail
  <2> QED BY <1>3, <1>6, <2>2 DEF OpenFence
<1>7. CASE OpenHtml
  BY <1>1, <1>3, <1>7 DEF OpenHtml
<1>8. CASE OpenRule
  <2>1. rest[1].tok \in Rule /\ rest[1].tok \notin {"text", "ref"}
    BY <1>1a, <1>8 DEF OpenRule, StartsRule, Rule
  <2>2. rest[2].tok = "eol"
    <3>1. PICK I, S : rest \in Seq([ind : I, tok : S])
      BY <1>1 DEF Remains
    <3>2. 1 \in 1 .. Len(rest) /\ 1 + 1 = 2
      BY <1>1, <3>1, SeqIs DEF Remains
    <3> QED BY <1>1, <2>1, <3>2 DEF Remains
  <2>3. Remains(Eol, l)
    BY <1>1, <2>1, <2>2, RemainsNone, RemainsEol
  <2> QED BY <1>3, <1>8, <2>3 DEF OpenRule
<1>9. CASE OpenIndentedCode
  BY <1>1, <1>3, <1>9, RemainsSkip DEF OpenIndentedCode
<1>10. CASE OpenItem
  <2>1. rest[1].tok \in {"-", "+", "*", "1.", "2.", "1)"}
    BY <1>1a, <1>10 DEF OpenItem, StartsItem, Marker
  <2>2. Remains(Tail(rest), l)
    BY <1>1, <2>1, RemainsTail
  <2>3. Remains(SkipOne(Tail(rest)), l) /\ Remains(SkipAll(Tail(rest)), l)
    BY <2>2, SkipRemains
  <2>4. \E bs : Open(bs, SkipOne(Tail(rest))) \/ Open(bs, SkipAll(Tail(rest)))
    BY <1>10 DEF OpenItem
  <2> QED BY <1>3, <2>3, <2>4
<1>11. CASE TurnSetext
  <2>1. /\ MarkEffect(nodes, nodes') /\ SameText(nodes, nodes')
        /\ pc' = "text" /\ rest' = Eol /\ UNCHANGED <<refs, input, lineno>>
    BY <1>1, <1>11, SetextMarks DEF TurnSetext, line
  <2>2. rest[1].tok \in {"===", "---", "-"} /\ rest[2].tok = "eol"
    BY <1>1a, <1>11 DEF TurnSetext, StartsSetext, Underline
  <2>3. Remains(Eol, l)
    BY <1>1, <2>2, RemainsNone, RemainsEol
  <2>4. Stored(nodes', refs, input, lineno - 1)
    BY <1>1, <2>1, StoredMark
  <2> QED BY <1>1, <2>1, <2>3, <2>4 DEF TInv, Placed, l
<1> QED BY <1>2, <1>4, <1>5, <1>6, <1>7, <1>8, <1>9, <1>10, <1>11 DEF OpenNewBlocks

LEMMA CloseForChildText ==
  ASSUME IInv, PInv, TInv, pc = "add", CloseForChild
  PROVE  TInv'
<1>1. /\ Close(container) /\ UNCHANGED <<pc, rest, input, lineno>>
  BY DEF CloseForChild, line
<1>2. container \in Opened(nodes)
  BY UpBlocks DEF IInv, BranchesOpen, Tree
<1>3. /\ Sited(nodes, lineno, lineno - 1, None) /\ lineno \in Nat \ {0}
      /\ Stored(nodes, refs, input, lineno - 1)
      /\ Remains(rest, input[lineno]) /\ input \in Seq(Lines) /\ lineno = Len(input)
  BY DEF PInv, TInv, Placed
<1>4. lineno - 1 \in Nat
  BY <1>3
<1>5. Stored(nodes', refs', input, lineno - 1)
  BY <1>1, <1>2, <1>3, <1>4, CloseStored
<1> QED BY <1>1, <1>3, <1>5 DEF TInv, Placed

LEMMA AddBlockText ==
  ASSUME IInv, PInv, TInv, pc = "add", AddBlock
  PROVE  TInv'
<1> DEFINE n == Min(Id \ Live)
           b == Head(adding)
<1>1. /\ Tree(nodes) /\ AddingSound /\ container \in Blocks(nodes)
      /\ BranchesOpen(nodes, container, current, matched)
  BY DEF IInv, BranchesOpen
<1>2. n \in Id /\ n \notin Blocks(nodes)
  BY FreeId DEF AddBlock
<1>3. /\ NewBlock(b) /\ b = adding[1] /\ 1 \in DOMAIN adding
      /\ b.type = "paragraph" => current = matched
  <2>1. ASSUME NEW x, adding = <<x>>
        PROVE  b = x /\ adding[1] = x /\ 1 \in DOMAIN adding
    BY <2>1
  <2>2. ASSUME NEW x, NEW y, adding = <<x, y>>
        PROVE  b = x /\ adding[1] = x /\ 1 \in DOMAIN adding
    BY <2>2
  <2> HIDE DEF b
  <2> QED BY <1>1, <2>1, <2>2 DEF AddingSound
<1>4. /\ CanContain(nodes[container].type, b.type)
      /\ nodes' = [nodes EXCEPT ![n] = [b EXCEPT !.parent = container],
                                ![container].kids = Append(@, n)]
      /\ pc' \in {"add", "line", "text", "open"}
      /\ UNCHANGED <<refs, rest, input, lineno>>
  BY DEF AddBlock, Type, line
<1> HIDE DEF n, b
<1>5. AddEffect(nodes, nodes', container, n, b)
  BY <1>1, <1>2, <1>3, <1>4, AddKeeps DEF NewBlock
<1>6. /\ pc' \in {"add", "line", "text", "open"} /\ UNCHANGED <<refs, rest, input, lineno>>
      /\ CanContain(nodes[container].type, b.type)
  BY <1>4
<1>7. b.text = <<>> /\ IsBlock(b)
  BY <1>3 DEF PInv, AddingHere, NewBlock
<1>8. ASSUME b.type = "paragraph", NEW m \in Opened(nodes), nodes[m].type = "paragraph"
      PROVE  FALSE
  <2>1. m \in Up(nodes, container) /\ m \in Blocks(nodes)
    BY <1>1, <1>3, <1>8 DEF BranchesOpen, Unmatched, Opened
  <2>2. IsLeaf(nodes[m].type)
    BY <1>8 DEF IsLeaf
  <2>3. m = container
    BY <1>1, <2>1, <2>2, LeafHasNoKids
  <2> QED BY <1>6, <1>8, <2>3 DEF CanContain
<1>9. /\ Stored(nodes, refs, input, lineno - 1)
      /\ Remains(rest, input[lineno]) /\ input \in Seq(Lines) /\ lineno = Len(input)
  BY DEF TInv, Placed
<1>10. Stored(nodes', refs, input, lineno - 1)
  BY <1>2, <1>5, <1>7, <1>8, <1>9, StoredAdd
<1> QED BY <1>6, <1>9, <1>10 DEF TInv, Placed

\* What add_line writes for a line without text, and only for such a line.
LEMMA WhatRemains ==
  ASSUME NEW r, NEW l, Remains(r, l), What(r) = "blank"
  PROVE  ~HasText(l)
<1>1. r[1].tok = "eol"
  BY DEF What
<1> QED BY <1>1, RemainsNone

LEMMA LazyLineText ==
  ASSUME IInv, PInv, TInv, pc = "text", LazyLine
  PROVE  TInv'
<1>1. /\ nodes' = WithLine(Flagged, current, rest) /\ pc' = "idle"
      /\ UNCHANGED <<refs, input, lineno>> /\ Tree(nodes) /\ current # matched
      /\ BranchesOpen(nodes, container, current, matched)
  BY DEF LazyLine, IsLazy, EndOfLine, line, IInv
<1>2. current \in Blocks(nodes)
  BY <1>1 DEF BranchesOpen
<1>3. /\ Sited(nodes, lineno, lineno - 1, None) /\ lineno \in Nat \ {0}
      /\ Stored(nodes, refs, input, lineno - 1)
      /\ Remains(rest, input[lineno]) /\ input \in Seq(Lines) /\ lineno = Len(input)
  BY DEF PInv, TInv, Placed
<1> DEFINE fs == Flagged
<1>4. MarkEffect(nodes, fs) /\ SameText(nodes, fs) /\ Sited(fs, lineno, lineno - 1, None)
  BY <1>1, <1>3, FlaggedEffect, FlaggedSited
<1> HIDE DEF fs
<1>5. Tree(fs) /\ current \in Blocks(fs) /\ Dated(fs[current])
  BY <1>2, <1>4 DEF MarkEffect, Sited, Limits
<1>6. Stored(fs, refs, input, lineno - 1)
  BY <1>3, <1>4, StoredMark
<1>7. What(rest) = "blank" => ~HasText(input[lineno])
  BY <1>3, WhatRemains
<1>8. Stored(nodes', refs, input, lineno)
  BY <1>1, <1>3, <1>5, <1>6, <1>7, StoredText DEF fs
<1> QED BY <1>1, <1>3, <1>8 DEF TInv, Placed

LEMMA NotLazyText ==
  ASSUME IInv, PInv, TInv, pc = "text", NotLazy
  PROVE  TInv'
<1>1. /\ nodes' = Flagged /\ pc' = "close" /\ Tree(nodes)
      /\ UNCHANGED <<refs, rest, input, lineno>>
  BY DEF NotLazy, line, IInv
<1>2. /\ Sited(nodes, lineno, lineno - 1, None)
      /\ Stored(nodes, refs, input, lineno - 1)
      /\ Remains(rest, input[lineno]) /\ input \in Seq(Lines) /\ lineno = Len(input)
  BY DEF PInv, TInv, Placed
<1>3. MarkEffect(nodes, nodes') /\ SameText(nodes, nodes')
  BY <1>1, <1>2, FlaggedEffect, FlaggedSited
<1>4. Stored(nodes', refs, input, lineno - 1)
  BY <1>2, <1>3, StoredMark
<1> QED BY <1>1, <1>2, <1>4 DEF TInv, Placed

LEMMA CloseUnmatchedText ==
  ASSUME IInv, PInv, TInv, CloseUnmatched
  PROVE  TInv'
<1>1. /\ Close(current) /\ pc = "close" /\ UNCHANGED <<pc, rest, input, lineno>>
      /\ current # matched
  BY DEF CloseUnmatched, line
<1>2. current \in Opened(nodes)
  BY <1>1, UnmatchedParentOpen DEF IInv
<1>3. /\ Sited(nodes, lineno, lineno - 1, None) /\ lineno \in Nat \ {0}
      /\ Stored(nodes, refs, input, lineno - 1)
      /\ Remains(rest, input[lineno]) /\ input \in Seq(Lines) /\ lineno = Len(input)
  BY <1>1 DEF PInv, TInv, Placed
<1>4. lineno - 1 \in Nat
  BY <1>3
<1>5. Stored(nodes', refs', input, lineno - 1)
  BY <1>1, <1>2, <1>3, <1>4, CloseStored
<1> QED BY <1>1, <1>3, <1>5 DEF TInv, Placed

LEMMA TextIntoText ==
  ASSUME IInv, PInv, TInv, pc \in {"close", "line"}, container \in Blocks(nodes),
         NEW r \in {rest, SkipAll(rest)}, TextInto(container, r)
  PROVE  TInv'
<1>1. /\ nodes' = WithLine(nodes, container, r) /\ pc' = "idle"
      /\ UNCHANGED <<refs, input, lineno>> /\ Tree(nodes)
  BY DEF TextInto, EndOfLine, line, IInv
<1>2. /\ Dated(nodes[container]) /\ lineno \in Nat \ {0}
      /\ Stored(nodes, refs, input, lineno - 1)
      /\ Remains(rest, input[lineno]) /\ input \in Seq(Lines) /\ lineno = Len(input)
  BY DEF PInv, TInv, Placed, Sited, Limits
<1>3. What(r) = "blank" => ~HasText(input[lineno])
  BY <1>2, SkipRemains, WhatRemains
<1>4. Stored(nodes', refs, input, lineno)
  BY <1>1, <1>2, <1>3, StoredText
<1> QED BY <1>1, <1>2, <1>4 DEF TInv, Placed

LEMMA HtmlLineText ==
  ASSUME IInv, PInv, TInv, pc = "close", SpineOpen(nodes, container),
         Type(container) = "html_block", HtmlLine(container)
  PROVE  TInv'
<1> DEFINE ns   == WithLine(nodes, container, rest)
           ends == \E i \in DOMAIN rest : rest[i].tok \in HtmlEnd(nodes[container].as.html)
<1>1. /\ nodes' = IF ends THEN Finalize(ns, container) ELSE ns
      /\ pc' = "idle" /\ UNCHANGED <<refs, input, lineno>> /\ Tree(nodes)
  BY DEF HtmlLine, EndOfLine, line, IInv
<1>2. container \in Blocks(nodes) /\ container \in Opened(nodes) /\ container # Root
      /\ container # None
  <2>1. container \in Blocks(nodes) /\ container \in Opened(nodes)
    BY <1>1, UpBlocks DEF SpineOpen, Tree
  <2> QED BY <1>1, <2>1 DEF Type, Tree, Blocks, Id, None
<1>3. /\ Sited(nodes, lineno, lineno - 1, None) /\ lineno \in Nat /\ lineno # 0
      /\ Stored(nodes, refs, input, lineno - 1) /\ Dated(nodes[container])
      /\ Remains(rest, input[lineno]) /\ input \in Seq(Lines) /\ lineno = Len(input)
  BY <1>2 DEF PInv, TInv, Placed, Sited, Limits
<1>4. /\ MarkEffect(nodes, ns)
      /\ \A m \in Blocks(nodes) : ns[m].type = nodes[m].type
  BY <1>1, <1>2, WithLineEffect
<1>5. Sited(ns, lineno, lineno, None)
  BY <1>1, <1>2, <1>3, SitedText
<1>6. Stored(ns, refs, input, lineno)
  <2>1. What(rest) = "blank" => ~HasText(input[lineno])
    BY <1>3, WhatRemains
  <2> QED BY <1>1, <1>2, <1>3, <2>1, StoredText
<1> HIDE DEF ns, ends
<1>7. CASE ends
  <2>1. /\ Tree(ns) /\ container \in Opened(ns) /\ container \in Blocks(ns)
        /\ ns[container].type = "html_block"
    BY <1>2, <1>4 DEF MarkEffect, Type
  <2>2. Dated(ns[container])
    BY <1>5, <2>1 DEF Sited, Limits
  <2>3. CloseDetail(ns, nodes', container) /\ TextSplit(ns, nodes', container)
    BY <1>1, <1>7, <2>1, <2>2, FinalizeDetail
  <2>4. Stored(nodes', refs \o RefsOf(ns, container), input, lineno)
    BY <1>3, <1>6, <2>1, <2>2, <2>3, StoredClose
  <2>5. RefsOf(ns, container) = <<>> /\ refs \o <<>> = refs
    <3>1. refs \in Seq(Nat)
      BY <1>3 DEF Stored
    <3> QED BY <2>1, <3>1 DEF RefsOf
  <2>6. Stored(nodes', refs, input, lineno)
    BY <2>4, <2>5
  <2> QED BY <1>1, <1>3, <2>6 DEF TInv, Placed
<1>8. CASE ~ends
  BY <1>1, <1>3, <1>6, <1>8 DEF TInv, Placed
<1> QED BY <1>7, <1>8

LEMMA PlaceTextText ==
  ASSUME IInv, PInv, TInv, PlaceText
  PROVE  TInv'
<1>1. /\ Tree(nodes) /\ BranchesOpen(nodes, container, current, matched)
      /\ pc = "close" /\ current = matched
  BY DEF IInv, PlaceText
<1>2. SpineOpen(nodes, container) /\ container \in Blocks(nodes)
  BY <1>1, OneBranch DEF SpineOpen
<1>3. \/ \E r \in {rest, SkipAll(rest)} : TextInto(container, r)
      \/ Type(container) = "html_block" /\ HtmlLine(container)
      \/ Blank /\ BlankLine
      \/ NewParagraph
  BY DEF PlaceText
<1>4. /\ lineno \in Nat \ {0} /\ Stored(nodes, refs, input, lineno - 1)
      /\ Remains(rest, input[lineno]) /\ input \in Seq(Lines) /\ lineno = Len(input)
  BY <1>1 DEF PInv, TInv, Placed
<1>5. CASE Blank /\ BlankLine
  <2>1. pc' = "idle" /\ UNCHANGED <<nodes, refs, input, lineno>>
    BY <1>5 DEF BlankLine, EndOfLine, line
  <2>2. rest[1].tok = "eol"
    BY <1>4, <1>5, HeadRemains DEF Blank, Tok
  <2>3. ~HasText(input[lineno])
    BY <1>4, <2>2, RemainsNone
  <2>4. Stored(nodes, refs, input, lineno)
    BY <1>4, <2>3, BlankDone
  <2> QED BY <1>4, <2>1, <2>4 DEF TInv, Placed
<1>6. CASE NewParagraph
  <2>1. UNCHANGED <<nodes, refs, input, lineno>> /\ pc' = "add" /\ rest' = rest
    BY <1>6 DEF NewParagraph, line
  <2> QED BY <1>1, <1>4, <2>1, LookText
<1> QED BY <1>1, <1>2, <1>3, <1>5, <1>6, TextIntoText, HtmlLineText

LEMMA FinishBlockText ==
  ASSUME IInv, PInv, TInv, FinishBlock
  PROVE  TInv'
<1>1. /\ Close(current) /\ pc = "finish" /\ pc' \in {"finish", "done"}
      /\ UNCHANGED <<input, lineno>> /\ SpineOpen(nodes, current) /\ Tree(nodes)
  BY DEF FinishBlock, line, IInv
<1>2. current \in Opened(nodes)
  BY <1>1, UpBlocks DEF SpineOpen, Tree
<1>3. /\ Sited(nodes, lineno, lineno, None) /\ lineno \in Nat
      /\ Stored(nodes, refs, input, lineno)
      /\ input \in Seq(Lines) /\ lineno = Len(input)
  BY <1>1 DEF PInv, TInv, Placed
<1>4. Stored(nodes', refs', input, lineno)
  BY <1>1, <1>2, <1>3, CloseStored
<1> QED BY <1>1, <1>3, <1>4 DEF TInv, Placed

LEMMA NextText ==
  ASSUME IInv, PInv, TInv, [Next]_vars
  PROVE  TInv'
<1>1. CASE UNCHANGED vars
  BY <1>1 DEF vars, TInv, Placed
<1>2. CASE \E l \in Lines : ReadLine(l)
  BY <1>2, ReadLineText
<1>3. CASE Finish
  BY <1>3 DEF Finish, line, TInv, Placed
<1>4. CASE CheckOpenBlocks
  BY <1>4, CheckOpenBlocksText
<1>5. CASE OpenNewBlocks
  BY <1>5, OpenNewBlocksText
<1>6. CASE AddChild
  BY <1>6, CloseForChildText, AddBlockText DEF AddChild
<1>7. CASE AddText
  BY <1>7, LazyLineText, NotLazyText DEF AddText
<1>8. CASE CloseUnmatched
  BY <1>8, CloseUnmatchedText
<1>9. CASE PlaceText
  BY <1>9, PlaceTextText
<1>10. CASE ParagraphLine
  <2>1. container \in Blocks(nodes) /\ pc = "line"
    BY <1>10 DEF IInv, BranchesOpen, ParagraphLine
  <2> QED BY <1>10, <2>1, TextIntoText DEF ParagraphLine
<1>11. CASE FinishBlock
  BY <1>11, FinishBlockText
<1> QED BY <1>1, <1>2, <1>3, <1>4, <1>5, <1>6, <1>7, <1>8, <1>9, <1>10, <1>11
        DEF Next, Work, Done

LEMMA SpecTInv == Spec => []TInv
<1>1. IInv /\ PInv /\ TInv /\ [Next]_vars => TInv'
  BY NextText
<1> QED BY SpecIInv, SpecPInv, InitTInv, <1>1, PTL DEF Spec

-----------------------------------------------------------------------------
LEMMA AtMostOne ==
  ASSUME NEW S, \A x, y \in S : x = y
  PROVE  S = {} \/ \E x : S = {x}
<1>1. ASSUME NEW x \in S
      PROVE  S = {x}
  OBVIOUS
<1> QED BY <1>1

LEMMA OneOrNone ==
  ASSUME NEW S, NEW T, S = {} \/ \E x : S = {x}, T = {} \/ \E x : T = {x},
         S # {} <=> T = {}
  PROVE  Cardinality(S) + Cardinality(T) = 1
<1>1. \A U : (U = {} => Cardinality(U) = 0) /\ ((\E x : U = {x}) => Cardinality(U) = 1)
  BY FS_EmptySet, FS_Singleton
<1>2. CASE S = {}
  <2>1. Cardinality(S) = 0 /\ Cardinality(T) = 1
    BY <1>1, <1>2
  <2> QED BY <2>1
<1>3. CASE S # {}
  <2>1. Cardinality(S) = 1 /\ Cardinality(T) = 0
    BY <1>1, <1>3
  <2> QED BY <2>1
<1> QED BY <1>2, <1>3

LEMMA TextFollows == IInv /\ PInv /\ TInv => TextKept
<1> SUFFICES ASSUME IInv, PInv, TInv
             PROVE  TextKept
  OBVIOUS
<1>1. /\ Stored(nodes, refs, input, Placed) /\ refs \in Seq(Nat)
      /\ \A i, j \in 1 .. Len(refs) : i < j => refs[i] < refs[j]
      /\ Live = Blocks(nodes)
  BY LiveBlocks DEF TInv, Stored, Ascending
<1>2. DefinitionsInOrder
  <2> SUFFICES ASSUME NEW i \in 1 .. Len(refs) - 1
               PROVE  refs[i] < refs[i + 1]
    BY DEF DefinitionsInOrder
  <2>1. Len(refs) \in Nat
    BY <1>1
  <2>2. i \in 1 .. Len(refs) /\ i + 1 \in 1 .. Len(refs) /\ i < i + 1
    BY <2>1
  <2> QED BY <1>1, <2>2
<1>3. ASSUME Between, NEW l \in 1 .. lineno, HasText(input[l])
      PROVE  Cardinality({n \in Live : l \in LinesOf(n)})
               + Cardinality({i \in DOMAIN refs : refs[i] = l}) = 1
  <2> DEFINE S == {n \in Live : l \in LinesOf(n)}
             T == {i \in DOMAIN refs : refs[i] = l}
  <2>1. Placed = lineno
    BY <1>3 DEF Placed, Between
  <2>2. \A n \in Blocks(nodes) : LinesOf(n) = Held(nodes[n])
    <3> SUFFICES ASSUME NEW n \in Blocks(nodes)
                 PROVE  LinesOf(n) = Held(nodes[n])
      OBVIOUS
    <3>1. nodes[n].text \in Seq(Entry)
      BY DEF PInv, Sited, Limits, Dated
    <3>2. DOMAIN nodes[n].text = 1 .. Len(nodes[n].text)
      BY <3>1, SeqIs
    <3> QED BY <3>2 DEF LinesOf, Held
  <2>3. \A n, m \in S : n = m
    BY <1>1, <2>2 DEF Stored
  <2>4. DOMAIN refs = 1 .. Len(refs) /\ T \subseteq Nat
    BY <1>1
  <2>5. \A i, j \in T : i = j
    <3> SUFFICES ASSUME NEW i \in T, NEW j \in T, i < j
                 PROVE  FALSE
      BY <2>4
    <3>1. refs[i] < refs[j] /\ refs[i] = l /\ refs[j] = l
      BY <1>1, <2>4
    <3> QED BY <3>1
  <2>6. T # {} <=> l \in Listed(refs)
    BY <2>4 DEF Listed
  <2>7. S # {} <=> \E n \in Blocks(nodes) : l \in Held(nodes[n])
    BY <1>1, <2>2
  <2>8. S # {} <=> T = {}
    <3>1. l \in Listed(refs) \/ \E n \in Blocks(nodes) : l \in Held(nodes[n])
      BY <1>1, <1>3, <2>1 DEF Stored
    <3>2. \A n \in Blocks(nodes) : Held(nodes[n]) \cap Listed(refs) = {}
      BY <1>1 DEF Stored
    <3> QED BY <2>6, <2>7, <3>1, <3>2
  <2>9. (S = {} \/ \E x : S = {x}) /\ (T = {} \/ \E x : T = {x})
    <3> HIDE DEF S, T
    <3> QED BY <2>3, <2>5, AtMostOne
  <2> HIDE DEF S, T
  <2>10. Cardinality(S) + Cardinality(T) = 1
    BY <2>8, <2>9, OneOrNone
  <2> QED BY <2>10 DEF S, T
<1> QED BY <1>2, <1>3 DEF TextKept

\* TextKept: whatever the lines are, once a line is done the text of each line so
\* far is in one block, or became one definition, wherever the line was placed
\* and whatever was closed or freed meanwhile; and the definitions that finalize
\* takes off paragraphs reach the reference map in document order.
THEOREM TextAlwaysKept == Spec => []TextKept
BY SpecIInv, SpecPInv, SpecTInv, TextFollows, PTL
=============================================================================
