------------------------- MODULE EventRepeats_proofs -------------------------
(***************************************************************************)
(* Nothing is stored twice, whichever adapter runs.  For Linux and Windows *)
(* EventSources_proofs has the invariants; here is that of macOS, where a  *)
(* checkpoint remembers a bounded number of identities.                    *)
(***************************************************************************)
EXTENDS EventSources_proofs

USE IngestAssumption, SourcesAssumption
-----------------------------------------------------------------------------
(***************************************************************************)
(* What macOS stores twice is old, or had to be forgotten.                 *)
(***************************************************************************)

\* The entries of a log l that a replay from the time of e gives, and the
\* identities of the gaps in G: what competes with e for a place.
MacRivals(l, e)      == {x \in 1..Len(l) : l[x].at >= Mac!ReplayFrom(l[e].at)}
MacGapIds(G)         == {Mac!GapId(g[1], g[2]) : g \in G}
MacCrowded(l, e, G)  == Cardinality(MacRivals(l, e)) + Cardinality(G) > IdentityMax

\* The identities of a deque: no two are one, each is of an entry or of a gap
\* in G, and entries are behind the replay from each that stands before them.
MacIds(s)            == {s[i].id : i \in 1..Len(s)}
MacFollows(l, a, b)  == a > 0 /\ b > 0 => b \in MacRivals(l, a)
MacPlaced(l, p, G)   ==
    IF p.id > 0 THEN p.id \in 1..Len(l) /\ p.at = l[p.id].at ELSE p.id \in MacGapIds(G)
MacDeque(l, s, G)    ==
    /\ Len(s) <= IdentityMax
    /\ \A i \in 1..Len(s) : MacPlaced(l, s[i], G)
    /\ \A i, j \in 1..Len(s) : i < j =>
         s[i].id # s[j].id /\ MacFollows(l, s[i].id, s[j].id)

\* A deque s of a checkpoint from time w remembers e, or need not.
MacUnforgotten(l, e, s, w, G) ==
    e \in MacIds(s) \/ l[e].at < w - Overlap \/ MacCrowded(l, e, G)
MacKeeps(l, s, w, G, E) ==
    /\ MacDeque(l, s, G)
    /\ \A i \in 1..Len(s) : s[i].id > 0 => s[i].at <= w
    /\ \A e \in E : MacUnforgotten(l, e, s, w, G)

MacLogs == Seq([at : Nat, says : Text])

(* A later watermark does not replay from earlier.                          *)
LEMMA MacReplayFromMonotone ==
  ASSUME NEW a \in Nat, NEW b \in Nat, a <= b
  PROVE  Mac!ReplayFrom(a) <= Mac!ReplayFrom(b)
<1> PICK S \in Nat \ {0} : S = Second
  OBVIOUS
<1> DEFINE qa == a \div S  qb == b \div S
<1>1. qa \in Nat /\ qb \in Nat /\ a % S \in 0..S - 1 /\ b % S \in 0..S - 1
  OBVIOUS
<1>2. a = S * qa + (a % S) /\ b = S * qb + (b % S)
  OBVIOUS
<1>3. ASSUME NEW p \in Nat, NEW q \in Nat, q < p PROVE S * q + S <= S * p
  <2>1. PICK d \in Nat : p = q + 1 + d
    <3>1. p - q - 1 \in Nat /\ p = q + 1 + (p - q - 1)
      BY <1>3
    <3> QED
      BY <3>1
  <2>2. S * p = S * q + S + S * d
    BY <2>1
  <2>3. S * d \in Nat /\ S * q \in Nat
    OBVIOUS
  <2> QED
    BY <2>2, <2>3
<1> DEFINE fa == S * qa  fb == S * qb
<1>4. qb < qa => fb + S <= fa
  BY <1>1, <1>3
<1>5. qa <= qb => fa <= fb
  BY <1>1, <1>3
<1>6. fa \in Int /\ fb \in Int /\ a % S \in Int /\ b % S \in Int
  BY <1>1
<1>7. a = fa + (a % S) /\ b = fb + (b % S)
  BY <1>2
<1>8. qb < qa \/ qa <= qb
  BY <1>1
<1> HIDE DEF fa, fb, qa, qb
<1>9. fa <= fb
  <2>1. PICK ra \in 0..S - 1, rb \in 0..S - 1 : ra = a % S /\ rb = b % S
    BY <1>1
  <2>2. a = fa + ra /\ b = fb + rb
    BY <1>7, <2>1
  <2> QED
    BY <1>4, <1>5, <1>6, <1>8, <2>2
<1>10. a - (a % S) = fa /\ b - (b % S) = fb
  BY <1>6, <1>7
<1> QED
  BY <1>6, <1>9, <1>10 DEF Mac!ReplayFrom, Mac!Later

\* An entry rivals itself, and rivals those that are not later.
LEMMA MacLaterRivals ==
  ASSUME NEW l \in MacLogs, NEW a \in 1..Len(l), NEW b \in 1..Len(l), l[a].at <= l[b].at
  PROVE  b \in MacRivals(l, a)
<1>1. l[a].at \in Nat /\ l[b].at \in Nat
  BY MacLoggedAt DEF MacLogs
<1>2. Mac!ReplayFrom(l[a].at) \in Nat /\ Mac!ReplayFrom(l[a].at) <= l[a].at
  BY <1>1, MacReplayFromBelow
<1>3. l[b].at >= Mac!ReplayFrom(l[a].at)
  BY <1>1, <1>2
<1> QED
  BY <1>3 DEF MacRivals

\* Rivals are finite in number.
LEMMA MacRivalsFinite ==
  ASSUME NEW l \in MacLogs, NEW e
  PROVE  IsFiniteSet(MacRivals(l, e)) /\ Cardinality(MacRivals(l, e)) \in Nat
<1>1. IsFiniteSet(1..Len(l))
  BY FS_Interval DEF MacLogs
<1>2. MacRivals(l, e) \in SUBSET (1..Len(l))
  BY DEF MacRivals
<1> QED
  BY <1>1, <1>2, FS_Subset, FS_CardinalityType

\* The identities of gaps are no more than the gaps.
LEMMA MacGapsCount ==
  ASSUME NEW G, IsFiniteSet(G)
  PROVE  IsFiniteSet(MacGapIds(G)) /\ Cardinality(MacGapIds(G)) <= Cardinality(G)
         /\ Cardinality(G) \in Nat
<1> DEFINE f == [g \in G |-> Mac!GapId(g[1], g[2])]
<1>1. f \in [G -> MacGapIds(G)]
  BY DEF MacGapIds
<1>2. \A y \in MacGapIds(G) : \E g \in G : f[g] = y
  BY DEF MacGapIds
<1>3. f \in Surjection(G, MacGapIds(G))
  BY <1>1, <1>2 DEF Surjection
<1> QED
  BY <1>3, FS_Surjection, FS_CardinalityType

(* More different identities than places are remembered for, all of them    *)
(* rivals of e or of gaps: e is crowded.                                    *)
LEMMA MacCrowding ==
  ASSUME NEW l \in MacLogs, NEW e \in 1..Len(l), NEW G, IsFiniteSet(G),
         NEW f \in [1..IdentityMax + 1 -> Int],
         \A i, j \in 1..IdentityMax + 1 : i < j => f[i] # f[j],
         \A i \in 1..IdentityMax + 1 : f[i] \in MacRivals(l, e) \cup MacGapIds(G)
  PROVE  MacCrowded(l, e, G)
<1> DEFINE D == 1..IdentityMax + 1  R == MacRivals(l, e)  I == MacGapIds(G)  T == R \cup I
<1>1. IsFiniteSet(D) /\ Cardinality(D) = IdentityMax + 1
  <2>1. IdentityMax + 1 \in Int /\ 1 \in Int /\ ~(1 > IdentityMax + 1)
        /\ IdentityMax + 1 - 1 + 1 = IdentityMax + 1
    OBVIOUS
  <2> QED
    BY <2>1, FS_Interval
<1>2. IsFiniteSet(R) /\ Cardinality(R) \in Nat
  BY MacRivalsFinite
<1>3. IsFiniteSet(I) /\ Cardinality(I) <= Cardinality(G) /\ Cardinality(G) \in Nat
      /\ Cardinality(I) \in Nat
  BY MacGapsCount, FS_CardinalityType
<1>4. f \in Injection(D, T)
  <2>1. f \in [D -> T]
    OBVIOUS
  <2>2. ASSUME NEW i \in D, NEW j \in D, f[i] = f[j] PROVE i = j
    BY <2>2
  <2> HIDE DEF D, T
  <2> QED
    BY <2>1, <2>2 DEF Injection, IsInjective
<1> HIDE DEF R, I, D
<1>5. IsFiniteSet(T) /\ Cardinality(T) = Cardinality(R) + Cardinality(I) - Cardinality(R \cap I)
      /\ Cardinality(R \cap I) \in Nat
  <2>1. IsFiniteSet(R \cap I)
    BY <1>2, FS_Intersection
  <2> QED
    BY <1>2, <1>3, <2>1, FS_Union, FS_CardinalityType
<1> HIDE DEF T
<1>6. Cardinality(D) <= Cardinality(T)
  BY <1>4, <1>5, FS_Injection
<1>7. IdentityMax + 1 <= Cardinality(R) + Cardinality(G)
  BY <1>1, <1>2, <1>3, <1>5, <1>6
<1>8. Cardinality(R) + Cardinality(G) > IdentityMax
  BY <1>2, <1>3, <1>7
<1> QED
  BY <1>8 DEF MacCrowded, R

\* Who is crowded stays so when the log and the gaps get more.
LEMMA MacCrowdedKept ==
  ASSUME NEW l \in MacLogs, NEW k \in MacLogs, NEW e \in 1..Len(l), NEW G, NEW H,
         IsFiniteSet(H), G \subseteq H, Len(l) <= Len(k),
         \A x \in 1..Len(l) : k[x] = l[x], MacCrowded(l, e, G)
  PROVE  MacCrowded(k, e, H)
<1>1. Len(l) \in Nat /\ Len(k) \in Nat
  BY DEF MacLogs
<1>2. \A x \in 1..Len(l) : x \in 1..Len(k)
  BY <1>1
<1>3. MacRivals(l, e) \in SUBSET MacRivals(k, e)
  BY <1>2 DEF MacRivals
<1>4. Cardinality(MacRivals(l, e)) <= Cardinality(MacRivals(k, e))
      /\ Cardinality(MacRivals(l, e)) \in Nat /\ Cardinality(MacRivals(k, e)) \in Nat
  BY <1>3, MacRivalsFinite, FS_Subset
<1>5. Cardinality(G) <= Cardinality(H) /\ Cardinality(G) \in Nat /\ Cardinality(H) \in Nat
  <2>1. G \in SUBSET H
    OBVIOUS
  <2> QED
    BY <2>1, FS_Subset, FS_CardinalityType
<1> QED
  BY <1>4, <1>5 DEF MacCrowded

(* What appending to a bounded deque makes of it.                           *)
LEMMA MacBoundedAt ==
  ASSUME NEW X, NEW s \in Seq(X), NEW x \in X, Len(s) <= IdentityMax
  PROVE  \E d \in {0, 1} :
           /\ Mac!Bounded(s, x) \in Seq(X) /\ Len(Mac!Bounded(s, x)) = Len(s) - d + 1 /\ Len(Mac!Bounded(s, x)) <= IdentityMax
           /\ d <= Len(s) /\ (d = 1 => Len(s) = IdentityMax)
           /\ \A i \in 1..Len(s) - d : Mac!Bounded(s, x)[i] = s[i + d]
           /\ Mac!Bounded(s, x)[Len(s) - d + 1] = x
<1> PICK t : t = Mac!Bounded(s, x)
  OBVIOUS
<1>0. Len(s) \in Nat
  OBVIOUS
<1>1. CASE Len(s) = IdentityMax
  <2>1. s # <<>>
    BY <1>1
  <2>2. PICK r \in Seq(X) : r = Tail(s) /\ Len(r) = Len(s) - 1
        /\ \A i \in 1..Len(s) - 1 : r[i] = s[i + 1]
    BY <2>1, HeadTailProperties
  <2>3. t = Append(r, x)
    BY <1>1, <2>2 DEF Mac!Bounded
  <2>4. t \in Seq(X) /\ Len(t) = Len(r) + 1 /\ t[Len(r) + 1] = x
        /\ \A i \in 1..Len(r) : t[i] = r[i]
    BY <2>3, AppendProperties
  <2>6. Len(t) = Len(s) - 1 + 1 /\ Len(t) <= IdentityMax /\ 1 <= Len(s)
        /\ t[Len(s) - 1 + 1] = x /\ \A i \in 1..Len(s) - 1 : t[i] = s[i + 1]
    BY <1>0, <1>1, <2>2, <2>4
  <2> QED
    BY <1>1, <2>4, <2>6
<1>2. CASE Len(s) # IdentityMax
  <2>3. t = Append(s, x)
    BY <1>2 DEF Mac!Bounded
  <2>4. t \in Seq(X) /\ Len(t) = Len(s) + 1 /\ t[Len(s) + 1] = x
        /\ \A i \in 1..Len(s) : t[i] = s[i]
    BY <2>3, AppendProperties
  <2>6. Len(t) = Len(s) - 0 + 1 /\ Len(t) <= IdentityMax /\ 0 <= Len(s)
        /\ t[Len(s) - 0 + 1] = x /\ \A i \in 1..Len(s) - 0 : t[i] = s[i + 0]
    BY <1>0, <1>2, <2>4
  <2> QED
    BY <1>2, <2>4, <2>6
<1> QED
  BY <1>1, <1>2

(* A full deque, all of it behind a replay from its first entry, gets one   *)
(* more: the first is crowded.                                              *)
LEMMA MacEvictedIsCrowded ==
  ASSUME NEW l \in MacLogs, NEW e \in 1..Len(l), NEW G, IsFiniteSet(G),
         NEW g \in [1..IdentityMax -> Int], NEW z \in Int,
         \A i, j \in 1..IdentityMax : i < j => g[i] # g[j],
         \A i \in 1..IdentityMax : g[i] # z,
         \A i \in 1..IdentityMax : g[i] \in MacRivals(l, e) \cup MacGapIds(G),
         z \in MacRivals(l, e) \cup MacGapIds(G)
  PROVE  MacCrowded(l, e, G)
<1> DEFINE n == IdentityMax + 1  f == [i \in 1..n |-> IF i = n THEN z ELSE g[i]]
<1>1. \A i \in 1..n : i # n => i \in 1..IdentityMax
  OBVIOUS
<1>2. f \in [1..n -> Int]
  BY <1>1
<1>3. \A i \in 1..n : f[i] = IF i = n THEN z ELSE g[i]
  OBVIOUS
<1> HIDE DEF f
<1>4. ASSUME NEW i \in 1..n, NEW j \in 1..n, i < j PROVE f[i] # f[j]
  <2>1. i \in 1..IdentityMax /\ i # n
    BY <1>4
  <2> QED
    BY <1>1, <1>3, <1>4, <2>1
<1>5. \A i \in 1..n : f[i] \in MacRivals(l, e) \cup MacGapIds(G)
  BY <1>1, <1>3
<1> QED
  BY <1>2, <1>4, <1>5, MacCrowding

\* One more identity: what has to make room is crowded.
LEMMA MacBoundedDeque ==
  ASSUME NEW l \in MacLogs, NEW G, IsFiniteSet(G), NEW s \in Seq(MacPlace),
         NEW x \in MacPlace, MacDeque(l, s, G), MacPlaced(l, x, G), x.id \notin MacIds(s),
         \A y \in MacIds(s) : MacFollows(l, y, x.id)
  PROVE  LET t == Mac!Bounded(s, x)
         IN  /\ t \in Seq(MacPlace) /\ MacDeque(l, t, G)
             /\ x.id \in MacIds(t) /\ MacIds(t) \subseteq MacIds(s) \cup {x.id}
             /\ \A e \in MacIds(s) : e > 0 => e \in MacIds(t) \/ MacCrowded(l, e, G)
<1>0. /\ Len(s) <= IdentityMax /\ Len(s) \in Nat
      /\ \A i \in 1..Len(s) : MacPlaced(l, s[i], G) /\ s[i].id \in Int
      /\ \A i, j \in 1..Len(s) : i < j =>
           s[i].id # s[j].id /\ MacFollows(l, s[i].id, s[j].id)
      /\ x.id \in Int
  <2>1. \A i \in 1..Len(s) : s[i] \in MacPlace
    OBVIOUS
  <2>2. \A i \in 1..Len(s) : s[i].id \in Int
    BY <2>1, MacCheckpointFields
  <2>3. x.id \in Int /\ Len(s) \in Nat
    BY MacCheckpointFields
  <2> QED
    BY <2>2, <2>3 DEF MacDeque
<1>1. PICK t : t = Mac!Bounded(s, x)
  OBVIOUS
<1>2. PICK d \in {0, 1} :
        /\ t \in Seq(MacPlace) /\ Len(t) = Len(s) - d + 1 /\ Len(t) <= IdentityMax
        /\ d <= Len(s) /\ (d = 1 => Len(s) = IdentityMax)
        /\ \A i \in 1..Len(s) - d : t[i] = s[i + d]
        /\ t[Len(s) - d + 1] = x
  <2>1. Len(s) <= IdentityMax
    BY <1>0
  <2>2. \E d \in {0, 1} :
          /\ Mac!Bounded(s, x) \in Seq(MacPlace)
          /\ Len(Mac!Bounded(s, x)) = Len(s) - d + 1
          /\ Len(Mac!Bounded(s, x)) <= IdentityMax
          /\ d <= Len(s) /\ (d = 1 => Len(s) = IdentityMax)
          /\ \A i \in 1..Len(s) - d : Mac!Bounded(s, x)[i] = s[i + d]
          /\ Mac!Bounded(s, x)[Len(s) - d + 1] = x
    BY <2>1, MacBoundedAt
  <2> QED
    BY <1>1, <2>2
<1>3. PICK n \in Nat : n = Len(s) - d
  <2>1. Len(s) - d \in Nat
    BY <1>0, <1>2
  <2> QED
    BY <2>1
<1>4. Len(t) = n + 1 /\ t[n + 1] = x /\ \A i \in 1..n : t[i] = s[i + d] /\ i + d \in 1..Len(s)
  BY <1>0, <1>2, <1>3
<1>5. \A i \in 1..Len(t) : i = n + 1 \/ i \in 1..n
  BY <1>4
<1>6. MacDeque(l, t, G)
  <2>1. \A i \in 1..Len(t) : MacPlaced(l, t[i], G)
    BY <1>0, <1>4, <1>5
  <2>2. ASSUME NEW i \in 1..Len(t), NEW j \in 1..Len(t), i < j
        PROVE  t[i].id # t[j].id /\ MacFollows(l, t[i].id, t[j].id)
    <3>1. i \in 1..n
      BY <1>4, <2>2
    <3>2. i + d \in 1..Len(s) /\ t[i] = s[i + d]
      BY <1>4, <3>1
    <3>3. CASE j = n + 1
      <4>1. s[i + d].id \in MacIds(s)
        BY <3>2 DEF MacIds
      <4> QED
        BY <1>4, <3>2, <3>3, <4>1
    <3>4. CASE j \in 1..n
      <4>1. j + d \in 1..Len(s) /\ t[j] = s[j + d] /\ i + d < j + d
        BY <1>4, <2>2, <3>1, <3>4
      <4> QED
        BY <1>0, <3>2, <4>1
    <3> QED
      BY <1>5, <3>3, <3>4
  <2> QED
    BY <1>2, <2>1, <2>2 DEF MacDeque
<1>7. x.id \in MacIds(t)
  <2>1. n + 1 \in 1..Len(t)
    BY <1>4
  <2> QED
    BY <1>4, <2>1 DEF MacIds
<1>8. MacIds(t) \subseteq MacIds(s) \cup {x.id}
  BY <1>4, <1>5 DEF MacIds
<1>9. ASSUME NEW e \in MacIds(s), e > 0 PROVE e \in MacIds(t) \/ MacCrowded(l, e, G)
  <2>1. PICK k \in 1..Len(s) : e = s[k].id
    BY DEF MacIds
  <2>2. CASE k > d
    <3>1. k - d \in 1..n /\ k - d + d = k /\ k - d \in 1..Len(t)
      BY <1>0, <1>3, <1>4, <2>2
    <3>2. t[k - d] = s[k]
      BY <1>4, <3>1
    <3> QED
      BY <2>1, <3>1, <3>2 DEF MacIds
  <2>3. CASE k <= d
    <3>1. k = 1 /\ d = 1 /\ Len(s) = IdentityMax
      BY <1>2, <2>3
    <3>2. e \in 1..Len(l)
      BY <1>0, <1>9, <2>1 DEF MacPlaced
    <3>3. e \in MacRivals(l, e)
      <4>1. l[e].at \in Nat
        BY <3>2, MacLoggedAt DEF MacLogs
      <4> QED
        BY <3>2, <4>1, MacLaterRivals
    <3> DEFINE g == [i \in 1..IdentityMax |-> s[i].id]
    <3>4. g \in [1..IdentityMax -> Int] /\ \A i \in 1..IdentityMax : g[i] = s[i].id
      BY <1>0, <3>1
    <3> HIDE DEF g
    <3>5. \A i, j \in 1..IdentityMax : i < j => g[i] # g[j]
      BY <1>0, <3>1, <3>4
    <3>6. \A i \in 1..IdentityMax : g[i] # x.id
      BY <3>1, <3>4 DEF MacIds
    <3>7. ASSUME NEW i \in 1..IdentityMax PROVE g[i] \in MacRivals(l, e) \cup MacGapIds(G)
      <4>1. g[i] = s[i].id /\ i \in 1..Len(s) /\ MacPlaced(l, s[i], G) /\ s[i].id \in Int
        BY <1>0, <3>1, <3>4
      <4>2. CASE i = 1
        BY <2>1, <3>1, <3>3, <4>1, <4>2
      <4>3. CASE i # 1
        <5>1. k < i
          BY <3>1, <4>3
        <5>2. MacFollows(l, e, s[i].id)
          BY <1>0, <2>1, <4>1, <5>1
        <5> QED
          BY <1>9, <4>1, <5>2 DEF MacFollows, MacPlaced
      <4> QED
        BY <4>2, <4>3
    <3>8. x.id \in MacRivals(l, e) \cup MacGapIds(G)
      BY <1>0, <1>9 DEF MacFollows, MacPlaced
    <3> QED
      BY <1>0, <3>2, <3>4, <3>5, <3>6, <3>7, <3>8, MacEvictedIsCrowded
  <2> QED
    BY <1>2, <2>2, <2>3
<1> QED
  BY <1>1, <1>2, <1>6, <1>7, <1>8, <1>9

\* What remembers enough does so of a longer log and with more gaps.
LEMMA MacKeepsGrows ==
  ASSUME NEW l \in MacLogs, NEW k \in MacLogs, NEW G, NEW H, IsFiniteSet(H), G \subseteq H,
         Len(l) <= Len(k), \A x \in 1..Len(l) : k[x] = l[x],
         NEW s \in Seq(MacPlace), NEW w, NEW E \in SUBSET (1..Len(l)), MacKeeps(l, s, w, G, E)
  PROVE  MacKeeps(k, s, w, H, E)
<1>0. Len(l) \in Nat /\ Len(k) \in Nat
  BY DEF MacLogs
<1>1. \A x \in 1..Len(l) : x \in 1..Len(k)
  BY <1>0
<1>2. \A p : MacPlaced(l, p, G) => MacPlaced(k, p, H)
  BY <1>1 DEF MacPlaced, MacGapIds
<1>3. \A a \in 1..Len(l) : \A b \in MacRivals(l, a) : b \in MacRivals(k, a)
  BY <1>1 DEF MacRivals
<1>4. MacDeque(k, s, H)
  <2>1. \A i \in 1..Len(s) : MacPlaced(k, s[i], H)
    BY <1>2 DEF MacKeeps, MacDeque
  <2>2. ASSUME NEW i \in 1..Len(s), NEW j \in 1..Len(s), i < j
        PROVE  s[i].id # s[j].id /\ MacFollows(k, s[i].id, s[j].id)
    <3>1. s[i].id # s[j].id /\ MacFollows(l, s[i].id, s[j].id) /\ MacPlaced(l, s[i], G)
      BY <2>2 DEF MacKeeps, MacDeque
    <3>2. s[i].id > 0 => s[i].id \in 1..Len(l)
      BY <3>1 DEF MacPlaced
    <3> QED
      BY <1>3, <3>1, <3>2 DEF MacFollows
  <2> QED
    BY <2>1, <2>2 DEF MacKeeps, MacDeque
<1>5. ASSUME NEW e \in E PROVE MacUnforgotten(k, e, s, w, H)
  <2>1. e \in 1..Len(l) /\ k[e] = l[e] /\ MacUnforgotten(l, e, s, w, G)
    BY DEF MacKeeps
  <2>2. MacCrowded(l, e, G) => MacCrowded(k, e, H)
    BY <2>1, MacCrowdedKept
  <2> QED
    BY <2>1, <2>2 DEF MacUnforgotten
<1> QED
  BY <1>4, <1>5 DEF MacKeeps

\* What is remembered, one sequence number after the other.
LEMMA MacRememberedSteps ==
  ASSUME NEW c \in Seq(MacPlace), NEW rs \in SUBSET MacCandidate
  PROVE  \E f \in [0..Mac!LastSeq -> Seq(MacPlace)] :
           /\ f[0] = c /\ f[Mac!LastSeq] = Mac!Remembered(c, rs)
           /\ \A k \in 1..Mac!LastSeq :
                f[k] = Mac!Remember(f[k - 1], {r \in rs : r.seq = k})
<1> DEFINE n == Mac!LastSeq
           D == Seq(MacPlace)
           R == SUBSET rs
           numbered == [k \in 1..n |-> {r \in rs : r.seq = k}]
           Eq(f) == f = [k \in 0..n |-> IF k = 0 THEN c
               ELSE Mac!Remember(f[k - 1], numbered[k])]
           upto == CHOOSE f : Eq(f)
<1>1. n \in Nat /\ numbered \in [1..n -> R]
  BY DEF Mac!LastSeq
<1>2. c \in D
  OBVIOUS
<1>3. Mac!Remembered(c, rs) = upto[n]
  BY DEF Mac!Remembered
<1>4. ASSUME NEW s \in D, NEW q \in R PROVE Mac!Remember(s, q) \in D
  <2>1. s \in Seq(MacPlace) /\ q \in SUBSET MacCandidate
    OBVIOUS
  <2> QED
    BY <2>1, MacRememberHolds
<1> DEFINE G == [p \in D \X R |-> Mac!Remember(p[1], p[2])]
<1>a. \A k \in 1..n : numbered[k] = {r \in rs : r.seq = k}
  OBVIOUS
<1> HIDE DEF n, D, R, numbered
<1>5. G \in [D \X R -> D]
  BY <1>4
<1>6. \E f \in [0..n -> D] : Takes(f, c, n, numbered, G)
  <2> HIDE DEF G
  <2> QED
    BY <1>1, <1>2, <1>5, StepsExist
<1>7. PICK f \in [0..n -> D] : Takes(f, c, n, numbered, G)
  BY <1>6
<1>8. ASSUME NEW k \in 0..n, k # 0
      PROVE  G[<<f[k - 1], numbered[k]>>] = Mac!Remember(f[k - 1], numbered[k])
  <2>1. k - 1 \in 0..n /\ k \in 1..n
    BY <1>1, <1>8
  <2>2. f[k - 1] \in D /\ numbered[k] \in R
    BY <1>1, <1>7, <2>1
  <2> QED
    BY <2>2
<1>9. Eq(f)
  BY <1>7, <1>8 DEF Takes
<1>10. Eq(upto)
  BY <1>9
<1> HIDE DEF upto, G
<1>11. upto[0] = c
  BY <1>1, <1>10
<1>12. \A k \in 1..n : upto[k] = Mac!Remember(upto[k - 1], numbered[k])
  <2>1. \A k \in 1..n : k \in 0..n /\ k # 0
    BY <1>1
  <2> QED
    BY <1>10, <2>1
<1>13. \A k \in 0..n : upto[k] \in D
  <2> DEFINE P == {k \in 0..n : upto[k] \in D}
  <2>1. 0 \in P
    BY <1>1, <1>2, <1>11
  <2>2. ASSUME NEW k \in 1..n, k - 1 \in P PROVE k \in P
    <3>1. k \in 0..n /\ numbered[k] \in R /\ upto[k - 1] \in D
      BY <1>1, <2>2
    <3> QED
      BY <1>4, <1>12, <3>1
  <2>3. P = 0..n
    <3> HIDE DEF P
    <3>1. P \in SUBSET (0..n)
      BY DEF P
    <3> QED
      BY <1>1, <2>1, <2>2, <3>1, UpTo
  <2> QED
    BY <2>3
<1>14. upto \in [0..n -> D]
  BY <1>10, <1>13
<1>15. upto[n] = Mac!Remembered(c, rs)
  BY <1>3
<1>16. \A k \in 1..n : upto[k] = Mac!Remember(upto[k - 1], {r \in rs : r.seq = k})
  BY <1>a, <1>12
<1> QED
  BY <1>11, <1>14, <1>15, <1>16 DEF n, D

\* The candidates rs may be remembered after c.
MacCandidacy(l, c, rs, G) ==
    /\ \A r \in rs :
         /\ r.seq \in 1..Mac!LastSeq /\ MacPlaced(l, MacAsPlace(r), G)
         /\ r.id \notin MacIds(c) /\ \A y \in MacIds(c) : MacFollows(l, y, r.id)
    /\ \A r, q \in rs : r.seq = q.seq => r = q
    /\ \A r, q \in rs : r.seq < q.seq => r.id # q.id /\ MacFollows(l, r.id, q.id)

\* What s remembers of c and of the candidates up to number k.
MacSoFar(l, s, c, rs, k, G) ==
    /\ MacDeque(l, s, G)
    /\ \A y \in MacIds(s) : y \in MacIds(c) \/ \E r \in rs : r.seq <= k /\ y = r.id
    /\ \A e \in MacIds(c) : e > 0 => e \in MacIds(s) \/ MacCrowded(l, e, G)
    /\ \A r \in rs : r.seq <= k /\ r.id > 0 => r.id \in MacIds(s) \/ MacCrowded(l, r.id, G)

\* The candidates of one sequence number are remembered: what the deque says of
\* those before k it then says of those up to k.
LEMMA MacRememberOne ==
  ASSUME NEW l \in MacLogs, NEW G, IsFiniteSet(G), NEW c \in Seq(MacPlace),
         NEW rs \in SUBSET MacCandidate, MacCandidacy(l, c, rs, G),
         NEW k \in 1..Mac!LastSeq, NEW s \in Seq(MacPlace), MacSoFar(l, s, c, rs, k - 1, G)
  PROVE  MacSoFar(l, Mac!Remember(s, {r \in rs : r.seq = k}), c, rs, k, G)
<1> DEFINE R == {r \in rs : r.seq = k}
<1>0. k \in Int /\ \A r \in rs : r.seq \in Int /\ r.id \in Int
  BY DEF MacCandidate, Mac!LastSeq
<1>1. CASE R = {}
  <2>1. Mac!Remember(s, R) = s
    BY <1>1 DEF Mac!Remember
  <2>2. \A r \in rs : r.seq <= k <=> r.seq <= k - 1
    BY <1>0, <1>1
  <2> HIDE DEF R
  <2> QED
    BY <2>1, <2>2 DEF MacSoFar, R
<1>2. CASE R # {}
  <2> DEFINE q == CHOOSE r \in R : TRUE
  <2>1. q \in R
    BY <1>2
  <2>2. PICK x : x = MacAsPlace(q)
    OBVIOUS
  <2>3. x \in MacPlace /\ x.id = q.id
    BY <2>1, <2>2 DEF MacCandidate, MacAsPlace, MacPlace
  <2>4. Mac!Remember(s, R) = Mac!Bounded(s, x)
    BY <1>2, <2>2 DEF Mac!Remember, MacAsPlace
  <2>5. q \in rs /\ q.seq = k
    BY <2>1
  <2> HIDE DEF q, R
  <2>6. \A r \in rs : r.seq <= k => r = q \/ r.seq <= k - 1
    BY <1>0, <2>5 DEF MacCandidacy
  <2>7. MacPlaced(l, x, G)
    BY <2>2, <2>5 DEF MacCandidacy
  <2>8. ASSUME NEW y \in MacIds(s) PROVE y # x.id /\ MacFollows(l, y, x.id)
    <3>1. CASE y \in MacIds(c)
      BY <2>3, <2>5, <3>1 DEF MacCandidacy
    <3>2. CASE \E r \in rs : r.seq <= k - 1 /\ y = r.id
      <4>1. PICK r \in rs : r.seq <= k - 1 /\ y = r.id
        BY <3>2
      <4>2. r.seq < q.seq
        BY <1>0, <2>5, <4>1
      <4> QED
        BY <2>3, <2>5, <4>1, <4>2 DEF MacCandidacy
    <3> QED
      BY <3>1, <3>2 DEF MacSoFar
  <2>9. PICK t : t = Mac!Bounded(s, x)
    OBVIOUS
  <2>10. /\ t \in Seq(MacPlace) /\ MacDeque(l, t, G)
         /\ x.id \in MacIds(t) /\ MacIds(t) \subseteq MacIds(s) \cup {x.id}
         /\ \A e \in MacIds(s) : e > 0 => e \in MacIds(t) \/ MacCrowded(l, e, G)
    BY <2>3, <2>7, <2>8, <2>9, MacBoundedDeque DEF MacSoFar
  <2>11. \A y \in MacIds(t) : y \in MacIds(c) \/ \E r \in rs : r.seq <= k /\ y = r.id
    <3>1. \A r \in rs : r.seq <= k - 1 => r.seq <= k
      BY <1>0
    <3> QED
      BY <1>0, <2>3, <2>5, <2>10, <3>1 DEF MacSoFar
  <2>12. \A e \in MacIds(c) : e > 0 => e \in MacIds(t) \/ MacCrowded(l, e, G)
    BY <2>10 DEF MacSoFar
  <2>13. \A r \in rs : r.seq <= k /\ r.id > 0 => r.id \in MacIds(t) \/ MacCrowded(l, r.id, G)
    BY <2>3, <2>6, <2>10 DEF MacSoFar
  <2>14. MacSoFar(l, t, c, rs, k, G)
    BY <2>10, <2>11, <2>12, <2>13 DEF MacSoFar
  <2> QED
    BY <2>4, <2>9, <2>14 DEF R
<1> QED
  BY <1>1, <1>2

(* What a drain remembers is a deque again, and what it forgets is crowded. *)
LEMMA MacRememberedDeque ==
  ASSUME NEW l \in MacLogs, NEW G, IsFiniteSet(G), NEW c \in Seq(MacPlace),
         NEW rs \in SUBSET MacCandidate, MacCandidacy(l, c, rs, G), MacDeque(l, c, G)
  PROVE  MacSoFar(l, Mac!Remembered(c, rs), c, rs, Mac!LastSeq, G)
<1> DEFINE n == Mac!LastSeq
<1>1. PICK f \in [0..n -> Seq(MacPlace)] :
        /\ f[0] = c /\ f[n] = Mac!Remembered(c, rs)
        /\ \A k \in 1..n : f[k] = Mac!Remember(f[k - 1], {r \in rs : r.seq = k})
  BY MacRememberedSteps
<1>0. n \in Nat
  BY DEF Mac!LastSeq
<1> HIDE DEF n
<1> DEFINE P == {k \in 0..n : MacSoFar(l, f[k], c, rs, k, G)}
<1>2. 0 \in P
  <2>1. \A r \in rs : ~(r.seq <= 0)
    BY DEF MacCandidacy
  <2>2. MacSoFar(l, c, c, rs, 0, G)
    BY <2>1 DEF MacSoFar
  <2>3. 0 \in 0..n
    BY <1>0
  <2> QED
    BY <1>1, <2>2, <2>3
<1>3. ASSUME NEW k \in 1..n, k - 1 \in P PROVE k \in P
  <2>1. k - 1 \in 0..n /\ k \in 0..n /\ f[k - 1] \in Seq(MacPlace)
        /\ MacSoFar(l, f[k - 1], c, rs, k - 1, G)
    BY <1>0, <1>3
  <2>2. MacSoFar(l, Mac!Remember(f[k - 1], {r \in rs : r.seq = k}), c, rs, k, G)
    BY <2>1, MacRememberOne DEF n
  <2> QED
    BY <1>1, <2>1, <2>2
<1>4. P = 0..n
  <2> HIDE DEF P
  <2>1. P \in SUBSET (0..n)
    BY DEF P
  <2> QED
    BY <1>0, <1>2, <1>3, <2>1, UpTo
<1>5. MacSoFar(l, f[n], c, rs, n, G)
  <2>1. n \in 0..n
    BY <1>0
  <2> QED
    BY <1>4, <2>1
<1> QED
  BY <1>1, <1>5 DEF n

\* What is kept of a deque, one place after the other.
MacKeptBy(f, s, S) ==
    /\ f[0] = <<>> /\ f[Len(s)] = Mac!Kept(s, S)
    /\ \A k \in 1..Len(s) :
         f[k] = IF s[k] \in S THEN Append(f[k - 1], s[k]) ELSE f[k - 1]

\* Kept, step by step: a prefix at a time.
LEMMA MacKeptSteps ==
  ASSUME NEW X, NEW s \in Seq(X), NEW S
  PROVE  \E f \in [0..Len(s) -> Seq(X)] : MacKeptBy(f, s, S)
<1> DEFINE n == Len(s)
           D == Seq(X)
           Eq(f) == f = [i \in 0..n |-> IF i = 0 THEN <<>> ELSE IF s[i] \in S
               THEN Append(f[i - 1], s[i]) ELSE f[i - 1]]
           upto == CHOOSE f : Eq(f)
<1>1. n \in Nat /\ s \in [1..n -> X]
  OBVIOUS
<1>2. <<>> \in D
  OBVIOUS
<1>3. Mac!Kept(s, S) = upto[n]
  BY DEF Mac!Kept
<1> DEFINE G == [p \in D \X X |-> IF p[2] \in S THEN Append(p[1], p[2]) ELSE p[1]]
<1>4. G \in [D \X X -> D]
  OBVIOUS
<1>5. \E f \in [0..n -> D] : Takes(f, <<>>, n, s, G)
  <2> HIDE DEF G, n, D
  <2> QED
    BY <1>1, <1>2, <1>4, StepsExist
<1>6. PICK f \in [0..n -> D] : Takes(f, <<>>, n, s, G)
  BY <1>5
<1>7. ASSUME NEW i \in 0..n, i # 0
      PROVE  G[<<f[i - 1], s[i]>>] = IF s[i] \in S THEN Append(f[i - 1], s[i])
             ELSE f[i - 1]
  <2>1. i - 1 \in 0..n /\ i \in 1..n
    BY <1>1, <1>7
  <2>2. f[i - 1] \in D /\ s[i] \in X
    BY <1>1, <1>6, <2>1
  <2> HIDE DEF D
  <2> QED
    BY <2>2
<1>8. Eq(f)
  BY <1>6, <1>7 DEF Takes
<1>9. Eq(upto)
  BY <1>8
<1> HIDE DEF upto, n, G
<1>10. upto[0] = <<>>
  BY <1>1, <1>9
<1>11. \A k \in 1..n :
         upto[k] = IF s[k] \in S THEN Append(upto[k - 1], s[k]) ELSE upto[k - 1]
  <2>1. \A k \in 1..n : k \in 0..n /\ k # 0
    BY <1>1
  <2> QED
    BY <1>9, <2>1
<1>12. \A i \in 0..n : upto[i] \in D
  <2> DEFINE P == {i \in 0..n : upto[i] \in D}
  <2>1. 0 \in P
    <3>1. 0 \in 0..n
      BY <1>1
    <3> QED
      BY <1>2, <1>10, <3>1
  <2>2. ASSUME NEW i \in 1..n, i - 1 \in P PROVE i \in P
    <3>1. i \in 0..n /\ s[i] \in X /\ upto[i - 1] \in D
      BY <1>1, <2>2
    <3>2. Append(upto[i - 1], s[i]) \in D
      BY <3>1
    <3> QED
      BY <1>11, <3>1, <3>2
  <2>3. P = 0..n
    <3> HIDE DEF P
    <3>1. P \in SUBSET (0..n)
      BY DEF P
    <3> QED
      BY <1>1, <2>1, <2>2, <3>1, UpTo
  <2> QED
    BY <2>3
<1>13. upto \in [0..n -> D]
  BY <1>9, <1>12
<1>14. upto[n] = Mac!Kept(s, S)
  BY <1>3
<1> HIDE DEF D
<1> QED
  BY <1>10, <1>11, <1>13, <1>14 DEF n, D, MacKeptBy

\* t has what the first k places of s have of S, in their order.
MacPicking(f, t, s, S, k) ==
    /\ \A i \in 1..Len(t) : t[i] = s[f[i]] /\ s[f[i]] \in S
    /\ \A i, j \in 1..Len(t) : i < j => f[i] < f[j]
    /\ \A h \in 1..k : s[h] \in S => \E i \in 1..Len(t) : f[i] = h
MacPicks(t, s, S, k) ==
    Len(t) <= k /\ \E f \in [1..Len(t) -> 1..k] : MacPicking(f, t, s, S, k)

\* One more element of s: picked when it is in S.
LEMMA MacKeptOne ==
  ASSUME NEW X, NEW s \in Seq(X), NEW S, NEW k \in 1..Len(s), NEW t \in Seq(X),
         MacPicks(t, s, S, k - 1)
  PROVE  MacPicks(IF s[k] \in S THEN Append(t, s[k]) ELSE t, s, S, k)
<1>0. Len(t) \in Nat /\ k \in Nat /\ k - 1 \in Nat /\ Len(t) <= k - 1
      /\ \A h \in 1..k : h = k \/ h \in 1..k - 1
  BY DEF MacPicks
<1>1. PICK f \in [1..Len(t) -> 1..k - 1] :
         /\ \A i \in 1..Len(t) : t[i] = s[f[i]] /\ s[f[i]] \in S
         /\ \A i, j \in 1..Len(t) : i < j => f[i] < f[j]
         /\ \A h \in 1..k - 1 : s[h] \in S => \E i \in 1..Len(t) : f[i] = h
  BY DEF MacPicks, MacPicking
<1>2. CASE s[k] \notin S
  <2>1. f \in [1..Len(t) -> 1..k]
    BY <1>0
  <2>2. Len(t) <= k
    BY <1>0
  <2>3. \A h \in 1..k : s[h] \in S => \E i \in 1..Len(t) : f[i] = h
    BY <1>0, <1>1, <1>2
  <2>4. MacPicking(f, t, s, S, k)
    BY <1>1, <2>3 DEF MacPicking
  <2>5. MacPicks(t, s, S, k)
    BY <2>1, <2>2, <2>4 DEF MacPicks
  <2> QED
    BY <1>2, <2>5
<1>3. CASE s[k] \in S
  <2>1. PICK n \in Nat : n = Len(t)
    BY <1>0
  <2>2. PICK u : u = Append(t, s[k])
    OBVIOUS
  <2>3. Len(u) = n + 1 /\ u[n + 1] = s[k] /\ \A i \in 1..n : u[i] = t[i]
    BY <2>1, <2>2, AppendProperties
  <2> DEFINE g == [i \in 1..n + 1 |-> IF i = n + 1 THEN k ELSE f[i]]
  <2>4. \A i \in 1..n + 1 : i = n + 1 \/ i \in 1..n
    OBVIOUS
  <2>5. \A i \in 1..n : f[i] \in 1..k - 1 /\ f[i] < k
    BY <1>0, <2>1
  <2>6. g \in [1..n + 1 -> 1..k]
    BY <1>0, <2>4, <2>5
  <2>7. g[n + 1] = k /\ \A i \in 1..n : g[i] = f[i] /\ i \in 1..n + 1
    OBVIOUS
  <2> HIDE DEF g
  <2>8. \A i \in 1..n + 1 : u[i] = s[g[i]] /\ s[g[i]] \in S
    BY <1>1, <1>3, <2>1, <2>3, <2>4, <2>7
  <2>9. ASSUME NEW i \in 1..n + 1, NEW j \in 1..n + 1, i < j PROVE g[i] < g[j]
    <3>1. i \in 1..n
      BY <2>9
    <3> QED
      BY <1>1, <2>1, <2>4, <2>5, <2>7, <2>9, <3>1
  <2>10. ASSUME NEW h \in 1..k, s[h] \in S PROVE \E i \in 1..n + 1 : g[i] = h
    <3>1. CASE h = k
      BY <2>7, <3>1
    <3>2. CASE h \in 1..k - 1
      <4>1. PICK i \in 1..n : f[i] = h
        BY <1>1, <2>1, <2>10, <3>2
      <4> QED
        BY <2>7, <4>1
    <3> QED
      BY <1>0, <3>1, <3>2
  <2>11. n + 1 <= k
    BY <1>0, <2>1
  <2>12. MacPicks(u, s, S, k)
    <3>1. MacPicking(g, u, s, S, k)
      BY <2>3, <2>8, <2>9, <2>10 DEF MacPicking
    <3> QED
      BY <2>3, <2>6, <2>11, <3>1 DEF MacPicks
  <2> QED
    BY <1>3, <2>2, <2>12
<1> QED
  BY <1>2, <1>3

(* What is kept of a deque is in its order, and no more than it had.        *)
LEMMA MacKeptPicks ==
  ASSUME NEW X, NEW s \in Seq(X), NEW S
  PROVE  Mac!Kept(s, S) \in Seq(X) /\ MacPicks(Mac!Kept(s, S), s, S, Len(s))
<1> DEFINE n == Len(s)
<1>1. PICK f \in [0..n -> Seq(X)] :
        /\ f[0] = <<>> /\ f[n] = Mac!Kept(s, S)
        /\ \A k \in 1..n : f[k] = IF s[k] \in S THEN Append(f[k - 1], s[k]) ELSE f[k - 1]
  <2>1. PICK f \in [0..Len(s) -> Seq(X)] : MacKeptBy(f, s, S)
    BY MacKeptSteps
  <2> QED
    BY <2>1 DEF MacKeptBy
<1>0. n \in Nat
  OBVIOUS
<1> HIDE DEF n
<1> DEFINE P == {k \in 0..n : MacPicks(f[k], s, S, k)}
<1>2. 0 \in P
  <2>1. MacPicks(<<>>, s, S, 0)
    <3>1. PICK g : g = [i \in 1..0 |-> 0]
      OBVIOUS
    <3>2. PICK t : t = <<>>
      OBVIOUS
    <3>3. Len(t) = 0 /\ 1..0 = {}
      BY <3>2
    <3>4. g \in [1..Len(t) -> 1..0]
      BY <3>1, <3>3
    <3>5. MacPicking(g, t, s, S, 0)
      BY <3>3 DEF MacPicking
    <3>6. MacPicks(t, s, S, 0)
      <4>1. Len(t) <= 0
        BY <3>3
      <4>2. \E h \in [1..Len(t) -> 1..0] : MacPicking(h, t, s, S, 0)
        BY <3>4, <3>5, Zenon
      <4> QED
        BY <4>1, <4>2, Zenon DEF MacPicks
    <3> QED
      BY <3>2, <3>6
  <2> QED
    BY <1>0, <1>1, <2>1
<1>3. ASSUME NEW k \in 1..n, k - 1 \in P PROVE k \in P
  <2>1. k - 1 \in 0..n /\ k \in 0..n /\ f[k - 1] \in Seq(X) /\ MacPicks(f[k - 1], s, S, k - 1)
    BY <1>0, <1>3
  <2>2. MacPicks(IF s[k] \in S THEN Append(f[k - 1], s[k]) ELSE f[k - 1], s, S, k)
    BY <2>1, MacKeptOne DEF n
  <2> QED
    BY <1>1, <2>1, <2>2
<1>4. P = 0..n
  <2> HIDE DEF P
  <2>1. P \in SUBSET (0..n)
    BY DEF P
  <2> QED
    BY <1>0, <1>2, <1>3, <2>1, UpTo
<1>5. n \in 0..n
  BY <1>0
<1> QED
  BY <1>1, <1>4, <1>5 DEF n

\* What is kept of a checkpoint's deque is a deque.
LEMMA MacKeptDeque ==
  ASSUME NEW l \in MacLogs, NEW G, NEW s \in Seq(MacPlace), NEW S, MacDeque(l, s, G)
  PROVE  LET t == Mac!Kept(s, S)
         IN  /\ t \in Seq(MacPlace) /\ MacDeque(l, t, G)
             /\ \A i \in 1..Len(s) : s[i] \in S => s[i].id \in MacIds(t)
             /\ \A i \in 1..Len(t) : \E k \in 1..Len(s) : t[i] = s[k] /\ s[k] \in S
<1>1. PICK t : t = Mac!Kept(s, S)
  OBVIOUS
<1>2. t \in Seq(MacPlace) /\ MacPicks(t, s, S, Len(s))
  BY <1>1, MacKeptPicks
<1>3. PICK f \in [1..Len(t) -> 1..Len(s)] : MacPicking(f, t, s, S, Len(s))
  BY <1>2, Zenon DEF MacPicks
<1>4. /\ \A i \in 1..Len(t) : f[i] \in 1..Len(s) /\ t[i] = s[f[i]] /\ s[f[i]] \in S
      /\ \A i, j \in 1..Len(t) : i < j => f[i] < f[j]
      /\ \A h \in 1..Len(s) : s[h] \in S => \E i \in 1..Len(t) : f[i] = h
  BY <1>3 DEF MacPicking
<1>5. Len(t) <= IdentityMax
  <2>1. Len(t) <= Len(s) /\ Len(s) <= IdentityMax
    BY <1>2 DEF MacPicks, MacDeque
  <2>2. Len(t) \in Nat /\ Len(s) \in Nat
    BY <1>2
  <2> QED
    BY <2>1, <2>2
<1>6. \A i \in 1..Len(t) : MacPlaced(l, t[i], G)
  BY <1>4 DEF MacDeque
<1>7. ASSUME NEW i \in 1..Len(t), NEW j \in 1..Len(t), i < j
      PROVE  t[i].id # t[j].id /\ MacFollows(l, t[i].id, t[j].id)
  <2>1. f[i] \in 1..Len(s) /\ f[j] \in 1..Len(s) /\ f[i] < f[j]
    BY <1>4, <1>7
  <2>2. s[f[i]].id # s[f[j]].id /\ MacFollows(l, s[f[i]].id, s[f[j]].id)
    BY <2>1 DEF MacDeque
  <2> QED
    BY <1>4, <2>2
<1>8. MacDeque(l, t, G)
  BY <1>5, <1>6, <1>7 DEF MacDeque
<1>9. ASSUME NEW i \in 1..Len(s), s[i] \in S PROVE s[i].id \in MacIds(t)
  <2>1. PICK k \in 1..Len(t) : f[k] = i
    BY <1>4, <1>9
  <2>2. t[k] = s[i]
    BY <1>4, <2>1
  <2> QED
    BY <2>2 DEF MacIds
<1>10. \A i \in 1..Len(t) : \E k \in 1..Len(s) : t[i] = s[k] /\ s[k] \in S
  BY <1>4
<1> QED
  BY <1>1, <1>2, <1>8, <1>9, <1>10

\* A checkpoint that is encoded still remembers enough.
LEMMA MacEncodedKeeps ==
  ASSUME NEW l \in MacLogs, NEW G, NEW s \in Seq(MacPlace), NEW w \in Nat,
         NEW E \in SUBSET (1..Len(l)), MacKeeps(l, s, w, G, E)
  PROVE  /\ Mac!Encoded(w, s).ids \in Seq(MacPlace) /\ Mac!Encoded(w, s).wm = w
         /\ MacKeeps(l, Mac!Encoded(w, s).ids, w, G, E)
<1>1. PICK S : S = {c \in Mac!Elements(s) : c.at >= w - Overlap}
  OBVIOUS
<1>2. PICK t : t = Mac!Kept(s, S)
  OBVIOUS
<1>3. Mac!Encoded(w, s).ids = t /\ Mac!Encoded(w, s).wm = w
  BY <1>1, <1>2 DEF Mac!Encoded
<1>4. MacDeque(l, s, G)
  BY DEF MacKeeps
<1>5. /\ t \in Seq(MacPlace) /\ MacDeque(l, t, G)
      /\ \A i \in 1..Len(s) : s[i] \in S => s[i].id \in MacIds(t)
      /\ \A i \in 1..Len(t) : \E k \in 1..Len(s) : t[i] = s[k] /\ s[k] \in S
  BY <1>2, <1>4, MacKeptDeque
<1>6. \A i \in 1..Len(t) : t[i].id > 0 => t[i].at <= w
  BY <1>5 DEF MacKeeps
<1>7. ASSUME NEW e \in E PROVE MacUnforgotten(l, e, t, w, G)
  <2>1. MacUnforgotten(l, e, s, w, G)
    BY DEF MacKeeps
  <2>2. ASSUME e \in MacIds(s), ~(l[e].at < w - Overlap) PROVE e \in MacIds(t)
    <3>1. PICK i \in 1..Len(s) : e = s[i].id
      BY <2>2 DEF MacIds
    <3>2. e \in Nat /\ e > 0
      OBVIOUS
    <3>3. s[i].at = l[e].at
      BY <1>4, <3>1, <3>2 DEF MacDeque, MacPlaced
    <3>4. s[i].at \in Nat /\ s[i] \in Mac!Elements(s)
      <4>1. s[i] \in MacPlace
        OBVIOUS
      <4> QED
        BY <4>1 DEF MacPlace, Mac!Elements
    <3>5. s[i].at >= w - Overlap
      BY <2>2, <3>3, <3>4
    <3> QED
      BY <1>1, <1>5, <3>1, <3>4, <3>5
  <2> QED
    BY <2>1, <2>2 DEF MacUnforgotten
<1>8. MacKeeps(l, t, w, G, E)
  BY <1>5, <1>6, <1>7 DEF MacKeeps
<1> QED
  BY <1>3, <1>5, <1>8

-----------------------------------------------------------------------------
\* What is stored, what was drained: the batch as well.  A report
\* that a locked commit dropped is remembered like one that is stored.
MacStoredSet  == {e \in Mac!Entry : macDb.of[e] > 0}
MacDrainedSet == MacStoredSet \cup macTick.batch.of
MacReported   == macDb.gaps \cup macLost.untold
MacGaps       == MacReported \cup macTick.batch.gaps

\* The checkpoints remember enough.
MacMemory ==
    /\ IsFiniteSet(MacReported) /\ IsFiniteSet(macTick.batch.gaps)
    /\ MacDrainedSet \subseteq MacInLog
    /\ MacKeeps(macLog, macDb.cursor.ids, macDb.cursor.wm, MacReported, MacStoredSet)
    /\ MacKeeps(macLog, macTick.last.ids, macTick.last.wm, MacGaps, MacDrainedSet)
    /\ MacKeeps(macLog, macSource.committed, macSource.watermark, MacGaps, MacDrainedSet)

\* The reader is past what was drained, or replays what is remembered.
MacReplays(e) ==
    /\ macLog[e].at >= Mac!ReplayFrom(macReader.wm)
    /\ e \in MacDrainedSet =>
         MacUnforgotten(macLog, e, macSource.committed, macReader.wm, MacReported)
MacReads ==
    /\ macTick.batch.of \subseteq 1..macReader.read
    /\ macReader.wm <= macSource.watermark
    /\ \A c \in MacIds(macSource.committed) : c > 0 =>
         \/ c <= macReader.read
         \/ macReader.stage # "stream" /\ macLog[c].at <= macReader.wm
    /\ macReader.stage = "show" =>
         /\ macTick.batch.gaps = {}
         /\ \A i \in 1..Len(macSource.queue) : macSource.queue[i].gap = <<>>
         /\ \A e \in MacInLog : e > macReader.read => MacReplays(e)
    /\ macReader.stage = "stream" => MacDrainedSet \subseteq 1..macReader.read

\* An entry of the queue: pending, and stored before only if old or crowded.
MacWaiting(x) ==
    /\ x \notin macTick.batch.of
    /\ \A c \in MacIds(macSource.committed) : MacFollows(macLog, c, x)
    /\ x \in MacIds(macSource.pending) \/ MacCrowded(macLog, x, {})
    /\ x \in MacStoredSet =>
         macLog[x].at < macReader.wm - Overlap \/ MacCrowded(macLog, x, MacReported)
MacItemWaits(q) ==
    /\ q.id \notin MacIds(macSource.committed)
    /\ q.gap = <<>> => q.id > 0 /\ q.seq = 2 * q.id
    /\ q.gap # <<>> => /\ q.id < 0 /\ q.id = Mac!GapId(q.gap[1], q.gap[2])
                       /\ \E x \in 0..Others.log : q.seq = 2 * x + 1
    /\ \A x \in q.of : MacWaiting(x)
MacWaits ==
    /\ \A i \in 1..Len(macSource.queue) : MacItemWaits(macSource.queue[i])
    /\ \A i, j \in 1..Len(macSource.queue) :
         macSource.queue[i].gap # <<>> /\ macSource.queue[j].gap # <<>> => i = j

\* A pending identity: of a queued run, or older than all that is queued.
MacPendingAt(p) ==
    /\ p.id \in MacInLog /\ p.id <= macReader.read /\ p.at = macLog[p.id].at
    /\ p.id \notin MacIds(macSource.committed)
    /\ \E f \in Nat : f <= p.id /\ p.run = 2 * f
    /\ \/ \E i \in 1..Len(macSource.queue) :
            p.id \in macSource.queue[i].of /\ macSource.queue[i].run = p.run
       \/ \A i \in 1..Len(macSource.queue) : \A x \in macSource.queue[i].of : p.id < x
MacPendingOnce ==
    /\ Len(macSource.pending) <= IdentityMax
    /\ \A i \in 1..Len(macSource.pending) : MacPendingAt(macSource.pending[i])
    /\ \A i, j \in 1..Len(macSource.pending) :
         i < j => macSource.pending[i].id < macSource.pending[j].id

MacOnce == MacMemory /\ MacReads /\ MacWaits /\ MacPendingOnce

\* Only a commit that meets a locked database leaves reports untold.
LEMMA MacUntoldStays ==
  ASSUME MacTyped,
         \/ Mac!ReadShow \/ Mac!EndShow \/ Mac!BreakShow
         \/ Mac!StartStream \/ Mac!ReadStream
  PROVE  macLost'.untold = macLost.untold
<1>1. \/ macLost' = macLost
      \/ \E S : macLost' = [macLost EXCEPT !.evicted = S]
      \/ \E S : macLost' = [macLost EXCEPT !.skipped = S]
      \/ \E S : macLost' = [macLost EXCEPT !.missed = S]
  <2>1. CASE Mac!ReadShow \/ Mac!ReadStream
    <3>1. \E e : Mac!Offer(e)
      BY <2>1 DEF Mac!ReadShow, Mac!ReadStream
    <3> QED
      BY <3>1 DEF Mac!Offer, Mac!OfferMerged, Mac!OfferNew, Mac!Evict
  <2>2. CASE Mac!EndShow \/ Mac!BreakShow
    BY <2>2 DEF Mac!EndShow, Mac!BreakShow, Mac!EnqueueGap, Mac!Evict
  <2>3. CASE Mac!StartStream
    BY <2>3 DEF Mac!StartStream
  <2> QED
    BY <2>1, <2>2, <2>3
<1>2. \A S : /\ [macLost EXCEPT !.evicted = S].untold = macLost.untold
             /\ [macLost EXCEPT !.skipped = S].untold = macLost.untold
             /\ [macLost EXCEPT !.missed = S].untold = macLost.untold
  BY DEF MacTyped
<1>3. CASE macLost' = macLost
  BY <1>3
<1>4. CASE \E S : macLost' = [macLost EXCEPT !.evicted = S]
  <2>1. PICK S : macLost' = [macLost EXCEPT !.evicted = S]
    BY <1>4
  <2> QED
    BY <1>2, <2>1
<1>5. CASE \E S : macLost' = [macLost EXCEPT !.skipped = S]
  <2>1. PICK S : macLost' = [macLost EXCEPT !.skipped = S]
    BY <1>5
  <2> QED
    BY <1>2, <2>1
<1>6. CASE \E S : macLost' = [macLost EXCEPT !.missed = S]
  <2>1. PICK S : macLost' = [macLost EXCEPT !.missed = S]
    BY <1>6
  <2> QED
    BY <1>2, <2>1
<1> QED
  BY <1>1, <1>3, <1>4, <1>5, <1>6

\* No identities remember nothing.
LEMMA MacEmptyKeeps ==
  ASSUME NEW l, NEW G PROVE MacKeeps(l, <<>>, 0, G, {})
BY DEF MacKeeps, MacDeque

\* The first daemon: nothing stored, read or queued.
LEMMA MacOnceInit == ASSUME Mac!Init PROVE MacOnce
<1>1. /\ macDb.of = [e \in Mac!Entry |-> 0] /\ macDb.gaps = {} /\ macDb.cursor.ids = <<>>
         /\ macDb.cursor.wm = 0 /\ macLost.untold = {}
      /\ macTick.batch.of = {} /\ macTick.batch.gaps = {} /\ macTick.last.ids = <<>>
         /\ macTick.last.wm = 0
      /\ macSource.queue = <<>> /\ macSource.pending = <<>> /\ macSource.committed = <<>>
         /\ macSource.watermark = 0
      /\ macReader.stage = "hand" /\ macReader.wm = 0 /\ macReader.read = 0
  BY DEF Mac!Init, Mac!Nothing, Mac!NoCursor
<1>2. MacStoredSet = {} /\ MacDrainedSet = {} /\ MacReported = {} /\ MacGaps = {}
  BY <1>1 DEF MacStoredSet, MacDrainedSet, MacReported, MacGaps
<1>3. MacMemory
  BY <1>1, <1>2, MacEmptyKeeps, FS_EmptySet DEF MacMemory
<1>4. Len(<<>>) = 0 /\ 1..0 = {}
  OBVIOUS
<1>5. MacReads
  <2>1. MacIds(<<>>) = {}
    BY <1>4 DEF MacIds
  <2> QED
    BY <1>1, <1>2, <2>1 DEF MacReads
<1>6. MacWaits /\ MacPendingOnce
  BY <1>1, <1>4 DEF MacWaits, MacPendingOnce
<1> QED
  BY <1>3, <1>5, <1>6 DEF MacOnce


\* Where log, reader, source, tick and store rest, so does the invariant.
LEMMA MacOnceSame ==
  ASSUME MacOnce, UNCHANGED <<macLog, macReader, macSource, macTick, macDb, macLost>>
  PROVE  MacOnce'
<1>1. MacStoredSet' = MacStoredSet /\ MacDrainedSet' = MacDrainedSet /\ MacGaps' = MacGaps
      /\ MacInLog' = MacInLog /\ MacReported' = MacReported
  BY DEF MacStoredSet, MacDrainedSet, MacReported, MacGaps, MacInLog
<1>2. MacMemory'
  BY <1>1 DEF MacOnce, MacMemory
<1>3. MacReads'
  BY <1>1 DEF MacOnce, MacReads, MacReplays
<1>4. MacWaits'
  BY <1>1 DEF MacOnce, MacWaits, MacItemWaits, MacWaiting
<1>5. MacPendingOnce'
  BY <1>1 DEF MacOnce, MacPendingOnce, MacPendingAt
<1> QED
  BY <1>2, <1>3, <1>4, <1>5 DEF MacOnce

\* A reader that dies, one that goes on with `log stream`.
LEMMA MacOnceDie == ASSUME MacOnce, MacTyped, Mac!Die PROVE MacOnce'
<1>1. /\ macReader'.stage = "dead" /\ macReader'.read = macReader.read
         /\ macReader'.wm = macReader.wm
      /\ UNCHANGED <<macLog, macSource, macTick, macDb, macLost>>
  BY DEF Mac!Die, MacTyped
<1>2. MacStoredSet' = MacStoredSet /\ MacDrainedSet' = MacDrainedSet /\ MacGaps' = MacGaps
      /\ MacInLog' = MacInLog /\ MacReported' = MacReported
  BY <1>1 DEF MacStoredSet, MacDrainedSet, MacReported, MacGaps, MacInLog
<1>3. MacMemory'
  BY <1>1, <1>2 DEF MacOnce, MacMemory
<1>4. MacReads'
  BY <1>1, <1>2 DEF MacOnce, MacReads, MacReplays
<1>5. MacWaits'
  BY <1>1, <1>2 DEF MacOnce, MacWaits, MacItemWaits, MacWaiting
<1>6. MacPendingOnce'
  BY <1>1, <1>2 DEF MacOnce, MacPendingOnce, MacPendingAt
<1> QED
  BY <1>3, <1>4, <1>5, <1>6 DEF MacOnce

\* `log stream` starts behind everything that is in the log.
LEMMA MacOnceStream == ASSUME MacOnce, MacIInv, Mac!StartStream PROVE MacOnce'
<1>0. MacTyped /\ macReader.read \in Nat /\ macReader.read <= Len(macLog)
  BY MacFields DEF MacIInv, MacShowing
<1>1. /\ macReader'.stage = "stream" /\ macReader'.read = Len(macLog)
         /\ macReader'.wm = macReader.wm
      /\ UNCHANGED <<macLog, macSource, macTick, macDb>>
      /\ macLost'.untold = macLost.untold
  BY <1>0, MacUntoldStays DEF Mac!StartStream, MacTyped
<1>2. MacStoredSet' = MacStoredSet /\ MacDrainedSet' = MacDrainedSet /\ MacGaps' = MacGaps
      /\ MacInLog' = MacInLog /\ MacReported' = MacReported
  BY <1>1 DEF MacStoredSet, MacDrainedSet, MacReported, MacGaps, MacInLog
<1>3. MacMemory'
  BY <1>1, <1>2 DEF MacOnce, MacMemory
<1>a. Len(macLog) \in Nat /\ \A e \in MacInLog : e <= Len(macLog)
  BY <1>0, MacNumbers DEF MacInLog
<1>4. MacReads'
  <2>1. macTick'.batch.of \subseteq 1..macReader'.read
    BY <1>0, <1>1, <1>a DEF MacOnce, MacReads
  <2>2. \A c \in MacIds(macSource'.committed) : c > 0 => c <= macReader'.read
    <3>1. \A c \in MacIds(macSource.committed) : c > 0 => c \in MacInLog
      BY DEF MacOnce, MacMemory, MacKeeps, MacDeque, MacPlaced, MacIds, MacInLog
    <3> QED
      BY <1>1, <1>a, <3>1
  <2>3. MacDrainedSet' \subseteq 1..macReader'.read
    BY <1>1, <1>2 DEF MacOnce, MacMemory, MacInLog
  <2> QED
    BY <1>1, <1>2, <2>1, <2>2, <2>3 DEF MacOnce, MacReads
<1>5. MacWaits'
  BY <1>1, <1>2 DEF MacOnce, MacWaits, MacItemWaits, MacWaiting
<1>6. MacPendingOnce'
  <2>1. \A i \in 1..Len(macSource.pending) : MacPendingAt(macSource.pending[i])'
    BY <1>0, <1>1, <1>2, <1>a DEF MacOnce, MacPendingOnce, MacPendingAt
  <2> QED
    BY <1>1, <2>1 DEF MacOnce, MacPendingOnce
<1> QED
  BY <1>3, <1>4, <1>5, <1>6 DEF MacOnce

\* The types of what is remembered.
LEMMA MacOnceFields ==
  ASSUME MacTyped, MacMemory
  PROVE  /\ macLog \in MacLogs /\ MacInLog = 1..Len(macLog) /\ Len(macLog) \in Nat
         /\ macDb.cursor.ids \in Seq(MacPlace) /\ macDb.cursor.wm \in Nat
         /\ macTick.last.ids \in Seq(MacPlace) /\ macTick.last.wm \in Nat
         /\ macSource.committed \in Seq(MacPlace) /\ macSource.watermark \in Nat
         /\ MacStoredSet \in SUBSET (1..Len(macLog)) /\ MacDrainedSet \in SUBSET (1..Len(macLog))
         /\ IsFiniteSet(MacReported) /\ IsFiniteSet(MacGaps)
         /\ MacStoredSet \subseteq MacDrainedSet /\ MacReported \subseteq MacGaps
         /\ \A c \in MacIds(macSource.committed) : c > 0 => c \in MacInLog
<1>1. /\ macLog \in MacLogs /\ MacInLog = 1..Len(macLog) /\ Len(macLog) \in Nat
      /\ macDb.cursor.ids \in Seq(MacPlace) /\ macDb.cursor.wm \in Nat
      /\ macTick.last.ids \in Seq(MacPlace) /\ macTick.last.wm \in Nat
      /\ macSource.committed \in Seq(MacPlace) /\ macSource.watermark \in Nat
  BY MacFields, MacNumbers, MacCheckpointFields DEF MacLogs, MacInLog
<1>2. /\ MacStoredSet \in SUBSET (1..Len(macLog)) /\ MacDrainedSet \in SUBSET (1..Len(macLog))
      /\ MacStoredSet \subseteq MacDrainedSet /\ MacReported \subseteq MacGaps
  BY DEF MacMemory, MacInLog, MacStoredSet, MacDrainedSet, MacGaps
<1>3. IsFiniteSet(MacReported) /\ IsFiniteSet(MacGaps)
  BY FS_Union DEF MacMemory, MacGaps
<1>4. \A c \in MacIds(macSource.committed) : c > 0 => c \in MacInLog
  BY DEF MacMemory, MacKeeps, MacDeque, MacPlaced, MacIds, MacInLog
<1> QED
  BY <1>1, <1>2, <1>3, <1>4

\* A longer log.
LEMMA MacOnceLog == ASSUME MacOnce, MacIInv, MacIInv', Mac!Log PROVE MacOnce'
<1>0. /\ MacTyped /\ MacTyped' /\ MacOrdered' /\ MacMemory /\ MacReads /\ MacWaits
         /\ MacPendingOnce /\ MacReached(macReader.wm)
      /\ UNCHANGED <<macReader, macSource, macTick, macDb, macLost>>
      /\ macReader.wm \in Nat /\ macReader.read \in Nat
  BY MacFields DEF MacIInv, MacOnce, MacShowing, Mac!Log
<1>1. PICK l \in MacLogs, k \in MacLogs : l = macLog /\ k = macLog'
  BY <1>0, MacOnceFields, MacNextFields DEF MacLogs
<1>2. Len(k) = Len(l) + 1 /\ \A x \in 1..Len(l) : k[x] = l[x]
  <2>1. PICK r \in [at : Nat, says : Text] : k = Append(l, r)
    <3>1. PICK r : k = Append(l, r)
      BY <1>1 DEF Mac!Log
    <3>2. k[Len(l) + 1] = r /\ Len(l) + 1 \in 1..Len(k)
      BY <1>1, <3>1 DEF MacLogs
    <3>3. r \in [at : Nat, says : Text]
      BY <1>1, <3>2, SeqAt DEF MacLogs
    <3> QED
      BY <3>1, <3>3
  <2> QED
    BY <1>1, <2>1, AppendProperties DEF MacLogs
<1>3. /\ Len(l) \in Nat /\ Len(k) \in Nat /\ Len(l) <= Len(k)
      /\ MacInLog = 1..Len(l) /\ MacInLog' = 1..Len(k)
      /\ \A x \in 1..Len(l) : x \in 1..Len(k) /\ l[x].at \in Nat
      /\ \A x \in 1..Len(k) : x \in 1..Len(l) \/ x = Len(k)
  <2>1. Len(l) \in Nat /\ Len(k) \in Nat /\ Len(l) <= Len(k)
    BY <1>2 DEF MacLogs
  <2>2. \A x \in 1..Len(l) : l[x].at \in Nat
    BY MacLoggedAt DEF MacLogs
  <2> QED
    BY <1>1, <1>2, <2>1, <2>2 DEF MacInLog
<1>4. MacStoredSet' = MacStoredSet /\ MacDrainedSet' = MacDrainedSet /\ MacGaps' = MacGaps
      /\ MacReported' = MacReported
  BY <1>0 DEF MacStoredSet, MacDrainedSet, MacReported, MacGaps
<1>5. /\ macDb.cursor.ids \in Seq(MacPlace) /\ macTick.last.ids \in Seq(MacPlace)
      /\ macSource.committed \in Seq(MacPlace)
      /\ MacStoredSet \in SUBSET (1..Len(l)) /\ MacDrainedSet \in SUBSET (1..Len(l))
      /\ IsFiniteSet(MacReported) /\ IsFiniteSet(MacGaps)
  BY <1>0, <1>1, MacOnceFields
<1>6. MacMemory'
  <2>1. /\ MacKeeps(k, macDb.cursor.ids, macDb.cursor.wm, MacReported, MacStoredSet)
        /\ MacKeeps(k, macTick.last.ids, macTick.last.wm, MacGaps, MacDrainedSet)
        /\ MacKeeps(k, macSource.committed, macSource.watermark, MacGaps, MacDrainedSet)
    <3>1. /\ MacKeeps(l, macDb.cursor.ids, macDb.cursor.wm, MacReported, MacStoredSet)
          /\ MacKeeps(l, macTick.last.ids, macTick.last.wm, MacGaps, MacDrainedSet)
          /\ MacKeeps(l, macSource.committed, macSource.watermark, MacGaps, MacDrainedSet)
      BY <1>0, <1>1 DEF MacMemory
    <3>2. ASSUME NEW G, IsFiniteSet(G), NEW s \in Seq(MacPlace), NEW w,
                 NEW E \in SUBSET (1..Len(l)), MacKeeps(l, s, w, G, E)
          PROVE  MacKeeps(k, s, w, G, E)
      BY <1>2, <1>3, <3>2, MacKeepsGrows
    <3> QED
      BY <1>5, <3>1, <3>2
  <2> QED
    BY <1>0, <1>1, <1>3, <1>4, <2>1 DEF MacMemory
<1>7. \A e \in 1..Len(l) : /\ MacCrowded(l, e, {}) => MacCrowded(k, e, {})
                           /\ MacCrowded(l, e, MacReported) => MacCrowded(k, e, MacReported)
  BY <1>2, <1>3, <1>5, MacCrowdedKept, FS_EmptySet
<1>8. MacReads'
  <2>1. ASSUME macReader.stage = "show", NEW e \in MacInLog', e > macReader.read
        PROVE  MacReplays(e)'
    <3>1. CASE e \in 1..Len(l)
      <4>1. MacReplays(e)
        BY <1>0, <1>3, <2>1, <3>1 DEF MacReads
      <4> QED
        BY <1>0, <1>1, <1>2, <1>4, <1>7, <3>1, <4>1 DEF MacReplays, MacUnforgotten
    <3>2. CASE e = Len(k) /\ e \notin 1..Len(l)
      <4>1. k[e].at \in Nat
        BY <1>3, <2>1, MacLoggedAt DEF MacLogs
      <4>2. macReader.wm <= k[e].at
        <5>1. CASE macReader.wm = 0
          BY <4>1, <5>1
        <5>2. CASE \E f \in MacInLog : macReader.wm <= macLog[f].at
          <6>1. PICK f \in 1..Len(l) : macReader.wm <= l[f].at
            BY <1>1, <1>3, <5>2
          <6>2. f \in 1..Len(k) /\ f <= e
            BY <1>3, <3>2, <6>1
          <6>3. k[f].at <= k[e].at
            BY <1>0, <1>1, <1>3, <2>1, <6>2 DEF MacOrdered
          <6> QED
            BY <1>0, <1>2, <1>3, <4>1, <6>1, <6>3
        <5> QED
          BY <1>0, <5>1, <5>2 DEF MacReached
      <4>3. k[e].at >= Mac!ReplayFrom(macReader.wm)
        BY <1>0, <4>1, <4>2, MacReplayFromBelow
      <4>4. e \notin MacDrainedSet
        BY <1>5, <3>2
      <4> QED
        BY <1>0, <1>1, <1>4, <4>3, <4>4 DEF MacReplays
    <3> QED
      BY <1>3, <2>1, <3>1, <3>2
  <2>2. \A c \in MacIds(macSource.committed) : c > 0 =>
         \/ c <= macReader.read
         \/ macReader.stage # "stream" /\ macLog'[c].at <= macReader.wm
    <3>1. \A c \in MacIds(macSource.committed) : c > 0 => c \in 1..Len(l)
      BY <1>0, <1>1, MacOnceFields
    <3> QED
      BY <1>0, <1>1, <1>2, <3>1 DEF MacReads
  <2> QED
    BY <1>0, <1>4, <2>1, <2>2 DEF MacReads
<1>9. MacWaits'
  <2>0. \A i \in 1..Len(macSource.queue) : \A x \in macSource.queue[i].of : x \in 1..Len(l)
    BY <1>3 DEF MacIInv, MacPresent, MacItems, MacGapItem, MacEntryItem
  <2>1. ASSUME NEW i \in 1..Len(macSource.queue), NEW x \in macSource.queue[i].of
        PROVE  MacWaiting(x)'
    <3>1. x \in 1..Len(l) /\ MacWaiting(x)
      BY <1>0, <2>0 DEF MacWaits, MacItemWaits
    <3>2. ASSUME NEW c \in MacIds(macSource.committed) PROVE MacFollows(k, c, x)
      <4>1. MacFollows(l, c, x) /\ (c > 0 => c \in 1..Len(l))
        BY <1>0, <1>1, <3>1, MacOnceFields DEF MacWaiting
      <4> QED
        BY <1>2, <1>3, <4>1 DEF MacFollows, MacRivals
    <3> QED
      BY <1>0, <1>1, <1>2, <1>4, <1>7, <3>1, <3>2 DEF MacWaiting
  <2>2. \A i \in 1..Len(macSource.queue) : MacItemWaits(macSource.queue[i])'
    BY <1>0, <2>1 DEF MacWaits, MacItemWaits
  <2> QED
    BY <1>0, <2>2 DEF MacWaits
<1>10. MacPendingOnce'
  <2>1. \A i \in 1..Len(macSource.pending) : MacPendingAt(macSource.pending[i])'
    BY <1>0, <1>1, <1>2, <1>3 DEF MacPendingOnce, MacPendingAt
  <2> QED
    BY <1>0, <2>1 DEF MacPendingOnce
<1> QED
  BY <1>6, <1>8, <1>9, <1>10 DEF MacOnce

\* What was drained is stored.
LEMMA MacOnceCommit == ASSUME MacOnce, MacIInv, Mac!Commit PROVE MacOnce'
<1>0. /\ MacTyped /\ MacMemory /\ MacReads /\ MacWaits /\ MacPendingOnce /\ MacBatch
      /\ UNCHANGED <<macLog, macReader, macSource, macLost>>
  BY DEF MacIInv, MacOnce, MacPast, Mac!Commit
<1>1. /\ macTick'.batch = Mac!Nothing /\ macTick'.last = macTick.last
      /\ macTick'.batch.of = {} /\ macTick'.batch.gaps = {}
  BY <1>0 DEF Mac!Commit, MacTyped, Mac!Nothing
<1>2. CASE macTick.batch.cursor = Mac!NoCursor
  <2>1. macTick.batch = Mac!Nothing
    <3>1. Mac!NoCursor.wm = 0
      BY DEF Mac!NoCursor
    <3> QED
      BY <1>0, <1>2, <3>1 DEF MacBatch
  <2>2. macDb' = macDb /\ macTick'.batch = macTick.batch
    BY <1>1, <1>2, <2>1 DEF Mac!Commit
  <2>3. MacStoredSet' = MacStoredSet /\ MacDrainedSet' = MacDrainedSet /\ MacGaps' = MacGaps
        /\ MacInLog' = MacInLog /\ MacReported' = MacReported
    BY <1>0, <2>2 DEF MacStoredSet, MacDrainedSet, MacReported, MacGaps, MacInLog
  <2>4. MacMemory'
    BY <1>0, <1>1, <2>2, <2>3 DEF MacMemory
  <2>5. MacReads'
    BY <1>0, <2>2, <2>3 DEF MacReads, MacReplays
  <2>6. MacWaits'
    BY <1>0, <2>2, <2>3 DEF MacWaits, MacItemWaits, MacWaiting
  <2>7. MacPendingOnce'
    BY <1>0, <2>3 DEF MacPendingOnce, MacPendingAt
  <2> QED
    BY <2>4, <2>5, <2>6, <2>7 DEF MacOnce
<1>3. CASE macTick.batch.cursor # Mac!NoCursor
  <2>1. macTick.batch.cursor = macTick.last
    <3>1. macTick.batch # Mac!Nothing
      BY <1>3 DEF Mac!Nothing
    <3> QED
      BY <1>0, <3>1 DEF MacBatch
  <2>2. /\ MacReported' = MacGaps /\ macDb'.cursor = macTick.last
        /\ macDb'.of = [e \in Mac!Entry |-> macDb.of[e]
                                            + (IF e \in macTick.batch.of THEN 1 ELSE 0)]
    BY <1>0, <1>3, <2>1 DEF Mac!Commit, MacReported, MacGaps
  <2>3. MacStoredSet' = MacDrainedSet
    <3>1. \A e \in Mac!Entry : macDb.of[e] \in Nat
      BY <1>0, MacFields
    <3>2. \A e \in Mac!Entry : macDb'.of[e] > 0 <=> macDb.of[e] > 0 \/ e \in macTick.batch.of
      BY <2>2, <3>1
    <3>3. macTick.batch.of \subseteq Mac!Entry
      BY <1>0, MacFields
    <3> QED
      BY <3>2, <3>3 DEF MacStoredSet, MacDrainedSet
  <2>4. MacDrainedSet' = MacDrainedSet /\ MacGaps' = MacGaps /\ MacInLog' = MacInLog
    BY <1>0, <1>1, <2>2, <2>3 DEF MacDrainedSet, MacGaps, MacInLog
  <2>5. /\ macLog \in MacLogs /\ IsFiniteSet(MacReported) /\ IsFiniteSet(MacGaps)
        /\ MacReported \subseteq MacGaps /\ MacInLog = 1..Len(macLog)
    BY <1>0, MacOnceFields
  <2>6. MacMemory'
    BY <1>0, <1>1, <2>2, <2>3, <2>4, <2>5, FS_EmptySet DEF MacMemory
  <2>7. MacReads'
    <3>1. macReader.stage = "show" => MacGaps = MacReported
      BY <1>0 DEF MacReads, MacGaps
    <3>2. macReader.stage = "show" =>
            \A e \in MacInLog : e > macReader.read => MacReplays(e)'
      BY <1>0, <2>2, <2>4, <3>1 DEF MacReads, MacReplays
    <3> QED
      BY <1>0, <1>1, <2>4, <3>2 DEF MacReads
  <2>8. MacWaits'
    <3>0. \A i \in 1..Len(macSource.queue) : \A x \in macSource.queue[i].of : x \in 1..Len(macLog)
      BY <2>5 DEF MacIInv, MacPresent, MacItems, MacGapItem, MacEntryItem
    <3>1. ASSUME NEW i \in 1..Len(macSource.queue), NEW x \in macSource.queue[i].of
          PROVE  MacWaiting(x)'
      <4>1. x \in 1..Len(macLog) /\ MacWaiting(x)
        BY <1>0, <3>0 DEF MacWaits, MacItemWaits
      <4>2. MacCrowded(macLog, x, MacReported) => MacCrowded(macLog, x, MacGaps)
        <5>1. PICK l \in MacLogs : l = macLog
          BY <2>5
        <5>2. Len(l) <= Len(l)
          BY DEF MacLogs
        <5> QED
          BY <2>5, <4>1, <5>1, <5>2, MacCrowdedKept
      <4>3. x \in MacStoredSet' => x \in MacStoredSet
        BY <2>3, <4>1 DEF MacDrainedSet, MacWaiting
      <4> QED
        BY <1>0, <1>1, <2>2, <4>1, <4>2, <4>3 DEF MacWaiting
    <3> QED
      BY <1>0, <3>1 DEF MacWaits, MacItemWaits
  <2>9. MacPendingOnce'
    BY <1>0, <2>4 DEF MacPendingOnce, MacPendingAt
  <2> QED
    BY <2>6, <2>7, <2>8, <2>9 DEF MacOnce
<1> QED
  BY <1>2, <1>3

\* What was drained is dropped; the source goes on remembering it.
LEMMA MacOnceCommitLocked == ASSUME MacOnce, MacIInv, Mac!CommitLocked PROVE MacOnce'
<1>0. /\ MacTyped /\ MacMemory /\ MacReads /\ MacWaits /\ MacPendingOnce
      /\ UNCHANGED <<macLog, macReader, macSource, macDb>>
  BY DEF MacIInv, MacOnce, Mac!CommitLocked
<1>1. /\ macTick'.last = macTick.last /\ macTick'.batch.of = {} /\ macTick'.batch.gaps = {}
      /\ macLost'.untold = macLost.untold \cup macTick.batch.gaps
  BY <1>0 DEF Mac!CommitLocked, MacTyped, Mac!Nothing
<1>2. /\ MacStoredSet' = MacStoredSet /\ MacDrainedSet' = MacStoredSet
      /\ MacReported' = MacGaps /\ MacGaps' = MacGaps /\ MacInLog' = MacInLog
  BY <1>0, <1>1 DEF MacStoredSet, MacDrainedSet, MacReported, MacGaps, MacInLog
<1>3. /\ macLog \in MacLogs /\ MacInLog = 1..Len(macLog) /\ Len(macLog) \in Nat
      /\ IsFiniteSet(MacReported) /\ IsFiniteSet(MacGaps) /\ MacReported \subseteq MacGaps
      /\ MacStoredSet \in SUBSET (1..Len(macLog)) /\ MacStoredSet \subseteq MacDrainedSet
      /\ macDb.cursor.ids \in Seq(MacPlace)
  BY <1>0, MacOnceFields
<1>4. MacMemory'
  <2>1. MacKeeps(macLog, macDb.cursor.ids, macDb.cursor.wm, MacGaps, MacStoredSet)
    <3>1. MacKeeps(macLog, macDb.cursor.ids, macDb.cursor.wm, MacReported, MacStoredSet)
      BY <1>0 DEF MacMemory
    <3>2. Len(macLog) <= Len(macLog)
      BY <1>3
    <3> QED
      BY <1>3, <3>1, <3>2, MacKeepsGrows
  <2>2. /\ MacKeeps(macLog, macTick.last.ids, macTick.last.wm, MacGaps, MacStoredSet)
        /\ MacKeeps(macLog, macSource.committed, macSource.watermark, MacGaps, MacStoredSet)
    BY <1>0, <1>3 DEF MacMemory, MacKeeps
  <2> QED
    BY <1>0, <1>1, <1>2, <1>3, <2>1, <2>2, FS_EmptySet DEF MacMemory
<1>5. MacReads'
  <2>1. macReader.stage = "show" => MacGaps = MacReported
    BY <1>0 DEF MacReads, MacGaps
  <2>2. macReader.stage = "show" =>
          \A e \in MacInLog : e > macReader.read => MacReplays(e)'
    BY <1>0, <1>2, <1>3, <2>1 DEF MacReads, MacReplays
  <2>3. macReader.stage = "stream" => MacStoredSet \subseteq 1..macReader.read
    BY <1>0, <1>3 DEF MacReads
  <2> QED
    BY <1>0, <1>1, <1>2, <2>2, <2>3 DEF MacReads
<1>6. MacWaits'
  <2>0. \A i \in 1..Len(macSource.queue) : \A x \in macSource.queue[i].of : x \in 1..Len(macLog)
    BY <1>3 DEF MacIInv, MacPresent, MacItems, MacGapItem, MacEntryItem
  <2>1. ASSUME NEW i \in 1..Len(macSource.queue), NEW x \in macSource.queue[i].of
        PROVE  MacWaiting(x)'
    <3>1. x \in 1..Len(macLog) /\ MacWaiting(x)
      BY <1>0, <2>0 DEF MacWaits, MacItemWaits
    <3>2. MacCrowded(macLog, x, MacReported) => MacCrowded(macLog, x, MacGaps)
      <4>1. PICK l \in MacLogs : l = macLog
        BY <1>3
      <4>2. Len(l) <= Len(l)
        BY DEF MacLogs
      <4> QED
        BY <1>3, <3>1, <4>1, <4>2, MacCrowdedKept
    <3> QED
      BY <1>0, <1>1, <1>2, <3>1, <3>2 DEF MacWaiting
  <2> QED
    BY <1>0, <2>1 DEF MacWaits, MacItemWaits
<1>7. MacPendingOnce'
  BY <1>0, <1>2 DEF MacPendingOnce, MacPendingAt
<1> QED
  BY <1>4, <1>5, <1>6, <1>7 DEF MacOnce

\* A reader that starts with what a checkpoint remembers.
LEMMA MacOnceStart ==
  ASSUME MacOnce, MacTyped, MacOrdered, NEW c \in MacCheckpoint, Mac!StartAt(c),
         UNCHANGED <<macLog, macDb, macLost>>, macTick'.batch = Mac!Nothing, macTick'.last = c,
         MacKeeps(macLog, c.ids, c.wm, MacReported, MacStoredSet)
  PROVE  MacOnce'
<1>0. MacMemory
  BY DEF MacOnce
<1>1. /\ macReader'.wm = c.wm /\ macReader'.read = Mac!EntriesBefore(Mac!ReplayFrom(c.wm))
      /\ macReader'.stage # "stream"
      /\ macSource'.queue = <<>> /\ macSource'.pending = <<>>
      /\ macSource'.committed = c.ids /\ macSource'.watermark = c.wm
      /\ macTick'.batch.of = {} /\ macTick'.batch.gaps = {}
  BY DEF Mac!StartAt, Mac!Nothing
<1>2. MacStoredSet' = MacStoredSet /\ MacDrainedSet' = MacStoredSet /\ MacGaps' = MacReported
      /\ MacInLog' = MacInLog /\ MacReported' = MacReported
  BY <1>1 DEF MacStoredSet, MacDrainedSet, MacReported, MacGaps, MacInLog
<1>3. MacMemory'
  BY <1>0, <1>1, <1>2, FS_EmptySet DEF MacMemory, MacDrainedSet
<1>4. c.wm \in Nat /\ c.ids \in Seq(MacPlace) /\ Mac!ReplayFrom(c.wm) \in Nat
  BY MacCheckpointFields, MacReplayFromBelow
<1>5. PICK N \in Nat : N = macReader'.read
        /\ \A e \in MacInLog : macLog[e].at < Mac!ReplayFrom(c.wm) <=> e <= N
  BY <1>1, <1>4, MacPrefix
<1>6. \A e \in MacInLog : e > N => macLog[e].at >= Mac!ReplayFrom(c.wm)
  <2>1. \A e \in MacInLog : e \in Nat /\ macLog[e].at \in Nat
    BY MacNumbers
  <2> QED
    BY <1>4, <1>5, <2>1
<1>7. \A e \in MacInLog : e > N => MacReplays(e)'
  BY <1>1, <1>2, <1>6 DEF MacReplays, MacKeeps
<1>8. \A x \in MacIds(c.ids) : x > 0 => macLog[x].at <= c.wm
  BY DEF MacKeeps, MacDeque, MacPlaced, MacIds
<1>9. Len(<<>>) = 0 /\ 1..0 = {}
  OBVIOUS
<1>10. MacReads'
  BY <1>1, <1>2, <1>4, <1>5, <1>7, <1>8, <1>9 DEF MacReads
<1>11. MacWaits' /\ MacPendingOnce'
  BY <1>1, <1>9 DEF MacWaits, MacPendingOnce
<1> QED
  BY <1>3, <1>10, <1>11 DEF MacOnce

\* The daemon looks at the reader, and starts another from its watermark.
LEMMA MacOnceSupervise == ASSUME MacOnce, MacIInv, Mac!Supervise PROVE MacOnce'
<1>0. MacTyped /\ MacOrdered /\ MacBatch /\ MacMemory /\ macTick.last \in MacCheckpoint
  BY MacFields DEF MacIInv, MacOnce, MacPast
<1>1. /\ macTick'.batch = macTick.batch /\ macTick'.last = macTick.last
      /\ macTick.stage = "supervise" /\ UNCHANGED <<macLog, macDb, macLost>>
  BY <1>0 DEF Mac!Supervise, MacTyped
<1>2. CASE UNCHANGED <<macReader, macSource>>
  <2>1. MacStoredSet' = MacStoredSet /\ MacDrainedSet' = MacDrainedSet /\ MacGaps' = MacGaps
        /\ MacInLog' = MacInLog /\ MacReported' = MacReported
    BY <1>1 DEF MacStoredSet, MacDrainedSet, MacReported, MacGaps, MacInLog
  <2>2. MacMemory'
    BY <1>1, <1>2, <2>1 DEF MacOnce, MacMemory
  <2>3. MacReads'
    BY <1>1, <1>2, <2>1 DEF MacOnce, MacReads, MacReplays
  <2>4. MacWaits'
    BY <1>1, <1>2, <2>1 DEF MacOnce, MacWaits, MacItemWaits, MacWaiting
  <2>5. MacPendingOnce'
    BY <1>1, <1>2, <2>1 DEF MacOnce, MacPendingOnce, MacPendingAt
  <2> QED
    BY <2>2, <2>3, <2>4, <2>5 DEF MacOnce
<1>3. CASE Mac!StartAt(macTick.last)
  <2>1. macTick.batch = Mac!Nothing
    BY <1>0, <1>1 DEF MacBatch
  <2>2. MacGaps = MacReported /\ MacDrainedSet = MacStoredSet
    BY <2>1 DEF MacGaps, MacDrainedSet, Mac!Nothing
  <2>3. MacKeeps(macLog, macTick.last.ids, macTick.last.wm, MacReported, MacStoredSet)
    BY <1>0, <2>2 DEF MacMemory
  <2> QED
    BY <1>0, <1>1, <1>3, <2>1, <2>3, MacOnceStart
<1> QED
  BY <1>2, <1>3 DEF Mac!Supervise

\* A new daemon: source and reader from the stored checkpoint, nothing drained.
LEMMA MacOnceRestart == ASSUME MacOnce, MacIInv, Mac!Restart PROVE MacOnce'
<1>0. MacTyped /\ MacOrdered /\ MacMemory /\ macDb.cursor \in MacCheckpoint
  BY MacFields DEF MacIInv, MacOnce
<1>1. /\ macTick'.batch = Mac!Nothing /\ macTick'.last = macDb.cursor
      /\ Mac!StartAt(macDb.cursor) /\ UNCHANGED <<macLog, macDb, macLost>>
  BY DEF Mac!Restart
<1>2. MacKeeps(macLog, macDb.cursor.ids, macDb.cursor.wm, MacReported, MacStoredSet)
  BY <1>0 DEF MacMemory
<1> QED
  BY <1>0, <1>1, <1>2, MacOnceStart

MacPendingPlace == [run : Int, at : Nat, id : Int]

\* One more pending identity: of what has to make room a replay has as many
\* later ones as are kept.
LEMMA MacPendingBounded ==
  ASSUME NEW l \in MacLogs, \A a, b \in 1..Len(l) : a <= b => l[a].at <= l[b].at,
         NEW s \in Seq(MacPendingPlace), NEW p \in MacPendingPlace, Len(s) <= IdentityMax,
         p.id \in 1..Len(l), \A i \in 1..Len(s) : s[i].id \in 1..Len(l) /\ s[i].id < p.id,
         \A i, j \in 1..Len(s) : i < j => s[i].id < s[j].id
  PROVE  LET t == Mac!Bounded(s, p)
         IN  /\ t \in Seq(MacPendingPlace) /\ Len(t) <= IdentityMax
             /\ \A i \in 1..Len(t) : t[i] = p \/ \E j \in 1..Len(s) : t[i] = s[j]
             /\ \A i, j \in 1..Len(t) : i < j => t[i].id < t[j].id
             /\ p.id \in MacIds(t)
             /\ \A x \in MacIds(s) : x \in MacIds(t) \/ MacCrowded(l, x, {})
<1>1. PICK t : t = Mac!Bounded(s, p)
  OBVIOUS
<1>2. PICK d \in {0, 1} :
        /\ t \in Seq(MacPendingPlace) /\ Len(t) = Len(s) - d + 1 /\ Len(t) <= IdentityMax
        /\ d <= Len(s) /\ (d = 1 => Len(s) = IdentityMax)
        /\ \A i \in 1..Len(s) - d : t[i] = s[i + d]
        /\ t[Len(s) - d + 1] = p
  <2> HIDE DEF MacPendingPlace
  <2>2. \E d \in {0, 1} :
          /\ Mac!Bounded(s, p) \in Seq(MacPendingPlace)
          /\ Len(Mac!Bounded(s, p)) = Len(s) - d + 1
          /\ Len(Mac!Bounded(s, p)) <= IdentityMax
          /\ d <= Len(s) /\ (d = 1 => Len(s) = IdentityMax)
          /\ \A i \in 1..Len(s) - d : Mac!Bounded(s, p)[i] = s[i + d]
          /\ Mac!Bounded(s, p)[Len(s) - d + 1] = p
    BY MacBoundedAt
  <2> QED
    BY <1>1, <2>2
<1>3. PICK n \in Nat : n = Len(s) - d
  <2>1. Len(s) - d \in Nat
    BY <1>2
  <2> QED
    BY <2>1
<1>4. Len(t) = n + 1 /\ t[n + 1] = p /\ \A i \in 1..n : t[i] = s[i + d] /\ i + d \in 1..Len(s)
  BY <1>2, <1>3
<1>5. \A i \in 1..Len(t) : i = n + 1 \/ i \in 1..n
  BY <1>4
<1>6. \A i \in 1..Len(t) : t[i] = p \/ \E j \in 1..Len(s) : t[i] = s[j]
  BY <1>4, <1>5
<1>7. ASSUME NEW i \in 1..Len(t), NEW j \in 1..Len(t), i < j PROVE t[i].id < t[j].id
  <2>1. i \in 1..n
    BY <1>4, <1>7
  <2>2. i + d \in 1..Len(s) /\ t[i] = s[i + d]
    BY <1>4, <2>1
  <2>3. CASE j = n + 1
    BY <1>4, <2>2, <2>3
  <2>4. CASE j \in 1..n
    <3>1. j + d \in 1..Len(s) /\ t[j] = s[j + d] /\ i + d < j + d
      <4>1. i \in Int /\ j \in Int /\ d \in Int
        BY <1>2, <2>1, <2>4
      <4>2. i + d < j + d
        BY <1>7, <4>1
      <4> QED
        BY <1>4, <2>4, <4>2
    <3> QED
      BY <2>2, <3>1
  <2> QED
    BY <1>5, <2>3, <2>4
<1>8. p.id \in MacIds(t)
  <2>1. n + 1 \in 1..Len(t)
    BY <1>4
  <2> QED
    BY <1>4, <2>1 DEF MacIds
<1>9. ASSUME NEW x \in MacIds(s) PROVE x \in MacIds(t) \/ MacCrowded(l, x, {})
  <2>1. PICK k \in 1..Len(s) : x = s[k].id
    BY DEF MacIds
  <2>2. CASE k > d
    <3>1. k - d \in 1..n /\ k - d + d = k /\ k - d \in 1..Len(t)
      BY <1>3, <1>4, <2>2
    <3>2. t[k - d] = s[k]
      BY <1>4, <3>1
    <3> QED
      BY <2>1, <3>1, <3>2 DEF MacIds
  <2>3. CASE k <= d
    <3>1. k = 1 /\ Len(s) = IdentityMax
      BY <1>2, <2>3
    <3>2. x \in 1..Len(l) /\ Len(l) \in Nat
      BY <2>1 DEF MacLogs
    <3> DEFINE g == [i \in 1..IdentityMax |-> s[i].id]
    <3>3. g \in [1..IdentityMax -> 1..Len(l)] /\ \A i \in 1..IdentityMax : g[i] = s[i].id
      BY <3>1
    <3> HIDE DEF g
    <3>4. \A i \in 1..IdentityMax : g[i] \in 1..Len(l) /\ g[i] \in Int /\ g[i] < p.id
          /\ g[i] >= x
      <4>1. ASSUME NEW i \in 1..IdentityMax PROVE g[i] >= x
        <5>1. i = 1 \/ 1 < i
          OBVIOUS
        <5>2. 1 < i => s[1].id < s[i].id
          BY <3>1
        <5> QED
          BY <2>1, <3>1, <3>2, <3>3, <5>1, <5>2
      <4>2. \A i \in 1..IdentityMax : g[i] \in 1..Len(l) /\ g[i] < p.id
        BY <3>1, <3>3
      <4>3. \A i \in 1..IdentityMax : g[i] \in Int
        BY <3>2, <4>2
      <4> QED
        BY <4>1, <4>2, <4>3
    <3>5. \A y \in 1..Len(l) : y >= x => y \in MacRivals(l, x)
      <4>1. ASSUME NEW y \in 1..Len(l), y >= x PROVE y \in MacRivals(l, x)
        <5>1. l[x].at <= l[y].at
          BY <3>2, <4>1
        <5> QED
          BY <3>2, <5>1, MacLaterRivals
      <4> QED
        BY <4>1
    <3>6. p.id \in MacRivals(l, x) /\ p.id \in Int
      <4>1. p.id >= x
        BY <2>1, <3>2
      <4> QED
        BY <3>2, <3>5, <4>1
    <3>7. \A i, j \in 1..IdentityMax : i < j => g[i] # g[j]
      BY <3>1, <3>2, <3>3
    <3>8. \A i \in 1..IdentityMax : g[i] # p.id
      BY <3>4, <3>6
    <3>9. \A i \in 1..IdentityMax : g[i] \in MacRivals(l, x) \cup MacGapIds({})
      BY <3>4, <3>5
    <3>10. g \in [1..IdentityMax -> Int]
      BY <3>2, <3>3
    <3> QED
      BY <3>2, <3>6, <3>7, <3>8, <3>9, <3>10, MacEvictedIsCrowded, FS_EmptySet
  <2> QED
    BY <1>2, <2>2, <2>3
<1> QED
  BY <1>1, <1>2, <1>6, <1>7, <1>8, <1>9

\* An entry that is read and not remembered as committed.
MacAccepted(e) ==
    /\ e \notin MacIds(macSource.committed) /\ e \notin macTick.batch.of
    /\ \A c \in MacIds(macSource.committed) : MacFollows(macLog, c, e)
    /\ e \in MacStoredSet =>
         macLog[e].at < macReader.wm - Overlap \/ MacCrowded(macLog, e, MacReported)

\* What the reader reads and no checkpoint remembers may be queued.
LEMMA MacOnceAccepts ==
  ASSUME MacOnce, MacIInv, macReader.stage \in {"show", "stream"}, NEW e \in MacInLog,
         e > macReader.read, e \notin MacIds(macSource.committed)
  PROVE  MacAccepted(e)
<1>0. /\ MacTyped /\ MacOrdered /\ MacMemory /\ MacReads
      /\ macReader.wm \in Nat /\ macReader.read \in Nat
  BY MacFields DEF MacIInv, MacOnce
<1>1. /\ macLog \in MacLogs /\ MacInLog = 1..Len(macLog) /\ Len(macLog) \in Nat
      /\ MacStoredSet \subseteq MacDrainedSet
      /\ \A c \in MacIds(macSource.committed) : c > 0 => c \in MacInLog
      /\ \A x \in MacInLog : x \in Nat /\ macLog[x].at \in Nat
  BY <1>0, MacOnceFields, MacNumbers
<1>2. e \notin macTick.batch.of
  BY <1>0, <1>1 DEF MacReads
<1>3. ASSUME NEW c \in MacIds(macSource.committed), c > 0 PROVE e \in MacRivals(macLog, c)
  <2>1. c \in MacInLog
    BY <1>1, <1>3
  <2>2. CASE c <= macReader.read
    <3>1. c <= e
      BY <1>0, <1>1, <2>1, <2>2
    <3>2. macLog[c].at <= macLog[e].at
      BY <1>0, <2>1, <3>1 DEF MacOrdered
    <3> QED
      BY <1>1, <2>1, <3>2, MacLaterRivals
  <2>3. CASE macReader.stage # "stream" /\ macLog[c].at <= macReader.wm
    <3>1. macLog[e].at >= Mac!ReplayFrom(macReader.wm)
      BY <1>0, <2>3 DEF MacReads, MacReplays
    <3>2. Mac!ReplayFrom(macLog[c].at) <= Mac!ReplayFrom(macReader.wm)
          /\ Mac!ReplayFrom(macLog[c].at) \in Nat /\ Mac!ReplayFrom(macReader.wm) \in Nat
      BY <1>0, <1>1, <2>1, <2>3, MacReplayFromMonotone, MacReplayFromBelow
    <3>3. macLog[e].at >= Mac!ReplayFrom(macLog[c].at)
      BY <1>1, <3>1, <3>2
    <3> QED
      BY <1>1, <3>3 DEF MacRivals
  <2> QED
    BY <1>0, <1>3, <2>2, <2>3 DEF MacReads
<1>4. ASSUME e \in MacStoredSet
      PROVE  macLog[e].at < macReader.wm - Overlap \/ MacCrowded(macLog, e, MacReported)
  <2>1. CASE macReader.stage = "show"
    <3>1. MacReplays(e)
      BY <1>0, <2>1 DEF MacReads
    <3>2. MacUnforgotten(macLog, e, macSource.committed, macReader.wm, MacReported)
      BY <1>1, <1>4, <3>1 DEF MacReplays
    <3> QED
      BY <3>2 DEF MacUnforgotten
  <2>2. CASE macReader.stage = "stream"
    <3>1. e \in 1..macReader.read
      BY <1>0, <1>1, <1>4, <2>2 DEF MacReads
    <3> QED
      BY <1>0, <1>1, <3>1
  <2> QED
    BY <2>1, <2>2
<1> QED
  BY <1>2, <1>3, <1>4 DEF MacAccepted, MacFollows

\* The queue after e was accepted and p is pending for it: items it had, and
\* the one that e is in.
MacQueuedItem(e, p, x) ==
    /\ x.id = e /\ x.seq = 2 * e /\ x.gap = <<>> /\ x.run = p.run /\ e \in x.of
    /\ \A f \in x.of :
         f = e \/ \E j \in 1..Len(macSource.queue) : f \in macSource.queue[j].of
MacStays(q) ==
    \/ \E i \in 1..Len(macSource'.queue) :
         q.of \subseteq macSource'.queue[i].of /\ macSource'.queue[i].run = q.run
    \/ \A i \in 1..Len(macSource'.queue) :
         \A x \in macSource'.queue[i].of, f \in q.of : f < x
MacOneGap(s) ==
    \A i \in 1..Len(macSource'.queue) : macSource'.queue[i].gap # <<>> =>
         i + s \in 1..Len(macSource.queue) /\ macSource.queue[i + s].gap # <<>>
MacQueued(e, p) ==
    /\ \A i \in 1..Len(macSource'.queue) :
         \/ \E j \in 1..Len(macSource.queue) : macSource'.queue[i] = macSource.queue[j]
         \/ MacQueuedItem(e, p, macSource'.queue[i])
    /\ \E i \in 1..Len(macSource'.queue) : MacQueuedItem(e, p, macSource'.queue[i])
    /\ \E s \in {0, 1} : MacOneGap(s)
    /\ \A j \in 1..Len(macSource.queue) : MacStays(macSource.queue[j])
    /\ p.id = e /\ p.at = macLog[e].at /\ \E f \in Nat : f <= e /\ p.run = 2 * f
    /\ macSource'.pending = Mac!Bounded(macSource.pending, p)
    /\ macSource'.committed = macSource.committed
    /\ macSource'.watermark = macSource.watermark

\* The reader has read e.
MacHasRead(e) ==
    /\ macReader.stage \in {"show", "stream"} /\ macReader.read < e
    /\ macReader'.stage = macReader.stage /\ macReader'.wm = macReader.wm
    /\ macReader'.read = e
    /\ UNCHANGED <<macLog, macTick, macDb>> /\ macLost'.untold = macLost.untold

\* An entry is read and queued, in its own item or in the last run's.
LEMMA MacOnceQueued ==
  ASSUME MacOnce, MacIInv, NEW e \in MacInLog, MacHasRead(e), NEW p \in MacPendingPlace,
         MacQueued(e, p), MacAccepted(e)
  PROVE  MacOnce'
<1>0. /\ MacTyped /\ MacOrdered /\ MacMemory /\ MacReads /\ MacWaits /\ MacPendingOnce
      /\ macReader.wm \in Nat /\ macReader.read \in Nat
  BY MacFields DEF MacIInv, MacOnce
<1>1. /\ macLog \in MacLogs /\ MacInLog = 1..Len(macLog) /\ Len(macLog) \in Nat
      /\ \A x \in MacInLog : x \in Nat /\ macLog[x].at \in Nat
  BY <1>0, MacOnceFields, MacNumbers
<1>2. MacStoredSet' = MacStoredSet /\ MacDrainedSet' = MacDrainedSet /\ MacGaps' = MacGaps
      /\ MacInLog' = MacInLog /\ MacReported' = MacReported
  BY DEF MacHasRead, MacStoredSet, MacDrainedSet, MacReported, MacGaps, MacInLog
<1>3. macSource'.committed = macSource.committed /\ macSource'.watermark = macSource.watermark
      /\ macSource'.pending = Mac!Bounded(macSource.pending, p)
  BY DEF MacQueued
<1>4. MacMemory'
  BY <1>0, <1>2, <1>3 DEF MacMemory, MacHasRead
<1>5. macReader.read < e /\ macReader'.read = e /\ \A x \in MacInLog : x > e => x > macReader.read
  BY <1>0, <1>1 DEF MacHasRead
<1>6. MacReads'
  <2>1. macTick'.batch.of \subseteq 1..macReader'.read
    BY <1>0, <1>1, <1>5 DEF MacReads, MacHasRead
  <2>2. macReader'.wm <= macSource'.watermark
    BY <1>0, <1>3 DEF MacReads, MacHasRead
  <2>3. \A c \in MacIds(macSource.committed) : c > 0 =>
         \/ c <= e
         \/ macReader.stage # "stream" /\ macLog[c].at <= macReader.wm
    <3>1. \A c \in MacIds(macSource.committed) : c > 0 => c \in Int
      BY <1>0, <1>1, MacOnceFields
    <3>2. ASSUME NEW c \in MacIds(macSource.committed), c > 0
          PROVE  c <= e \/ (macReader.stage # "stream" /\ macLog[c].at <= macReader.wm)
      <4>1. c <= macReader.read \/ (macReader.stage # "stream" /\ macLog[c].at <= macReader.wm)
        BY <1>0, <3>2 DEF MacReads
      <4>2. c <= macReader.read => c <= e
        <5>1. c \in Int
          BY <3>1, <3>2
        <5>2. e \in Int /\ macReader.read \in Int /\ macReader.read < e
          BY <1>0, <1>1, <1>5
        <5> QED
          BY <5>1, <5>2
      <4> QED
        BY <4>1, <4>2
    <3> QED
      BY <3>2
  <2>4. ASSUME macReader.stage = "show"
        PROVE  /\ macTick.batch.gaps = {}
               /\ \A i \in 1..Len(macSource'.queue) : macSource'.queue[i].gap = <<>>
               /\ \A x \in MacInLog : x > e => MacReplays(x)'
    <3>1. \A i \in 1..Len(macSource'.queue) : macSource'.queue[i].gap = <<>>
      <4>1. \A j \in 1..Len(macSource.queue) : macSource.queue[j].gap = <<>>
        BY <1>0, <2>4 DEF MacReads
      <4>2. ASSUME NEW i \in 1..Len(macSource'.queue) PROVE macSource'.queue[i].gap = <<>>
        <5>1. \/ \E j \in 1..Len(macSource.queue) : macSource'.queue[i] = macSource.queue[j]
              \/ MacQueuedItem(e, p, macSource'.queue[i])
          BY DEF MacQueued
        <5> QED
          BY <4>1, <5>1 DEF MacQueuedItem
      <4> QED
        BY <4>2
    <3>2. \A x \in MacInLog : x > e => MacReplays(x)'
      BY <1>0, <1>2, <1>3, <1>5, <2>4 DEF MacReads, MacReplays, MacHasRead
    <3> QED
      BY <1>0, <2>4, <3>1, <3>2 DEF MacReads
  <2>5. ASSUME macReader.stage = "stream" PROVE MacDrainedSet \subseteq 1..e
    <3>1. MacDrainedSet \subseteq 1..macReader.read
      BY <1>0, <2>5 DEF MacReads
    <3>2. e \in Nat
      BY <1>1
    <3>3. \A x \in 1..macReader.read : x \in 1..e
      BY <1>0, <1>5, <3>2
    <3> QED
      BY <3>1, <3>3
  <2> QED
    BY <1>2, <1>3, <2>1, <2>2, <2>3, <2>4, <2>5 DEF MacReads, MacHasRead
<1>6s. PICK s \in Seq(MacPendingPlace) : s = macSource.pending
  BY <1>0, MacFields DEF MacPendingPlace
<1>7. PICK t : s = macSource.pending /\ t = macSource'.pending
  BY <1>6s
<1>8. /\ Len(t) <= IdentityMax
      /\ \A i \in 1..Len(t) : t[i] = p \/ \E j \in 1..Len(s) : t[i] = s[j]
      /\ \A i, j \in 1..Len(t) : i < j => t[i].id < t[j].id
      /\ e \in MacIds(t)
      /\ \A x \in MacIds(s) : x \in MacIds(t) \/ MacCrowded(macLog, x, {})
  <2>1. PICK l \in MacLogs : l = macLog
    BY <1>1
  <2>2. \A a, b \in 1..Len(l) : a <= b => l[a].at <= l[b].at
    BY <1>0, <1>1, <2>1 DEF MacOrdered
  <2>3. p.id = e /\ p.id \in 1..Len(l)
    BY <1>1, <2>1 DEF MacQueued
  <2>4. \A i \in 1..Len(s) : s[i].id \in 1..Len(l) /\ s[i].id < p.id
    <3>1. \A i \in 1..Len(s) : s[i].id \in MacInLog /\ s[i].id <= macReader.read
      BY <1>0, <1>7 DEF MacPendingOnce, MacPendingAt
    <3> QED
      BY <1>0, <1>1, <1>5, <2>1, <2>3, <3>1
  <2>5. Len(s) <= IdentityMax /\ \A i, j \in 1..Len(s) : i < j => s[i].id < s[j].id
    BY <1>0, <1>7 DEF MacPendingOnce
  <2>6. t = Mac!Bounded(s, p)
    BY <1>3, <1>7
  <2>7. /\ Len(Mac!Bounded(s, p)) <= IdentityMax
        /\ \A i \in 1..Len(Mac!Bounded(s, p)) :
             Mac!Bounded(s, p)[i] = p \/ \E j \in 1..Len(s) : Mac!Bounded(s, p)[i] = s[j]
        /\ \A i, j \in 1..Len(Mac!Bounded(s, p)) :
             i < j => Mac!Bounded(s, p)[i].id < Mac!Bounded(s, p)[j].id
        /\ p.id \in MacIds(Mac!Bounded(s, p))
        /\ \A x \in MacIds(s) : x \in MacIds(Mac!Bounded(s, p)) \/ MacCrowded(l, x, {})
    BY <2>2, <2>3, <2>4, <2>5, MacPendingBounded
  <2> QED
    BY <2>1, <2>3, <2>6, <2>7
<1>9. MacWaits'
  <2>1. ASSUME NEW j \in 1..Len(macSource.queue), NEW f \in macSource.queue[j].of
        PROVE  MacWaiting(f)'
    <3>1. MacWaiting(f)
      BY <1>0 DEF MacWaits, MacItemWaits
    <3> QED
      BY <1>2, <1>3, <1>7, <1>8, <3>1 DEF MacWaiting, MacHasRead
  <2>2. MacWaiting(e)'
    BY <1>2, <1>3, <1>7, <1>8 DEF MacWaiting, MacAccepted, MacHasRead
  <2>3. ASSUME NEW i \in 1..Len(macSource'.queue) PROVE MacItemWaits(macSource.queue[i])'
    <3>1. CASE \E j \in 1..Len(macSource.queue) : macSource'.queue[i] = macSource.queue[j]
      <4>1. PICK j \in 1..Len(macSource.queue) : macSource'.queue[i] = macSource.queue[j]
        BY <3>1
      <4> QED
        BY <1>0, <1>3, <2>1, <4>1 DEF MacWaits, MacItemWaits
    <3>2. CASE MacQueuedItem(e, p, macSource'.queue[i])
      <4>1. \A f \in macSource'.queue[i].of : MacWaiting(f)'
        BY <2>1, <2>2, <3>2 DEF MacQueuedItem
      <4>2. e > 0 /\ e \notin MacIds(macSource.committed)
        BY <1>1 DEF MacAccepted
      <4> QED
        BY <1>3, <3>2, <4>1, <4>2 DEF MacItemWaits, MacQueuedItem
    <3> QED
      BY <3>1, <3>2 DEF MacQueued
  <2>4. ASSUME NEW i \in 1..Len(macSource'.queue), NEW j \in 1..Len(macSource'.queue),
               macSource'.queue[i].gap # <<>>, macSource'.queue[j].gap # <<>>
        PROVE  i = j
    <3>1. PICK d \in {0, 1} : MacOneGap(d)
      BY DEF MacQueued
    <3>2. i + d = j + d
      BY <1>0, <2>4, <3>1 DEF MacOneGap, MacWaits
    <3>3. i \in Int /\ j \in Int /\ d \in Int
      OBVIOUS
    <3> QED
      BY <3>2, <3>3
  <2> QED
    BY <2>3, <2>4 DEF MacWaits
<1>10. ASSUME NEW i \in 1..Len(t) PROVE MacPendingAt(t[i])'
  <2>1. PICK r : r = t[i]
    OBVIOUS
  <2>2. CASE r = p
    <3>1. r.id \in MacInLog /\ r.id <= macReader'.read /\ r.at = macLog[r.id].at
          /\ r.id \notin MacIds(macSource.committed)
          /\ \E f \in Nat : f <= r.id /\ r.run = 2 * f
      <4>1. r.id = e /\ r.at = macLog[e].at /\ \E f \in Nat : f <= e /\ r.run = 2 * f
        BY <2>2 DEF MacQueued
      <4>2. e <= macReader'.read /\ e \notin MacIds(macSource.committed)
        BY <1>1, <1>5 DEF MacAccepted
      <4> QED
        BY <4>1, <4>2
    <3>2. \E k \in 1..Len(macSource'.queue) :
             r.id \in macSource'.queue[k].of /\ macSource'.queue[k].run = r.run
      BY <2>2 DEF MacQueued, MacQueuedItem
    <3>3. MacPendingAt(r)'
      BY <1>2, <1>3, <3>1, <3>2 DEF MacPendingAt, MacHasRead
    <3> QED
      BY <2>1, <3>3 DEF MacPendingAt
  <2>3. CASE \E j \in 1..Len(s) : r = s[j]
    <3>1. MacPendingAt(r)
      BY <1>0, <1>7, <2>3 DEF MacPendingOnce
    <3>2. r.id \in MacInLog /\ r.id <= macReader'.read /\ r.at = macLog[r.id].at
          /\ r.id \notin MacIds(macSource.committed)
          /\ \E f \in Nat : f <= r.id /\ r.run = 2 * f
      <4>1. r.id \in MacInLog /\ r.id <= macReader.read
        BY <3>1 DEF MacPendingAt
      <4>2. r.id \in Int /\ e \in Int /\ macReader.read \in Int /\ macReader.read < e
        BY <1>0, <1>1, <1>5, <4>1
      <4>3. r.id <= e
        BY <4>1, <4>2
      <4> QED
        BY <1>5, <3>1, <4>3 DEF MacPendingAt
    <3>3. \/ \E k \in 1..Len(macSource'.queue) :
               r.id \in macSource'.queue[k].of /\ macSource'.queue[k].run = r.run
          \/ \A k \in 1..Len(macSource'.queue) : \A x \in macSource'.queue[k].of : r.id < x
      <4>1. CASE \E j \in 1..Len(macSource.queue) :
                   r.id \in macSource.queue[j].of /\ macSource.queue[j].run = r.run
        <5>1. PICK j \in 1..Len(macSource.queue) :
                r.id \in macSource.queue[j].of /\ macSource.queue[j].run = r.run
          BY <4>1
        <5>2. MacStays(macSource.queue[j])
          BY DEF MacQueued
        <5> QED
          BY <5>1, <5>2 DEF MacStays
      <4>2. CASE \A j \in 1..Len(macSource.queue) : \A x \in macSource.queue[j].of : r.id < x
        <5>1. \A k \in 1..Len(macSource'.queue) : \A x \in macSource'.queue[k].of :
                x = e \/ \E j \in 1..Len(macSource.queue) : x \in macSource.queue[j].of
          BY DEF MacQueued, MacQueuedItem
        <5>2. r.id < e
          BY <1>0, <1>1, <1>5, <3>1 DEF MacPendingAt
        <5> QED
          BY <4>2, <5>1, <5>2
      <4> QED
        BY <3>1, <4>1, <4>2 DEF MacPendingAt
    <3>4. MacPendingAt(r)'
      BY <1>2, <1>3, <3>2, <3>3 DEF MacPendingAt, MacHasRead
    <3> QED
      BY <2>1, <3>4 DEF MacPendingAt
  <2> QED
    BY <1>8, <2>1, <2>2, <2>3
<1>11. MacPendingOnce'
  BY <1>7, <1>8, <1>10 DEF MacPendingOnce
<1> QED
  BY <1>4, <1>6, <1>9, <1>11 DEF MacOnce

\* What waits was read before.
LEMMA MacQueueRead ==
  ASSUME MacTyped, MacPresent
  PROVE  \A i \in 1..Len(macSource.queue) : \A f \in macSource.queue[i].of :
           f \in MacInLog /\ f <= macReader.read
BY DEF MacPresent, MacItems, MacGapItem, MacEntryItem

\* A new run is queued.
LEMMA MacOnceNew ==
  ASSUME MacOnce, MacIInv, NEW e \in MacInLog, MacHasRead(e), Mac!OfferNew(e), MacAccepted(e)
  PROVE  MacOnce'
<1>0. MacTyped /\ MacPresent /\ macReader.read \in Nat /\ macReader.read < e
      /\ Len(macSource.queue) \in Nat /\ \A f \in MacInLog : f \in Nat
  BY MacFields, MacNumbers DEF MacIInv, MacHasRead
<1>1. PICK s \in {0, 1}, x \in MacItem, p \in [run : Int, at : Nat, id : Int] :
         MacNewRun(e, s, x, p)
  BY <1>0, MacOfferNewGives
<1>2. PICK n \in Nat : n = Len(macSource.queue)
  BY <1>0
<1>3. /\ x.of = {e} /\ x.id = e /\ x.run = 2 * e /\ x.gap = <<>> /\ x.seq = 2 * e
      /\ p.id = e /\ p.run = 2 * e /\ p.at = macLog[e].at
      /\ s <= n /\ Len(macSource'.queue) = n - s + 1
      /\ macSource'.queue[n - s + 1] = x
      /\ \A i \in 1..n - s : macSource'.queue[i] = macSource.queue[i + s]
      /\ macSource'.pending = Mac!Bounded(macSource.pending, p)
      /\ macSource'.committed = macSource.committed
      /\ macSource'.watermark = macSource.watermark
  BY <1>1, <1>2 DEF MacNewRun
<1>4. \A i \in 1..n - s + 1 : i = n - s + 1 \/ (i \in 1..n - s /\ i + s \in 1..n)
  <2>1. ASSUME NEW i \in 1..n - s + 1, i # n - s + 1 PROVE i \in 1..n - s /\ i + s \in 1..n
    <3>1. i \in Int /\ n \in Int /\ s \in 0..1 /\ 1 <= i /\ i <= n - s + 1
      OBVIOUS
    <3> QED
      BY <2>1, <3>1
  <2> QED
    BY <2>1
<1>5. MacQueuedItem(e, p, x)
  BY <1>3 DEF MacQueuedItem
<1>6. \A f \in MacInLog : f <= macReader.read => f < e
  BY <1>0
<1>7. ASSUME NEW j \in 1..n PROVE MacStays(macSource.queue[j])
  <2>1. CASE j > s
    <3>1. j - s \in 1..n - s /\ j - s + s = j /\ j - s \in 1..n - s + 1
      BY <1>2, <2>1
    <3>2. macSource'.queue[j - s] = macSource.queue[j]
      BY <1>3, <3>1
    <3> QED
      BY <1>3, <3>1, <3>2 DEF MacStays
  <2>2. CASE j <= s
    <3>1. j = 1 /\ s = 1
      BY <1>1, <2>2
    <3>2. ASSUME NEW i \in 1..n - s + 1, NEW y \in macSource'.queue[i].of,
                 NEW f \in macSource.queue[j].of
          PROVE  f < y
      <4>1. f \in MacInLog /\ f <= macReader.read
        BY <1>0, <1>2, MacQueueRead
      <4>2. CASE i = n - s + 1
        <5>1. y = e
          BY <1>3, <4>2
        <5> QED
          BY <1>6, <4>1, <5>1
      <4>3. CASE i \in 1..n - s /\ i + s \in 1..n
        <5>1. y \in macSource.queue[i + s].of /\ j < i + s
          BY <1>3, <3>1, <4>3
        <5> QED
          BY <1>0, <1>2, <4>3, <5>1 DEF MacPresent, MacInOrder
      <4> QED
        BY <1>4, <4>2, <4>3
    <3> QED
      BY <1>3, <3>2 DEF MacStays
  <2> QED
    BY <1>1, <2>1, <2>2
<1>8. \A i \in 1..Len(macSource'.queue) :
         \/ \E j \in 1..Len(macSource.queue) : macSource'.queue[i] = macSource.queue[j]
         \/ MacQueuedItem(e, p, macSource'.queue[i])
  BY <1>2, <1>3, <1>4, <1>5
<1>9. \E i \in 1..Len(macSource'.queue) : MacQueuedItem(e, p, macSource'.queue[i])
  <2>1. n - s + 1 \in 1..Len(macSource'.queue)
    BY <1>1, <1>2, <1>3
  <2> QED
    BY <1>3, <1>5, <2>1
<1>10. MacOneGap(s)
  BY <1>2, <1>3, <1>4 DEF MacOneGap
<1>11. \E f \in Nat : f <= e /\ p.run = 2 * f
  BY <1>0, <1>3
<1>12. MacQueued(e, p)
  BY <1>1, <1>2, <1>3, <1>7, <1>8, <1>9, <1>10, <1>11 DEF MacQueued
<1> QED
  BY <1>1, <1>12, MacOnceQueued DEF MacPendingPlace

\* A run that gets one more entry.
LEMMA MacOnceMerged ==
  ASSUME MacOnce, MacIInv, NEW e \in MacInLog, MacHasRead(e), Mac!Merges(e),
         Mac!OfferMerged(e), MacAccepted(e)
  PROVE  MacOnce'
<1>0. /\ MacTyped /\ MacPresent /\ macReader.read \in Nat /\ macReader.read < e
      /\ macSource.queue # <<>> /\ \A f \in MacInLog : f \in Nat
  BY MacFields, MacNumbers DEF MacIInv, MacHasRead, Mac!Merges
<1>1. PICK n \in Nat \ {0}, last \in MacItem, x \in MacItem,
           p \in [run : Int, at : Nat, id : Int] : MacMerging(e, n, last, x, p)
  BY <1>0, MacOfferMergedGives
<1>2. /\ n = Len(macSource.queue) /\ last = macSource.queue[n]
      /\ x.of = last.of \cup {e} /\ x.id = e /\ x.run = last.run /\ x.gap = last.gap
      /\ x.seq = 2 * e
      /\ p.id = e /\ p.run = last.run /\ p.at = macLog[e].at
      /\ Len(macSource'.queue) = n /\ macSource'.queue[n] = x
      /\ \A i \in 1..n : i # n => macSource'.queue[i] = macSource.queue[i]
      /\ macSource'.pending = Mac!Bounded(macSource.pending, p)
      /\ macSource'.committed = macSource.committed
      /\ macSource'.watermark = macSource.watermark
  BY <1>1 DEF MacMerging
<1>3. MacEntryItem(last)
  <2>1. last.id > 0 /\ n \in 1..n
    BY <1>2 DEF Mac!Merges
  <2>2. last.id \in Int
    BY MacCheckpointFields
  <2> QED
    <3>1. MacGapItem(last) \/ MacEntryItem(last)
      BY <1>0, <1>2, <2>1 DEF MacPresent, MacItems
    <3> QED
      BY <2>1, <2>2, <3>1 DEF MacGapItem
<1>4. MacQueuedItem(e, p, x)
  BY <1>2, <1>3 DEF MacQueuedItem, MacEntryItem
<1>5. \A j \in 1..n : MacStays(macSource.queue[j])
  <2>1. ASSUME NEW j \in 1..n
        PROVE  macSource.queue[j].of \subseteq macSource'.queue[j].of
               /\ macSource'.queue[j].run = macSource.queue[j].run
    BY <1>2
  <2> QED
    BY <1>2, <2>1 DEF MacStays
<1>6. \A i \in 1..Len(macSource'.queue) :
         \/ \E j \in 1..Len(macSource.queue) : macSource'.queue[i] = macSource.queue[j]
         \/ MacQueuedItem(e, p, macSource'.queue[i])
  BY <1>2, <1>4
<1>7. \E i \in 1..Len(macSource'.queue) : MacQueuedItem(e, p, macSource'.queue[i])
  <2>1. n \in 1..Len(macSource'.queue)
    BY <1>2
  <2> QED
    BY <1>2, <1>4, <2>1
<1>8. MacOneGap(0)
  <2>1. ASSUME NEW i \in 1..n, macSource'.queue[i].gap # <<>>
        PROVE  i + 0 \in 1..n /\ macSource.queue[i + 0].gap # <<>>
    <3>1. i + 0 = i
      OBVIOUS
    <3>2. macSource'.queue[i].gap = macSource.queue[i].gap
      BY <1>2
    <3> QED
      BY <2>1, <3>1, <3>2
  <2> QED
    BY <1>2, <2>1 DEF MacOneGap
<1>9. \E f \in Nat : f <= e /\ p.run = 2 * f
  <2>1. PICK f \in last.of : last.run = 2 * f
    BY <1>3 DEF MacEntryItem
  <2>2. f \in MacInLog /\ f <= macReader.read
    BY <1>3, <2>1 DEF MacEntryItem
  <2>3. f \in Nat /\ f <= e
    BY <1>0, <2>2
  <2> QED
    BY <1>2, <2>1, <2>3
<1>10. MacQueued(e, p)
  BY <1>2, <1>5, <1>6, <1>7, <1>8, <1>9 DEF MacQueued
<1> QED
  BY <1>1, <1>10, MacOnceQueued DEF MacPendingPlace

\* An entry that is known.
LEMMA MacOnceKnown ==
  ASSUME MacOnce, MacIInv, NEW e \in MacInLog, MacHasRead(e), UNCHANGED macSource
  PROVE  MacOnce'
<1>0. /\ MacTyped /\ MacMemory /\ MacReads /\ MacWaits /\ MacPendingOnce
      /\ macReader.read \in Nat /\ macReader.read < e /\ e \in Nat
      /\ \A f \in MacInLog : f \in Nat
      /\ macReader'.stage = macReader.stage /\ macReader'.wm = macReader.wm
      /\ macReader'.read = e /\ UNCHANGED <<macLog, macTick, macDb>>
      /\ macLost'.untold = macLost.untold
  BY MacFields, MacNumbers DEF MacIInv, MacOnce, MacHasRead
<1>1. MacStoredSet' = MacStoredSet /\ MacDrainedSet' = MacDrainedSet /\ MacGaps' = MacGaps
      /\ MacInLog' = MacInLog /\ MacReported' = MacReported
  BY <1>0 DEF MacStoredSet, MacDrainedSet, MacReported, MacGaps, MacInLog
<1>2. \A x \in Int : (x <= macReader.read => x <= e) /\ (x > e => x > macReader.read)
  BY <1>0
<1>3. MacMemory'
  BY <1>0, <1>1 DEF MacMemory
<1>4. MacReads'
  <2>1. \A x \in 1..macReader.read : x \in 1..e
    BY <1>0
  <2>2. \A c \in MacIds(macSource.committed) : c > 0 => c \in MacInLog
    BY <1>0, MacOnceFields
  <2>3. \A c \in MacIds(macSource.committed) : c > 0 =>
         \/ c <= e
         \/ macReader.stage # "stream" /\ macLog[c].at <= macReader.wm
    <3>1. ASSUME NEW c \in MacIds(macSource.committed), c > 0
          PROVE  c <= e \/ (macReader.stage # "stream" /\ macLog[c].at <= macReader.wm)
      <4>1. c <= macReader.read \/ (macReader.stage # "stream" /\ macLog[c].at <= macReader.wm)
        BY <1>0, <3>1 DEF MacReads
      <4>2. c \in Int
        <5>1. c \in MacInLog
          BY <2>2, <3>1
        <5>2. c \in Nat
          BY <1>0, <5>1
        <5> QED
          BY <5>2
      <4> QED
        BY <1>2, <4>1, <4>2
    <3> QED
      BY <3>1
  <2>4. macReader.stage = "show" =>
          \A x \in MacInLog : x > e => MacReplays(x)'
    <3>1. \A x \in MacInLog : x > e => x > macReader.read
      <4>1. ASSUME NEW x \in MacInLog, x > e PROVE x > macReader.read
        <5>1. x \in Nat /\ e \in Nat /\ macReader.read \in Nat /\ macReader.read < e
          BY <1>0
        <5> QED
          BY <4>1, <5>1
      <4> QED
        BY <4>1
    <3> QED
      BY <1>0, <1>1, <3>1 DEF MacReads, MacReplays
  <2> QED
    BY <1>0, <1>1, <2>1, <2>3, <2>4 DEF MacReads
<1>5. MacWaits'
  BY <1>0, <1>1 DEF MacWaits, MacItemWaits, MacWaiting
<1>6. MacPendingOnce'
  <2>1. ASSUME NEW i \in 1..Len(macSource.pending) PROVE MacPendingAt(macSource.pending[i])'
    <3>1. MacPendingAt(macSource.pending[i])
      BY <1>0 DEF MacPendingOnce
    <3>2. macSource.pending[i].id \in MacInLog /\ macSource.pending[i].id <= macReader.read
      BY <3>1 DEF MacPendingAt
    <3>3. macSource.pending[i].id <= e
      <4>1. /\ macSource.pending[i].id \in Nat /\ e \in Nat /\ macReader.read \in Nat
            /\ macReader.read < e
        BY <1>0, <3>2
      <4> QED
        BY <3>2, <4>1
    <3> QED
      BY <1>0, <1>1, <3>1, <3>3 DEF MacPendingAt
  <2> QED
    BY <1>0, <2>1 DEF MacPendingOnce
<1> QED
  BY <1>3, <1>4, <1>5, <1>6 DEF MacOnce

\* Whatever an offer does.
LEMMA MacOnceOffered ==
  ASSUME MacOnce, MacIInv, NEW e \in MacInLog, MacHasRead(e), Mac!Offer(e)
  PROVE  MacOnce'
<1>1. CASE Mac!Known(e)
  <2>1. UNCHANGED macSource
    BY <1>1 DEF Mac!Offer
  <2> QED
    BY <2>1, MacOnceKnown
<1>2. CASE ~Mac!Known(e)
  <2>1. e \notin MacIds(macSource.committed)
    BY <1>2 DEF Mac!Known, MacIds
  <2>2. e > macReader.read
    <3>1. e \in Nat /\ macReader.read \in Nat
      BY MacNumbers, MacFields DEF MacIInv
    <3> QED
      BY <3>1 DEF MacHasRead
  <2>3. MacAccepted(e)
    BY <2>1, <2>2, MacOnceAccepts DEF MacHasRead
  <2>4. CASE Mac!Merges(e)
    <3>1. Mac!OfferMerged(e)
      BY <1>2, <2>4 DEF Mac!Offer
    <3> QED
      BY <2>3, <2>4, <3>1, MacOnceMerged
  <2>5. CASE ~Mac!Merges(e)
    <3>1. Mac!OfferNew(e)
      BY <1>2, <2>5 DEF Mac!Offer
    <3> QED
      BY <2>3, <3>1, MacOnceNew
  <2> QED
    BY <2>4, <2>5
<1> QED
  BY <1>1, <1>2

\* A line of `log stream`.
LEMMA MacOnceReadStream == ASSUME MacOnce, MacIInv, Mac!ReadStream PROVE MacOnce'
<1>0. MacTyped /\ macReader.read \in Nat /\ Len(macLog) \in Nat
  BY MacFields, MacNumbers DEF MacIInv
<1>1. PICK e \in MacInLog : e = macReader.read + 1
  <2>1. macReader.read + 1 \in 1..Len(macLog)
    <3>1. macReader.read < Len(macLog)
      BY DEF Mac!ReadStream
    <3>2. macReader.read + 1 <= Len(macLog) /\ macReader.read + 1 >= 1
          /\ macReader.read + 1 \in Int
      BY <1>0, <3>1
    <3> QED
      BY <1>0, <3>2
  <2> QED
    BY <2>1 DEF MacInLog
<1>2. MacHasRead(e) /\ Mac!Offer(e)
  <2>1. macReader'.read = e /\ macReader'.wm = macReader.wm
        /\ macReader'.stage = macReader.stage
    BY <1>0, <1>1 DEF Mac!ReadStream, MacTyped
  <2>2. macReader.read < e
    BY <1>0, <1>1
  <2> QED
    BY <1>0, <1>1, <2>1, <2>2, MacUntoldStays DEF MacHasRead, Mac!ReadStream
<1> QED
  BY <1>2, MacOnceOffered

\* A line of `log show`.
LEMMA MacOnceReadShow == ASSUME MacOnce, MacIInv, Mac!ReadShow PROVE MacOnce'
<1>0. /\ MacTyped /\ macReader.read \in Nat /\ Len(macLog) \in Nat /\ macPurged \in Nat
  BY MacFields, MacNumbers DEF MacIInv
<1>1. PICK e \in MacInLog : e = Mac!NextRetained /\ macReader.read < e
  <2>1. PICK e : e = Mac!NextRetained
    OBVIOUS
  <2>2. e \in Nat /\ e > macReader.read /\ e >= 1
    BY <1>0, <2>1 DEF Mac!NextRetained, Mac!Later
  <2>3. e \in MacInLog
    BY <1>0, <2>1, <2>2 DEF MacInLog, Mac!ReadShow
  <2> QED
    BY <1>0, <2>1, <2>2, <2>3
<1>2. macReader'.read = e /\ macReader'.wm = macReader.wm
      /\ macReader'.stage = macReader.stage
  BY <1>0, <1>1 DEF Mac!ReadShow, MacTyped
<1>3. MacHasRead(e) /\ Mac!Offer(e)
  BY <1>0, <1>1, <1>2, MacUntoldStays DEF MacHasRead, Mac!ReadShow
<1> QED
  BY <1>3, MacOnceOffered

\* The end of `log show` leaves the queue or heads it with a gap report.
LEMMA MacOnceEnqueued ==
  ASSUME MacOnce, MacIInv, macReader.stage = "show", UNCHANGED <<macLog, macTick, macDb>>,
         macLost'.untold = macLost.untold,
         macReader'.stage = "hand", macReader'.wm = macReader.wm, macReader'.read \in Nat,
         macReader.read <= macReader'.read, Mac!EnqueueGap
  PROVE  MacOnce'
<1>0. /\ MacTyped /\ MacPresent /\ MacShowing /\ MacMemory /\ MacReads /\ MacWaits
      /\ MacPendingOnce /\ macReader.wm \in Nat /\ macReader.read \in Nat
      /\ Len(macSource.queue) \in Nat /\ Len(macLog) \in Nat /\ Len(macLog) <= Others.log
      /\ \A f \in MacInLog : f \in Nat
      /\ \A c \in MacIds(macSource.committed) : c > 0 => c \in MacInLog
  BY MacFields, MacNumbers, MacOnceFields DEF MacIInv, MacOnce, MacTyped
<1>1. MacStoredSet' = MacStoredSet /\ MacDrainedSet' = MacDrainedSet /\ MacGaps' = MacGaps
      /\ MacInLog' = MacInLog /\ MacReported' = MacReported
  BY DEF MacStoredSet, MacDrainedSet, MacReported, MacGaps, MacInLog
<1> DEFINE Reports == /\ macReader.first > macReader.wm
                      /\ ~Mac!Known(Mac!GapId(macReader.wm, macReader.first))
<1>2. /\ macSource'.pending = macSource.pending
      /\ macSource'.committed = macSource.committed
      /\ macSource'.watermark = macSource.watermark
  <2>1. CASE Reports
    BY <1>0, <2>1, MacReportGives DEF MacReporting, MacReport
  <2>2. CASE ~Reports
    BY <2>2 DEF Mac!EnqueueGap
  <2> QED
    BY <2>1, <2>2
<1>3. MacMemory'
  BY <1>0, <1>1, <1>2 DEF MacMemory
<1>4. MacReads'
  <2>1. macTick'.batch.of \subseteq 1..macReader'.read
    BY <1>0 DEF MacReads
  <2>2. ASSUME NEW c \in MacIds(macSource.committed), c > 0
        PROVE  c <= macReader'.read \/ macLog[c].at <= macReader.wm
    <3>1. c <= macReader.read \/ macLog[c].at <= macReader.wm
      BY <1>0, <2>2 DEF MacReads
    <3>2. c \in Nat
      BY <1>0, <2>2
    <3> QED
      BY <1>0, <3>1, <3>2
  <2> QED
    BY <1>0, <1>2, <2>1, <2>2 DEF MacReads
<1>5. \A x : MacWaiting(x) => MacWaiting(x)'
  BY <1>1, <1>2 DEF MacWaiting
<1>6. /\ \A i \in 1..Len(macSource'.queue) : MacItemWaits(macSource.queue[i])'
      /\ \A i, j \in 1..Len(macSource'.queue) :
           macSource'.queue[i].gap # <<>> /\ macSource'.queue[j].gap # <<>> => i = j
      /\ \A j \in 1..Len(macSource.queue) : MacStays(macSource.queue[j])
      /\ \A k \in 1..Len(macSource'.queue) : \A y \in macSource'.queue[k].of :
           \E j \in 1..Len(macSource.queue) : y \in macSource.queue[j].of
  <2>0. \A j \in 1..Len(macSource.queue) : macSource.queue[j].gap = <<>>
    BY <1>0 DEF MacReads
  <2>1. CASE ~Reports
    <3>1. macSource' = macSource
      BY <2>1 DEF Mac!EnqueueGap
    <3>2. \A i \in 1..Len(macSource.queue) : MacItemWaits(macSource.queue[i])'
      BY <1>0, <1>2, <1>5, <3>1 DEF MacWaits, MacItemWaits
    <3> QED
      BY <2>0, <3>1, <3>2 DEF MacStays
  <2>2. CASE Reports
    <3>1. PICK s \in {0, 1}, x \in MacItem : MacReporting(s, x)
      BY <1>0, <2>2, MacReportGives
    <3>2. PICK n \in Nat : n = Len(macSource.queue)
      BY <1>0
    <3>3. /\ x.of = {} /\ x.id = Mac!GapId(x.gap[1], x.gap[2]) /\ x.id < 0 /\ x.gap # <<>>
          /\ x.seq = 2 * macReader.read + 1 /\ x.id \notin MacIds(macSource.committed)
          /\ s <= n /\ Len(macSource'.queue) = n - s + 1 /\ macSource'.queue[1] = x
          /\ \A i \in 1..n - s + 1 :
               i # 1 => macSource'.queue[i] = macSource.queue[i - 1 + s]
      <4>1. \A a, b : <<a, b>>[1] = a /\ <<a, b>>[2] = b /\ <<a, b>> # <<>>
        OBVIOUS
      <4>2. x.id \notin MacIds(macSource.committed)
        BY <2>2, <3>1 DEF Mac!Known, MacIds, MacReporting, MacReport
      <4> QED
        BY <3>1, <3>2, <4>1, <4>2 DEF MacReporting, MacReport
    <3>4. ASSUME NEW i \in 1..n - s + 1, i # 1
          PROVE  i - 1 + s \in 1..n /\ macSource'.queue[i] = macSource.queue[i - 1 + s]
      <4>1. i - 1 + s \in 1..n
        BY <3>3, <3>4
      <4> QED
        BY <3>3, <3>4, <4>1
    <3>5. macReader.read \in 0..Others.log
      <4>1. macReader.read <= Len(macLog) /\ Others.log \in Nat
        BY <1>0 DEF MacShowing, SourcesAssumption
      <4> QED
        BY <1>0, <4>1
    <3>6. ASSUME NEW i \in 1..n - s + 1 PROVE MacItemWaits(macSource.queue[i])'
      <4>1. CASE i = 1
        BY <1>2, <3>3, <3>5, <4>1 DEF MacItemWaits
      <4>2. CASE i # 1
        <5>1. i - 1 + s \in 1..n /\ macSource'.queue[i] = macSource.queue[i - 1 + s]
          BY <3>4, <4>2
        <5>2. MacItemWaits(macSource.queue[i - 1 + s])
          BY <1>0, <3>2, <5>1 DEF MacWaits
        <5> QED
          BY <1>2, <1>5, <5>1, <5>2 DEF MacItemWaits
      <4> QED
        BY <4>1, <4>2
    <3>7. \A i \in 1..n - s + 1 : macSource'.queue[i].gap # <<>> => i = 1
      BY <2>0, <3>2, <3>4
    <3>8. \A k \in 1..n - s + 1 : \A y \in macSource'.queue[k].of :
            k # 1 /\ y \in macSource.queue[k - 1 + s].of /\ k - 1 + s \in 1..n
      BY <3>3, <3>4
    <3>9. ASSUME NEW j \in 1..n PROVE MacStays(macSource.queue[j])
      <4>1. CASE j > s
        <5>1. PICK i \in 1..n - s + 1 : i = j + 1 - s /\ i # 1 /\ i - 1 + s = j
          <6>1. j + 1 - s \in 1..n - s + 1 /\ j + 1 - s # 1 /\ j + 1 - s - 1 + s = j
            BY <4>1
          <6> QED
            BY <6>1
        <5>2. macSource'.queue[i] = macSource.queue[j]
          BY <3>4, <5>1
        <5> QED
          BY <3>3, <5>2 DEF MacStays
      <4>2. CASE j <= s
        <5>1. j = 1 /\ s = 1
          BY <4>2
        <5>2. ASSUME NEW i \in 1..n - s + 1, NEW y \in macSource'.queue[i].of,
                     NEW f \in macSource.queue[j].of
              PROVE  f < y
          <6>1. i # 1 /\ y \in macSource.queue[i - 1 + s].of /\ i - 1 + s \in 1..n
                /\ j < i - 1 + s
            BY <3>8, <5>1
          <6> QED
            BY <1>0, <3>2, <6>1 DEF MacPresent, MacInOrder
        <5> QED
          BY <3>3, <5>2 DEF MacStays
      <4> QED
        BY <4>1, <4>2
    <3> QED
      BY <3>2, <3>3, <3>6, <3>7, <3>8, <3>9
  <2> QED
    BY <2>1, <2>2
<1>7. MacWaits'
  BY <1>6 DEF MacWaits
<1>8. ASSUME NEW i \in 1..Len(macSource.pending) PROVE MacPendingAt(macSource.pending[i])'
  <2>1. PICK r : r = macSource.pending[i] /\ MacPendingAt(r)
    BY <1>0 DEF MacPendingOnce
  <2>2. r.id <= macReader'.read
    <3>1. r.id \in Nat /\ r.id <= macReader.read
      BY <1>0, <2>1 DEF MacPendingAt
    <3> QED
      BY <1>0, <3>1
  <2>3. \/ \E k \in 1..Len(macSource'.queue) :
             r.id \in macSource'.queue[k].of /\ macSource'.queue[k].run = r.run
        \/ \A k \in 1..Len(macSource'.queue) : \A x \in macSource'.queue[k].of : r.id < x
    <3>1. CASE \E j \in 1..Len(macSource.queue) :
                 r.id \in macSource.queue[j].of /\ macSource.queue[j].run = r.run
      BY <1>6, <3>1 DEF MacStays
    <3>2. CASE \A j \in 1..Len(macSource.queue) : \A x \in macSource.queue[j].of : r.id < x
      BY <1>6, <3>2
    <3> QED
      BY <2>1, <3>1, <3>2 DEF MacPendingAt
  <2>4. MacPendingAt(r)'
    BY <1>1, <1>2, <2>1, <2>2, <2>3 DEF MacPendingAt
  <2> QED
    BY <1>2, <2>1, <2>4 DEF MacPendingAt
<1>9. MacPendingOnce'
  BY <1>0, <1>2, <1>8 DEF MacPendingOnce
<1> QED
  BY <1>3, <1>4, <1>7, <1>9 DEF MacOnce

\* `log show` has ended: a gap may be reported.
LEMMA MacOnceEndShow == ASSUME MacOnce, MacIInv, Mac!EndShow PROVE MacOnce'
<1>1. /\ macReader'.stage = "hand" /\ macReader'.wm = macReader.wm
      /\ macReader'.read = Len(macLog)
  BY DEF Mac!EndShow, MacIInv, MacTyped
<1>2. macReader'.read \in Nat /\ macReader.read <= macReader'.read
  BY <1>1, MacFields, MacNumbers DEF MacIInv, MacShowing
<1>3. macLost'.untold = macLost.untold
  BY MacUntoldStays DEF MacIInv
<1> QED
  BY <1>1, <1>2, <1>3, MacOnceEnqueued DEF Mac!EndShow

\* `log show` has failed: a gap may be reported.
LEMMA MacOnceBreakShow == ASSUME MacOnce, MacIInv, Mac!BreakShow PROVE MacOnce'
<1>1. /\ macReader'.stage = "hand" /\ macReader'.wm = macReader.wm
      /\ macReader'.read = macReader.read
  BY DEF Mac!BreakShow, MacIInv, MacTyped
<1>2. macReader'.read \in Nat /\ macReader.read <= macReader'.read
  BY <1>1, MacFields DEF MacIInv
<1>3. macLost'.untold = macLost.untold
  BY MacUntoldStays DEF MacIInv
<1> QED
  BY <1>1, <1>2, <1>3, MacOnceEnqueued DEF Mac!BreakShow

-----------------------------------------------------------------------------
\* An item is a run of entries or a gap report.
MacRunItem(q) ==
    /\ MacEntryItem(q) /\ q.id \in MacInLog /\ q.id > 0 /\ q.gap = <<>> /\ q.seq = 2 * q.id
MacReportItem(q) ==
    /\ q.of = {} /\ q.gap # <<>> /\ q.id < 0 /\ q.id = Mac!GapId(q.gap[1], q.gap[2])
    /\ \E x \in 0..Others.log : q.seq = 2 * x + 1

\* A queued item is a run of entries or the report of a gap.
LEMMA MacItemKinds ==
  ASSUME MacTyped, MacPresent, MacWaits, NEW j \in 1..Len(macSource.queue)
  PROVE  MacRunItem(macSource.queue[j]) \/ MacReportItem(macSource.queue[j])
<1>1. PICK q : q = macSource.queue[j]
  OBVIOUS
<1>2. (MacGapItem(q) \/ MacEntryItem(q)) /\ MacItemWaits(q)
  BY <1>1 DEF MacPresent, MacItems, MacWaits
<1>3. q \in MacItem /\ q.id \in Int
  BY <1>1, MacFields, MacCheckpointFields
<1>4. CASE q.gap = <<>>
  <2>1. q.id > 0 /\ q.seq = 2 * q.id
    BY <1>2, <1>4 DEF MacItemWaits
  <2>2. MacEntryItem(q)
    BY <1>2, <1>3, <2>1 DEF MacGapItem
  <2>3. MacRunItem(q)
    BY <1>4, <2>1, <2>2 DEF MacRunItem, MacEntryItem
  <2> QED
    BY <1>1, <2>3
<1>5. CASE q.gap # <<>>
  <2>1. q.of = {}
    BY <1>2, <1>5 DEF MacGapItem, MacEntryItem
  <2>2. MacReportItem(q)
    BY <1>2, <1>5, <2>1 DEF MacItemWaits, MacReportItem
  <2> QED
    BY <1>1, <2>2
<1> QED
  BY <1>4, <1>5

\* A pending entry that is queued belongs to the run of its item.
LEMMA MacPendingHome ==
  ASSUME MacTyped, MacPresent, NEW p, MacPendingAt(p), NEW j \in 1..Len(macSource.queue),
         p.id \in macSource.queue[j].of
  PROVE  macSource.queue[j].run = p.run
<1>0. p.id \in Nat
  BY MacNumbers DEF MacPendingAt
<1>1. ~(p.id < p.id)
  BY <1>0
<1>2. PICK i \in 1..Len(macSource.queue) :
         p.id \in macSource.queue[i].of /\ macSource.queue[i].run = p.run
  BY <1>1 DEF MacPendingAt
<1>3. i < j => p.id < p.id
  BY <1>2 DEF MacPresent, MacInOrder
<1>4. j < i => p.id < p.id
  BY <1>2 DEF MacPresent, MacInOrder
<1>5. i = j
  BY <1>1, <1>3, <1>4
<1> QED
  BY <1>2, <1>5

\* A pending entry of the run of an item is in that item.
LEMMA MacPendingIsHome ==
  ASSUME MacTyped, MacPresent, MacWaits, NEW p, MacPendingAt(p),
         NEW j \in 1..Len(macSource.queue), macSource.queue[j].run = p.run
  PROVE  p.id \in macSource.queue[j].of
<1>1. CASE \E i \in 1..Len(macSource.queue) :
             p.id \in macSource.queue[i].of /\ macSource.queue[i].run = p.run
  <2>1. PICK i \in 1..Len(macSource.queue) :
          p.id \in macSource.queue[i].of /\ macSource.queue[i].run = p.run
    BY <1>1
  <2>2. i = j
    BY <2>1, MacRunsApart
  <2> QED
    BY <2>1, <2>2
<1>2. CASE \A i \in 1..Len(macSource.queue) : \A x \in macSource.queue[i].of : p.id < x
  <2>1. PICK f \in Nat : f <= p.id /\ p.run = 2 * f
    BY DEF MacPendingAt
  <2>2. p.id \in Nat
    BY MacNumbers DEF MacPendingAt
  <2>3. CASE MacEntryItem(macSource.queue[j])
    <3>1. PICK g \in macSource.queue[j].of : macSource.queue[j].run = 2 * g
          /\ g \in MacInLog
      BY <2>3 DEF MacEntryItem
    <3>2. g \in Nat
      BY <3>1, MacNumbers
    <3>3. 2 * g = 2 * f
      BY <2>1, <3>1
    <3>4. g = f
      BY <3>2, <3>3
    <3>5. p.id < g
      BY <1>2, <3>1
    <3> QED
      BY <2>1, <2>2, <3>2, <3>4, <3>5
  <2>4. CASE MacGapItem(macSource.queue[j])
    <3>1. PICK x \in Nat : macSource.queue[j].run = 2 * x + 1
      BY <2>4 DEF MacGapItem
    <3>2. 2 * f = 2 * x + 1
      BY <2>1, <3>1
    <3> QED
      BY <3>2
  <2> QED
    BY <2>3, <2>4 DEF MacPresent, MacItems
<1> QED
  BY <1>1, <1>2 DEF MacPendingAt

\* What a drain of m items may remember: their entries, and a gap report.
MacEntryCandidate(r, m) ==
    /\ r.id \in MacInLog /\ r.seq = 2 * r.id /\ r.at = macLog[r.id].at
    /\ \E j \in 1..m : r.id \in macSource.queue[j].of
MacReportCandidate(r, m) ==
    \E j \in 1..m : /\ MacReportItem(macSource.queue[j])
                    /\ r.id = macSource.queue[j].id /\ r.seq = macSource.queue[j].seq
                    /\ r.at = macSource.queue[j].at

\* A candidate of the first m items is a pending entry of theirs or their report,
\* and their pending entries are candidates.
LEMMA MacCandidateKinds ==
  ASSUME MacTyped, MacPresent, MacWaits, MacPendingOnce, NEW m \in 1..Len(macSource.queue)
  PROVE  /\ \A r \in Mac!Candidates(MacDrained(m)) :
              /\ r.id \notin MacIds(macSource.committed)
              /\ MacEntryCandidate(r, m) \/ MacReportCandidate(r, m)
         /\ \A j \in 1..m : \A x \in macSource.queue[j].of : x \in MacIds(macSource.pending) =>
              \E r \in Mac!Candidates(MacDrained(m)) : r.id = x
<1>1. Len(macSource.queue) \in Nat /\ m \in Nat /\ \A i \in 1..m : i \in 1..Len(macSource.queue)
  BY MacFields
<1>2. PICK I : I = MacDrained(m)
  OBVIOUS
<1>3. \A q \in I : \E i \in 1..m : q = macSource.queue[i]
  BY <1>2 DEF MacDrained
<1> DEFINE runs == {q.run : q \in I}
           of(i) == [seq |-> 2 * macSource.pending[i].id, at |->
               macSource.pending[i].at, id |-> macSource.pending[i].id]
           kept == {of(i) : i \in {j \in 1..Len(macSource.pending) : macSource.pending[j].run \in runs}}
           own(q) == [seq |-> q.seq, at |-> q.at, id |-> q.id]
           rest == {own(q) : q \in {p \in I : \A k \in kept : k.id # p.id}}
<1>4. Mac!Candidates(I) = kept \cup rest
  BY DEF Mac!Candidates
<1>5. ASSUME NEW r \in kept
      PROVE  r.id \notin MacIds(macSource.committed) /\ MacEntryCandidate(r, m)
  <2>1. PICK i \in 1..Len(macSource.pending) : macSource.pending[i].run \in runs
        /\ r = of(i)
    OBVIOUS
  <2>2. PICK p : p = macSource.pending[i] /\ MacPendingAt(p)
    BY DEF MacPendingOnce
  <2>3. r.seq = 2 * p.id /\ r.at = p.at /\ r.id = p.id
    BY <2>1, <2>2
  <2>4. PICK h \in 1..m : macSource.queue[h].run = p.run
    <3>1. PICK q \in I : q.run = p.run
      BY <2>1, <2>2
    <3> QED
      BY <1>3, <3>1
  <2>5. p.id \in macSource.queue[h].of
    BY <1>1, <2>2, <2>4, MacPendingIsHome
  <2> QED
    BY <2>2, <2>3, <2>5 DEF MacPendingAt, MacEntryCandidate
<1>6. ASSUME NEW r \in rest
      PROVE  /\ r.id \notin MacIds(macSource.committed)
             /\ MacEntryCandidate(r, m) \/ MacReportCandidate(r, m)
  <2>1. PICK q \in I : r = own(q)
    OBVIOUS
  <2>2. PICK i \in 1..m : q = macSource.queue[i]
    BY <1>3
  <2>3. r.seq = q.seq /\ r.at = q.at /\ r.id = q.id
    BY <2>1
  <2>4. q.id \notin MacIds(macSource.committed)
    BY <1>1, <2>2 DEF MacWaits, MacItemWaits
  <2>5. CASE MacRunItem(q)
    BY <2>2, <2>3, <2>4, <2>5 DEF MacRunItem, MacEntryItem, MacEntryCandidate
  <2>6. CASE MacReportItem(q)
    BY <2>2, <2>3, <2>4, <2>6 DEF MacReportCandidate
  <2> QED
    BY <1>1, <2>2, <2>5, <2>6, MacItemKinds
<1>7. ASSUME NEW j \in 1..m, NEW x \in macSource.queue[j].of, x \in MacIds(macSource.pending)
      PROVE  \E r \in kept : r.id = x
  <2>1. PICK i \in 1..Len(macSource.pending) : x = macSource.pending[i].id
    BY <1>7 DEF MacIds
  <2>2. MacPendingAt(macSource.pending[i])
    BY DEF MacPendingOnce
  <2>3. macSource.queue[j].run = macSource.pending[i].run
    BY <1>1, <2>1, <2>2, MacPendingHome
  <2>4. macSource.queue[j] \in I
    BY <1>2 DEF MacDrained
  <2>5. of(i) \in kept /\ of(i).id = x
    BY <2>1, <2>3, <2>4
  <2> HIDE DEF kept
  <2> QED
    BY <2>5
<1> HIDE DEF kept, rest
<1> QED
  BY <1>2, <1>4, <1>5, <1>6, <1>7

\* They may be remembered after what was committed.
LEMMA MacDrainCandidacy ==
  ASSUME MacOnce, MacIInv, NEW m \in 1..Len(macSource.queue), NEW G,
         \A i \in 1..m : macSource.queue[i].gap # <<>> => macSource.queue[i].gap \in G
  PROVE  MacCandidacy(macLog, macSource.committed, Mac!Candidates(MacDrained(m)), G)
<1>0. /\ MacTyped /\ MacOrdered /\ MacPresent /\ MacMemory /\ MacWaits /\ MacPendingOnce
      /\ Len(macSource.queue) \in Nat /\ m \in Nat
      /\ \A i \in 1..m : i \in 1..Len(macSource.queue)
      /\ macLog \in MacLogs /\ MacInLog = 1..Len(macLog) /\ Len(macLog) \in Nat
      /\ Len(macLog) <= Others.log
      /\ \A e \in MacInLog : e \in Nat /\ e >= 1 /\ macLog[e].at \in Nat
  <2>1. /\ MacTyped /\ MacOrdered /\ MacPresent /\ MacMemory /\ MacWaits /\ MacPendingOnce
    BY DEF MacIInv, MacOnce
  <2>2. /\ macLog \in MacLogs /\ MacInLog = 1..Len(macLog) /\ Len(macLog) \in Nat
        /\ Len(macLog) <= Others.log
    BY <2>1, MacOnceFields DEF MacTyped
  <2>3. \A e \in MacInLog : e \in Nat /\ e >= 1 /\ macLog[e].at \in Nat
    BY <2>1, MacNumbers
  <2>4. Len(macSource.queue) \in Nat
    BY <2>1, MacFields
  <2>5. m \in Nat /\ \A i \in 1..m : i \in 1..Len(macSource.queue)
    BY <2>4
  <2> QED
    BY <2>1, <2>2, <2>3, <2>4, <2>5
<1>1. PICK R \in SUBSET MacCandidate : R = Mac!Candidates(MacDrained(m))
  BY <1>0, MacCandidatesHold
<1>2. \A r \in R : /\ r.id \notin MacIds(macSource.committed)
                   /\ MacEntryCandidate(r, m) \/ MacReportCandidate(r, m)
  BY <1>0, <1>1, MacCandidateKinds
<1>3. ASSUME NEW r \in R, MacReportCandidate(r, m)
      PROVE  /\ r.id < 0 /\ r.id \in Int /\ r.id \in MacGapIds(G)
             /\ \E x \in 0..Others.log : r.seq = 2 * x + 1
  <2>1. PICK j \in 1..m : MacReportItem(macSource.queue[j])
          /\ r.id = macSource.queue[j].id /\ r.seq = macSource.queue[j].seq
    BY <1>3 DEF MacReportCandidate
  <2>2. macSource.queue[j].gap \in G
    BY <2>1 DEF MacReportItem
  <2>3. r.id \in Int
    BY DEF MacCandidate
  <2> QED
    BY <2>1, <2>2, <2>3 DEF MacReportItem, MacGapIds
<1>4. \A r, q \in R : MacReportCandidate(r, m) /\ MacReportCandidate(q, m) =>
        r.id = q.id /\ r.seq = q.seq /\ r.at = q.at
  <2>1. ASSUME NEW r \in R, NEW q \in R, MacReportCandidate(r, m), MacReportCandidate(q, m)
        PROVE  r.id = q.id /\ r.seq = q.seq /\ r.at = q.at
    <3>1. PICK j \in 1..m : MacReportItem(macSource.queue[j])
            /\ r.id = macSource.queue[j].id /\ r.seq = macSource.queue[j].seq
            /\ r.at = macSource.queue[j].at
      BY <2>1 DEF MacReportCandidate
    <3>2. PICK i \in 1..m : MacReportItem(macSource.queue[i])
            /\ q.id = macSource.queue[i].id /\ q.seq = macSource.queue[i].seq
            /\ q.at = macSource.queue[i].at
      BY <2>1 DEF MacReportCandidate
    <3>3. i = j
      BY <1>0, <3>1, <3>2 DEF MacReportItem, MacWaits
    <3> QED
      BY <3>1, <3>2, <3>3
  <2> QED
    BY <2>1
<1>5. ASSUME NEW r \in R
      PROVE  /\ r.seq \in 1..Mac!LastSeq /\ MacPlaced(macLog, MacAsPlace(r), G)
             /\ r.id \notin MacIds(macSource.committed)
             /\ \A y \in MacIds(macSource.committed) : MacFollows(macLog, y, r.id)
  <2>0. Others.log \in Nat
    BY DEF SourcesAssumption
  <2>1. MacAsPlace(r).id = r.id /\ MacAsPlace(r).at = r.at
    BY DEF MacAsPlace
  <2>2. CASE MacEntryCandidate(r, m)
    <3>1. r.id \in Nat /\ r.id >= 1 /\ r.id <= Others.log /\ r.seq = 2 * r.id
      <4>1. r.id \in 1..Len(macLog) /\ r.seq = 2 * r.id
        BY <1>0, <2>2 DEF MacEntryCandidate
      <4> QED
        BY <1>0, <2>0, <4>1
    <3>2. r.seq \in 1..Mac!LastSeq
      BY <2>0, <3>1 DEF Mac!LastSeq
    <3>3. MacPlaced(macLog, MacAsPlace(r), G)
      BY <1>0, <2>1, <2>2, <3>1 DEF MacPlaced, MacEntryCandidate
    <3>4. PICK j \in 1..m : r.id \in macSource.queue[j].of
      BY <2>2 DEF MacEntryCandidate
    <3>5. MacWaiting(r.id)
      BY <1>0, <3>4 DEF MacWaits, MacItemWaits
    <3> QED
      BY <1>2, <3>2, <3>3, <3>5 DEF MacWaiting
  <2>3. CASE MacReportCandidate(r, m)
    <3>1. PICK x \in 0..Others.log : r.seq = 2 * x + 1
      BY <1>3, <2>3
    <3>2. r.seq \in 1..Mac!LastSeq
      BY <2>0, <3>1 DEF Mac!LastSeq
    <3>3. r.id < 0 /\ r.id \in Int /\ r.id \in MacGapIds(G)
      BY <1>3, <2>3
    <3>4. ~(r.id > 0)
      BY <3>3
    <3> QED
      BY <1>2, <2>1, <3>2, <3>3, <3>4 DEF MacPlaced, MacFollows
  <2> QED
    BY <1>2, <2>2, <2>3
<1>6. ASSUME NEW r \in R, NEW q \in R
      PROVE  /\ r.seq = q.seq => r = q
             /\ r.seq < q.seq => r.id # q.id /\ MacFollows(macLog, r.id, q.id)
  <2>0. /\ r \in [seq : Int, at : Nat, id : Int] /\ q \in [seq : Int, at : Nat, id : Int]
        /\ r.id \in Int /\ q.id \in Int
    BY DEF MacCandidate
  <2>e. r.id = q.id /\ r.seq = q.seq /\ r.at = q.at => r = q
    BY <2>0
  <2>1. CASE MacEntryCandidate(r, m) /\ MacEntryCandidate(q, m)
    <3>1. /\ r.id \in MacInLog /\ r.seq = 2 * r.id /\ r.at = macLog[r.id].at
          /\ q.id \in MacInLog /\ q.seq = 2 * q.id /\ q.at = macLog[q.id].at
      BY <2>1 DEF MacEntryCandidate
    <3>2. r.seq = q.seq => r.id = q.id
      BY <2>0, <3>1
    <3>3. r.seq < q.seq => r.id < q.id
      BY <2>0, <3>1
    <3>4. r.id < q.id => q.id \in MacRivals(macLog, r.id)
      <4>1. r.id < q.id => macLog[r.id].at <= macLog[q.id].at
        BY <1>0, <2>0, <3>1 DEF MacOrdered
      <4> QED
        BY <1>0, <3>1, <4>1, MacLaterRivals
    <3> QED
      BY <2>0, <2>e, <3>1, <3>2, <3>3, <3>4 DEF MacFollows
  <2>2. CASE MacReportCandidate(r, m) /\ MacReportCandidate(q, m)
    <3>1. r.id = q.id /\ r.seq = q.seq /\ r.at = q.at
      BY <1>4, <2>2
    <3>2. ~(r.seq < q.seq)
      <4>1. r.seq \in Int
        BY DEF MacCandidate
      <4> QED
        BY <3>1, <4>1
    <3> QED
      BY <2>e, <3>1, <3>2
  <2>3. CASE MacEntryCandidate(r, m) /\ MacReportCandidate(q, m)
    <3>1. r.id \in Nat /\ r.id >= 1 /\ r.seq = 2 * r.id
      BY <1>0, <2>3 DEF MacEntryCandidate
    <3>2. PICK x \in 0..Others.log : q.seq = 2 * x + 1
      BY <1>3, <2>3
    <3>3. q.id < 0
      BY <1>3, <2>3
    <3>4. r.seq # q.seq
      BY <3>1, <3>2
    <3> QED
      BY <2>0, <3>1, <3>3, <3>4 DEF MacFollows
  <2>4. CASE MacReportCandidate(r, m) /\ MacEntryCandidate(q, m)
    <3>1. q.id \in Nat /\ q.id >= 1 /\ q.seq = 2 * q.id
      BY <1>0, <2>4 DEF MacEntryCandidate
    <3>2. PICK x \in 0..Others.log : r.seq = 2 * x + 1
      BY <1>3, <2>4
    <3>3. r.id < 0
      BY <1>3, <2>4
    <3>4. r.seq # q.seq
      BY <3>1, <3>2
    <3> QED
      BY <2>0, <3>1, <3>3, <3>4 DEF MacFollows
  <2> QED
    BY <1>2, <2>1, <2>2, <2>3, <2>4
<1>7. MacCandidacy(macLog, macSource.committed, R, G)
  BY <1>5, <1>6 DEF MacCandidacy
<1> QED
  BY <1>1, <1>7

\* The entries and the gaps of the first m items.
MacDrainedOf(m)   == UNION {q.of : q \in MacDrained(m)}
MacDrainedGaps(m) == {q.gap : q \in MacDrained(m)} \ {<<>>}

\* Membership in these, their bounds and finiteness.
LEMMA MacDrainedParts ==
  ASSUME MacTyped, MacPresent, MacWaits, NEW m \in 1..Len(macSource.queue)
  PROVE  /\ \A e : e \in MacDrainedOf(m) <=> \E j \in 1..m : e \in macSource.queue[j].of
         /\ \A g : g \in MacDrainedGaps(m) <=>
              g # <<>> /\ \E j \in 1..m : g = macSource.queue[j].gap
         /\ \A e \in MacDrainedOf(m) : e \in MacInLog /\ e <= macReader.read
         /\ IsFiniteSet(MacDrainedGaps(m))
<1>0. Len(macSource.queue) \in Nat /\ m \in Nat /\ \A i \in 1..m : i \in 1..Len(macSource.queue)
  BY MacFields
<1>1. \A e : e \in MacDrainedOf(m) <=> \E j \in 1..m : e \in macSource.queue[j].of
  BY DEF MacDrainedOf, MacDrained
<1>2. \A g : g \in MacDrainedGaps(m) <=>
        g # <<>> /\ \E j \in 1..m : g = macSource.queue[j].gap
  BY DEF MacDrainedGaps, MacDrained
<1>3. \A e \in MacDrainedOf(m) : e \in MacInLog /\ e <= macReader.read
  BY <1>0, <1>1, MacQueueRead
<1>4. IsFiniteSet(MacDrainedGaps(m))
  <2>1. CASE MacDrainedGaps(m) = {}
    BY <2>1, FS_EmptySet
  <2>2. CASE MacDrainedGaps(m) # {}
    <3>1. PICK g : g \in MacDrainedGaps(m)
      BY <2>2
    <3>2. PICK j \in 1..m : g = macSource.queue[j].gap /\ g # <<>>
      BY <1>2, <3>1
    <3>3. ASSUME NEW h \in MacDrainedGaps(m) PROVE h = g
      <4>1. PICK i \in 1..m : h = macSource.queue[i].gap /\ h # <<>>
        BY <1>2
      <4>2. i = j
        BY <1>0, <3>2, <4>1 DEF MacWaits
      <4> QED
        BY <3>2, <4>1, <4>2
    <3>4. MacDrainedGaps(m) = {g}
      BY <3>1, <3>3
    <3>5. IsFiniteSet({g})
      BY FS_Singleton
    <3> QED
      BY <3>4, <3>5
  <2> QED
    BY <2>1, <2>2
<1> QED
  BY <1>1, <1>2, <1>3, <1>4

\* What is remembered after the drain, and what is crowded out.
MacRemembers(m, w, C, G) ==
    /\ C \in Seq(MacPlace) /\ w \in Nat /\ macSource.watermark <= w /\ IsFiniteSet(G)
    /\ MacReported \subseteq G
    /\ \A y \in MacIds(C) :
         \/ y \in MacIds(macSource.committed)
         \/ y > 0 /\ y \in MacInLog /\ \E j \in 1..m : y \in macSource.queue[j].of
         \/ y < 0 /\ \E j \in 1..m : MacReportItem(macSource.queue[j]) /\ y = macSource.queue[j].id
    /\ \A e \in MacIds(macSource.committed) : e > 0 =>
         e \in MacIds(C) \/ MacCrowded(macLog, e, G)
    /\ MacKeeps(macLog, C, w, G, MacStoredSet \cup MacDrainedOf(m))

\* The new committed identities remember what was stored and what was drained.
LEMMA MacDrainRemembers ==
  ASSUME MacOnce, MacIInv, NEW m \in 1..Len(macSource.queue), NEW w, NEW C, NEW G,
         w = Mac!Watermark(MacDrained(m)), macTick.batch = Mac!Nothing,
         C = Mac!Remembered(macSource.committed, Mac!Candidates(MacDrained(m))),
         G = MacReported \cup MacDrainedGaps(m)
  PROVE  MacRemembers(m, w, C, G)
<1>0. /\ MacTyped /\ MacOrdered /\ MacPresent /\ MacMemory /\ MacWaits /\ MacPendingOnce
      /\ Len(macSource.queue) \in Nat /\ m \in Nat /\ m <= Len(macSource.queue)
      /\ \A i \in 1..m : i \in 1..Len(macSource.queue)
      /\ macLog \in MacLogs /\ MacInLog = 1..Len(macLog) /\ Len(macLog) \in Nat
      /\ \A e \in MacInLog : e \in Nat /\ e >= 1 /\ macLog[e].at \in Nat
      /\ macSource.watermark \in Nat /\ IsFiniteSet(MacReported)
      /\ MacStoredSet \in SUBSET (1..Len(macLog))
  <2>1. /\ MacTyped /\ MacOrdered /\ MacPresent /\ MacMemory /\ MacWaits /\ MacPendingOnce
    BY DEF MacIInv, MacOnce
  <2>2. /\ macLog \in MacLogs /\ MacInLog = 1..Len(macLog) /\ Len(macLog) \in Nat
        /\ macSource.watermark \in Nat /\ IsFiniteSet(MacReported)
        /\ MacStoredSet \in SUBSET (1..Len(macLog))
    BY <2>1, MacOnceFields
  <2>3. \A e \in MacInLog : e \in Nat /\ e >= 1 /\ macLog[e].at \in Nat
    BY <2>1, MacNumbers
  <2>4. Len(macSource.queue) \in Nat
    BY <2>1, MacFields
  <2>5. m \in Nat /\ m <= Len(macSource.queue) /\ \A i \in 1..m : i \in 1..Len(macSource.queue)
    BY <2>4
  <2> QED
    BY <2>1, <2>2, <2>3, <2>4, <2>5
<1>1. PICK R \in SUBSET MacCandidate : R = Mac!Candidates(MacDrained(m))
  BY <1>0, MacCandidatesHold
<1>2. PICK K \in Seq(MacPlace) : K = macSource.committed
  BY <1>0, MacFields
<1>3. /\ \A e : e \in MacDrainedOf(m) <=> \E j \in 1..m : e \in macSource.queue[j].of
      /\ \A g : g \in MacDrainedGaps(m) <=>
           g # <<>> /\ \E j \in 1..m : g = macSource.queue[j].gap
      /\ \A e \in MacDrainedOf(m) : e \in MacInLog /\ e <= macReader.read
      /\ IsFiniteSet(MacDrainedGaps(m))
  BY <1>0, MacDrainedParts
<1>4. IsFiniteSet(G) /\ MacReported \subseteq G /\ MacDrainedGaps(m) \subseteq G
  BY <1>0, <1>3, FS_Union
<1>5. MacGaps = MacReported /\ MacDrainedSet = MacStoredSet
  BY DEF MacGaps, MacDrainedSet, Mac!Nothing
<1>6. MacKeeps(macLog, K, macSource.watermark, G, MacStoredSet)
  <2>1. MacKeeps(macLog, K, macSource.watermark, MacReported, MacStoredSet)
    BY <1>0, <1>2, <1>5 DEF MacMemory
  <2>2. Len(macLog) <= Len(macLog)
    BY <1>0
  <2> QED
    BY <1>0, <1>4, <2>1, <2>2, MacKeepsGrows
<1>7. MacCandidacy(macLog, K, R, G)
  BY <1>1, <1>2, <1>3, <1>4, MacDrainCandidacy
<1>8. C \in Seq(MacPlace) /\ MacSoFar(macLog, C, K, R, Mac!LastSeq, G)
  <2>1. MacDeque(macLog, K, G)
    BY <1>6 DEF MacKeeps
  <2>2. MacSoFar(macLog, Mac!Remembered(K, R), K, R, Mac!LastSeq, G)
    BY <1>0, <1>4, <1>7, <2>1, MacRememberedDeque
  <2>3. Mac!Remembered(K, R) \in Seq(MacPlace)
    BY MacRememberedHolds
  <2> QED
    BY <1>1, <1>2, <2>2, <2>3
<1>9. w \in Nat /\ macSource.watermark <= w /\ \A i \in 1..m : macSource.queue[i].at <= w
  BY <1>0, MacWatermarkHolds
<1>10. \A r \in R : MacEntryCandidate(r, m) \/ MacReportCandidate(r, m)
  BY <1>0, <1>1, MacCandidateKinds
<1>11. \A j \in 1..m : \A x \in macSource.queue[j].of : x \in MacIds(macSource.pending) =>
         \E r \in R : r.id = x
  BY <1>0, <1>1, MacCandidateKinds
<1>12. ASSUME NEW y \in MacIds(C)
       PROVE  \/ y \in MacIds(K)
              \/ y > 0 /\ y \in MacInLog /\ \E j \in 1..m : y \in macSource.queue[j].of
              \/ y < 0 /\ \E j \in 1..m : MacReportItem(macSource.queue[j])
                                          /\ y = macSource.queue[j].id
  <2>1. CASE \E r \in R : y = r.id
    <3>1. PICK r \in R : y = r.id
      BY <2>1
    <3>2. CASE MacEntryCandidate(r, m)
      BY <1>0, <3>1, <3>2 DEF MacEntryCandidate
    <3>3. CASE MacReportCandidate(r, m)
      BY <3>1, <3>3 DEF MacReportCandidate, MacReportItem
    <3> QED
      BY <1>10, <3>2, <3>3
  <2> QED
    BY <1>8, <2>1 DEF MacSoFar
<1>13. \A e \in MacIds(K) : e > 0 => e \in MacIds(C) \/ MacCrowded(macLog, e, G)
  BY <1>8 DEF MacSoFar
<1>14. ASSUME NEW e \in MacDrainedOf(m)
       PROVE  e \in MacIds(C) \/ MacCrowded(macLog, e, G)
  <2>1. PICK j \in 1..m : e \in macSource.queue[j].of
    BY <1>3
  <2>2. MacWaiting(e) /\ e \in 1..Len(macLog) /\ e > 0
    BY <1>0, <1>3, <2>1 DEF MacWaits, MacItemWaits
  <2>3. CASE e \in MacIds(macSource.pending)
    <3>1. PICK r \in R : r.id = e
      BY <1>11, <2>1, <2>3
    <3>2. r.seq <= Mac!LastSeq
      BY <1>7 DEF MacCandidacy, Mac!LastSeq, SourcesAssumption
    <3> QED
      BY <1>8, <2>2, <3>1, <3>2 DEF MacSoFar
  <2>4. CASE MacCrowded(macLog, e, {})
    <3>1. {} \subseteq G /\ Len(macLog) <= Len(macLog)
      BY <1>0
    <3> QED
      BY <1>0, <1>4, <2>2, <2>4, <3>1, MacCrowdedKept
  <2> QED
    BY <2>2, <2>3, <2>4 DEF MacWaiting
<1>15. MacDeque(macLog, C, G)
  BY <1>8 DEF MacSoFar
<1>16. ASSUME NEW i \in 1..Len(C), C[i].id > 0 PROVE C[i].at <= w
  <2>0. C[i].id \in MacIds(C) /\ C[i].id \in 1..Len(macLog) /\ C[i].at = macLog[C[i].id].at
    BY <1>15, <1>16 DEF MacDeque, MacPlaced, MacIds
  <2>1. CASE C[i].id \in MacIds(K)
    <3>1. PICK k \in 1..Len(K) : K[k].id = C[i].id
      BY <2>1 DEF MacIds
    <3>2. K[k].at = macLog[C[i].id].at /\ K[k].at <= macSource.watermark
      BY <1>6, <1>16, <3>1 DEF MacKeeps, MacDeque, MacPlaced
    <3>3. macLog[C[i].id].at \in Nat
      BY <1>0, <2>0
    <3> QED
      BY <1>0, <1>9, <2>0, <3>2, <3>3
  <2>2. CASE \E j \in 1..m : C[i].id \in macSource.queue[j].of
    <3>1. PICK j \in 1..m : C[i].id \in macSource.queue[j].of
      BY <2>2
    <3>2. MacEntryItem(macSource.queue[j])
      BY <1>0, <3>1 DEF MacPresent, MacItems, MacGapItem
    <3>3. /\ macSource.queue[j].id \in MacInLog /\ C[i].id <= macSource.queue[j].id
          /\ macSource.queue[j].at = macLog[macSource.queue[j].id].at
      BY <3>1, <3>2 DEF MacEntryItem
    <3>4. macLog[C[i].id].at <= macLog[macSource.queue[j].id].at
      BY <1>0, <2>0, <3>3 DEF MacOrdered
    <3>5. macLog[C[i].id].at \in Nat /\ macLog[macSource.queue[j].id].at \in Nat
          /\ macLog[macSource.queue[j].id].at <= w
      BY <1>0, <1>9, <2>0, <3>3
    <3>6. PICK a \in Nat, b \in Nat : a = C[i].at /\ b = macLog[macSource.queue[j].id].at
      BY <2>0, <3>5
    <3>7. a <= b /\ b <= w
      BY <2>0, <3>4, <3>5, <3>6
    <3>8. PICK c \in Nat : c = w
      BY <1>9
    <3>9. b <= c
      BY <3>7, <3>8
    <3>10. a <= c
      <4>1. a <= b
        BY <3>7
      <4> QED
        BY <4>1, <3>9
    <3> QED
      BY <3>6, <3>8, <3>10
  <2>3. ~(C[i].id < 0)
    BY <1>0, <2>0
  <2> QED
    BY <1>12, <2>0, <2>1, <2>2, <2>3
<1>17. ASSUME NEW e \in MacStoredSet \cup MacDrainedOf(m)
       PROVE  MacUnforgotten(macLog, e, C, w, G)
  <2>1. CASE e \in MacStoredSet
    <3>1. MacUnforgotten(macLog, e, K, macSource.watermark, G)
      BY <1>6, <2>1 DEF MacKeeps
    <3>2. e \in MacInLog /\ e > 0 /\ macLog[e].at \in Nat
      BY <1>0, <2>1
    <3>3. macLog[e].at < macSource.watermark - Overlap => macLog[e].at < w - Overlap
      <4>1. Overlap \in Nat
        BY DEF SourcesAssumption
      <4> QED
        BY <1>0, <1>9, <3>2, <4>1
    <3> QED
      BY <1>13, <3>1, <3>2, <3>3 DEF MacUnforgotten
  <2>2. CASE e \in MacDrainedOf(m)
    BY <1>14, <2>2 DEF MacUnforgotten
  <2> QED
    BY <2>1, <2>2
<1>18. MacKeeps(macLog, C, w, G, MacStoredSet \cup MacDrainedOf(m))
  BY <1>15, <1>16, <1>17 DEF MacKeeps
<1> QED
  BY <1>2, <1>4, <1>8, <1>9, <1>12, <1>13, <1>18 DEF MacRemembers

\* A drain of the first m items.
MacDrains(m, w, C, c, of, gaps) ==
    /\ MacDraining(m, w, C, c, of, gaps) /\ macTick.stage = "drain"
    /\ UNCHANGED <<macLog, macPurged, macReader, macDb, macLost>>

\* The state after it.
MacDrainedState(n, m, w, C, c, G) ==
    /\ n = Len(macSource.queue) /\ n \in Nat /\ m \in Nat /\ m <= n /\ m >= 1
    /\ Len(macSource'.queue) = n - m
    /\ \A i \in 1..n - m : i + m \in 1..n /\ macSource'.queue[i] = macSource.queue[i + m]
    /\ macSource'.committed = C /\ macSource'.watermark = w
    /\ macTick'.last = c /\ macTick'.batch.of = MacDrainedOf(m)
       /\ macTick'.batch.gaps = MacDrainedGaps(m)
    /\ MacInLog' = MacInLog /\ MacStoredSet' = MacStoredSet /\ MacDrainedSet = MacStoredSet
    /\ MacReported' = MacReported
    /\ MacDrainedSet' = MacStoredSet \cup MacDrainedOf(m)
    /\ MacGaps' = G /\ G = MacReported \cup MacDrainedGaps(m)
    /\ c.wm = w /\ c.ids = Mac!Encoded(w, C).ids
    /\ MacRemembers(m, w, C, G)

\* Every drain leads to such a state.
LEMMA MacDrainsTo ==
  ASSUME MacOnce, MacIInv, NEW m \in 1..Len(macSource.queue), NEW w, NEW C, NEW c, NEW of,
         NEW gaps, MacDrains(m, w, C, c, of, gaps)
  PROVE  \E n, G : MacDrainedState(n, m, w, C, c, G)
<1>0. /\ MacTyped /\ MacOrdered /\ MacPresent /\ MacBatch
      /\ macTick.stage = "drain" /\ MacDraining(m, w, C, c, of, gaps)
      /\ UNCHANGED <<macLog, macPurged, macReader, macDb, macLost>>
  BY DEF MacIInv, MacPast, MacDrains
<1>1. /\ macTick'.last = c /\ macTick'.batch.of = of /\ macTick'.batch.gaps = gaps
      /\ macSource'.committed = C /\ macSource'.watermark = w
      /\ Len(macSource'.queue) = Len(macSource.queue) - m
      /\ \A i \in 1..Len(macSource.queue) - m : macSource'.queue[i] = macSource.queue[i + m]
      /\ c.wm = w
  BY <1>0, MacDrainedTypes
<1>2. PICK n \in Nat : n = Len(macSource.queue)
  BY <1>0, MacFields
<1>3. m \in Nat /\ m <= n /\ m >= 1 /\ \A i \in 1..n - m : i + m \in 1..n
  BY <1>2
<1>4. PICK G : G = MacReported \cup MacDrainedGaps(m)
  OBVIOUS
<1>5. macTick.batch = Mac!Nothing
  BY <1>0 DEF MacBatch
<1>6. of = MacDrainedOf(m) /\ gaps = MacDrainedGaps(m)
      /\ w = Mac!Watermark(MacDrained(m))
      /\ C = Mac!Remembered(macSource.committed, Mac!Candidates(MacDrained(m)))
      /\ c = Mac!Encoded(w, C)
  BY <1>0 DEF MacDraining, MacDrainedOf, MacDrainedGaps
<1>7. MacRemembers(m, w, C, G)
  BY <1>4, <1>5, <1>6, MacDrainRemembers
<1>8. MacInLog' = MacInLog /\ MacStoredSet' = MacStoredSet /\ MacDrainedSet = MacStoredSet
      /\ MacDrainedSet' = MacStoredSet \cup of /\ MacGaps' = MacReported \cup gaps
      /\ MacReported' = MacReported
  BY <1>0, <1>1, <1>5
  DEF MacInLog, MacStoredSet, MacDrainedSet, MacReported, MacGaps, Mac!Nothing
<1>9. MacDrainedState(n, m, w, C, c, G)
  BY <1>1, <1>2, <1>3, <1>4, <1>6, <1>7, <1>8 DEF MacDrainedState
<1> QED
  BY <1>9

\* A drain keeps what the checkpoints remember ...
LEMMA MacDrainMemory ==
  ASSUME MacOnce, MacIInv, NEW n, NEW m \in 1..Len(macSource.queue), NEW w, NEW C, NEW c,
         NEW G, MacDrainedState(n, m, w, C, c, G), UNCHANGED <<macLog, macReader, macDb>>
  PROVE  MacMemory'
<1>0. /\ MacTyped /\ MacMemory /\ MacWaits /\ MacPresent
      /\ macLog \in MacLogs /\ MacInLog = 1..Len(macLog)
      /\ MacStoredSet \in SUBSET (1..Len(macLog))
  BY MacOnceFields DEF MacIInv, MacOnce
<1>1. /\ MacDrainedOf(m) \in SUBSET (1..Len(macLog)) /\ IsFiniteSet(MacDrainedGaps(m))
  BY <1>0, MacDrainedParts
<1>2. PICK E \in SUBSET (1..Len(macLog)) : E = MacStoredSet \cup MacDrainedOf(m)
  BY <1>0, <1>1
<1>3. C \in Seq(MacPlace) /\ w \in Nat /\ MacKeeps(macLog, C, w, G, E)
  BY <1>2 DEF MacDrainedState, MacRemembers
<1>4. MacKeeps(macLog, Mac!Encoded(w, C).ids, w, G, E)
  BY <1>0, <1>3, MacEncodedKeeps
<1>5. /\ MacStoredSet' = MacStoredSet /\ MacDrainedSet' = E /\ MacGaps' = G
      /\ MacInLog' = MacInLog /\ MacReported' = MacReported
      /\ macTick'.last.wm = w /\ macTick'.last.ids = Mac!Encoded(w, C).ids
      /\ macSource'.committed = C /\ macSource'.watermark = w
      /\ macTick'.batch.gaps = MacDrainedGaps(m)
  BY <1>2 DEF MacDrainedState
<1>6. MacKeeps(macLog, macDb.cursor.ids, macDb.cursor.wm, MacReported, MacStoredSet)
      /\ IsFiniteSet(MacReported)
  BY <1>0 DEF MacMemory
<1> QED
  BY <1>0, <1>1, <1>3, <1>4, <1>5, <1>6 DEF MacMemory

\* ... what the reader has read or replays ...
LEMMA MacDrainReads ==
  ASSUME MacOnce, MacIInv, NEW n, NEW m \in 1..Len(macSource.queue), NEW w, NEW C, NEW c,
         NEW G, MacDrainedState(n, m, w, C, c, G), UNCHANGED <<macLog, macReader, macDb>>
  PROVE  MacReads'
<1>0. /\ MacTyped /\ MacMemory /\ MacWaits /\ MacPresent /\ MacReads
      /\ macLog \in MacLogs /\ MacInLog = 1..Len(macLog)
      /\ MacStoredSet \in SUBSET (1..Len(macLog))
      /\ macReader.wm \in Nat /\ macReader.read \in Nat /\ macSource.watermark \in Nat
      /\ \A e \in MacInLog : e \in Nat /\ e >= 1
  BY MacFields, MacNumbers, MacOnceFields DEF MacIInv, MacOnce
<1>1. MacRemembers(m, w, C, G)
  BY DEF MacDrainedState
<1>2. /\ \A e \in MacDrainedOf(m) : e \in MacInLog /\ e <= macReader.read
      /\ \A g : g \in MacDrainedGaps(m) <=>
           g # <<>> /\ \E j \in 1..m : g = macSource.queue[j].gap
      /\ \A e : e \in MacDrainedOf(m) <=> \E j \in 1..m : e \in macSource.queue[j].of
  BY <1>0, MacDrainedParts
<1>3. MacDrainedOf(m) \subseteq 1..macReader.read
  <2>1. ASSUME NEW e \in MacDrainedOf(m) PROVE e \in 1..macReader.read
    <3>1. e \in Nat /\ e >= 1 /\ e <= macReader.read
      BY <1>0, <1>2
    <3> QED
      BY <1>0, <3>1
  <2> QED
    BY <2>1
<1>4. macReader.wm <= w
  BY <1>0, <1>1 DEF MacReads, MacRemembers
<1>5. ASSUME NEW y \in MacIds(C), y > 0
      PROVE  y <= macReader.read \/ (macReader.stage # "stream" /\ macLog[y].at <= macReader.wm)
  <2>1. CASE y \in MacIds(macSource.committed)
    BY <1>0, <1>5, <2>1 DEF MacReads
  <2>2. CASE \E j \in 1..m : y \in macSource.queue[j].of
    BY <1>2, <2>2
  <2>3. CASE y < 0 /\ \E j \in 1..m : MacReportItem(macSource.queue[j]) /\ y = macSource.queue[j].id
    <3>1. PICK j \in 1..Len(macSource.queue) : y = macSource.queue[j].id
      BY <1>0, <2>3 DEF MacDrainedState
    <3>2. y \in Int
      BY <1>0, <3>1, MacFields, MacCheckpointFields
    <3> QED
      BY <1>5, <2>3, <3>2
  <2> QED
    BY <1>1, <2>1, <2>2, <2>3 DEF MacRemembers
<1>6. ASSUME macReader.stage = "show"
      PROVE  /\ MacDrainedGaps(m) = {}
             /\ \A i \in 1..n - m : macSource'.queue[i].gap = <<>>
             /\ \A e \in MacInLog : e > macReader.read => MacReplays(e)'
  <2>1. \A i \in 1..Len(macSource.queue) : macSource.queue[i].gap = <<>>
    BY <1>0, <1>6 DEF MacReads
  <2>2. \A j \in 1..m : j \in 1..Len(macSource.queue)
    BY DEF MacDrainedState
  <2>3. MacDrainedGaps(m) = {}
    BY <1>2, <2>1, <2>2
  <2>4. \A i \in 1..n - m : macSource'.queue[i].gap = <<>>
    BY <2>1 DEF MacDrainedState
  <2>5. ASSUME NEW e \in MacInLog, e > macReader.read PROVE MacReplays(e)'
    <3>1. MacReplays(e)
      BY <1>0, <1>6, <2>5 DEF MacReads
    <3>2. e \notin MacDrainedOf(m)
      <4>1. e \in Nat
        BY <1>0
      <4> QED
        BY <1>0, <1>2, <2>5, <4>1
    <3>3. G = MacReported
      BY <2>3 DEF MacDrainedState
    <3>4. ASSUME e \in MacStoredSet
          PROVE  MacUnforgotten(macLog, e, C, macReader.wm, MacReported)
      <4>1. MacUnforgotten(macLog, e, macSource.committed, macReader.wm, MacReported)
        BY <3>1, <3>4 DEF MacReplays, MacDrainedState
      <4>2. e > 0
        BY <1>0
      <4> QED
        BY <1>1, <3>3, <4>1, <4>2 DEF MacUnforgotten, MacRemembers
    <3> QED
      BY <3>1, <3>2, <3>4 DEF MacReplays, MacDrainedState
  <2> QED
    BY <2>3, <2>4, <2>5
<1>7. macReader.stage = "stream" => MacStoredSet \cup MacDrainedOf(m) \subseteq 1..macReader.read
  BY <1>0, <1>3 DEF MacReads, MacDrainedState
<1>8. /\ macTick'.batch.of = MacDrainedOf(m) /\ macSource'.watermark = w
      /\ macSource'.committed = C /\ macTick'.batch.gaps = MacDrainedGaps(m)
      /\ Len(macSource'.queue) = n - m /\ MacInLog' = MacInLog
      /\ MacDrainedSet' = MacStoredSet \cup MacDrainedOf(m)
  BY DEF MacDrainedState
<1> QED
  BY <1>3, <1>4, <1>5, <1>6, <1>7, <1>8 DEF MacReads

\* A pending entry whose run is not drained is still pending, and no other is.
MacUndrained(P, Q, m) ==
    /\ Len(Q) \in Nat /\ Len(Q) <= Len(P)
    /\ \E f \in [1..Len(Q) -> 1..Len(P)] :
         /\ \A i \in 1..Len(Q) : Q[i] = P[f[i]]
         /\ \A i, j \in 1..Len(Q) : i < j => f[i] < f[j]
    /\ \A i \in 1..Len(Q), j \in 1..m : Q[i].run # macSource.queue[j].run
    /\ \A h \in 1..Len(P) : (\A j \in 1..m : P[h].run # macSource.queue[j].run) =>
         P[h].id \in MacIds(Q)
MacDrainedPending(m) == MacUndrained(macSource.pending, macSource'.pending, m)

\* The identities of the drained runs are no longer pending, the others are.
LEMMA MacDrainsPending ==
  ASSUME MacTyped, NEW m \in 1..Len(macSource.queue), NEW w, NEW C, NEW c, NEW of,
         NEW gaps, MacDrains(m, w, C, c, of, gaps)
  PROVE  MacDrainedPending(m)
<1> DEFINE runs == {q.run : q \in MacDrained(m)}
<1>1. PICK P \in Seq(MacPendingPlace) : P = macSource.pending
  BY MacFields DEF MacPendingPlace
<1>2. PICK S : S = {p \in Mac!Elements(P) : p.run \notin runs}
  OBVIOUS
<1>3. \A x : x \in runs <=> \E j \in 1..m : x = macSource.queue[j].run
  BY DEF MacDrained
<1>4. PICK Q : Q = Mac!Kept(P, S)
  OBVIOUS
<1>5. macSource'.pending = Q
  BY <1>1, <1>2, <1>4 DEF MacDrains, MacDraining
<1> HIDE DEF runs
<1>6. Q \in Seq(MacPendingPlace) /\ MacPicks(Q, P, S, Len(P))
  BY <1>4, MacKeptPicks
<1>7. PICK f \in [1..Len(Q) -> 1..Len(P)] : MacPicking(f, Q, P, S, Len(P))
  BY <1>6, Zenon DEF MacPicks
<1>8. /\ \A i \in 1..Len(Q) : Q[i] = P[f[i]] /\ P[f[i]] \in S
      /\ \A i, j \in 1..Len(Q) : i < j => f[i] < f[j]
      /\ \A h \in 1..Len(P) : P[h] \in S => \E i \in 1..Len(Q) : f[i] = h
  BY <1>7 DEF MacPicking
<1>9. \A i \in 1..Len(Q), j \in 1..m : Q[i].run # macSource.queue[j].run
  BY <1>2, <1>3, <1>8
<1>10. ASSUME NEW h \in 1..Len(P), \A j \in 1..m : P[h].run # macSource.queue[j].run
       PROVE  P[h].id \in MacIds(Q)
  <2>1. P[h] \in S
    BY <1>2, <1>3, <1>10 DEF Mac!Elements
  <2>2. PICK i \in 1..Len(Q) : f[i] = h
    BY <1>8, <2>1
  <2>3. Q[i] = P[h]
    BY <1>8, <2>2
  <2> QED
    BY <2>3 DEF MacIds
<1>11. Len(Q) \in Nat /\ Len(Q) <= Len(P)
  BY <1>6 DEF MacPicks
<1>12. \E g \in [1..Len(Q) -> 1..Len(P)] :
         /\ \A i \in 1..Len(Q) : Q[i] = P[g[i]]
         /\ \A i, j \in 1..Len(Q) : i < j => g[i] < g[j]
  <2>1. \A i \in 1..Len(Q) : Q[i] = P[f[i]]
    BY <1>8
  <2>2. \A i, j \in 1..Len(Q) : i < j => f[i] < f[j]
    BY <1>8
  <2> QED
    BY <2>1, <2>2, Zenon
<1> QED
  <2>1. MacUndrained(P, Q, m)
    BY <1>9, <1>10, <1>11, <1>12, Zenon DEF MacUndrained
  <2> QED
    BY <1>1, <1>5, <2>1 DEF MacDrainedPending

\* ... what the rest of the queue waits for ...
LEMMA MacDrainWaits ==
  ASSUME MacOnce, MacIInv, NEW n, NEW m \in 1..Len(macSource.queue), NEW w, NEW C, NEW c,
         NEW G, MacDrainedState(n, m, w, C, c, G), MacDrainedPending(m),
         UNCHANGED <<macLog, macReader, macDb>>
  PROVE  MacWaits'
<1>0. /\ MacTyped /\ MacOrdered /\ MacMemory /\ MacWaits /\ MacPresent /\ MacPendingOnce
      /\ macLog \in MacLogs /\ MacInLog = 1..Len(macLog)
      /\ \A e \in MacInLog : e \in Nat /\ e >= 1 /\ e > 0 /\ macLog[e].at \in Nat
  BY MacNumbers, MacOnceFields DEF MacIInv, MacOnce
<1>1. MacRemembers(m, w, C, G)
  BY DEF MacDrainedState
<1>2. /\ \A e : e \in MacDrainedOf(m) <=> \E j \in 1..m : e \in macSource.queue[j].of
      /\ \A e \in MacDrainedOf(m) : e \in MacInLog
  BY <1>0, MacDrainedParts
<1>3. /\ n = Len(macSource.queue) /\ n \in Nat /\ m \in Nat /\ m <= n
      /\ Len(macSource'.queue) = n - m
      /\ \A i \in 1..n - m : i + m \in 1..n /\ macSource'.queue[i] = macSource.queue[i + m]
      /\ macSource'.committed = C /\ macTick'.batch.of = MacDrainedOf(m)
      /\ MacStoredSet' = MacStoredSet /\ MacReported' = MacReported
  BY DEF MacDrainedState
<1>4. \A j \in 1..m, i \in 1..n - m : j \in 1..n /\ j < i + m
  BY <1>3
<1>5. ASSUME NEW i \in 1..n - m, NEW j \in 1..m, NEW e \in macSource.queue[j].of,
             NEW x \in macSource.queue[i + m].of
      PROVE  e < x
  BY <1>0, <1>3, <1>4 DEF MacPresent, MacInOrder
<1>6. ASSUME NEW i \in 1..n - m, NEW x \in macSource.queue[i + m].of PROVE MacWaiting(x)'
  <2>0. i + m \in 1..Len(macSource.queue)
    BY <1>3
  <2>1. MacWaiting(x) /\ x \in MacInLog /\ x \in Nat
    BY <1>0, <2>0, MacQueueRead DEF MacWaits, MacItemWaits
  <2>2. x \notin MacDrainedOf(m)
    <3>1. ~(x < x)
      BY <2>1
    <3> QED
      BY <1>2, <1>5, <3>1
  <2>3. ASSUME NEW y \in MacIds(C) PROVE MacFollows(macLog, y, x)
    <3>1. CASE y \in MacIds(macSource.committed)
      BY <2>1, <3>1 DEF MacWaiting
    <3>2. CASE y > 0 /\ y \in MacInLog /\ \E j \in 1..m : y \in macSource.queue[j].of
      <4>1. y < x /\ y \in Nat
        BY <1>0, <1>5, <3>2
      <4>2. macLog[y].at <= macLog[x].at
        BY <1>0, <2>1, <3>2, <4>1 DEF MacOrdered
      <4>3. x \in MacRivals(macLog, y)
        BY <1>0, <2>1, <3>2, <4>2, MacLaterRivals
      <4> QED
        BY <4>3 DEF MacFollows
    <3>3. CASE y < 0 /\ \E j \in 1..m : MacReportItem(macSource.queue[j])
                                        /\ y = macSource.queue[j].id
      <4>1. PICK j \in 1..Len(macSource.queue) : y = macSource.queue[j].id
        BY <1>3, <1>4, <3>3
      <4>2. y \in Int
        BY <1>0, <4>1, MacFields, MacCheckpointFields
      <4>3. ~(y > 0)
        BY <3>3, <4>2
      <4> QED
        BY <4>3 DEF MacFollows
    <3> QED
      BY <1>1, <3>1, <3>2, <3>3 DEF MacRemembers
  <2>4. ASSUME x \in MacIds(macSource.pending) PROVE x \in MacIds(macSource'.pending)
    <3>1. PICK h \in 1..Len(macSource.pending) : x = macSource.pending[h].id
      BY <2>4 DEF MacIds
    <3>2. MacPendingAt(macSource.pending[h])
      BY <1>0 DEF MacPendingOnce
    <3>3. macSource.queue[i + m].run = macSource.pending[h].run
      BY <1>0, <2>0, <3>1, <3>2, MacPendingHome
    <3>4. ASSUME NEW j \in 1..m PROVE macSource.pending[h].run # macSource.queue[j].run
      <4>1. j \in 1..Len(macSource.queue) /\ j # i + m
        BY <1>3, <1>4
      <4>2. macSource.queue[i + m].of # {}
        OBVIOUS
      <4>3. macSource.queue[i + m].run # macSource.queue[j].run
        BY <1>0, <2>0, <4>1, <4>2, MacRunsApart
      <4> QED
        BY <3>3, <4>3
    <3> QED
      BY <3>1, <3>4 DEF MacDrainedPending, MacUndrained
  <2> QED
    BY <1>3, <2>1, <2>2, <2>3, <2>4 DEF MacWaiting
<1>7. ASSUME NEW i \in 1..n - m PROVE MacItemWaits(macSource.queue[i])'
  <2>1. PICK q : q = macSource.queue[i + m] /\ q = macSource'.queue[i] /\ i + m \in 1..Len(macSource.queue)
    BY <1>3
  <2>2. MacItemWaits(q)
    BY <1>0, <2>1 DEF MacWaits
  <2>3. q.id \notin MacIds(C)
    <3> SUFFICES ASSUME q.id \in MacIds(C) PROVE FALSE
      OBVIOUS
    <3>1. q.id \notin MacIds(macSource.committed)
      BY <2>2 DEF MacItemWaits
    <3>2. MacRunItem(q) \/ MacReportItem(q)
      BY <1>0, <2>1, MacItemKinds
    <3>3. q.id \in Int
      BY <1>0, <2>1, MacFields, MacCheckpointFields
    <3>4. CASE q.id > 0 /\ \E j \in 1..m : q.id \in macSource.queue[j].of
      <4>1. MacRunItem(q)
        BY <3>2, <3>3, <3>4 DEF MacReportItem
      <4>2. q.id \in q.of
        BY <4>1 DEF MacRunItem, MacEntryItem
      <4>3. q.id < q.id
        BY <1>5, <2>1, <3>4, <4>2
      <4> QED
        BY <3>3, <4>3
    <3>5. CASE q.id < 0 /\ \E j \in 1..m : MacReportItem(macSource.queue[j])
                                            /\ q.id = macSource.queue[j].id
      <4>1. PICK j \in 1..m : MacReportItem(macSource.queue[j])
        BY <3>5
      <4>2. MacReportItem(q)
        BY <3>2, <3>3, <3>5 DEF MacRunItem
      <4>3. j = i + m
        BY <1>0, <1>3, <1>4, <2>1, <4>1, <4>2 DEF MacWaits, MacReportItem
      <4>4. j < i + m /\ j \in Int
        BY <1>4
      <4> QED
        BY <4>3, <4>4
    <3> QED
      BY <1>1, <3>1, <3>4, <3>5 DEF MacRemembers
  <2>4. \A x \in q.of : MacWaiting(x)'
    BY <1>6, <2>1
  <2>5. MacItemWaits(q)'
    BY <1>3, <2>2, <2>3, <2>4 DEF MacItemWaits
  <2> QED
    BY <2>1, <2>5 DEF MacItemWaits
<1>8. ASSUME NEW i \in 1..n - m, NEW j \in 1..n - m, macSource'.queue[i].gap # <<>>,
             macSource'.queue[j].gap # <<>>
      PROVE  i = j
  <2>0. /\ i + m \in 1..Len(macSource.queue) /\ macSource.queue[i + m].gap # <<>>
        /\ j + m \in 1..Len(macSource.queue) /\ macSource.queue[j + m].gap # <<>>
    BY <1>3, <1>8
  <2>1. i + m = j + m
    BY <1>0, <2>0 DEF MacWaits
  <2>2. i \in Int /\ j \in Int /\ m \in Int
    BY <1>3
  <2> QED
    BY <2>1, <2>2
<1> QED
  BY <1>3, <1>7, <1>8 DEF MacWaits

\* ... and what is pending.
LEMMA MacDrainPending ==
  ASSUME MacOnce, MacIInv, NEW n, NEW m \in 1..Len(macSource.queue), NEW w, NEW C, NEW c,
         NEW G, MacDrainedState(n, m, w, C, c, G), MacDrainedPending(m),
         UNCHANGED <<macLog, macReader, macDb>>
  PROVE  MacPendingOnce'
<1>0. /\ MacTyped /\ MacWaits /\ MacPresent /\ MacPendingOnce
      /\ \A e \in MacInLog : e \in Nat /\ e > 0
  BY MacNumbers DEF MacIInv, MacOnce
<1>1. MacRemembers(m, w, C, G)
  BY DEF MacDrainedState
<1>2. /\ n = Len(macSource.queue) /\ n \in Nat /\ m \in Nat /\ m <= n
      /\ Len(macSource'.queue) = n - m
      /\ \A i \in 1..n - m : i + m \in 1..n /\ macSource'.queue[i] = macSource.queue[i + m]
      /\ \A j \in 1..m : j \in 1..n
      /\ macSource'.committed = C /\ MacInLog' = MacInLog
  BY DEF MacDrainedState
<1>3. PICK P, Q : P = macSource.pending /\ Q = macSource'.pending
  OBVIOUS
<1>u. MacUndrained(P, Q, m)
  BY <1>3 DEF MacDrainedPending
<1>4. PICK f \in [1..Len(Q) -> 1..Len(P)] :
        /\ \A i \in 1..Len(Q) : Q[i] = P[f[i]]
        /\ \A i, j \in 1..Len(Q) : i < j => f[i] < f[j]
  BY <1>u, Zenon DEF MacUndrained
<1>5. /\ Len(Q) \in Nat /\ Len(Q) <= Len(P)
      /\ \A i \in 1..Len(Q), j \in 1..m : Q[i].run # macSource.queue[j].run
  BY <1>u DEF MacUndrained
<1>6. /\ Len(P) <= IdentityMax /\ \A i \in 1..Len(P) : MacPendingAt(P[i])
      /\ \A i, j \in 1..Len(P) : i < j => P[i].id < P[j].id
  BY <1>0, <1>3 DEF MacPendingOnce
<1>7. Len(P) \in Nat
  BY <1>0, <1>3, MacFields
<1>8. Len(Q) <= IdentityMax
  BY <1>5, <1>6, <1>7
<1>9. ASSUME NEW i \in 1..Len(Q) PROVE MacPendingAt(Q[i])'
  <2>1. PICK p : p = Q[i] /\ MacPendingAt(p)
    BY <1>4, <1>6
  <2>2. \A j \in 1..m : p.run # macSource.queue[j].run
    BY <1>5, <2>1
  <2>3. p.id \in MacInLog /\ p.id \in Nat /\ p.id > 0
    BY <1>0, <2>1 DEF MacPendingAt
  <2>4. \A j \in 1..m : p.id \notin macSource.queue[j].of
    BY <1>0, <1>2, <2>1, <2>2, MacPendingHome
  <2>5. p.id \notin MacIds(C)
    <3>1. p.id \notin MacIds(macSource.committed)
      BY <2>1 DEF MacPendingAt
    <3>2. ~(p.id < 0)
      BY <2>3
    <3> QED
      BY <1>1, <2>4, <3>1, <3>2 DEF MacRemembers
  <2>6. \/ \E k \in 1..n - m :
             p.id \in macSource'.queue[k].of /\ macSource'.queue[k].run = p.run
        \/ \A k \in 1..n - m : \A x \in macSource'.queue[k].of : p.id < x
    <3>1. CASE \E j \in 1..n : p.id \in macSource.queue[j].of /\ macSource.queue[j].run = p.run
      <4>1. PICK j \in 1..n : p.id \in macSource.queue[j].of /\ macSource.queue[j].run = p.run
        BY <3>1
      <4>2. ~(j \in 1..m)
        BY <2>4, <4>1
      <4>3. j - m \in 1..n - m /\ j - m + m = j
        BY <1>2, <4>2
      <4>4. macSource'.queue[j - m] = macSource.queue[j]
        BY <1>2, <4>3
      <4> QED
        BY <4>1, <4>3, <4>4
    <3>2. CASE \A j \in 1..n : \A x \in macSource.queue[j].of : p.id < x
      BY <1>2, <3>2
    <3> QED
      BY <1>2, <2>1, <3>1, <3>2 DEF MacPendingAt
  <2>7. MacPendingAt(p)'
    BY <1>2, <2>1, <2>5, <2>6 DEF MacPendingAt
  <2> QED
    BY <2>1, <2>7 DEF MacPendingAt
<1>10. ASSUME NEW i \in 1..Len(Q), NEW j \in 1..Len(Q), i < j PROVE Q[i].id < Q[j].id
  <2>1. f[i] \in 1..Len(P) /\ f[j] \in 1..Len(P) /\ f[i] < f[j]
    BY <1>4, <1>10
  <2>2. P[f[i]].id < P[f[j]].id
    BY <1>6, <2>1
  <2> QED
    BY <1>4, <2>2
<1> QED
  BY <1>3, <1>8, <1>9, <1>10 DEF MacPendingOnce

\* A drain, with and without items.
LEMMA MacOnceDrain == ASSUME MacOnce, MacIInv, Mac!Drain PROVE MacOnce'
<1>0. MacTyped /\ macTick.stage = "drain"
      /\ UNCHANGED <<macLog, macPurged, macReader, macDb, macLost>>
  BY DEF MacIInv, Mac!Drain
<1>1. CASE macTick' = [macTick EXCEPT !.stage = "commit"] /\ UNCHANGED macSource
  <2>1. macTick'.batch = macTick.batch /\ macTick'.last = macTick.last
    BY <1>0, <1>1 DEF MacTyped
  <2>2. MacStoredSet' = MacStoredSet /\ MacDrainedSet' = MacDrainedSet /\ MacGaps' = MacGaps
        /\ MacInLog' = MacInLog /\ MacReported' = MacReported
    BY <1>0, <2>1 DEF MacStoredSet, MacDrainedSet, MacReported, MacGaps, MacInLog
  <2>3. MacMemory'
    BY <1>0, <1>1, <2>1, <2>2 DEF MacOnce, MacMemory
  <2>4. MacReads'
    BY <1>0, <1>1, <2>1, <2>2 DEF MacOnce, MacReads, MacReplays
  <2>5. MacWaits'
    BY <1>0, <1>1, <2>1, <2>2 DEF MacOnce, MacWaits, MacItemWaits, MacWaiting
  <2>6. MacPendingOnce'
    BY <1>0, <1>1, <2>1, <2>2 DEF MacOnce, MacPendingOnce, MacPendingAt
  <2> QED
    BY <2>3, <2>4, <2>5, <2>6 DEF MacOnce
<1>2. CASE \E m \in 1..Len(macSource.queue) : \E w, C, c, of, gaps :
             MacDraining(m, w, C, c, of, gaps)
  <2>0. PICK m \in 1..Len(macSource.queue) : \E w, C, c, of, gaps :
          MacDraining(m, w, C, c, of, gaps)
    BY <1>2
  <2>1. PICK w, C, c, of, gaps : MacDraining(m, w, C, c, of, gaps)
    BY <2>0
  <2>2. MacDrains(m, w, C, c, of, gaps)
    BY <1>0, <2>1 DEF MacDrains
  <2>3. PICK n, G : MacDrainedState(n, m, w, C, c, G)
    BY <2>2, MacDrainsTo
  <2>4. MacDrainedPending(m)
    BY <1>0, <2>2, MacDrainsPending
  <2>5. MacMemory' /\ MacReads'
    BY <1>0, <2>3, MacDrainMemory, MacDrainReads
  <2>6. MacWaits' /\ MacPendingOnce'
    BY <1>0, <2>3, <2>4, MacDrainWaits, MacDrainPending
  <2> QED
    BY <2>5, <2>6 DEF MacOnce
<1> QED
  BY <1>0, <1>1, <1>2, MacDrainCases

\* Every step keeps the invariant.
LEMMA MacOnceStep ==
    MacIInv /\ MacIInv' /\ MacOnce /\ [Mac!Next]_Mac!vars => MacOnce'
<1> SUFFICES ASSUME MacIInv, MacIInv', MacOnce, [Mac!Next]_Mac!vars PROVE MacOnce'
  OBVIOUS
<1>0. MacTyped
  BY DEF MacIInv
<1>1. CASE UNCHANGED Mac!vars
  BY <1>1, MacOnceSame DEF Mac!vars
<1>2. CASE Mac!Purge
  BY <1>2, MacOnceSame DEF Mac!Purge
<1>3. CASE Mac!Log
  BY <1>3, MacOnceLog
<1>4. CASE Mac!ReadShow \/ Mac!EndShow \/ Mac!BreakShow
  BY <1>4, MacOnceReadShow, MacOnceEndShow, MacOnceBreakShow
<1>5. CASE Mac!StartStream \/ Mac!ReadStream \/ Mac!Die
  BY <1>0, <1>5, MacOnceStream, MacOnceReadStream, MacOnceDie
<1>6. CASE Mac!Supervise \/ Mac!Drain
  BY <1>6, MacOnceSupervise, MacOnceDrain
<1>7. CASE Mac!Commit \/ Mac!CommitLocked \/ Mac!Restart
  BY <1>7, MacOnceCommit, MacOnceCommitLocked, MacOnceRestart
<1> QED
  BY <1>1, <1>2, <1>3, <1>4, <1>5, <1>6, <1>7 DEF Mac!Next

\* OslogReader counts as its instance does.
LEMMA MacCardinality == \A S : Mac!Cardinality(S) = Cardinality(S)
BY Zenon DEF Mac!Cardinality, Cardinality

\* The invariant is enough.
LEMMA MacOnceGoal == MacOnce => Mac!RepeatsAreOld
<1> SUFFICES ASSUME MacOnce PROVE Mac!RepeatsAreOld
  OBVIOUS
<1>1. ASSUME NEW i \in 1..Len(macSource.queue), NEW e \in Mac!Entry,
             e \in macSource.queue[i].of, macDb.of[e] > 0
      PROVE  \/ macLog[e].at < macReader.wm - Overlap
             \/ MacCrowded(macLog, e, MacReported)
  <2>1. e \in MacStoredSet
    BY <1>1 DEF MacStoredSet
  <2>2. MacWaiting(e)
    BY <1>1 DEF MacOnce, MacWaits, MacItemWaits
  <2> QED
    BY <2>1, <2>2 DEF MacWaiting
<1>2. \A e : MacCrowded(macLog, e, MacReported) =
              (Mac!Cardinality({x \in 1..Len(macLog) :
                                  macLog[x].at >= Mac!ReplayFrom(macLog[e].at)})
                 + Mac!Cardinality(macDb.gaps \cup macLost.untold) > IdentityMax)
  BY MacCardinality, Zenon DEF MacCrowded, MacRivals, MacReported
<1> QED
  BY <1>1, <1>2, Zenon DEF Mac!RepeatsAreOld

\* DM-15 on macOS, for any log, number of identities and faults: an event in
\* the queue whose occurrence is stored is older than the overlap of the
\* checkpoint it was replayed from, or more than IdentityMax entries and gap
\* reports competed for the identities a checkpoint remembers.
THEOREM MacRepeatsAlwaysOld == Mac!Spec => []Mac!RepeatsAreOld
BY MacInitHolds, MacStep, MacOnceInit, MacOnceStep, MacOnceGoal, PTL DEF Mac!Spec

\* All three sources: each keeps its invariant where it runs, and rests
\* elsewhere.
LEMMA SourcesOnce ==
    SourcesSpec => [](MacOnce /\ WinIInv /\ OnceIInv)
<1>1. SourcesInit => IInv /\ OnceIInv /\ MacIInv /\ MacOnce /\ WinIInv
  BY IInvInit, OnceInit, MacInitHolds, MacOnceInit, WinInitHolds DEF SourcesInit
<1>2. IInv /\ OnceIInv /\ MacIInv /\ MacOnce /\ WinIInv /\ [SourcesNext]_all
      => (IInv /\ OnceIInv /\ MacIInv /\ MacOnce /\ WinIInv)'
  <2> SUFFICES ASSUME IInv, OnceIInv, MacIInv, MacOnce, WinIInv, [SourcesNext]_all
               PROVE  IInv' /\ OnceIInv' /\ MacIInv' /\ MacOnce' /\ WinIInv'
    OBVIOUS
  <2>1. [Mac!Next]_Mac!vars /\ [Win!Next]_Win!vars
    BY DEF SourcesNext, all, others, macVars, winVars, Mac!vars, Win!vars
  <2>2. [Next]_vars
    BY DEF SourcesNext, all
  <2>3. IInv' /\ OnceIInv'
    <3>1. Typed
      BY DEF IInv
    <3> QED
      BY <2>2, <3>1, IInvStep, OnceStep
  <2>4. MacIInv' /\ WinIInv'
    BY <2>1, MacStep, WinStep
  <2>5. MacOnce'
    BY <2>1, <2>4, MacOnceStep
  <2> QED
    BY <2>3, <2>4, <2>5
<1> QED
  BY <1>1, <1>2, PTL DEF SourcesSpec

\* DM-15 on every platform, for any logs, journals, channels and faults:
\* nothing is stored twice, except what the sources name: on macOS what is
\* older than the overlap or crowded out of the remembered identities, on
\* Linux what a successor of a dead journalctl reads again.
THEOREM NothingComesTwice == SourcesSpec => []NothingTwice
<1>1. OnceIInv => StoredOnceWhileReaderLives
  BY DEF OnceIInv, OnceStored, StoredOnceWhileReaderLives
<1>2. MacOnce /\ WinIInv /\ OnceIInv => NothingTwice
  BY <1>1, MacOnceGoal, WinGoals DEF NothingTwice
<1> QED
  BY <1>2, SourcesOnce, PTL
=============================================================================
