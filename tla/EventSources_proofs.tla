------------------------ MODULE EventSources_proofs -------------------------
(***************************************************************************)
(* What the three readers lose, for any number of entries, deaths, crashes *)
(* and restarts: macOS replays, the journal's cursors, and the composite   *)
(* bookmark of Windows.                                                    *)
(***************************************************************************)
EXTENDS EventSources, SequenceTheorems, FiniteSetTheorems,
        WellFoundedInduction, TLAPS

(***************************************************************************)
(* macOS: replays and checkpoints.                                         *)
(*                                                                         *)
(* A log without bookmarks is covered all the same: for any number of      *)
(* entries, deaths and restarts, what is not later than the stored         *)
(* checkpoint is stored, would be accepted from a replay, or was lost in   *)
(* one of the named ways; and a gap is reported only where there is one.   *)
(*                                                                         *)
(* A checkpoint covers in two ways.  All that is older than the time a     *)
(* replay would start from has been taken, and so has every entry whose    *)
(* identity it names.  The first needs an order: the times of the log are  *)
(* ordered, items of the queue stand in the order of their entries, and    *)
(* each of them covers all entries up to its own, so that the newest time  *)
(* of what was drained passes over nothing that is still queued.  The      *)
(* second needs that an identity which is pending belongs to an entry of a *)
(* queued run, or of one that was evicted, and that no two runs have an    *)
(* entry in common: what a drain commits left the queue in that drain.     *)
(***************************************************************************)

USE IngestAssumption, SourcesAssumption

\* The values of the state.
MacPlace      == [at : Nat, id : Int]
MacCheckpoint == [wm : Nat, ids : Seq(MacPlace)]
MacItem       == [of : SUBSET Mac!Entry, id : Int, seq : Int, run : Int, at : Nat,
                  gap : Seq(Nat)]

MacTyped ==
    /\ macLog \in Seq([at : Nat, says : Text]) /\ Len(macLog) <= Others.log
    /\ macPurged \in 0..Len(macLog)
    /\ macReader \in [stage : {"hand", "show", "stream", "dead"}, read : Nat,
                     wm : Nat, first : Nat \cup {Mac!NoTime}]
    /\ macSource \in [queue : Seq(MacItem),
                     pending : Seq([run : Int, at : Nat, id : Int]),
                     committed : Seq(MacPlace), watermark : Nat]
    /\ Len(macSource.queue) <= QueueMax
    /\ macTick \in [stage : {"supervise", "drain", "commit"}, last : MacCheckpoint,
                    batch : [of : SUBSET Mac!Entry, gaps : SUBSET Seq(Nat),
                             cursor : MacCheckpoint]]
    /\ macDb \in [of : [Mac!Entry -> Nat], gaps : SUBSET Seq(Nat),
                  cursor : MacCheckpoint]
    /\ macLost \in [evicted : SUBSET Mac!Entry, missed : SUBSET Mac!Entry,
                   skipped : SUBSET Mac!Entry,
                   unsaved : SUBSET Mac!Entry, untold : SUBSET Seq(Nat)]

\* An entry that is stored or lost in a way that has a name; that the batch
\* has as well; that one of the first n items has as well.
MacHave(e) ==
    \/ macDb.of[e] > 0 \/ e <= macPurged
    \/ e \in macLost.evicted \cup macLost.skipped \cup macLost.missed
    \/ e \in macLost.unsaved
MacTaken(e)   == MacHave(e) \/ e \in macTick.batch.of
MacHeld(e, n) == MacTaken(e) \/ \E i \in 1..n : e \in macSource.queue[i].of

MacInLog      == 1 .. Len(macLog)
MacReached(t) == t = 0 \/ \E f \in MacInLog : t <= macLog[f].at
MacOrdered    == \A e, f \in MacInLog : e <= f => macLog[e].at <= macLog[f].at
MacTimed      == \A e \in MacInLog : macLog[e].at > 0

\* A time that a reader may replay from, identities it may pass over.
MacHaveBefore(t) ==
    /\ MacReached(t)
    /\ \A e \in MacInLog : macLog[e].at < Mac!ReplayFrom(t) => MacHave(e)
MacTakenBefore(t) ==
    /\ MacReached(t)
    /\ \A e \in MacInLog : macLog[e].at < Mac!ReplayFrom(t) => MacTaken(e)
MacHaveIds(s) ==
    \A p \in Mac!Elements(s) : p.id > 0 => p.id \in MacInLog /\ MacHave(p.id)
MacTakenIds(s) ==
    \A p \in Mac!Elements(s) : p.id > 0 => p.id \in MacInLog /\ MacTaken(p.id)

MacGapReal(g) == g # <<>> =>
    /\ g[1] \in Nat /\ g[2] \in Nat /\ MacReached(g[2])
    /\ \A e \in MacInLog : g[1] <= macLog[e].at /\ macLog[e].at < g[2] => e <= macPurged

\* The checkpoint of the database, the one in memory and the batch.
MacStored ==
    /\ MacHaveBefore(macDb.cursor.wm) /\ MacHaveIds(macDb.cursor.ids)
    /\ \A g \in macDb.gaps : MacGapReal(g)
MacRemembering == MacTakenBefore(macTick.last.wm) /\ MacTakenIds(macTick.last.ids)
MacBatch ==
    /\ macTick.stage # "commit" => macTick.batch = Mac!Nothing
    /\ macTick.batch # Mac!Nothing =>
         macTick.batch.cursor = macTick.last /\ macTick.batch.cursor.wm > 0
    /\ macTick.batch.of \subseteq MacInLog
    /\ \A g \in macTick.batch.gaps : MacGapReal(g)
MacPast == MacStored /\ MacRemembering /\ MacBatch

\* The checkpoint the next drain starts from.
MacSource == MacTakenBefore(macSource.watermark) /\ MacTakenIds(macSource.committed)

\* What `log show` has passed over: before it wrote its first line only what
\* was taken, of before the checkpoint; then what is older than that line.
MacShowing ==
    /\ macReader.read <= Len(macLog)
    /\ MacReached(macReader.wm)
    /\ macReader.stage = "show" =>
         /\ macReader.first = Mac!NoTime =>
              \A e \in MacInLog :
                     e <= macReader.read => macLog[e].at < macReader.wm /\ MacTaken(e)
         /\ macReader.first # Mac!NoTime =>
              /\ MacReached(macReader.first)
              /\ \A e \in MacInLog : macLog[e].at < macReader.first =>
                      MacTaken(e) /\ (macReader.wm <= macLog[e].at => e <= macPurged)
MacReading ==
    \A e \in MacInLog : e <= macReader.read => MacHeld(e, Len(macSource.queue))

\* The items: a gap report, or entries of which the newest names it and one
\* names its run.
MacGapItem(q) ==
    /\ q.of = {} /\ q.id < 0 /\ MacGapReal(q.gap)
    /\ \E x \in Nat : q.run = 2 * x + 1
    /\ q.at > 0 /\ MacReached(q.at)
    /\ \A e \in MacInLog : macLog[e].at < q.at => MacTaken(e)
MacEntryItem(q) ==
    /\ q.id \in q.of /\ q.gap = <<>> /\ q.at = macLog[q.id].at
    /\ \E f \in q.of : q.run = 2 * f
    /\ \A e \in q.of : e \in MacInLog /\ e <= q.id /\ e <= macReader.read
MacItems ==
    \A i \in 1..Len(macSource.queue) :
        MacGapItem(macSource.queue[i]) \/ MacEntryItem(macSource.queue[i])
MacInOrder ==
    \A i \in 1..Len(macSource.queue), j \in 1..Len(macSource.queue) : j < i =>
        \A e \in macSource.queue[j].of, f \in macSource.queue[i].of : e < f
MacQueueCovers ==
    \A i \in 1..Len(macSource.queue) :
        \A e \in MacInLog : e <= macSource.queue[i].id => MacHeld(e, i)
MacPending ==
    \A p \in Mac!Elements(macSource.pending) :
        /\ p.id \in MacInLog
        /\ \/ p.id \in macLost.evicted
           \/ \E i \in 1..Len(macSource.queue) :
                   p.id \in macSource.queue[i].of /\ macSource.queue[i].run = p.run
MacPresent == MacSource /\ MacItems /\ MacInOrder /\ MacQueueCovers /\ MacPending

MacIInv ==
    /\ MacTyped /\ MacOrdered /\ MacTimed
    /\ MacPast /\ MacPresent /\ MacShowing /\ MacReading
-----------------------------------------------------------------------------
(* Numbers, sets and sequences.                                            *)

(* A nonempty set of naturals has a least element.                         *)
LEMMA LeastNatural ==
  ASSUME NEW S \in SUBSET Nat, S # {}
  PROVE  \E x \in S : \A y \in S : x <= y
<1>1. \E x \in S : \A y \in S : ~(<<y, x>> \in OpToRel(<, Nat))
  BY WFMin, NatLessThanWellFounded
<1>2. PICK x \in S : \A y \in S : ~(<<y, x>> \in OpToRel(<, Nat))
  BY <1>1
<1>3. ASSUME NEW y \in S PROVE x <= y
  <2>1. x \in Nat /\ y \in Nat
    OBVIOUS
  <2>2. ~(<<y, x>> \in {ss \in Nat \X Nat : ss[1] < ss[2]})
    BY <1>2 DEF OpToRel
  <2>3. <<y, x>> \in Nat \X Nat
    BY <2>1
  <2>4. ~(y < x)
    BY <2>2, <2>3
  <2> QED
    BY <2>1, <2>4
<1> QED
  BY <1>3

(* What holds at 0 and is passed on holds up to n.                          *)
LEMMA UpTo ==
  ASSUME NEW n \in Nat, NEW P \in SUBSET (0..n), 0 \in P,
         \A i \in 1..n : i - 1 \in P => i \in P
  PROVE  P = 0..n
<1> DEFINE Missing == {i \in 0..n : i \notin P}
<1>1. ASSUME Missing # {} PROVE FALSE
  <2>0. Missing \in SUBSET Nat
    OBVIOUS
  <2>1. PICK i \in Missing : \A j \in Missing : i <= j
    <3> HIDE DEF Missing
    <3> QED
      BY <1>1, <2>0, LeastNatural
  <2>2. i \in 1..n /\ i - 1 \in 0..n /\ ~(i <= i - 1)
    BY <2>1
  <2>3. i - 1 \in P
    BY <2>1, <2>2
  <2> QED
    BY <2>1, <2>2, <2>3
<1> QED
  BY <1>1

(* f takes the step G for each member of seq in turn.                       *)
Takes(f, base, n, seq, G) ==
  \A i \in 0..n : f[i] = IF i = 0 THEN base ELSE G[<<f[i - 1], seq[i]>>]

(* A function that takes a step for each member of a sequence exists, and   *)
(* stays where the steps stay.                                              *)
LEMMA StepsExist ==
  ASSUME NEW S, NEW X, NEW base \in S, NEW n \in Nat, NEW seq \in [1..n -> X],
         NEW G \in [S \X X -> S]
  PROVE  \E f \in [0..n -> S] : Takes(f, base, n, seq, G)
<1> DEFINE Has(k) == \E f \in [0..k -> S] :
             \A i \in 0..k : f[i] = IF i = 0 THEN base ELSE G[<<f[i - 1], seq[i]>>]
           P == {k \in 0..n : Has(k)}
<1>1. 0 \in P
  <2> DEFINE f == [i \in 0..0 |-> base]
  <2>1. f \in [0..0 -> S] /\ \A i \in 0..0 : i = 0 /\ f[i] = base
    OBVIOUS
  <2> HIDE DEF f
  <2>2. Has(0)
    BY <2>1
  <2> QED
    BY <2>2
<1>2. ASSUME NEW k \in 1..n, k - 1 \in P PROVE k \in P
  <2>1. PICK f \in [0..k - 1 -> S] :
               \A i \in 0..k - 1 : f[i] = IF i = 0 THEN base
                   ELSE G[<<f[i - 1], seq[i]>>]
    BY <1>2
  <2> DEFINE g == [i \in 0..k |-> IF i = k THEN G[<<f[k - 1], seq[k]>>] ELSE f[i]]
  <2>2. f[k - 1] \in S /\ seq[k] \in X
    OBVIOUS
  <2>3. G[<<f[k - 1], seq[k]>>] \in S
    BY <2>2
  <2>4. g \in [0..k -> S]
    <3>1. \A i \in 0..k : i # k => i \in 0..k - 1
      OBVIOUS
    <3> QED
      BY <2>3, <3>1
  <2>5. ASSUME NEW i \in 0..k
        PROVE  g[i] = IF i = 0 THEN base ELSE G[<<g[i - 1], seq[i]>>]
    <3>1. CASE i = k
      <4>1. k # 0 /\ k - 1 \in 0..k /\ k - 1 # k
        OBVIOUS
      <4> QED
        BY <3>1, <4>1
    <3>2. CASE i # k
      <4>1. i \in 0..k - 1 /\ g[i] = f[i]
        BY <3>2
      <4>2. i # 0 => i - 1 \in 0..k /\ i - 1 # k
        BY <4>1
      <4> QED
        BY <2>1, <4>1, <4>2
    <3> QED
      BY <3>1, <3>2
  <2> HIDE DEF g
  <2> QED
    BY <2>4, <2>5
<1>3. n \in P
  <2>1. P = 0..n
    <3> HIDE DEF P
    <3>1. P \in SUBSET (0..n)
      BY DEF P
    <3>2. \A k \in 1..n : k - 1 \in P => k \in P
      BY <1>2
    <3> HIDE DEF P
    <3> QED
      BY <1>1, <3>1, <3>2, UpTo, Zenon
  <2>2. n \in 0..n
    OBVIOUS
  <2> HIDE DEF P
  <2> QED
    BY <2>1, <2>2
<1> QED
  BY <1>3 DEF Takes

(* A nonempty set of integers that is bounded has a greatest element.       *)
LEMMA GreatestExists ==
  ASSUME NEW S \in SUBSET Int, S # {}, NEW b \in Int, \A k \in S : k <= b
  PROVE  \E m \in S : \A k \in S : k <= m
<1> DEFINE D == {b - k : k \in S}
<1>0. \A k \in S : k \in Int /\ b - k \in Nat
  OBVIOUS
<1>1. D \in SUBSET Nat /\ D # {} /\ \A k \in S : b - k \in D /\ k \in Int
  BY <1>0
<1>2. PICK x \in D : \A y \in D : x <= y
  <2> HIDE DEF D
  <2> QED
    BY <1>1, LeastNatural
<1>3. PICK m \in S : x = b - m
  BY <1>2
<1>4. ASSUME NEW k \in S PROVE k <= m
  <2>1. b - k \in D /\ k \in Int /\ m \in Int
    BY <1>1
  <2>2. x <= b - k
    BY <1>2, <2>1
  <2> QED
    BY <1>3, <2>1, <2>2
<1> QED
  BY <1>4

\* The elements of a sequence, and the sequence over them.
LEMMA MacElementsOf ==
  ASSUME NEW X, NEW s \in Seq(X)
  PROVE  Mac!Elements(s) \subseteq X /\ s \in Seq(Mac!Elements(s))
         /\ \A i \in 1..Len(s) : s[i] \in Mac!Elements(s)
<1>1. \A i \in 1..Len(s) : s[i] \in X
  OBVIOUS
<1>2. s \in Seq(Mac!Elements(s))
  <2>0. PICK n \in Nat : n = Len(s) /\ s \in [1..n -> X]
    OBVIOUS
  <2>1. \A i \in 1..n : s[i] \in Mac!Elements(s)
    BY <2>0 DEF Mac!Elements
  <2>2. s \in [1..n -> Mac!Elements(s)]
    BY <2>0, <2>1
  <2> QED
    BY <2>0, <2>2
<1> QED
  BY <1>1, <1>2 DEF Mac!Elements

(* What is kept of a deque.                                                 *)
LEMMA MacKeptHolds ==
  ASSUME NEW X, NEW s \in Seq(X), NEW S
  PROVE  Mac!Kept(s, S) \in Seq(X)
         /\ \A x \in Mac!Elements(Mac!Kept(s, S)) : x \in Mac!Elements(s) /\ x \in S
<1> DEFINE n == Len(s)
           Y == Mac!Elements(s) \cap S
           D == Seq(Y)
           Eq(f) == f = [i \in 0..n |-> IF i = 0 THEN <<>> ELSE IF s[i] \in S
               THEN Append(f[i - 1], s[i]) ELSE f[i - 1]]
           upto == CHOOSE f : Eq(f)
<1>1. n \in Nat /\ s \in [1..n -> Mac!Elements(s)] /\ Mac!Elements(s) \subseteq X
  <2>1. Mac!Elements(s) \subseteq X /\ s \in Seq(Mac!Elements(s))
    BY MacElementsOf, Zenon
  <2> QED
    BY <2>1
<1>2. <<>> \in D
  OBVIOUS
<1>3. Mac!Kept(s, S) = upto[n]
  BY DEF Mac!Kept
<1> DEFINE G == [p \in D \X Mac!Elements(s) |-> IF p[2] \in S THEN Append(p[1], p[2])
    ELSE p[1]]
<1>4. G \in [D \X Mac!Elements(s) -> D]
  OBVIOUS
<1>5. \E f \in [0..n -> D] : Takes(f, <<>>, n, s, G)
  <2> HIDE DEF G, n, D
  <2> QED
    BY <1>1, <1>2, <1>4, StepsExist
<1>6. PICK f \in [0..n -> D] : Takes(f, <<>>, n, s, G)
  BY <1>5
<1>7. ASSUME NEW i \in 0..n, i # 0
      PROVE  G[<<f[i - 1], s[i]>>] = IF s[i] \in S THEN Append(f[i - 1], s[i])
             ELSE f[i - 1]
  <2>1. i - 1 \in 0..n /\ i \in 1..n
    BY <1>1, <1>7
  <2>2. f[i - 1] \in D /\ s[i] \in Mac!Elements(s)
    BY <1>1, <1>6, <2>1
  <2> HIDE DEF D
  <2> QED
    BY <2>2
<1>8. Eq(f)
  BY <1>6, <1>7 DEF Takes
<1>9. Eq(upto)
  BY <1>8
<1> HIDE DEF upto, n, G
<1>10. \A i \in 0..n : upto[i] \in D
  <2> DEFINE P == {i \in 0..n : upto[i] \in D}
  <2>1. 0 \in P
    BY <1>1, <1>9
  <2>2. ASSUME NEW i \in 1..n, i - 1 \in P PROVE i \in P
    <3>1. i \in 0..n /\ i # 0 /\ s[i] \in Mac!Elements(s) /\ upto[i - 1] \in D
      BY <1>1, <2>2
    <3>2. upto[i] = IF s[i] \in S THEN Append(upto[i - 1], s[i]) ELSE upto[i - 1]
      BY <1>9, <3>1
    <3>3. s[i] \in S => s[i] \in Y
      BY <3>1
    <3>4. upto[i] \in D
      <4> HIDE DEF Y
      <4> QED
        BY <3>1, <3>2, <3>3
    <3> QED
      BY <3>1, <3>4
  <2>3. P = 0..n
    <3> HIDE DEF P
    <3>1. P \in SUBSET (0..n)
      BY DEF P
    <3> QED
      BY <1>1, <2>1, <2>2, <3>1, UpTo
  <2> QED
    BY <2>3
<1>11. Mac!Kept(s, S) \in Seq(Y)
  BY <1>1, <1>3, <1>10
<1> HIDE DEF Y
<1>12. Mac!Elements(Mac!Kept(s, S)) \subseteq Y
  BY <1>11, MacElementsOf
<1>13. Y \subseteq X /\ \A x \in Y : x \in Mac!Elements(s) /\ x \in S
  BY <1>1 DEF Y
<1>14. Mac!Kept(s, S) \in Seq(X)
  BY <1>11, <1>13
<1> QED
  BY <1>12, <1>13, <1>14

\* What a drain may remember, and how.
MacCandidate == [seq : Int, at : Nat, id : Int]
MacAsPlace(r) == [at |-> r.at, id |-> r.id]

\* A bounded deque has only what it had and what is added.
LEMMA MacBoundedHolds ==
  ASSUME NEW X, NEW s \in Seq(X), NEW x \in X
  PROVE  Mac!Bounded(s, x) \in Seq(X)
         /\ \A y \in Mac!Elements(Mac!Bounded(s, x)) : y \in Mac!Elements(s) \/ y = x
<1> DEFINE rest == IF Len(s) = IdentityMax THEN Tail(s) ELSE s
           Y == Mac!Elements(s) \cup {x}
<1>1. s \in Seq(Mac!Elements(s)) /\ Mac!Elements(s) \subseteq X
  BY MacElementsOf
<1>2. rest \in Seq(Y)
  <2>1. s \in Seq(Y)
    BY <1>1
  <2>2. Len(s) = IdentityMax => s # <<>>
    OBVIOUS
  <2> HIDE DEF Y
  <2> QED
    BY <2>1, <2>2
<1>3. Mac!Bounded(s, x) \in Seq(Y)
  <2> HIDE DEF rest
  <2>1. x \in Y
    OBVIOUS
  <2>2. Append(rest, x) \in Seq(Y)
    BY <1>2, <2>1
  <2> QED
    BY <2>2 DEF Mac!Bounded, rest
<1>4. Y \subseteq X
  BY <1>1
<1> HIDE DEF Y
<1>5. Mac!Elements(Mac!Bounded(s, x)) \subseteq Y /\ Mac!Bounded(s, x) \in Seq(X)
  BY <1>3, <1>4, MacElementsOf
<1> QED
  BY <1>5 DEF Y

\* One more identity is remembered.
LEMMA MacRememberHolds ==
  ASSUME NEW c \in Seq(MacPlace), NEW rs \in SUBSET MacCandidate
  PROVE  /\ Mac!Remember(c, rs) \in Seq(MacPlace)
         /\ \A y \in Mac!Elements(Mac!Remember(c, rs)) : y \in Mac!Elements(c)
            \/ \E r \in rs : y = MacAsPlace(r)
<1>1. CASE rs = {}
  BY <1>1 DEF Mac!Remember
<1>2. CASE rs # {}
  <2> DEFINE r == CHOOSE r \in rs : TRUE
  <2>1. r \in rs /\ MacAsPlace(r) \in MacPlace
    BY <1>2 DEF MacCandidate, MacAsPlace, MacPlace
  <2>2. Mac!Remember(c, rs) = Mac!Bounded(c, MacAsPlace(r))
    BY <1>2 DEF Mac!Remember, MacAsPlace
  <2> HIDE DEF r
  <2> QED
    BY <2>1, <2>2, MacBoundedHolds
<1> QED
  BY <1>1, <1>2

(* The identities that are remembered were, or are of those that are added. *)
LEMMA MacRememberedHolds ==
  ASSUME NEW c \in Seq(MacPlace), NEW rs \in SUBSET MacCandidate
  PROVE  /\ Mac!Remembered(c, rs) \in Seq(MacPlace)
         /\ \A y \in Mac!Elements(Mac!Remembered(c, rs)) : y \in Mac!Elements(c)
            \/ \E r \in rs : y = MacAsPlace(r)
<1> DEFINE n == Mac!LastSeq
           From(s) == \A y \in Mac!Elements(s) : y \in Mac!Elements(c)
               \/ \E r \in rs : y = MacAsPlace(r)
           D == {s \in Seq(MacPlace) : From(s)}
           R == SUBSET rs
           numbered == [k \in 1..n |-> {r \in rs : r.seq = k}]
           Eq(f) == f = [k \in 0..n |-> IF k = 0 THEN c
               ELSE Mac!Remember(f[k - 1], numbered[k])]
           upto == CHOOSE f : Eq(f)
<1>1. n \in Nat /\ numbered \in [1..n -> R]
  BY DEF Mac!LastSeq
<1>2. c \in D
  OBVIOUS
<1>3. Mac!Remembered(c, rs) = upto[n]
  BY DEF Mac!Remembered
<1>4. ASSUME NEW s \in D, NEW q \in R PROVE Mac!Remember(s, q) \in D
  <2>1. s \in Seq(MacPlace) /\ q \in SUBSET MacCandidate
    OBVIOUS
  <2>2. Mac!Remember(s, q) \in Seq(MacPlace)
        /\ \A y \in Mac!Elements(Mac!Remember(s, q)) : y \in Mac!Elements(s)
        \/ \E r \in q : y = MacAsPlace(r)
    BY <2>1, MacRememberHolds
  <2> QED
    BY <2>2
<1> DEFINE G == [p \in D \X R |-> Mac!Remember(p[1], p[2])]
<1> HIDE DEF n, D, R, numbered
<1>5. G \in [D \X R -> D]
  BY <1>4
<1>6. \E f \in [0..n -> D] : Takes(f, c, n, numbered, G)
  <2> HIDE DEF G
  <2> QED
    BY <1>1, <1>2, <1>5, StepsExist
<1>7. PICK f \in [0..n -> D] : Takes(f, c, n, numbered, G)
  BY <1>6
<1>8. ASSUME NEW k \in 0..n, k # 0
      PROVE  G[<<f[k - 1], numbered[k]>>] = Mac!Remember(f[k - 1], numbered[k])
  <2>1. k - 1 \in 0..n /\ k \in 1..n
    BY <1>1, <1>8
  <2>2. f[k - 1] \in D /\ numbered[k] \in R
    BY <1>1, <1>7, <2>1
  <2> QED
    BY <2>2
<1>9. Eq(f)
  BY <1>7, <1>8 DEF Takes
<1>10. Eq(upto)
  BY <1>9
<1> HIDE DEF upto, G
<1>11. upto[n] \in D
  <2> DEFINE P == {k \in 0..n : upto[k] \in D}
  <2>1. 0 \in P
    BY <1>1, <1>2, <1>10
  <2>2. ASSUME NEW k \in 1..n, k - 1 \in P PROVE k \in P
    <3>1. k \in 0..n /\ k # 0 /\ numbered[k] \in R /\ upto[k - 1] \in D
      BY <1>1, <2>2
    <3>2. upto[k] = Mac!Remember(upto[k - 1], numbered[k])
      BY <1>10, <3>1
    <3> QED
      BY <1>4, <3>1, <3>2
  <2>3. P = 0..n
    <3> HIDE DEF P
    <3>1. P \in SUBSET (0..n)
      BY DEF P
    <3> QED
      BY <1>1, <2>1, <2>2, <3>1, UpTo
  <2> QED
    BY <1>1, <2>3
<1>12. Mac!Remembered(c, rs) \in D
  BY <1>3, <1>11
<1> QED
  BY <1>12 DEF D
-----------------------------------------------------------------------------
(* A member of a sequence.                                                  *)
LEMMA SeqAt ==
  ASSUME NEW X, NEW s \in Seq(X), NEW i \in 1..Len(s)
  PROVE  s[i] \in X
OBVIOUS

(* When an entry was logged.                                                *)
LEMMA MacLoggedAt ==
  ASSUME NEW l \in Seq([at : Nat, says : Text]), NEW e \in 1..Len(l)
  PROVE  l[e].at \in Nat
<1>1. l[e] \in [at : Nat, says : Text]
  BY SeqAt
<1> QED
  BY <1>1

\* Places in the log are numbers, and so are its times.
LEMMA MacNumbers ==
  ASSUME MacTyped
  PROVE  /\ macLog \in Seq([at : Nat, says : Text]) /\ Len(macLog) \in Nat
            /\ Len(macLog) <= Others.log
         /\ \A e \in MacInLog : e \in Nat /\ e >= 1 /\ e \in Mac!Entry
            /\ macLog[e].at \in Nat
         /\ MacInLog \subseteq Mac!Entry
         /\ \A e \in Mac!Entry : e \in Nat /\ e >= 1
         /\ macPurged \in Nat /\ macPurged <= Len(macLog)
<1>1. macLog \in Seq([at : Nat, says : Text]) /\ Len(macLog) \in Nat
      /\ Len(macLog) <= Others.log
  BY DEF MacTyped
<1>2. ASSUME NEW e \in MacInLog PROVE e \in Nat /\ e >= 1 /\ e \in Mac!Entry
  BY <1>1 DEF MacInLog, Mac!Entry
<1>3. ASSUME NEW e \in MacInLog PROVE macLog[e].at \in Nat
  BY <1>1, MacLoggedAt DEF MacInLog
<1>4. macPurged \in Nat /\ macPurged <= Len(macLog)
  BY <1>1 DEF MacTyped
<1>5. \A e \in Mac!Entry : e \in Nat /\ e >= 1
  BY DEF Mac!Entry
<1> QED
  BY <1>1, <1>2, <1>3, <1>4, <1>5

\* The types of the fields.
LEMMA MacFields ==
  ASSUME MacTyped
  PROVE  /\ macReader.stage \in {"hand", "show", "stream", "dead"}
            /\ macReader.read \in Nat /\ macReader.wm \in Nat
         /\ macReader.first \in Nat \cup {Mac!NoTime} /\ Mac!NoTime = -1
         /\ macSource.queue \in Seq(MacItem) /\ Len(macSource.queue) \in Nat
            /\ Len(macSource.queue) <= QueueMax
         /\ \A i \in 1..Len(macSource.queue) : macSource.queue[i] \in MacItem
         /\ macSource.pending \in Seq([run : Int, at : Nat, id : Int])
            /\ macSource.committed \in Seq(MacPlace)
         /\ macSource.watermark \in Nat
         /\ macTick.stage \in {"supervise", "drain", "commit"}
            /\ macTick.last \in MacCheckpoint
         /\ macTick.batch \in [of : SUBSET Mac!Entry, gaps : SUBSET Seq(Nat),
            cursor : MacCheckpoint]
         /\ macTick.batch.of \in SUBSET Mac!Entry
            /\ macTick.batch.gaps \in SUBSET Seq(Nat)
            /\ macTick.batch.cursor \in MacCheckpoint
         /\ macDb.of \in [Mac!Entry -> Nat] /\ macDb.gaps \in SUBSET Seq(Nat)
            /\ macDb.cursor \in MacCheckpoint
         /\ macLost.evicted \in SUBSET Mac!Entry
            /\ macLost.missed \in SUBSET Mac!Entry
            /\ macLost.skipped \in SUBSET Mac!Entry
<1>1. /\ macReader.stage \in {"hand", "show", "stream", "dead"}
         /\ macReader.read \in Nat /\ macReader.wm \in Nat
      /\ macReader.first \in Nat \cup {Mac!NoTime} /\ Mac!NoTime = -1
  BY DEF MacTyped, Mac!NoTime
<1>2. /\ macSource.queue \in Seq(MacItem) /\ Len(macSource.queue) \in Nat
         /\ Len(macSource.queue) <= QueueMax
      /\ macSource.pending \in Seq([run : Int, at : Nat, id : Int])
         /\ macSource.committed \in Seq(MacPlace)
      /\ macSource.watermark \in Nat
  BY DEF MacTyped
<1>3. \A i \in 1..Len(macSource.queue) : macSource.queue[i] \in MacItem
  BY <1>2
<1>4. /\ macTick.stage \in {"supervise", "drain", "commit"}
         /\ macTick.last \in MacCheckpoint
      /\ macTick.batch \in [of : SUBSET Mac!Entry, gaps : SUBSET Seq(Nat),
         cursor : MacCheckpoint]
  BY DEF MacTyped
<1>5. macTick.batch.of \in SUBSET Mac!Entry /\ macTick.batch.gaps \in SUBSET Seq(Nat)
      /\ macTick.batch.cursor \in MacCheckpoint
  BY <1>4
<1>6. macDb.of \in [Mac!Entry -> Nat] /\ macDb.gaps \in SUBSET Seq(Nat)
      /\ macDb.cursor \in MacCheckpoint
  BY DEF MacTyped
<1>7. macLost.evicted \in SUBSET Mac!Entry /\ macLost.missed \in SUBSET Mac!Entry
      /\ macLost.skipped \in SUBSET Mac!Entry
  BY DEF MacTyped
<1> QED
  BY <1>1, <1>2, <1>3, <1>4, <1>5, <1>6, <1>7

\* The types of the fields of checkpoints and items.
LEMMA MacCheckpointFields ==
  /\ \A c \in MacCheckpoint : c.wm \in Nat /\ c.ids \in Seq(MacPlace)
  /\ \A q \in MacItem : /\ q.of \in SUBSET Mac!Entry /\ q.id \in Int /\ q.seq \in Int
                           /\ q.run \in Int /\ q.at \in Nat
                     /\ q.gap \in Seq(Nat)
  /\ \A p \in MacPlace : p.at \in Nat /\ p.id \in Int
BY DEF MacCheckpoint, MacItem, MacPlace

\* The types of the fields after a step.
LEMMA MacNextFields ==
  ASSUME MacTyped'
  PROVE  /\ macLog' \in Seq([at : Nat, says : Text]) /\ Len(macLog') \in Nat
         /\ \A e \in MacInLog' : e \in Nat /\ e >= 1 /\ macLog'[e].at \in Nat
         /\ macPurged' \in Nat /\ macPurged' <= Len(macLog') /\ macReader'.read \in Nat
<1>1. macLog' \in Seq([at : Nat, says : Text]) /\ Len(macLog') \in Nat
  BY DEF MacTyped
<1>2. ASSUME NEW e \in MacInLog' PROVE e \in Nat /\ e >= 1 /\ macLog'[e].at \in Nat
  <2>1. e \in 1..Len(macLog')
    BY DEF MacInLog
  <2>2. macLog'[e].at \in Nat
    BY <1>1, <2>1, MacLoggedAt
  <2> QED
    BY <1>1, <2>1, <2>2
<1>3. macPurged' \in Nat /\ macPurged' <= Len(macLog')
  BY <1>1 DEF MacTyped
<1>4. macReader'.read \in Nat
  BY DEF MacTyped
<1> QED
  BY <1>1, <1>2, <1>3, <1>4

\* A replay starts no later than the watermark.
LEMMA MacReplayFromBelow ==
  ASSUME NEW t \in Nat
  PROVE  Mac!ReplayFrom(t) \in Nat /\ Mac!ReplayFrom(t) <= t
<1>1. t % Second \in Nat
  OBVIOUS
<1>2. (t - (t % Second)) - Overlap \in Int /\ (t - (t % Second)) - Overlap <= t
  BY <1>1
<1> QED
  BY <1>2 DEF Mac!ReplayFrom, Mac!Later

(* What a step keeps of the log, and of what is accounted for.             *)
MacLogGrows ==
  /\ Len(macLog) <= Len(macLog')
  /\ \A e \in MacInLog : macLog'[e] = macLog[e]
  /\ \A e \in MacInLog' : e \notin MacInLog => \A t \in Nat : MacReached(t)
     => t <= macLog'[e].at
  /\ macPurged <= macPurged'
MacHaveKept  == \A e \in Mac!Entry : MacHave(e) => MacHave(e)'
MacTakenKept == \A e \in Mac!Entry : MacTaken(e) => MacTaken(e)'

\* A time that the log has reached is not passed by what is added.
LEMMA MacReachedKept ==
  ASSUME MacTyped, MacTyped', MacLogGrows, NEW t \in Nat, MacReached(t)
  PROVE  /\ MacReached(t)'
         /\ \A e \in MacInLog' : macLog'[e].at < t => e \in MacInLog /\ macLog[e].at < t
<1>1. \A e \in MacInLog : e \in MacInLog' /\ macLog'[e] = macLog[e]
  BY MacNumbers DEF MacInLog, MacLogGrows
<1>2. MacReached(t)'
  BY <1>1 DEF MacReached
<1>3. ASSUME NEW e \in MacInLog', macLog'[e].at < t
        PROVE e \in MacInLog /\ macLog[e].at < t
  <2>1. macLog'[e].at \in Nat
    <3>1. macLog' \in Seq([at : Nat, says : Text])
      BY DEF MacTyped
    <3> QED
      BY <3>1, MacLoggedAt DEF MacInLog
  <2>2. e \in MacInLog
    <3>1. e \notin MacInLog => t <= macLog'[e].at
      BY DEF MacLogGrows
    <3> QED
      BY <2>1, <1>3, <3>1
  <2> QED
    BY <1>1, <1>3, <2>2
<1> QED
  BY <1>2, <1>3

\* What may be replayed from stays so.
LEMMA MacHaveCarried ==
  ASSUME MacTyped, MacTyped', MacLogGrows, MacHaveKept
  PROVE  /\ \A t \in Nat : MacHaveBefore(t) => MacHaveBefore(t)'
         /\ \A s \in Seq(MacPlace) : MacHaveIds(s) => MacHaveIds(s)'
<1>0. \A e \in MacInLog : e \in Mac!Entry /\ e \in MacInLog'
  BY MacNumbers DEF MacInLog, MacLogGrows
<1>1. ASSUME NEW t \in Nat, MacHaveBefore(t) PROVE MacHaveBefore(t)'
  <2>1. Mac!ReplayFrom(t) \in Nat /\ Mac!ReplayFrom(t) <= t
    BY MacReplayFromBelow
  <2>2. MacReached(t)' /\ \A e \in MacInLog' : macLog'[e].at < t => e \in MacInLog
        /\ macLog[e].at < t
    BY <1>1, MacReachedKept DEF MacHaveBefore
  <2>3. ASSUME NEW e \in MacInLog', macLog'[e].at < Mac!ReplayFrom(t) PROVE MacHave(e)'
    <3>1. macLog'[e].at \in Nat
      <4>1. MacTyped'
        OBVIOUS
      <4>2. macLog' \in Seq([at : Nat, says : Text])
        BY <4>1 DEF MacTyped
      <4> QED
        BY <4>2, MacLoggedAt DEF MacInLog
    <3>2. e \in MacInLog /\ macLog[e].at < Mac!ReplayFrom(t)
      <4>1. macLog'[e].at < t
        BY <2>1, <2>3, <3>1
      <4>2. e \in MacInLog /\ macLog'[e] = macLog[e]
        BY <2>2, <4>1 DEF MacLogGrows
      <4> QED
        BY <2>3, <4>2
    <3> QED
      BY <1>0, <1>1, <3>2 DEF MacHaveBefore, MacHaveKept
  <2> QED
    BY <2>2, <2>3 DEF MacHaveBefore, Mac!ReplayFrom
<1>2. ASSUME NEW s \in Seq(MacPlace), MacHaveIds(s) PROVE MacHaveIds(s)'
  BY <1>0, <1>2 DEF MacHaveIds, MacHaveKept, Mac!Elements
<1> QED
  BY <1>1, <1>2

\* The same of what has been taken.
LEMMA MacTakenCarried ==
  ASSUME MacTyped, MacTyped', MacLogGrows, MacTakenKept
  PROVE  /\ \A t \in Nat : MacTakenBefore(t) => MacTakenBefore(t)'
         /\ \A s \in Seq(MacPlace) : MacTakenIds(s) => MacTakenIds(s)'
<1>0. \A e \in MacInLog : e \in Mac!Entry /\ e \in MacInLog'
  BY MacNumbers DEF MacInLog, MacLogGrows
<1>1. ASSUME NEW t \in Nat, MacTakenBefore(t) PROVE MacTakenBefore(t)'
  <2>1. Mac!ReplayFrom(t) \in Nat /\ Mac!ReplayFrom(t) <= t
    BY MacReplayFromBelow
  <2>2. MacReached(t)' /\ \A e \in MacInLog' : macLog'[e].at < t => e \in MacInLog
        /\ macLog[e].at < t
    BY <1>1, MacReachedKept DEF MacTakenBefore
  <2>3. ASSUME NEW e \in MacInLog', macLog'[e].at < Mac!ReplayFrom(t) PROVE MacTaken(e)'
    <3>1. macLog'[e].at \in Nat
      <4>1. MacTyped'
        OBVIOUS
      <4>2. macLog' \in Seq([at : Nat, says : Text])
        BY <4>1 DEF MacTyped
      <4> QED
        BY <4>2, MacLoggedAt DEF MacInLog
    <3>2. e \in MacInLog /\ macLog[e].at < Mac!ReplayFrom(t)
      <4>1. macLog'[e].at < t
        BY <2>1, <2>3, <3>1
      <4>2. e \in MacInLog /\ macLog'[e] = macLog[e]
        BY <2>2, <4>1 DEF MacLogGrows
      <4> QED
        BY <2>3, <4>2
    <3> QED
      BY <1>0, <1>1, <3>2 DEF MacTakenBefore, MacTakenKept
  <2> QED
    BY <2>2, <2>3 DEF MacTakenBefore, Mac!ReplayFrom
<1>2. ASSUME NEW s \in Seq(MacPlace), MacTakenIds(s) PROVE MacTakenIds(s)'
  BY <1>0, <1>2 DEF MacTakenIds, MacTakenKept, Mac!Elements
<1> QED
  BY <1>1, <1>2
-----------------------------------------------------------------------------
\* A gap stays a gap.
LEMMA MacGapsKept ==
  ASSUME MacTyped, MacTyped', MacLogGrows, NEW g \in Seq(Nat), MacGapReal(g)
  PROVE  MacGapReal(g)'
<1>1. CASE g = <<>>
  BY <1>1 DEF MacGapReal
<1>2. CASE g # <<>>
  <2>1. g[1] \in Nat /\ g[2] \in Nat /\ MacReached(g[2])
    BY <1>2 DEF MacGapReal
  <2>2. MacReached(g[2])' /\ \A e \in MacInLog' : macLog'[e].at < g[2]
        => e \in MacInLog /\ macLog[e].at < g[2]
    BY <2>1, MacReachedKept
  <2>3. ASSUME NEW e \in MacInLog', g[1] <= macLog'[e].at, macLog'[e].at < g[2]
          PROVE e <= macPurged'
    <3>1. e \in MacInLog /\ macLog'[e] = macLog[e]
      BY <2>2, <2>3 DEF MacLogGrows
    <3>2. e <= macPurged
      BY <1>2, <2>3, <3>1 DEF MacGapReal
    <3>3. e \in Nat /\ macPurged \in Nat /\ macPurged <= macPurged'
      BY <3>1, MacNumbers DEF MacLogGrows
    <3>4. macPurged' \in Nat
      BY MacNextFields
    <3> QED
      BY <3>2, <3>3, <3>4
  <2> QED
    BY <2>1, <2>2, <2>3 DEF MacGapReal
<1> QED
  BY <1>1, <1>2

\* The invariant, part by part, over steps that leave a part alone.
LEMMA MacStoredKept ==
  ASSUME MacTyped, MacTyped', MacStored, MacLogGrows, MacHaveKept, macDb' = macDb
  PROVE  MacStored'
<1>1. macDb.cursor.wm \in Nat /\ macDb.cursor.ids \in Seq(MacPlace)
      /\ macDb.gaps \in SUBSET Seq(Nat)
  BY MacFields, MacCheckpointFields
<1> DEFINE t == macDb.cursor.wm  s == macDb.cursor.ids  gs == macDb.gaps
<1>2. PICK T \in Nat : T = t
  BY <1>1
<1>3. PICK S \in Seq(MacPlace) : S = s
  BY <1>1
<1>4. PICK G \in SUBSET Seq(Nat) : G = gs
  BY <1>1
<1>5. MacHaveBefore(T) /\ MacHaveIds(S) /\ \A g \in G : MacGapReal(g)
  BY <1>2, <1>3, <1>4 DEF MacStored
<1>6. MacHaveBefore(T)' /\ MacHaveIds(S)' /\ \A g \in G : MacGapReal(g)'
  BY <1>5, MacHaveCarried, MacGapsKept
<1>7. macDb'.cursor.wm = T /\ macDb'.cursor.ids = S /\ macDb'.gaps = G
  BY <1>2, <1>3, <1>4
<1> QED
  BY <1>6, <1>7 DEF MacStored, MacHaveBefore, MacHaveIds

\* The checkpoint in memory.
LEMMA MacRememberingKept ==
  ASSUME MacTyped, MacTyped', MacRemembering, MacLogGrows, MacTakenKept,
         macTick'.last = macTick.last
  PROVE  MacRemembering'
<1>1. macTick.last.wm \in Nat /\ macTick.last.ids \in Seq(MacPlace)
  BY MacFields, MacCheckpointFields
<1>2. PICK T \in Nat : T = macTick.last.wm
  BY <1>1
<1>3. PICK S \in Seq(MacPlace) : S = macTick.last.ids
  BY <1>1
<1>5. MacTakenBefore(T) /\ MacTakenIds(S)
  BY <1>2, <1>3 DEF MacRemembering
<1>6. MacTakenBefore(T)' /\ MacTakenIds(S)'
  BY <1>5, MacTakenCarried
<1>7. macTick'.last.wm = T /\ macTick'.last.ids = S
  BY <1>2, <1>3
<1> QED
  BY <1>6, <1>7 DEF MacRemembering, MacTakenBefore, MacTakenIds

\* The batch.
LEMMA MacBatchKept ==
  ASSUME MacTyped, MacTyped', MacBatch, MacLogGrows, macTick' = macTick
  PROVE  MacBatch'
<1>1. PICK G \in SUBSET Seq(Nat) : G = macTick.batch.gaps
  BY MacFields
<1>2. \A g \in G : MacGapReal(g)'
  BY <1>1, MacGapsKept DEF MacBatch
<1>3. macTick.batch.of \subseteq MacInLog'
  BY MacNumbers DEF MacBatch, MacLogGrows, MacInLog
<1> QED
  BY <1>1, <1>2, <1>3 DEF MacBatch

\* The committed identities and the watermark.
LEMMA MacSourceKept ==
  ASSUME MacTyped, MacTyped', MacSource, MacLogGrows, MacTakenKept,
         macSource'.watermark = macSource.watermark,
             macSource'.committed = macSource.committed
  PROVE  MacSource'
<1>1. macSource.watermark \in Nat /\ macSource.committed \in Seq(MacPlace)
  BY MacFields
<1>2. PICK T \in Nat : T = macSource.watermark
  BY <1>1
<1>3. PICK S \in Seq(MacPlace) : S = macSource.committed
  BY <1>1
<1>5. MacTakenBefore(T) /\ MacTakenIds(S)
  BY <1>2, <1>3 DEF MacSource
<1>6. MacTakenBefore(T)' /\ MacTakenIds(S)'
  BY <1>5, MacTakenCarried
<1>7. macSource'.watermark = T /\ macSource'.committed = S
  BY <1>2, <1>3
<1> QED
  BY <1>6, <1>7 DEF MacSource, MacTakenBefore, MacTakenIds

\* A gap report in the queue.
LEMMA MacGapItemKept ==
  ASSUME MacTyped, MacTyped', MacLogGrows, MacTakenKept, NEW q \in MacItem,
         MacGapItem(q)
  PROVE  MacGapItem(q)'
<1>1. q.at \in Nat /\ q.gap \in Seq(Nat)
  BY MacCheckpointFields
<1>2. MacGapReal(q.gap)' /\ MacReached(q.at)'
  BY <1>1, MacGapsKept, MacReachedKept DEF MacGapItem
<1>3. ASSUME NEW e \in MacInLog', macLog'[e].at < q.at PROVE MacTaken(e)'
  <2>1. e \in MacInLog /\ macLog[e].at < q.at
    BY <1>1, <1>3, MacReachedKept DEF MacGapItem
  <2> QED
    BY <2>1, MacNumbers DEF MacGapItem, MacTakenKept
<1> QED
  BY <1>2, <1>3 DEF MacGapItem, MacGapReal

\* A run in the queue.
LEMMA MacEntryItemKept ==
  ASSUME MacTyped, MacTyped', MacLogGrows, macReader.read <= macReader'.read,
         NEW q \in MacItem, MacEntryItem(q)
  PROVE  MacEntryItem(q)'
<1>1. \A e \in q.of : e \in MacInLog /\ e <= q.id /\ e <= macReader.read
  BY DEF MacEntryItem
<1>2. \A e \in MacInLog : e \in MacInLog' /\ e \in Nat
  BY MacNumbers DEF MacLogGrows, MacInLog
<1>3. macReader.read \in Nat
  BY MacFields
<1>4. macReader'.read \in Nat
  BY MacNextFields
<1>5. \A e \in q.of : e \in MacInLog' /\ e <= q.id /\ e <= macReader'.read
  BY <1>1, <1>2, <1>3, <1>4
<1>6. q.id \in q.of /\ q.gap = <<>> /\ q.at = macLog'[q.id].at
      /\ (\E f \in q.of : q.run = 2 * f)
  BY <1>1 DEF MacEntryItem, MacLogGrows
<1> QED
  BY <1>5, <1>6 DEF MacEntryItem

\* The whole source.
LEMMA MacPresentKept ==
  ASSUME MacTyped, MacTyped', MacPresent, MacLogGrows, MacTakenKept,
         macLost.evicted \subseteq macLost'.evicted,
         macReader.read <= macReader'.read, macSource' = macSource
  PROVE  MacPresent'
<1>1. MacSource'
  BY MacSourceKept DEF MacPresent
<1>2. MacItems'
  BY MacGapItemKept, MacEntryItemKept, MacFields DEF MacPresent, MacItems
<1>3. MacInOrder'
  BY DEF MacPresent, MacInOrder
<1>4. MacQueueCovers'
  <2> SUFFICES ASSUME NEW i \in 1..Len(macSource.queue), NEW e \in MacInLog',
      e <= macSource.queue[i].id PROVE MacHeld(e, i)'
    BY DEF MacQueueCovers
  <2>1. macSource.queue[i] \in MacItem
        /\ (MacGapItem(macSource.queue[i]) \/ MacEntryItem(macSource.queue[i]))
    BY MacFields DEF MacPresent, MacItems
  <2>2. e \in Nat /\ e >= 1
    <3>1. MacTyped'
      OBVIOUS
    <3>2. macLog' \in Seq([at : Nat, says : Text])
      BY <3>1 DEF MacTyped
    <3> QED
      BY <3>2 DEF MacInLog
  <2>3. MacEntryItem(macSource.queue[i]) /\ macSource.queue[i].id \in MacInLog
    BY <2>1, <2>2, MacCheckpointFields DEF MacGapItem, MacEntryItem
  <2>4. e \in MacInLog
    BY <2>2, <2>3, MacNumbers DEF MacInLog
  <2>5. MacHeld(e, i) /\ e \in Mac!Entry
    BY <2>4, MacNumbers DEF MacPresent, MacQueueCovers
  <2> QED
    BY <2>5 DEF MacHeld, MacTakenKept
<1>5. MacPending'
  <2>1. \A e \in MacInLog : e \in MacInLog'
    BY MacNumbers DEF MacLogGrows, MacInLog
  <2> QED
    BY <2>1 DEF MacPresent, MacPending, Mac!Elements
<1> QED
  BY <1>1, <1>2, <1>3, <1>4, <1>5 DEF MacPresent

\* What was read.
LEMMA MacReadingKept ==
  ASSUME MacTyped, MacTyped', MacReading, MacShowing, MacLogGrows, MacTakenKept,
         macSource' = macSource, macReader'.read = macReader.read
  PROVE  MacReading'
<1> SUFFICES ASSUME NEW e \in MacInLog', e <= macReader.read
    PROVE MacHeld(e, Len(macSource.queue))'
  BY DEF MacReading
<1>1. e \in MacInLog
  <2>1. e \in Nat /\ e >= 1
    <3>2. macLog' \in Seq([at : Nat, says : Text])
      BY DEF MacTyped
    <3> QED
      BY <3>2 DEF MacInLog
  <2>2. macReader.read \in Nat /\ macReader.read <= Len(macLog) /\ Len(macLog) \in Nat
    BY MacFields, MacNumbers DEF MacShowing
  <2> QED
    BY <2>1, <2>2 DEF MacInLog
<1>2. MacHeld(e, Len(macSource.queue)) /\ e \in Mac!Entry
  BY <1>1, MacNumbers DEF MacReading
<1> QED
  BY <1>2 DEF MacHeld, MacTakenKept

\* What `log show` has passed over.
LEMMA MacShowingKept ==
  ASSUME MacTyped, MacTyped', MacShowing, MacLogGrows, MacTakenKept,
         macReader'.read = macReader.read, macReader'.wm = macReader.wm,
         macReader'.first = macReader.first, macReader'.stage = "show"
             => macReader.stage = "show"
  PROVE  MacShowing'
<1>1. /\ macReader.read \in Nat /\ macReader.wm \in Nat /\ macReader.first \in Nat
         \cup {Mac!NoTime}
      /\ macReader.read <= Len(macLog) /\ MacReached(macReader.wm)
  BY MacFields DEF MacShowing
<1>2. \A e \in MacInLog : e \in Mac!Entry /\ e \in Nat /\ e \in MacInLog'
      /\ macLog'[e] = macLog[e]
  BY MacNumbers DEF MacLogGrows, MacInLog
<1>3. \A e \in MacInLog' : e \in Nat /\ e >= 1
  <2>2. macLog' \in Seq([at : Nat, says : Text])
    BY DEF MacTyped
  <2> QED
    BY <2>2 DEF MacInLog
<1>4. macReader.read <= Len(macLog') /\ \A e \in MacInLog' : e <= macReader.read
      => e \in MacInLog
  <2>1. Len(macLog) \in Nat /\ Len(macLog) <= Len(macLog')
    BY MacNumbers DEF MacLogGrows
  <2>2. Len(macLog') \in Nat
    BY MacNumbers
  <2> QED
    BY <1>1, <1>3, <2>1, <2>2 DEF MacInLog
<1>5. PICK W \in Nat : W = macReader.wm
  BY <1>1
<1>6. MacReached(W)'
  BY <1>1, <1>5, MacReachedKept
<1>7. ASSUME macReader.stage = "show", macReader.first = Mac!NoTime,
        NEW e \in MacInLog', e <= macReader.read
      PROVE  macLog'[e].at < macReader.wm /\ MacTaken(e)'
  BY <1>2, <1>4, <1>7 DEF MacShowing, MacTakenKept
<1>8. ASSUME macReader.stage = "show", macReader.first # Mac!NoTime
      PROVE  /\ MacReached(macReader.first)'
             /\ \A e \in MacInLog' : macLog'[e].at < macReader.first => 
                 MacTaken(e)' /\ (macReader.wm <= macLog'[e].at => e <= macPurged')
  <2>1. PICK F \in Nat : F = macReader.first
    BY <1>1, <1>8
  <2>2. MacReached(F)
    BY <1>8, <2>1 DEF MacShowing
  <2>3. MacReached(F)' /\ \A e \in MacInLog' : macLog'[e].at < F => e \in MacInLog
        /\ macLog[e].at < F
    BY <2>2, MacReachedKept
  <2>4. ASSUME NEW e \in MacInLog', macLog'[e].at < F
          PROVE MacTaken(e)' /\ (macReader.wm <= macLog'[e].at => e <= macPurged')
    <3>1. e \in MacInLog /\ macLog[e].at < F /\ macLog'[e] = macLog[e] /\ e \in Nat
      BY <1>2, <2>3, <2>4
    <3>2. MacTaken(e) /\ (macReader.wm <= macLog[e].at => e <= macPurged)
      BY <1>8, <2>1, <3>1 DEF MacShowing
    <3>3. macPurged \in Nat /\ macPurged <= macPurged'
      BY MacNumbers DEF MacLogGrows
    <3>4. macPurged' \in Nat
      BY MacNextFields
    <3> QED
      BY <1>2, <3>1, <3>2, <3>3, <3>4 DEF MacTakenKept
  <2>5. MacReached(macReader.first)'
    BY <1>8, <2>1, <2>3 DEF MacReached
  <2> QED
    BY <2>1, <2>4, <2>5
<1> QED
  BY <1>4, <1>5, <1>6, <1>7, <1>8 DEF MacShowing, MacReached
-----------------------------------------------------------------------------
\* It holds initially.
LEMMA MacInitHolds == Mac!Init => MacIInv
<1> SUFFICES ASSUME Mac!Init PROVE MacIInv
  OBVIOUS
<1>1. Mac!NoCursor \in MacCheckpoint
  <2>1. <<>> \in Seq(MacPlace)
    OBVIOUS
  <2> QED
    BY <2>1 DEF Mac!NoCursor, MacCheckpoint
<1>2. Mac!Nothing \in [of : SUBSET Mac!Entry, gaps : SUBSET Seq(Nat),
      cursor : MacCheckpoint]
  BY <1>1 DEF Mac!Nothing
<1>3. MacTyped
  <2>1. macLog \in Seq([at : Nat, says : Text]) /\ Len(macLog) <= Others.log
        /\ macPurged \in 0..Len(macLog)
    BY DEF Mac!Init
  <2>2. macReader \in [stage : {"hand", "show", "stream", "dead"}, read : Nat,
        wm : Nat, first : Nat \cup {Mac!NoTime}]
    BY DEF Mac!Init
  <2>3. macSource \in [queue : Seq(MacItem),
        pending : Seq([run : Int, at : Nat, id : Int]), committed : Seq(MacPlace),
        watermark : Nat]
    BY DEF Mac!Init
  <2>4. Len(macSource.queue) <= QueueMax
    BY DEF Mac!Init
  <2>5. macTick \in [stage : {"supervise", "drain", "commit"}, last : MacCheckpoint,
                 batch : [of : SUBSET Mac!Entry, gaps : SUBSET Seq(Nat),
                     cursor : MacCheckpoint]]
    BY <1>1, <1>2 DEF Mac!Init
  <2>6. macDb \in [of : [Mac!Entry -> Nat], gaps : SUBSET Seq(Nat),
        cursor : MacCheckpoint]
    BY <1>1 DEF Mac!Init
  <2>7. macLost \in [evicted : SUBSET Mac!Entry, missed : SUBSET Mac!Entry,
        skipped : SUBSET Mac!Entry,
        unsaved : SUBSET Mac!Entry, untold : SUBSET Seq(Nat)]
    BY DEF Mac!Init
  <2> QED
    BY <2>1, <2>2, <2>3, <2>4, <2>5, <2>6, <2>7 DEF MacTyped
<1>4. MacInLog = {} /\ Mac!Elements(<<>>) = {}
  BY DEF Mac!Init, MacInLog, Mac!Elements
<1>5. MacOrdered /\ MacTimed
  BY <1>4 DEF MacOrdered, MacTimed
<1>6. MacReached(0) /\ MacHaveBefore(0) /\ MacTakenBefore(0) /\ MacHaveIds(<<>>)
      /\ MacTakenIds(<<>>)
  BY <1>4 DEF MacHaveBefore, MacTakenBefore, MacHaveIds, MacTakenIds, MacReached
<1>7. MacPast
  BY <1>6 DEF Mac!Init, MacPast, MacStored, MacRemembering, MacBatch, Mac!NoCursor,
     Mac!Nothing
<1>8. MacPresent
  <2>1. macSource.queue = <<>> /\ macSource.pending = <<>>
        /\ macSource.committed = <<>> /\ macSource.watermark = 0
    BY DEF Mac!Init
  <2> QED
    BY <1>4, <1>6, <2>1 DEF MacPresent, MacSource, MacItems, MacInOrder,
       MacQueueCovers, MacPending
<1>9. MacShowing
  BY <1>6 DEF Mac!Init, MacShowing
<1>10. MacReading
  BY <1>4 DEF MacReading
<1> QED
  BY <1>3, <1>5, <1>7, <1>8, <1>9, <1>10 DEF MacIInv

(* The times of a log that only grows stay in order.                        *)
LEMMA MacOrderKept ==
  ASSUME MacOrdered, MacTimed, macLog' = macLog
  PROVE  MacOrdered' /\ MacTimed'
BY DEF MacOrdered, MacTimed, MacInLog

\* A log that is not written to only loses entries to retention.
LEMMA MacSameLog ==
  ASSUME MacTyped, macLog' = macLog, macPurged <= macPurged'
  PROVE  MacLogGrows
BY MacNumbers DEF MacLogGrows, MacInLog

\* The steps.  A new entry is not before any time the log has reached.
LEMMA MacLogStep ==
  ASSUME MacIInv, Mac!Log
  PROVE  MacIInv'
<1>0. MacTyped /\ MacOrdered /\ MacTimed /\ MacPast /\ MacPresent /\ MacShowing
      /\ MacReading
  BY DEF MacIInv
<1>1. PICK says \in Text, step \in Steps :
        macLog' = Append(macLog,
            [at |-> step + (IF macLog = <<>> THEN Second ELSE macLog[Len(macLog)].at),
            says |-> says])
  BY DEF Mac!Log
<1>2. PICK E : E = [at |-> step
      + (IF macLog = <<>> THEN Second ELSE macLog[Len(macLog)].at), says |-> says]
  OBVIOUS
<1>3. /\ \A e \in MacInLog : e \in Nat /\ e >= 1 /\ macLog[e].at \in Nat
      /\ macLog \in Seq([at : Nat, says : Text]) /\ Len(macLog) \in Nat
         /\ Len(macLog) < Others.log
  BY <1>0, MacNumbers DEF Mac!Log
<1>4. E.at \in Nat /\ E \in [at : Nat, says : Text]
      /\ \A f \in MacInLog : macLog[f].at <= E.at
  <2>1. CASE macLog = <<>>
    BY <1>2, <1>3, <2>1 DEF MacInLog
  <2>2. CASE macLog # <<>>
    <3>1. Len(macLog) \in MacInLog
      BY <1>3, <2>2 DEF MacInLog
    <3>2. E.at = step + macLog[Len(macLog)].at /\ E.at \in Nat
          /\ macLog[Len(macLog)].at <= E.at
      BY <1>2, <1>3, <2>2, <3>1
    <3>3. \A f \in MacInLog : macLog[f].at <= macLog[Len(macLog)].at
      <4>1. \A f \in MacInLog : f <= Len(macLog)
        BY DEF MacInLog
      <4> QED
        BY <1>0, <3>1, <4>1 DEF MacOrdered
    <3>4. E \in [at : Nat, says : Text]
      BY <1>2, <3>2, <2>2
    <3> QED
      BY <1>3, <3>1, <3>2, <3>3, <3>4
  <2> QED
    BY <2>1, <2>2
<1>5. E.at > 0
  <2>1. CASE macLog = <<>>
    BY <1>2, <2>1
  <2>2. CASE macLog # <<>>
    <3>1. Len(macLog) \in MacInLog
      BY <1>3, <2>2 DEF MacInLog
    <3>2. macLog[Len(macLog)].at > 0 /\ macLog[Len(macLog)].at <= E.at
      BY <1>0, <1>4, <3>1 DEF MacTimed
    <3> QED
      BY <1>3, <1>4, <3>1, <3>2
  <2> QED
    BY <2>1, <2>2
<1>6. /\ macLog' \in Seq([at : Nat, says : Text]) /\ Len(macLog') = Len(macLog) + 1
      /\ \A e \in MacInLog : macLog'[e] = macLog[e]
      /\ macLog'[Len(macLog) + 1] = E
      /\ \A e \in MacInLog' : e \in MacInLog \/ e = Len(macLog) + 1
  <2>1. macLog' = Append(macLog, E)
    BY <1>1, <1>2
  <2> QED
    BY <1>3, <1>4, <2>1, AppendProperties DEF MacInLog
<1>7. UNCHANGED <<macPurged, macReader, macSource, macTick, macDb, macLost, macFaults>>
  BY DEF Mac!Log
<1>8. MacTyped'
  <2>1. Len(macLog') <= Others.log /\ macPurged' \in 0..Len(macLog')
    BY <1>0, <1>3, <1>6, <1>7, MacNumbers
  <2> QED
    BY <1>0, <1>6, <1>7, <2>1 DEF MacTyped
<1>9. MacLogGrows
  <2>1. ASSUME NEW e \in MacInLog', e \notin MacInLog, NEW t \in Nat, MacReached(t)
          PROVE t <= macLog'[e].at
    <3>1. macLog'[e] = E
      BY <1>6, <2>1
    <3>2. CASE t = 0
      BY <1>4, <3>1, <3>2
    <3>3. CASE \E f \in MacInLog : t <= macLog[f].at
      BY <1>3, <1>4, <3>1, <3>3
    <3> QED
      BY <2>1, <3>2, <3>3 DEF MacReached
  <2> QED
    BY <1>0, <1>3, <1>6, <1>7, <2>1, MacNumbers DEF MacLogGrows
<1>10. MacHaveKept /\ MacTakenKept
  BY <1>7 DEF MacHaveKept, MacTakenKept, MacHave, MacTaken
<1>11. MacOrdered'
  <2> SUFFICES ASSUME NEW e \in MacInLog', NEW f \in MacInLog', e <= f
      PROVE macLog'[e].at <= macLog'[f].at
    BY DEF MacOrdered
  <2>1. CASE e \in MacInLog /\ f \in MacInLog
    BY <1>0, <1>6, <2>1 DEF MacOrdered
  <2>2. CASE e \in MacInLog /\ f = Len(macLog) + 1
    BY <1>4, <1>6, <2>2
  <2>3. CASE e = Len(macLog) + 1
    <3>1. f = Len(macLog) + 1
      BY <1>3, <1>6, <2>3 DEF MacInLog
    <3> QED
      BY <1>4, <1>6, <2>3, <3>1
  <2> QED
    BY <1>6, <2>1, <2>2, <2>3
<1>12. MacTimed'
  BY <1>0, <1>5, <1>6 DEF MacTimed
<1>13. MacPast'
  BY <1>0, <1>7, <1>8, <1>9, <1>10, MacStoredKept, MacRememberingKept,
     MacBatchKept DEF MacPast
<1>14. MacPresent'
  <2>1. macReader.read \in Nat
    BY <1>0, MacFields
  <2>2. macReader.read <= macReader'.read /\ macLost.evicted \subseteq macLost'.evicted
    BY <1>7, <2>1
  <2> QED
    BY <1>0, <1>7, <1>8, <1>9, <1>10, <2>2, MacPresentKept
<1>15. MacShowing' /\ MacReading'
  <2>1. macReader' = macReader /\ macSource' = macSource
    BY <1>7
  <2> QED
    BY <1>0, <1>8, <1>9, <1>10, <2>1, MacShowingKept, MacReadingKept
<1> QED
  BY <1>8, <1>11, <1>12, <1>13, <1>14, <1>15 DEF MacIInv

\* Retention takes the oldest entry, which is then lost by name.
LEMMA MacPurgeStep ==
  ASSUME MacIInv, Mac!Purge
  PROVE  MacIInv'
<1>0. MacTyped /\ MacOrdered /\ MacTimed /\ MacPast /\ MacPresent /\ MacShowing
      /\ MacReading
  BY DEF MacIInv
<1>1. macPurged' = macPurged + 1
      /\ UNCHANGED <<macLog, macReader, macSource, macTick, macDb, macLost, macFaults>>
  BY DEF Mac!Purge
<1>2. macPurged + 1 <= Len(macLog) /\ macPurged \in Nat /\ Len(macLog) \in Nat
  BY <1>0, MacNumbers DEF Mac!Purge, Mac!Fewer
<1>3. MacTyped'
  <2>1. macPurged' \in 0..Len(macLog')
    BY <1>1, <1>2
  <2> QED
    BY <1>0, <1>1, <2>1 DEF MacTyped
<1>4. MacLogGrows
  BY <1>0, <1>1, <1>2, MacSameLog
<1>5. MacHaveKept
  <2> SUFFICES ASSUME NEW e \in Mac!Entry, MacHave(e) PROVE MacHave(e)'
    BY DEF MacHaveKept
  <2>1. e <= macPurged => e <= macPurged'
    BY <1>0, <1>1, <1>2, MacNumbers
  <2> QED
    BY <1>1, <2>1 DEF MacHave
<1>6. MacTakenKept
  BY <1>1, <1>5 DEF MacTakenKept, MacHaveKept, MacTaken
<1>7. MacOrdered' /\ MacTimed'
  BY <1>0, <1>1, MacOrderKept
<1>13. MacPast'
  BY <1>0, <1>1, <1>3, <1>4, <1>5, <1>6, MacStoredKept, MacRememberingKept,
     MacBatchKept DEF MacPast
<1>14. MacPresent'
  <2>1. macReader.read \in Nat
    BY <1>0, MacFields
  <2>2. macReader.read <= macReader'.read /\ macLost.evicted \subseteq macLost'.evicted
    BY <1>1, <2>1
  <2> QED
    BY <1>0, <1>1, <1>3, <1>4, <1>6, <2>2, MacPresentKept
<1>15. MacShowing' /\ MacReading'
  <2>1. macReader' = macReader /\ macSource' = macSource
    BY <1>1
  <2> QED
    BY <1>0, <1>3, <1>4, <1>6, <2>1, MacShowingKept, MacReadingKept
<1> QED
  BY <1>3, <1>7, <1>13, <1>14, <1>15 DEF MacIInv

\* A dead reader has the queue it had.
LEMMA MacDieStep ==
  ASSUME MacIInv, Mac!Die
  PROVE  MacIInv'
<1>0. MacTyped /\ MacOrdered /\ MacTimed /\ MacPast /\ MacPresent /\ MacShowing
      /\ MacReading
  BY DEF MacIInv
<1>1. macReader' = [macReader EXCEPT !.stage = "dead"]
      /\ UNCHANGED <<macLog, macPurged, macSource, macTick, macDb, macLost>>
  BY DEF Mac!Die
<1>2. /\ macReader'.stage = "dead" /\ macReader'.read = macReader.read
         /\ macReader'.wm = macReader.wm
      /\ macReader'.first = macReader.first
      /\ macReader' \in [stage : {"hand", "show", "stream", "dead"}, read : Nat,
         wm : Nat, first : Nat \cup {Mac!NoTime}]
  BY <1>0, <1>1 DEF MacTyped
<1>3. MacTyped'
  BY <1>0, <1>1, <1>2 DEF MacTyped
<1>4. MacLogGrows
  BY <1>0, <1>1, MacSameLog, MacNumbers
<1>5. MacHaveKept /\ MacTakenKept
  BY <1>1 DEF MacHaveKept, MacTakenKept, MacHave, MacTaken
<1>7. MacOrdered' /\ MacTimed'
  BY <1>0, <1>1, MacOrderKept
<1>13. MacPast'
  BY <1>0, <1>1, <1>3, <1>4, <1>5, MacStoredKept, MacRememberingKept,
     MacBatchKept DEF MacPast
<1>14. MacPresent'
  <2>1. macReader.read \in Nat
    BY <1>0, MacFields
  <2>2. macReader.read <= macReader'.read /\ macLost.evicted \subseteq macLost'.evicted
    BY <1>1, <1>2, <2>1
  <2> QED
    BY <1>0, <1>1, <1>3, <1>4, <1>5, <2>2, MacPresentKept
<1>15. MacShowing' /\ MacReading'
  BY <1>0, <1>1, <1>2, <1>3, <1>4, <1>5, MacShowingKept, MacReadingKept
<1> QED
  BY <1>3, <1>7, <1>13, <1>14, <1>15 DEF MacIInv

\* What falls between show and stream is missed by name.
LEMMA MacStartStreamStep ==
  ASSUME MacIInv, Mac!StartStream
  PROVE  MacIInv'
<1>0. MacTyped /\ MacOrdered /\ MacTimed /\ MacPast /\ MacPresent /\ MacShowing
      /\ MacReading
  BY DEF MacIInv
<1>1. /\ macReader' = [macReader EXCEPT !.stage = "stream", !.read = Len(macLog)]
      /\ UNCHANGED <<macLog, macPurged, macSource, macTick, macDb, macFaults>>
  BY DEF Mac!StartStream
<1>a. macReader.read \in Nat /\ macReader.read <= Len(macLog) /\ Len(macLog) \in Nat
  BY <1>0, MacFields, MacNumbers DEF MacShowing
<1>2. /\ macReader'.stage = "stream" /\ macReader'.read = Len(macLog)
         /\ macReader'.wm = macReader.wm
      /\ macReader' \in [stage : {"hand", "show", "stream", "dead"}, read : Nat,
         wm : Nat, first : Nat \cup {Mac!NoTime}]
  BY <1>0, <1>1, <1>a DEF MacTyped
<1> DEFINE between == macReader.read + 1 .. Len(macLog)
<1>b. between \subseteq Mac!Entry /\ between \subseteq MacInLog
  <2>1. between \subseteq MacInLog
    BY <1>a DEF MacInLog
  <2> QED
    BY <1>0, <2>1, MacNumbers
<1>c. /\ macLost' \in [evicted : SUBSET Mac!Entry, missed : SUBSET Mac!Entry,
         skipped : SUBSET Mac!Entry,
         unsaved : SUBSET Mac!Entry, untold : SUBSET Seq(Nat)]
      /\ macLost'.evicted = macLost.evicted
         /\ macLost.missed \subseteq macLost'.missed
         /\ macLost.skipped \subseteq macLost'.skipped
         /\ macLost'.unsaved = macLost.unsaved
      /\ between \subseteq macLost'.missed \cup macLost'.skipped
  <2>0. macLost' = IF macReader.wm = 0
                   THEN [macLost EXCEPT !.skipped = @ \cup between]
                   ELSE [macLost EXCEPT !.missed = @ \cup between]
    BY DEF Mac!StartStream
  <2> HIDE DEF between
  <2>1. macLost \in [evicted : SUBSET Mac!Entry, missed : SUBSET Mac!Entry,
        skipped : SUBSET Mac!Entry,
        unsaved : SUBSET Mac!Entry, untold : SUBSET Seq(Nat)]
    BY <1>0 DEF MacTyped
  <2> QED
    BY <1>b, <2>0, <2>1
<1>3. MacTyped'
  BY <1>0, <1>1, <1>2, <1>c DEF MacTyped
<1>4. MacLogGrows
  BY <1>0, <1>1, MacSameLog, MacNumbers
<1>5. MacHaveKept /\ MacTakenKept
  BY <1>1, <1>c DEF MacHaveKept, MacTakenKept, MacHave, MacTaken
<1>7. MacOrdered' /\ MacTimed'
  BY <1>0, <1>1, MacOrderKept
<1>13. MacPast'
  BY <1>0, <1>1, <1>3, <1>4, <1>5, MacStoredKept, MacRememberingKept,
     MacBatchKept DEF MacPast
<1>14. MacPresent'
  BY <1>0, <1>1, <1>2, <1>a, <1>3, <1>4, <1>5, <1>c, MacPresentKept
<1>15. MacShowing'
  <2>1. PICK W \in Nat : W = macReader.wm
    BY <1>0, MacFields
  <2>2. MacReached(W)'
    BY <1>0, <1>3, <1>4, <2>1, MacReachedKept DEF MacShowing
  <2> QED
    BY <1>1, <1>2, <1>a, <2>1, <2>2 DEF MacShowing, MacReached
<1>16. MacReading'
  <2> SUFFICES ASSUME NEW e \in MacInLog PROVE MacHeld(e, Len(macSource.queue))'
    BY <1>1 DEF MacReading, MacInLog
  <2>1. CASE e <= macReader.read
    <3>1. MacHeld(e, Len(macSource.queue)) /\ e \in Mac!Entry
      BY <1>0, <2>1, MacNumbers DEF MacReading
    <3> QED
      BY <1>1, <1>5, <3>1 DEF MacHeld, MacTakenKept
  <2>2. CASE ~(e <= macReader.read)
    <3>1. e \in between
      BY <1>a, <2>2 DEF MacInLog
    <3> QED
      BY <1>c, <3>1 DEF MacHeld, MacTaken, MacHave
  <2> QED
    BY <2>1, <2>2
<1> QED
  BY <1>3, <1>7, <1>13, <1>14, <1>15, <1>16 DEF MacIInv
-----------------------------------------------------------------------------
\* The batch becomes stored, and its checkpoint with it.
LEMMA MacCommitStep ==
  ASSUME MacIInv, Mac!Commit
  PROVE  MacIInv'
<1>0. MacTyped /\ MacOrdered /\ MacTimed /\ MacPast /\ MacPresent /\ MacShowing
      /\ MacReading
  BY DEF MacIInv
<1>1. /\ macTick.stage = "commit"
      /\ macDb' = IF macTick.batch.cursor = Mac!NoCursor THEN macDb
               ELSE [of |-> [e \in Mac!Entry |-> macDb.of[e]
                   + (IF e \in macTick.batch.of THEN 1 ELSE 0)],
                     gaps |-> macDb.gaps \cup macTick.batch.gaps, cursor |->
                         macTick.batch.cursor]
      /\ macTick' = [macTick EXCEPT !.stage = "supervise", !.batch = Mac!Nothing]
      /\ UNCHANGED <<macLog, macPurged, macReader, macSource, macLost, macFaults>>
  BY DEF Mac!Commit
<1>2. Mac!NoCursor \in MacCheckpoint /\ Mac!NoCursor.wm = 0
  <2>1. <<>> \in Seq(MacPlace)
    OBVIOUS
  <2> QED
    BY <2>1 DEF Mac!NoCursor, MacCheckpoint
<1>3. Mac!Nothing \in [of : SUBSET Mac!Entry, gaps : SUBSET Seq(Nat),
      cursor : MacCheckpoint] /\ Mac!Nothing.of = {} /\ Mac!Nothing.gaps = {}
  BY <1>2 DEF Mac!Nothing
<1>4. /\ macTick' \in [stage : {"supervise", "drain", "commit"}, last : MacCheckpoint,
                 batch : [of : SUBSET Mac!Entry, gaps : SUBSET Seq(Nat),
                     cursor : MacCheckpoint]]
      /\ macTick'.last = macTick.last /\ macTick'.batch = Mac!Nothing
         /\ macTick'.stage = "supervise"
  <2>1. macTick \in [stage : {"supervise", "drain", "commit"}, last : MacCheckpoint,
                 batch : [of : SUBSET Mac!Entry, gaps : SUBSET Seq(Nat),
                     cursor : MacCheckpoint]]
    BY <1>0 DEF MacTyped
  <2> DEFINE B == [of : SUBSET Mac!Entry, gaps : SUBSET Seq(Nat),
      cursor : MacCheckpoint]
  <2> HIDE DEF B
  <2>2. macTick \in [stage : {"supervise", "drain", "commit"}, last : MacCheckpoint,
        batch : B]
    BY <2>1 DEF B
  <2>3. Mac!Nothing \in B
    BY <1>3 DEF B
  <2>4. macTick' \in [stage : {"supervise", "drain", "commit"}, last : MacCheckpoint,
        batch : B]
    BY <1>1, <2>2, <2>3
  <2>5. macTick'.last = macTick.last /\ macTick'.batch = Mac!Nothing
        /\ macTick'.stage = "supervise"
    BY <1>1, <2>2
  <2> QED
    BY <2>4, <2>5 DEF B
<1>5. /\ macDb.of \in [Mac!Entry -> Nat] /\ macDb.gaps \in SUBSET Seq(Nat)
         /\ macDb.cursor \in MacCheckpoint
      /\ macTick.batch.of \in SUBSET Mac!Entry
         /\ macTick.batch.gaps \in SUBSET Seq(Nat)
         /\ macTick.batch.cursor \in MacCheckpoint
      /\ macTick.last \in MacCheckpoint
  BY <1>0, MacFields
<1>6. CASE macTick.batch = Mac!Nothing
  <2>1. macDb' = macDb
    BY <1>1, <1>6 DEF Mac!Nothing
  <2>3. MacTyped'
    BY <1>0, <1>1, <1>4, <2>1 DEF MacTyped
  <2>4. MacLogGrows
    BY <1>0, <1>1, MacSameLog, MacNumbers
  <2>5. MacHaveKept
    BY <1>1, <2>1 DEF MacHaveKept, MacHave
  <2>6. MacTakenKept
    BY <1>3, <1>6, <2>5 DEF MacTakenKept, MacHaveKept, MacTaken
  <2>7. MacOrdered' /\ MacTimed'
    BY <1>0, <1>1, MacOrderKept
  <2>8. MacStored' /\ MacRemembering'
    BY <1>0, <1>4, <2>1, <2>3, <2>4, <2>5, <2>6, MacStoredKept,
       MacRememberingKept DEF MacPast
  <2>9. MacBatch'
    BY <1>3, <1>4 DEF MacBatch
  <2>10. MacPresent'
    <3>1. /\ macLost.evicted \subseteq macLost'.evicted /\ macSource' = macSource
          /\ macReader.read <= macReader'.read
      <4>1. macReader.read \in Nat
        BY <1>0, MacFields, Zenon
      <4> QED
        BY <1>1, <4>1
    <3> QED
      BY <1>0, <2>3, <2>4, <2>6, <3>1, MacPresentKept, Zenon
  <2>11. MacShowing' /\ MacReading'
    BY <1>0, <1>1, <2>3, <2>4, <2>6, MacShowingKept, MacReadingKept
  <2> QED
    BY <2>3, <2>7, <2>8, <2>9, <2>10, <2>11 DEF MacIInv, MacPast
<1>7. CASE macTick.batch # Mac!Nothing
  <2>0. macTick.batch.cursor = macTick.last /\ macTick.batch.cursor # Mac!NoCursor
    BY <1>0, <1>2, <1>7 DEF MacPast, MacBatch
  <2>1. macDb' = [of |-> [e \in Mac!Entry |-> macDb.of[e]
        + (IF e \in macTick.batch.of THEN 1 ELSE 0)],
                     gaps |-> macDb.gaps \cup macTick.batch.gaps, cursor |->
                         macTick.last]
    BY <1>1, <2>0
  <2>2. /\ macDb'.of \in [Mac!Entry -> Nat] /\ macDb'.gaps = macDb.gaps
           \cup macTick.batch.gaps /\ macDb'.cursor = macTick.last
        /\ \A e \in Mac!Entry : (macDb.of[e] > 0 \/ e \in macTick.batch.of)
           => macDb'.of[e] > 0
        /\ macDb' \in [of : [Mac!Entry -> Nat], gaps : SUBSET Seq(Nat),
           cursor : MacCheckpoint]
    <3>1. ASSUME NEW e \in Mac!Entry 
          PROVE /\ macDb.of[e] + (IF e \in macTick.batch.of THEN 1 ELSE 0) \in Nat
                /\ macDb.of[e] > 0 \/ e \in macTick.batch.of => macDb.of[e]
                   + (IF e \in macTick.batch.of THEN 1 ELSE 0) > 0
      BY <1>5
    <3> DEFINE O == [e \in Mac!Entry |-> macDb.of[e]
        + (IF e \in macTick.batch.of THEN 1 ELSE 0)]
    <3>2. O \in [Mac!Entry -> Nat]
          /\ \A e \in Mac!Entry : (macDb.of[e] > 0 \/ e \in macTick.batch.of)
          => O[e] > 0
      BY <3>1
    <3>3. macDb' = [of |-> O, gaps |-> macDb.gaps \cup macTick.batch.gaps, cursor |->
          macTick.last]
      BY <2>1
    <3>4. macDb.gaps \cup macTick.batch.gaps \in SUBSET Seq(Nat)
      BY <1>5
    <3> HIDE DEF O
    <3> QED
      BY <1>5, <3>2, <3>3, <3>4
  <2>3. MacTyped'
    BY <1>0, <1>1, <1>4, <2>2 DEF MacTyped
  <2>4. MacLogGrows
    BY <1>0, <1>1, MacSameLog, MacNumbers
  <2>5. \A e \in Mac!Entry : MacTaken(e) => MacHave(e)'
    BY <1>1, <2>2 DEF MacTaken, MacHave
  <2>6. MacTakenKept
    BY <2>5 DEF MacTakenKept, MacTaken
  <2>7. MacOrdered' /\ MacTimed'
    BY <1>0, <1>1, MacOrderKept
  <2>8. MacRemembering'
    BY <1>0, <1>4, <2>3, <2>4, <2>6, MacRememberingKept DEF MacPast
  <2>9. MacBatch'
    BY <1>3, <1>4 DEF MacBatch
  <2>10. MacPresent'
    <3>1. /\ macLost.evicted \subseteq macLost'.evicted /\ macSource' = macSource
          /\ macReader.read <= macReader'.read
      <4>1. macReader.read \in Nat
        BY <1>0, MacFields, Zenon
      <4> QED
        BY <1>1, <4>1
    <3> QED
      BY <1>0, <2>3, <2>4, <2>6, <3>1, MacPresentKept, Zenon
  <2>11. MacShowing' /\ MacReading'
    BY <1>0, <1>1, <2>3, <2>4, <2>6, MacShowingKept, MacReadingKept
  <2>12. MacStored'
    <3>1. MacTakenBefore(macTick.last.wm) /\ MacTakenIds(macTick.last.ids)
      BY <1>0 DEF MacPast, MacRemembering
    <3>2. \A e \in MacInLog : e \in Mac!Entry
      BY <1>0, MacNumbers
    <3>3. macDb'.cursor.wm = macTick.last.wm /\ macDb'.cursor.ids = macTick.last.ids
      BY <2>2
    <3>4. MacHaveBefore(macDb.cursor.wm)'
      BY <1>1, <2>5, <3>1, <3>2, <3>3 DEF MacHaveBefore, MacTakenBefore, MacReached,
         MacInLog
    <3>5. MacHaveIds(macDb.cursor.ids)'
      BY <1>1, <2>5, <3>1, <3>2, <3>3 DEF MacHaveIds, MacTakenIds, MacInLog
    <3>6. ASSUME NEW g \in macDb.gaps \cup macTick.batch.gaps PROVE MacGapReal(g)'
      <4>1. g \in Seq(Nat) /\ MacGapReal(g)
        BY <1>0, <1>5 DEF MacPast, MacStored, MacBatch
      <4> QED
        BY <1>0, <2>3, <2>4, <4>1, MacGapsKept
    <3> QED
      BY <2>2, <3>4, <3>5, <3>6 DEF MacStored
  <2> QED
    BY <2>3, <2>7, <2>8, <2>9, <2>10, <2>11, <2>12 DEF MacIInv, MacPast
<1> QED
  BY <1>6, <1>7

\* The batch is dropped, its entries by name; the adapter's checkpoint stays.
LEMMA MacCommitLockedStep ==
  ASSUME MacIInv, Mac!CommitLocked
  PROVE  MacIInv'
<1>0. MacTyped /\ MacOrdered /\ MacTimed /\ MacPast /\ MacPresent /\ MacShowing
      /\ MacReading
  BY DEF MacIInv
<1>1. /\ macLost' = [macLost EXCEPT !.unsaved = @ \cup macTick.batch.of,
                                   !.untold = @ \cup macTick.batch.gaps]
      /\ macTick' = [macTick EXCEPT !.stage = "supervise", !.batch = Mac!Nothing]
      /\ UNCHANGED <<macLog, macPurged, macReader, macSource, macDb>>
  BY DEF Mac!CommitLocked
<1>2. Mac!NoCursor \in MacCheckpoint
  <2>1. <<>> \in Seq(MacPlace)
    OBVIOUS
  <2> QED
    BY <2>1 DEF Mac!NoCursor, MacCheckpoint
<1>3. Mac!Nothing \in [of : SUBSET Mac!Entry, gaps : SUBSET Seq(Nat),
      cursor : MacCheckpoint] /\ Mac!Nothing.of = {} /\ Mac!Nothing.gaps = {}
  BY <1>2 DEF Mac!Nothing
<1>4. /\ macTick' \in [stage : {"supervise", "drain", "commit"}, last : MacCheckpoint,
                 batch : [of : SUBSET Mac!Entry, gaps : SUBSET Seq(Nat),
                     cursor : MacCheckpoint]]
      /\ macTick'.last = macTick.last /\ macTick'.batch = Mac!Nothing
         /\ macTick'.stage = "supervise"
  <2> DEFINE B == [of : SUBSET Mac!Entry, gaps : SUBSET Seq(Nat),
      cursor : MacCheckpoint]
  <2>1. macTick \in [stage : {"supervise", "drain", "commit"}, last : MacCheckpoint,
        batch : B]
    BY <1>0 DEF MacTyped
  <2>2. Mac!Nothing \in B
    BY <1>3
  <2> HIDE DEF B
  <2>3. macTick' \in [stage : {"supervise", "drain", "commit"}, last : MacCheckpoint,
        batch : B]
    BY <1>1, <2>1, <2>2
  <2>4. macTick'.last = macTick.last /\ macTick'.batch = Mac!Nothing
        /\ macTick'.stage = "supervise"
    BY <1>1, <2>1
  <2> QED
    BY <2>3, <2>4 DEF B
<1>5. /\ macLost' \in [evicted : SUBSET Mac!Entry, missed : SUBSET Mac!Entry,
                      skipped : SUBSET Mac!Entry,
                      unsaved : SUBSET Mac!Entry, untold : SUBSET Seq(Nat)]
      /\ macLost'.evicted = macLost.evicted /\ macLost'.missed = macLost.missed
      /\ macLost'.skipped = macLost.skipped
      /\ macLost'.unsaved = macLost.unsaved \cup macTick.batch.of
  <2>1. macLost \in [evicted : SUBSET Mac!Entry, missed : SUBSET Mac!Entry,
                    skipped : SUBSET Mac!Entry,
                    unsaved : SUBSET Mac!Entry, untold : SUBSET Seq(Nat)]
    BY <1>0 DEF MacTyped
  <2>2. macTick.batch.of \in SUBSET Mac!Entry /\ macTick.batch.gaps \in SUBSET Seq(Nat)
    BY <1>0, MacFields
  <2> QED
    BY <1>1, <2>1, <2>2
<1>6. MacTyped'
  BY <1>0, <1>1, <1>4, <1>5 DEF MacTyped
<1>7. MacLogGrows
  BY <1>0, <1>1, MacSameLog, MacNumbers
<1>8. \A e \in Mac!Entry : MacTaken(e) => MacHave(e)'
  BY <1>1, <1>5 DEF MacTaken, MacHave
<1>9. MacHaveKept /\ MacTakenKept
  BY <1>8 DEF MacHaveKept, MacTakenKept, MacTaken
<1>10. MacOrdered' /\ MacTimed'
  BY <1>0, <1>1, MacOrderKept
<1>11. MacStored' /\ MacRemembering'
  BY <1>0, <1>1, <1>4, <1>6, <1>7, <1>9, MacStoredKept, MacRememberingKept
     DEF MacPast
<1>12. MacBatch'
  BY <1>3, <1>4 DEF MacBatch
<1>13. MacPresent'
  <2>1. macReader.read \in Nat
    BY <1>0, MacFields, Zenon
  <2>2. /\ macLost.evicted \subseteq macLost'.evicted /\ macSource' = macSource
        /\ macReader.read <= macReader'.read
    BY <1>1, <1>5, <2>1
  <2> QED
    BY <1>0, <1>6, <1>7, <1>9, <2>2, MacPresentKept, Zenon
<1>14. MacShowing' /\ MacReading'
  BY <1>0, <1>1, <1>6, <1>7, <1>9, MacShowingKept, MacReadingKept
<1> QED
  BY <1>6, <1>10, <1>11, <1>12, <1>13, <1>14 DEF MacIInv, MacPast

(* The entries of before a time are the first of the log.                   *)
LEMMA MacPrefix ==
  ASSUME MacTyped, MacOrdered, NEW x \in Nat
  PROVE  LET n == Mac!EntriesBefore(x)
         IN  n \in Nat /\ n <= Len(macLog)
             /\ \A e \in MacInLog : macLog[e].at < x <=> e <= n
<1> DEFINE S == {e \in 1..Len(macLog) : macLog[e].at < x}
           Splits(n) == \A e \in 1..Len(macLog) : macLog[e].at < x <=> e <= n
<1>1. Len(macLog) \in Nat /\ \A e \in MacInLog : e \in Nat /\ e >= 1
      /\ macLog[e].at \in Nat
  BY MacNumbers
<1>2. \E n \in 0..Len(macLog) : Splits(n)
  <2>1. CASE S = {}
    <3>1. \A e \in 1..Len(macLog) : ~(macLog[e].at < x) /\ ~(e <= 0)
      BY <1>1, <2>1 DEF MacInLog
    <3>2. Splits(0) /\ 0 \in 0..Len(macLog)
      BY <1>1, <3>1
    <3> QED
      BY <3>2
  <2>2. CASE S # {}
    <3>1. S \in SUBSET Int /\ \A k \in S : k <= Len(macLog)
      BY <1>1
    <3>2. PICK m \in S : \A k \in S : k <= m
      <4> HIDE DEF S
      <4>1. PICK b \in Int : b = Len(macLog)
        BY <1>1
      <4>2. \A k \in S : k <= b
        BY <3>1, <4>1
      <4> QED
        BY <2>2, <3>1, <4>2, GreatestExists
    <3>3. m \in MacInLog /\ m \in 0..Len(macLog) /\ macLog[m].at < x
      BY <1>1, <3>1 DEF MacInLog
    <3>4. ASSUME NEW e \in MacInLog, e <= m PROVE macLog[e].at < x
      <4>1. macLog[e].at <= macLog[m].at
        BY <3>3, <3>4 DEF MacOrdered
      <4>2. macLog[e].at \in Nat /\ macLog[m].at \in Nat
        BY <1>1, <3>3
      <4> QED
        BY <3>3, <4>1, <4>2
    <3>5. ASSUME NEW e \in MacInLog, macLog[e].at < x PROVE e <= m
      BY <3>2, <3>5 DEF MacInLog
    <3>6. Splits(m)
      <4>1. ASSUME NEW e \in 1..Len(macLog) PROVE macLog[e].at < x <=> e <= m
        <5>1. e \in MacInLog
          BY DEF MacInLog
        <5>2. e <= m => macLog[e].at < x
          BY <3>4, <5>1
        <5>3. macLog[e].at < x => e <= m
          BY <3>5, <5>1
        <5> QED
          BY <5>2, <5>3, Zenon
      <4> QED
        BY <4>1
    <3> QED
      BY <3>3, <3>6
  <2> QED
    BY <2>1, <2>2
<1>3. PICK n : n = Mac!EntriesBefore(x)
  OBVIOUS
<1>4. n \in 0..Len(macLog) /\ Splits(n)
  BY <1>2, <1>3 DEF Mac!EntriesBefore
<1>5. n \in Nat /\ n <= Len(macLog)
      /\ \A e \in MacInLog : macLog[e].at < x <=> e <= n
  BY <1>1, <1>4 DEF MacInLog
<1> QED
  BY <1>3, <1>5

\* A reader that starts from a time and identities that are covered.
LEMMA MacStartHolds ==
  ASSUME MacTyped, MacTyped', MacOrdered, macLog' = macLog, NEW c \in MacCheckpoint,
         Mac!StartAt(c), MacReached(c.wm),
         \A e \in MacInLog : macLog[e].at < Mac!ReplayFrom(c.wm) => MacTaken(e)',
         MacTakenIds(c.ids)'
  PROVE  MacPresent' /\ MacShowing' /\ MacReading'
<1>1. c.wm \in Nat /\ c.ids \in Seq(MacPlace)
  BY MacCheckpointFields
<1>2. PICK N : N = Mac!EntriesBefore(Mac!ReplayFrom(c.wm))
  OBVIOUS
<1>3. Mac!ReplayFrom(c.wm) \in Nat /\ Mac!ReplayFrom(c.wm) <= c.wm
  BY <1>1, MacReplayFromBelow
<1>4. N \in Nat /\ N <= Len(macLog)
      /\ \A e \in MacInLog : macLog[e].at < Mac!ReplayFrom(c.wm) <=> e <= N
  BY <1>2, <1>3, MacPrefix
<1>5. /\ macReader'.read = N /\ macReader'.wm = c.wm /\ macReader'.first = Mac!NoTime
      /\ macSource'.queue = <<>> /\ macSource'.pending = <<>>
         /\ macSource'.committed = c.ids /\ macSource'.watermark = c.wm
  BY <1>2 DEF Mac!StartAt
<1>6. Mac!Elements(<<>>) = {} /\ MacInLog' = MacInLog /\ Len(<<>>) = 0
  BY DEF Mac!Elements, MacInLog
<1>7. MacReached(c.wm)' /\ MacTakenBefore(c.wm)'
  <2>1. Mac!ReplayFrom(c.wm)' = Mac!ReplayFrom(c.wm)
    BY DEF Mac!ReplayFrom
  <2> QED
    BY <1>6, <2>1 DEF MacTakenBefore, MacReached
<1>8. MacPresent'
  <2>1. MacSource'
    BY <1>5, <1>7 DEF MacSource, MacTakenBefore, MacTakenIds
  <2>2. MacItems' /\ MacInOrder' /\ MacQueueCovers' /\ MacPending'
    BY <1>5, <1>6 DEF MacItems, MacInOrder, MacQueueCovers, MacPending
  <2> QED
    BY <2>1, <2>2 DEF MacPresent
<1>9. \A e \in MacInLog : e <= N => macLog[e].at < c.wm /\ MacTaken(e)'
  <2>1. ASSUME NEW e \in MacInLog, e <= N PROVE macLog[e].at < c.wm /\ MacTaken(e)'
    <3>1. macLog[e].at < Mac!ReplayFrom(c.wm) /\ macLog[e].at \in Nat
      BY <1>4, <2>1, MacNumbers
    <3> QED
      BY <1>1, <1>3, <3>1
  <2> QED
    BY <2>1
<1>10. MacShowing'
  BY <1>4, <1>5, <1>6, <1>7, <1>9 DEF MacShowing, MacReached
<1>11. MacReading'
  BY <1>5, <1>6, <1>9 DEF MacReading, MacHeld
<1> QED
  BY <1>8, <1>10, <1>11

\* The types after a start.
LEMMA MacStartTyped ==
  ASSUME MacTyped, MacOrdered, NEW c \in MacCheckpoint, Mac!StartAt(c)
  PROVE  /\ macReader' \in [stage : {"hand", "show", "stream", "dead"}, read : Nat,
            wm : Nat, first : Nat \cup {Mac!NoTime}]
         /\ macSource' \in [queue : Seq(MacItem),
            pending : Seq([run : Int, at : Nat, id : Int]), committed : Seq(MacPlace),
            watermark : Nat]
         /\ Len(macSource'.queue) <= QueueMax
<1>1. c.wm \in Nat /\ c.ids \in Seq(MacPlace)
  BY MacCheckpointFields
<1>2. PICK N : N = Mac!EntriesBefore(Mac!ReplayFrom(c.wm))
  OBVIOUS
<1>3. Mac!ReplayFrom(c.wm) \in Nat
  BY <1>1, MacReplayFromBelow
<1>4. N \in Nat
  BY <1>2, <1>3, MacPrefix
<1>5. /\ macReader' = [stage |-> IF c.wm = 0 THEN "hand" ELSE "show", read |->
         N, wm |-> c.wm, first |-> Mac!NoTime]
      /\ macSource' = [queue |-> <<>>, pending |-> <<>>, committed |->
         c.ids, watermark |-> c.wm]
  BY <1>2 DEF Mac!StartAt
<1>6. macReader' \in [stage : {"hand", "show", "stream", "dead"}, read : Nat,
      wm : Nat, first : Nat \cup {Mac!NoTime}]
  BY <1>1, <1>4, <1>5
<1>7. macSource' \in [queue : Seq(MacItem),
      pending : Seq([run : Int, at : Nat, id : Int]), committed : Seq(MacPlace),
      watermark : Nat]
  <2> DEFINE Q == Seq(MacItem)  P == Seq([run : Int, at : Nat,
      id : Int])  K == Seq(MacPlace)
  <2>1. <<>> \in Q /\ <<>> \in P /\ c.ids \in K
    BY <1>1
  <2> HIDE DEF Q, P, K
  <2>2. macSource' \in [queue : Q, pending : P, committed : K, watermark : Nat]
    BY <1>1, <1>5, <2>1
  <2> QED
    BY <2>2 DEF Q, P, K
<1>8. macSource'.queue = <<>>
  BY <1>5
<1> QED
  BY <1>6, <1>7, <1>8

\* A restart takes the checkpoint in memory.
LEMMA MacSuperviseStep ==
  ASSUME MacIInv, Mac!Supervise
  PROVE  MacIInv'
<1>0. MacTyped /\ MacOrdered /\ MacTimed /\ MacPast /\ MacPresent /\ MacShowing
      /\ MacReading
  BY DEF MacIInv
<1>1. macTick.stage = "supervise" /\ macTick' = [macTick EXCEPT !.stage = "drain"]
      /\ UNCHANGED <<macLog, macPurged, macDb, macLost, macFaults>>
  BY DEF Mac!Supervise
<1>2. /\ macTick' \in [stage : {"supervise", "drain", "commit"}, last : MacCheckpoint,
                 batch : [of : SUBSET Mac!Entry, gaps : SUBSET Seq(Nat),
                     cursor : MacCheckpoint]]
      /\ macTick'.last = macTick.last /\ macTick'.batch = macTick.batch
         /\ macTick'.stage = "drain"
  <2>1. macTick \in [stage : {"supervise", "drain", "commit"}, last : MacCheckpoint,
                 batch : [of : SUBSET Mac!Entry, gaps : SUBSET Seq(Nat),
                     cursor : MacCheckpoint]]
    BY <1>0 DEF MacTyped
  <2> DEFINE B == [of : SUBSET Mac!Entry, gaps : SUBSET Seq(Nat),
      cursor : MacCheckpoint]
  <2> HIDE DEF B
  <2>2. macTick \in [stage : {"supervise", "drain", "commit"}, last : MacCheckpoint,
        batch : B]
    BY <2>1 DEF B
  <2>4. macTick' \in [stage : {"supervise", "drain", "commit"}, last : MacCheckpoint,
        batch : B]
    BY <1>1, <2>2
  <2>5. macTick'.last = macTick.last /\ macTick'.batch = macTick.batch
        /\ macTick'.stage = "drain"
    BY <1>1, <2>2
  <2> QED
    BY <2>4, <2>5 DEF B
<1>3. MacLogGrows
  BY <1>0, <1>1, MacSameLog, MacNumbers
<1>4. MacHaveKept /\ MacTakenKept
  BY <1>1, <1>2 DEF MacHaveKept, MacTakenKept, MacHave, MacTaken
<1>5. MacOrdered' /\ MacTimed'
  BY <1>0, <1>1, MacOrderKept
<1>6. macTick.last \in MacCheckpoint /\ macTick.last.wm \in Nat
      /\ macTick.last.ids \in Seq(MacPlace)
  BY <1>0, MacFields, MacCheckpointFields
<1>7. MacTyped'
  <2>1. CASE UNCHANGED <<macReader, macSource>>
    BY <1>0, <1>1, <1>2, <2>1 DEF MacTyped
  <2>2. CASE Mac!StartAt(macTick.last)
    BY <1>0, <1>1, <1>2, <1>6, <2>2, MacStartTyped DEF MacTyped
  <2> QED
    BY <2>1, <2>2 DEF Mac!Supervise
<1>8. MacPast'
  <2>1. MacStored' /\ MacRemembering'
    BY <1>0, <1>1, <1>2, <1>3, <1>4, <1>7, MacStoredKept, MacRememberingKept DEF MacPast
  <2>2. MacBatch'
    <3>1. macTick'.batch = Mac!Nothing
      BY <1>0, <1>1, <1>2 DEF MacPast, MacBatch
    <3> QED
      BY <3>1 DEF MacBatch, Mac!Nothing
  <2> QED
    BY <2>1, <2>2 DEF MacPast
<1>9. MacPresent' /\ MacShowing' /\ MacReading'
  <2>1. CASE UNCHANGED <<macReader, macSource>>
    <3>1. macReader.read <= macReader'.read
      BY <1>0, <2>1, MacFields
    <3>a. macLost.evicted \subseteq macLost'.evicted
      BY <1>1
    <3> QED
      BY <1>0, <1>1, <1>3, <1>4, <1>7, <2>1, <3>1, <3>a, MacPresentKept,
         MacShowingKept, MacReadingKept
  <2>2. CASE Mac!StartAt(macTick.last)
    <3>1. PICK c \in MacCheckpoint : c = macTick.last
      BY <1>6
    <3>2. Mac!StartAt(c) /\ c.wm \in Nat /\ c.ids \in Seq(MacPlace)
          /\ MacTakenBefore(c.wm) /\ MacTakenIds(c.ids)
      BY <1>0, <1>6, <2>2, <3>1 DEF MacPast, MacRemembering
    <3>3. MacTakenIds(c.ids)'
      BY <1>0, <1>3, <1>4, <1>7, <3>2, MacTakenCarried
    <3>4. \A e \in MacInLog : macLog[e].at < Mac!ReplayFrom(c.wm) => MacTaken(e)'
      BY <1>0, <1>4, <3>2, MacNumbers DEF MacTakenBefore, MacTakenKept
    <3>5. MacReached(c.wm)
      BY <3>2 DEF MacTakenBefore
    <3> QED
      BY <1>0, <1>1, <1>7, <3>2, <3>3, <3>4, <3>5, MacStartHolds
  <2> QED
    BY <2>1, <2>2 DEF Mac!Supervise
<1> QED
  BY <1>5, <1>7, <1>8, <1>9 DEF MacIInv

\* A new daemon takes the stored one.
LEMMA MacRestartStep ==
  ASSUME MacIInv, Mac!Restart
  PROVE  MacIInv'
<1>0. MacTyped /\ MacOrdered /\ MacTimed /\ MacPast /\ MacPresent /\ MacShowing
      /\ MacReading
  BY DEF MacIInv
<1>1. Mac!StartAt(macDb.cursor)
      /\ macTick' = [stage |-> "supervise", last |-> macDb.cursor, batch |->
      Mac!Nothing] /\ UNCHANGED <<macLog, macPurged, macDb, macLost>>
  BY DEF Mac!Restart
<1>2. Mac!Nothing \in [of : SUBSET Mac!Entry, gaps : SUBSET Seq(Nat),
      cursor : MacCheckpoint]
  <2>1. <<>> \in Seq(MacPlace)
    OBVIOUS
  <2>2. Mac!NoCursor \in MacCheckpoint
    BY <2>1 DEF Mac!NoCursor, MacCheckpoint
  <2> QED
    BY <2>2 DEF Mac!Nothing
<1>3. PICK c \in MacCheckpoint : c = macDb.cursor
  BY <1>0, MacFields
<1>4. /\ macTick' \in [stage : {"supervise", "drain", "commit"}, last : MacCheckpoint,
                 batch : [of : SUBSET Mac!Entry, gaps : SUBSET Seq(Nat),
                     cursor : MacCheckpoint]]
      /\ macTick'.last = c /\ macTick'.batch = Mac!Nothing
         /\ macTick'.stage = "supervise"
  <2> DEFINE B == [of : SUBSET Mac!Entry, gaps : SUBSET Seq(Nat),
      cursor : MacCheckpoint]
  <2>1. Mac!Nothing \in B
    BY <1>2
  <2> HIDE DEF B
  <2>4. macTick' \in [stage : {"supervise", "drain", "commit"}, last : MacCheckpoint,
        batch : B]
    BY <1>1, <1>3, <2>1
  <2>5. macTick'.last = c /\ macTick'.batch = Mac!Nothing
        /\ macTick'.stage = "supervise"
    BY <1>1, <1>3
  <2> QED
    BY <2>4, <2>5 DEF B
<1>5. MacLogGrows
  BY <1>0, <1>1, MacSameLog, MacNumbers
<1>6. MacHaveKept
  BY <1>1 DEF MacHaveKept, MacHave
<1>7. MacOrdered' /\ MacTimed'
  BY <1>0, <1>1, MacOrderKept
<1>8. Mac!StartAt(c) /\ c.wm \in Nat /\ c.ids \in Seq(MacPlace) /\ MacHaveBefore(c.wm)
      /\ MacHaveIds(c.ids)
  BY <1>0, <1>1, <1>3, MacCheckpointFields DEF MacPast, MacStored
<1>9. MacTyped'
  BY <1>0, <1>1, <1>4, <1>8, MacStartTyped DEF MacTyped
<1>10. MacHaveBefore(c.wm)' /\ MacHaveIds(c.ids)'
  BY <1>0, <1>5, <1>6, <1>8, <1>9, MacHaveCarried
<1>11. MacTakenBefore(c.wm)' /\ MacTakenIds(c.ids)'
  BY <1>10 DEF MacHaveBefore, MacHaveIds, MacTakenBefore, MacTakenIds, MacTaken
<1>12. MacPast'
  <2>1. MacStored'
    BY <1>0, <1>1, <1>5, <1>6, <1>9, MacStoredKept DEF MacPast
  <2>2. MacRemembering'
    BY <1>4, <1>11 DEF MacRemembering, MacTakenBefore, MacTakenIds
  <2>3. MacBatch'
    BY <1>4 DEF MacBatch, Mac!Nothing
  <2> QED
    BY <2>1, <2>2, <2>3 DEF MacPast
<1>13. MacPresent' /\ MacShowing' /\ MacReading'
  <2>1. \A e \in MacInLog : macLog[e].at < Mac!ReplayFrom(c.wm) => MacTaken(e)'
    BY <1>0, <1>6, <1>8, MacNumbers DEF MacHaveBefore, MacHaveKept, MacTaken
  <2>2. MacReached(c.wm)
    BY <1>8 DEF MacHaveBefore
  <2> QED
    BY <1>0, <1>1, <1>8, <1>9, <1>11, <2>1, <2>2, MacStartHolds
<1> QED
  BY <1>7, <1>9, <1>12, <1>13 DEF MacIInv
-----------------------------------------------------------------------------
(* A queue that gets an item x at the place k, after the oldest has made    *)
(* room for it if s = 1.                                                    *)
MacInserting(n, s, k, x) ==
  /\ MacTyped /\ MacTyped' /\ MacPresent
     /\ UNCHANGED <<macLog, macPurged, macTick, macDb>>
  /\ macLost.evicted \subseteq macLost'.evicted /\ macLost'.missed = macLost.missed
     /\ macLost'.skipped = macLost.skipped
     /\ macLost'.unsaved = macLost.unsaved
  /\ macSource'.committed = macSource.committed
     /\ macSource'.watermark = macSource.watermark
  /\ macReader.read <= macReader'.read
  /\ n = Len(macSource.queue) /\ s <= n
  /\ Len(macSource'.queue) = n - s + 1 /\ macSource'.queue[k] = x
  /\ \A i \in 1..n - s + 1 : i # k
     => macSource'.queue[i] = macSource.queue[IF i < k THEN i + s ELSE i - 1 + s]
  /\ s = 1 => macSource.queue[1].of \subseteq macLost'.evicted
  /\ MacGapItem(x)' \/ MacEntryItem(x)'
  /\ \A f \in x.of : k = n - s + 1
     /\ \A j \in 1..n : \A e \in macSource.queue[j].of : e < f
  /\ \A e \in MacInLog : e <= x.id => k = n - s + 1 /\ (MacHeld(e, n) \/ e \in x.of)
  /\ \A p \in Mac!Elements(macSource'.pending) :
       p \in Mac!Elements(macSource.pending)
           \/ (p.id \in MacInLog /\ p.id \in x.of /\ p.run = x.run)

\* Nothing that is held gets lost, and the order of the queue is kept.
LEMMA MacInserted ==
  ASSUME NEW n \in Nat, NEW s \in {0, 1}, NEW k \in 1..n - s
         + 1, NEW x \in MacItem, MacInserting(n, s, k, x)
  PROVE  /\ MacPresent' /\ MacHaveKept /\ MacTakenKept /\ MacLogGrows
         /\ \A e \in Mac!Entry : MacHeld(e, n) \/ e \in x.of => MacHeld(e, n - s + 1)'
<1>a. /\ MacTyped /\ MacTyped' /\ MacPresent
         /\ UNCHANGED <<macLog, macPurged, macTick, macDb>>
      /\ macLost.evicted \subseteq macLost'.evicted
         /\ macLost'.missed = macLost.missed /\ macLost'.skipped = macLost.skipped
         /\ macLost'.unsaved = macLost.unsaved
      /\ macSource'.committed = macSource.committed
         /\ macSource'.watermark = macSource.watermark
      /\ macReader.read <= macReader'.read
      /\ n = Len(macSource.queue) /\ s <= n
      /\ Len(macSource'.queue) = n - s + 1 /\ macSource'.queue[k] = x
      /\ \A i \in 1..n - s + 1 : i # k
         => macSource'.queue[i] = macSource.queue[IF i < k THEN i + s ELSE i - 1 + s]
      /\ s = 1 => macSource.queue[1].of \subseteq macLost'.evicted
      /\ MacGapItem(x)' \/ MacEntryItem(x)'
      /\ \A f \in x.of : k = n - s + 1
         /\ \A j \in 1..n : \A e \in macSource.queue[j].of : e < f
      /\ \A e \in MacInLog : e <= x.id => k = n - s + 1 /\ (MacHeld(e, n) \/ e \in x.of)
      /\ \A p \in Mac!Elements(macSource'.pending) :
           p \in Mac!Elements(macSource.pending)
               \/ (p.id \in MacInLog /\ p.id \in x.of /\ p.run = x.run)
  BY DEF MacInserting
<1> USE <1>a
<1> DEFINE src(i) == IF i < k THEN i + s ELSE i - 1 + s
           dst(j) == IF j - s < k THEN j - s ELSE j - s + 1
           m == n - s + 1
<1>1. m \in Nat /\ k \in 1..m /\ s \in Nat /\ k \in Nat
  OBVIOUS
<1>2. \A i \in 1..m : i # k => src(i) \in 1..n /\ src(i) > s
  BY <1>1
<1>3. \A j \in 1..n : j > s => dst(j) \in 1..m /\ dst(j) # k /\ src(dst(j)) = j
  BY <1>1
<1>4. \A j \in 1..n, i \in 1..m : j > s /\ i # k /\ j <= src(i) => dst(j) <= i
  BY <1>1
<1>5. \A i \in 1..m : i # k => macSource'.queue[i] = macSource.queue[src(i)]
  OBVIOUS
<1>6. \A j \in 1..n : j > s => macSource'.queue[dst(j)] = macSource.queue[j]
  <2> SUFFICES ASSUME NEW j \in 1..n, j > s
      PROVE macSource'.queue[dst(j)] = macSource.queue[j]
    OBVIOUS
  <2>1. PICK d \in 1..m : d = dst(j) /\ d # k /\ src(d) = j
    BY <1>3
  <2>2. macSource'.queue[d] = macSource.queue[src(d)]
    BY <1>5, <2>1
  <2> QED
    BY <2>1, <2>2
<1>7. \A i, j \in 1..m : i # k /\ j # k /\ j < i => src(j) < src(i)
  BY <1>1
<1> HIDE DEF src, dst
<1>8. MacHaveKept
  BY DEF MacHaveKept, MacHave
<1>9. MacTakenKept
  BY <1>8 DEF MacTakenKept, MacHaveKept, MacTaken
<1>10. MacLogGrows
  BY MacSameLog, MacNumbers
<1>11. \A i \in 1..n : macSource.queue[i] \in MacItem
       /\ (MacGapItem(macSource.queue[i]) \/ MacEntryItem(macSource.queue[i]))
  BY MacFields DEF MacPresent, MacItems
<1>12. ASSUME NEW e \in Mac!Entry, NEW j \in 1..n, e \in macSource.queue[j].of
       PROVE  MacHave(e)' \/ (j > s /\ e \in macSource'.queue[dst(j)].of)
  <2>1. CASE j > s
    BY <1>6, <1>12, <2>1
  <2>2. CASE ~(j > s)
    <3>1. s = 1 /\ j = 1
      BY <2>2
    <3>2. e \in macLost'.evicted
      BY <1>12, <3>1
    <3> QED
      BY <3>2 DEF MacHave
  <2> QED
    BY <2>1, <2>2
<1>13. ASSUME NEW e \in Mac!Entry, NEW i \in 1..m, i # k, MacHeld(e, src(i))
         PROVE MacHeld(e, i)'
  <2>1. CASE MacTaken(e)
    BY <1>9, <2>1 DEF MacHeld, MacTakenKept
  <2>2. CASE \E j \in 1..src(i) : e \in macSource.queue[j].of
    <3>1. PICK j \in 1..src(i) : e \in macSource.queue[j].of
      BY <2>2
    <3>2. j \in 1..n /\ j <= src(i)
      BY <1>2, <1>13, <3>1
    <3>3. MacHave(e)' \/ (j > s /\ e \in macSource'.queue[dst(j)].of)
      BY <1>12, <3>1, <3>2
    <3>4. j > s => dst(j) \in 1..m /\ dst(j) <= i
      BY <1>3, <1>4, <1>13, <3>2
    <3>5. j > s => dst(j) \in 1..i
      BY <1>1, <3>4
    <3> QED
      BY <3>3, <3>5 DEF MacHeld, MacTaken
  <2> QED
    BY <1>13, <2>1, <2>2 DEF MacHeld
<1>14. ASSUME NEW e \in Mac!Entry, MacHeld(e, n) \/ e \in x.of PROVE MacHeld(e, m)'
  <2>1. CASE MacTaken(e)
    BY <1>9, <2>1 DEF MacHeld, MacTakenKept
  <2>2. CASE e \in x.of
    BY <1>1, <2>2 DEF MacHeld
  <2>3. CASE \E j \in 1..n : e \in macSource.queue[j].of
    BY <1>3, <1>12, <2>3 DEF MacHeld, MacTaken
  <2> QED
    BY <1>14, <2>1, <2>2, <2>3 DEF MacHeld
<1>15. MacSource'
  BY <1>9, <1>10, MacSourceKept DEF MacPresent
<1>16. MacItems'
  <2> SUFFICES ASSUME NEW i \in 1..m
      PROVE MacGapItem(macSource.queue[i])' \/ MacEntryItem(macSource.queue[i])'
    BY DEF MacItems
  <2>1. CASE i = k
    BY <2>1 DEF MacGapItem, MacEntryItem, MacGapReal
  <2>2. CASE i # k
    <3>1. PICK q \in MacItem : q = macSource.queue[src(i)]
          /\ (MacGapItem(q) \/ MacEntryItem(q))
      BY <1>2, <1>11, <2>2
    <3>2. q = macSource'.queue[i]
      BY <1>5, <2>2, <3>1
    <3>3. MacGapItem(q)' \/ MacEntryItem(q)'
      BY <1>9, <1>10, <3>1, MacGapItemKept, MacEntryItemKept
    <3> QED
      BY <3>2, <3>3 DEF MacGapItem, MacEntryItem, MacGapReal
  <2> QED
    BY <2>1, <2>2
<1>17. MacInOrder'
  <2> SUFFICES ASSUME NEW i \in 1..m, NEW j \in 1..m, j < i,
                      NEW e \in macSource'.queue[j].of, NEW f \in macSource'.queue[i].of
               PROVE  e < f
    BY DEF MacInOrder
  <2>1. CASE i = k
    <3>1. f \in x.of /\ j # k
      BY <2>1
    <3>2. e \in macSource.queue[src(j)].of /\ src(j) \in 1..n
      BY <1>2, <1>5, <3>1
    <3> QED
      BY <3>1, <3>2
  <2>2. CASE j = k
    <3>1. e \in x.of /\ k # m
      BY <1>1, <2>2
    <3> QED
      BY <3>1
  <2>3. CASE i # k /\ j # k
    <3>1. src(j) < src(i) /\ src(i) \in 1..n /\ src(j) \in 1..n
      BY <1>2, <1>7, <2>3
    <3>2. e \in macSource.queue[src(j)].of /\ f \in macSource.queue[src(i)].of
      BY <1>5, <2>3
    <3> QED
      BY <3>1, <3>2 DEF MacPresent, MacInOrder
  <2> QED
    BY <2>1, <2>2, <2>3
<1>18. MacQueueCovers'
  <2> SUFFICES ASSUME NEW i \in 1..m, NEW e \in MacInLog, e <= macSource'.queue[i].id
      PROVE MacHeld(e, i)'
    BY DEF MacQueueCovers, MacInLog
  <2>0. e \in Mac!Entry
    BY MacNumbers
  <2>1. CASE i = k
    <3>1. i = m /\ (MacHeld(e, n) \/ e \in x.of)
      BY <2>1
    <3> QED
      BY <1>14, <2>0, <3>1
  <2>2. CASE i # k
    <3>1. e <= macSource.queue[src(i)].id /\ src(i) \in 1..n
      BY <1>2, <1>5, <2>2
    <3>2. MacHeld(e, src(i))
      BY <3>1 DEF MacPresent, MacQueueCovers
    <3> QED
      BY <1>13, <2>0, <2>2, <3>2
  <2> QED
    BY <2>1, <2>2
<1>19. MacPending'
  <2> SUFFICES ASSUME NEW p \in Mac!Elements(macSource'.pending)
               PROVE  /\ p.id \in MacInLog
                      /\ p.id \in macLost'.evicted
                         \/ \E i \in 1..m : p.id \in macSource'.queue[i].of
                         /\ macSource'.queue[i].run = p.run
    BY DEF MacPending, MacInLog
  <2>1. CASE p \in Mac!Elements(macSource.pending)
    <3>1. p.id \in MacInLog /\ (p.id \in macLost.evicted
          \/ \E i \in 1..n : p.id \in macSource.queue[i].of
          /\ macSource.queue[i].run = p.run)
      BY <2>1 DEF MacPresent, MacPending
    <3>2. CASE p.id \in macLost.evicted
      BY <3>1, <3>2
    <3>3. CASE \E i \in 1..n : p.id \in macSource.queue[i].of
            /\ macSource.queue[i].run = p.run
      <4>1. PICK i \in 1..n : p.id \in macSource.queue[i].of
            /\ macSource.queue[i].run = p.run
        BY <3>3
      <4>2. CASE i > s
        <5>1. PICK d \in 1..m : macSource'.queue[d] = macSource.queue[i]
          BY <1>3, <1>6, <4>2
        <5>2. p.id \in macSource'.queue[d].of /\ macSource'.queue[d].run = p.run
          BY <4>1, <5>1
        <5>3. \E h \in 1..m : p.id \in macSource'.queue[h].of
              /\ macSource'.queue[h].run = p.run
          BY <5>2
        <5> QED
          BY <3>1, <5>3
      <4>3. CASE ~(i > s)
        <5>1. s = 1 /\ i = 1
          BY <4>3
        <5>2. p.id \in macLost'.evicted
          BY <4>1, <5>1
        <5> QED
          BY <3>1, <5>2
      <4> QED
        BY <4>2, <4>3
    <3> QED
      BY <3>1, <3>2, <3>3
  <2>2. CASE p.id \in MacInLog /\ p.id \in x.of /\ p.run = x.run
    BY <1>1, <2>2
  <2> QED
    BY <2>1, <2>2
<1> QED
  BY <1>8, <1>9, <1>10, <1>14, <1>15, <1>16, <1>17, <1>18, <1>19 DEF MacPresent
-----------------------------------------------------------------------------
\* The queue with room for one more: all of it, or without its oldest.
LEMMA MacRoomHolds ==
  ASSUME MacTyped
  PROVE  \E s \in {0, 1} :
           /\ s <= Len(macSource.queue)
           /\ Mac!Room \in Seq(MacItem) /\ Len(Mac!Room) = Len(macSource.queue) - s
              /\ Len(Mac!Room) < QueueMax
           /\ \A i \in 1..Len(macSource.queue) - s : Mac!Room[i] = macSource.queue[i
              + s]
           /\ Mac!Evict \in [evicted : SUBSET Mac!Entry, missed : SUBSET Mac!Entry,
              skipped : SUBSET Mac!Entry,
              unsaved : SUBSET Mac!Entry, untold : SUBSET Seq(Nat)]
           /\ Mac!Evict.missed = macLost.missed /\ Mac!Evict.skipped = macLost.skipped
           /\ Mac!Evict.unsaved = macLost.unsaved
           /\ macLost.evicted \subseteq Mac!Evict.evicted
           /\ s = 1 => macSource.queue[1].of \subseteq Mac!Evict.evicted
<1>1. /\ macSource.queue \in Seq(MacItem) /\ Len(macSource.queue) \in Nat
         /\ Len(macSource.queue) <= QueueMax
      /\ \A i \in 1..Len(macSource.queue) : macSource.queue[i] \in MacItem
      /\ macLost \in [evicted : SUBSET Mac!Entry, missed : SUBSET Mac!Entry,
         skipped : SUBSET Mac!Entry,
         unsaved : SUBSET Mac!Entry, untold : SUBSET Seq(Nat)]
  BY MacFields DEF MacTyped
<1>2. CASE ~Mac!Full
  <2>1. Mac!Room = macSource.queue /\ Mac!Evict = macLost
    BY <1>2 DEF Mac!Room, Mac!Evict
  <2>2. Len(macSource.queue) < QueueMax
    BY <1>1, <1>2 DEF Mac!Full
  <2>3. \A i \in 1..Len(macSource.queue) - 0 : Mac!Room[i] = macSource.queue[i + 0]
    BY <1>1, <2>1
  <2>4. Len(Mac!Room) = Len(macSource.queue) - 0
    BY <1>1, <2>1
  <2> QED
    BY <1>1, <2>1, <2>2, <2>3, <2>4
<1>3. CASE Mac!Full
  <2>1. Mac!Room = Tail(macSource.queue) /\ Len(macSource.queue) = QueueMax
        /\ macSource.queue # <<>> /\ 1 <= Len(macSource.queue)
    BY <1>1, <1>3 DEF Mac!Full, Mac!Room
  <2>2. /\ Mac!Room \in Seq(MacItem) /\ Len(Mac!Room) = Len(macSource.queue) - 1
        /\ \A i \in 1..Len(macSource.queue) - 1 : Mac!Room[i] = macSource.queue[i + 1]
    <3> HIDE DEF Mac!Room, Mac!Full
    <3>1. PICK Q \in Seq(MacItem) : Q = macSource.queue
      BY <1>1
    <3>2. Tail(Q) \in Seq(MacItem) /\ Len(Tail(Q)) = Len(Q) - 1
          /\ \A i \in 1..Len(Q) - 1 : Tail(Q)[i] = Q[i + 1]
      BY <2>1, <3>1, HeadTailProperties
    <3> QED
      BY <2>1, <3>1, <3>2
  <2>3. macSource.queue[1].of \in SUBSET Mac!Entry
    <3>1. macSource.queue[1] \in MacItem
      BY <1>1, <2>1
    <3> QED
      BY <3>1, MacCheckpointFields
  <2>4. /\ Mac!Evict \in [evicted : SUBSET Mac!Entry, missed : SUBSET Mac!Entry,
           skipped : SUBSET Mac!Entry,
           unsaved : SUBSET Mac!Entry, untold : SUBSET Seq(Nat)]
        /\ Mac!Evict.missed = macLost.missed /\ Mac!Evict.skipped = macLost.skipped
        /\ Mac!Evict.unsaved = macLost.unsaved
        /\ Mac!Evict.evicted = macLost.evicted \cup macSource.queue[1].of
    <3>1. Mac!Evict = [macLost EXCEPT !.evicted = @ \cup macSource.queue[1].of]
      BY <1>3 DEF Mac!Evict
    <3> HIDE DEF Mac!Evict
    <3>2. PICK X \in SUBSET Mac!Entry : X = macSource.queue[1].of
      BY <2>3
    <3> QED
      BY <1>1, <3>1, <3>2
  <2>5. Len(Mac!Room) < QueueMax
    BY <1>1, <2>1, <2>2
  <2> HIDE DEF Mac!Room, Mac!Evict, Mac!Full
  <2> QED
    BY <2>1, <2>2, <2>4, <2>5
<1> QED
  BY <1>2, <1>3

(* What is offered leaves the invariant when the entry follows all that was *)
(* read and what is before it is held.                                      *)
LEMMA MacKnownHolds ==
  ASSUME MacTyped, MacPresent, NEW e \in MacInLog, Mac!Known(e)
  PROVE  MacHeld(e, Len(macSource.queue))
<1>1. e >= 1 /\ e \in Nat
  BY MacNumbers
<1>2. CASE \E i \in 1..Len(macSource.queue) : macSource.queue[i].id = e
  <2>1. PICK i \in 1..Len(macSource.queue) : macSource.queue[i].id = e
    BY <1>2
  <2>2. MacEntryItem(macSource.queue[i])
    BY <1>1, <2>1 DEF MacPresent, MacItems, MacGapItem
  <2> QED
    BY <2>1, <2>2 DEF MacEntryItem, MacHeld
<1>3. CASE \E i \in 1..Len(macSource.pending) : macSource.pending[i].id = e
  <2>1. PICK p \in Mac!Elements(macSource.pending) : p.id = e
    BY <1>3 DEF Mac!Elements
  <2>2. e \in macLost.evicted \/ \E i \in 1..Len(macSource.queue) : e \in macSource.queue[i].of
    BY <2>1 DEF MacPresent, MacPending
  <2> QED
    BY <2>2 DEF MacHeld, MacTaken, MacHave
<1>4. CASE \E i \in 1..Len(macSource.committed) : macSource.committed[i].id = e
  <2>1. PICK p \in Mac!Elements(macSource.committed) : p.id = e
    BY <1>4 DEF Mac!Elements
  <2>2. MacTaken(e)
    BY <1>1, <2>1 DEF MacPresent, MacSource, MacTakenIds
  <2> QED
    BY <2>2 DEF MacHeld
<1> QED
  BY <1>2, <1>3, <1>4 DEF Mac!Known

\* The types after an offer.
MacOfferTypes ==
  /\ macSource' \in [queue : Seq(MacItem),
     pending : Seq([run : Int, at : Nat, id : Int]), committed : Seq(MacPlace),
     watermark : Nat]
  /\ Len(macSource'.queue) <= QueueMax
  /\ macLost' \in [evicted : SUBSET Mac!Entry, missed : SUBSET Mac!Entry,
     skipped : SUBSET Mac!Entry,
     unsaved : SUBSET Mac!Entry, untold : SUBSET Seq(Nat)]

\* A new run x of e, p pending for it; s of the oldest items made room.
MacNewRun(e, s, x, p) ==
  /\ x.of = {e} /\ x.id = e /\ x.run = 2 * e /\ x.at = macLog[e].at
     /\ x.gap = <<>> /\ x.seq = 2 * e
  /\ p.id = e /\ p.run = 2 * e /\ p.at = macLog[e].at
  /\ s <= Len(macSource.queue)
  /\ Len(macSource'.queue) = Len(macSource.queue) - s + 1
  /\ macSource'.queue[Len(macSource.queue) - s + 1] = x
  /\ \A i \in 1..Len(macSource.queue) - s : macSource'.queue[i] = macSource.queue[i + s]
  /\ macSource'.pending = Mac!Bounded(macSource.pending, p)
  /\ macSource'.committed = macSource.committed
     /\ macSource'.watermark = macSource.watermark
  /\ macLost'.missed = macLost.missed /\ macLost'.skipped = macLost.skipped
  /\ macLost'.unsaved = macLost.unsaved
  /\ macLost.evicted \subseteq macLost'.evicted
  /\ s = 1 => macSource.queue[1].of \subseteq macLost'.evicted
  /\ MacOfferTypes

\* A new run.
LEMMA MacOfferNewGives ==
  ASSUME MacTyped, NEW e \in MacInLog, Mac!OfferNew(e)
  PROVE  \E s \in {0, 1}, x \in MacItem, p \in [run : Int, at : Nat, id : Int] :
           MacNewRun(e, s, x, p)
<1> DEFINE PT == [run : Int, at : Nat, id : Int]
<1>1. e \in Nat /\ e \in Mac!Entry /\ macLog[e].at \in Nat /\ 2 * e \in Int
  BY MacNumbers
<1>2. PICK at \in Nat : at = macLog[e].at
  BY <1>1
<1>3. PICK r \in Int : r = 2 * e
  BY <1>1
<1>4. PICK x : x = [of |-> {e}, id |-> e, seq |-> r, run |-> r, at |-> at, gap |-> <<>>]
  OBVIOUS
<1>5. x \in MacItem /\ x.of = {e} /\ x.id = e /\ x.run = r /\ x.at = at /\ x.gap = <<>> /\ x.seq = r
  <2>1. <<>> \in Seq(Nat) /\ {e} \in SUBSET Mac!Entry /\ e \in Int
    BY <1>1
  <2> QED
    BY <1>4, <2>1 DEF MacItem
<1>6. PICK p : p = [run |-> r, at |-> at, id |-> e]
  OBVIOUS
<1>7. p \in PT /\ p.id = e /\ p.run = r /\ p.at = at
  BY <1>1, <1>6
<1>8. PICK s \in {0, 1} :
           /\ s <= Len(macSource.queue)
           /\ Mac!Room \in Seq(MacItem) /\ Len(Mac!Room) = Len(macSource.queue) - s
              /\ Len(Mac!Room) < QueueMax
           /\ \A i \in 1..Len(macSource.queue) - s : Mac!Room[i] = macSource.queue[i
              + s]
           /\ Mac!Evict \in [evicted : SUBSET Mac!Entry, missed : SUBSET Mac!Entry,
              skipped : SUBSET Mac!Entry,
              unsaved : SUBSET Mac!Entry, untold : SUBSET Seq(Nat)]
           /\ Mac!Evict.missed = macLost.missed /\ Mac!Evict.skipped = macLost.skipped
           /\ Mac!Evict.unsaved = macLost.unsaved
           /\ macLost.evicted \subseteq Mac!Evict.evicted
           /\ s = 1 => macSource.queue[1].of \subseteq Mac!Evict.evicted
  BY MacRoomHolds
<1> HIDE DEF PT
<1>9. macSource' = [macSource EXCEPT !.queue = Append(Mac!Room, x),
      !.pending = Mac!Bounded(@, p)] /\ macLost' = Mac!Evict
  BY <1>2, <1>3, <1>4, <1>6 DEF Mac!OfferNew
<1>10. /\ macSource \in [queue : Seq(MacItem), pending : Seq(PT),
          committed : Seq(MacPlace), watermark : Nat]
       /\ macSource.pending \in Seq(PT) /\ Len(macSource.queue) \in Nat
  BY MacFields DEF MacTyped, PT
<1>11. PICK Q \in Seq(MacItem) : Q = Mac!Room
  BY <1>8
<1>12. /\ Append(Q, x) \in Seq(MacItem) /\ Len(Append(Q, x)) = Len(Q) + 1
       /\ \A i \in 1..Len(Q) : Append(Q, x)[i] = Q[i]
       /\ Append(Q, x)[Len(Q) + 1] = x
  BY <1>5, <1>11, AppendProperties
<1>13. PICK Q2 \in Seq(MacItem) : Q2 = Append(Mac!Room, x)
  BY <1>11, <1>12
<1>14. PICK P2 \in Seq(PT) : P2 = Mac!Bounded(macSource.pending, p)
  BY <1>7, <1>10, MacBoundedHolds
<1>15. macSource' = [macSource EXCEPT !.queue = Q2, !.pending = P2]
  BY <1>9, <1>13, <1>14
<1>16. /\ macSource' \in [queue : Seq(MacItem), pending : Seq(PT),
          committed : Seq(MacPlace), watermark : Nat]
       /\ macSource'.queue = Q2 /\ macSource'.pending = P2
       /\ macSource'.committed = macSource.committed
          /\ macSource'.watermark = macSource.watermark
  BY <1>10, <1>15
<1>17. Len(Q2) = Len(macSource.queue) - s + 1 /\ Len(Q2) <= QueueMax
  <2>1. Len(Q2) = Len(Mac!Room) + 1
    BY <1>11, <1>12, <1>13
  <2> QED
    BY <1>8, <1>10, <2>1
<1>18. Q2[Len(macSource.queue) - s + 1] = x
  <2>1. Len(Q) = Len(macSource.queue) - s
    BY <1>8, <1>11
  <2> QED
    BY <1>11, <1>12, <1>13, <2>1
<1>19. \A i \in 1..Len(macSource.queue) - s : Q2[i] = macSource.queue[i + s]
  BY <1>8, <1>11, <1>12, <1>13
<1>20. MacOfferTypes
  BY <1>8, <1>9, <1>16, <1>17 DEF MacOfferTypes, PT
<1>21. /\ x.of = {e} /\ x.id = e /\ x.run = 2 * e /\ x.at = macLog[e].at /\ x.gap = <<>>
          /\ x.seq = 2 * e
       /\ p.id = e /\ p.run = 2 * e /\ p.at = macLog[e].at
  BY <1>2, <1>3, <1>5, <1>7
<1>22. /\ Len(macSource'.queue) = Len(macSource.queue) - s + 1
       /\ macSource'.queue[Len(macSource.queue) - s + 1] = x
       /\ \A i \in 1..Len(macSource.queue) - s : macSource'.queue[i] = macSource.queue[i + s]
       /\ macSource'.pending = Mac!Bounded(macSource.pending, p)
  BY <1>14, <1>16, <1>17, <1>18, <1>19
<1>23. /\ macLost'.missed = macLost.missed /\ macLost'.skipped = macLost.skipped
       /\ macLost'.unsaved = macLost.unsaved
       /\ macLost.evicted \subseteq macLost'.evicted
       /\ s = 1 => macSource.queue[1].of \subseteq macLost'.evicted
  BY <1>8, <1>9
<1>24. p \in [run : Int, at : Nat, id : Int]
  BY <1>7 DEF PT
<1> QED
  BY <1>5, <1>8, <1>16, <1>20, <1>21, <1>22, <1>23, <1>24 DEF MacNewRun

\* What holds after the offer of e.
MacOfferHolds(e) ==
  /\ MacTyped' /\ MacPresent' /\ MacHaveKept /\ MacTakenKept /\ MacLogGrows
  /\ \A f \in MacInLog : f <= e => MacHeld(f, Len(macSource.queue))'
-----------------------------------------------------------------------------
\* The reader offers e, the next it read.
MacReaderTypes == [stage : {"hand", "show", "stream", "dead"}, read : Nat, wm : Nat,
    first : Nat \cup {Mac!NoTime}]
MacOffering(e) ==
  /\ MacTyped /\ MacPresent /\ UNCHANGED <<macLog, macPurged, macTick, macDb>>
  /\ macReader.read < e /\ macReader'.read = e /\ macReader' \in MacReaderTypes
  /\ \A f \in MacInLog : f < e => MacHeld(f, Len(macSource.queue))

\* An entry whose identity is known is not queued again.
LEMMA MacOfferKnownHolds ==
  ASSUME NEW e \in MacInLog, MacOffering(e), Mac!Known(e), UNCHANGED <<macSource,
         macLost>>
  PROVE  MacOfferHolds(e)
<1>0. /\ MacTyped /\ MacPresent /\ UNCHANGED <<macLog, macPurged, macTick, macDb>>
      /\ macReader.read < e /\ macReader'.read = e /\ macReader' \in MacReaderTypes
      /\ \A f \in MacInLog : f < e => MacHeld(f, Len(macSource.queue))
  BY DEF MacOffering
<1>1. MacTyped'
  BY <1>0 DEF MacTyped, MacReaderTypes
<1>2. MacLogGrows
  BY <1>0, MacSameLog, MacNumbers
<1>3. MacHaveKept /\ MacTakenKept
  BY <1>0 DEF MacHaveKept, MacTakenKept, MacHave, MacTaken
<1>4. MacPresent'
  <2>1. macReader.read <= macReader'.read /\ macLost.evicted \subseteq macLost'.evicted
    BY <1>0, MacFields, MacNumbers
  <2> QED
    BY <1>0, <1>1, <1>2, <1>3, <2>1, MacPresentKept
<1>5. ASSUME NEW f \in MacInLog, f <= e PROVE MacHeld(f, Len(macSource.queue))'
  <2>1. MacHeld(f, Len(macSource.queue))
    <3>1. f = e \/ f < e
      BY <1>0, <1>5, MacNumbers
    <3> QED
      BY <1>0, <3>1, MacKnownHolds
  <2> QED
    BY <1>0, <2>1 DEF MacHeld, MacTaken, MacHave
<1> QED
  BY <1>1, <1>2, <1>3, <1>4, <1>5 DEF MacOfferHolds

\* A new run goes to the end of the queue.
LEMMA MacOfferNewHolds ==
  ASSUME NEW e \in MacInLog, MacOffering(e), Mac!OfferNew(e)
  PROVE  MacOfferHolds(e)
<1>0. /\ MacTyped /\ MacPresent /\ UNCHANGED <<macLog, macPurged, macTick, macDb>>
      /\ macReader.read < e /\ macReader'.read = e /\ macReader' \in MacReaderTypes
      /\ \A f \in MacInLog : f < e => MacHeld(f, Len(macSource.queue))
  BY DEF MacOffering
<1>1. PICK s \in {0, 1}, x \in MacItem, p \in [run : Int, at : Nat, id : Int] :
           MacNewRun(e, s, x, p)
  BY <1>0, MacOfferNewGives
<1>a. /\ x.of = {e} /\ x.id = e /\ x.run = 2 * e /\ x.at = macLog[e].at
         /\ x.gap = <<>> /\ x.seq = 2 * e
      /\ p.id = e /\ p.run = 2 * e /\ p.at = macLog[e].at
      /\ s <= Len(macSource.queue)
      /\ Len(macSource'.queue) = Len(macSource.queue) - s + 1
      /\ macSource'.queue[Len(macSource.queue) - s + 1] = x
      /\ \A i \in 1..Len(macSource.queue) - s : macSource'.queue[i] = macSource.queue[i + s]
      /\ macSource'.pending = Mac!Bounded(macSource.pending, p)
      /\ macSource'.committed = macSource.committed
         /\ macSource'.watermark = macSource.watermark
      /\ macLost'.missed = macLost.missed /\ macLost'.skipped = macLost.skipped
      /\ macLost'.unsaved = macLost.unsaved
      /\ macLost.evicted \subseteq macLost'.evicted
      /\ s = 1 => macSource.queue[1].of \subseteq macLost'.evicted
      /\ MacOfferTypes
  BY <1>1 DEF MacNewRun
<1>2. MacTyped'
  BY <1>0, <1>a DEF MacTyped, MacOfferTypes, MacReaderTypes
<1>3. PICK n \in Nat : n = Len(macSource.queue)
  BY <1>0, MacFields
<1>4. n - s + 1 \in 1..n - s + 1 /\ n - s + 1 \in Nat
  BY <1>a, <1>3
<1>5. PICK k \in 1..n - s + 1 : k = n - s + 1
  BY <1>4
<1>6. /\ \A f \in MacInLog : f \in Nat /\ f >= 1 /\ f \in Mac!Entry
      /\ macReader.read \in Nat
  BY <1>0, MacNumbers, MacFields
<1>7. MacEntryItem(x)'
  <2>1. e <= macReader'.read /\ e \in MacInLog' /\ macLog' = macLog
    BY <1>0, <1>6 DEF MacInLog
  <2> QED
    BY <1>a, <1>6, <2>1 DEF MacEntryItem
<1>8. \A i \in 1..n - s + 1 : i # k
      => macSource'.queue[i] = macSource.queue[IF i < k THEN i + s ELSE i - 1 + s]
  <2> SUFFICES ASSUME NEW i \in 1..n - s + 1, i # k
      PROVE macSource'.queue[i] = macSource.queue[IF i < k THEN i + s ELSE i - 1 + s]
    OBVIOUS
  <2>1. i \in 1..n - s /\ i < k
    BY <1>a, <1>4, <1>5
  <2> QED
    BY <1>a, <1>3, <2>1
<1>9. ASSUME NEW f \in x.of, NEW j \in 1..n, NEW h \in macSource.queue[j].of PROVE h < f
  <2>1. f = e
    BY <1>a
  <2>2. h \in MacInLog /\ h <= macReader.read
    BY <1>0, <1>3 DEF MacPresent, MacItems, MacGapItem, MacEntryItem
  <2> QED
    BY <1>0, <1>6, <2>1, <2>2
<1>10. \A h \in MacInLog : h <= x.id => MacHeld(h, n) \/ h \in x.of
  <2> SUFFICES ASSUME NEW h \in MacInLog, h <= e PROVE MacHeld(h, n) \/ h = e
    BY <1>a
  <2>1. h < e \/ h = e
    BY <1>6
  <2> QED
    BY <1>0, <1>3, <2>1
<1>11. \A y \in Mac!Elements(macSource'.pending) :
            y \in Mac!Elements(macSource.pending)
                \/ (y.id \in MacInLog /\ y.id \in x.of /\ y.run = x.run)
  <2> DEFINE PT == [run : Int, at : Nat, id : Int]
  <2>1. PICK P \in Seq(PT) : P = macSource.pending
    BY <1>0, MacFields
  <2>a. p \in PT
    OBVIOUS
  <2> HIDE DEF PT
  <2>b. \A y \in Mac!Elements(Mac!Bounded(P, p)) : y \in Mac!Elements(P) \/ y = p
    BY <2>1, <2>a, MacBoundedHolds
  <2>2. \A y \in Mac!Elements(macSource'.pending) : y \in Mac!Elements(macSource.pending) \/ y = p
    BY <1>a, <2>1, <2>b
  <2>3. p.id \in MacInLog /\ p.id \in x.of /\ p.run = x.run
    BY <1>a
  <2> QED
    BY <2>2, <2>3
<1>12. macReader.read <= macReader'.read
  BY <1>0, <1>6
<1>13. s <= n /\ Len(macSource'.queue) = n - s + 1 /\ macSource'.queue[k] = x
  BY <1>a, <1>3, <1>5
<1>14. /\ MacPresent' /\ MacHaveKept /\ MacTakenKept /\ MacLogGrows
       /\ \A f \in Mac!Entry : MacHeld(f, n) \/ f \in x.of => MacHeld(f, n - s + 1)'
  <2>1. \A f \in x.of : k = n - s + 1
        /\ \A j \in 1..n : \A h \in macSource.queue[j].of : h < f
    BY <1>5, <1>9
  <2>2. \A h \in MacInLog : h <= x.id => k = n - s + 1 /\ (MacHeld(h, n) \/ h \in x.of)
    BY <1>5, <1>10
  <2>3. MacInserting(n, s, k, x)
    BY <1>0, <1>a, <1>2, <1>3, <1>7, <1>8, <1>11, <1>12, <1>13, <2>1,
       <2>2 DEF MacInserting
  <2> QED
    BY <2>3, MacInserted
<1>15. ASSUME NEW f \in MacInLog, f <= e PROVE MacHeld(f, Len(macSource.queue))'
  <2>1. MacHeld(f, n) \/ f \in x.of
    BY <1>a, <1>10, <1>15
  <2>2. MacHeld(f, n - s + 1)'
    BY <1>6, <1>14, <2>1
  <2> QED
    BY <1>13, <2>2 DEF MacHeld
<1> QED
  BY <1>2, <1>14, <1>15 DEF MacOfferHolds

\* The newest item gets e, and p is pending for it.
MacMerging(e, n, last, x, p) ==
  /\ n = Len(macSource.queue) /\ last = macSource.queue[n]
  /\ x.of = last.of \cup {e} /\ x.id = e /\ x.run = last.run /\ x.at = macLog[e].at
     /\ x.gap = last.gap /\ x.seq = 2 * e
  /\ p.id = e /\ p.run = last.run /\ p.at = macLog[e].at
  /\ Len(macSource'.queue) = n
  /\ macSource'.queue[n] = x
  /\ \A i \in 1..n : i # n => macSource'.queue[i] = macSource.queue[i]
  /\ macSource'.pending = Mac!Bounded(macSource.pending, p)
  /\ macSource'.committed = macSource.committed
     /\ macSource'.watermark = macSource.watermark
  /\ macLost' = macLost
  /\ MacOfferTypes

\* A run that gets one more entry.
LEMMA MacOfferMergedGives ==
  ASSUME MacTyped, NEW e \in MacInLog, Mac!OfferMerged(e), macSource.queue # <<>>
  PROVE  \E n \in Nat \ {0}, last \in MacItem, x \in MacItem,
         p \in [run : Int, at : Nat, id : Int] :
           MacMerging(e, n, last, x, p)
<1> DEFINE PT == [run : Int, at : Nat, id : Int]
<1>1. e \in Nat /\ e \in Mac!Entry /\ macLog[e].at \in Nat /\ 2 * e \in Int
  BY MacNumbers
<1>2. PICK at \in Nat : at = macLog[e].at
  BY <1>1
<1>3. PICK r \in Int : r = 2 * e
  BY <1>1
<1>4. PICK n \in Nat \ {0} : n = Len(macSource.queue)
  <2>1. macSource.queue \in Seq(MacItem)
    BY MacFields
  <2> QED
    BY <2>1
<1>5. PICK last \in MacItem : last = macSource.queue[n]
  BY <1>4, MacFields
<1>6. PICK x : x = [last EXCEPT !.of = @ \cup {e}, !.id = e, !.seq = r, !.at = at]
  OBVIOUS
<1>7. x \in MacItem /\ x.of = last.of \cup {e} /\ x.id = e /\ x.run = last.run
      /\ x.at = at /\ x.gap = last.gap /\ x.seq = r
  <2> DEFINE O == SUBSET Mac!Entry  G == Seq(Nat)
  <2>1. last.of \cup {e} \in O /\ e \in Int
    BY <1>1, MacCheckpointFields
  <2> HIDE DEF O, G
  <2>2. last \in [of : O, id : Int, seq : Int, run : Int, at : Nat, gap : G]
    BY DEF MacItem, O, G
  <2>3. x \in [of : O, id : Int, seq : Int, run : Int, at : Nat, gap : G]
    BY <1>6, <2>1, <2>2
  <2>4. x.of = last.of \cup {e} /\ x.id = e /\ x.run = last.run /\ x.at = at
        /\ x.gap = last.gap /\ x.seq = r
    BY <1>6, <2>2
  <2> QED
    BY <2>3, <2>4 DEF MacItem, O, G
<1>8. PICK p : p = [run |-> last.run, at |-> at, id |-> e]
  OBVIOUS
<1>9. p \in PT /\ p.id = e /\ p.run = last.run /\ p.at = at
  BY <1>1, <1>8, MacCheckpointFields
<1> HIDE DEF PT
<1>10. /\ macSource \in [queue : Seq(MacItem), pending : Seq(PT),
          committed : Seq(MacPlace), watermark : Nat]
       /\ macSource.pending \in Seq(PT)
  BY MacFields DEF MacTyped, PT
<1>11. PICK Q \in Seq(MacItem) : Q = macSource.queue
  BY MacFields
<1>12. macSource' = [macSource EXCEPT !.queue[n] = x, !.pending = Mac!Bounded(@, p)]
       /\ macLost' = macLost
  BY <1>2, <1>3, <1>4, <1>5, <1>6, <1>8 DEF Mac!OfferMerged
<1>13. PICK Q2 : Q2 = [Q EXCEPT ![n] = x]
  OBVIOUS
<1>14. Q2 \in Seq(MacItem) /\ Len(Q2) = n /\ Q2[n] = x /\ \A i \in 1..n : i # n
       => Q2[i] = Q[i]
  <2>1. n = Len(Q) /\ n \in 1..Len(Q)
    BY <1>4, <1>11
  <2> QED
    BY <1>7, <1>13, <2>1, ExceptSeq
<1>15. PICK P2 \in Seq(PT) : P2 = Mac!Bounded(macSource.pending, p)
  BY <1>9, <1>10, MacBoundedHolds
<1>16. macSource' = [macSource EXCEPT !.queue = Q2, !.pending = P2]
  BY <1>11, <1>12, <1>13, <1>15, <1>10
<1>17. /\ macSource' \in [queue : Seq(MacItem), pending : Seq(PT),
          committed : Seq(MacPlace), watermark : Nat]
       /\ macSource'.queue = Q2 /\ macSource'.pending = P2
       /\ macSource'.committed = macSource.committed
          /\ macSource'.watermark = macSource.watermark
  BY <1>10, <1>14, <1>16
<1>18. Len(macSource'.queue) <= QueueMax
  BY <1>4, <1>14, <1>17, MacFields
<1>19. MacOfferTypes
  <2>1. macLost' \in [evicted : SUBSET Mac!Entry, missed : SUBSET Mac!Entry,
        skipped : SUBSET Mac!Entry,
        unsaved : SUBSET Mac!Entry, untold : SUBSET Seq(Nat)]
    BY <1>12 DEF MacTyped
  <2> QED
    BY <1>17, <1>18, <2>1 DEF MacOfferTypes, PT
<1>20. \A i \in 1..n : i # n => macSource'.queue[i] = macSource.queue[i]
  BY <1>11, <1>14, <1>17
<1>21. p \in [run : Int, at : Nat, id : Int]
  BY <1>9 DEF PT
<1>22. MacMerging(e, n, last, x, p)
  BY <1>2, <1>3, <1>4, <1>5, <1>7, <1>9, <1>12, <1>14, <1>15, <1>17, <1>19,
     <1>20 DEF MacMerging
<1> QED
  BY <1>7, <1>21, <1>22
-----------------------------------------------------------------------------
\* It is named by that entry and covers what it covered.
LEMMA MacOfferMergedHolds ==
  ASSUME NEW e \in MacInLog, MacOffering(e), Mac!Merges(e), Mac!OfferMerged(e)
  PROVE  MacOfferHolds(e)
<1>0. /\ MacTyped /\ MacPresent /\ UNCHANGED <<macLog, macPurged, macTick, macDb>>
      /\ macReader.read < e /\ macReader'.read = e /\ macReader' \in MacReaderTypes
      /\ \A f \in MacInLog : f < e => MacHeld(f, Len(macSource.queue))
  BY DEF MacOffering
<1>1. macSource.queue # <<>>
  BY DEF Mac!Merges
<1>2. PICK n \in Nat \ {0}, last \in MacItem, x \in MacItem,
      p \in [run : Int, at : Nat, id : Int] :
        MacMerging(e, n, last, x, p)
  BY <1>0, <1>1, MacOfferMergedGives
<1>3. /\ n = Len(macSource.queue) /\ last = macSource.queue[n]
      /\ x.of = last.of \cup {e} /\ x.id = e /\ x.run = last.run
         /\ x.at = macLog[e].at /\ x.gap = last.gap
      /\ p.id = e /\ p.run = last.run
      /\ Len(macSource'.queue) = n
      /\ macSource'.queue[n] = x
      /\ \A i \in 1..n : i # n => macSource'.queue[i] = macSource.queue[i]
      /\ macSource'.pending = Mac!Bounded(macSource.pending, p)
      /\ macSource'.committed = macSource.committed
         /\ macSource'.watermark = macSource.watermark
      /\ macLost' = macLost
      /\ MacOfferTypes
  BY <1>2 DEF MacMerging
<1>4. MacTyped'
  BY <1>0, <1>3 DEF MacTyped, MacOfferTypes, MacReaderTypes
<1>5. MacLogGrows
  BY <1>0, MacSameLog, MacNumbers
<1>6. MacHaveKept /\ MacTakenKept
  BY <1>0, <1>3 DEF MacHaveKept, MacTakenKept, MacHave, MacTaken
<1>7. /\ \A f \in MacInLog : f \in Nat /\ f >= 1 /\ f \in Mac!Entry
      /\ macReader.read \in Nat
  BY <1>0, MacNumbers, MacFields
<1>8. \A i \in 1..n : macSource.queue[i] \in MacItem
      /\ (MacGapItem(macSource.queue[i]) \/ MacEntryItem(macSource.queue[i]))
  BY <1>0, <1>3, MacFields DEF MacPresent, MacItems
<1>9. MacEntryItem(last)
  <2>1. last.id > 0 /\ n \in 1..n
    BY <1>3 DEF Mac!Merges
  <2>2. last.id \in Int
    BY MacCheckpointFields
  <2> QED
    BY <1>3, <1>8, <2>1, <2>2 DEF MacGapItem
<1>10. \A i \in 1..n : \A h \in macSource.queue[i].of : h \in MacInLog
       /\ h <= macReader.read /\ h < e
  <2> SUFFICES ASSUME NEW i \in 1..n, NEW h \in macSource.queue[i].of
      PROVE h \in MacInLog /\ h <= macReader.read /\ h < e
    OBVIOUS
  <2>1. h \in MacInLog /\ h <= macReader.read
    BY <1>8 DEF MacGapItem, MacEntryItem
  <2> QED
    BY <1>0, <1>7, <2>1
<1>11. \A i \in 1..n : macSource.queue[i].of \subseteq macSource'.queue[i].of
       /\ macSource'.queue[i].run = macSource.queue[i].run
  BY <1>3
<1>12. \A i \in 1..n, f \in MacInLog : MacHeld(f, i) => MacHeld(f, i)'
  <2> SUFFICES ASSUME NEW i \in 1..n, NEW f \in MacInLog, MacHeld(f, i)
      PROVE MacHeld(f, i)'
    OBVIOUS
  <2>1. CASE MacTaken(f)
    BY <1>6, <1>7, <2>1 DEF MacHeld, MacTakenKept
  <2>2. CASE \E j \in 1..i : f \in macSource.queue[j].of
    <3>1. \A j \in 1..i : j \in 1..n
      OBVIOUS
    <3> QED
      BY <1>11, <2>2, <3>1 DEF MacHeld
  <2> QED
    BY <2>1, <2>2 DEF MacHeld
<1>13. \A f \in MacInLog : f <= e => MacHeld(f, n)'
  <2> SUFFICES ASSUME NEW f \in MacInLog, f <= e PROVE MacHeld(f, n)'
    OBVIOUS
  <2>1. CASE f = e
    BY <1>3, <2>1 DEF MacHeld
  <2>2. CASE f # e
    <3>1. f < e
      BY <1>7, <2>2
    <3> QED
      BY <1>0, <1>3, <1>12, <3>1
  <2> QED
    BY <2>1, <2>2
<1>14. MacSource'
  BY <1>0, <1>3, <1>4, <1>5, <1>6, MacSourceKept DEF MacPresent
<1>15. MacItems'
  <2> SUFFICES ASSUME NEW i \in 1..n
      PROVE MacGapItem(macSource.queue[i])' \/ MacEntryItem(macSource.queue[i])'
    BY <1>3 DEF MacItems
  <2>1. CASE i # n
    <3>1. PICK q \in MacItem : q = macSource.queue[i]
          /\ (MacGapItem(q) \/ MacEntryItem(q))
      BY <1>8
    <3>2. q = macSource'.queue[i]
      BY <1>3, <2>1, <3>1
    <3>3. macReader.read <= macReader'.read
      BY <1>0, <1>7
    <3>4. MacGapItem(q)' \/ MacEntryItem(q)'
      BY <1>0, <1>4, <1>5, <1>6, <3>1, <3>3, MacGapItemKept, MacEntryItemKept
    <3> QED
      BY <3>2, <3>4 DEF MacGapItem, MacEntryItem, MacGapReal
  <2>2. CASE i = n
    <3>1. \A f \in last.of : f \in MacInLog /\ f <= e
      <4>1. \A f \in last.of : f \in MacInLog /\ f < e
        BY <1>3, <1>10
      <4> QED
        BY <1>7, <4>1
    <3>2. \A f \in x.of : f \in MacInLog /\ f <= x.id /\ f <= macReader'.read
      BY <1>0, <1>3, <1>7, <3>1
    <3>3. x.id \in x.of /\ x.gap = <<>> /\ x.at = macLog'[x.id].at
          /\ (\E f \in x.of : x.run = 2 * f)
      BY <1>0, <1>3, <1>9 DEF MacEntryItem
    <3>4. MacEntryItem(x)'
      BY <1>0, <3>2, <3>3 DEF MacEntryItem, MacInLog
    <3> QED
      BY <1>3, <2>2, <3>4 DEF MacEntryItem
  <2> QED
    BY <2>1, <2>2
<1>16. MacInOrder'
  <2> SUFFICES ASSUME NEW i \in 1..n, NEW j \in 1..n, j < i,
                      NEW g \in macSource'.queue[j].of, NEW f \in macSource'.queue[i].of
               PROVE  g < f
    BY <1>3 DEF MacInOrder
  <2>1. j # n /\ g \in macSource.queue[j].of
    BY <1>3
  <2>2. CASE f \in macSource.queue[i].of
    BY <1>0, <1>3, <2>1, <2>2 DEF MacPresent, MacInOrder
  <2>3. CASE f = e
    BY <1>10, <2>1, <2>3
  <2>4. f \in macSource.queue[i].of \/ f = e
    BY <1>3
  <2> QED
    BY <2>2, <2>3, <2>4
<1>17. MacQueueCovers'
  <2> SUFFICES ASSUME NEW i \in 1..n, NEW f \in MacInLog, f <= macSource'.queue[i].id
      PROVE MacHeld(f, i)'
    BY <1>0, <1>3 DEF MacQueueCovers, MacInLog
  <2>1. CASE i = n
    BY <1>3, <1>13, <2>1
  <2>2. CASE i # n
    <3>1. MacHeld(f, i)
      BY <1>0, <1>3, <2>2 DEF MacPresent, MacQueueCovers
    <3> QED
      BY <1>12, <3>1
  <2> QED
    BY <2>1, <2>2
<1>18. \A y \in Mac!Elements(macSource'.pending) : y \in Mac!Elements(macSource.pending) \/ y = p
  <2> DEFINE PT == [run : Int, at : Nat, id : Int]
  <2>1. PICK P \in Seq(PT) : P = macSource.pending
    BY <1>0, MacFields
  <2>a. p \in PT
    OBVIOUS
  <2> HIDE DEF PT
  <2>b. \A y \in Mac!Elements(Mac!Bounded(P, p)) : y \in Mac!Elements(P) \/ y = p
    BY <2>1, <2>a, MacBoundedHolds
  <2> QED
    BY <1>3, <2>1, <2>b
<1>19. MacPending'
  <2> SUFFICES ASSUME NEW y \in Mac!Elements(macSource'.pending)
               PROVE  /\ y.id \in MacInLog
                      /\ y.id \in macLost.evicted
                         \/ \E i \in 1..n : y.id \in macSource'.queue[i].of
                         /\ macSource'.queue[i].run = y.run
    BY <1>0, <1>3 DEF MacPending, MacInLog
  <2>1. CASE y \in Mac!Elements(macSource.pending)
    <3>1. y.id \in MacInLog /\ (y.id \in macLost.evicted
          \/ \E i \in 1..n : y.id \in macSource.queue[i].of
          /\ macSource.queue[i].run = y.run)
      BY <1>0, <1>3, <2>1 DEF MacPresent, MacPending
    <3> QED
      BY <1>11, <3>1
  <2>2. CASE y = p
    <3>1. y.id \in macSource'.queue[n].of /\ macSource'.queue[n].run = y.run
          /\ y.id \in MacInLog /\ n \in 1..n
      BY <1>3, <2>2
    <3> QED
      BY <3>1
  <2> QED
    BY <1>18, <2>1, <2>2
<1>20. MacPresent'
  BY <1>14, <1>15, <1>16, <1>17, <1>19 DEF MacPresent
<1>21. \A f \in MacInLog : f <= e => MacHeld(f, Len(macSource.queue))'
  BY <1>3, <1>13 DEF MacHeld
<1> QED
  BY <1>4, <1>5, <1>6, <1>20, <1>21 DEF MacOfferHolds

\* Whatever an offer does, what was read is held.
LEMMA MacOfferedHolds ==
  ASSUME NEW e \in MacInLog, MacOffering(e), Mac!Offer(e)
  PROVE  MacOfferHolds(e)
<1>1. CASE Mac!Known(e)
  <2>1. UNCHANGED <<macSource, macLost>>
    BY <1>1 DEF Mac!Offer
  <2> QED
    BY <1>1, <2>1, MacOfferKnownHolds
<1>2. CASE ~Mac!Known(e) /\ Mac!Merges(e)
  <2>1. Mac!OfferMerged(e)
    BY <1>2 DEF Mac!Offer
  <2> QED
    BY <1>2, <2>1, MacOfferMergedHolds
<1>3. CASE ~Mac!Known(e) /\ ~Mac!Merges(e)
  <2>1. Mac!OfferNew(e)
    BY <1>3 DEF Mac!Offer
  <2> QED
    BY <2>1, MacOfferNewHolds
<1> QED
  BY <1>1, <1>2, <1>3

\* A line of `log stream`.
LEMMA MacReadStreamStep ==
  ASSUME MacIInv, Mac!ReadStream
  PROVE  MacIInv'
<1>0. MacTyped /\ MacOrdered /\ MacTimed /\ MacPast /\ MacPresent /\ MacShowing
      /\ MacReading
  BY DEF MacIInv
<1>1. /\ macReader.stage = "stream" /\ macReader.read < Len(macLog)
         /\ Mac!Offer(macReader.read + 1)
      /\ macReader' = [macReader EXCEPT !.read = @ + 1]
         /\ UNCHANGED <<macLog, macPurged, macTick, macDb, macFaults>>
  BY DEF Mac!ReadStream
<1>2. macReader.read \in Nat /\ Len(macLog) \in Nat
  BY <1>0, MacFields, MacNumbers
<1>3. PICK e \in MacInLog : e = macReader.read + 1
  <2>1. PICK r \in Nat, m \in Nat : r = macReader.read /\ m = Len(macLog)
    BY <1>2
  <2>2. r < m
    BY <1>1, <2>1
  <2>3. r + 1 \in 1..m
    BY <2>2
  <2> QED
    BY <2>1, <2>3 DEF MacInLog
<1>4. /\ macReader' \in MacReaderTypes /\ macReader'.read = e
         /\ macReader'.wm = macReader.wm /\ macReader'.stage = "stream"
  <2>1. macReader \in MacReaderTypes
    BY <1>0 DEF MacTyped, MacReaderTypes
  <2>a. macReader.read + 1 = e
    BY <1>3
  <2>b. e \in Nat
    BY <1>2, <2>a
  <2>c. macReader' = [macReader EXCEPT !.read = e] /\ macReader.stage = "stream"
    BY <1>1, <2>a
  <2>2. macReader' = [macReader EXCEPT !.read = e] /\ e \in Nat
        /\ macReader.stage = "stream"
    BY <2>b, <2>c
  <2> QED
    BY <2>1, <2>2 DEF MacReaderTypes
<1>5. MacOffering(e)
  <2>1. \A f \in MacInLog : f < e => MacHeld(f, Len(macSource.queue))
    BY <1>0, <1>2, <1>3, MacNumbers DEF MacReading
  <2>2. macReader.read < e
    BY <1>2, <1>3
  <2> QED
    BY <1>0, <1>1, <1>4, <2>1, <2>2 DEF MacOffering
<1>6. MacOfferHolds(e)
  BY <1>1, <1>3, <1>5, MacOfferedHolds
<1>7. /\ MacTyped' /\ MacPresent' /\ MacHaveKept /\ MacTakenKept /\ MacLogGrows
      /\ \A f \in MacInLog : f <= e => MacHeld(f, Len(macSource.queue))'
  BY <1>6 DEF MacOfferHolds
<1>8. MacOrdered' /\ MacTimed'
  BY <1>0, <1>1, MacOrderKept
<1>9. MacPast'
  BY <1>0, <1>1, <1>7, MacStoredKept, MacRememberingKept, MacBatchKept DEF MacPast
<1>10. MacReading'
  BY <1>1, <1>4, <1>7 DEF MacReading, MacInLog
<1>11. MacShowing'
  <2>1. PICK W \in Nat : W = macReader.wm
    BY <1>0, MacFields
  <2>2. MacReached(W)'
    BY <1>0, <1>7, <2>1, MacReachedKept DEF MacShowing
  <2>3. e <= Len(macLog)
    BY <1>2, <1>3 DEF MacInLog
  <2>4. macReader'.stage = "stream" /\ macReader'.wm = W
    BY <1>4, <2>1
  <2>5. macReader'.read <= Len(macLog')
    BY <1>1, <1>4, <2>3
  <2> QED
    BY <2>2, <2>4, <2>5 DEF MacShowing
<1> QED
  BY <1>7, <1>8, <1>9, <1>10, <1>11 DEF MacIInv

\* A line of `log show`.
LEMMA MacReadShowStep ==
  ASSUME MacIInv, Mac!ReadShow
  PROVE  MacIInv'
<1>0. MacTyped /\ MacOrdered /\ MacTimed /\ MacPast /\ MacPresent /\ MacShowing
      /\ MacReading
  BY DEF MacIInv
<1>1. /\ macReader.stage = "show" /\ Mac!NextRetained <= Len(macLog)
         /\ Mac!Offer(Mac!NextRetained)
      /\ macReader' = [macReader EXCEPT !.read = Mac!NextRetained,
         !.first = Mac!FirstSeen(Mac!NextRetained)]
      /\ UNCHANGED <<macLog, macPurged, macTick, macDb, macFaults>>
  BY DEF Mac!ReadShow
<1>2. /\ macReader.read \in Nat /\ Len(macLog) \in Nat /\ macPurged \in Nat
         /\ macReader.wm \in Nat
      /\ macReader.first \in Nat \cup {Mac!NoTime} /\ Mac!NoTime = -1
  BY <1>0, MacFields, MacNumbers
<1>3. PICK e \in MacInLog : e = Mac!NextRetained /\ e > macReader.read
      /\ e > macPurged /\ (e - 1 = macReader.read \/ e - 1 = macPurged)
  <2>1. PICK e : e = Mac!NextRetained
    OBVIOUS
  <2>2. e \in Nat /\ e > macReader.read /\ e > macPurged
        /\ (e - 1 = macReader.read \/ e - 1 = macPurged) /\ e >= 1
    BY <1>2, <2>1 DEF Mac!NextRetained, Mac!Later
  <2>3. e \in MacInLog
    BY <1>1, <1>2, <2>1, <2>2 DEF MacInLog
  <2> QED
    BY <2>1, <2>2, <2>3
<1>4. \A f \in MacInLog : f \in Nat /\ f >= 1 /\ f \in Mac!Entry /\ macLog[f].at \in Nat
  BY <1>0, MacNumbers
<1>5. PICK first \in Nat : first = Mac!FirstSeen(e)
      /\ (macReader.first # Mac!NoTime => first = macReader.first)
                           /\ (macReader.first = Mac!NoTime => first = macLog[e].at)
  BY <1>2, <1>4 DEF Mac!FirstSeen
<1>6. /\ macReader' \in MacReaderTypes /\ macReader'.read = e
         /\ macReader'.wm = macReader.wm /\ macReader'.stage = "show"
         /\ macReader'.first = first
  <2>1. macReader \in MacReaderTypes
    BY <1>0 DEF MacTyped, MacReaderTypes
  <2>2. macReader' = [macReader EXCEPT !.read = e, !.first = first]
    BY <1>1, <1>3, <1>5
  <2> QED
    BY <1>1, <1>4, <2>1, <2>2 DEF MacReaderTypes
<1>7. ASSUME NEW f \in MacInLog, f < e PROVE f <= macReader.read \/ f <= macPurged
  BY <1>2, <1>3, <1>4, <1>7
<1>8. MacOffering(e)
  <2>1. ASSUME NEW f \in MacInLog, f < e PROVE MacHeld(f, Len(macSource.queue))
    <3>1. CASE f <= macReader.read
      BY <1>0, <3>1 DEF MacReading
    <3>2. CASE f <= macPurged
      BY <3>2 DEF MacHeld, MacTaken, MacHave
    <3> QED
      BY <1>7, <2>1, <3>1, <3>2
  <2>2. macReader.read < e
    BY <1>2, <1>3, <1>4
  <2> QED
    BY <1>0, <1>1, <1>6, <2>1, <2>2 DEF MacOffering
<1>9. MacOfferHolds(e)
  BY <1>1, <1>3, <1>8, MacOfferedHolds
<1>10. /\ MacTyped' /\ MacPresent' /\ MacHaveKept /\ MacTakenKept /\ MacLogGrows
       /\ \A f \in MacInLog : f <= e => MacHeld(f, Len(macSource.queue))'
  BY <1>9 DEF MacOfferHolds
<1>11. MacOrdered' /\ MacTimed'
  BY <1>0, <1>1, MacOrderKept
<1>12. MacPast'
  BY <1>0, <1>1, <1>10, MacStoredKept, MacRememberingKept, MacBatchKept DEF MacPast
<1>13. MacReading'
  BY <1>1, <1>6, <1>10 DEF MacReading, MacInLog
<1>14. /\ MacReached(first)
       /\ \A f \in MacInLog : macLog[f].at < first => MacTaken(f)
          /\ (macReader.wm <= macLog[f].at => f <= macPurged)
  <2>1. CASE macReader.first # Mac!NoTime
    BY <1>0, <1>1, <1>5, <2>1 DEF MacShowing
  <2>2. CASE macReader.first = Mac!NoTime
    <3>1. MacReached(first)
      BY <1>4, <1>5, <2>2 DEF MacReached
    <3>2. ASSUME NEW f \in MacInLog, macLog[f].at < first
            PROVE MacTaken(f) /\ (macReader.wm <= macLog[f].at => f <= macPurged)
      <4>1. f < e
        <5>1. e <= f => macLog[e].at <= macLog[f].at
          BY <1>0 DEF MacOrdered
        <5> QED
          BY <1>4, <1>5, <2>2, <3>2, <5>1
      <4>2. CASE f <= macReader.read
        <5>1. macLog[f].at < macReader.wm /\ MacTaken(f)
          BY <1>0, <1>1, <2>2, <4>2 DEF MacShowing
        <5> QED
          BY <1>2, <1>4, <5>1
      <4>3. CASE f <= macPurged
        BY <4>3 DEF MacTaken, MacHave
      <4> QED
        BY <1>7, <4>1, <4>2, <4>3
    <3> QED
      BY <3>1, <3>2
  <2> QED
    BY <2>1, <2>2
<1>15. MacShowing'
  <2>1. PICK W \in Nat : W = macReader.wm
    BY <1>2
  <2>2. MacReached(W)' /\ MacReached(first)'
    BY <1>0, <1>10, <1>14, <2>1, MacReachedKept DEF MacShowing
  <2>3. e <= Len(macLog)
    BY DEF MacInLog
  <2>4. \A f \in MacInLog : macLog[f].at < first => MacTaken(f)'
        /\ (macReader.wm <= macLog[f].at => f <= macPurged)
    BY <1>4, <1>10, <1>14 DEF MacTakenKept
  <2>5. first # Mac!NoTime
    BY <1>2, <1>5
  <2> QED
    BY <1>1, <1>6, <2>1, <2>2, <2>3, <2>4, <2>5 DEF MacShowing, MacReached, MacInLog
<1> QED
  BY <1>10, <1>11, <1>12, <1>13, <1>15 DEF MacIInv
-----------------------------------------------------------------------------
\* What a gap report x makes of the queue: it heads it, and the oldest item
\* has made room if s is 1.
MacReport(s, x) ==
    /\ macReader.first \in Nat /\ macReader.first > 0
    /\ x.of = {} /\ x.id = Mac!GapId(macReader.wm, macReader.first) /\ x.id < 0
       /\ x.seq = 2 * macReader.read + 1 /\ x.run = 2 * macReader.read + 1
       /\ x.at = macReader.first /\ x.gap = <<macReader.wm, macReader.first>>
    /\ s <= Len(macSource.queue) /\ Len(macSource'.queue) = Len(macSource.queue) - s + 1
       /\ Len(macSource'.queue) <= QueueMax /\ macSource'.queue[1] = x
       /\ \A i \in 1..Len(macSource.queue) - s + 1 :
            i # 1 => macSource'.queue[i] = macSource.queue[i - 1 + s]
    /\ macSource'.pending = macSource.pending
       /\ macSource'.committed = macSource.committed
       /\ macSource'.watermark = macSource.watermark
MacMakesRoom(s) ==
    /\ macLost'.missed = macLost.missed /\ macLost'.skipped = macLost.skipped
    /\ macLost'.unsaved = macLost.unsaved
    /\ macLost.evicted \subseteq macLost'.evicted
    /\ s = 1 => macSource.queue[1].of \subseteq macLost'.evicted
MacReportTypes ==
    /\ macSource' \in [queue : Seq(MacItem),
         pending : Seq([run : Int, at : Nat, id : Int]), committed : Seq(MacPlace),
         watermark : Nat]
    /\ macLost' \in [evicted : SUBSET Mac!Entry, missed : SUBSET Mac!Entry,
         skipped : SUBSET Mac!Entry,
         unsaved : SUBSET Mac!Entry, untold : SUBSET Seq(Nat)]
MacReporting(s, x) == MacReport(s, x) /\ MacMakesRoom(s) /\ MacReportTypes

LEMMA MacReportGives ==
  ASSUME MacTyped, Mac!EnqueueGap, macReader.first > macReader.wm,
         ~Mac!Known(Mac!GapId(macReader.wm, macReader.first))
  PROVE  \E s \in {0, 1}, x \in MacItem : MacReporting(s, x)
<1>0. /\ macReader.read \in Nat /\ macReader.wm \in Nat /\ macReader.first \in Nat
         \cup {Mac!NoTime} /\ Mac!NoTime = -1
      /\ macSource.queue \in Seq(MacItem) /\ Len(macSource.queue) \in Nat
  BY MacFields
<1>1. macReader.first \in Nat /\ macReader.first > 0 /\ macReader.first # Mac!NoTime
  BY <1>0
<1>2. PICK from \in Nat, to \in Nat : from = macReader.wm /\ to = macReader.first
      /\ to > 0
  BY <1>0, <1>1
<1>3. PICK id \in Int : id = Mac!GapId(from, to) /\ id < 0
  BY <1>2 DEF Mac!GapId
<1>4. PICK r \in Int : r = 2 * macReader.read + 1
  BY <1>0
<1>5. PICK x : x = [of |-> {}, id |-> id, seq |-> r, run |-> r, at |-> to, gap |->
      <<from, to>>]
  OBVIOUS
<1>6. x \in MacItem /\ x.of = {} /\ x.id = id /\ x.seq = r /\ x.run = r /\ x.at = to
      /\ x.gap = <<from, to>>
  <2>1. <<from, to>> \in Seq(Nat) /\ {} \in SUBSET Mac!Entry
    OBVIOUS
  <2> QED
    BY <1>5, <2>1 DEF MacItem
<1>7. PICK s \in {0, 1} :
         /\ s <= Len(macSource.queue)
         /\ Mac!Room \in Seq(MacItem) /\ Len(Mac!Room) = Len(macSource.queue) - s
            /\ Len(Mac!Room) < QueueMax
         /\ \A i \in 1..Len(macSource.queue) - s : Mac!Room[i] = macSource.queue[i
            + s]
         /\ Mac!Evict \in [evicted : SUBSET Mac!Entry, missed : SUBSET Mac!Entry,
            skipped : SUBSET Mac!Entry,
            unsaved : SUBSET Mac!Entry, untold : SUBSET Seq(Nat)]
         /\ Mac!Evict.missed = macLost.missed /\ Mac!Evict.skipped = macLost.skipped
         /\ Mac!Evict.unsaved = macLost.unsaved
         /\ macLost.evicted \subseteq Mac!Evict.evicted
         /\ s = 1 => macSource.queue[1].of \subseteq Mac!Evict.evicted
  BY MacRoomHolds
<1>8. macSource' = [macSource EXCEPT !.queue = <<x>> \o Mac!Room]
      /\ macLost' = Mac!Evict
  BY <1>2, <1>3, <1>4, <1>5 DEF Mac!EnqueueGap
<1>9. PICK Q \in Seq(MacItem) : Q = Mac!Room
  BY <1>7
<1>10. PICK n \in Nat : n = Len(macSource.queue)
  BY <1>0
<1>11. PICK Q2 : Q2 = <<x>> \o Q
  OBVIOUS
<1>12. /\ Q2 \in Seq(MacItem) /\ Len(Q2) = Len(Q) + 1 /\ Q2[1] = x
       /\ \A i \in 1..Len(Q) + 1 : i # 1 => Q2[i] = Q[i - 1]
  <2>1. <<x>> \in Seq(MacItem) /\ Len(<<x>>) = 1 /\ <<x>>[1] = x
    BY <1>6
  <2>2. /\ <<x>> \o Q \in Seq(MacItem) /\ Len(<<x>> \o Q) = Len(<<x>>) + Len(Q)
        /\ \A i \in 1..Len(<<x>>) + Len(Q) : (<<x>> \o Q)[i] = IF i <= Len(<<x>>)
           THEN <<x>>[i] ELSE Q[i - Len(<<x>>)]
    BY <2>1, ConcatProperties
  <2>3. Len(Q) \in Nat
    OBVIOUS
  <2> QED
    BY <1>11, <2>1, <2>2, <2>3
<1>13. /\ Len(Q2) = n - s + 1 /\ Len(Q2) <= QueueMax /\ s <= n
       /\ \A i \in 1..n - s + 1 : i # 1 => Q2[i] = macSource.queue[i - 1 + s]
  <2>1. Len(Q) = n - s /\ Len(Q) < QueueMax /\ s <= n
    BY <1>7, <1>9, <1>10
  <2>2. \A i \in 1..n - s : Q[i] = macSource.queue[i + s]
    BY <1>7, <1>9, <1>10
  <2>3. Len(Q2) = n - s + 1 /\ Len(Q2) <= QueueMax
    BY <1>12, <2>1
  <2>4. ASSUME NEW i \in 1..n - s + 1, i # 1 PROVE Q2[i] = macSource.queue[i - 1 + s]
    <3>1. i - 1 \in 1..n - s /\ Q2[i] = Q[i - 1]
      BY <1>12, <2>1, <2>4
    <3> QED
      BY <2>2, <3>1
  <2> QED
    BY <2>1, <2>3, <2>4
<1>14. /\ macSource' \in [queue : Seq(MacItem),
          pending : Seq([run : Int, at : Nat, id : Int]), committed : Seq(MacPlace),
          watermark : Nat]
       /\ macSource'.queue = Q2 /\ macSource'.pending = macSource.pending
       /\ macSource'.committed = macSource.committed
          /\ macSource'.watermark = macSource.watermark
  <2> DEFINE PT == Seq([run : Int, at : Nat, id : Int])
  <2>1. macSource \in [queue : Seq(MacItem), pending : PT,
        committed : Seq(MacPlace), watermark : Nat]
    BY DEF MacTyped
  <2> HIDE DEF PT
  <2>2. macSource' = [macSource EXCEPT !.queue = Q2]
    BY <1>8, <1>9, <1>11
  <2>3. macSource' \in [queue : Seq(MacItem), pending : PT,
        committed : Seq(MacPlace), watermark : Nat]
    BY <1>12, <2>1, <2>2
  <2>4. /\ macSource'.queue = Q2 /\ macSource'.pending = macSource.pending
        /\ macSource'.committed = macSource.committed
           /\ macSource'.watermark = macSource.watermark
    BY <2>1, <2>2
  <2> QED
    BY <2>3, <2>4 DEF PT
<1>15. MacReport(s, x)
  BY <1>1, <1>2, <1>3, <1>4, <1>6, <1>10, <1>12, <1>13, <1>14 DEF MacReport
<1>16. MacMakesRoom(s) /\ MacReportTypes
  BY <1>7, <1>8, <1>14 DEF MacMakesRoom, MacReportTypes
<1> QED
  BY <1>6, <1>7, <1>15, <1>16 DEF MacReporting

\* A gap report goes to the head: what is older was taken already.
LEMMA MacEnqueueGapHolds ==
  ASSUME MacTyped, MacPresent, MacShowing, macReader.stage = "show",
         UNCHANGED <<macLog, macPurged, macTick, macDb>>,
         macReader' \in MacReaderTypes, macReader.read <= macReader'.read,
             Mac!EnqueueGap
  PROVE  /\ MacTyped' /\ MacPresent' /\ MacHaveKept /\ MacTakenKept /\ MacLogGrows
         /\ \A f \in MacInLog : MacHeld(f, Len(macSource.queue))
            => MacHeld(f, Len(macSource.queue))'
<1>1. /\ macReader.read \in Nat /\ macReader.wm \in Nat /\ macReader.first \in Nat
         \cup {Mac!NoTime} /\ Mac!NoTime = -1
      /\ macSource.queue \in Seq(MacItem) /\ Len(macSource.queue) \in Nat
  BY MacFields
<1>2. CASE ~(macReader.first > macReader.wm
        /\ ~Mac!Known(Mac!GapId(macReader.wm, macReader.first)))
  <2>1. UNCHANGED <<macSource, macLost>>
    BY <1>2 DEF Mac!EnqueueGap
  <2>2. MacTyped'
    BY <2>1 DEF MacTyped, MacReaderTypes
  <2>3. MacLogGrows
    BY MacSameLog, MacNumbers
  <2>4. MacHaveKept /\ MacTakenKept
    BY <2>1 DEF MacHaveKept, MacTakenKept, MacHave, MacTaken
  <2>5. MacPresent'
    BY <2>1, <2>2, <2>3, <2>4, MacPresentKept
  <2>6. \A f \in MacInLog : MacHeld(f, Len(macSource.queue))
        => MacHeld(f, Len(macSource.queue))'
    BY <2>1 DEF MacHeld, MacTaken, MacHave
  <2> QED
    BY <2>2, <2>3, <2>4, <2>5, <2>6
<1>3. CASE macReader.first > macReader.wm
        /\ ~Mac!Known(Mac!GapId(macReader.wm, macReader.first))
  <2>1. macReader.first \in Nat /\ macReader.first > 0 /\ macReader.first # Mac!NoTime
    BY <1>1, <1>3
  <2>2. PICK from \in Nat, to \in Nat : from = macReader.wm /\ to = macReader.first
        /\ to > 0
    BY <1>1, <2>1
  <2>3. PICK s \in {0, 1}, x \in MacItem : MacReporting(s, x)
    BY <1>3, MacReportGives
  <2>4. PICK n \in Nat : n = Len(macSource.queue)
    BY <1>1
  <2>5. /\ x.of = {} /\ x.id < 0 /\ x.id \in Int /\ x.run = 2 * macReader.read + 1
           /\ x.at = to /\ x.gap = <<from, to>>
        /\ s <= n /\ Len(macSource'.queue) = n - s + 1 /\ macSource'.queue[1] = x
        /\ \A i \in 1..n - s + 1 :
             i # 1 => macSource'.queue[i] = macSource.queue[i - 1 + s]
        /\ macSource'.pending = macSource.pending
        /\ macSource'.committed = macSource.committed
        /\ macSource'.watermark = macSource.watermark
    BY <2>2, <2>3, <2>4, MacCheckpointFields DEF MacReporting, MacReport
  <2>6. MacTyped'
    <3>1. MacReportTypes /\ Len(macSource'.queue) <= QueueMax
      BY <2>3 DEF MacReporting, MacReport
    <3> QED
      BY <3>1 DEF MacTyped, MacReaderTypes, MacReportTypes
  <2>7. MacLogGrows
    BY MacSameLog, MacNumbers
  <2>8. MacHaveKept /\ MacTakenKept
    <3>1. MacHaveKept
      <4>1. MacMakesRoom(s)
        BY <2>3 DEF MacReporting
      <4> QED
        BY <4>1 DEF MacHaveKept, MacHave, MacMakesRoom
    <3> QED
      BY <3>1 DEF MacHaveKept, MacTakenKept, MacTaken
  <2>9. MacGapReal(<<from, to>>)
    <3>1. <<from, to>>[1] = from /\ <<from, to>>[2] = to
      OBVIOUS
    <3>2. MacReached(to) /\ \A e \in MacInLog : from <= macLog[e].at
          /\ macLog[e].at < to => e <= macPurged
      BY <2>1, <2>2 DEF MacShowing
    <3> QED
      BY <2>2, <3>1, <3>2 DEF MacGapReal
  <2>10. MacGapItem(x)
    <3>1. MacReached(to) /\ \A e \in MacInLog : macLog[e].at < to => MacTaken(e)
      BY <2>1, <2>2 DEF MacShowing
    <3>2. \E y \in Nat : x.run = 2 * y + 1
      BY <1>1, <2>5
    <3> QED
      BY <2>2, <2>5, <2>9, <3>1, <3>2 DEF MacGapItem
  <2>11. MacGapItem(x)'
    BY <2>5, <2>6, <2>7, <2>8, <2>10, MacGapItemKept
  <2>12. PICK k \in 1..n - s + 1 : k = 1
    BY <2>4, <2>5
  <2>13. \A i \in 1..n - s + 1 : i # k
         => macSource'.queue[i] = macSource.queue[IF i < k THEN i + s ELSE i - 1 + s]
    <3> SUFFICES ASSUME NEW i \in 1..n - s + 1, i # k
        PROVE macSource'.queue[i] = macSource.queue[IF i < k THEN i + s ELSE i - 1 + s]
      OBVIOUS
    <3>1. ~(i < k)
      BY <2>12
    <3> QED
      BY <2>5, <2>12, <3>1
  <2>14. \A e \in MacInLog : ~(e <= x.id)
    BY <2>5, MacNumbers
  <2>15. MacInserting(n, s, k, x)
    <3>1. \A f \in x.of : k = n - s + 1
          /\ \A j \in 1..n : \A e \in macSource.queue[j].of : e < f
      BY <2>5
    <3>2. \A e \in MacInLog : e <= x.id => k = n - s + 1
          /\ (MacHeld(e, n) \/ e \in x.of)
      BY <2>14
    <3>3. \A p \in Mac!Elements(macSource'.pending) :
            p \in Mac!Elements(macSource.pending)
                \/ (p.id \in MacInLog /\ p.id \in x.of /\ p.run = x.run)
      BY <2>5
    <3>4. Len(macSource'.queue) = n - s + 1 /\ macSource'.queue[k] = x
      BY <2>5, <2>12
    <3>5. /\ macLost'.missed = macLost.missed /\ macLost'.skipped = macLost.skipped
          /\ macLost'.unsaved = macLost.unsaved
          /\ macLost.evicted \subseteq macLost'.evicted
          /\ s = 1 => macSource.queue[1].of \subseteq macLost'.evicted
      BY <2>3 DEF MacReporting, MacMakesRoom
    <3> QED
      BY <2>4, <2>5, <2>6, <2>11, <2>13, <3>1, <3>2, <3>3, <3>4, <3>5 DEF MacInserting
  <2>16. /\ MacPresent' /\ MacHaveKept /\ MacTakenKept /\ MacLogGrows
         /\ \A f \in Mac!Entry : MacHeld(f, n) \/ f \in x.of => MacHeld(f, n - s + 1)'
    BY <2>5, <2>15, MacInserted
  <2>17. ASSUME NEW f \in MacInLog, MacHeld(f, n)
           PROVE MacHeld(f, Len(macSource.queue))'
    <3>1. MacHeld(f, n - s + 1)'
      BY <2>16, <2>17, MacNumbers
    <3> QED
      BY <2>5, <3>1 DEF MacHeld
  <2> QED
    BY <2>4, <2>6, <2>16, <2>17
<1> QED
  BY <1>2, <1>3

\* The end of `log show`.
LEMMA MacEndShowStep ==
  ASSUME MacIInv, Mac!EndShow
  PROVE  MacIInv'
<1>0. MacTyped /\ MacOrdered /\ MacTimed /\ MacPast /\ MacPresent /\ MacShowing
      /\ MacReading
  BY DEF MacIInv
<1>1. /\ macReader.stage = "show" /\ Mac!NextRetained > Len(macLog) /\ Mac!EnqueueGap
      /\ macReader' = [macReader EXCEPT !.stage = "hand", !.read = Len(macLog)]
      /\ UNCHANGED <<macLog, macPurged, macTick, macDb, macFaults>>
  BY DEF Mac!EndShow
<1>2. /\ macReader.read \in Nat /\ Len(macLog) \in Nat /\ macPurged \in Nat
         /\ macReader.wm \in Nat /\ macReader.read <= Len(macLog)
  BY <1>0, MacFields, MacNumbers DEF MacShowing
<1>3. /\ macReader' \in MacReaderTypes /\ macReader'.read = Len(macLog)
         /\ macReader'.wm = macReader.wm /\ macReader'.stage = "hand"
  <2>1. macReader \in MacReaderTypes
    BY <1>0 DEF MacTyped, MacReaderTypes
  <2> QED
    BY <1>1, <1>2, <2>1 DEF MacReaderTypes
<1>4. /\ MacTyped' /\ MacPresent' /\ MacHaveKept /\ MacTakenKept /\ MacLogGrows
      /\ \A f \in MacInLog : MacHeld(f, Len(macSource.queue))
         => MacHeld(f, Len(macSource.queue))'
  BY <1>0, <1>1, <1>2, <1>3, MacEnqueueGapHolds
<1>5. MacOrdered' /\ MacTimed'
  BY <1>0, <1>1, MacOrderKept
<1>6. MacPast'
  BY <1>0, <1>1, <1>4, MacStoredKept, MacRememberingKept, MacBatchKept DEF MacPast
<1>7. MacReading'
  <2> SUFFICES ASSUME NEW f \in MacInLog PROVE MacHeld(f, Len(macSource.queue))'
    BY <1>1 DEF MacReading, MacInLog
  <2>1. f <= macReader.read \/ f <= macPurged
    <3>1. f \in Nat /\ f <= Len(macLog)
      BY <1>2 DEF MacInLog
    <3>2. (IF macReader.read < macPurged THEN macPurged ELSE macReader.read)
          + 1 > Len(macLog)
      BY <1>1 DEF Mac!NextRetained, Mac!Later
    <3> QED
      BY <1>2, <3>1, <3>2
  <2>2. MacHeld(f, Len(macSource.queue))
    <3>1. CASE f <= macReader.read
      BY <1>0, <3>1 DEF MacReading
    <3>2. CASE f <= macPurged
      BY <3>2 DEF MacHeld, MacTaken, MacHave
    <3> QED
      BY <2>1, <3>1, <3>2
  <2> QED
    BY <1>4, <2>2
<1>8. MacShowing'
  <2>1. PICK W \in Nat : W = macReader.wm
    BY <1>2
  <2>2. MacReached(W)'
    BY <1>0, <1>4, <2>1, MacReachedKept DEF MacShowing
  <2> QED
    BY <1>1, <1>2, <1>3, <2>1, <2>2 DEF MacShowing, MacReached
<1> QED
  BY <1>4, <1>5, <1>6, <1>7, <1>8 DEF MacIInv

\* Its failure.
LEMMA MacBreakShowStep ==
  ASSUME MacIInv, Mac!BreakShow
  PROVE  MacIInv'
<1>0. MacTyped /\ MacOrdered /\ MacTimed /\ MacPast /\ MacPresent /\ MacShowing
      /\ MacReading
  BY DEF MacIInv
<1>1. /\ macReader.stage = "show" /\ Mac!EnqueueGap
         /\ macReader' = [macReader EXCEPT !.stage = "hand"]
      /\ UNCHANGED <<macLog, macPurged, macTick, macDb>>
  BY DEF Mac!BreakShow
<1>2. macReader.read \in Nat /\ macReader.wm \in Nat
  BY <1>0, MacFields
<1>3. /\ macReader' \in MacReaderTypes /\ macReader'.read = macReader.read
         /\ macReader'.wm = macReader.wm /\ macReader'.stage = "hand"
  <2>1. macReader \in MacReaderTypes
    BY <1>0 DEF MacTyped, MacReaderTypes
  <2> QED
    BY <1>1, <2>1 DEF MacReaderTypes
<1>4. /\ MacTyped' /\ MacPresent' /\ MacHaveKept /\ MacTakenKept /\ MacLogGrows
      /\ \A f \in MacInLog : MacHeld(f, Len(macSource.queue))
         => MacHeld(f, Len(macSource.queue))'
  BY <1>0, <1>1, <1>2, <1>3, MacEnqueueGapHolds
<1>5. MacOrdered' /\ MacTimed'
  BY <1>0, <1>1, MacOrderKept
<1>6. MacPast'
  BY <1>0, <1>1, <1>4, MacStoredKept, MacRememberingKept, MacBatchKept DEF MacPast
<1>7. MacReading'
  BY <1>0, <1>1, <1>3, <1>4 DEF MacReading, MacInLog
<1>8. MacShowing'
  <2>1. PICK W \in Nat : W = macReader.wm
    BY <1>2
  <2>2. MacReached(W)'
    BY <1>0, <1>4, <2>1, MacReachedKept DEF MacShowing
  <2> QED
    BY <1>0, <1>1, <1>3, <2>1, <2>2 DEF MacShowing, MacReached
<1> QED
  BY <1>4, <1>5, <1>6, <1>7, <1>8 DEF MacIInv
-----------------------------------------------------------------------------
(* Items with an entry in common run are one item.                          *)
LEMMA MacRunsApart ==
  ASSUME MacTyped, MacPresent, NEW i \in 1..Len(macSource.queue),
         NEW j \in 1..Len(macSource.queue),
         macSource.queue[i].run = macSource.queue[j].run, macSource.queue[i].of # {}
  PROVE  i = j
<1>1. MacEntryItem(macSource.queue[i])
  BY DEF MacPresent, MacItems, MacGapItem
<1>2. PICK f \in macSource.queue[i].of : macSource.queue[i].run = 2 * f
      /\ f \in MacInLog
  BY <1>1 DEF MacEntryItem
<1>3. f \in Nat
  BY <1>2, MacNumbers
<1>4. MacEntryItem(macSource.queue[j])
  <2>1. ASSUME MacGapItem(macSource.queue[j]) PROVE FALSE
    <3>1. PICK x \in Nat : macSource.queue[j].run = 2 * x + 1
      BY <2>1 DEF MacGapItem
    <3>2. 2 * f = 2 * x + 1
      BY <1>2, <3>1
    <3> QED
      BY <1>3, <3>2
  <2> QED
    BY <2>1 DEF MacPresent, MacItems
<1>5. PICK g \in macSource.queue[j].of : macSource.queue[j].run = 2 * g
      /\ g \in MacInLog
  BY <1>4 DEF MacEntryItem
<1>6. g \in Nat
  BY <1>5, MacNumbers
<1>7. f = g
  <2>1. 2 * f = 2 * g
    BY <1>2, <1>5
  <2> QED
    BY <1>3, <1>6, <2>1
<1>8. ~(j < i) /\ ~(i < j)
  <2>1. j < i => g < f
    BY <1>2, <1>5 DEF MacPresent, MacInOrder
  <2>2. i < j => f < g
    BY <1>2, <1>5 DEF MacPresent, MacInOrder
  <2> QED
    BY <1>3, <1>6, <1>7, <2>1, <2>2
<1> QED
  BY <1>8

\* The oldest m items.
MacDrained(m) == {macSource.queue[i] : i \in 1..m}

\* What a drain remembers of the drained items they had.
LEMMA MacCandidatesHold ==
  ASSUME MacTyped, MacPresent, NEW m \in Nat, m <= Len(macSource.queue)
  PROVE  /\ Mac!Candidates(MacDrained(m)) \in SUBSET MacCandidate
         /\ \A r \in Mac!Candidates(MacDrained(m)) : r.id > 0 =>
              r.id \in MacInLog
                  /\ (MacTaken(r.id) \/ \E j \in 1..m : r.id \in macSource.queue[j].of)
<1>1. Len(macSource.queue) \in Nat /\ \A i \in 1..m : i \in 1..Len(macSource.queue)
  BY MacFields
<1>2. PICK I : I = MacDrained(m)
  OBVIOUS
<1>3. \A q \in I : \E i \in 1..m : q = macSource.queue[i]
  BY <1>2 DEF MacDrained
<1> DEFINE runs == {q.run : q \in I}
           of(i) == [seq |-> 2 * macSource.pending[i].id, at |->
               macSource.pending[i].at, id |-> macSource.pending[i].id]
           kept == {of(i) : i \in {j \in 1..Len(macSource.pending) : macSource.pending[j].run \in runs}}
           own(q) == [seq |-> q.seq, at |-> q.at, id |-> q.id]
           rest == {own(q) : q \in {p \in I : \A k \in kept : k.id # p.id}}
<1>4. Mac!Candidates(I) = kept \cup rest
  BY DEF Mac!Candidates
<1>5. ASSUME NEW r \in kept
      PROVE  r \in MacCandidate /\ r.id \in MacInLog
             /\ (MacTaken(r.id) \/ \E j \in 1..m : r.id \in macSource.queue[j].of)
  <2>1. PICK i \in 1..Len(macSource.pending) : macSource.pending[i].run \in runs
        /\ r = of(i)
    OBVIOUS
  <2>2. PICK p : p = macSource.pending[i]
    OBVIOUS
  <2>3. p \in Mac!Elements(macSource.pending)
    BY <2>2 DEF Mac!Elements
  <2>4. p \in [run : Int, at : Nat, id : Int]
    <3> DEFINE PT == [run : Int, at : Nat, id : Int]
    <3>1. macSource.pending \in Seq(PT)
      BY MacFields
    <3> HIDE DEF PT
    <3>2. p \in PT
      BY <2>2, <3>1
    <3> QED
      BY <3>2 DEF PT
  <2>5. r = [seq |-> 2 * p.id, at |-> p.at, id |-> p.id] /\ r.id = p.id
    BY <2>1, <2>2
  <2>6. r \in MacCandidate
    BY <2>4, <2>5 DEF MacCandidate
  <2>7. p.id \in MacInLog /\ (p.id \in macLost.evicted
        \/ \E j \in 1..Len(macSource.queue) : p.id \in macSource.queue[j].of
        /\ macSource.queue[j].run = p.run)
    BY <2>3 DEF MacPresent, MacPending
  <2>8. PICK h \in 1..m : macSource.queue[h].run = p.run
    <3>1. PICK q \in I : q.run = p.run
      BY <2>1, <2>2
    <3> QED
      BY <1>3, <3>1
  <2>9. MacTaken(p.id) \/ \E j \in 1..m : p.id \in macSource.queue[j].of
    <3>1. CASE p.id \in macLost.evicted
      BY <3>1 DEF MacTaken, MacHave
    <3>2. CASE \E j \in 1..Len(macSource.queue) : p.id \in macSource.queue[j].of
            /\ macSource.queue[j].run = p.run
      <4>1. PICK j \in 1..Len(macSource.queue) : p.id \in macSource.queue[j].of
            /\ macSource.queue[j].run = p.run
        BY <3>2
      <4>2. j = h
        BY <1>1, <2>8, <4>1, MacRunsApart
      <4> QED
        BY <4>1, <4>2
    <3> QED
      BY <2>7, <3>1, <3>2
  <2> QED
    BY <2>5, <2>6, <2>7, <2>9
<1>6. ASSUME NEW r \in rest
      PROVE  /\ r \in MacCandidate
             /\ r.id > 0 => r.id \in MacInLog
                /\ \E j \in 1..m : r.id \in macSource.queue[j].of
  <2>1. PICK q \in I : r = own(q)
    OBVIOUS
  <2>2. PICK i \in 1..m : q = macSource.queue[i]
    BY <1>3
  <2>3. q \in MacItem /\ (MacGapItem(q) \/ MacEntryItem(q))
    BY <1>1, <2>2, MacFields DEF MacPresent, MacItems
  <2>4. r \in MacCandidate
    BY <2>1, <2>3, MacCheckpointFields DEF MacCandidate
  <2>5. r.id = q.id /\ q.id \in Int
    BY <2>1, <2>3, MacCheckpointFields
  <2>6. q.id > 0 => q.id \in MacInLog /\ q.id \in q.of
    BY <2>3, <2>5 DEF MacGapItem, MacEntryItem
  <2> QED
    BY <2>2, <2>4, <2>5, <2>6
<1> HIDE DEF kept, rest
<1> QED
  BY <1>2, <1>4, <1>5, <1>6

(* The watermark after a drain: of an item, or what it was.                 *)
LEMMA MacWatermarkHolds ==
  ASSUME MacTyped, MacOrdered, MacPresent, NEW m \in Nat, m <= Len(macSource.queue)
  PROVE  LET w == Mac!Watermark(MacDrained(m))
         IN  /\ w \in Nat
             /\ w = macSource.watermark \/ \E i \in 1..m : w = macSource.queue[i].at
             /\ \A i \in 1..m : macSource.queue[i].at <= w
             /\ macSource.watermark <= w
<1>1. Len(macSource.queue) \in Nat /\ (\A i \in 1..m : i \in 1..Len(macSource.queue))
      /\ macSource.watermark \in Nat
  BY MacFields
<1> DEFINE times == {macSource.watermark} \cup {q.at : q \in MacDrained(m)}
           max == CHOOSE t \in times : \A u \in times : u <= t
<1>2. PICK w : w = Mac!Watermark(MacDrained(m))
  OBVIOUS
<1>3. w = max
  BY <1>2 DEF Mac!Watermark, Mac!Newest
<1>4. \A t \in times : t = macSource.watermark
      \/ \E i \in 1..m : t = macSource.queue[i].at
  BY DEF MacDrained
<1>5. macSource.watermark \in times /\ \A i \in 1..m : macSource.queue[i].at \in times
  BY DEF MacDrained
<1> HIDE DEF times
<1>6. \A t \in times : t \in Nat /\ MacReached(t)
  <2> SUFFICES ASSUME NEW t \in times PROVE t \in Nat /\ MacReached(t)
    OBVIOUS
  <2>1. CASE t = macSource.watermark
    BY <1>1, <2>1 DEF MacPresent, MacSource, MacTakenBefore
  <2>2. CASE \E i \in 1..m : t = macSource.queue[i].at
    <3>1. PICK i \in 1..Len(macSource.queue) : t = macSource.queue[i].at
      BY <1>1, <2>2
    <3>2. macSource.queue[i] \in MacItem
      BY MacFields
    <3>3. t \in Nat
      BY <3>1, <3>2, MacCheckpointFields
    <3>4. CASE MacGapItem(macSource.queue[i])
      BY <3>1, <3>3, <3>4 DEF MacGapItem
    <3>5. CASE MacEntryItem(macSource.queue[i])
      <4>1. macSource.queue[i].id \in MacInLog /\ t = macLog[macSource.queue[i].id].at
        BY <3>1, <3>5 DEF MacEntryItem
      <4>2. \E f \in MacInLog : t <= macLog[f].at
        BY <3>3, <4>1
      <4> QED
        BY <3>3, <4>2 DEF MacReached
    <3> QED
      BY <3>4, <3>5 DEF MacPresent, MacItems
  <2> QED
    BY <1>4, <2>1, <2>2
<1>7. PICK b \in Int : \A t \in times : t <= b
  <2>1. CASE MacInLog = {}
    BY <1>6, <2>1 DEF MacReached
  <2>2. CASE MacInLog # {}
    <3>1. Len(macLog) \in MacInLog
      BY <2>2, MacNumbers DEF MacInLog
    <3>2. PICK b \in Nat : b = macLog[Len(macLog)].at
      BY <3>1, MacNumbers
    <3>3. \A f \in MacInLog : macLog[f].at \in Nat /\ macLog[f].at <= b
      <4>1. \A f \in MacInLog : f <= Len(macLog)
        BY DEF MacInLog
      <4> QED
        BY <3>1, <3>2, <4>1, MacNumbers DEF MacOrdered
    <3>4. ASSUME NEW t \in times PROVE t <= b
      <4>1. t \in Nat /\ (t = 0 \/ \E f \in MacInLog : t <= macLog[f].at)
        BY <1>6 DEF MacReached
      <4> QED
        BY <3>3, <4>1
    <3> QED
      BY <3>4
  <2> QED
    BY <2>1, <2>2
<1>8. \E t \in times : \A u \in times : u <= t
  <2>1. times \in SUBSET Int /\ times # {}
    BY <1>5, <1>6
  <2> QED
    BY <1>7, <2>1, GreatestExists
<1>9. w \in times /\ \A u \in times : u <= w
  BY <1>3, <1>8
<1>10. /\ w \in Nat
       /\ w = macSource.watermark \/ \E i \in 1..m : w = macSource.queue[i].at
       /\ \A i \in 1..m : macSource.queue[i].at <= w
       /\ macSource.watermark <= w
  BY <1>4, <1>5, <1>6, <1>9
<1> QED
  BY <1>2, <1>10
-----------------------------------------------------------------------------
\* A drain of nothing.
LEMMA MacEmptyDrainStep ==
  ASSUME MacIInv, macTick.stage = "drain",
         macTick' = [macTick EXCEPT !.stage = "commit"],
         UNCHANGED <<macSource, macLog, macPurged, macReader, macDb, macLost>>
  PROVE  MacIInv'
<1>0. MacTyped /\ MacOrdered /\ MacTimed /\ MacPast /\ MacPresent /\ MacShowing
      /\ MacReading
  BY DEF MacIInv
<1>2. /\ macTick' \in [stage : {"supervise", "drain", "commit"}, last : MacCheckpoint,
                 batch : [of : SUBSET Mac!Entry, gaps : SUBSET Seq(Nat),
                     cursor : MacCheckpoint]]
      /\ macTick'.last = macTick.last /\ macTick'.batch = macTick.batch
  <2>1. macTick \in [stage : {"supervise", "drain", "commit"}, last : MacCheckpoint,
                 batch : [of : SUBSET Mac!Entry, gaps : SUBSET Seq(Nat),
                     cursor : MacCheckpoint]]
    BY <1>0 DEF MacTyped
  <2> DEFINE B == [of : SUBSET Mac!Entry, gaps : SUBSET Seq(Nat),
      cursor : MacCheckpoint]
  <2> HIDE DEF B
  <2>2. macTick \in [stage : {"supervise", "drain", "commit"}, last : MacCheckpoint,
        batch : B]
    BY <2>1 DEF B
  <2>4. macTick' \in [stage : {"supervise", "drain", "commit"}, last : MacCheckpoint,
        batch : B]
    BY <2>2
  <2>5. macTick'.last = macTick.last /\ macTick'.batch = macTick.batch
    BY <2>2
  <2> QED
    BY <2>4, <2>5 DEF B
<1>3. MacTyped'
  BY <1>0, <1>2 DEF MacTyped
<1>4. MacLogGrows
  BY <1>0, MacSameLog, MacNumbers
<1>5. MacHaveKept /\ MacTakenKept
  BY <1>2 DEF MacHaveKept, MacTakenKept, MacHave, MacTaken
<1>6. MacOrdered' /\ MacTimed'
  BY <1>0, MacOrderKept
<1>7. MacPast'
  <2>1. MacStored' /\ MacRemembering'
    BY <1>0, <1>2, <1>3, <1>4, <1>5, MacStoredKept, MacRememberingKept DEF MacPast
  <2>2. macTick'.batch = Mac!Nothing
    BY <1>0, <1>2 DEF MacPast, MacBatch
  <2>3. MacBatch'
    BY <2>2 DEF MacBatch, Mac!Nothing
  <2> QED
    BY <2>1, <2>3 DEF MacPast
<1>8. MacPresent' /\ MacShowing' /\ MacReading'
  <2>r. macReader.read <= macReader'.read
    <3>1. macReader.read \in Nat
      BY <1>0, MacFields
    <3>2. macReader' = macReader
      OBVIOUS
    <3> QED
      BY <3>1, <3>2
  <2>l. macLost.evicted \subseteq macLost'.evicted
    OBVIOUS
  <2> QED
    BY <1>0, <1>3, <1>4, <1>5, <2>r, <2>l, MacPresentKept, MacShowingKept,
       MacReadingKept
<1> QED
  BY <1>3, <1>6, <1>7, <1>8 DEF MacIInv

\* What a drain of the first m items writes.
MacDraining(m, w, C, c, of, gaps) ==
  /\ w = Mac!Watermark(MacDrained(m))
  /\ C = Mac!Remembered(macSource.committed, Mac!Candidates(MacDrained(m)))
  /\ c = Mac!Encoded(w, C)
  /\ of = UNION {q.of : q \in MacDrained(m)}
  /\ gaps = {q.gap : q \in MacDrained(m)} \ {<<>>}
  /\ macSource' = [queue |-> SubSeq(macSource.queue, m + 1, Len(macSource.queue)),
                pending |-> Mac!Kept(macSource.pending,
                    {p \in Mac!Elements(macSource.pending) : p.run \notin {q.run : q \in MacDrained(m)}}),
                committed |-> C, watermark |-> w]
  /\ macTick' = [stage |-> "commit", last |-> c, batch |->
     [of |-> of, gaps |-> gaps, cursor |-> c]]

\* A drain takes nothing, or the first m items.
LEMMA MacDrainCases ==
  ASSUME MacTyped, Mac!Drain
  PROVE  \/ macTick' = [macTick EXCEPT !.stage = "commit"] /\ UNCHANGED macSource
         \/ \E m \in 1..Len(macSource.queue) : \E w, C, c, of,
            gaps : MacDraining(m, w, C, c, of, gaps)
<1>1. PICK m : m = Mac!Fewer(Len(macSource.queue), DrainBudget)
  OBVIOUS
<1>2. m \in Nat /\ m <= Len(macSource.queue) /\ Len(macSource.queue) \in Nat
  BY <1>1, MacFields DEF Mac!Fewer
<1>3. CASE m = 0
  BY <1>1, <1>3 DEF Mac!Drain
<1>4. CASE m # 0
  <2>1. m \in 1..Len(macSource.queue)
    BY <1>2, <1>4
  <2> DEFINE w == Mac!Watermark(MacDrained(m))
             C == Mac!Remembered(macSource.committed, Mac!Candidates(MacDrained(m)))
             c == Mac!Encoded(w, C)
             of == UNION {q.of : q \in MacDrained(m)}
             gaps == {q.gap : q \in MacDrained(m)} \ {<<>>}
  <2>2. MacDraining(m, w, C, c, of, gaps)
    BY <1>1, <1>4 DEF Mac!Drain, MacDraining, MacDrained
  <2> QED
    BY <2>1, <2>2
<1> QED
  BY <1>3, <1>4

\* The types after it.
LEMMA MacDrainedTypes ==
  ASSUME MacTyped, MacOrdered, MacPresent, UNCHANGED <<macLog, macPurged, macReader,
         macDb, macLost>>,
         NEW m \in 1..Len(macSource.queue), NEW w, NEW C, NEW c, NEW of, NEW gaps,
             MacDraining(m, w, C, c, of, gaps)
  PROVE  /\ MacTyped' /\ w \in Nat /\ C \in Seq(MacPlace) /\ c \in MacCheckpoint
            /\ c.wm = w /\ c.ids \in Seq(MacPlace)
         /\ \A y \in Mac!Elements(c.ids) : y \in Mac!Elements(C)
         /\ of \in SUBSET Mac!Entry /\ gaps \in SUBSET Seq(Nat)
         /\ macTick'.stage = "commit" /\ macTick'.last = c /\ macTick'.batch.of = of
            /\ macTick'.batch.gaps = gaps /\ macTick'.batch.cursor = c
         /\ macSource'.committed = C /\ macSource'.watermark = w
         /\ Len(macSource'.queue) = Len(macSource.queue) - m
         /\ \A i \in 1..Len(macSource.queue) - m : macSource'.queue[i] = macSource.queue[i + m]
         /\ \A p \in Mac!Elements(macSource'.pending) : p \in Mac!Elements(macSource.pending) /\ \A i \in 1..m : p.run # macSource.queue[i].run
<1>1. m \in Nat /\ m <= Len(macSource.queue) /\ m >= 1 /\ Len(macSource.queue) \in Nat
      /\ Len(macSource.queue) <= QueueMax
  BY MacFields
<1>2. w \in Nat
  BY <1>1, MacWatermarkHolds DEF MacDraining
<1>3. PICK K \in Seq(MacPlace) : K = macSource.committed
  BY MacFields
<1>4. PICK R \in SUBSET MacCandidate : R = Mac!Candidates(MacDrained(m))
  BY <1>1, MacCandidatesHold
<1>5. C \in Seq(MacPlace)
  BY <1>3, <1>4, MacRememberedHolds DEF MacDraining
<1>6. PICK S : c = [wm |-> w, ids |-> Mac!Kept(C, S)]
  BY DEF MacDraining, Mac!Encoded
<1>7. Mac!Kept(C, S) \in Seq(MacPlace)
      /\ \A y \in Mac!Elements(Mac!Kept(C, S)) : y \in Mac!Elements(C)
  BY <1>5, MacKeptHolds
<1>8. c \in MacCheckpoint /\ c.wm = w /\ c.ids \in Seq(MacPlace)
      /\ \A y \in Mac!Elements(c.ids) : y \in Mac!Elements(C)
  <2> DEFINE D == Seq(MacPlace)
  <2>1. PICK k : k = Mac!Kept(C, S)
    OBVIOUS
  <2>2. k \in D /\ \A y \in Mac!Elements(k) : y \in Mac!Elements(C)
    BY <1>7, <2>1
  <2> HIDE DEF D
  <2>3. c \in [wm : Nat, ids : D] /\ c.wm = w /\ c.ids = k
    BY <1>2, <1>6, <2>1, <2>2
  <2> QED
    BY <2>2, <2>3 DEF MacCheckpoint, D
<1>9. \A q \in MacDrained(m) : q \in MacItem
  BY <1>1, MacFields DEF MacDrained
<1>10. of \in SUBSET Mac!Entry /\ gaps \in SUBSET Seq(Nat)
  BY <1>9, MacCheckpointFields DEF MacDraining
<1>11. PICK Q \in Seq(MacItem) : Q = macSource.queue
  BY MacFields
<1>12. PICK Q2 : Q2 = SubSeq(Q, m + 1, Len(Q))
  OBVIOUS
<1>13. Q2 \in Seq(MacItem) /\ Len(Q2) = Len(Q) - m
       /\ \A i \in 1..Len(Q) - m : Q2[i] = Q[i + m]
  <2>1. Len(Q) \in Nat /\ m + 1 \in 1..Len(Q) + 1 /\ Len(Q) \in m .. Len(Q)
    BY <1>1, <1>11
  <2>2. /\ SubSeq(Q, m + 1, Len(Q)) \in Seq(MacItem)
        /\ Len(SubSeq(Q, m + 1, Len(Q))) = (IF m + 1 <= Len(Q) THEN Len(Q) - (m + 1)
           + 1 ELSE 0)
        /\ \A i \in 1 .. Len(Q) - (m + 1)
           + 1 : SubSeq(Q, m + 1, Len(Q))[i] = Q[m + 1 + i - 1]
    BY <2>1, SubSeqProperties
  <2>3. Len(Q2) = Len(Q) - m
    BY <1>12, <1>1, <1>11, <2>1, <2>2
  <2>4. ASSUME NEW i \in 1..Len(Q) - m PROVE Q2[i] = Q[i + m]
    <3>1. i \in 1..Len(Q) - (m + 1) + 1 /\ m + 1 + i - 1 = i + m
      BY <1>1, <2>1
    <3> QED
      BY <1>12, <2>2, <3>1
  <2> QED
    BY <1>12, <2>2, <2>3, <2>4
<1> DEFINE PT == [run : Int, at : Nat, id : Int]
<1>14. PICK P \in Seq(PT) : P = macSource.pending
  BY MacFields
<1> HIDE DEF PT
<1>15. PICK S2 : S2 = {p \in Mac!Elements(macSource.pending) : p.run \notin {q.run : q \in MacDrained(m)}}
  OBVIOUS
<1>16. PICK P2 : P2 = Mac!Kept(P, S2)
  OBVIOUS
<1>17. P2 \in Seq(PT) /\ \A p \in Mac!Elements(P2) : p \in Mac!Elements(P) /\ p \in S2
  BY <1>16, MacKeptHolds
<1>18. macSource' = [queue |-> Q2, pending |-> P2, committed |-> C, watermark |-> w]
  BY <1>11, <1>12, <1>14, <1>15, <1>16 DEF MacDraining
<1>19. /\ macSource' \in [queue : Seq(MacItem), pending : Seq(PT),
          committed : Seq(MacPlace), watermark : Nat]
       /\ macSource'.queue = Q2 /\ macSource'.pending = P2 /\ macSource'.committed = C
          /\ macSource'.watermark = w
  <2> DEFINE SQ == Seq(MacItem)  SP == Seq(PT)  SC == Seq(MacPlace)
  <2>1. Q2 \in SQ /\ P2 \in SP /\ C \in SC
    BY <1>5, <1>13, <1>17
  <2> HIDE DEF SQ, SP, SC
  <2>2. macSource' \in [queue : SQ, pending : SP, committed : SC, watermark : Nat]
    BY <1>2, <1>18, <2>1
  <2> QED
    BY <1>18, <2>2 DEF SQ, SP, SC
<1>20. macTick' = [stage |-> "commit", last |-> c, batch |->
       [of |-> of, gaps |-> gaps, cursor |-> c]]
  BY DEF MacDraining
<1>21. /\ macTick'.stage = "commit" /\ macTick'.last = c /\ macTick'.batch.of = of
          /\ macTick'.batch.gaps = gaps /\ macTick'.batch.cursor = c
       /\ macTick' \in [stage : {"supervise", "drain", "commit"}, last : MacCheckpoint,
                 batch : [of : SUBSET Mac!Entry, gaps : SUBSET Seq(Nat),
                     cursor : MacCheckpoint]]
  <2> DEFINE O == SUBSET Mac!Entry  G == SUBSET Seq(Nat)
  <2>1. of \in O /\ gaps \in G
    BY <1>10
  <2> HIDE DEF O, G
  <2>2. PICK b : b = [of |-> of, gaps |-> gaps, cursor |-> c]
    OBVIOUS
  <2>3. b \in [of : O, gaps : G, cursor : MacCheckpoint] /\ b.of = of /\ b.gaps = gaps
        /\ b.cursor = c
    BY <1>8, <2>1, <2>2
  <2>4. macTick' = [stage |-> "commit", last |-> c, batch |-> b]
    BY <1>20, <2>2
  <2> DEFINE B == [of : O, gaps : G, cursor : MacCheckpoint]
  <2>5. b \in B
    BY <2>3
  <2> HIDE DEF B
  <2>6. macTick' \in [stage : {"supervise", "drain", "commit"}, last : MacCheckpoint,
        batch : B]
    BY <1>8, <2>4, <2>5
  <2>7. macTick'.stage = "commit" /\ macTick'.last = c /\ macTick'.batch = b
    BY <2>4
  <2> QED
    BY <2>3, <2>6, <2>7 DEF B, O, G
<1>22. MacTyped'
  <2>1. Len(macSource'.queue) <= QueueMax
    BY <1>1, <1>11, <1>13, <1>19
  <2>2. macSource' \in [queue : Seq(MacItem),
        pending : Seq([run : Int, at : Nat, id : Int]), committed : Seq(MacPlace),
        watermark : Nat]
    BY <1>19 DEF PT
  <2> QED
    BY <1>21, <2>1, <2>2 DEF MacTyped
<1>23. \A p \in Mac!Elements(macSource'.pending) : p \in Mac!Elements(macSource.pending) /\ \A i \in 1..m : p.run # macSource.queue[i].run
  <2>1. \A i \in 1..m : macSource.queue[i] \in MacDrained(m)
    BY DEF MacDrained
  <2> QED
    BY <1>14, <1>15, <1>17, <1>19, <2>1
<1>24. /\ Len(macSource'.queue) = Len(macSource.queue) - m
       /\ \A i \in 1..Len(macSource.queue) - m : macSource'.queue[i] = macSource.queue[i + m]
  BY <1>11, <1>13, <1>19
<1> QED
  BY <1>2, <1>5, <1>8, <1>10, <1>19, <1>21, <1>22, <1>23, <1>24
-----------------------------------------------------------------------------
\* The items it takes are in the batch, and what they cover with them.
LEMMA MacFullDrainStep ==
  ASSUME MacIInv, macTick.stage = "drain", UNCHANGED <<macLog, macPurged, macReader,
         macDb, macLost>>,
         NEW m \in 1..Len(macSource.queue), NEW w, NEW C, NEW c, NEW of, NEW gaps,
             MacDraining(m, w, C, c, of, gaps)
  PROVE  MacIInv'
<1>0. MacTyped /\ MacOrdered /\ MacTimed /\ MacPast /\ MacPresent /\ MacShowing
      /\ MacReading
  BY DEF MacIInv
<1>1. /\ MacTyped' /\ w \in Nat /\ C \in Seq(MacPlace) /\ c \in MacCheckpoint
         /\ c.wm = w /\ c.ids \in Seq(MacPlace)
      /\ \A y \in Mac!Elements(c.ids) : y \in Mac!Elements(C)
      /\ of \in SUBSET Mac!Entry /\ gaps \in SUBSET Seq(Nat)
      /\ macTick'.stage = "commit" /\ macTick'.last = c /\ macTick'.batch.of = of
         /\ macTick'.batch.gaps = gaps /\ macTick'.batch.cursor = c
      /\ macSource'.committed = C /\ macSource'.watermark = w
      /\ Len(macSource'.queue) = Len(macSource.queue) - m
      /\ \A i \in 1..Len(macSource.queue) - m : macSource'.queue[i] = macSource.queue[i + m]
      /\ \A p \in Mac!Elements(macSource'.pending) : p \in Mac!Elements(macSource.pending) /\ \A i \in 1..m : p.run # macSource.queue[i].run
  BY <1>0, MacDrainedTypes
<1>2. PICK n \in Nat : n = Len(macSource.queue) /\ m \in Nat /\ m >= 1 /\ m <= n
  BY <1>0, MacFields
<1>3. \A i \in 1..n : macSource.queue[i] \in MacItem
      /\ (MacGapItem(macSource.queue[i]) \/ MacEntryItem(macSource.queue[i]))
  BY <1>0, <1>2, MacFields DEF MacPresent, MacItems
<1>4. \A e \in MacInLog : e \in Nat /\ e >= 1 /\ e \in Mac!Entry /\ macLog[e].at \in Nat
  BY <1>0, MacNumbers
<1>5. /\ \A i \in 1..m : i \in 1..n
      /\ \A e \in Mac!Entry : e \in of <=> \E i \in 1..m : e \in macSource.queue[i].of
      /\ \A g \in gaps : g # <<>> /\ \E i \in 1..m : g = macSource.queue[i].gap
  BY <1>2 DEF MacDraining, MacDrained
<1>6. MacLogGrows
  BY <1>0, MacSameLog, MacNumbers
<1>7. MacHaveKept
  BY DEF MacHaveKept, MacHave
<1>8. macTick.batch = Mac!Nothing /\ macTick.batch.of = {}
  BY <1>0 DEF MacPast, MacBatch, Mac!Nothing
<1>9. MacTakenKept
  BY <1>7, <1>8 DEF MacTakenKept, MacHaveKept, MacTaken
<1>10. \A e \in Mac!Entry : e \in of => MacTaken(e)'
  BY <1>1 DEF MacTaken
<1>11. MacOrdered' /\ MacTimed'
  BY <1>0, MacOrderKept
<1>12. ASSUME NEW e \in Mac!Entry, NEW i \in 1..m, MacHeld(e, i) PROVE MacTaken(e)'
  <2>1. CASE MacTaken(e)
    BY <1>9, <2>1 DEF MacTakenKept
  <2>2. CASE \E j \in 1..i : e \in macSource.queue[j].of
    <3>1. \A j \in 1..i : j \in 1..m
      BY <1>2
    <3> QED
      BY <1>5, <1>10, <2>2, <3>1
  <2> QED
    BY <1>12, <2>1, <2>2 DEF MacHeld
<1>13. ASSUME NEW e \in Mac!Entry, NEW i \in Nat, i <= n - m, MacHeld(e, i + m)
         PROVE MacHeld(e, i)'
  <2>1. CASE MacTaken(e)
    BY <1>9, <2>1 DEF MacHeld, MacTakenKept
  <2>2. CASE \E j \in 1..i + m : e \in macSource.queue[j].of
    <3>1. PICK j \in 1..i + m : e \in macSource.queue[j].of
      BY <2>2
    <3>2. CASE j <= m
      <4>1. j \in 1..m
        BY <3>2
      <4> QED
        BY <1>5, <1>10, <3>1, <4>1 DEF MacHeld
    <3>3. CASE j > m
      <4>1. PICK k \in 1..i : k = j - m
        BY <1>2, <3>3
      <4>2. k \in 1..n - m /\ k + m = j
        BY <1>2, <1>13, <4>1
      <4>3. e \in macSource'.queue[k].of
        BY <1>1, <1>2, <3>1, <4>2
      <4> QED
        BY <4>3 DEF MacHeld
    <3> QED
      BY <1>2, <3>2, <3>3
  <2> QED
    BY <1>13, <2>1, <2>2 DEF MacHeld
\* The watermark.
<1>14. /\ w = macSource.watermark \/ \E i \in 1..m : w = macSource.queue[i].at
       /\ \A i \in 1..m : macSource.queue[i].at <= w
  BY <1>0, <1>2, MacWatermarkHolds DEF MacDraining
<1>15. w > 0
  <2>1. 1 \in 1..m /\ 1 \in 1..n
    BY <1>2
  <2>2. macSource.queue[1].at \in Nat /\ macSource.queue[1].at > 0
    <3>1. macSource.queue[1] \in MacItem
          /\ (MacGapItem(macSource.queue[1]) \/ MacEntryItem(macSource.queue[1]))
      BY <1>3, <2>1
    <3> QED
      BY <1>0, <3>1, MacCheckpointFields DEF MacGapItem, MacEntryItem, MacTimed
  <2>3. macSource.queue[1].at <= w
    BY <1>14, <2>1
  <2> QED
    BY <1>1, <2>2, <2>3
<1>16. MacReached(w) /\ \A e \in MacInLog : macLog[e].at < Mac!ReplayFrom(w)
       => MacTaken(e)'
  <2>1. CASE w = macSource.watermark
    BY <1>0, <1>4, <1>9, <2>1 DEF MacPresent, MacSource, MacTakenBefore, MacTakenKept
  <2>2. CASE \E i \in 1..m : w = macSource.queue[i].at
    <3>1. PICK i \in 1..m : w = macSource.queue[i].at
      BY <2>2
    <3>2. i \in 1..n
      BY <1>5
    <3>3. Mac!ReplayFrom(w) \in Nat /\ Mac!ReplayFrom(w) <= w
      BY <1>1, MacReplayFromBelow
    <3>4. CASE MacGapItem(macSource.queue[i])
      <4>1. MacReached(w) /\ \A e \in MacInLog : macLog[e].at < w => MacTaken(e)
        BY <3>1, <3>4 DEF MacGapItem
      <4>2. ASSUME NEW e \in MacInLog, macLog[e].at < Mac!ReplayFrom(w)
              PROVE MacTaken(e)'
        <5>1. macLog[e].at < w
          BY <1>1, <1>4, <3>3, <4>2
        <5> QED
          BY <1>4, <1>9, <4>1, <5>1 DEF MacTakenKept
      <4> QED
        BY <4>1, <4>2
    <3>5. CASE MacEntryItem(macSource.queue[i])
      <4>1. PICK f \in MacInLog : f = macSource.queue[i].id /\ w = macLog[f].at
        BY <3>1, <3>5 DEF MacEntryItem
      <4>2. MacReached(w)
        BY <1>4, <4>1 DEF MacReached
      <4>3. ASSUME NEW e \in MacInLog, macLog[e].at < Mac!ReplayFrom(w)
              PROVE MacTaken(e)'
        <5>0. macLog[e].at \in Nat
          BY <1>0, MacNumbers
        <5>1. macLog[e].at < macLog[f].at
          BY <1>1, <3>3, <4>1, <4>3, <5>0
        <5>2. f <= e => macLog[f].at <= macLog[e].at
          BY <1>0, <4>1 DEF MacOrdered
        <5>3. e <= f
          BY <1>4, <4>1, <5>1, <5>2
        <5>4. MacHeld(e, i)
          BY <1>0, <1>2, <3>2, <4>1, <5>3 DEF MacPresent, MacQueueCovers
        <5> QED
          BY <1>4, <1>12, <5>4
      <4> QED
        BY <4>2, <4>3
    <3> QED
      BY <1>3, <3>2, <3>4, <3>5
  <2> QED
    BY <1>14, <2>1, <2>2
<1>17. \A y \in Mac!Elements(C) : y.id > 0 => y.id \in MacInLog /\ MacTaken(y.id)'
  <2> SUFFICES ASSUME NEW y \in Mac!Elements(C), y.id > 0
      PROVE y.id \in MacInLog /\ MacTaken(y.id)'
    OBVIOUS
  <2>1. PICK K \in Seq(MacPlace) : K = macSource.committed
    BY <1>0, MacFields
  <2>2. PICK R \in SUBSET MacCandidate : R = Mac!Candidates(MacDrained(m))
    BY <1>0, <1>2, MacCandidatesHold
  <2>3. y \in Mac!Elements(K) \/ \E r \in R : y = MacAsPlace(r)
    BY <2>1, <2>2, MacRememberedHolds DEF MacDraining
  <2>4. CASE y \in Mac!Elements(K)
    <3>1. y.id \in MacInLog /\ MacTaken(y.id)
      BY <1>0, <2>1, <2>4 DEF MacPresent, MacSource, MacTakenIds
    <3> QED
      BY <1>4, <1>9, <3>1 DEF MacTakenKept
  <2>5. CASE \E r \in R : y = MacAsPlace(r)
    <3>1. PICK r \in R : y = MacAsPlace(r)
      BY <2>5
    <3>2. y.id = r.id
      BY <3>1 DEF MacAsPlace
    <3>3. r.id \in MacInLog /\ (MacTaken(r.id)
          \/ \E j \in 1..m : r.id \in macSource.queue[j].of)
      BY <1>0, <1>2, <2>2, <3>2, MacCandidatesHold
    <3>4. MacTaken(r.id)'
      BY <1>4, <1>5, <1>9, <1>10, <3>3 DEF MacTakenKept
    <3> QED
      BY <3>2, <3>3, <3>4
  <2> QED
    BY <2>3, <2>4, <2>5
<1>18. MacTakenBefore(w)' /\ MacTakenIds(C)' /\ MacTakenIds(c.ids)'
  <2>1. MacTakenBefore(w)'
    BY <1>16 DEF MacTakenBefore, MacReached, MacInLog, Mac!ReplayFrom
  <2>2. MacTakenIds(C)'
    BY <1>17 DEF MacTakenIds, MacInLog
  <2>3. MacTakenIds(c.ids)'
    BY <1>1, <1>17 DEF MacTakenIds, MacInLog
  <2> QED
    BY <2>1, <2>2, <2>3
\* What is past.
<1>19. MacStored'
  BY <1>0, <1>1, <1>6, <1>7, MacStoredKept DEF MacPast
<1>20. MacRemembering'
  BY <1>1, <1>18 DEF MacRemembering, MacTakenBefore, MacTakenIds
<1>21. \A g \in gaps : MacGapReal(g)'
  <2> SUFFICES ASSUME NEW g \in gaps PROVE MacGapReal(g)'
    OBVIOUS
  <2>1. PICK i \in 1..m : g = macSource.queue[i].gap /\ g # <<>>
    BY <1>5
  <2>2. MacGapItem(macSource.queue[i])
    BY <1>3, <1>5, <2>1 DEF MacEntryItem
  <2>3. MacGapReal(g) /\ g \in Seq(Nat)
    BY <1>1, <2>1, <2>2 DEF MacGapItem
  <2> QED
    BY <1>0, <1>1, <1>6, <2>3, MacGapsKept
<1>22. of \subseteq MacInLog
  <2> SUFFICES ASSUME NEW e \in of PROVE e \in MacInLog
    OBVIOUS
  <2>1. PICK i \in 1..m : e \in macSource.queue[i].of
    BY <1>1, <1>5
  <2>2. MacEntryItem(macSource.queue[i])
    BY <1>3, <1>5, <2>1 DEF MacGapItem
  <2> QED
    BY <2>1, <2>2 DEF MacEntryItem
<1>23. MacBatch'
  BY <1>1, <1>15, <1>21, <1>22 DEF MacBatch, MacInLog, MacGapReal
\* What is present.
<1>24. MacSource'
  BY <1>1, <1>18 DEF MacSource, MacTakenBefore, MacTakenIds
<1>25. \A i \in 1..n - m : i \in Nat /\ i <= n - m /\ i + m \in 1..n
       /\ macSource'.queue[i] = macSource.queue[i + m]
  <2> SUFFICES ASSUME NEW i \in 1..n - m
      PROVE i \in Nat /\ i <= n - m /\ i + m \in 1..n
      /\ macSource'.queue[i] = macSource.queue[i + m]
    OBVIOUS
  <2>1. macSource'.queue[i] = macSource.queue[i + m]
    BY <1>1, <1>2
  <2> QED
    BY <1>2, <2>1
<1>26. Len(macSource'.queue) = n - m /\ n - m \in Nat
  BY <1>1, <1>2
<1>27. MacItems'
  <2> SUFFICES ASSUME NEW i \in 1..n - m
      PROVE MacGapItem(macSource.queue[i])' \/ MacEntryItem(macSource.queue[i])'
    BY <1>26 DEF MacItems
  <2>1. PICK q \in MacItem : q = macSource'.queue[i]
        /\ (MacGapItem(q) \/ MacEntryItem(q))
    BY <1>3, <1>25
  <2>2. macReader.read <= macReader'.read
    BY <1>0, MacFields
  <2>3. MacGapItem(q)' \/ MacEntryItem(q)'
    BY <1>0, <1>1, <1>6, <1>9, <2>1, <2>2, MacGapItemKept, MacEntryItemKept
  <2> QED
    BY <2>1, <2>3 DEF MacGapItem, MacEntryItem, MacGapReal
<1>28. MacInOrder'
  <2> SUFFICES ASSUME NEW i \in 1..n - m, NEW j \in 1..n - m, j < i,
                      NEW g \in macSource'.queue[j].of, NEW f \in macSource'.queue[i].of
               PROVE  g < f
    BY <1>26 DEF MacInOrder
  <2>1. g \in macSource.queue[j + m].of /\ f \in macSource.queue[i + m].of /\ j
        + m < i + m
    BY <1>2, <1>25
  <2>2. j + m \in 1..n /\ i + m \in 1..n
    BY <1>25
  <2> QED
    BY <1>0, <1>2, <2>1, <2>2 DEF MacPresent, MacInOrder
<1>29. MacQueueCovers'
  <2> SUFFICES ASSUME NEW i \in 1..n - m, NEW e \in MacInLog,
      e <= macSource'.queue[i].id PROVE MacHeld(e, i)'
    BY <1>26 DEF MacQueueCovers, MacInLog
  <2>1. MacHeld(e, i + m)
    BY <1>0, <1>2, <1>25 DEF MacPresent, MacQueueCovers
  <2> QED
    BY <1>4, <1>13, <1>25, <2>1
<1>30. MacPending'
  <2> SUFFICES ASSUME NEW p \in Mac!Elements(macSource'.pending)
               PROVE  /\ p.id \in MacInLog
                      /\ p.id \in macLost.evicted
                         \/ \E i \in 1..n - m : p.id \in macSource'.queue[i].of
                         /\ macSource'.queue[i].run = p.run
    BY <1>26 DEF MacPending, MacInLog
  <2>1. p \in Mac!Elements(macSource.pending)
        /\ \A i \in 1..m : p.run # macSource.queue[i].run
    BY <1>1
  <2>2. p.id \in MacInLog /\ (p.id \in macLost.evicted
        \/ \E i \in 1..n : p.id \in macSource.queue[i].of
        /\ macSource.queue[i].run = p.run)
    BY <1>0, <1>2, <2>1 DEF MacPresent, MacPending
  <2>3. CASE \E i \in 1..n : p.id \in macSource.queue[i].of
          /\ macSource.queue[i].run = p.run
    <3>1. PICK i \in 1..n : p.id \in macSource.queue[i].of
          /\ macSource.queue[i].run = p.run
      BY <2>3
    <3>2. ~(i \in 1..m)
      BY <2>1, <3>1
    <3>3. PICK k \in 1..n - m : k = i - m /\ k + m = i
      BY <1>2, <3>2
    <3>4. macSource'.queue[k] = macSource.queue[i]
      BY <1>25, <3>3
    <3>5. \E h \in 1..n - m : p.id \in macSource'.queue[h].of
          /\ macSource'.queue[h].run = p.run
      BY <3>1, <3>4
    <3> QED
      BY <2>2, <3>5
  <2> QED
    BY <2>2, <2>3
<1>31. MacShowing'
  BY <1>0, <1>1, <1>6, <1>9, MacShowingKept
<1>32. MacReading'
  <2> SUFFICES ASSUME NEW e \in MacInLog, e <= macReader.read PROVE MacHeld(e, n - m)'
    BY <1>26 DEF MacReading, MacInLog, MacHeld
  <2>1. MacHeld(e, n)
    BY <1>0, <1>2 DEF MacReading
  <2>2. n = (n - m) + m /\ n - m <= n - m
    BY <1>2
  <2>3. PICK k \in Nat : k = n - m
    BY <1>26
  <2>4. MacHeld(e, k + m)
    BY <2>1, <2>2, <2>3
  <2>5. MacHeld(e, k)'
    BY <1>4, <1>13, <2>2, <2>3, <2>4
  <2> QED
    BY <2>3, <2>5 DEF MacHeld
<1> QED
  BY <1>1, <1>11, <1>19, <1>20, <1>23, <1>24, <1>27, <1>28, <1>29, <1>30, <1>31,
     <1>32 DEF MacIInv, MacPast, MacPresent

\* A drain.
LEMMA MacDrainStep ==
  ASSUME MacIInv, Mac!Drain
  PROVE  MacIInv'
<1>1. macTick.stage = "drain" /\ UNCHANGED <<macLog, macPurged, macReader, macDb,
      macLost>>
  BY DEF Mac!Drain
<1>2. MacTyped
  BY DEF MacIInv
<1>3. CASE macTick' = [macTick EXCEPT !.stage = "commit"] /\ UNCHANGED macSource
  BY <1>1, <1>3, MacEmptyDrainStep
<1>4. CASE \E m \in 1..Len(macSource.queue) : \E w, C, c, of,
        gaps : MacDraining(m, w, C, c, of, gaps)
  <2>1. PICK m \in 1..Len(macSource.queue) : \E w, C, c, of,
        gaps : MacDraining(m, w, C, c, of, gaps)
    BY <1>4
  <2>2. PICK w, C, c, of, gaps : MacDraining(m, w, C, c, of, gaps)
    BY <2>1
  <2> QED
    BY <1>1, <2>2, MacFullDrainStep
<1> QED
  BY <1>2, <1>3, <1>4, MacDrainCases

\* Every step keeps the invariant.
LEMMA MacStep == MacIInv /\ [Mac!Next]_Mac!vars => MacIInv'
<1> SUFFICES ASSUME MacIInv, [Mac!Next]_Mac!vars PROVE MacIInv'
  OBVIOUS
<1>1. CASE UNCHANGED Mac!vars
  <2>0. MacTyped /\ MacOrdered /\ MacTimed /\ MacPast /\ MacPresent /\ MacShowing
        /\ MacReading
    BY DEF MacIInv
  <2>1. UNCHANGED <<macLog, macPurged, macReader, macSource, macTick, macDb, macLost>>
    BY <1>1 DEF Mac!vars
  <2>2. MacTyped' /\ MacOrdered' /\ MacTimed'
    BY <2>0, <2>1, MacOrderKept DEF MacTyped
  <2>3. MacLogGrows
    BY <2>0, <2>1, MacSameLog, MacNumbers
  <2>4. MacHaveKept /\ MacTakenKept
    BY <2>1 DEF MacHaveKept, MacTakenKept, MacHave, MacTaken
  <2>5. MacPast'
    BY <2>0, <2>1, <2>2, <2>3, <2>4, MacStoredKept, MacRememberingKept,
       MacBatchKept DEF MacPast
  <2>6. MacPresent' /\ MacShowing' /\ MacReading'
    <3>1. macReader.read <= macReader'.read
          /\ macLost.evicted \subseteq macLost'.evicted
      BY <2>0, <2>1, MacFields
    <3> QED
      BY <2>0, <2>1, <2>2, <2>3, <2>4, <3>1, MacPresentKept, MacShowingKept,
         MacReadingKept
  <2> QED
    BY <2>2, <2>5, <2>6 DEF MacIInv
<1> QED
  BY <1>1, MacLogStep, MacPurgeStep, MacReadShowStep, MacEndShowStep,
     MacBreakShowStep, MacStartStreamStep, MacReadStreamStep, MacDieStep,
     MacSuperviseStep, MacDrainStep, MacCommitStep, MacCommitLockedStep,
     MacRestartStep DEF Mac!Next

\* The invariant is enough.
LEMMA MacGoals == MacIInv => Mac!ReplayCovers /\ Mac!GapsAreReal
<1> SUFFICES ASSUME MacIInv PROVE Mac!ReplayCovers /\ Mac!GapsAreReal
  OBVIOUS
<1>0. MacTyped /\ MacPast /\ MacPresent
  BY DEF MacIInv
<1>1. Mac!ReplayCovers
  <2> SUFFICES ASSUME NEW e \in Mac!Behind PROVE Mac!Answered(e) \/ e \in macLost.missed
    BY DEF Mac!ReplayCovers
  <2>1. e \in MacInLog /\ e \in Nat /\ e >= 1 /\ macLog[e].at \in Nat
    BY <1>0, MacNumbers DEF Mac!Behind, MacInLog
  <2>2. macDb.cursor.wm \in Nat
    BY <1>0, MacFields, MacCheckpointFields
  <2>3. Mac!ReplayFrom(macDb.cursor.wm) \in Nat
    BY <2>2, MacReplayFromBelow
  <2>4. CASE MacHave(e)
    BY <2>4 DEF MacHave, Mac!Answered
  <2>5. CASE macLog[e].at < Mac!ReplayFrom(macDb.cursor.wm)
    BY <1>0, <2>1, <2>4, <2>5 DEF MacPast, MacStored, MacHaveBefore
  <2>6. CASE Mac!Checkpointed(e)
    <3>1. PICK p \in Mac!Elements(macDb.cursor.ids) : p.id = e
      BY <2>6 DEF Mac!Checkpointed, Mac!Elements
    <3>2. MacHave(e)
      BY <1>0, <2>1, <3>1 DEF MacPast, MacStored, MacHaveIds
    <3> QED
      BY <2>4, <3>2
  <2> QED
    BY <2>1, <2>3, <2>5, <2>6 DEF Mac!Answered, Mac!Replayable
<1>2. Mac!GapsAreReal
  <2> SUFFICES ASSUME NEW g \in macDb.gaps
      \cup {macSource.queue[i].gap : i \in 1..Len(macSource.queue)}, g # <<>>
               PROVE  \A e \in 1..Len(macLog) : g[1] <= macLog[e].at
                      /\ macLog[e].at < g[2] => e <= macPurged
    BY DEF Mac!GapsAreReal
  <2>1. MacGapReal(g)
    BY <1>0 DEF MacPast, MacStored, MacPresent, MacItems, MacGapItem, MacEntryItem
  <2> QED
    BY <2>1 DEF MacGapReal, MacInLog
<1> QED
  BY <1>1, <1>2

\* DM-15, DM-19 on macOS, for any log, retention, deaths and restarts: the
\* stored checkpoint covers what is behind it, and gaps are real.
THEOREM MacReplayAlwaysCovers == Mac!Spec => [](Mac!ReplayCovers /\ Mac!GapsAreReal)
<1>1. Mac!Spec => []MacIInv
  BY MacInitHolds, MacStep, PTL DEF Mac!Spec
<1> QED
  BY <1>1, MacGoals, PTL
-----------------------------------------------------------------------------
(***************************************************************************)
(* Linux: the journal's cursors.                                           *)
(*                                                                         *)
(* No journal entry disappears unaccounted: for any number of readers that *)
(* die with entries in their pipes, of daemons that crash and of commits   *)
(* that meet a locked database, what lies behind the stored checkpoint is  *)
(* stored, or was dropped in one of three ways that are named.             *)
(*                                                                         *)
(* The argument is that every cursor in the system is covered by what is   *)
(* in front of it: a reader's position by what is queued, buffered, stored *)
(* or accounted; an item's cursor by the items up to it; the cursor in     *)
(* memory and the batch's by the batch.  Readers begin at a covered cursor *)
(* and go on one by one, so they offer nothing that is not covered, and    *)
(* the oldest item leaves first, so nothing it covers stays behind.        *)
(***************************************************************************)
HIDE SourcesAssumption

\* An entry that is stored or accounted for; that the batch has as well;
\* that one of the first n items has as well.
Have(e) == db.of[e] > 0 \/ e \in evicted \cup unsaved \cup skipped
Taken(e) == Have(e) \/ batch.of[e] > 0
HeldBy(e, n) == Taken(e) \/ \E i \in 1 .. n : queue[i].of[e] > 0
Held(e) == HeldBy(e, Len(queue))

MemoryCovered == stage # "down" => \A e \in Entry : e <= lastCursor => Taken(e)
BatchCovered  == \A e \in Entry : e <= batch.cursor => Taken(e)
ReaderCovered == stage # "down" => \A e \in Entry : e <= reader.read => Held(e)
PipesCovered  ==
    \A i \in 1 .. Len(pipes) : \A e \in Entry : e <= pipes[i].read => Held(e)
QueueCovered  ==
    \A i \in 1 .. Len(queue) :
        \A e \in Entry : e <= queue[i].cursor => HeldBy(e, i)

\* The engine's view of the drop counter is not ahead of it, and a dead
\* daemon has neither drops nor threads.
DropsSeen ==
    IF stage = "down" THEN dropped = 0 /\ pipes = << >>
    ELSE overflow.last <= dropped /\ overflow.from <= overflow.last

Typed == TypeOK /\ DropsSeen

IInv ==
    /\ Typed
    /\ LossIsAccounted
    /\ MemoryCovered
    /\ BatchCovered
    /\ ReaderCovered
    /\ PipesCovered
    /\ QueueCovered
-----------------------------------------------------------------------------
(* Counting.                                                               *)

LEMMA PlusCounts ==
    ASSUME NEW c \in Counts, NEW e \in Entry
    PROVE  /\ Plus(c, e) \in Counts
           /\ Plus(c, e)[e] > 0
           /\ \A x \in Entry : c[x] > 0 => Plus(c, e)[x] > 0
<1>1. \A x \in Entry : Plus(c, e)[x] = IF x = e THEN c[x] + 1 ELSE c[x]
  BY DEF Plus, Counts
<1>2. Plus(c, e) \in Counts
  BY DEF Plus, Counts
<1> QED
  BY <1>1, <1>2 DEF Counts

LEMMA UnionCounts ==
    ASSUME NEW c \in Counts, NEW d \in Counts
    PROVE  /\ Union(c, d) \in Counts
           /\ \A x \in Entry : Union(c, d)[x] > 0 <=> c[x] > 0 \/ d[x] > 0
BY DEF Union, Counts

LEMMA NothingCounts ==
    /\ Nothing \in Counts
    /\ \A x \in Entry : ~(Nothing[x] > 0)
    /\ EmptyBatch \in Buffer
    /\ EmptyBatch.cursor = NoCursor
    /\ EmptyBatch.of = Nothing
BY DEF Nothing, Counts, EmptyBatch, Buffer, Cursor, NoCursor

LEMMA NewItem ==
    ASSUME NEW e \in Entry
    PROVE  LET it == [of |-> Plus(Nothing, e), cursor |-> e]
           IN  it \in Item /\ it.of[e] > 0 /\ it.cursor = e
BY PlusCounts, NothingCounts DEF Item
-----------------------------------------------------------------------------
(* What an offer does to the queue.                                        *)

LEMMA OfferQueue ==
    ASSUME TypeOK, NEW e \in Entry, Offer(e)
    PROVE  /\ queue' \in Seq(Item) /\ Len(queue') <= QueueMax
           /\ dropped' \in Nat /\ evicted' \subseteq Entry
           /\ evicted \subseteq evicted' /\ dropped <= dropped'
<1> USE DEF TypeOK
<1>1. CASE OfferMerged(e)
  <2> DEFINE n == Len(queue)
             it == [of |-> Plus(queue[n].of, e), cursor |-> e]
  <2>1. n \in 1 .. n /\ queue[n] \in Item
    BY <1>1, SMTT(30) DEF OfferMerged, Merges
  <2>2. it \in Item
    BY <2>1, PlusCounts DEF Item
  <2>3. queue' = [queue EXCEPT ![n] = it]
    BY <1>1 DEF OfferMerged
  <2> QED
    BY <2>1, <2>2, <2>3, <1>1, ExceptSeq DEF OfferMerged
<1>2. CASE OfferNew(e)
  BY <1>2, NewItem, SMTT(30) DEF OfferNew
<1>3. CASE OfferEvicting(e)
  BY <1>3, NewItem DEF OfferEvicting
<1> QED
  BY <1>1, <1>2, <1>3 DEF Offer

LEMMA OfferHolds ==
    ASSUME TypeOK, NEW e \in Entry, Offer(e), QueueCovered,
           \A x \in Entry : x < e => Held(x),
           UNCHANGED <<batch, db, unsaved, skipped>>
    PROVE  /\ QueueCovered'
           /\ \A x \in Entry : Held(x) => Held(x)'
           /\ Held(e)'
           /\ \A x \in Entry : Taken(x) => Taken(x)'
           /\ \A x \in Entry : Have(x) => Have(x)'
<1> DEFINE n == Len(queue)
<1>q. queue \in Seq(Item) /\ n \in Nat
  BY DEF TypeOK
<1>e. e \in Nat /\ \A x \in Entry : x \in Nat
  BY DEF Entry
<1>0. /\ \A x \in Entry : Taken(x) => Taken(x)'
      /\ \A x \in Entry : Have(x) => Have(x)'
  BY OfferQueue DEF Taken, Have, TypeOK
<1>1. CASE OfferMerged(e)
  <2> DEFINE it == [of |-> Plus(queue[n].of, e), cursor |-> e]
  <2>1. n \in 1 .. n /\ queue[n] \in Item
    BY <1>1, <1>q DEF OfferMerged, Merges
  <2>2. /\ it \in Item /\ it.cursor = e /\ it.of[e] > 0
        /\ \A x \in Entry : queue[n].of[x] > 0 => it.of[x] > 0
    BY <2>1, PlusCounts DEF Item
  <2>3. queue' = [queue EXCEPT ![n] = it]
    BY <1>1 DEF OfferMerged
  <2> HIDE DEF it
  <2>4. /\ Len(queue') = n
        /\ \A j \in 1 .. n : queue'[j] = IF j = n THEN it ELSE queue[j]
    BY <2>1, <2>2, <2>3, <1>q, ExceptSeq
  <2>5. \A x \in Entry, i \in 1 .. n : HeldBy(x, i) => HeldBy(x, i)'
    BY <1>0, <1>q, <2>2, <2>4 DEF HeldBy
  <2>6. \A x \in Entry : Held(x) => Held(x)'
    BY <2>5, <2>4, <2>1 DEF Held
  <2>7. Held(e)'
    BY <2>1, <2>2, <2>4 DEF Held, HeldBy
  <2>8. QueueCovered'
    <3>1. ASSUME NEW i \in 1 .. n, NEW x \in Entry, x <= queue'[i].cursor
          PROVE  HeldBy(x, i)'
      <4>1. CASE i = n
        <5>1. Held(x)'
          BY <4>1, <3>1, <1>e, <2>1, <2>2, <2>4, <2>6, <2>7
        <5> QED
          BY <5>1, <4>1, <2>4 DEF Held
      <4>2. CASE i # n
        BY <4>2, <3>1, <2>4, <2>5 DEF QueueCovered
      <4> QED
        BY <4>1, <4>2
    <3> QED
      BY <3>1, <2>4 DEF QueueCovered
  <2> QED
    BY <1>0, <2>6, <2>7, <2>8
<1>2. CASE OfferNew(e)
  <2> DEFINE it == [of |-> Plus(Nothing, e), cursor |-> e]
  <2>1. it \in Item /\ it.of[e] > 0 /\ it.cursor = e
    BY NewItem
  <2>2. queue' = Append(queue, it)
    BY <1>2 DEF OfferNew
  <2> HIDE DEF it
  <2>3. /\ Len(queue') = n + 1 /\ queue'[n + 1] = it /\ n \in Nat
        /\ \A j \in 1 .. n : queue'[j] = queue[j]
    BY <1>q, <2>1, <2>2
  <2>4. \A x \in Entry, i \in 1 .. n : HeldBy(x, i) => HeldBy(x, i)'
    BY <1>0, <2>3 DEF HeldBy
  <2>5. \A x \in Entry : Held(x) => Held(x)'
    BY <1>0, <2>3 DEF Held, HeldBy
  <2>6. Held(e)'
    BY <2>1, <2>3 DEF Held, HeldBy
  <2>7. QueueCovered'
    <3>1. ASSUME NEW i \in 1 .. n + 1, NEW x \in Entry, x <= queue'[i].cursor
          PROVE  HeldBy(x, i)'
      <4>1. CASE i = n + 1
        <5>0. x = e \/ x < e
          BY <4>1, <3>1, <1>e, <2>1, <2>3
        <5>1. Held(x)'
          BY <5>0, <2>5, <2>6
        <5> QED
          BY <5>1, <4>1, <2>3 DEF Held
      <4>2. CASE i # n + 1
        BY <4>2, <3>1, <2>3, <2>4 DEF QueueCovered
      <4> QED
        BY <4>1, <4>2
    <3> QED
      BY <3>1, <2>3 DEF QueueCovered
  <2> QED
    BY <1>0, <2>5, <2>6, <2>7
<1>3. CASE OfferEvicting(e)
  <2> DEFINE it == [of |-> Plus(Nothing, e), cursor |-> e]
  <2>1. it \in Item /\ it.of[e] > 0 /\ it.cursor = e
    BY NewItem
  <2>2. queue' = Append(Tail(queue), it) /\ n \in Nat \ {0} /\ queue # << >>
    BY <1>3, <1>q DEF OfferEvicting
  <2> HIDE DEF it
  <2>3. /\ Len(queue') = n /\ queue'[n] = it /\ n \in Nat \ {0}
        /\ \A j \in 1 .. n : j # n => queue'[j] = queue[j + 1]
    BY <1>q, <2>1, <2>2
  <2>4. \A x \in Entry : queue[1].of[x] > 0 => Taken(x)'
    BY <1>3, <1>q, <2>3 DEF OfferEvicting, Taken, Have
  <2>5. ASSUME NEW x \in Entry, NEW i \in 1 .. n, HeldBy(x, i)
        PROVE  Taken(x)' \/ \E j \in 1 .. n : j < i /\ queue'[j].of[x] > 0
    <3>1. CASE Taken(x)
      BY <3>1, <1>0
    <3>2. CASE \E k \in 1 .. i : queue[k].of[x] > 0
      <4>1. PICK k \in 1 .. i : queue[k].of[x] > 0
        BY <3>2
      <4>2. CASE k = 1
        BY <4>1, <4>2, <2>4
      <4>3. CASE k # 1
        <5>1. k - 1 \in 1 .. n /\ k - 1 # n /\ (k - 1) + 1 = k /\ k - 1 < i
          BY <4>3, <2>3
        <5> QED
          BY <5>1, <4>1, <2>3
      <4> QED
        BY <4>2, <4>3
    <3> QED
      BY <2>5, <3>1, <3>2 DEF HeldBy
  <2>6. \A x \in Entry : Held(x) => Held(x)'
    <3>1. ASSUME NEW x \in Entry, Held(x) PROVE Held(x)'
      <4>1. HeldBy(x, n) /\ n \in 1 .. n
        BY <3>1, <2>3 DEF Held
      <4> QED
        BY <4>1, <2>5, <2>3 DEF Held, HeldBy
    <3> QED
      BY <3>1
  <2>7. Held(e)'
    BY <2>1, <2>3 DEF Held, HeldBy
  <2>8. QueueCovered'
    <3>1. ASSUME NEW i \in 1 .. n, NEW x \in Entry, x <= queue'[i].cursor
          PROVE  HeldBy(x, i)'
      <4>1. CASE i = n
        <5>1. Held(x)'
          BY <4>1, <3>1, <1>e, <2>1, <2>3, <2>6, <2>7
        <5> QED
          BY <5>1, <4>1, <2>3 DEF Held
      <4>2. CASE i # n
        <5>1. i + 1 \in 1 .. n /\ queue'[i] = queue[i + 1]
          BY <4>2, <2>3
        <5>2. HeldBy(x, i + 1)
          BY <5>1, <3>1 DEF QueueCovered
        <5>3. Taken(x)' \/ \E j \in 1 .. n : j < i + 1 /\ queue'[j].of[x] > 0
          BY <5>1, <5>2, <2>5
        <5> QED
          BY <5>3, <2>3 DEF HeldBy
      <4> QED
        BY <4>1, <4>2
    <3> QED
      BY <3>1, <2>3 DEF QueueCovered
  <2> QED
    BY <1>0, <2>6, <2>7, <2>8
<1> QED
  BY <1>1, <1>2, <1>3 DEF Offer
-----------------------------------------------------------------------------
(* Types.                                                                  *)

LEMMA StartAtTypes ==
    ASSUME TypeOK, NEW c \in Cursor, StartAt(c)
    PROVE  /\ reader' \in [alive : BOOLEAN, sent : 0 .. MaxLog, read : 0 .. MaxLog]
           /\ skipped' \subseteq Entry
<1>1. Len(journal) \in 0 .. MaxLog
  BY DEF TypeOK
<1>2. 1 .. Len(journal) \subseteq Entry
  BY <1>1 DEF Entry
<1> QED
  BY <1>1, <1>2 DEF StartAt, TypeOK, Cursor, NoCursor

LEMMA TypeInit == Init => Typed
<1>1. Init => db \in Buffer /\ batch \in Buffer /\ lastCursor \in Cursor
  BY NothingCounts DEF Init, FirstCursor, Buffer, Cursor, NoCursor
<1> QED
  BY <1>1 DEF Init, Typed, DropsSeen, TypeOK, NoTotal

LEMMA TypeStep == Typed /\ [Next]_vars => TypeOK'
<1> SUFFICES ASSUME TypeOK, DropsSeen, [Next]_vars PROVE TypeOK'
  BY DEF Typed
<1> DEFINE ReaderType == [alive : BOOLEAN, sent : 0 .. MaxLog, read : 0 .. MaxLog]
           PipeType == [sent : 0 .. MaxLog, read : 0 .. MaxLog]
           FaultType == [deaths : 0 .. MaxDeaths, locks : 0 .. MaxLocks,
                         crashes : 0 .. MaxCrashes]
           RestartType == [died : BOOLEAN, in : Nat, backoff : Nat]
<1>n. /\ MaxLog \in Nat /\ MaxDeaths \in Nat /\ MaxLocks \in Nat
      /\ MaxCrashes \in Nat /\ BackoffStart \in Nat /\ BackoffCap \in Nat
      /\ Len(journal) \in 0 .. MaxLog
      /\ reader.read \in 0 .. MaxLog /\ reader.sent \in 0 .. MaxLog
      /\ faults.deaths \in 0 .. MaxDeaths /\ faults.locks \in 0 .. MaxLocks
      /\ faults.crashes \in 0 .. MaxCrashes
  BY DEF TypeOK
<1>p. pipes \in Seq(PipeType)
  BY DEF TypeOK
<1>t. /\ reader \in ReaderType /\ reader.read \in 0 .. MaxLog
      /\ reader.sent \in 0 .. MaxLog /\ pipes \in Seq(PipeType)
      /\ faults \in FaultType /\ restart \in RestartType
      /\ Len(journal) \in 0 .. MaxLog
      /\ batch \in Buffer /\ db \in Buffer
      /\ batch.of \in Counts /\ db.of \in Counts
      /\ batch.cursor \in Cursor /\ db.cursor \in Cursor
  BY DEF TypeOK, Buffer
<1>1. ASSUME NEW t \in Text, Log(t) PROVE TypeOK'
  <2>1. journal' \in Seq(Text) /\ Len(journal') <= MaxLog
    BY <1>1 DEF Log, TypeOK
  <2> QED
    BY <1>1, <2>1 DEF Log, TypeOK, engine, ghosts
<1>2. CASE Send
  <2>1. reader.sent + 1 \in 0 .. MaxLog
    BY <1>2, <1>n, SMTT(30) DEF Send
  <2>2. reader' \in ReaderType
    BY <1>2, <1>t, <2>1 DEF Send
  <2> QED
    BY <1>2, <2>2 DEF Send, TypeOK, engine, ghosts
<1>3. CASE Die
  <2>1. faults' \in FaultType /\ reader' \in ReaderType
    <3>a. /\ faults.deaths < MaxDeaths
          /\ reader' = [reader EXCEPT !.alive = FALSE]
          /\ faults' = [faults EXCEPT !.deaths = @ + 1]
      BY <1>3 DEF Die
    <3>b. faults.deaths \in 0 .. MaxDeaths /\ MaxDeaths \in Nat
      BY <1>n
    <3>1. faults.deaths + 1 \in 0 .. MaxDeaths
      BY <3>a, <3>b
    <3> QED
      BY <1>t, <3>a, <3>1
  <2> QED
    BY <1>3, <2>1 DEF Die, TypeOK, engine, ghosts
<1>4. CASE Read
  <2>1. reader.read + 1 \in Entry /\ reader.read + 1 \in 0 .. MaxLog
    BY <1>4, <1>t, SMTT(30) DEF Read, Entry
  <2>2. reader' \in ReaderType
    BY <1>4, <1>t, <2>1 DEF Read
  <2>3. Offer(reader.read + 1)
    BY <1>4 DEF Read
  <2>4. /\ queue' \in Seq(Item) /\ Len(queue') <= QueueMax
        /\ dropped' \in Nat /\ evicted' \subseteq Entry
    BY <2>1, <2>3, OfferQueue
  <2> QED
    BY <1>4, <2>2, <2>4 DEF Read, TypeOK, engine
<1>5. ASSUME NEW i \in 1 .. Len(pipes), ReadLeftover(i) PROVE TypeOK'
  <2>1. pipes[i] \in PipeType
    BY <1>p, <1>5, ElementOfSeq
  <2>2. pipes[i].read + 1 \in Entry /\ pipes[i].read + 1 \in 0 .. MaxLog
    BY <1>5, <2>1 DEF ReadLeftover, Entry
  <2>3. [pipes[i] EXCEPT !.read = @ + 1] \in PipeType
    BY <2>1, <2>2
  <2>4. pipes' \in Seq(PipeType)
    <3>1. pipes' = [pipes EXCEPT ![i] = [pipes[i] EXCEPT !.read = @ + 1]]
      BY <1>5 DEF ReadLeftover
    <3> HIDE DEF PipeType
    <3> QED
      BY <1>p, <2>3, <3>1, ExceptSeq
  <2>5. Offer(pipes[i].read + 1)
    BY <1>5 DEF ReadLeftover
  <2>6. /\ queue' \in Seq(Item) /\ Len(queue') <= QueueMax
        /\ dropped' \in Nat /\ evicted' \subseteq Entry
    BY <2>2, <2>5, OfferQueue
  <2> QED
    BY <1>5, <2>4, <2>6 DEF ReadLeftover, TypeOK, engine
<1>6. CASE Supervise
  <2>1. Waited \in Nat
    BY <1>t DEF Waited
  <2>2. CASE SuperviseAlive
    <3>1. restart' \in RestartType
      BY <2>1, <2>2, <1>t DEF SuperviseAlive
    <3> QED
      BY <1>6, <2>2, <3>1 DEF Supervise, SuperviseAlive, TypeOK
  <2>3. CASE SuperviseRestart
    <3>1. reader' \in ReaderType /\ skipped' \subseteq Entry
      BY <2>3, StartAtTypes DEF SuperviseRestart, TypeOK
    <3>2. [sent |-> reader.sent, read |-> reader.read] \in PipeType
      BY <1>t
    <3>3. pipes' \in Seq(PipeType)
      <4>1. pipes' = Append(pipes, [sent |-> reader.sent, read |-> reader.read])
            \/ pipes' = pipes
        BY <2>3, Zenon DEF SuperviseRestart
      <4> HIDE DEF PipeType
      <4> QED
        BY <4>1, <3>2, <1>p
    <3>4. restart' \in RestartType
      BY <2>3, <1>t DEF SuperviseRestart, Upto
    <3>5. /\ stage' = "drain"
          /\ UNCHANGED <<journal, queue, dropped, taken, lastCursor, batch, overflow,
                         db, evicted, unsaved, told, faults>>
      BY <1>6 DEF Supervise
    <3> QED
      BY <3>1, <3>3, <3>4, <3>5 DEF TypeOK
  <2>4. CASE SuperviseWait
    <3>1. restart' \in RestartType
      BY <2>1, <2>4, <1>t DEF SuperviseWait
    <3> QED
      BY <1>6, <2>4, <3>1 DEF Supervise, SuperviseWait, TypeOK
  <2> QED
    BY <1>6, <2>2, <2>3, <2>4 DEF Supervise
<1>7. CASE TakeLock
  BY <1>7, SMTT(30) DEF TakeLock, TypeOK, engine, ghosts
<1>8. CASE TakeItem
  <2>1. Head(queue) \in Item /\ queue' \in Seq(Item) /\ Len(queue') <= QueueMax
    BY <1>8, SMTT(30) DEF TakeItem, TypeOK
  <2>2. batch' \in Buffer
    <3>1. Head(queue).of \in Counts /\ Head(queue).cursor \in Cursor
      BY <2>1 DEF Item, Cursor, Entry
    <3>2. Union(batch.of, Head(queue).of) \in Counts
      BY <3>1, <1>t, UnionCounts
    <3> QED
      BY <1>8, <3>1, <3>2 DEF TakeItem, Buffer
  <2>3. taken' \in 0 .. DrainBudget
    BY <1>8 DEF TakeItem, TypeOK
  <2> QED
    BY <1>8, <2>1, <2>2, <2>3 DEF TakeItem, TypeOK, ghosts
<1>9. CASE Drained
  BY <1>9, <1>t, SMTT(30) DEF Drained, TypeOK, ghosts
<1>10. CASE Observe
  <2> DEFINE new == dropped - overflow.last
             from == IF new > 0 /\ overflow.from = NoTotal
                     THEN overflow.last ELSE overflow.from
             over == new = 0 /\ from # NoTotal /\ Len(queue) < QueueMax
  <2>1. /\ overflow.last \in Nat /\ overflow.from \in Nat \cup {NoTotal}
        /\ told \in Nat /\ dropped \in Nat
        /\ overflow.last <= dropped /\ overflow.from <= overflow.last
    BY <1>10 DEF TypeOK, DropsSeen, Observe
  <2>2. from \in Nat \cup {NoTotal} /\ from <= dropped
    BY <2>1
  <2>3. /\ overflow' = [last |-> dropped, from |-> IF over THEN NoTotal ELSE from]
        /\ told' = IF over THEN told + (dropped - from) ELSE told
    BY <1>10 DEF Observe
  <2> HIDE DEF new, from
  <2>4. told' \in Nat
    <3>1. over => dropped - from \in Nat
      BY <2>1, <2>2 DEF NoTotal
    <3> QED
      BY <2>1, <2>3, <3>1
  <2>5. overflow' \in [last : Nat, from : Nat \cup {NoTotal}]
    BY <2>1, <2>2, <2>3
  <2> QED
    BY <1>10, <2>4, <2>5 DEF Observe, TypeOK
<1>11. CASE Commit
  <2>1. db' \in Buffer
    BY <1>11, <1>t, UnionCounts DEF Commit, Buffer
  <2> QED
    BY <1>11, <2>1, NothingCounts DEF Commit, TypeOK, ghosts
<1>12. CASE CommitLocked
  <2>1. faults' \in FaultType
    <3>1. faults.locks + 1 \in 0 .. MaxLocks
      <4>1. faults.locks < MaxLocks
        BY <1>12, Zenon DEF CommitLocked
      <4> QED
        BY <4>1, <1>n
    <3> QED
      BY <1>12, <1>t, <3>1 DEF CommitLocked
  <2>2. unsaved' \subseteq Entry
    BY <1>12 DEF CommitLocked, TypeOK
  <2> QED
    BY <1>12, <2>1, <2>2, NothingCounts DEF CommitLocked, TypeOK
<1>13. CASE Crash
  <2>c. faults.crashes < MaxCrashes
    BY <1>13, Zenon DEF Crash
  <2>0. /\ faults' = [faults EXCEPT !.crashes = @ + 1]
        /\ stage' = "down" /\ reader' = [reader EXCEPT !.alive = FALSE]
        /\ pipes' = << >> /\ queue' = << >> /\ dropped' = 0 /\ taken' = 0
        /\ batch' = EmptyBatch
        /\ UNCHANGED <<journal, lastCursor, restart, overflow, db, ghosts>>
    BY <1>13, Zenon DEF Crash
  <2>1. faults' \in FaultType /\ reader' \in ReaderType
    <3>1. faults.crashes + 1 \in 0 .. MaxCrashes
      BY <2>c, <1>n
    <3> QED
      BY <2>0, <1>t, <3>1
  <2>2. pipes' \in Seq(PipeType) /\ queue' \in Seq(Item) /\ Len(queue') <= QueueMax
    BY <2>0, EmptySeq DEF TypeOK
  <2>3. taken' \in 0 .. DrainBudget
    BY <2>0
  <2>4. UNCHANGED <<journal, lastCursor, restart, overflow, db, evicted, unsaved,
                    skipped, told>>
    BY <2>0 DEF ghosts
  <2> QED
    BY <2>0, <2>1, <2>2, <2>3, <2>4, NothingCounts DEF TypeOK
<1>14. CASE Start
  <2>1. reader' \in ReaderType /\ skipped' \subseteq Entry
    BY <1>14, <1>t, StartAtTypes DEF Start
  <2> QED
    BY <1>14, <1>t, <2>1 DEF Start, TypeOK
<1>15. CASE UNCHANGED vars
  BY <1>15 DEF vars, TypeOK
<1> QED
  BY <1>1, <1>2, <1>3, <1>4, <1>5, <1>6, <1>7, <1>8, <1>9, <1>10, <1>11,
     <1>12, <1>13, <1>14, <1>15, Zenon DEF Next

LEMMA DropsSeenStep == Typed /\ [Next]_vars => DropsSeen'
<1> SUFFICES ASSUME TypeOK, DropsSeen, [Next]_vars PROVE DropsSeen'
  BY DEF Typed
<1>t. /\ dropped \in Nat /\ overflow.last \in Nat
      /\ overflow.from \in Nat \cup {NoTotal}
      /\ reader.read \in 0 .. MaxLog /\ reader.sent \in 0 .. MaxLog
  BY DEF TypeOK
<1>1. CASE Read
  <2>1. reader.read + 1 \in Entry /\ Offer(reader.read + 1)
    BY <1>1, <1>t DEF Read, Entry
  <2>2. dropped <= dropped' /\ dropped' \in Nat
    BY <2>1, OfferQueue
  <2> QED
    BY <1>1, <1>t, <2>2 DEF Read, DropsSeen, engine, NoTotal
<1>2. ASSUME NEW i \in 1 .. Len(pipes), ReadLeftover(i) PROVE DropsSeen'
  <2>1. pipes[i] \in [sent : 0 .. MaxLog, read : 0 .. MaxLog]
    BY ElementOfSeq DEF TypeOK
  <2>2. pipes[i].read + 1 \in Entry /\ Offer(pipes[i].read + 1)
    BY <1>2, <2>1, SMTT(30) DEF ReadLeftover, Entry
  <2>3. dropped <= dropped' /\ dropped' \in Nat
    BY <2>2, OfferQueue
  <2>4. stage # "down"
    BY DEF DropsSeen
  <2> QED
    BY <1>2, <1>t, <2>3, <2>4, SMTT(30) DEF ReadLeftover, DropsSeen, engine, NoTotal
<1>3. CASE Supervise
  BY <1>3 DEF Supervise, DropsSeen
<1>4. CASE Observe
  BY <1>4, <1>t DEF Observe, DropsSeen, NoTotal
<1>5. CASE Crash \/ Start
  BY <1>5, <1>t, SMTT(30) DEF Crash, Start, DropsSeen, NoTotal
<1>6. CASE TakeLock \/ TakeItem \/ Drained \/ Commit \/ CommitLocked
  BY <1>6 DEF TakeLock, TakeItem, Drained, Commit, CommitLocked, DropsSeen,
              engine, ghosts
<1>7. CASE Send \/ Die \/ UNCHANGED vars
  BY <1>7 DEF Send, Die, vars, DropsSeen, engine, ghosts
<1>8. ASSUME NEW t \in Text, Log(t) PROVE DropsSeen'
  BY <1>8 DEF Log, DropsSeen, engine, ghosts
<1> QED
  BY <1>1, <1>2, <1>3, <1>4, <1>5, <1>6, <1>7, <1>8, Zenon DEF Next
-----------------------------------------------------------------------------
(* Coverage.                                                               *)

\* A step that keeps the queue and takes nothing back keeps every claim on it.
LEMMA Kept ==
    ASSUME UNCHANGED queue, \A x \in Entry : Taken(x) => Taken(x)'
    PROVE  /\ \A x \in Entry : Held(x) => Held(x)'
           /\ QueueCovered => QueueCovered'
BY DEF Held, HeldBy, QueueCovered

LEMMA IInvInit == Init => IInv
<1> SUFFICES ASSUME Init PROVE IInv
  OBVIOUS
<1>1. \A e \in Entry : e \in Nat /\ ~(e <= 0) /\ ~(e <= NoCursor)
  BY DEF Entry, NoCursor
<1>2. /\ lastCursor \in {0, NoCursor} /\ db.cursor \in {0, NoCursor}
      /\ batch.cursor = NoCursor /\ reader.read = 0
      /\ Len(pipes) = 0 /\ Len(queue) = 0
  BY NothingCounts DEF Init, FirstCursor
<1>3. LossIsAccounted /\ MemoryCovered /\ BatchCovered /\ ReaderCovered
  BY <1>1, <1>2
     DEF LossIsAccounted, MemoryCovered, BatchCovered, ReaderCovered
<1>4. PipesCovered /\ QueueCovered
  BY <1>2 DEF PipesCovered, QueueCovered
<1> QED
  BY <1>3, <1>4, TypeInit DEF IInv

LEMMA IInvStep == IInv /\ [Next]_vars => IInv'
<1> SUFFICES ASSUME IInv, [Next]_vars PROVE IInv'
  OBVIOUS
<1> DEFINE Covers == /\ LossIsAccounted /\ MemoryCovered /\ BatchCovered
                     /\ ReaderCovered /\ PipesCovered /\ QueueCovered
<1>0. TypeOK /\ Covers /\ Typed'
  BY TypeStep, DropsSeenStep DEF IInv, Typed
<1>n. /\ reader.read \in 0 .. MaxLog /\ reader.sent \in 0 .. MaxLog
      /\ Len(journal) \in 0 .. MaxLog /\ MaxLog \in Nat
      /\ batch.of \in Counts /\ db.of \in Counts
      /\ batch.cursor \in Cursor /\ db.cursor \in Cursor
      /\ lastCursor \in Cursor
  BY <1>0 DEF TypeOK, Buffer
<1>e. \A x \in Entry : x \in Nat /\ x > 0 /\ x <= MaxLog
  BY <1>n DEF Entry
<1>1. CASE \/ \E t \in Text : Log(t)
           \/ Send \/ Die \/ TakeLock \/ Observe
           \/ (SuperviseAlive /\ Supervise) \/ (SuperviseWait /\ Supervise)
           \/ UNCHANGED vars
  <2>1. /\ UNCHANGED <<queue, pipes, lastCursor, batch, db, evicted, unsaved, skipped>>
        /\ reader'.read = reader.read
    BY <1>0, <1>1 DEF Log, Send, Die, TakeLock, Observe, SuperviseAlive,
          SuperviseWait, Supervise, vars, engine, ghosts, TypeOK
  <2>2. stage' # "down" => stage # "down"
    BY <1>1 DEF Log, Send, Die, TakeLock, Observe, Supervise, vars
  <2>3. \A x \in Entry : (Taken(x) <=> Taken(x)') /\ (Have(x) <=> Have(x)')
    BY <2>1 DEF Taken, Have
  <2>4. QueueCovered' /\ \A x \in Entry : Held(x) => Held(x)'
    BY <1>0, <2>1, <2>3, Kept
  <2>5. LossIsAccounted' /\ MemoryCovered' /\ BatchCovered'
    BY <1>0, <2>1, <2>2, <2>3
       DEF LossIsAccounted, MemoryCovered, BatchCovered, Have
  <2>6. ReaderCovered' /\ PipesCovered'
    BY <1>0, <2>1, <2>2, <2>4 DEF ReaderCovered, PipesCovered
  <2> QED
    BY <1>0, <2>4, <2>5, <2>6 DEF IInv
<1>2. CASE Read
  <2>a. reader.read + 1 \in Entry
    BY <1>2, <1>n, SMTT(30) DEF Read, Entry
  <2>b. PICK e \in Entry : e = reader.read + 1
    BY <2>a
  <2>c. reader' = [reader EXCEPT !.read = @ + 1]
        /\ reader \in [alive : BOOLEAN, sent : 0 .. MaxLog, read : 0 .. MaxLog]
    BY <1>2, <1>0 DEF Read, TypeOK
  <2>1. Offer(e) /\ stage # "down" /\ UNCHANGED stage
        /\ UNCHANGED <<batch, db, unsaved, skipped, pipes, lastCursor>>
        /\ reader'.read = e
    BY <1>2, <2>b, <2>c DEF Read, engine
  <2>2. \A x \in Entry : x < e => Held(x)
    BY <1>0, <1>n, <1>e, <2>1, <2>b DEF ReaderCovered
  <2>3. /\ QueueCovered' /\ Held(e)'
        /\ \A x \in Entry : Held(x) => Held(x)'
        /\ \A x \in Entry : Taken(x) => Taken(x)'
        /\ \A x \in Entry : Have(x) => Have(x)'
    BY <1>0, <2>1, <2>2, OfferHolds
  <2>4. LossIsAccounted' /\ MemoryCovered' /\ BatchCovered'
    BY <1>0, <2>1, <2>3
       DEF LossIsAccounted, MemoryCovered, BatchCovered, Have
  <2>5. ReaderCovered'
    <3>1. ASSUME NEW x \in Entry, x <= e PROVE Held(x)'
      <4>1. x = e \/ x < e
        BY <3>1, <1>e, <2>1
      <4> QED
        BY <4>1, <2>2, <2>3
    <3> QED
      BY <3>1, <2>1 DEF ReaderCovered
  <2>6. PipesCovered'
    BY <1>0, <2>1, <2>3 DEF PipesCovered
  <2> QED
    BY <1>0, <2>3, <2>4, <2>5, <2>6 DEF IInv
<1>3. ASSUME NEW i \in 1 .. Len(pipes), ReadLeftover(i) PROVE IInv'
  <2> DEFINE PipeType == [sent : 0 .. MaxLog, read : 0 .. MaxLog]
  <2>0. pipes \in Seq(PipeType) /\ pipes[i] \in PipeType
    BY <1>0, ElementOfSeq DEF TypeOK
  <2>a. pipes[i].read + 1 \in Entry /\ pipes[i].read + 1 \in 0 .. MaxLog
    <3>1. pipes[i].read < pipes[i].sent
      BY <1>3 DEF ReadLeftover
    <3>2. pipes[i].read \in 0 .. MaxLog /\ pipes[i].sent \in 0 .. MaxLog
      BY <2>0
    <3> QED
      BY <3>1, <3>2, <1>n DEF Entry
  <2>b. PICK e \in Entry : e = pipes[i].read + 1
    BY <2>a
  <2>1. Offer(e) /\ UNCHANGED stage
        /\ UNCHANGED <<batch, db, unsaved, skipped, reader, lastCursor>>
    BY <1>3, <2>b DEF ReadLeftover, engine
  <2>2. \A x \in Entry : x < e => Held(x)
    BY <1>0, <2>0, <1>e, <2>1, <2>b DEF PipesCovered
  <2>p. /\ Len(pipes') = Len(pipes)
        /\ \A j \in 1 .. Len(pipes) :
               pipes'[j].read = IF j = i THEN e ELSE pipes[j].read
    <3>1. [pipes[i] EXCEPT !.read = @ + 1] \in PipeType
          /\ [pipes[i] EXCEPT !.read = @ + 1].read = e
      BY <2>0, <2>a, <2>b
    <3>2. pipes' = [pipes EXCEPT ![i] = [pipes[i] EXCEPT !.read = @ + 1]]
      BY <1>3 DEF ReadLeftover
    <3> HIDE DEF PipeType
    <3> QED
      BY <3>1, <3>2, <2>0, ExceptSeq
  <2> HIDE DEF PipeType
  <2>3. /\ QueueCovered' /\ Held(e)'
        /\ \A x \in Entry : Held(x) => Held(x)'
        /\ \A x \in Entry : Taken(x) => Taken(x)'
        /\ \A x \in Entry : Have(x) => Have(x)'
    BY <1>0, <2>1, <2>2, OfferHolds
  <2>4. LossIsAccounted' /\ MemoryCovered' /\ BatchCovered'
    BY <1>0, <2>1, <2>3
       DEF LossIsAccounted, MemoryCovered, BatchCovered, Have
  <2>5. ReaderCovered'
    BY <1>0, <2>1, <2>3 DEF ReaderCovered
  <2>6. PipesCovered'
    <3>1. ASSUME NEW x \in Entry, x <= e PROVE Held(x)'
      <4>1. x = e \/ x < e
        BY <3>1, <1>e, <2>1
      <4> QED
        BY <4>1, <2>2, <2>3
    <3>2. ASSUME NEW j \in 1 .. Len(pipes), NEW x \in Entry, x <= pipes'[j].read
          PROVE  Held(x)'
      <4>1. CASE j = i
        BY <4>1, <3>1, <3>2, <2>p
      <4>2. CASE j # i
        BY <4>2, <3>2, <2>p, <2>3, <1>0 DEF PipesCovered
      <4> QED
        BY <4>1, <4>2
    <3> QED
      BY <3>2, <2>p DEF PipesCovered
  <2> QED
    BY <1>0, <2>3, <2>4, <2>5, <2>6 DEF IInv
<1>4. CASE SuperviseRestart /\ Supervise
  <2>1. /\ UNCHANGED <<queue, lastCursor, batch, db, evicted, unsaved>>
        /\ stage = "supervise" /\ skipped \subseteq skipped'
        /\ lastCursor = NoCursor => 1 .. Len(journal) \subseteq skipped'
        /\ reader'.read = IF lastCursor = NoCursor THEN Len(journal) ELSE lastCursor
    BY <1>4 DEF SuperviseRestart, Supervise, StartAt
  <2>2. \A x \in Entry : (Taken(x) => Taken(x)') /\ (Have(x) => Have(x)')
    BY <2>1 DEF Taken, Have
  <2>3. QueueCovered' /\ \A x \in Entry : Held(x) => Held(x)'
    BY <1>0, <2>1, <2>2, Kept
  <2>4. LossIsAccounted' /\ MemoryCovered' /\ BatchCovered'
    BY <1>0, <2>1, <2>2
       DEF LossIsAccounted, MemoryCovered, BatchCovered, Have
  <2>5. ReaderCovered'
    <3>1. ASSUME NEW x \in Entry, x <= reader'.read PROVE Taken(x)'
      <4>1. CASE lastCursor = NoCursor
        <5>1. x \in 1 .. Len(journal)
          BY <4>1, <3>1, <2>1, <1>e, <1>n
        <5> QED
          BY <5>1, <4>1, <2>1 DEF Taken, Have
      <4>2. CASE lastCursor # NoCursor
        BY <4>2, <3>1, <2>1, <2>2, <1>0 DEF MemoryCovered
      <4> QED
        BY <4>1, <4>2
    <3> QED
      BY <3>1 DEF ReaderCovered, Held, HeldBy
  <2>6. PipesCovered'
    <3> DEFINE new == [sent |-> reader.sent, read |-> reader.read]
    <3>0. pipes' = Append(pipes, new) \/ pipes' = pipes
      BY <1>4, Zenon DEF SuperviseRestart
    <3>1. new.read = reader.read
      OBVIOUS
    <3> HIDE DEF new
    <3>2. pipes \in Seq([sent : 0 .. MaxLog, read : 0 .. MaxLog])
      BY <1>0 DEF TypeOK
    <3>3. ASSUME NEW j \in 1 .. Len(pipes')
          PROVE  \/ j \in 1 .. Len(pipes) /\ pipes'[j] = pipes[j]
                 \/ pipes'[j] = new
      BY <3>0, <3>2
    <3>4. ASSUME NEW j \in 1 .. Len(pipes'), NEW x \in Entry, x <= pipes'[j].read
          PROVE  Held(x)'
      BY <3>1, <3>3, <3>4, <2>1, <2>3, <1>0 DEF PipesCovered, ReaderCovered
    <3> QED
      BY <3>4 DEF PipesCovered
  <2> QED
    BY <1>0, <2>3, <2>4, <2>5, <2>6 DEF IInv
<1>5. CASE TakeItem
  <2> DEFINE it == Head(queue)
             n == Len(queue)
  <2>0. queue \in Seq(Item) /\ queue # << >>
    BY <1>0, <1>5 DEF TypeOK, TakeItem
  <2>1. /\ it \in Item /\ it = queue[1] /\ n \in Nat \ {0} /\ 1 \in 1 .. n
        /\ Len(Tail(queue)) = n - 1
        /\ \A j \in 1 .. n - 1 : Tail(queue)[j] = queue[j + 1]
    BY <2>0, HeadTailProperties
  <2>2. /\ UNCHANGED <<reader, pipes, lastCursor, db, evicted, unsaved, skipped, stage>>
        /\ batch' = [of |-> Union(batch.of, it.of), cursor |-> it.cursor]
        /\ queue' = Tail(queue) /\ stage = "draining"
    BY <1>5 DEF TakeItem, ghosts
  <2>3. it.of \in Counts /\ it.cursor = queue[1].cursor
    BY <2>1 DEF Item
  <2>4. \A x \in Entry : /\ Have(x) <=> Have(x)'
                         /\ Taken(x) => Taken(x)'
                         /\ queue[1].of[x] > 0 => Taken(x)'
    <3>1. \A x \in Entry : batch'.of[x] > 0 <=> batch.of[x] > 0 \/ it.of[x] > 0
      BY <2>2, <2>3, <1>n, UnionCounts
    <3> QED
      BY <3>1, <2>1, <2>2 DEF Have, Taken
  <2> HIDE DEF it, n
  <2>5. ASSUME NEW x \in Entry, NEW i \in 1 .. n, HeldBy(x, i)
        PROVE  Taken(x)' \/ \E j \in 1 .. n - 1 : j < i /\ queue'[j].of[x] > 0
    <3>1. CASE Taken(x)
      BY <3>1, <2>4
    <3>2. CASE \E k \in 1 .. i : queue[k].of[x] > 0
      <4>1. PICK k \in 1 .. i : queue[k].of[x] > 0
        BY <3>2
      <4>2. CASE k = 1
        BY <4>1, <4>2, <2>4
      <4>3. CASE k # 1
        <5>1. k - 1 \in 1 .. n - 1 /\ (k - 1) + 1 = k /\ k - 1 < i
          BY <4>3, <2>1
        <5> QED
          BY <5>1, <4>1, <2>1, <2>2
      <4> QED
        BY <4>2, <4>3
    <3> QED
      BY <2>5, <3>1, <3>2 DEF HeldBy
  <2>6. Len(queue') = n - 1 /\ Len(queue) = n
    BY <2>1, <2>2 DEF n
  <2>7. \A x \in Entry : Held(x) => Held(x)'
    <3>1. ASSUME NEW x \in Entry, Held(x) PROVE Held(x)'
      <4>1. HeldBy(x, n) /\ n \in 1 .. n
        BY <3>1, <2>1, <2>6 DEF Held
      <4> QED
        BY <4>1, <2>5, <2>6 DEF Held, HeldBy
    <3> QED
      BY <3>1
  <2>8. QueueCovered'
    <3>1. ASSUME NEW i \in 1 .. n - 1, NEW x \in Entry, x <= queue'[i].cursor
          PROVE  HeldBy(x, i)'
      <4>1. i + 1 \in 1 .. n /\ queue'[i] = queue[i + 1]
        BY <2>1, <2>2
      <4>2. HeldBy(x, i + 1)
        BY <4>1, <3>1, <1>0, <2>6 DEF QueueCovered
      <4>3. Taken(x)' \/ \E j \in 1 .. n - 1 : j < i + 1 /\ queue'[j].of[x] > 0
        BY <4>1, <4>2, <2>5
      <4> QED
        BY <4>3, <2>1 DEF HeldBy
    <3> QED
      BY <3>1, <2>6 DEF QueueCovered
  <2>9. BatchCovered'
    <3>1. ASSUME NEW x \in Entry, x <= queue[1].cursor PROVE Taken(x)'
      <4>1. HeldBy(x, 1)
        BY <3>1, <1>0, <2>1, <2>6 DEF QueueCovered
      <4> QED
        BY <4>1, <2>1, <2>5
    <3> QED
      BY <3>1, <2>2, <2>3 DEF BatchCovered
  <2>10. LossIsAccounted' /\ MemoryCovered'
    BY <1>0, <2>2, <2>4 DEF LossIsAccounted, MemoryCovered, Have
  <2>11. ReaderCovered' /\ PipesCovered'
    BY <1>0, <2>2, <2>7 DEF ReaderCovered, PipesCovered
  <2> QED
    BY <1>0, <2>8, <2>9, <2>10, <2>11 DEF IInv
<1>6. CASE Drained
  <2>1. /\ UNCHANGED <<reader, pipes, queue, batch, db, evicted, unsaved, skipped>>
        /\ stage = "draining"
        /\ lastCursor' \in {lastCursor, batch.cursor}
    BY <1>6 DEF Drained, ghosts
  <2>2. \A x \in Entry : (Taken(x) <=> Taken(x)') /\ (Have(x) <=> Have(x)')
    BY <2>1 DEF Taken, Have
  <2>3. QueueCovered' /\ \A x \in Entry : Held(x) => Held(x)'
    BY <1>0, <2>1, <2>2, Kept
  <2>4. LossIsAccounted' /\ MemoryCovered' /\ BatchCovered'
    BY <1>0, <2>1, <2>2
       DEF LossIsAccounted, MemoryCovered, BatchCovered, Have
  <2>5. ReaderCovered' /\ PipesCovered'
    BY <1>0, <2>1, <2>3 DEF ReaderCovered, PipesCovered
  <2> QED
    BY <1>0, <2>3, <2>4, <2>5 DEF IInv
<1>7. CASE Commit \/ CommitLocked
  <2>1. /\ UNCHANGED <<reader, pipes, queue, lastCursor>>
        /\ stage = "commit" /\ batch' = EmptyBatch
    BY <1>7 DEF Commit, CommitLocked, ghosts
  <2>2. \A x \in Entry : Taken(x) => Have(x)'
    <3>1. CASE Commit
      <4>1. \A x \in Entry : db'.of[x] > 0 <=> db.of[x] > 0 \/ batch.of[x] > 0
        BY <3>1, <1>n, UnionCounts DEF Commit
      <4> QED
        BY <4>1, <3>1 DEF Commit, Taken, Have, ghosts
    <3>2. CASE CommitLocked
      BY <3>2 DEF CommitLocked, Taken, Have
    <3> QED
      BY <1>7, <3>1, <3>2
  <2>3. db'.cursor \in {db.cursor, batch.cursor}
    BY <1>7 DEF Commit, CommitLocked
  <2>4. \A x \in Entry : (Have(x)' => Taken(x)') /\ (Have(x) => Taken(x))
    BY DEF Taken
  <2>5. LossIsAccounted'
    <3>1. ASSUME NEW x \in Entry, x <= db'.cursor PROVE Have(x)'
      BY <3>1, <2>2, <2>3, <2>4, <1>0 DEF LossIsAccounted, BatchCovered, Have
    <3> QED
      BY <3>1 DEF LossIsAccounted, Have
  <2>6. QueueCovered' /\ \A x \in Entry : Held(x) => Held(x)'
    BY <1>0, <2>1, <2>2, <2>4, Kept
  <2>7. MemoryCovered' /\ BatchCovered'
    BY <1>0, <1>e, <2>1, <2>2, <2>4, NothingCounts
       DEF MemoryCovered, BatchCovered, NoCursor
  <2>8. ReaderCovered' /\ PipesCovered'
    BY <1>0, <2>1, <2>6 DEF ReaderCovered, PipesCovered
  <2> QED
    BY <1>0, <2>5, <2>6, <2>7, <2>8 DEF IInv
<1>8. CASE Crash
  <2>1. /\ UNCHANGED <<db, evicted, unsaved, skipped>> /\ stage' = "down"
        /\ batch' = EmptyBatch /\ Len(pipes') = 0 /\ Len(queue') = 0
    <3>1. /\ UNCHANGED <<db, evicted, unsaved, skipped>> /\ stage' = "down"
          /\ batch' = EmptyBatch /\ pipes' = << >> /\ queue' = << >>
      BY <1>8, Zenon DEF Crash, ghosts
    <3> QED
      BY <3>1
  <2>2. LossIsAccounted' /\ MemoryCovered' /\ BatchCovered' /\ ReaderCovered'
    BY <1>0, <1>e, <2>1, NothingCounts
       DEF LossIsAccounted, MemoryCovered, BatchCovered, ReaderCovered, NoCursor
  <2>3. PipesCovered' /\ QueueCovered'
    BY <2>1 DEF PipesCovered, QueueCovered
  <2> QED
    BY <1>0, <2>2, <2>3 DEF IInv
<1>9. CASE Start
  <2>1. /\ UNCHANGED <<pipes, queue, batch, db, evicted, unsaved>>
        /\ lastCursor' = db.cursor /\ skipped \subseteq skipped'
        /\ db.cursor = NoCursor => 1 .. Len(journal) \subseteq skipped'
        /\ reader'.read = IF db.cursor = NoCursor THEN Len(journal) ELSE db.cursor
    BY <1>9 DEF Start, StartAt
  <2>2. \A x \in Entry : (Taken(x) => Taken(x)') /\ (Have(x) => Have(x)')
                         /\ (Have(x)' => Taken(x)')
    BY <2>1 DEF Taken, Have
  <2>3. QueueCovered' /\ \A x \in Entry : Held(x) => Held(x)'
    BY <1>0, <2>1, <2>2, Kept
  <2>4. LossIsAccounted' /\ MemoryCovered' /\ BatchCovered'
    BY <1>0, <2>1, <2>2
       DEF LossIsAccounted, MemoryCovered, BatchCovered, Have
  <2>5. ReaderCovered'
    <3>1. ASSUME NEW x \in Entry, x <= reader'.read PROVE Taken(x)'
      <4>1. CASE db.cursor = NoCursor
        <5>1. x \in 1 .. Len(journal)
          BY <4>1, <3>1, <2>1, <1>e, <1>n
        <5> QED
          BY <5>1, <4>1, <2>1 DEF Taken, Have
      <4>2. CASE db.cursor # NoCursor
        BY <4>2, <3>1, <2>1, <2>2, <1>0 DEF LossIsAccounted, Have
      <4> QED
        BY <4>1, <4>2
    <3> QED
      BY <3>1 DEF ReaderCovered, Held, HeldBy
  <2>6. PipesCovered'
    BY <1>0, <2>1, <2>3 DEF PipesCovered
  <2> QED
    BY <1>0, <2>3, <2>4, <2>5, <2>6 DEF IInv
<1> QED
  BY <1>1, <1>2, <1>3, <1>4, <1>5, <1>6, <1>7, <1>8, <1>9, Zenon
     DEF Next, Supervise
-----------------------------------------------------------------------------
LEMMA DropsToldStep ==
    Typed /\ DropsAreTold /\ [Next]_vars => DropsAreTold'
<1> SUFFICES ASSUME Typed, DropsAreTold, [Next]_vars PROVE DropsAreTold'
  OBVIOUS
<1>t. /\ dropped \in Nat /\ overflow.last \in Nat /\ told \in Nat
      /\ overflow.from \in Nat \cup {NoTotal}
  BY DEF Typed, TypeOK
<1>1. CASE Observe
  <2> DEFINE new == dropped - overflow.last
             from == IF new > 0 /\ overflow.from = NoTotal
                     THEN overflow.last ELSE overflow.from
             over == new = 0 /\ from # NoTotal /\ Len(queue) < QueueMax
  <2>1. /\ overflow' = [last |-> dropped, from |-> IF over THEN NoTotal ELSE from]
        /\ told' = IF over THEN told + (dropped - from) ELSE told
        /\ stage # "down"
    BY <1>1 DEF Observe
  <2>2. /\ overflow.last <= dropped
        /\ told = (IF overflow.from = NoTotal THEN overflow.last ELSE overflow.from)
    BY <2>1 DEF Typed, DropsSeen, DropsAreTold
  <2>3. /\ from # NoTotal => told = from
        /\ from = NoTotal => told = dropped
    BY <1>t, <2>2 DEF NoTotal
  <2>4. from \in Nat \cup {NoTotal}
    BY <1>t
  <2> HIDE DEF from
  <2>5. told' = (IF overflow'.from = NoTotal THEN overflow'.last ELSE overflow'.from)
    BY <1>t, <2>1, <2>3, <2>4 DEF NoTotal
  <2> QED
    BY <2>5 DEF DropsAreTold
<1>2. CASE Start
  <2>1. dropped = 0
    BY <1>2 DEF Start, Typed, DropsSeen
  <2> QED
    BY <1>2, <2>1 DEF Start, DropsAreTold
<1>3. CASE \/ \E t \in Text : Log(t)
           \/ Send \/ Die \/ Read \/ \E i \in 1 .. Len(pipes) : ReadLeftover(i)
           \/ Supervise \/ TakeLock \/ TakeItem \/ Drained
           \/ Commit \/ CommitLocked \/ Crash \/ UNCHANGED vars
  <2>1. UNCHANGED <<overflow, told>> /\ (stage' # "down" => stage # "down")
    BY <1>3 DEF Log, Send, Die, Read, ReadLeftover, Supervise, TakeLock, TakeItem,
                Drained, Commit, CommitLocked, Crash, vars, engine, ghosts,
                Typed, DropsSeen
  <2> QED
    BY <2>1 DEF DropsAreTold
<1> QED
  BY <1>1, <1>2, <1>3, Zenon DEF Next
-----------------------------------------------------------------------------
(***************************************************************************)
(* The inductive invariant holds.                                          *)
(***************************************************************************)
THEOREM IInvHolds == Spec => []IInv
<1>1. Init => IInv
  BY IInvInit
<1>2. IInv /\ [Next]_vars => IInv'
  BY IInvStep
<1> QED
  BY <1>1, <1>2, PTL DEF Spec

(***************************************************************************)
(* Every variable of the ingest has its type: the queue never outgrows     *)
(* QUEUE_MAX, whatever readers there are.                                  *)
(***************************************************************************)
THEOREM TypeCorrect == Spec => []TypeOK
<1>1. IInv => TypeOK
  BY DEF IInv, Typed
<1> QED
  BY <1>1, IInvHolds, PTL

(***************************************************************************)
(* What lies behind the stored checkpoint is stored, or was dropped by the *)
(* full queue or a locked commit, or was logged before a reader without a  *)
(* cursor began: no interleaving of readers, ticks, deaths and restarts    *)
(* loses an entry in any other way.                                        *)
(***************************************************************************)
THEOREM LossAlwaysAccounted == Spec => []LossIsAccounted
<1>1. IInv => LossIsAccounted
  BY DEF IInv
<1> QED
  BY <1>1, IInvHolds, PTL

(***************************************************************************)
(* The overflow summaries of a daemon add up to the drops it has seen,     *)
(* for every order of drops, drains and observations.                      *)
(***************************************************************************)
THEOREM DropsAlwaysTold == Spec => []DropsAreTold
<1>1. Init => DropsAreTold
  BY DEF Init, DropsAreTold, NoTotal
<1>2. IInv => Typed
  BY DEF IInv
<1> QED
  BY <1>1, <1>2, DropsToldStep, IInvHolds, PTL DEF Spec
-----------------------------------------------------------------------------
(***************************************************************************)
(* No entry is stored twice while journalctl lives: what is stored, in the *)
(* batch and in each item of the queue stands in the order of the journal, *)
(* so that no two of them have an entry in common, and the reader is       *)
(* behind all of them: it began at the stored cursor, and there is no      *)
(* other reader.                                                           *)
(***************************************************************************)

\* The last cursor that was taken from the queue and not dropped.
Mark == IF batch.cursor = NoCursor THEN db.cursor ELSE batch.cursor

OnceStored == \A e \in Entry : db.of[e] <= 1 /\ (db.of[e] > 0 => e <= db.cursor)
OnceTaken ==
    /\ batch.cursor # NoCursor => db.cursor < batch.cursor
    /\ \A e \in Entry :
        /\ batch.of[e] <= 1
        /\ batch.of[e] > 0 => db.cursor < e /\ e <= batch.cursor
\* Of an item that stands after the place m.
OnceItem(it, m) ==
    /\ m < it.cursor /\ it.cursor <= reader.read
    /\ \A e \in Entry :
        /\ it.of[e] <= 1
        /\ it.of[e] > 0 => m < e /\ e <= it.cursor
OnceQueued ==
    \A i \in 1 .. Len(queue) :
        /\ OnceItem(queue[i], Mark)
        /\ \A j \in 1 .. Len(queue) : j < i => OnceItem(queue[i], queue[j].cursor)
OneReader ==
    /\ pipes = << >>
    /\ stage # "down" => reader.alive /\ Mark <= reader.read
    /\ stage = "down" => queue = << >> /\ batch = EmptyBatch

OnceIInv == faults.deaths = 0 => OneReader /\ OnceStored /\ OnceTaken /\ OnceQueued

LEMMA OnceTypes ==
    ASSUME TypeOK
    PROVE  /\ queue \in Seq(Item) /\ Len(queue) \in Nat
           /\ \A i \in 1 .. Len(queue) : queue[i] \in Item
           /\ reader.read \in Nat /\ Len(journal) \in Nat
           /\ db.of \in Counts /\ batch.of \in Counts
           /\ db.cursor \in Int /\ batch.cursor \in Int /\ Mark \in Int
           /\ db.cursor >= -1 /\ batch.cursor >= -1 /\ Mark >= -1
           /\ \A e \in Entry : e \in Nat /\ e >= 1
           /\ faults.deaths \in Nat
<1>1. queue \in Seq(Item) /\ Len(queue) \in Nat /\ \A i \in 1 .. Len(queue) : queue[i] \in Item
  <2>1. queue \in Seq(Item)
    BY DEF TypeOK
  <2> QED
    BY <2>1
<1>2. reader.read \in Nat /\ Len(journal) \in Nat /\ faults.deaths \in Nat
  BY DEF TypeOK
<1>3. /\ db.of \in Counts /\ batch.of \in Counts
      /\ db.cursor \in Cursor /\ batch.cursor \in Cursor
  BY DEF TypeOK, Buffer
<1>4. /\ db.cursor \in Int /\ batch.cursor \in Int /\ db.cursor >= -1 /\ batch.cursor >= -1
  BY <1>3 DEF Cursor, NoCursor
<1>5. Mark \in Int /\ Mark >= -1
  BY <1>4 DEF Mark
<1>6. \A e \in Entry : e \in Nat /\ e >= 1
  BY DEF Entry
<1> QED
  BY <1>1, <1>2, <1>3, <1>4, <1>5, <1>6

\* The types of an item.
LEMMA OnceItemTypes ==
    ASSUME NEW it \in Item
    PROVE  it.cursor \in Nat /\ it.of \in Counts /\ \A e \in Entry : it.of[e] \in Nat
BY DEF Item, Counts, Entry

LEMMA OnceInit == Init => OnceIInv
<1>1. \A e \in Entry : Nothing[e] = 0
  BY DEF Nothing
<1> QED
  BY <1>1 DEF Init, OnceIInv, OneReader, OnceStored, OnceTaken, OnceQueued, EmptyBatch,
     Mark, FirstCursor, NoCursor

\* The parts of the invariant of a run without deaths.
OnceParts == OneReader /\ OnceStored /\ OnceTaken /\ OnceQueued

\* The reader offers the entry after those it has read.
LEMMA OnceRead == ASSUME TypeOK, OnceParts, Read, TypeOK' PROVE OnceParts'
<1>1. PICK e \in Nat : e = reader.read + 1
  BY OnceTypes
<1>2. /\ Offer(e) /\ reader' = [reader EXCEPT !.read = e]
      /\ reader.read < reader.sent /\ reader.sent \in 0 .. MaxLog
      /\ UNCHANGED <<journal, pipes, stage, taken, engine, db>> /\ stage # "down"
  BY <1>1 DEF Read, TypeOK
<1>3. e \in Entry /\ reader'.read = e /\ reader'.alive = reader.alive /\ batch' = batch
      /\ Mark' = Mark
  <2>1. e \in Entry
    <3>0. reader.read \in Nat /\ reader.sent \in Nat /\ reader.sent <= MaxLog
      <4>1. reader.sent \in 0 .. MaxLog /\ MaxLog \in Nat
        BY <1>2
      <4>2. reader.read \in Nat
        BY OnceTypes
      <4> QED
        BY <4>1, <4>2
    <3>1. PICK r \in Nat, n \in Nat : r = reader.read /\ n = reader.sent /\ n <= MaxLog
      BY <3>0
    <3>2. r < n /\ e = r + 1
      BY <1>1, <1>2, <3>1
    <3> QED
      BY <3>1, <3>2 DEF Entry
  <2>2. batch' = batch /\ Mark' = Mark
    BY <1>2 DEF engine, Mark
  <2>3. reader'.read = e /\ reader'.alive = reader.alive
    BY <1>2 DEF TypeOK
  <2> QED
    BY <2>1, <2>2, <2>3
<1>4. Mark <= reader.read /\ reader.alive /\ pipes = << >>
  BY <1>2 DEF OnceParts, OneReader
<1>5. OneReader' /\ OnceStored' /\ OnceTaken'
  <2>1. Mark' <= reader'.read
    BY <1>1, <1>3, <1>4, OnceTypes
  <2>2. OneReader'
    BY <1>2, <1>3, <1>4, <2>1 DEF OneReader
  <2>3. OnceStored' /\ OnceTaken'
    BY <1>2, <1>3 DEF OnceParts, OnceStored, OnceTaken
  <2> QED
    BY <2>2, <2>3
<1>t. /\ queue \in Seq(Item) /\ Len(queue) \in Nat /\ Mark \in Int
      /\ \A i \in 1 .. Len(queue) : /\ queue[i].cursor \in Nat
                                    /\ \A x \in Entry : queue[i].of[x] \in Nat
      /\ \A x \in Entry : x \in Nat
  BY OnceTypes, OnceItemTypes
<1>r. reader.read \in Nat /\ \A x \in Entry : x \in Nat
  BY OnceTypes
<1>b. ASSUME NEW i \in 1 .. Len(queue)
      PROVE  /\ Mark < queue[i].cursor /\ queue[i].cursor <= reader.read
             /\ \A x \in Entry :
                 /\ queue[i].of[x] <= 1
                 /\ queue[i].of[x] > 0 => Mark < x /\ x <= queue[i].cursor
             /\ \A j \in 1 .. Len(queue) : j < i =>
                  /\ queue[j].cursor < queue[i].cursor
                  /\ \A x \in Entry : queue[i].of[x] > 0 => queue[j].cursor < x
  BY DEF OnceParts, OnceQueued, OnceItem
\* The items after the offer: some that were there, and the one that has e.
<1>6. \E s \in {0, 1}, n \in Nat :
        /\ Len(queue') = n + 1 /\ n + s <= Len(queue)
        /\ \A i \in 1 .. n : queue'[i] = queue[i + s]
        /\ queue'[n + 1].cursor = e
        /\ \A x \in Entry : queue'[n + 1].of[x] > 0 =>
             x = e \/ (n + s + 1 = Len(queue) /\ queue[Len(queue)].of[x] > 0)
        /\ \A x \in Entry : queue'[n + 1].of[x] <= 1
  <2>n. \A x \in Entry : Plus(Nothing, e)[x] = IF x = e THEN 1 ELSE 0
    <3>1. Nothing \in [Entry -> Int] /\ \A x \in Entry : Nothing[x] = 0
      BY DEF Nothing
    <3>2. \A c \in [Entry -> Int], x \in Entry :
             Plus(c, e)[x] = IF x = e THEN c[x] + 1 ELSE c[x]
      BY <1>3 DEF Plus
    <3>3. ASSUME NEW x \in Entry PROVE Plus(Nothing, e)[x] = IF x = e THEN 1 ELSE 0
      <4>1. Plus(Nothing, e)[x] = IF x = e THEN Nothing[x] + 1 ELSE Nothing[x]
        BY <3>1, <3>2
      <4>2. Nothing[x] = 0
        BY <3>1
      <4> QED
        BY <4>1, <4>2
    <3> QED
      BY <3>3
  <2>1. CASE OfferMerged(e)
    <3> DEFINE n == Len(queue)
               it == [of |-> Plus(queue[n].of, e), cursor |-> e]
    <3>1. n \in 1 .. n /\ queue[n] \in Item
      BY <1>t, <2>1 DEF OfferMerged, Merges
    <3>2. queue' = [queue EXCEPT ![n] = it]
      BY <2>1 DEF OfferMerged
    <3>3. \A x \in Entry : it.of[x] = IF x = e THEN queue[n].of[x] + 1 ELSE queue[n].of[x]
      BY <1>3, <3>1, OnceItemTypes DEF Plus, Counts
    <3>4. Len(queue') = n /\ queue'[n] = it /\ \A i \in 1 .. n : i # n => queue'[i] = queue[i]
      <4>1. it \in Item
        BY <1>3, <3>1, OnceItemTypes, PlusCounts DEF Item
      <4> HIDE DEF it
      <4> QED
        BY <1>t, <3>1, <3>2, <4>1, ExceptSeq
    <3>5. \A x \in Entry : queue[n].of[x] > 0 => x <= reader.read
      BY <1>b, <1>t, <1>r, <3>1
    <3>6. \A x \in Entry : it.of[x] <= 1
      <4>1. ~(queue[n].of[e] > 0)
        BY <1>1, <1>3, <1>r, <3>5
      <4> QED
        BY <1>b, <1>t, <1>3, <3>1, <3>3, <4>1
    <3>7. PICK k \in Nat : k + 1 = n
      BY <1>t, <3>1
    <3>8. it.cursor = e /\ \A x \in Entry : it.of[x] > 0 => x = e \/ queue[n].of[x] > 0
      BY <3>3
    <3> HIDE DEF it, n
    <3>9. \A i \in 1 .. k : queue'[i] = queue[i + 0]
      BY <1>t, <3>4, <3>7 DEF n
    <3>10. /\ Len(queue') = k + 1 /\ k + 0 <= Len(queue)
           /\ queue'[k + 1].cursor = e
           /\ \A x \in Entry : queue'[k + 1].of[x] > 0 =>
                x = e \/ (k + 0 + 1 = Len(queue) /\ queue[Len(queue)].of[x] > 0)
           /\ \A x \in Entry : queue'[k + 1].of[x] <= 1
      BY <3>4, <3>6, <3>7, <3>8 DEF n
    <3> QED
      BY <3>9, <3>10
  <2> DEFINE it == [of |-> Plus(Nothing, e), cursor |-> e]
  <2>2. it \in Item /\ it.cursor = e /\ \A x \in Entry : it.of[x] = IF x = e THEN 1 ELSE 0
    BY <1>3, <2>n, NewItem
  <2> HIDE DEF it
  <2>3. CASE OfferNew(e)
    <3>1. queue' = Append(queue, it)
      BY <2>3 DEF OfferNew, it
    <3>2. Len(queue') = Len(queue) + 1 /\ queue'[Len(queue) + 1] = it
          /\ \A i \in 1 .. Len(queue) : queue'[i] = queue[i + 0]
      BY <1>t, <2>2, <3>1, AppendProperties
    <3> QED
      BY <1>t, <2>2, <3>2
  <2>4. CASE OfferEvicting(e)
    <3>1. queue' = Append(Tail(queue), it) /\ Len(queue) = QueueMax
      BY <2>4 DEF OfferEvicting, it
    <3>2. PICK k \in Nat : k + 1 = Len(queue)
      BY <1>t, <3>1
    <3>3. Tail(queue) \in Seq(Item) /\ Len(Tail(queue)) = k
          /\ \A i \in 1 .. k : Tail(queue)[i] = queue[i + 1]
      BY <1>t, <3>2
    <3>4. Len(queue') = k + 1 /\ queue'[k + 1] = it
          /\ \A i \in 1 .. k : queue'[i] = queue[i + 1]
      BY <2>2, <3>1, <3>3, AppendProperties
    <3> QED
      BY <2>2, <3>2, <3>4
  <2> QED
    BY <1>2, <2>1, <2>3, <2>4 DEF Offer
<1>7. PICK s \in {0, 1}, n \in Nat :
        /\ Len(queue') = n + 1 /\ n + s <= Len(queue)
        /\ \A i \in 1 .. n : queue'[i] = queue[i + s]
        /\ queue'[n + 1].cursor = e
        /\ \A x \in Entry : queue'[n + 1].of[x] > 0 =>
             x = e \/ (n + s + 1 = Len(queue) /\ queue[Len(queue)].of[x] > 0)
        /\ \A x \in Entry : queue'[n + 1].of[x] <= 1
  BY <1>6
<1>8. \A i \in 1 .. n : i + s \in 1 .. Len(queue)
  BY <1>7, <1>t
<1>9. ASSUME NEW i \in 1 .. n
      PROVE  /\ Mark < queue'[i].cursor /\ queue'[i].cursor <= e
             /\ \A x \in Entry :
                 /\ queue'[i].of[x] <= 1
                 /\ queue'[i].of[x] > 0 => Mark < x /\ x <= queue'[i].cursor
             /\ \A j \in 1 .. n : j < i =>
                  /\ queue'[j].cursor < queue'[i].cursor
                  /\ \A x \in Entry : queue'[i].of[x] > 0 => queue'[j].cursor < x
  <2>1. queue'[i] = queue[i + s] /\ i + s \in 1 .. Len(queue)
    BY <1>7, <1>8
  <2>2. queue'[i].cursor <= e
    BY <1>1, <1>b, <1>t, <1>r, <2>1
  <2>3. ASSUME NEW j \in 1 .. n, j < i
        PROVE  /\ queue'[j].cursor < queue'[i].cursor
               /\ \A x \in Entry : queue'[i].of[x] > 0 => queue'[j].cursor < x
    <3>1. queue'[j] = queue[j + s] /\ j + s \in 1 .. Len(queue) /\ j + s < i + s
      BY <1>7, <1>8, <2>3
    <3> QED
      BY <1>b, <2>1, <3>1
  <2> QED
    BY <1>b, <2>1, <2>2, <2>3
<1>10. /\ Mark < e
       /\ \A x \in Entry : queue'[n + 1].of[x] > 0 => Mark < x /\ x <= e
       /\ \A j \in 1 .. n :
            /\ queue'[j].cursor < e
            /\ \A x \in Entry : queue'[n + 1].of[x] > 0 => queue'[j].cursor < x
  <2>1. Mark < e
    BY <1>1, <1>4, <1>t, <1>r
  <2>2. ASSUME NEW x \in Entry, queue'[n + 1].of[x] > 0, x # e
        PROVE  /\ Mark < x /\ x <= e
               /\ \A j \in 1 .. n : queue'[j].cursor < x
    <3>1. n + s + 1 = Len(queue) /\ queue[Len(queue)].of[x] > 0
          /\ Len(queue) \in 1 .. Len(queue)
      BY <1>7, <1>t, <2>2
    <3>2. Mark < x /\ x <= queue[Len(queue)].cursor /\ queue[Len(queue)].cursor <= reader.read
      BY <1>b, <3>1
    <3>3. x <= e
      BY <1>1, <1>t, <1>r, <3>1, <3>2
    <3>4. ASSUME NEW j \in 1 .. n PROVE queue'[j].cursor < x
      <4>1. queue'[j] = queue[j + s] /\ j + s \in 1 .. Len(queue) /\ j + s < Len(queue)
        BY <1>7, <1>8, <1>t, <3>1
      <4> QED
        BY <1>b, <3>1, <4>1
    <3> QED
      BY <3>2, <3>3, <3>4
  <2>3. ASSUME NEW j \in 1 .. n PROVE queue'[j].cursor < e
    <3>1. queue'[j] = queue[j + s] /\ j + s \in 1 .. Len(queue)
      BY <1>7, <1>8
    <3> QED
      BY <1>1, <1>b, <1>t, <1>r, <3>1
  <2> QED
    BY <1>3, <1>t, <2>1, <2>2, <2>3
<1>11. ASSUME NEW i \in 1 .. n + 1
       PROVE  /\ Mark < queue'[i].cursor /\ queue'[i].cursor <= e
              /\ \A x \in Entry :
                  /\ queue'[i].of[x] <= 1
                  /\ queue'[i].of[x] > 0 => Mark < x /\ x <= queue'[i].cursor
              /\ \A j \in 1 .. n + 1 : j < i =>
                   /\ queue'[j].cursor < queue'[i].cursor
                   /\ \A x \in Entry : queue'[i].of[x] > 0 => queue'[j].cursor < x
  <2>1. CASE i = n + 1
    <3>1. \A j \in 1 .. n + 1 : j < i => j \in 1 .. n
      BY <2>1
    <3>2. queue'[i].cursor = e /\ \A x \in Entry : queue'[i].of[x] <= 1
      BY <1>7, <2>1
    <3> QED
      BY <1>10, <1>t, <1>3, <2>1, <3>1, <3>2
  <2>2. CASE i # n + 1
    <3>1. i \in 1 .. n /\ \A j \in 1 .. n + 1 : j < i => j \in 1 .. n
      BY <2>2
    <3> QED
      BY <1>9, <3>1
  <2> QED
    BY <2>1, <2>2
<1>12. OnceQueued'
  BY <1>3, <1>7, <1>11 DEF OnceQueued, OnceItem
<1> QED
  BY <1>5, <1>12 DEF OnceParts

\* The drain takes the oldest item, which is beyond the batch.
LEMMA OnceTake == ASSUME TypeOK, OnceParts, TakeItem, TypeOK' PROVE OnceParts'
<1>1. /\ stage = "draining" /\ queue # << >>
      /\ batch' = [of |-> Union(batch.of, queue[1].of), cursor |-> queue[1].cursor]
      /\ queue' = Tail(queue)
      /\ UNCHANGED <<reader, pipes, stage, db>>
  BY DEF TakeItem
<1>t. /\ queue \in Seq(Item) /\ Len(queue) \in Nat /\ Mark \in Int /\ reader.read \in Nat
      /\ db.cursor \in Int /\ batch.cursor \in Int /\ db.cursor >= -1
      /\ \A i \in 1 .. Len(queue) : /\ queue[i].cursor \in Nat
                                    /\ \A x \in Entry : queue[i].of[x] \in Nat
      /\ \A x \in Entry : x \in Nat
  BY OnceTypes, OnceItemTypes
<1>2. PICK n \in Nat : n + 1 = Len(queue)
  <2>1. Len(queue) # 0
    BY <1>1, <1>t
  <2> QED
    BY <1>t, <2>1
<1>3. Len(queue') = n /\ \A i \in 1 .. n : queue'[i] = queue[i + 1]
  BY <1>1, <1>2, <1>t
<1>4. batch'.cursor = queue[1].cursor /\ 1 \in 1 .. Len(queue) /\ queue[1].cursor \in Nat
      /\ Mark' = queue[1].cursor
  BY <1>1, <1>2, <1>t DEF Mark, NoCursor
<1>5. /\ Mark < queue[1].cursor /\ queue[1].cursor <= reader.read
      /\ \A x \in Entry : /\ queue[1].of[x] <= 1
                          /\ queue[1].of[x] > 0 => Mark < x /\ x <= queue[1].cursor
  BY <1>4 DEF OnceParts, OnceQueued, OnceItem
<1>6. db.cursor <= Mark /\ \A x \in Entry : /\ batch.of[x] \in Nat /\ batch.of[x] <= 1
                                            /\ batch.of[x] > 0 => db.cursor < x /\ x <= Mark
  <2>1. \A x \in Entry : batch.of[x] \in Nat
    BY OnceTypes DEF Counts
  <2>2. \A x \in Entry : batch.of[x] > 0 => batch.cursor # NoCursor
    BY <1>t DEF OnceParts, OnceTaken, NoCursor
  <2>3. db.cursor <= Mark
    BY <1>t DEF OnceParts, OnceTaken, Mark
  <2> QED
    BY <2>1, <2>2, <2>3 DEF OnceParts, OnceTaken, Mark
<1>7. OnceTaken'
  <2>1. \A x \in Entry : batch'.of[x] = batch.of[x] + queue[1].of[x]
    BY <1>1 DEF Union
  <2>2. db'.cursor < batch'.cursor
    BY <1>1, <1>4, <1>5, <1>6, <1>t
  <2>3. ASSUME NEW x \in Entry
        PROVE  /\ batch'.of[x] <= 1
               /\ batch'.of[x] > 0 => db'.cursor < x /\ x <= batch'.cursor
    <3>1. batch.of[x] \in {0, 1} /\ queue[1].of[x] \in {0, 1} /\ x \in Nat
      BY <1>4, <1>5, <1>6, <1>t, SMTT(30)
    <3>2. ~(batch.of[x] > 0 /\ queue[1].of[x] > 0)
      BY <1>5, <1>6, <1>t, <3>1
    <3>3. batch.of[x] > 0 => db.cursor < x /\ x <= queue[1].cursor
      BY <1>4, <1>5, <1>6, <1>t, <3>1
    <3>4. queue[1].of[x] > 0 => db.cursor < x /\ x <= queue[1].cursor
      BY <1>4, <1>5, <1>6, <1>t, <3>1
    <3> QED
      BY <1>1, <1>4, <2>1, <3>1, <3>2, <3>3, <3>4
  <2> QED
    BY <2>2, <2>3 DEF OnceTaken
<1>8. OnceQueued'
  <2>1. ASSUME NEW i \in 1 .. n
        PROVE  /\ OnceItem(queue'[i], Mark')
               /\ \A j \in 1 .. n : j < i => OnceItem(queue'[i], queue'[j].cursor)
    <3>1. i + 1 \in 1 .. Len(queue) /\ 1 < i + 1
          /\ \A j \in 1 .. n : j + 1 \in 1 .. Len(queue) /\ (j < i => j + 1 < i + 1)
      BY <1>2
    <3>2. OnceItem(queue[i + 1], queue[1].cursor)
          /\ \A j \in 1 .. n : j < i => OnceItem(queue[i + 1], queue[j + 1].cursor)
      BY <1>4, <3>1 DEF OnceParts, OnceQueued
    <3> QED
      BY <1>3, <1>4, <3>2
  <2>2. reader'.read = reader.read /\ Len(queue') = n
    BY <1>1, <1>3
  <2> QED
    BY <2>1, <2>2 DEF OnceQueued, OnceItem
<1>9. OneReader' /\ OnceStored'
  BY <1>1, <1>4, <1>5 DEF OnceParts, OneReader, OnceStored
<1> QED
  BY <1>7, <1>8, <1>9 DEF OnceParts

\* What the batch had is stored or dropped.
LEMMA OnceCommit == ASSUME TypeOK, OnceParts, Commit \/ CommitLocked PROVE OnceParts'
<1>1. /\ UNCHANGED <<reader, pipes, queue>> /\ stage = "commit" /\ stage' = "supervise"
      /\ batch' = EmptyBatch
      /\ \/ db' = db
         \/ db' = [of |-> Union(db.of, batch.of),
                   cursor |-> IF batch.cursor = NoCursor THEN db.cursor ELSE batch.cursor]
  BY DEF Commit, CommitLocked
<1>2. batch'.cursor = NoCursor /\ (\A e \in Entry : batch'.of[e] = 0)
      /\ Mark' = db'.cursor
  BY <1>1 DEF EmptyBatch, Nothing, Mark
<1>t. /\ db.cursor \in Int /\ Mark \in Int /\ reader.read \in Nat /\ db.cursor >= -1
      /\ \A e \in Entry : e \in Nat /\ e >= 1 /\ db.of[e] \in Nat /\ batch.of[e] \in Nat
      /\ \A i \in 1 .. Len(queue) : queue[i].cursor \in Nat
  BY OnceTypes, OnceItemTypes DEF Counts
<1>3. db.cursor <= Mark /\ (batch.cursor = NoCursor => \A e \in Entry : batch.of[e] = 0)
  <2>1. db.cursor <= Mark
    BY <1>t, OnceTypes DEF OnceParts, OnceTaken, Mark
  <2>2. ASSUME batch.cursor = NoCursor, NEW e \in Entry PROVE batch.of[e] = 0
    BY <1>t, <2>2 DEF OnceParts, OnceTaken, NoCursor
  <2> QED
    BY <2>1, <2>2
<1>4. db'.cursor \in Int /\ db'.cursor <= Mark
  BY <1>1, <1>3, <1>t DEF Mark
<1>5. OnceStored'
  <2>1. CASE db' = db
    BY <2>1 DEF OnceParts, OnceStored
  <2>2. CASE db' # db
    <3>1. db'.cursor = Mark /\ \A e \in Entry : db'.of[e] = db.of[e] + batch.of[e]
      BY <1>1, <2>2 DEF Union, Mark
    <3>2. ASSUME NEW e \in Entry
          PROVE  /\ db.of[e] \in {0, 1} /\ batch.of[e] \in {0, 1}
                 /\ ~(db.of[e] > 0 /\ batch.of[e] > 0)
                 /\ db.of[e] > 0 \/ batch.of[e] > 0 => e <= Mark
      <4>1. /\ db.of[e] <= 1 /\ (db.of[e] > 0 => e <= db.cursor)
            /\ batch.of[e] <= 1 /\ (batch.of[e] > 0 => db.cursor < e /\ e <= batch.cursor)
        BY DEF OnceParts, OnceStored, OnceTaken
      <4>2. batch.of[e] > 0 => Mark = batch.cursor
        BY <1>3, <1>t DEF Mark
      <4> QED
        BY <1>3, <1>t, <4>1, <4>2
    <3>3. ASSUME NEW e \in Entry
          PROVE  db'.of[e] <= 1 /\ (db'.of[e] > 0 => e <= db'.cursor)
      BY <3>1, <3>2, <3>3
    <3> QED
      BY <3>3 DEF OnceStored
  <2> QED
    BY <2>1, <2>2
<1>6. OnceTaken'
  BY <1>2 DEF OnceTaken
<1>7. OnceQueued'
  <2>1. ASSUME NEW i \in 1 .. Len(queue)
        PROVE  /\ Mark' < queue[i].cursor /\ queue[i].cursor <= reader.read
               /\ \A e \in Entry :
                   /\ queue[i].of[e] <= 1
                   /\ queue[i].of[e] > 0 => Mark' < e /\ e <= queue[i].cursor
    <3>1. OnceItem(queue[i], Mark)
      BY DEF OnceParts, OnceQueued
    <3> QED
      BY <1>2, <1>4, <1>t, <3>1 DEF OnceItem
  <2>2. \A i \in 1 .. Len(queue), j \in 1 .. Len(queue) :
           j < i => OnceItem(queue[i], queue[j].cursor)
    BY DEF OnceParts, OnceQueued
  <2> QED
    BY <1>1, <2>1, <2>2 DEF OnceQueued, OnceItem
<1>8. OneReader'
  <2>0. Mark <= reader.read
    BY <1>1 DEF OnceParts, OneReader
  <2>1. Mark' <= reader.read
    BY <1>2, <1>4, <1>t, <2>0
  <2> QED
    BY <1>1, <2>1 DEF OnceParts, OneReader
<1> QED
  BY <1>5, <1>6, <1>7, <1>8 DEF OnceParts

\* A daemon begins at the stored cursor, with nothing in its queue.
LEMMA OnceStart == ASSUME TypeOK, OnceParts, Start PROVE OnceParts'
<1>1. /\ stage = "down" /\ stage' = "supervise" /\ queue' = << >> /\ pipes' = << >>
      /\ batch' = EmptyBatch /\ db' = db /\ StartAt(db.cursor) /\ batch = EmptyBatch
  BY DEF Start, OnceParts, OneReader
<1>2. batch'.cursor = NoCursor /\ Mark' = db.cursor
  BY <1>1 DEF EmptyBatch, Mark
<1>3. reader'.alive /\ db.cursor <= reader'.read
  BY <1>1, OnceTypes DEF StartAt, NoCursor
<1>4. OneReader' /\ OnceQueued'
  BY <1>1, <1>2, <1>3 DEF OneReader, OnceQueued
<1>5. OnceStored' /\ OnceTaken'
  BY <1>1 DEF OnceParts, OnceStored, OnceTaken
<1> QED
  BY <1>4, <1>5 DEF OnceParts

\* A daemon that dies takes its queue and its batch with it.
LEMMA OnceCrash == ASSUME TypeOK, OnceParts, Crash PROVE OnceParts'
<1>1. /\ stage' = "down" /\ queue' = << >> /\ pipes' = << >> /\ batch' = EmptyBatch
      /\ db' = db
  BY DEF Crash
<1>2. batch'.cursor = NoCursor /\ \A e \in Entry : batch'.of[e] = 0
  BY <1>1 DEF EmptyBatch, Nothing
<1> QED
  BY <1>1, <1>2 DEF OnceParts, OneReader, OnceStored, OnceTaken, OnceQueued

\* As long as nobody kills a journalctl.
LEMMA OnceStep == Typed /\ OnceIInv /\ [Next]_vars => OnceIInv'
<1> SUFFICES ASSUME Typed, OnceIInv, [Next]_vars, faults'.deaths = 0 PROVE OnceParts'
  BY DEF OnceIInv, OnceParts
<1>1. TypeOK /\ TypeOK'
  BY TypeStep DEF Typed
<1>2. faults.deaths \in Nat /\ (faults.deaths # 0 => faults'.deaths # 0)
  <2>1. faults \in [deaths : 0 .. MaxDeaths, locks : 0 .. MaxLocks,
                    crashes : 0 .. MaxCrashes] /\ faults.deaths \in Nat
    BY <1>1 DEF TypeOK
  <2>2. \/ faults' = faults
        \/ faults' = [faults EXCEPT !.deaths = @ + 1]
        \/ faults' = [faults EXCEPT !.locks = @ + 1]
        \/ faults' = [faults EXCEPT !.crashes = @ + 1]
    BY DEF Next, Log, Send, Die, Read, ReadLeftover, Supervise, TakeLock, TakeItem,
           Drained, Observe, Commit, CommitLocked, Crash, Start, vars
  <2> QED
    BY <2>1, <2>2
<1>3. OnceParts /\ faults.deaths = 0
  BY <1>2 DEF OnceIInv, OnceParts
<1>4. ~Die /\ \A i \in 1 .. Len(pipes) : ~ReadLeftover(i)
  <2>1. ASSUME Die PROVE FALSE
    <3>1. faults' = [faults EXCEPT !.deaths = @ + 1]
      BY <2>1 DEF Die
    <3>2. faults \in [deaths : 0 .. MaxDeaths, locks : 0 .. MaxLocks,
                      crashes : 0 .. MaxCrashes]
      BY <1>1 DEF TypeOK
    <3> QED
      BY <1>3, <3>1, <3>2
  <2>2. 1 .. Len(pipes) = {}
    BY <1>3 DEF OnceParts, OneReader
  <2> QED
    BY <2>1, <2>2
<1>5. CASE \/ \E t \in Text : Log(t)
           \/ Send \/ Supervise \/ TakeLock \/ Drained \/ Observe \/ UNCHANGED vars
  <2>1. /\ UNCHANGED <<queue, db, batch, pipes>> /\ (stage' = "down" <=> stage = "down")
        /\ reader'.read = reader.read /\ (reader.alive => reader'.alive)
    <3>1. CASE Send
      <4>1. reader' = [reader EXCEPT !.sent = @ + 1]
            /\ UNCHANGED <<queue, db, batch, pipes, stage>>
        BY <3>1 DEF Send, engine
      <4> QED
        BY <1>1, <4>1 DEF TypeOK
    <3>2. CASE Supervise
      <4>1. reader.alive
        BY <1>3, <3>2 DEF Supervise, OnceParts, OneReader
      <4> QED
        BY <3>2, <4>1 DEF Supervise, SuperviseAlive, SuperviseRestart, SuperviseWait
    <3>3. CASE (\E t \in Text : Log(t)) \/ TakeLock \/ Drained \/ Observe \/ UNCHANGED vars
      BY <3>3 DEF Log, TakeLock, Drained, Observe, vars, engine
    <3> QED
      BY <1>5, <3>1, <3>2, <3>3
  <2>2. Mark' = Mark
    BY <2>1 DEF Mark
  <2>3. OneReader'
    BY <1>3, <2>1, <2>2 DEF OnceParts, OneReader
  <2>4. OnceStored' /\ OnceTaken'
    BY <1>3, <2>1 DEF OnceParts, OnceStored, OnceTaken
  <2>5. OnceQueued'
    BY <1>3, <2>1, <2>2 DEF OnceParts, OnceQueued, OnceItem
  <2> QED
    BY <2>3, <2>4, <2>5 DEF OnceParts
<1> QED
  BY <1>1, <1>3, <1>4, <1>5, OnceRead, OnceTake, OnceCommit, OnceStart, OnceCrash,
     Zenon DEF Next

(***************************************************************************)
(* DM-15 on Linux: as long as journalctl lives, no entry is stored twice,  *)
(* for any number of entries, crashes and locked commits, and any          *)
(* interleaving of the reader with the tick.                               *)
(***************************************************************************)
THEOREM StoredAlwaysOnce == Spec => []StoredOnceWhileReaderLives
<1>1. OnceIInv => StoredOnceWhileReaderLives
  BY DEF OnceIInv, OnceStored, StoredOnceWhileReaderLives
<1>2. IInv => Typed
  BY DEF IInv
<1> QED
  BY <1>1, <1>2, OnceInit, OnceStep, IInvHolds, PTL DEF Spec

-----------------------------------------------------------------------------
(***************************************************************************)
(* A composite of bookmarks covers its channels: for any number of         *)
(* channels, subscriptions that fail and daemons that die, up to each      *)
(* stored bookmark every event is stored, unreadable, or lost in one of    *)
(* the named ways; and no event is stored twice.                           *)
(*                                                                         *)
(* Every bookmark is covered by what is in front of it, as the cursors of  *)
(* the journal are.  That nothing comes twice needs the other direction:   *)
(* beyond a bookmark of its channel nothing is stored or in the batch, and *)
(* what is queued is beyond the committed bookmark and the bookmarks of    *)
(* the items before it.                                                    *)
(***************************************************************************)
HIDE IngestAssumption

\* The bounds are numbers.
LEMMA WinBounds ==
    Others.log \in Nat /\ QueueMax \in Nat \ {0} /\ DrainBudget \in Nat \ {0}
BY IngestAssumption, SourcesAssumption

USE WinBounds

\* The values of the state.
WinBookmark  == {Win!Absent} \cup 0 .. Others.log
WinComposite == [Channel -> WinBookmark]
WinEntries   == [Channel -> SUBSET Win!Place]
WinItem      == [of : WinEntries, last : [c : Channel, e : Win!Place],
    marks : WinComposite]

WinTyped ==
    /\ winChannel \in [Channel -> Seq(Others.text \cup {Malformed})]
    /\ \A c \in Channel : Len(winChannel[c]) <= Others.log
    /\ winSub \in [Channel -> [ok : BOOLEAN, sent : 0 .. Others.log]]
    /\ winQueue \in Seq(WinItem) /\ Len(winQueue) <= QueueMax
    /\ winCommitted \in WinComposite
    /\ winTick \in [stage : {"down", "supervise", "drain", "commit"},
                    last : WinComposite, of : WinEntries]
    /\ winDb \in [of : [Channel -> [Win!Place -> Nat]], cursor : WinComposite]
    /\ winLost \in [evicted : WinEntries, before : WinEntries, forgotten : WinEntries,
                    unsaved : WinEntries]
    /\ winKnown \in [begun : SUBSET Channel, failed : SUBSET Channel]

\* An event that is stored or lost in a way that has a name; that the batch
\* has as well; that one of the first n items has as well.
WinGone(c, e) ==
    \/ winDb.of[c][e] > 0 \/ winChannel[c][e] = Malformed
    \/ e \in winLost.evicted[c] \cup winLost.before[c]
    \/ e \in winLost.unsaved[c]
    \/ c \in winKnown.failed /\ e \in winLost.forgotten[c]
WinTaken(c, e)   == WinGone(c, e) \/ e \in winTick.of[c]
WinHeld(c, e, n) == WinTaken(c, e) \/ \E i \in 1..n : e \in winQueue[i].of[c]

\* No place is beyond its channel.
WinBounded(c) ==
    /\ winCommitted[c] <= winSub[c].sent \/ ~winSub[c].ok
    /\ winSub[c].sent <= Len(winChannel[c])
    /\ winCommitted[c] <= Len(winChannel[c])
    /\ winTick.last[c] <= Len(winChannel[c])
    /\ winDb.cursor[c] <= Len(winChannel[c])
    /\ \A e \in Win!Place :
         winDb.of[c][e] > 0 \/ e \in winTick.of[c] => e <= Len(winChannel[c])

\* A dead daemon has no queue; a batch has the committed composite.
WinDown ==
    winTick.stage = "down" =>
        winQueue = <<>> /\ winCommitted = Win!NoCursor
            /\ \A c \in Channel : ~winSub[c].ok
WinBatch ==
    /\ winTick.stage # "commit" => winTick.of = Win!Nothing
    /\ winTick.stage = "commit" =>
         \/ winTick.last = winCommitted
         \/ winCommitted = Win!NoCursor /\ winTick.of = Win!Nothing

\* A channel that is out of a composite has failed, or never began.
WinFollowed(c) ==
    /\ winSub[c].ok => winCommitted[c] # Win!Absent
    /\ winCommitted[c] = Win!Absent /\ winTick.stage # "down" => c \in winKnown.failed
    /\ /\ c \in winKnown.begun
       /\ \/ winDb.cursor[c] = Win!Absent
          \/ winTick.stage # "down" /\ winTick.last[c] = Win!Absent
       => c \in winKnown.failed

\* The items: in the order of the channel, each with its newest bookmark.
WinQueued(c) ==
    \A i \in 1..Len(winQueue) :
        /\ winQueue[i].marks[c] <= winSub[c].sent
        /\ winQueue[i].marks[c] # Win!Absent => winCommitted[c] # Win!Absent
        /\ \A e \in winQueue[i].of[c] :
             /\ winCommitted[c] # Win!Absent /\ winCommitted[c] < e
             /\ e <= winQueue[i].marks[c]
             /\ \A j \in 1..i-1 : winQueue[j].marks[c] < e

\* Up to every bookmark nothing is missing.
WinCovered(c) ==
    /\ \A e \in Win!Place : e <= winDb.cursor[c] => WinGone(c, e)
    /\ winTick.stage # "down" =>
         \A e \in Win!Place : e <= winTick.last[c] => WinTaken(c, e)
    /\ \A e \in Win!Place : e <= winCommitted[c] => WinTaken(c, e)
    /\ winCommitted[c] # Win!Absent =>
         \A e \in Win!Place : e <= winSub[c].sent => WinHeld(c, e, Len(winQueue))
    /\ \A i \in 1..Len(winQueue) :
         \A e \in Win!Place : e <= winQueue[i].marks[c] => WinHeld(c, e, i)

\* Beyond every bookmark nothing is stored.
WinOnce(c) ==
    \A e \in Win!Place :
        /\ winDb.of[c][e] <= 1
        /\ e \in winTick.of[c] => winDb.of[c][e] = 0
        /\ winCommitted[c] # Win!Absent /\ winCommitted[c] < e =>
                winDb.of[c][e] = 0 /\ e \notin winTick.of[c]
        /\ winTick.stage # "down" /\ winTick.last[c] # Win!Absent
           /\ winTick.last[c] < e =>
                winDb.of[c][e] = 0 /\ e \notin winTick.of[c]
        /\ winDb.cursor[c] # Win!Absent /\ winDb.cursor[c] < e => winDb.of[c][e] = 0

WinIInv ==
    /\ WinTyped /\ WinDown /\ WinBatch
    /\ \A c \in Channel :
         WinBounded(c) /\ WinFollowed(c) /\ WinQueued(c) /\ WinCovered(c) /\ WinOnce(c)
-----------------------------------------------------------------------------
\* A nonempty set of bookmarks has a newest.
LEMMA WinNewestExists ==
  ASSUME NEW S \in SUBSET WinBookmark, S # {}
  PROVE  \E m \in S : \A k \in S : k <= m
<1> DEFINE D == {Others.log - k : k \in S}
<1>0. \A k \in S : k \in Int /\ Others.log - k \in Nat
  BY DEF WinBookmark, Win!Absent
<1>1. D \in SUBSET Nat /\ D # {} /\ \A k \in S : Others.log - k \in D /\ k \in Int
  BY <1>0
<1>2. PICK x \in D : \A y \in D : x <= y
  <2> HIDE DEF D
  <2> QED BY <1>1, LeastNatural
<1>3. PICK m \in S : x = Others.log - m
  BY <1>2
<1>4. ASSUME NEW k \in S PROVE k <= m
  <2>1. k \in Int /\ m \in Int /\ Others.log \in Int
    BY <1>1
  <2>2. Others.log - m <= Others.log - k
    <3>1. Others.log - k \in D
      BY <1>1
    <3> QED
      BY <1>2, <1>3, <3>1
  <2> QED
    BY <2>1, <2>2
<1> QED
  BY <1>4

\* The types of what is empty.
LEMMA WinEmptyTypes ==
  /\ Win!Nothing \in WinEntries /\ Win!NoCursor \in WinComposite
  /\ \A c \in Channel : Win!Nothing[c] = {} /\ Win!NoCursor[c] = Win!Absent
  /\ Win!Absent = -1 /\ Win!Absent \in WinBookmark
  /\ \A c \in Channel, e \in Win!Place : Win!Alone(c, e) \in WinItem
BY DEF Win!Nothing, Win!NoCursor, WinEntries, WinComposite, WinBookmark, Win!Absent,
   Win!Alone, WinItem, Win!Place

\* The invariant of a channel.
WinParts(c) == WinBounded(c) /\ WinFollowed(c) /\ WinQueued(c) /\ WinCovered(c)
    /\ WinOnce(c)

\* The types of the fields.
LEMMA WinFields ==
  ASSUME WinTyped
  PROVE  /\ winQueue \in Seq(WinItem) /\ Len(winQueue) \in Nat
            /\ Len(winQueue) <= QueueMax
         /\ \A i \in 1..Len(winQueue) : winQueue[i] \in WinItem
            /\ winQueue[i].of \in WinEntries /\ winQueue[i].marks \in WinComposite
         /\ winTick.last \in WinComposite /\ winTick.of \in WinEntries
         /\ winDb.of \in [Channel -> [Win!Place -> Nat]]
            /\ winDb.cursor \in WinComposite
         /\ \A c \in Channel : 
              /\ winChannel[c] \in Seq(Others.text \cup {Malformed})
                 /\ Len(winChannel[c]) \in 0..Others.log
              /\ winSub[c].sent \in 0..Others.log /\ winSub[c].ok \in BOOLEAN
              /\ winCommitted[c] \in WinBookmark /\ winTick.last[c] \in WinBookmark
                 /\ winDb.cursor[c] \in WinBookmark
              /\ winDb.of[c] \in [Win!Place -> Nat]
                 /\ winTick.of[c] \in SUBSET Win!Place
              /\ \A i \in 1..Len(winQueue) : winQueue[i].marks[c] \in WinBookmark
                 /\ winQueue[i].of[c] \in SUBSET Win!Place
<1>1. winQueue \in Seq(WinItem) /\ Len(winQueue) \in Nat /\ Len(winQueue) <= QueueMax
  BY DEF WinTyped
<1>2. \A i \in 1..Len(winQueue) : winQueue[i] \in WinItem
  BY <1>1
<1>3. \A i \in 1..Len(winQueue) : winQueue[i].of \in WinEntries
      /\ winQueue[i].marks \in WinComposite
  BY <1>2 DEF WinItem
<1>4. winTick.last \in WinComposite /\ winTick.of \in WinEntries
      /\ winCommitted \in WinComposite
  BY DEF WinTyped
<1>5. winDb.of \in [Channel -> [Win!Place -> Nat]] /\ winDb.cursor \in WinComposite
  BY DEF WinTyped
<1>6. ASSUME NEW c \in Channel
      PROVE  /\ winChannel[c] \in Seq(Others.text \cup {Malformed})
                /\ Len(winChannel[c]) \in 0..Others.log
             /\ winSub[c].sent \in 0..Others.log /\ winSub[c].ok \in BOOLEAN
  BY DEF WinTyped
<1>7. ASSUME NEW c \in Channel
      PROVE  /\ winCommitted[c] \in WinBookmark /\ winTick.last[c] \in WinBookmark
                /\ winDb.cursor[c] \in WinBookmark
             /\ winDb.of[c] \in [Win!Place -> Nat] /\ winTick.of[c] \in SUBSET Win!Place
             /\ \A i \in 1..Len(winQueue) : winQueue[i].marks[c] \in WinBookmark
                /\ winQueue[i].of[c] \in SUBSET Win!Place
  BY <1>3, <1>4, <1>5 DEF WinComposite, WinEntries
<1> QED
  BY <1>1, <1>2, <1>3, <1>4, <1>5, <1>6, <1>7

\* Places and bookmarks are numbers.
LEMMA WinNumbers ==
  /\ \A e \in Win!Place : e \in Nat /\ e >= 1 /\ e <= Others.log
  /\ \A b \in WinBookmark : b \in Int /\ b >= -1 /\ b <= Others.log
     /\ (b # Win!Absent => b \in Nat)
  /\ Win!Absent = -1 /\ Win!Absent \in WinBookmark
  /\ 0..Others.log \subseteq WinBookmark
BY DEF Win!Place, WinBookmark, Win!Absent

\* So is a bookmark.
LEMMA WinMarksBelow ==
  ASSUME NEW m \in Int, NEW n \in Int, m <= n
  PROVE  \A b \in WinBookmark : b <= m => b <= n
BY WinNumbers

(* A place below a place that is below n is below n.                       *)
LEMMA WinBelow ==
  ASSUME NEW b \in Int, NEW n \in Int, b <= n
  PROVE  \A e \in Win!Place : e <= b => e <= n
BY WinNumbers

\* It holds initially.
LEMMA WinInitHolds == Win!Init => WinIInv
<1> SUFFICES ASSUME Win!Init PROVE WinIInv
  OBVIOUS
<1>1. winQueue = <<>> /\ Len(winQueue) = 0 /\ winCommitted = Win!NoCursor
      /\ winTick.stage = "down" /\ winTick.last = Win!NoCursor
      /\ winTick.of = Win!Nothing /\ winDb.cursor = Win!NoCursor
         /\ winKnown.begun = {} /\ winKnown.failed = {}
  BY DEF Win!Init
<1>2. WinTyped
  BY <1>1, WinEmptyTypes DEF Win!Init, WinTyped, WinEntries
<1>3. ASSUME NEW c \in Channel
      PROVE  /\ winChannel[c] = <<>> /\ Len(winChannel[c]) = 0 /\ winSub[c].ok = FALSE
                /\ winSub[c].sent = 0
             /\ winCommitted[c] = Win!Absent /\ winTick.last[c] = Win!Absent
                /\ winDb.cursor[c] = Win!Absent /\ winTick.of[c] = {}
             /\ \A e \in Win!Place : winDb.of[c][e] = 0
  BY <1>1, WinEmptyTypes DEF Win!Init
<1>4. ASSUME NEW c \in Channel PROVE WinParts(c)
  <2>0. /\ winChannel[c] = <<>> /\ Len(winChannel[c]) = 0 /\ winSub[c].ok = FALSE
           /\ winSub[c].sent = 0
        /\ winCommitted[c] = -1 /\ winTick.last[c] = -1 /\ winDb.cursor[c] = -1
           /\ winTick.of[c] = {}
        /\ \A e \in Win!Place : winDb.of[c][e] = 0 /\ e \in Nat /\ e >= 1
    BY <1>3, WinNumbers
  <2>1. WinBounded(c)
    BY <2>0 DEF WinBounded
  <2>2. WinFollowed(c)
    BY <1>1, <2>0 DEF WinFollowed
  <2>3. WinQueued(c)
    BY <1>1 DEF WinQueued
  <2>4. WinCovered(c)
    BY <1>1, <2>0 DEF WinCovered, Win!Absent
  <2>5. WinOnce(c)
    BY <1>1, <2>0 DEF WinOnce, Win!Absent
  <2> QED
    BY <2>1, <2>2, <2>3, <2>4, <2>5 DEF WinParts
<1> QED
  BY <1>1, <1>2, <1>3, <1>4 DEF WinIInv, WinParts, WinDown, WinBatch

\* The invariant, channel by channel.
LEMMA WinUnfold ==
  ASSUME WinIInv
  PROVE  WinTyped /\ WinDown /\ WinBatch /\ \A c \in Channel : WinParts(c)
BY DEF WinIInv, WinParts

\* The steps.  What is added is beyond every bookmark.
LEMMA WinLogStep == ASSUME WinIInv, Win!Log PROVE WinIInv'
<1> USE WinNumbers
<1>0. WinTyped /\ WinDown /\ WinBatch /\ \A c \in Channel : WinParts(c)
  BY WinUnfold
<1>1. PICK d \in Channel, says \in Others.text \cup {Malformed} :
        Len(winChannel[d]) < Others.log
            /\ winChannel' = [winChannel EXCEPT ![d] = Append(@, says)]
  BY DEF Win!Log
<1>2. UNCHANGED <<winSub, winQueue, winCommitted, winTick, winDb, winLost, winKnown,
      winFaults>>
  BY DEF Win!Log
<1>3. /\ winChannel \in [Channel -> Seq(Others.text \cup {Malformed})]
      /\ winChannel[d] \in Seq(Others.text \cup {Malformed})
         /\ Len(winChannel[d]) \in 0..Others.log
      /\ \A c \in Channel : Len(winChannel[c]) \in 0..Others.log
  BY <1>0, WinFields DEF WinTyped
<1>4. /\ Append(winChannel[d], says) \in Seq(Others.text \cup {Malformed})
      /\ Len(Append(winChannel[d], says)) = Len(winChannel[d]) + 1
      /\ \A e \in 1..Len(winChannel[d]) : Append(winChannel[d],
         says)[e] = winChannel[d][e]
  BY <1>3
<1>5. \A c \in Channel : winChannel'[c] = IF c = d THEN Append(winChannel[d], says)
      ELSE winChannel[c]
  BY <1>1, <1>3
<1>6. /\ winChannel' \in [Channel -> Seq(Others.text \cup {Malformed})]
      /\ \A c \in Channel : Len(winChannel[c]) <= Len(winChannel'[c])
         /\ Len(winChannel'[c]) <= Others.log /\ Len(winChannel'[c]) \in Nat
      /\ \A c \in Channel : \A e \in 1..Len(winChannel[c]) : winChannel'[c][e] = winChannel[c][e]
  BY <1>1, <1>3, <1>4, <1>5
<1>7. WinTyped'
  BY <1>0, <1>2, <1>6 DEF WinTyped
<1>8. WinDown' /\ WinBatch'
  BY <1>0, <1>2 DEF WinDown, WinBatch
<1>9. ASSUME NEW c \in Channel PROVE WinParts(c)'
  <2>0. WinBounded(c) /\ WinFollowed(c) /\ WinQueued(c) /\ WinCovered(c) /\ WinOnce(c)
    BY <1>0 DEF WinParts
  <2>1. /\ Len(winChannel[c]) \in 0..Others.log /\ Len(winChannel'[c]) \in Nat
           /\ Len(winChannel[c]) <= Len(winChannel'[c])
        /\ winSub[c].sent \in 0..Others.log
        /\ winCommitted[c] \in WinBookmark /\ winTick.last[c] \in WinBookmark
           /\ winDb.cursor[c] \in WinBookmark
        /\ \A i \in 1..Len(winQueue) : winQueue[i].marks[c] \in WinBookmark
    BY <1>0, <1>3, <1>6, WinFields
  <2>2. \A e \in Win!Place : e <= Len(winChannel[c]) /\ WinGone(c, e) => WinGone(c, e)'
    BY <1>2, <1>6, <2>1 DEF WinGone
  <2>3. \A e \in Win!Place : e <= Len(winChannel[c]) /\ WinTaken(c, e)
        => WinTaken(c, e)'
    BY <1>2, <2>2 DEF WinTaken
  <2>4. \A e \in Win!Place, n \in Nat : e <= Len(winChannel[c]) /\ WinHeld(c, e, n)
        => WinHeld(c, e, n)'
    BY <1>2, <2>3 DEF WinHeld
  <2>5. WinBounded(c)'
    <3>1. \A b \in WinBookmark : b <= Len(winChannel[c]) => b <= Len(winChannel'[c])
      <4>1. Len(winChannel[c]) \in Int /\ Len(winChannel'[c]) \in Int
        BY <2>1
      <4>2. Len(winChannel[c]) <= Len(winChannel'[c])
        BY <2>1
      <4> QED
        BY <4>1, <4>2, WinMarksBelow
    <3>2. winSub[c].sent \in WinBookmark /\ Win!Place \subseteq WinBookmark
      BY <2>1 DEF Win!Place, WinBookmark
    <3>3. /\ winCommitted[c] <= Len(winChannel'[c])
             /\ winSub[c].sent <= Len(winChannel'[c])
          /\ winTick.last[c] <= Len(winChannel'[c])
             /\ winDb.cursor[c] <= Len(winChannel'[c])
      BY <2>0, <2>1, <3>1, <3>2 DEF WinBounded
    <3>4. \A e \in Win!Place : winDb.of[c][e] > 0 \/ e \in winTick.of[c]
          => e <= Len(winChannel'[c])
      BY <2>0, <3>1, <3>2 DEF WinBounded
    <3> QED
      BY <1>2, <2>0, <3>3, <3>4 DEF WinBounded
  <2>6. WinFollowed(c)' /\ WinQueued(c)' /\ WinOnce(c)'
    BY <1>2, <2>0 DEF WinFollowed, WinQueued, WinOnce
  <2>7. /\ \A e \in Win!Place : e <= winDb.cursor[c] => e <= Len(winChannel[c])
        /\ \A e \in Win!Place : e <= winTick.last[c] => e <= Len(winChannel[c])
        /\ \A e \in Win!Place : e <= winCommitted[c] => e <= Len(winChannel[c])
        /\ \A e \in Win!Place : e <= winSub[c].sent => e <= Len(winChannel[c])
    <3>1. /\ winCommitted[c] <= Len(winChannel[c])
             /\ winSub[c].sent <= Len(winChannel[c])
          /\ winTick.last[c] <= Len(winChannel[c])
             /\ winDb.cursor[c] <= Len(winChannel[c])
      BY <2>0 DEF WinBounded
    <3>2. Len(winChannel[c]) \in Int /\ winSub[c].sent \in Int
      BY <2>1
    <3>3. \A e \in Win!Place : e <= winDb.cursor[c] => e <= Len(winChannel[c])
      BY <2>1, <3>1, <3>2, WinBelow
    <3>4. \A e \in Win!Place : e <= winTick.last[c] => e <= Len(winChannel[c])
      BY <2>1, <3>1, <3>2, WinBelow
    <3>5. \A e \in Win!Place : e <= winCommitted[c] => e <= Len(winChannel[c])
      BY <2>1, <3>1, <3>2, WinBelow
    <3>6. \A e \in Win!Place : e <= winSub[c].sent => e <= Len(winChannel[c])
      BY <3>1, <3>2, WinBelow
    <3> QED
      BY <3>3, <3>4, <3>5, <3>6
  <2>8. \A i \in 1..Len(winQueue), e \in Win!Place : e <= winQueue[i].marks[c]
        => e <= Len(winChannel[c]) /\ i \in Nat
    <3>1. \A i \in 1..Len(winQueue) : winQueue[i].marks[c] <= winSub[c].sent
      BY <2>0 DEF WinQueued
    <3>2. winSub[c].sent <= Len(winChannel[c])
      BY <2>0 DEF WinBounded
    <3>3. ASSUME NEW i \in 1..Len(winQueue), NEW e \in Win!Place,
            e <= winQueue[i].marks[c] PROVE e <= Len(winChannel[c])
      <4>0. winQueue[i].marks[c] \in WinBookmark /\ winSub[c].sent \in 0..Others.log
            /\ Len(winChannel[c]) \in 0..Others.log
        BY <2>1
      <4>1. winQueue[i].marks[c] \in Int
        BY <4>0, WinNumbers
      <4>2. winSub[c].sent \in Int /\ Len(winChannel[c]) \in Int /\ e \in Int
        BY <4>0, WinNumbers
      <4> QED
        BY <3>1, <3>2, <3>3, <4>1, <4>2
    <3> QED
      BY <3>3
  <2>9. Len(winQueue) \in Nat
    BY <1>0, WinFields
  <2>10. WinCovered(c)'
    <3>1. \A e \in Win!Place : e <= winDb.cursor[c] => WinGone(c, e)'
      BY <2>0, <2>2, <2>7 DEF WinCovered
    <3>2. winTick.stage # "down" => \A e \in Win!Place : e <= winTick.last[c]
          => WinTaken(c, e)'
      BY <2>0, <2>3, <2>7 DEF WinCovered
    <3>3. \A e \in Win!Place : e <= winCommitted[c] => WinTaken(c, e)'
      BY <2>0, <2>3, <2>7 DEF WinCovered
    <3>4. winCommitted[c] # Win!Absent => \A e \in Win!Place : e <= winSub[c].sent
          => WinHeld(c, e, Len(winQueue))'
      BY <1>2, <2>0, <2>4, <2>7, <2>9 DEF WinCovered
    <3>5. \A i \in 1..Len(winQueue) : \A e \in Win!Place : e <= winQueue[i].marks[c]
          => WinHeld(c, e, i)'
      BY <2>0, <2>4, <2>8 DEF WinCovered
    <3> QED
      BY <1>2, <3>1, <3>2, <3>3, <3>4, <3>5 DEF WinCovered
  <2> QED
    BY <2>5, <2>6, <2>10 DEF WinParts
<1> QED
  BY <1>7, <1>8, <1>9 DEF WinIInv, WinParts

\* A channel that fails later leaves its bookmark where it is.
LEMMA WinFailLaterStep == ASSUME WinIInv, NEW d \in Channel, Win!FailLater(d)
    PROVE WinIInv'
<1>0. WinTyped /\ WinDown /\ WinBatch /\ \A c \in Channel : WinParts(c)
  BY WinUnfold
<1>1. /\ UNCHANGED <<winChannel, winQueue, winCommitted, winTick, winDb, winLost>>
      /\ winKnown' = [winKnown EXCEPT !.failed = @ \cup {d}]
      /\ winSub' = [winSub EXCEPT ![d].ok = FALSE]
  BY DEF Win!FailLater, Win!Fails
<1>2. /\ winKnown' \in [begun : SUBSET Channel, failed : SUBSET Channel]
      /\ winKnown'.begun = winKnown.begun /\ winKnown'.failed = winKnown.failed \cup {d}
  BY <1>0, <1>1 DEF WinTyped
<1>3. /\ winSub' \in [Channel -> [ok : BOOLEAN, sent : 0 .. Others.log]]
      /\ \A c \in Channel : winSub'[c].sent = winSub[c].sent
         /\ (winSub'[c].ok => winSub[c].ok)
  <2>1. winSub \in [Channel -> [ok : BOOLEAN, sent : 0 .. Others.log]]
    BY <1>0 DEF WinTyped
  <2>2. winSub' = [winSub EXCEPT ![d] = [winSub[d] EXCEPT !.ok = FALSE]]
    BY <1>1
  <2>3. /\ [winSub[d] EXCEPT !.ok = FALSE] \in [ok : BOOLEAN, sent : 0 .. Others.log]
        /\ [winSub[d] EXCEPT !.ok = FALSE].sent = winSub[d].sent
        /\ [winSub[d] EXCEPT !.ok = FALSE].ok = FALSE
    BY <2>1
  <2> QED
    BY <2>1, <2>2, <2>3
<1>4. WinTyped'
  BY <1>0, <1>1, <1>2, <1>3 DEF WinTyped
<1>5. WinDown' /\ WinBatch'
  BY <1>0, <1>1, <1>3 DEF WinDown, WinBatch
<1>6. ASSUME NEW c \in Channel PROVE WinParts(c)'
  <2>0. WinBounded(c) /\ WinFollowed(c) /\ WinQueued(c) /\ WinCovered(c) /\ WinOnce(c)
    BY <1>0 DEF WinParts
  <2>1. winSub'[c].sent = winSub[c].sent /\ (winSub'[c].ok => winSub[c].ok)
    BY <1>3
  <2>2. \A e \in Win!Place : WinGone(c, e) => WinGone(c, e)'
    BY <1>1, <1>2 DEF WinGone
  <2>3. \A e \in Win!Place : WinTaken(c, e) => WinTaken(c, e)'
    BY <1>1, <2>2 DEF WinTaken
  <2>4. \A n : \A e \in Win!Place : WinHeld(c, e, n) => WinHeld(c, e, n)'
    BY <1>1, <2>3 DEF WinHeld
  <2>5. WinBounded(c)' /\ WinQueued(c)' /\ WinOnce(c)'
    BY <1>1, <2>0, <2>1 DEF WinBounded, WinQueued, WinOnce
  <2>6. WinFollowed(c)'
    BY <1>1, <1>2, <2>0, <2>1 DEF WinFollowed
  <2>7. WinCovered(c)'
    BY <1>1, <2>0, <2>1, <2>2, <2>3, <2>4 DEF WinCovered
  <2> QED
    BY <2>5, <2>6, <2>7 DEF WinParts
<1> QED
  BY <1>4, <1>5, <1>6 DEF WinIInv, WinParts

\* A crash forgets what is not stored.
LEMMA WinCrashStep == ASSUME WinIInv, Win!Crash PROVE WinIInv'
<1> USE WinNumbers
<1>0. WinTyped /\ WinDown /\ WinBatch /\ \A c \in Channel : WinParts(c)
  BY WinUnfold
<1>1. /\ UNCHANGED <<winChannel, winDb, winLost, winKnown>>
      /\ winTick' = [winTick EXCEPT !.stage = "down", !.of = Win!Nothing]
      /\ winSub' = [c \in Channel |-> [ok |-> FALSE, sent |-> 0]]
      /\ winQueue' = <<>> /\ winCommitted' = Win!NoCursor
  BY DEF Win!Crash
<1>2. /\ winTick' \in [stage : {"down", "supervise", "drain", "commit"},
         last : WinComposite, of : WinEntries]
      /\ winTick'.stage = "down" /\ winTick'.last = winTick.last
         /\ winTick'.of = Win!Nothing
  BY <1>0, <1>1, WinEmptyTypes DEF WinTyped
<1>3. WinTyped'
  BY <1>0, <1>1, <1>2, WinEmptyTypes DEF WinTyped
<1>4. WinDown' /\ WinBatch'
  BY <1>1, <1>2 DEF WinDown, WinBatch
<1>5. ASSUME NEW c \in Channel PROVE WinParts(c)'
  <2>0. WinBounded(c) /\ WinFollowed(c) /\ WinCovered(c) /\ WinOnce(c)
    BY <1>0 DEF WinParts
  <2>1. /\ winSub'[c].ok = FALSE /\ winSub'[c].sent = 0
           /\ winCommitted'[c] = Win!Absent /\ winTick'.of[c] = {}
        /\ Len(winQueue') = 0
        /\ Len(winChannel[c]) \in 0..Others.log /\ winTick.last[c] \in WinBookmark
           /\ winDb.cursor[c] \in WinBookmark
    BY <1>0, <1>1, <1>2, WinEmptyTypes, WinFields
  <2>2. WinBounded(c)'
    BY <1>1, <1>2, <2>0, <2>1 DEF WinBounded
  <2>3. WinFollowed(c)' /\ WinQueued(c)'
    BY <1>1, <1>2, <2>0, <2>1 DEF WinFollowed, WinQueued
  <2>4. \A e \in Win!Place : WinGone(c, e) => WinGone(c, e)'
    BY <1>1 DEF WinGone
  <2>5. WinCovered(c)'
    BY <1>1, <1>2, <2>0, <2>1, <2>4 DEF WinCovered
  <2>6. WinOnce(c)'
    BY <1>1, <1>2, <2>0, <2>1 DEF WinOnce
  <2> QED
    BY <2>2, <2>3, <2>5, <2>6 DEF WinParts
<1> QED
  BY <1>3, <1>4, <1>5 DEF WinIInv, WinParts

\* The batch becomes stored, and its composite with it.
LEMMA WinCommitStep == ASSUME WinIInv, Win!Commit PROVE WinIInv'
<1> USE WinNumbers
<1>0. WinTyped /\ WinDown /\ WinBatch /\ \A c \in Channel : WinParts(c)
  BY WinUnfold
<1> DEFINE more == [c \in Channel |->
    [e \in Win!Place |-> winDb.of[c][e] + (IF e \in winTick.of[c] THEN 1 ELSE 0)]]
           begun == winKnown.begun
               \cup {c \in Channel : winSub[c].ok /\ winTick.last # Win!NoCursor}
<1>1. /\ UNCHANGED <<winChannel, winSub, winQueue, winCommitted, winLost>>
      /\ winDb' = [of |-> more, cursor |-> winTick.last]
      /\ winKnown' = [winKnown EXCEPT !.begun = begun]
      /\ winTick' = [winTick EXCEPT !.stage = "supervise", !.of = Win!Nothing]
      /\ winTick.stage = "commit"
  BY DEF Win!Commit
<1>2. /\ winTick' \in [stage : {"down", "supervise", "drain", "commit"},
         last : WinComposite, of : WinEntries]
      /\ winTick'.stage = "supervise" /\ winTick'.last = winTick.last
         /\ winTick'.of = Win!Nothing
  BY <1>0, <1>1, WinEmptyTypes DEF WinTyped
<1>3. /\ winKnown' \in [begun : SUBSET Channel, failed : SUBSET Channel]
      /\ winKnown'.begun = begun /\ winKnown'.failed = winKnown.failed
  BY <1>0, <1>1 DEF WinTyped
<1>4. /\ \A c \in Channel, e \in Win!Place : winDb.of[c][e] \in Nat /\ winDb.of[c][e]
         + (IF e \in winTick.of[c] THEN 1 ELSE 0) \in Nat
      /\ winTick.last \in WinComposite
  BY <1>0, WinFields
<1>5. more \in [Channel -> [Win!Place -> Nat]]
  BY <1>4
<1>6. WinTyped'
  BY <1>0, <1>1, <1>2, <1>3, <1>4, <1>5 DEF WinTyped
<1>7. WinDown' /\ WinBatch'
  BY <1>1, <1>2 DEF WinDown, WinBatch
<1>8. \A c \in Channel, e \in Win!Place :
         winDb'.of[c][e] = winDb.of[c][e] + (IF e \in winTick.of[c] THEN 1 ELSE 0)
  BY <1>1
<1>9. winDb'.cursor = winTick.last
  BY <1>1
<1> HIDE DEF more
<1>10. ASSUME NEW c \in Channel PROVE WinParts(c)'
  <2>0. WinBounded(c) /\ WinFollowed(c) /\ WinQueued(c) /\ WinCovered(c) /\ WinOnce(c)
    BY <1>0 DEF WinParts
  <2>1. /\ winTick'.of[c] = {} /\ Len(winQueue) \in Nat
        /\ Len(winChannel[c]) \in 0..Others.log /\ winTick.last[c] \in WinBookmark
           /\ winDb.cursor[c] \in WinBookmark
        /\ winCommitted[c] \in WinBookmark
        /\ \A e \in Win!Place : winDb.of[c][e] \in Nat
    BY <1>0, <1>4, <1>2, WinEmptyTypes, WinFields
  <2>2. WinBounded(c)'
    BY <1>1, <1>2, <1>8, <1>9, <2>0, <2>1 DEF WinBounded
  <2>3. winTick.last # Win!NoCursor /\ winSub[c].ok => winTick.last[c] # Win!Absent
    BY <1>0, <1>1, <2>0, WinEmptyTypes DEF WinBatch, WinFollowed
  <2>4. WinFollowed(c)'
    BY <1>1, <1>2, <1>3, <1>9, <2>0, <2>3 DEF WinFollowed
  <2>5. WinQueued(c)'
    BY <1>1, <2>0 DEF WinQueued
  <2>6. \A e \in Win!Place : WinTaken(c, e) => WinGone(c, e)' /\ WinTaken(c, e)'
    BY <1>1, <1>3, <1>8, <2>1 DEF WinGone, WinTaken
  <2>7. \A n : \A e \in Win!Place : WinHeld(c, e, n) => WinHeld(c, e, n)'
    BY <1>1, <2>6 DEF WinHeld
  <2>8. WinCovered(c)'
    BY <1>1, <1>2, <1>9, <2>0, <2>6, <2>7 DEF WinCovered
  <2>9. WinOnce(c)'
    <3>1. ASSUME NEW e \in Win!Place
          PROVE  /\ winDb'.of[c][e] <= 1
                 /\ winCommitted[c] # Win!Absent /\ winCommitted[c] < e
                    => winDb'.of[c][e] = 0
                 /\ winTick.last[c] # Win!Absent /\ winTick.last[c] < e
                    => winDb'.of[c][e] = 0
      <4>1. winDb'.of[c][e] = IF e \in winTick.of[c] THEN winDb.of[c][e] + 1
            ELSE winDb.of[c][e]
        BY <1>8, <2>1
      <4>2. winTick.stage # "down"
        BY <1>1
      <4> QED
        BY <2>0, <2>1, <4>1, <4>2 DEF WinOnce
    <3> QED
      BY <1>1, <1>2, <1>9, <2>1, <3>1 DEF WinOnce
  <2> QED
    BY <2>2, <2>4, <2>5, <2>8, <2>9 DEF WinParts
<1> QED
  BY <1>6, <1>7, <1>10 DEF WinIInv, WinParts

\* The batch is dropped, its events by name; the bookmarks stay.
LEMMA WinCommitLockedStep == ASSUME WinIInv, Win!CommitLocked PROVE WinIInv'
<1> USE WinNumbers
<1>0. WinTyped /\ WinDown /\ WinBatch /\ \A c \in Channel : WinParts(c)
  BY WinUnfold
<1> DEFINE gone == [c \in Channel |-> winLost.unsaved[c] \cup winTick.of[c]]
<1>1. /\ UNCHANGED <<winChannel, winSub, winQueue, winCommitted, winDb, winKnown>>
      /\ winLost' = [winLost EXCEPT !.unsaved = gone]
      /\ winTick' = [winTick EXCEPT !.stage = "supervise", !.of = Win!Nothing]
      /\ winTick.stage = "commit"
  BY DEF Win!CommitLocked
<1>2. /\ winTick' \in [stage : {"down", "supervise", "drain", "commit"},
         last : WinComposite, of : WinEntries]
      /\ winTick'.stage = "supervise" /\ winTick'.last = winTick.last
         /\ winTick'.of = Win!Nothing
  BY <1>0, <1>1, WinEmptyTypes DEF WinTyped
<1>3. winLost \in [evicted : WinEntries, before : WinEntries, forgotten : WinEntries,
                  unsaved : WinEntries]
  BY <1>0 DEF WinTyped
<1>4. gone \in WinEntries
  <2>1. \A c \in Channel : winTick.of[c] \in SUBSET Win!Place
    BY <1>0, WinFields
  <2>2. winLost.unsaved \in WinEntries
    BY <1>3
  <2> QED
    BY <2>1, <2>2 DEF WinEntries
<1>5. \A c \in Channel : gone[c] = winLost.unsaved[c] \cup winTick.of[c]
  OBVIOUS
<1> HIDE DEF gone
<1>6. /\ winLost' \in [evicted : WinEntries, before : WinEntries,
                      forgotten : WinEntries, unsaved : WinEntries]
      /\ winLost'.evicted = winLost.evicted /\ winLost'.before = winLost.before
      /\ winLost'.forgotten = winLost.forgotten /\ winLost'.unsaved = gone
  BY <1>1, <1>3, <1>4
<1>7. WinTyped'
  BY <1>0, <1>1, <1>2, <1>6 DEF WinTyped
<1>8. WinDown' /\ WinBatch'
  BY <1>1, <1>2 DEF WinDown, WinBatch
<1>9. ASSUME NEW c \in Channel PROVE WinParts(c)'
  <2>0. WinBounded(c) /\ WinFollowed(c) /\ WinQueued(c) /\ WinCovered(c) /\ WinOnce(c)
    BY <1>0 DEF WinParts
  <2>1. winTick'.of[c] = {}
    BY <1>2, WinEmptyTypes
  <2>2. WinBounded(c)'
    BY <1>1, <1>2, <2>0, <2>1 DEF WinBounded
  <2>3. WinFollowed(c)'
    BY <1>1, <1>2, <2>0 DEF WinFollowed
  <2>4. WinQueued(c)'
    BY <1>1, <2>0 DEF WinQueued
  <2>5. \A e \in Win!Place : WinGone(c, e) => WinGone(c, e)'
    BY <1>1, <1>5, <1>6 DEF WinGone
  <2>6. \A e \in Win!Place : WinTaken(c, e) => WinGone(c, e)' /\ WinTaken(c, e)'
    BY <1>5, <1>6, <2>5 DEF WinGone, WinTaken
  <2>7. \A n : \A e \in Win!Place : WinHeld(c, e, n) => WinHeld(c, e, n)'
    BY <1>1, <2>6 DEF WinHeld
  <2>8. WinCovered(c)'
    BY <1>1, <1>2, <2>0, <2>5, <2>6, <2>7 DEF WinCovered
  <2>9. WinOnce(c)'
    BY <1>1, <1>2, <2>0, <2>1 DEF WinOnce
  <2> QED
    BY <2>2, <2>3, <2>4, <2>8, <2>9 DEF WinParts
<1> QED
  BY <1>7, <1>8, <1>9 DEF WinIInv, WinParts

\* What is true of a checkpoint that a reader may begin from.
WinSound(cursor, c) ==
  /\ cursor[c] <= Len(winChannel[c])
  /\ c \in winKnown.begun /\ cursor[c] = Win!Absent => c \in winKnown.failed
  /\ \A e \in Win!Place : e <= cursor[c] => WinGone(c, e)
  /\ \A e \in Win!Place : cursor[c] # Win!Absent /\ cursor[c] < e => winDb.of[c][e] = 0

\* A start from such a composite: a channel begins at its bookmark, or
\* at its tail, and then what it passes over is lost by name.
LEMMA WinStartStays ==
  ASSUME WinIInv, NEW cursor \in WinComposite, Win!StartFrom(cursor),
         \A c \in Channel : WinSound(cursor, c),
         UNCHANGED <<winChannel, winDb>>,
             winTick' \in [stage : {"supervise", "drain"}, last : {cursor},
             of : {Win!Nothing}],
         winTick.of = Win!Nothing
  PROVE  WinIInv'
<1> USE WinNumbers
<1>0. WinTyped /\ WinDown /\ WinBatch /\ \A c \in Channel : WinParts(c)
  BY WinUnfold
<1>1. PICK bad \in SUBSET Channel :
        /\ Win!Fails(bad)
        /\ winQueue' = <<>>
        /\ winCommitted' = [c \in Channel |->
                            IF c \in bad THEN Win!Absent ELSE Win!Boundary(cursor, c)]
        /\ winSub' = [c \in Channel |->
                    [ok |-> c \notin bad,
                     sent |-> IF c \in bad THEN 0
                              ELSE IF cursor[c] = Win!Absent THEN Len(winChannel[c])
                              ELSE cursor[c]]]
        /\ LET passed(c) == IF c \notin bad /\ cursor[c] = Win!Absent
                            THEN 1..Len(winChannel[c]) ELSE {}
           IN  winLost' = [winLost EXCEPT
                !.before = [c \in Channel |-> @[c] \cup
                    IF c \in winKnown.begun THEN {} ELSE passed(c)],
                !.forgotten = [c \in Channel |-> @[c] \cup
                    IF c \in winKnown.begun THEN passed(c) ELSE {}]]
  BY DEF Win!StartFrom, Win!Leftover
<1> DEFINE passed(c) == IF c \notin bad /\ cursor[c] = Win!Absent
    THEN 1..Len(winChannel[c]) ELSE {}
           before == [c \in Channel |-> winLost.before[c]
               \cup (IF c \in winKnown.begun THEN {} ELSE passed(c))]
           forgotten == [c \in Channel |-> winLost.forgotten[c]
               \cup (IF c \in winKnown.begun THEN passed(c) ELSE {})]
<1>2. /\ winKnown' \in [begun : SUBSET Channel, failed : SUBSET Channel]
      /\ winKnown'.begun = winKnown.begun /\ winKnown'.failed = winKnown.failed \cup bad
  BY <1>0, <1>1 DEF WinTyped, Win!Fails
<1>3. winLost' = [winLost EXCEPT !.before = before, !.forgotten = forgotten]
  BY <1>1
<1>4. winLost \in [evicted : WinEntries, before : WinEntries, forgotten : WinEntries,
                   unsaved : WinEntries]
  BY <1>0 DEF WinTyped
<1>5. /\ \A c \in Channel : Len(winChannel[c]) \in 0..Others.log
         /\ cursor[c] \in WinBookmark /\ passed(c) \in SUBSET Win!Place
      /\ \A c \in Channel : Len(winChannel[c]) \in WinBookmark
         /\ Len(winChannel[c]) # Win!Absent
      /\ \A c \in Channel : cursor[c] # Win!Absent => cursor[c] \in 0..Others.log
  <2>1. ASSUME NEW c \in Channel
          PROVE Len(winChannel[c]) \in 0..Others.log /\ cursor[c] \in WinBookmark
    BY <1>0, WinFields DEF WinComposite
  <2>2. ASSUME NEW c \in Channel
        PROVE  /\ passed(c) \in SUBSET Win!Place /\ Len(winChannel[c]) \in WinBookmark
                  /\ Len(winChannel[c]) # Win!Absent
               /\ cursor[c] # Win!Absent => cursor[c] \in 0..Others.log
    BY <2>1 DEF Win!Place, WinBookmark, Win!Absent
  <2> QED
    BY <2>1, <2>2
<1>6. before \in WinEntries /\ forgotten \in WinEntries
  <2>1. \A c \in Channel : winLost.before[c] \in SUBSET Win!Place
        /\ winLost.forgotten[c] \in SUBSET Win!Place
    BY <1>4 DEF WinEntries
  <2> QED
    BY <1>5, <2>1 DEF WinEntries
<1>7. /\ winLost' \in [evicted : WinEntries, before : WinEntries,
         forgotten : WinEntries,
         unsaved : WinEntries]
      /\ winLost'.evicted = winLost.evicted /\ winLost'.before = before
         /\ winLost'.forgotten = forgotten
         /\ winLost'.unsaved = winLost.unsaved
  <2> HIDE DEF before, forgotten
  <2> QED
    BY <1>3, <1>4, <1>6
<1>8. ASSUME NEW c \in Channel
      PROVE  /\ winCommitted'[c] = IF c \in bad THEN Win!Absent
                                ELSE IF cursor[c] = Win!Absent THEN Len(winChannel[c])
                                    ELSE cursor[c]
             /\ winSub'[c].ok = (c \notin bad)
             /\ winSub'[c].sent = IF c \in bad THEN 0
                               ELSE IF cursor[c] = Win!Absent THEN Len(winChannel[c])
                                   ELSE cursor[c]
             /\ winSub'[c].sent \in 0..Others.log
  BY <1>1, <1>5 DEF Win!Boundary
<1>9. winCommitted' \in WinComposite
  <2>1. \A c \in Channel : winCommitted'[c] \in WinBookmark
    BY <1>5, <1>8
  <2> QED
    BY <1>1, <2>1 DEF WinComposite
<1>10. winSub' \in [Channel -> [ok : BOOLEAN, sent : 0..Others.log]]
  <2> DEFINE sent(c) == IF c \in bad THEN 0 ELSE IF cursor[c] = Win!Absent
      THEN Len(winChannel[c]) ELSE cursor[c]
  <2>1. \A c \in Channel : sent(c) \in 0..Others.log
    BY <1>5
  <2>2. winSub' = [c \in Channel |-> [ok |-> c \notin bad, sent |-> sent(c)]]
    BY <1>1
  <2> HIDE DEF sent
  <2> QED
    BY <2>1, <2>2
<1>11. /\ winTick'.stage \in {"supervise", "drain"} /\ winTick'.last = cursor
          /\ winTick'.of = Win!Nothing
       /\ winTick' \in [stage : {"down", "supervise", "drain", "commit"},
          last : WinComposite, of : WinEntries]
  BY WinEmptyTypes
<1>12. WinTyped'
  BY <1>0, <1>1, <1>2, <1>7, <1>9, <1>10, <1>11 DEF WinTyped
<1>13. WinDown' /\ WinBatch'
  BY <1>11 DEF WinDown, WinBatch
<1> HIDE DEF passed
<1>14. ASSUME NEW c \in Channel PROVE WinParts(c)'
  <2>0. WinBounded(c) /\ WinFollowed(c) /\ WinCovered(c) /\ WinOnce(c)
        /\ WinSound(cursor, c)
    BY <1>0 DEF WinParts
  <2>1. /\ winTick'.of[c] = {} /\ winTick.of[c] = {} /\ Len(winQueue') = 0
        /\ Len(winChannel[c]) \in 0..Others.log /\ cursor[c] \in WinBookmark
        /\ winDb.cursor[c] \in WinBookmark
    BY <1>0, <1>1, <1>5, <1>11, WinEmptyTypes, WinFields
  <2>2. \A e \in Win!Place : WinGone(c, e) => WinGone(c, e)'
    BY <1>2, <1>7 DEF WinGone
  <2>3. ASSUME NEW e \in Win!Place, e <= winCommitted'[c]
        PROVE  WinGone(c, e)'
    <3>0. c \notin bad
      <4>1. winCommitted'[c] # -1
        BY <2>3
      <4> QED
        BY <1>8, <4>1
    <3>1. CASE cursor[c] # Win!Absent
      <4>1. winCommitted'[c] = cursor[c]
        BY <1>8, <3>0, <3>1
      <4>2. e <= cursor[c]
        BY <2>3, <4>1
      <4> QED
        BY <2>0, <2>2, <4>2 DEF WinSound
    <3>2. CASE cursor[c] = Win!Absent
      <4>1. c \notin bad /\ e <= Len(winChannel[c])
        BY <1>8, <2>1, <2>3, <3>2
      <4>2. e \in passed(c)
        BY <2>1, <3>2, <4>1 DEF passed
      <4>3. c \in winKnown.begun => c \in winKnown'.failed
            /\ e \in winLost'.forgotten[c]
        BY <1>2, <1>7, <2>0, <3>2, <4>2 DEF WinSound
      <4>4. c \notin winKnown.begun => e \in winLost'.before[c]
        BY <1>7, <4>2
      <4> QED
        BY <4>3, <4>4 DEF WinGone
    <3> QED
      BY <3>1, <3>2
  <2>4. winCommitted'[c] # Win!Absent => winSub'[c].sent = winCommitted'[c]
    BY <1>8
  <2>5. WinBounded(c)'
    <3>1. winCommitted'[c] <= Len(winChannel[c])
          /\ winSub'[c].sent <= Len(winChannel[c])
          /\ (winCommitted'[c] <= winSub'[c].sent \/ ~winSub'[c].ok)
      BY <1>8, <2>0, <2>1 DEF WinSound
    <3> QED
      BY <1>11, <2>0, <2>1, <3>1 DEF WinBounded, WinSound
  <2>6. WinFollowed(c)'
    <3>1. winCommitted'[c] = Win!Absent => c \in bad
      BY <1>8, <2>1
    <3>2. winSub'[c].ok => winCommitted'[c] # Win!Absent
      BY <1>8, <3>1
    <3> QED
      BY <1>2, <1>11, <2>0, <3>1, <3>2 DEF WinFollowed, WinSound
  <2>7. WinQueued(c)'
    BY <1>1 DEF WinQueued
  <2>8. WinCovered(c)'
    <3>1. \A e \in Win!Place : e <= winDb.cursor[c] => WinGone(c, e)'
      BY <2>0, <2>2 DEF WinCovered
    <3>2. \A e \in Win!Place : e <= cursor[c] => WinGone(c, e)'
      BY <2>0, <2>2 DEF WinSound
    <3>3. winTick'.last[c] = cursor[c] /\ winDb'.cursor[c] = winDb.cursor[c]
      BY <1>11
    <3>4. \A n : \A e \in Win!Place : WinGone(c, e)' => WinTaken(c, e)'
          /\ WinHeld(c, e, n)'
      BY DEF WinTaken, WinHeld
    <3>5. \A e \in Win!Place : e <= winCommitted'[c] => WinTaken(c, e)'
      BY <2>3, <3>4
    <3>6. winCommitted'[c] # Win!Absent => \A e \in Win!Place : e <= winSub'[c].sent
          => WinHeld(c, e, Len(winQueue))'
      BY <2>3, <2>4, <3>4 DEF WinHeld
    <3>7. \A e \in Win!Place : e <= winTick'.last[c] => WinTaken(c, e)'
      BY <3>2, <3>3, <3>4
    <3>8. \A i \in 1..Len(winQueue') : FALSE
      BY <2>1
    <3> QED
      BY <3>1, <3>3, <3>5, <3>6, <3>7, <3>8 DEF WinCovered
  <2>9. WinOnce(c)'
    <3>1. ASSUME NEW e \in Win!Place, winCommitted'[c] # Win!Absent,
            winCommitted'[c] < e PROVE winDb.of[c][e] = 0
      <4>1. CASE cursor[c] # Win!Absent
        <5>1. winCommitted'[c] = cursor[c]
          BY <1>8, <3>1, <4>1
        <5>2. cursor[c] < e
          BY <3>1, <5>1
        <5> QED
          BY <2>0, <4>1, <5>2 DEF WinSound
      <4>2. CASE cursor[c] = Win!Absent
        <5>1. Len(winChannel[c]) < e
          BY <1>8, <3>1, <4>2
        <5>2. ~(e <= Len(winChannel[c])) /\ winDb.of[c][e] \in Nat
          BY <1>0, <2>1, <5>1, WinFields
        <5> QED
          BY <2>0, <5>2 DEF WinBounded
      <4> QED
        BY <4>1, <4>2
    <3>2. winTick'.stage # "down" /\ winTick'.last[c] = cursor[c] /\ winDb' = winDb
      BY <1>11
    <3>3. /\ \A e \in Win!Place : winDb.of[c][e] <= 1
          /\ \A e \in Win!Place : cursor[c] # Win!Absent /\ cursor[c] < e
             => winDb.of[c][e] = 0
          /\ \A e \in Win!Place : winDb.cursor[c] # Win!Absent /\ winDb.cursor[c] < e
             => winDb.of[c][e] = 0
      BY <2>0 DEF WinOnce, WinSound
    <3> QED
      BY <2>1, <3>1, <3>2, <3>3 DEF WinOnce
  <2> QED
    BY <2>5, <2>6, <2>7, <2>8, <2>9 DEF WinParts
<1> QED
  BY <1>12, <1>13, <1>14 DEF WinIInv, WinParts

\* A daemon starts from the stored composite.
LEMMA WinStartStep == ASSUME WinIInv, Win!Start PROVE WinIInv'
<1>0. WinTyped /\ WinDown /\ WinBatch /\ \A c \in Channel : WinParts(c)
  BY WinUnfold
<1>1. winDb.cursor \in WinComposite /\ winTick.of = Win!Nothing
  BY <1>0, WinFields DEF WinBatch, Win!Start
<1>2. ASSUME NEW c \in Channel PROVE WinSound(winDb.cursor, c)
  BY <1>0 DEF WinParts, WinBounded, WinFollowed, WinCovered, WinOnce, WinSound
<1> QED
  BY <1>1, <1>2, WinStartStays DEF Win!Start

\* A reader restarts from the one in memory.
LEMMA WinSuperviseStep == ASSUME WinIInv, Win!Supervise PROVE WinIInv'
<1>0. WinTyped /\ WinDown /\ WinBatch /\ \A c \in Channel : WinParts(c)
  BY WinUnfold
<1>1. winTick.stage = "supervise" /\ winTick.last \in WinComposite
      /\ winTick.of = Win!Nothing
  BY <1>0, WinFields DEF WinBatch, Win!Supervise
<1>2. /\ winTick' \in [stage : {"down", "supervise", "drain", "commit"},
         last : WinComposite, of : WinEntries]
      /\ winTick' = [stage |-> "drain", last |-> winTick.last, of |-> Win!Nothing]
      /\ UNCHANGED <<winChannel, winDb>>
  BY <1>0, <1>1 DEF Win!Supervise, WinTyped
<1>3. CASE Win!StartFrom(winTick.last)
  <2>1. ASSUME NEW c \in Channel PROVE WinSound(winTick.last, c)
    <3>1. winTick.of[c] = {}
      BY <1>1, WinEmptyTypes
    <3>2. \A e \in Win!Place : WinTaken(c, e) => WinGone(c, e)
      BY <3>1 DEF WinTaken
    <3> QED
      BY <1>0, <1>1, <3>2 DEF WinParts, WinBounded, WinFollowed, WinCovered, WinOnce,
         WinSound
  <2> QED
    BY <1>1, <1>2, <1>3, <2>1, WinStartStays
<1>4. CASE UNCHANGED <<winSub, winQueue, winCommitted, winLost, winKnown, winFaults>>
  <2>1. winTick'.stage = "drain" /\ winTick'.last = winTick.last
        /\ winTick'.of = winTick.of
    BY <1>1, <1>2
  <2>2. WinTyped'
    BY <1>0, <1>2, <1>4 DEF WinTyped
  <2>3. WinDown' /\ WinBatch'
    BY <1>1, <2>1 DEF WinDown, WinBatch
  <2>4. ASSUME NEW c \in Channel PROVE WinParts(c)'
    <3>0. WinBounded(c) /\ WinFollowed(c) /\ WinQueued(c) /\ WinCovered(c) /\ WinOnce(c)
      BY <1>0 DEF WinParts
    <3>1. WinBounded(c)' /\ WinFollowed(c)' /\ WinQueued(c)' /\ WinOnce(c)'
      BY <1>1, <1>2, <1>4, <2>1, <3>0 DEF WinBounded, WinFollowed, WinQueued, WinOnce
    <3>2. WinCovered(c)'
      BY <1>1, <1>2, <1>4, <2>1, <3>0 DEF WinCovered, WinHeld, WinTaken, WinGone
    <3> QED
      BY <3>1, <3>2 DEF WinParts
  <2> QED
    BY <2>2, <2>3, <2>4 DEF WinIInv, WinParts
<1> QED
  BY <1>3, <1>4 DEF Win!Supervise

\* The drained items are in the batch, and what they cover with them.
LEMMA WinDrainStep == ASSUME WinIInv, Win!Drain PROVE WinIInv'
<1> USE WinNumbers
<1>0. WinTyped /\ WinDown /\ WinBatch /\ \A c \in Channel : WinParts(c)
  BY WinUnfold
<1> DEFINE n == Win!Fewer(Len(winQueue), DrainBudget)
           marks(c) == {winQueue[i].marks[c] : i \in 1..n} \cup {winCommitted[c]}
           newest(c) == CHOOSE m \in marks(c) : \A k \in marks(c) : k <= m
           readable(c) == {e \in UNION {winQueue[i].of[c] : i \in 1..n} : winChannel[c][e] # Malformed}
<1>1. /\ winQueue' = SubSeq(winQueue, n + 1, Len(winQueue))
      /\ winCommitted' = [c \in Channel |-> newest(c)]
      /\ winTick' = [stage |-> "commit", last |-> IF winCommitted' = Win!NoCursor
         THEN winTick.last ELSE winCommitted',
                  of |-> [c \in Channel |-> readable(c)]]
      /\ UNCHANGED <<winChannel, winSub, winDb, winLost, winKnown, winFaults>>
      /\ winTick.stage = "drain"
  BY DEF Win!Drain
<1>2. n \in Nat /\ n <= Len(winQueue) /\ winQueue \in Seq(WinItem)
      /\ Len(winQueue) \in Nat /\ Len(winQueue) <= QueueMax
  BY <1>0, WinFields DEF Win!Fewer
<1>3. /\ winQueue' \in Seq(WinItem) /\ Len(winQueue') = Len(winQueue) - n
      /\ \A i \in 1..Len(winQueue') : i + n \in 1..Len(winQueue)
         /\ winQueue'[i] = winQueue[i + n]
  <2> HIDE DEF n
  <2>1. winQueue' \in Seq(WinItem) /\ Len(winQueue') = Len(winQueue) - n
    BY <1>1, <1>2
  <2>2. ASSUME NEW i \in 1..Len(winQueue')
          PROVE i + n \in 1..Len(winQueue) /\ winQueue'[i] = winQueue[i + n]
    BY <1>1, <1>2, <2>1
  <2> QED
    BY <2>1, <2>2
<1>4. \A i \in 1..n : i \in 1..Len(winQueue)
  BY <1>2
<1> HIDE DEF n
<1>5. ASSUME NEW c \in Channel
      PROVE  /\ winCommitted'[c] \in marks(c)
                /\ \A k \in marks(c) : k <= winCommitted'[c]
             /\ winCommitted'[c] \in WinBookmark
             /\ winTick'.of[c] = readable(c) /\ readable(c) \in SUBSET Win!Place
             /\ winTick.of[c] = {}
  <2>1. marks(c) \in SUBSET WinBookmark /\ marks(c) # {}
    BY <1>0, <1>4, WinFields
  <2>2. winCommitted'[c] = newest(c)
    BY <1>1
  <2>3. \E m \in marks(c) : \A k \in marks(c) : k <= m
    <3> HIDE DEF marks
    <3> QED
      BY <2>1, WinNewestExists
  <2>4. newest(c) \in marks(c) /\ \A k \in marks(c) : k <= newest(c)
    BY <2>3
  <2>5. readable(c) \in SUBSET Win!Place
    BY <1>0, <1>4, WinFields
  <2>6. winTick.of[c] = {}
    BY <1>0, <1>1, WinEmptyTypes DEF WinBatch
  <2> QED
    BY <1>1, <2>1, <2>2, <2>4, <2>5, <2>6
<1>6. winCommitted' \in WinComposite
  BY <1>1, <1>5 DEF WinComposite
<1> HIDE DEF newest
<1>7. winTick'.of \in WinEntries /\ winTick'.last \in WinComposite
      /\ winTick'.stage = "commit"
  BY <1>0, <1>1, <1>5, <1>6, WinFields DEF WinEntries
<1>8. WinTyped'
  <2>1. winTick' \in [stage : {"down", "supervise", "drain", "commit"},
        last : WinComposite, of : WinEntries]
    BY <1>1, <1>7
  <2> QED
    BY <1>0, <1>1, <1>2, <1>3, <1>6, <2>1 DEF WinTyped
<1>9. winTick'.last = IF winCommitted' = Win!NoCursor THEN winTick.last
      ELSE winCommitted'
  BY <1>1
<1>10. ASSUME NEW c \in Channel
       PROVE  /\ winCommitted'[c] = Win!Absent <=> winCommitted[c] = Win!Absent
              /\ winCommitted[c] <= winCommitted'[c]
              /\ winCommitted'[c] = winCommitted[c]
                 \/ \E i \in 1..n : winCommitted'[c] = winQueue[i].marks[c]
              /\ \A i \in 1..n : winQueue[i].marks[c] <= winCommitted'[c]
  <2>1. winCommitted[c] \in marks(c)
        /\ \A i \in 1..n : winQueue[i].marks[c] \in marks(c)
    OBVIOUS
  <2>2. winCommitted'[c] = winCommitted[c]
        \/ \E i \in 1..n : winCommitted'[c] = winQueue[i].marks[c]
    BY <1>5
  <2>3. WinQueued(c) /\ winCommitted[c] \in WinBookmark
        /\ winCommitted'[c] \in WinBookmark
    BY <1>0, <1>5, WinFields DEF WinParts
  <2>4. winCommitted[c] <= winCommitted'[c]
        /\ \A i \in 1..n : winQueue[i].marks[c] <= winCommitted'[c]
    BY <1>5, <2>1
  <2>5. winCommitted[c] = Win!Absent => winCommitted'[c] = Win!Absent
    BY <1>4, <2>2, <2>3 DEF WinQueued
  <2>6. winCommitted'[c] = Win!Absent => winCommitted[c] = Win!Absent
    <3>1. winCommitted[c] \in Int /\ winCommitted[c] >= -1 /\ winCommitted'[c] \in Int
      BY <2>3
    <3> QED
      BY <2>4, <3>1
  <2> QED
    BY <2>2, <2>4, <2>5, <2>6
<1>11. WinDown' /\ WinBatch'
  <2>1. ASSUME winCommitted' = Win!NoCursor PROVE winTick'.of = Win!Nothing
    <3>1. ASSUME NEW c \in Channel PROVE readable(c) = {}
      <4>1. winCommitted[c] = Win!Absent /\ WinQueued(c)
        BY <1>0, <1>10, <2>1, WinEmptyTypes DEF WinParts
      <4>2. \A i \in 1..n : winQueue[i].of[c] = {}
        BY <1>4, <4>1 DEF WinQueued
      <4> QED
        BY <4>2
    <3> QED
      BY <1>1, <3>1 DEF Win!Nothing
  <2> QED
    BY <1>7, <1>9, <2>1 DEF WinDown, WinBatch
<1>12. ASSUME NEW c \in Channel PROVE WinParts(c)'
  <2>0. WinBounded(c) /\ WinFollowed(c) /\ WinQueued(c) /\ WinCovered(c) /\ WinOnce(c)
    BY <1>0 DEF WinParts
  <2>1. /\ Len(winChannel[c]) \in 0..Others.log /\ winTick.last[c] \in WinBookmark
           /\ winDb.cursor[c] \in WinBookmark
        /\ winCommitted[c] \in WinBookmark /\ winCommitted'[c] \in WinBookmark
           /\ winSub[c].sent \in 0..Others.log
        /\ \A e \in Win!Place : winDb.of[c][e] \in Nat
    BY <1>0, <1>5, WinFields
  <2>2. \A i \in 1..Len(winQueue) : winQueue[i].marks[c] \in WinBookmark
        /\ winQueue[i].of[c] \in SUBSET Win!Place
    BY <1>0, WinFields
  <2>3. \A e \in readable(c) : \E i \in 1..n : e \in winQueue[i].of[c]
    OBVIOUS
  <2>4. winTick'.last[c] = winCommitted'[c]
        \/ (winTick'.last[c] = winTick.last[c] /\ readable(c) = {})
    BY <1>5, <1>7, <1>9, <1>11, WinEmptyTypes DEF WinBatch
  <2>5. ASSUME NEW e \in readable(c)
        PROVE  /\ e \in Win!Place /\ winCommitted[c] # Win!Absent
                  /\ winCommitted[c] < e /\ e <= winCommitted'[c]
               /\ e <= winSub[c].sent
    <3>1. PICK i \in 1..n : e \in winQueue[i].of[c]
      BY <2>3
    <3>2. e \in Win!Place /\ winCommitted[c] # Win!Absent /\ winCommitted[c] < e
          /\ e <= winQueue[i].marks[c]
          /\ winQueue[i].marks[c] <= winSub[c].sent
             /\ winQueue[i].marks[c] \in WinBookmark
      BY <1>4, <2>0, <2>2, <3>1 DEF WinQueued
    <3>3. winQueue[i].marks[c] <= winCommitted'[c]
      BY <1>10
    <3>4. winQueue[i].marks[c] \in Int /\ winCommitted'[c] \in Int
      BY <2>1, <3>2
    <3>5. winSub[c].sent \in Int /\ e \in Int
      BY <2>1, <3>2
    <3> QED
      BY <3>2, <3>3, <3>4, <3>5
  <2>6. winCommitted'[c] <= winSub[c].sent \/ winCommitted'[c] = winCommitted[c]
    BY <1>4, <1>10, <2>0 DEF WinQueued
  <2>7. WinBounded(c)'
    <3>1. winCommitted'[c] <= Len(winChannel[c])
          /\ (winCommitted'[c] <= winSub[c].sent \/ ~winSub[c].ok)
      <4>1. CASE winCommitted'[c] = winCommitted[c]
        BY <2>0, <4>1 DEF WinBounded
      <4>2. CASE winCommitted'[c] <= winSub[c].sent
        <5>1. winCommitted'[c] \in Int /\ winSub[c].sent \in Int
              /\ Len(winChannel[c]) \in Int
          BY <2>1
        <5>2. winSub[c].sent <= Len(winChannel[c])
          BY <2>0 DEF WinBounded
        <5> QED
          BY <4>2, <5>1, <5>2
      <4> QED
        BY <2>6, <4>1, <4>2
    <3>2. \A e \in readable(c) : e <= Len(winChannel[c])
      BY <2>0, <2>1, <2>5 DEF WinBounded
    <3> QED
      BY <1>1, <1>5, <2>0, <2>1, <2>4, <3>1, <3>2 DEF WinBounded
  <2>8. WinFollowed(c)'
    <3>1. winCommitted'[c] = Win!Absent <=> winCommitted[c] = Win!Absent
      BY <1>10
    <3> QED
      BY <1>1, <1>7, <2>0, <2>4, <3>1 DEF WinFollowed
  <2>9. WinQueued(c)'
    <3>1. ASSUME NEW i \in 1..Len(winQueue')
          PROVE  /\ i + n \in 1..Len(winQueue) /\ winQueue'[i] = winQueue[i + n]
                 /\ \A j \in 1..n : j \in 1..(i + n) - 1
                 /\ \A j \in 1..i - 1 : j \in 1..Len(winQueue') /\ j
                    + n \in 1..(i + n) - 1
                                        /\ winQueue'[j] = winQueue[j + n]
      <4>1. i + n \in 1..Len(winQueue) /\ winQueue'[i] = winQueue[i + n] /\ i \in Nat
        BY <1>3
      <4>2. \A j \in 1..n : j \in 1..(i + n) - 1
        BY <1>2, <4>1
      <4>3. ASSUME NEW j \in 1..i - 1
            PROVE  j \in 1..Len(winQueue') /\ j + n \in 1..(i + n) - 1
                   /\ winQueue'[j] = winQueue[j + n]
        <5>1. j \in 1..Len(winQueue') /\ j + n \in 1..(i + n) - 1
          BY <1>2, <1>3, <4>1
        <5> QED
          BY <1>3, <5>1
      <4> QED
        BY <4>1, <4>2, <4>3
    <3>2. ASSUME NEW i \in 1..Len(winQueue'), NEW e \in winQueue'[i].of[c]
          PROVE  /\ winCommitted'[c] # Win!Absent /\ winCommitted'[c] < e
                    /\ e <= winQueue'[i].marks[c]
                 /\ \A j \in 1..i - 1 : winQueue'[j].marks[c] < e
      <4>1. /\ winCommitted[c] # Win!Absent /\ winCommitted[c] < e
               /\ e <= winQueue[i + n].marks[c]
            /\ \A j \in 1..(i + n) - 1 : winQueue[j].marks[c] < e
        BY <2>0, <3>1, <3>2 DEF WinQueued
      <4>2. winCommitted'[c] # Win!Absent /\ winCommitted'[c] < e
        BY <1>10, <3>1, <4>1
      <4>3. \A j \in 1..i - 1 : winQueue'[j].marks[c] < e
        BY <3>1, <4>1
      <4> QED
        BY <3>1, <4>1, <4>2, <4>3
    <3>3. ASSUME NEW i \in 1..Len(winQueue')
          PROVE  /\ winQueue'[i].marks[c] <= winSub[c].sent
                 /\ winQueue'[i].marks[c] # Win!Absent => winCommitted'[c] # Win!Absent
      <4>1. i + n \in 1..Len(winQueue) /\ winQueue'[i] = winQueue[i + n]
        BY <3>1
      <4>2. /\ winQueue[i + n].marks[c] <= winSub[c].sent
            /\ winQueue[i + n].marks[c] # Win!Absent => winCommitted[c] # Win!Absent
        BY <2>0, <4>1 DEF WinQueued
      <4>3. winCommitted[c] # Win!Absent => winCommitted'[c] # Win!Absent
        BY <1>10
      <4> QED
        BY <4>1, <4>2, <4>3
    <3>4. winSub' = winSub
      BY <1>1
    <3> QED
      BY <3>2, <3>3, <3>4 DEF WinQueued
  <2>10. \A e \in Win!Place : WinGone(c, e) => WinGone(c, e)'
    BY <1>1 DEF WinGone
  <2>11. \A e \in Win!Place : WinTaken(c, e) => WinTaken(c, e)'
    BY <1>5, <2>10 DEF WinTaken
  <2>12. \A e \in Win!Place, i \in 1..n : e \in winQueue[i].of[c] => WinTaken(c, e)'
    BY <1>1, <1>5 DEF WinTaken, WinGone
  <2>13. \A e \in Win!Place, i \in 1..n : WinHeld(c, e, i) => WinTaken(c, e)'
    <3>1. \A i \in 1..n : \A j \in 1..i : j \in 1..n
      BY <1>2
    <3> QED
      BY <2>11, <2>12, <3>1 DEF WinHeld
  <2>14. ASSUME NEW e \in Win!Place, NEW k \in 0..Len(winQueue'), WinHeld(c, e, k + n)
           PROVE WinHeld(c, e, k)'
    <3>1. CASE WinTaken(c, e)
      BY <2>11, <3>1 DEF WinHeld
    <3>2. CASE \E j \in 1..k + n : e \in winQueue[j].of[c]
      <4>1. PICK j \in 1..k + n : e \in winQueue[j].of[c]
        BY <3>2
      <4>2. CASE j \in 1..n
        BY <2>12, <4>1, <4>2 DEF WinHeld
      <4>3. CASE j \notin 1..n
        <5>1. j - n \in 1..k /\ (j - n) + n = j
          BY <1>2, <4>1, <4>3
        <5>2. e \in winQueue'[j - n].of[c]
          <6>1. j - n \in 1..Len(winQueue')
            BY <1>2, <1>3, <5>1
          <6>2. winQueue'[j - n] = winQueue[(j - n) + n]
            BY <1>3, <6>1
          <6> QED
            BY <4>1, <5>1, <6>2
        <5> QED
          BY <5>1, <5>2 DEF WinHeld
      <4> QED
        BY <4>2, <4>3
    <3> QED
      BY <2>14, <3>1, <3>2 DEF WinHeld
  <2>15. WinCovered(c)'
    <3>1. \A e \in Win!Place : e <= winDb.cursor[c] => WinGone(c, e)'
      BY <2>0, <2>10 DEF WinCovered
    <3>2. \A e \in Win!Place : e <= winCommitted'[c] => WinTaken(c, e)'
      <4>1. CASE winCommitted'[c] = winCommitted[c]
        BY <2>0, <2>11, <4>1 DEF WinCovered
      <4>2. CASE \E i \in 1..n : winCommitted'[c] = winQueue[i].marks[c]
        BY <1>4, <2>0, <2>13, <4>2 DEF WinCovered
      <4> QED
        BY <1>10, <4>1, <4>2
    <3>3. \A e \in Win!Place : e <= winTick'.last[c] => WinTaken(c, e)'
      BY <1>1, <2>0, <2>4, <2>11, <3>2 DEF WinCovered
    <3>4. winCommitted'[c] # Win!Absent => \A e \in Win!Place : e <= winSub[c].sent
          => WinHeld(c, e, Len(winQueue))'
      <4>1. Len(winQueue') \in 0..Len(winQueue') /\ Len(winQueue') + n = Len(winQueue)
        BY <1>2, <1>3
      <4> QED
        BY <1>10, <2>0, <2>14, <4>1 DEF WinCovered
    <3>5. \A i \in 1..Len(winQueue') : \A e \in Win!Place : e <= winQueue'[i].marks[c]
          => WinHeld(c, e, i)'
      <4>1. \A i \in 1..Len(winQueue') : i \in 0..Len(winQueue') /\ i
            + n \in 1..Len(winQueue) /\ winQueue'[i] = winQueue[i + n]
        BY <1>3
      <4> QED
        BY <2>0, <2>14, <4>1 DEF WinCovered
    <3> QED
      BY <1>1, <3>1, <3>2, <3>3, <3>4, <3>5 DEF WinCovered
  <2>16. WinOnce(c)'
    <3>1. ASSUME NEW e \in Win!Place
          PROVE  /\ winDb.of[c][e] <= 1
                 /\ e \in readable(c) => winDb.of[c][e] = 0
                 /\ winCommitted'[c] # Win!Absent /\ winCommitted'[c] < e
                    => winDb.of[c][e] = 0 /\ e \notin readable(c)
                 /\ winTick'.last[c] # Win!Absent /\ winTick'.last[c] < e
                    => winDb.of[c][e] = 0 /\ e \notin readable(c)
                 /\ winDb.cursor[c] # Win!Absent /\ winDb.cursor[c] < e
                    => winDb.of[c][e] = 0
      <4>1. /\ winDb.of[c][e] <= 1
            /\ winCommitted[c] # Win!Absent /\ winCommitted[c] < e => winDb.of[c][e] = 0
            /\ winTick.last[c] # Win!Absent /\ winTick.last[c] < e => winDb.of[c][e] = 0
            /\ winDb.cursor[c] # Win!Absent /\ winDb.cursor[c] < e => winDb.of[c][e] = 0
        BY <1>1, <2>0 DEF WinOnce
      <4>2. e \in readable(c) => winDb.of[c][e] = 0
        BY <2>5, <4>1
      <4>3. winCommitted'[c] # Win!Absent /\ winCommitted'[c] < e
            => winCommitted[c] # Win!Absent /\ winCommitted[c] < e
        <5>1. winCommitted[c] \in Int /\ winCommitted'[c] \in Int
          BY <2>1
        <5>2. e \in Int
          OBVIOUS
        <5> QED
          BY <1>10, <5>1, <5>2
      <4>4. winCommitted'[c] < e => e \notin readable(c)
        <5>1. winCommitted'[c] \in Int
          BY <2>1
        <5>2. e \in readable(c) => e <= winCommitted'[c]
          BY <2>5
        <5>3. e \in Int
          OBVIOUS
        <5> QED
          BY <5>1, <5>2, <5>3
      <4> QED
        BY <2>4, <4>1, <4>2, <4>3, <4>4
    <3> QED
      BY <1>1, <1>5, <3>1 DEF WinOnce
  <2> QED
    BY <2>7, <2>8, <2>9, <2>15, <2>16 DEF WinParts
<1> QED
  BY <1>8, <1>11, <1>12 DEF WinIInv, WinParts
\* What an offer does: m, it merges with the newest item; s, so many of the
\* oldest have gone.
WinOfferedAs(d, e, m, s) ==
  /\ winQueue' \in Seq(WinItem) /\ Len(winQueue') \in Nat \ {0}
     /\ Len(winQueue') <= QueueMax
  /\ Len(winQueue') + s = IF m THEN Len(winQueue) ELSE Len(winQueue) + 1
  /\ \A i \in 1..Len(winQueue') - 1 : i + s \in 1..Len(winQueue)
     /\ winQueue'[i] = winQueue[i + s]
  /\ \A c \in Channel : winQueue'[Len(winQueue')].of[c] =
        (IF m THEN winQueue[Len(winQueue)].of[c] ELSE {})
            \cup (IF c = d THEN {e} ELSE {})
  /\ \A c \in Channel : winQueue'[Len(winQueue')].marks[c] =
        IF c = d THEN e ELSE IF m THEN winQueue[Len(winQueue)].marks[c] ELSE Win!Absent
  /\ winLost' \in [evicted : WinEntries, before : WinEntries, forgotten : WinEntries,
                   unsaved : WinEntries]
  /\ winLost'.before = winLost.before /\ winLost'.forgotten = winLost.forgotten
  /\ winLost'.unsaved = winLost.unsaved
  /\ \A c \in Channel : winLost.evicted[c] \subseteq winLost'.evicted[c]
  /\ s = 1 => \A c \in Channel : winQueue[1].of[c] \subseteq winLost'.evicted[c]

\* An item of one entry.
LEMMA WinAloneHolds ==
  ASSUME NEW d \in Channel, NEW e \in Win!Place
  PROVE  /\ Win!Alone(d, e) \in WinItem
         /\ \A c \in Channel : Win!Alone(d, e).of[c] = IF c = d THEN {e} ELSE {}
         /\ \A c \in Channel : Win!Alone(d, e).marks[c] = IF c = d THEN e
            ELSE Win!Absent
<1>1. \A c \in Channel : Win!Alone(d, e).of[c] = IF c = d THEN {e} ELSE {}
  BY DEF Win!Alone, Win!Nothing
<1>2. \A c \in Channel : Win!Alone(d, e).marks[c] = IF c = d THEN e ELSE Win!Absent
  BY DEF Win!Alone, Win!NoCursor
<1> QED
  BY <1>1, <1>2, WinEmptyTypes

\* Every offer is one of these.
LEMMA WinOfferGives ==
  ASSUME WinTyped, NEW d \in Channel, NEW e \in Win!Place,
         Win!OfferMerged(d, e) \/ Win!OfferNew(d, e) \/ Win!OfferEvicting(d, e)
  PROVE  \E m \in BOOLEAN, s \in {0, 1} : (m => s = 0) /\ WinOfferedAs(d, e, m, s)
<1>0. winQueue \in Seq(WinItem) /\ Len(winQueue) \in Nat /\ Len(winQueue) <= QueueMax
  BY WinFields
<1>l. winLost \in [evicted : WinEntries, before : WinEntries, forgotten : WinEntries,
                   unsaved : WinEntries]
  BY DEF WinTyped
<1>a. /\ \A c \in Channel : Win!Alone(d, e).of[c] = IF c = d THEN {e} ELSE {}
      /\ \A c \in Channel : Win!Alone(d, e).marks[c] = IF c = d THEN e ELSE Win!Absent
  <2>1. \A c \in Channel : Win!Alone(d, e).of[c] = IF c = d THEN {e} ELSE {}
    BY DEF Win!Alone, Win!Nothing
  <2>2. \A c \in Channel : Win!Alone(d, e).marks[c] = IF c = d THEN e ELSE Win!Absent
    BY DEF Win!Alone, Win!NoCursor
  <2> QED
    BY <2>1, <2>2
<1>1. CASE Win!OfferMerged(d, e)
  <2> DEFINE n == Len(winQueue)
             old == winQueue[n]
             it == [of |-> [old.of EXCEPT ![d] = @ \cup {e}], last |->
                 [c |-> d, e |-> e],
                    marks |-> [old.marks EXCEPT ![d] = e]]
  <2>0. n \in 1..n
    BY <1>0, <1>1 DEF Win!OfferMerged, Win!Merges
  <2>l. winLost' = winLost
    BY <1>1 DEF Win!OfferMerged
  <2>1. winQueue' = [winQueue EXCEPT ![n] = it]
    BY <1>1 DEF Win!OfferMerged
  <2>2. old \in WinItem /\ old.of \in WinEntries /\ old.marks \in WinComposite
    <3>1. old \in WinItem
      BY <1>0, <2>0
    <3> QED
      BY <3>1 DEF WinItem
  <2>3. /\ it.of = [old.of EXCEPT ![d] = @ \cup {e}]
           /\ it.marks = [old.marks EXCEPT ![d] = e]
        /\ it.last = [c |-> d, e |-> e]
    OBVIOUS
  <2>4. it.of \in WinEntries /\ \A c \in Channel : it.of[c] = old.of[c]
        \cup (IF c = d THEN {e} ELSE {})
    BY <2>2, <2>3 DEF WinEntries
  <2>5. it.marks \in WinComposite /\ \A c \in Channel : it.marks[c] = IF c = d THEN e
        ELSE old.marks[c]
    BY <2>2, <2>3, WinNumbers DEF WinComposite, WinBookmark
  <2>6. it \in WinItem
    BY <2>3, <2>4, <2>5 DEF WinItem
  <2> HIDE DEF it
  <2>7. /\ winQueue' \in Seq(WinItem) /\ Len(winQueue') = n
        /\ \A i \in 1..n : winQueue'[i] = IF i = n THEN it ELSE winQueue[i]
    BY <1>0, <2>0, <2>1, <2>6, ExceptSeq
  <2>8. WinOfferedAs(d, e, TRUE, 0)
    <3>1. n \in Nat \ {0} /\ n + 0 = n
      BY <1>0, <2>0
    <3>2. \A i \in 1..n - 1 : i + 0 = i /\ i \in 1..n /\ i # n
      BY <1>0
    <3>3. winQueue'[n] = it
      BY <2>0, <2>7
    <3>4. \A i \in 1..n - 1 : i + 0 \in 1..n /\ winQueue'[i] = winQueue[i + 0]
      BY <2>7, <3>2
    <3> HIDE DEF n, old
    <3> SUFFICES WinOfferedAs(d, e, TRUE, 0)
      OBVIOUS
    <3>5. \A c \in Channel : winQueue'[n].of[c] = old.of[c]
          \cup (IF c = d THEN {e} ELSE {})
      BY <2>4, <3>3
    <3>6. \A c \in Channel : winQueue'[n].marks[c] = IF c = d THEN e ELSE old.marks[c]
      BY <2>5, <3>3
    <3>7. n = Len(winQueue) /\ old = winQueue[Len(winQueue)]
      BY DEF n, old
    <3>8. winQueue' \in Seq(WinItem) /\ Len(winQueue') \in Nat \ {0}
          /\ Len(winQueue') <= QueueMax /\ Len(winQueue') = n
          /\ Len(winQueue') + 0 = Len(winQueue)
      BY <1>0, <2>7, <3>1, <3>7
    <3>9. \A i \in 1..Len(winQueue') - 1 : i + 0 \in 1..Len(winQueue)
          /\ winQueue'[i] = winQueue[i + 0]
      BY <3>4, <3>7, <3>8
    <3>10. /\ winLost' \in [evicted : WinEntries, before : WinEntries,
              forgotten : WinEntries,
              unsaved : WinEntries]
          /\ winLost'.before = winLost.before /\ winLost'.forgotten = winLost.forgotten
          /\ winLost'.unsaved = winLost.unsaved
          /\ \A c \in Channel : winLost.evicted[c] \subseteq winLost'.evicted[c]
      BY <1>l, <2>l
    <3> QED
      BY <3>5, <3>6, <3>7, <3>8, <3>9, <3>10 DEF WinOfferedAs
  <2> QED
    BY <2>8
<1>2. CASE Win!OfferNew(d, e)
  <2>1. /\ winQueue' = Append(winQueue, Win!Alone(d, e)) /\ winLost' = winLost
           /\ Len(winQueue) < QueueMax
    BY <1>2 DEF Win!OfferNew
  <2>2. /\ winQueue' \in Seq(WinItem) /\ Len(winQueue') = Len(winQueue) + 1
           /\ winQueue'[Len(winQueue')] = Win!Alone(d, e)
        /\ \A i \in 1..Len(winQueue) : winQueue'[i] = winQueue[i]
    <3> DEFINE it == Win!Alone(d, e)
    <3>1. it \in WinItem /\ winQueue' = Append(winQueue, it)
      BY <2>1, WinAloneHolds
    <3> HIDE DEF it
    <3>2. winQueue' \in Seq(WinItem) /\ Len(winQueue') = Len(winQueue) + 1
          /\ winQueue'[Len(winQueue) + 1] = it
          /\ \A i \in 1..Len(winQueue) : winQueue'[i] = winQueue[i]
      BY <1>0, <3>1, AppendProperties
    <3> QED
      BY <3>2 DEF it
  <2>3. WinOfferedAs(d, e, FALSE, 0)
    <3>1. /\ Len(winQueue') \in Nat \ {0} /\ Len(winQueue') <= QueueMax
             /\ Len(winQueue') + 0 = Len(winQueue) + 1
      BY <1>0, <2>1, <2>2
    <3>2. \A i \in 1..Len(winQueue') - 1 : i + 0 = i /\ i \in 1..Len(winQueue)
      BY <1>0, <2>2
    <3>3. \A i \in 1..Len(winQueue') - 1 : i + 0 \in 1..Len(winQueue)
          /\ winQueue'[i] = winQueue[i + 0]
      BY <2>2, <3>2
    <3>4. /\ \A c \in Channel : winQueue'[Len(winQueue')].of[c] = IF c = d THEN {e}
             ELSE {}
          /\ \A c \in Channel : winQueue'[Len(winQueue')].marks[c] = IF c = d THEN e
             ELSE Win!Absent
      <4> DEFINE it == winQueue'[Len(winQueue')]
      <4>1. it = Win!Alone(d, e)
        BY <2>2
      <4> HIDE DEF it
      <4>2. /\ \A c \in Channel : it.of[c] = IF c = d THEN {e} ELSE {}
            /\ \A c \in Channel : it.marks[c] = IF c = d THEN e ELSE Win!Absent
        BY <1>a, <4>1
      <4> QED
        BY <4>2 DEF it
    <3>5. winQueue' \in Seq(WinItem)
      BY <2>2
    <3>6. /\ winLost' \in [evicted : WinEntries, before : WinEntries,
             forgotten : WinEntries,
             unsaved : WinEntries]
          /\ winLost'.before = winLost.before /\ winLost'.forgotten = winLost.forgotten
          /\ winLost'.unsaved = winLost.unsaved
          /\ \A c \in Channel : winLost.evicted[c] \subseteq winLost'.evicted[c]
      BY <1>l, <2>1
    <3> QED
      <4>1. \A c \in Channel : winQueue'[Len(winQueue')].of[c] = {}
            \cup (IF c = d THEN {e} ELSE {})
        BY <3>4
      <4>2. Len(winQueue') \in Nat \ {0} /\ Len(winQueue') <= QueueMax
        BY <3>1
      <4>3. Len(winQueue') + 0 = Len(winQueue) + 1
        BY <3>1
      <4> QED
        <5>1. \A c \in Channel : winQueue'[Len(winQueue')].of[c] =
                (IF FALSE THEN winQueue[Len(winQueue)].of[c] ELSE {})
                    \cup (IF c = d THEN {e} ELSE {})
          BY <4>1
        <5>2. \A c \in Channel : winQueue'[Len(winQueue')].marks[c] =
                IF c = d THEN e ELSE IF FALSE THEN winQueue[Len(winQueue)].marks[c]
                    ELSE Win!Absent
          BY <3>4
        <5>3. 0 = 1 => \A c \in Channel : winQueue[1].of[c] \subseteq winLost'.evicted[c]
          OBVIOUS
        <5>4. Len(winQueue') + 0 = IF FALSE THEN Len(winQueue) ELSE Len(winQueue) + 1
          BY <4>3
        <5> QED
          BY <3>3, <3>5, <3>6, <4>2, <5>1, <5>2, <5>3, <5>4, Zenon DEF WinOfferedAs
  <2> QED
    BY <2>3
<1>3. CASE Win!OfferEvicting(d, e)
  <2>1. /\ winQueue' = Append(Tail(winQueue), Win!Alone(d, e))
           /\ Len(winQueue) = QueueMax
        /\ winLost' = [winLost EXCEPT !.evicted = [c \in Channel |-> @[c]
           \cup winQueue[1].of[c]]]
    BY <1>3 DEF Win!OfferEvicting
  <2>2. winQueue # <<>> /\ Len(winQueue) >= 1
    BY <1>0, <2>1
  <2>3. /\ Tail(winQueue) \in Seq(WinItem) /\ Len(Tail(winQueue)) = Len(winQueue) - 1
        /\ \A i \in 1..Len(winQueue) - 1 : Tail(winQueue)[i] = winQueue[i + 1]
    BY <1>0, <2>2
  <2>4. /\ winQueue' \in Seq(WinItem) /\ Len(winQueue') = Len(winQueue)
           /\ winQueue'[Len(winQueue')] = Win!Alone(d, e)
        /\ \A i \in 1..Len(winQueue) - 1 : winQueue'[i] = winQueue[i + 1]
    <3> DEFINE it == Win!Alone(d, e)
               rest == Tail(winQueue)
    <3>1. it \in WinItem /\ winQueue' = Append(rest, it)
      BY <2>1, WinAloneHolds
    <3>2. rest \in Seq(WinItem) /\ Len(rest) = Len(winQueue) - 1
          /\ \A i \in 1..Len(winQueue) - 1 : rest[i] = winQueue[i + 1]
      BY <2>3
    <3> HIDE DEF it, rest
    <3>3. winQueue' \in Seq(WinItem) /\ Len(winQueue') = Len(rest) + 1
          /\ winQueue'[Len(rest) + 1] = it
          /\ \A i \in 1..Len(rest) : winQueue'[i] = rest[i]
      BY <3>1, <3>2, AppendProperties
    <3>4. Len(rest) + 1 = Len(winQueue)
      BY <1>0, <3>2
    <3> QED
      BY <3>2, <3>3, <3>4 DEF it
  <2> DEFINE gone == [c \in Channel |-> winLost.evicted[c] \cup winQueue[1].of[c]]
  <2>5. winLost' = [winLost EXCEPT !.evicted = gone]
    BY <2>1
  <2>6. gone \in WinEntries /\ \A c \in Channel : gone[c] = winLost.evicted[c]
        \cup winQueue[1].of[c]
    <3>1. \A c \in Channel : winLost.evicted[c] \in SUBSET Win!Place
      BY <1>l DEF WinEntries
    <3>2. 1 \in 1..Len(winQueue)
      BY <1>0, <2>2
    <3>3. \A c \in Channel : winQueue[1].of[c] \in SUBSET Win!Place
      BY <3>2, WinFields
    <3> QED
      BY <3>1, <3>3 DEF WinEntries
  <2> HIDE DEF gone
  <2>7. /\ winLost' \in [evicted : WinEntries, before : WinEntries,
           forgotten : WinEntries,
           unsaved : WinEntries]
        /\ winLost'.evicted = gone /\ winLost'.before = winLost.before
           /\ winLost'.forgotten = winLost.forgotten
           /\ winLost'.unsaved = winLost.unsaved
    BY <1>l, <2>5, <2>6
  <2>8. WinOfferedAs(d, e, FALSE, 1)
    <3>1. /\ Len(winQueue') \in Nat \ {0} /\ Len(winQueue') <= QueueMax
             /\ Len(winQueue') + 1 = Len(winQueue) + 1
      BY <1>0, <2>1, <2>2, <2>4
    <3>2. \A i \in 1..Len(winQueue') - 1 : i + 1 \in 1..Len(winQueue)
          /\ i \in 1..Len(winQueue) - 1
      BY <1>0, <2>4
    <3>3. \A i \in 1..Len(winQueue') - 1 : i + 1 \in 1..Len(winQueue)
          /\ winQueue'[i] = winQueue[i + 1]
      BY <2>4, <3>2
    <3>4. /\ \A c \in Channel : winQueue'[Len(winQueue')].of[c] = IF c = d THEN {e}
             ELSE {}
          /\ \A c \in Channel : winQueue'[Len(winQueue')].marks[c] = IF c = d THEN e
             ELSE Win!Absent
      <4> DEFINE it == winQueue'[Len(winQueue')]
      <4>1. it = Win!Alone(d, e)
        BY <2>4
      <4> HIDE DEF it
      <4>2. /\ \A c \in Channel : it.of[c] = IF c = d THEN {e} ELSE {}
            /\ \A c \in Channel : it.marks[c] = IF c = d THEN e ELSE Win!Absent
        BY <1>a, <4>1
      <4> QED
        BY <4>2 DEF it
    <3>5. /\ \A c \in Channel : winLost.evicted[c] \subseteq winLost'.evicted[c]
          /\ \A c \in Channel : winQueue[1].of[c] \subseteq winLost'.evicted[c]
      BY <2>6, <2>7
    <3>6. /\ \A c \in Channel : winQueue'[Len(winQueue')].of[c] =
               (IF FALSE THEN winQueue[Len(winQueue)].of[c] ELSE {})
                 \cup (IF c = d THEN {e} ELSE {})
          /\ \A c \in Channel : winQueue'[Len(winQueue')].marks[c] =
               IF c = d THEN e
               ELSE IF FALSE THEN winQueue[Len(winQueue)].marks[c] ELSE Win!Absent
      BY <3>4
    <3> QED
      BY <2>4, <2>7, <3>1, <3>3, <3>5, <3>6 DEF WinOfferedAs
  <2> QED
    BY <2>8
<1> QED
  BY <1>1, <1>2, <1>3

\* A callback adds the next entry of its channel.
LEMMA WinDeliverStep == ASSUME WinIInv, NEW d \in Channel, Win!Deliver(d) PROVE WinIInv'
<1> USE WinNumbers
<1>0. WinTyped /\ WinDown /\ WinBatch /\ \A c \in Channel : WinParts(c)
  BY WinUnfold
<1>e. PICK e : e = winSub[d].sent + 1
  OBVIOUS
<1>1. /\ winSub[d].ok /\ winSub[d].sent < Len(winChannel[d])
      /\ Win!OfferMerged(d, e) \/ Win!OfferNew(d, e) \/ Win!OfferEvicting(d, e)
      /\ winSub' = [winSub EXCEPT ![d].sent = @ + 1]
      /\ UNCHANGED <<winChannel, winCommitted, winTick, winDb, winKnown, winFaults>>
  BY <1>e DEF Win!Deliver
<1>2. e \in Win!Place /\ e \in Nat /\ e <= Len(winChannel[d])
      /\ winSub[d].sent \in 0..Others.log /\ winSub[d].sent < e
  <2>1. winSub[d].sent \in 0..Others.log /\ Len(winChannel[d]) \in 0..Others.log
    BY <1>0, WinFields
  <2> QED
    BY <1>1, <1>e, <2>1 DEF Win!Place
<1>3. /\ winSub' \in [Channel -> [ok : BOOLEAN, sent : 0..Others.log]]
      /\ \A c \in Channel : winSub'[c].ok = winSub[c].ok /\ winSub'[c].sent = IF c = d
         THEN e ELSE winSub[c].sent
  <2>1. winSub \in [Channel -> [ok : BOOLEAN, sent : 0 .. Others.log]]
    BY <1>0 DEF WinTyped
  <2>2. winSub' = [winSub EXCEPT ![d] = [winSub[d] EXCEPT !.sent = e]]
    BY <1>1, <1>e
  <2>3. e \in 0..Others.log
    BY <1>2
  <2>4. /\ [winSub[d] EXCEPT !.sent = e] \in [ok : BOOLEAN, sent : 0 .. Others.log]
        /\ [winSub[d] EXCEPT !.sent = e].sent = e
        /\ [winSub[d] EXCEPT !.sent = e].ok = winSub[d].ok
    BY <2>1, <2>3
  <2> QED
    BY <2>1, <2>2, <2>4
<1>4. PICK m \in BOOLEAN, s \in {0, 1} : (m => s = 0) /\ WinOfferedAs(d, e, m, s)
  BY <1>0, <1>1, <1>2, WinOfferGives
<1>n. PICK n : n = Len(winQueue)
  OBVIOUS
<1>N. PICK N : N = Len(winQueue')
  OBVIOUS
<1>5. /\ winQueue' \in Seq(WinItem) /\ N \in Nat \ {0} /\ N <= QueueMax /\ n \in Nat
      /\ N + s = IF m THEN n ELSE n + 1
      /\ \A i \in 1..N - 1 : i + s \in 1..n /\ winQueue'[i] = winQueue[i + s]
  BY <1>0, <1>4, <1>n, <1>N, WinFields DEF WinOfferedAs
<1>6. ASSUME NEW c \in Channel
      PROVE  /\ winQueue'[N].of[c] = (IF m THEN winQueue[n].of[c] ELSE {})
                \cup (IF c = d THEN {e} ELSE {})
             /\ winQueue'[N].marks[c] = IF c = d THEN e ELSE IF m
                THEN winQueue[n].marks[c] ELSE Win!Absent
  BY <1>4, <1>n, <1>N DEF WinOfferedAs
<1>7. /\ winLost' \in [evicted : WinEntries, before : WinEntries,
         forgotten : WinEntries,
         unsaved : WinEntries]
      /\ winLost'.before = winLost.before /\ winLost'.forgotten = winLost.forgotten
      /\ winLost'.unsaved = winLost.unsaved
      /\ \A c \in Channel : winLost.evicted[c] \subseteq winLost'.evicted[c]
      /\ s = 1 => \A c \in Channel : winQueue[1].of[c] \subseteq winLost'.evicted[c]
  BY <1>4 DEF WinOfferedAs
<1>8. WinTyped'
  BY <1>0, <1>1, <1>3, <1>5, <1>7, <1>N DEF WinTyped
<1>9. WinDown' /\ WinBatch'
  <2>1. winTick.stage # "down"
    BY <1>0, <1>1 DEF WinDown
  <2> QED
    BY <1>0, <1>1, <2>1 DEF WinDown, WinBatch
<1>10. m => s = 0 /\ N = n /\ n \in 1..n
  BY <1>4, <1>5
<1>11. ~m => n + 1 = N + s
  BY <1>5
<1>12. ASSUME NEW c \in Channel PROVE WinParts(c)'
  <2>0. WinBounded(c) /\ WinFollowed(c) /\ WinQueued(c) /\ WinCovered(c) /\ WinOnce(c)
    BY <1>0 DEF WinParts
  <2>1. /\ Len(winChannel[c]) \in 0..Others.log /\ winCommitted[c] \in WinBookmark
           /\ winSub[c].sent \in 0..Others.log
    BY <1>0, WinFields
  <2>2. \A i \in 1..n : winQueue[i].marks[c] \in WinBookmark
        /\ winQueue[i].of[c] \in SUBSET Win!Place
    BY <1>0, <1>n, WinFields
  <2>3. c = d => winCommitted[c] # Win!Absent /\ winCommitted[c] < e
        /\ e <= Len(winChannel[c])
    <3>1. c = d => winCommitted[c] # Win!Absent /\ winCommitted[c] <= winSub[c].sent
      BY <1>1, <2>0 DEF WinFollowed, WinBounded
    <3>2. winCommitted[c] \in Int /\ winSub[c].sent \in Int
      BY <2>1
    <3> QED
      BY <1>2, <3>1, <3>2
  <2>4. winSub[c].sent <= winSub'[c].sent /\ winSub'[c].sent <= Len(winChannel[c])
        /\ winSub'[c].sent \in Nat
    BY <1>2, <1>3, <2>0, <2>1 DEF WinBounded
  <2>5. WinBounded(c)'
    <3>1. winCommitted[c] <= winSub'[c].sent \/ ~winSub'[c].ok
      <4>1. winCommitted[c] \in Int /\ winSub[c].sent \in Int /\ winSub'[c].sent \in Int
        <5>1. winCommitted[c] \in Int
          BY <2>1
        <5>2. winSub[c].sent \in Int /\ winSub'[c].sent \in Int
          BY <2>1, <2>4
        <5> QED
          BY <5>1, <5>2
      <4> QED
        BY <1>3, <2>0, <2>4, <4>1 DEF WinBounded
    <3> QED
      BY <1>1, <2>0, <2>4, <3>1 DEF WinBounded
  <2>6. WinFollowed(c)' /\ WinOnce(c)'
    BY <1>1, <1>3, <2>0 DEF WinFollowed, WinOnce
  <2>7. \A x \in Win!Place : WinGone(c, x) => WinGone(c, x)'
    BY <1>1, <1>7 DEF WinGone
  <2>8. \A x \in Win!Place : WinTaken(c, x) => WinTaken(c, x)'
    BY <1>1, <2>7 DEF WinTaken
  <2>9. \A j \in 1..n : /\ winQueue[j].marks[c] <= winSub[c].sent
                        /\ winQueue[j].marks[c] # Win!Absent
                           => winCommitted[c] # Win!Absent
                        /\ \A x \in winQueue[j].of[c] :
                             /\ winCommitted[c] # Win!Absent /\ winCommitted[c] < x
                                /\ x <= winQueue[j].marks[c]
                             /\ \A i \in 1..j - 1 : winQueue[i].marks[c] < x
    BY <1>n, <2>0 DEF WinQueued
  <2>10. ASSUME NEW i \in 1..N
         PROVE  /\ winQueue'[i].marks[c] <= winSub'[c].sent
                /\ winQueue'[i].marks[c] # Win!Absent => winCommitted[c] # Win!Absent
                /\ \A x \in winQueue'[i].of[c] :
                     /\ winCommitted[c] # Win!Absent /\ winCommitted[c] < x
                        /\ x <= winQueue'[i].marks[c]
                     /\ \A j \in 1..i - 1 : winQueue'[j].marks[c] < x
    <3>1. CASE i # N
      <4>1. i \in 1..N - 1 /\ i + s \in 1..n /\ winQueue'[i] = winQueue[i + s]
        BY <1>5, <3>1
      <4>2. ASSUME NEW j \in 1..i - 1
              PROVE winQueue'[j] = winQueue[j + s] /\ j + s \in 1..(i + s) - 1
        <5>1. j \in 1..N - 1 /\ j + s \in 1..(i + s) - 1
          BY <1>5, <4>1
        <5> QED
          BY <1>5, <5>1
      <4>3. winQueue[i + s].marks[c] \in Int /\ winSub[c].sent \in Int
            /\ winSub'[c].sent \in Int
        <5>1. winQueue[i + s].marks[c] \in WinBookmark
          BY <2>2, <4>1
        <5>2. winQueue[i + s].marks[c] \in Int
          BY <5>1
        <5>3. winSub[c].sent \in Int /\ winSub'[c].sent \in Int
          BY <2>1, <2>4
        <5> QED
          BY <5>2, <5>3
      <4>4. winQueue'[i].marks[c] <= winSub'[c].sent
        BY <2>4, <2>9, <4>1, <4>3
      <4>5. ASSUME NEW x \in winQueue'[i].of[c]
            PROVE  /\ winCommitted[c] # Win!Absent /\ winCommitted[c] < x
                      /\ x <= winQueue'[i].marks[c]
                   /\ \A j \in 1..i - 1 : winQueue'[j].marks[c] < x
        BY <2>9, <4>1, <4>2
      <4> QED
        BY <2>9, <4>1, <4>4, <4>5
    <3>2. CASE i = N
      <4>1. ASSUME NEW j \in 1..N - 1
              PROVE winQueue'[j] = winQueue[j + s] /\ j + s \in 1..n
        BY <1>5
      <4>2. ASSUME m, NEW x \in winQueue[n].of[c]
            PROVE  /\ winCommitted[c] # Win!Absent /\ winCommitted[c] < x
                      /\ x <= winQueue'[N].marks[c]
                   /\ \A j \in 1..N - 1 : winQueue'[j].marks[c] < x
        <5>1. /\ winCommitted[c] # Win!Absent /\ winCommitted[c] < x
                 /\ x <= winQueue[n].marks[c]
              /\ \A j \in 1..n - 1 : winQueue[j].marks[c] < x
          BY <1>10, <2>9, <4>2
        <5>2. \A j \in 1..N - 1 : winQueue'[j] = winQueue[j] /\ j \in 1..n - 1
          BY <1>5, <1>10, <4>1, <4>2
        <5>3. x <= winQueue'[N].marks[c]
          <6>1. CASE c = d
            <7>1. winQueue[n].marks[c] \in WinBookmark /\ x \in Win!Place
                  /\ winQueue[n].marks[c] <= winSub[c].sent
              BY <1>10, <2>2, <2>9, <4>2
            <7>2. winQueue[n].marks[c] \in Int
              BY <7>1
            <7>3. x \in Int /\ winSub[c].sent \in Int
              BY <2>1, <7>1
            <7> QED
              BY <1>2, <1>6, <5>1, <6>1, <7>1, <7>2, <7>3
          <6>2. CASE c # d
            BY <1>6, <4>2, <5>1, <6>2
          <6> QED
            BY <6>1, <6>2
        <5> QED
          BY <5>1, <5>2, <5>3
      <4>3. ASSUME c = d
            PROVE  /\ winCommitted[c] # Win!Absent /\ winCommitted[c] < e
                      /\ e <= winQueue'[N].marks[c]
                   /\ \A j \in 1..N - 1 : winQueue'[j].marks[c] < e
        <5>1. e <= winQueue'[N].marks[c]
          BY <1>2, <1>6, <4>3
        <5>2. ASSUME NEW j \in 1..N - 1 PROVE winQueue'[j].marks[c] < e
          <6>1. winQueue[j + s].marks[c] \in WinBookmark
                /\ winQueue[j + s].marks[c] <= winSub[c].sent
            BY <2>2, <2>9, <4>1
          <6>2. winQueue[j + s].marks[c] \in Int /\ winSub[c].sent \in Int
            BY <2>1, <6>1
          <6> QED
            BY <1>2, <4>1, <4>3, <6>1, <6>2
        <5> QED
          BY <2>3, <4>3, <5>1, <5>2
      <4>4. ASSUME NEW x \in winQueue'[N].of[c]
            PROVE  /\ winCommitted[c] # Win!Absent /\ winCommitted[c] < x
                      /\ x <= winQueue'[N].marks[c]
                   /\ \A j \in 1..N - 1 : winQueue'[j].marks[c] < x
        <5>1. (m /\ x \in winQueue[n].of[c]) \/ (c = d /\ x = e)
          BY <1>6
        <5> QED
          BY <4>2, <4>3, <5>1
      <4>5. /\ winQueue'[N].marks[c] <= winSub'[c].sent
            /\ winQueue'[N].marks[c] # Win!Absent => winCommitted[c] # Win!Absent
        <5>1. CASE c = d
          BY <1>2, <1>3, <1>6, <2>3, <5>1
        <5>2. CASE c # d /\ m
          BY <1>3, <1>6, <1>10, <2>9, <5>2
        <5>3. CASE c # d /\ ~m
          BY <1>3, <1>6, <2>4, <5>3
        <5> QED
          BY <5>1, <5>2, <5>3
      <4> QED
        BY <3>2, <4>4, <4>5
    <3> QED
      BY <3>1, <3>2
  <2>11. WinQueued(c)'
    BY <1>1, <1>N, <2>10 DEF WinQueued
  <2>12. ASSUME NEW x \in Win!Place, NEW k \in 0..N, k + s <= n, WinHeld(c, x, k + s)
           PROVE WinHeld(c, x, k)'
    <3>1. CASE WinTaken(c, x)
      BY <2>8, <3>1 DEF WinHeld
    <3>2. CASE ~WinTaken(c, x)
      <4>1. PICK j \in 1..k + s : x \in winQueue[j].of[c]
        BY <2>12, <3>2 DEF WinHeld
      <4>2. CASE j - s \in 1..k
        <5>1. x \in winQueue'[j - s].of[c]
          <6>1. CASE j - s \in 1..N - 1
            <7>1. winQueue'[j - s] = winQueue[(j - s) + s] /\ (j - s) + s = j
              BY <1>5, <4>1, <6>1
            <7> QED
              BY <4>1, <7>1
          <6>2. CASE j - s \notin 1..N - 1
            <7>1. j - s = N
              BY <1>5, <4>2, <6>2
            <7>2. m
              BY <1>5, <1>11, <2>12, <4>1, <7>1
            <7>3. j = n
              BY <1>5, <1>10, <4>1, <7>1, <7>2
            <7> QED
              BY <1>6, <4>1, <7>1, <7>2, <7>3
          <6> QED
            BY <6>1, <6>2
        <5> QED
          BY <4>2, <5>1 DEF WinHeld
      <4>3. CASE j - s \notin 1..k
        <5>1. s = 1 /\ j = 1
          BY <4>1, <4>3
        <5>2. x \in winLost'.evicted[c]
          BY <1>7, <4>1, <5>1
        <5> QED
          BY <5>2 DEF WinHeld, WinTaken, WinGone
      <4> QED
        BY <4>2, <4>3
    <3> QED
      BY <3>1, <3>2
  <2>13. ASSUME NEW x \in Win!Place, WinHeld(c, x, n) PROVE WinHeld(c, x, N)'
    <3>1. CASE m
      <4>1. N \in 0..N /\ N + s <= n /\ N + s = n
        BY <1>5, <1>10, <3>1
      <4> QED
        BY <2>12, <2>13, <4>1
    <3>2. CASE ~m
      <4>1. N - 1 \in 0..N /\ (N - 1) + s <= n /\ (N - 1) + s = n
        BY <1>5, <1>11, <3>2
      <4>2. WinHeld(c, x, N - 1)'
        BY <2>12, <2>13, <4>1
      <4> QED
        BY <1>5, <4>2 DEF WinHeld
    <3> QED
      BY <3>1, <3>2
  <2>14. ASSUME c = d PROVE WinHeld(c, e, N)'
    <3>1. e \in winQueue'[N].of[c] /\ N \in 1..N
      BY <1>5, <1>6, <2>14
    <3> QED
      BY <3>1 DEF WinHeld
  <2>15. winCommitted[c] # Win!Absent => \A x \in Win!Place : x <= winSub'[c].sent
         => WinHeld(c, x, N)'
    <3>1. SUFFICES ASSUME winCommitted[c] # Win!Absent, NEW x \in Win!Place,
            x <= winSub'[c].sent PROVE WinHeld(c, x, N)'
      OBVIOUS
    <3>2. CASE x <= winSub[c].sent
      BY <1>n, <2>0, <2>13, <3>1, <3>2 DEF WinCovered
    <3>3. CASE ~(x <= winSub[c].sent)
      <4>1. c = d /\ x = e
        <5>1. x \in Int /\ winSub[c].sent \in Int
          BY <2>1
        <5> QED
          BY <1>3, <1>e, <3>1, <3>3, <5>1
      <4> QED
        BY <2>14, <4>1
    <3> QED
      BY <3>2, <3>3
  <2>16. ASSUME NEW i \in 1..N, NEW x \in Win!Place, x <= winQueue'[i].marks[c]
           PROVE WinHeld(c, x, i)'
    <3>1. CASE i # N
      <4>1. i \in 0..N /\ i + s \in 1..n /\ i + s <= n /\ winQueue'[i] = winQueue[i + s]
        BY <1>5, <3>1
      <4>2. WinHeld(c, x, i + s)
        BY <1>n, <2>0, <2>16, <4>1 DEF WinCovered
      <4> QED
        BY <2>12, <4>1, <4>2
    <3>2. CASE i = N /\ c = d
      <4>1. x <= winSub'[c].sent
        BY <1>3, <1>6, <2>16, <3>2
      <4> QED
        BY <2>3, <2>15, <3>2, <4>1
    <3>3. CASE i = N /\ c # d /\ m
      <4>1. x <= winQueue[n].marks[c]
        BY <1>6, <2>16, <3>3
      <4>2. WinHeld(c, x, n)
        BY <1>n, <1>10, <2>0, <3>3, <4>1 DEF WinCovered
      <4> QED
        BY <2>13, <3>3, <4>2
    <3>4. CASE i = N /\ c # d /\ ~m
      <4>1. x <= -1 /\ x >= 1 /\ x \in Int
        BY <1>6, <2>16, <3>4
      <4> QED
        BY <4>1
    <3> QED
      BY <3>1, <3>2, <3>3, <3>4
  <2>17. WinCovered(c)'
    <3>1. \A x \in Win!Place : x <= winDb.cursor[c] => WinGone(c, x)'
      BY <2>0, <2>7 DEF WinCovered
    <3>2. winTick.stage # "down" => \A x \in Win!Place : x <= winTick.last[c]
          => WinTaken(c, x)'
      BY <2>0, <2>8 DEF WinCovered
    <3>3. \A x \in Win!Place : x <= winCommitted[c] => WinTaken(c, x)'
      BY <2>0, <2>8 DEF WinCovered
    <3> QED
      BY <1>1, <1>N, <2>15, <2>16, <3>1, <3>2, <3>3 DEF WinCovered
  <2> QED
    BY <2>5, <2>6, <2>11, <2>17 DEF WinParts
<1> QED
  BY <1>8, <1>9, <1>12 DEF WinIInv, WinParts

\* Every step keeps the invariant.
LEMMA WinStep == WinIInv /\ [Win!Next]_Win!vars => WinIInv'
<1> SUFFICES ASSUME WinIInv, [Win!Next]_Win!vars PROVE WinIInv'
  OBVIOUS
<1>1. CASE UNCHANGED Win!vars
  BY <1>1 DEF Win!vars, WinIInv, WinTyped, WinDown, WinBatch, WinBounded, WinFollowed,
     WinQueued, WinCovered, WinOnce, WinHeld, WinTaken, WinGone
<1> QED
  BY <1>1, WinLogStep, WinDeliverStep, WinFailLaterStep, WinStartStep,
     WinSuperviseStep, WinDrainStep, WinCommitStep, WinCommitLockedStep, WinCrashStep
     DEF Win!Next

\* The invariant is enough.
LEMMA WinGoals == WinIInv => Win!BookmarksCover /\ Win!ResumesOnce
<1> SUFFICES ASSUME WinIInv PROVE Win!BookmarksCover /\ Win!ResumesOnce
  OBVIOUS
<1>0. WinTyped /\ \A c \in Channel : WinParts(c)
  BY WinUnfold
<1>1. Win!BookmarksCover
  <2>1. ASSUME NEW c \in Channel, NEW e \in 1..winDb.cursor[c] PROVE WinGone(c, e)
    <3>1. winDb.cursor[c] \in WinBookmark
      BY <1>0, WinFields
    <3>2. e \in Win!Place /\ e <= winDb.cursor[c]
      BY <3>1 DEF WinBookmark, Win!Place, Win!Absent
    <3> QED
      BY <1>0, <3>2 DEF WinParts, WinCovered
  <2> QED
    BY <2>1 DEF Win!BookmarksCover, WinGone
<1>2. Win!ResumesOnce
  BY <1>0 DEF WinParts, WinOnce, Win!ResumesOnce
<1> QED
  BY <1>1, <1>2

\* DM-15, DM-19 on Windows, for any channels, failures and restarts: the
\* stored bookmarks cover what is behind them, and nothing comes twice.
THEOREM WinBookmarksAlwaysCover == Win!Spec => [](Win!BookmarksCover /\ Win!ResumesOnce)
BY WinInitHolds, WinStep, WinGoals, PTL DEF Win!Spec
-----------------------------------------------------------------------------
(***************************************************************************)
(* The three sources.                                                      *)
(***************************************************************************)
\* Each adapter starts as its own initial states say, and takes its own
\* steps on its platform and none elsewhere.
LEMMA SourcesCover ==
    SourcesSpec => [](MacIInv /\ WinIInv)
<1>1. SourcesInit => MacIInv /\ WinIInv
  BY MacInitHolds, WinInitHolds DEF SourcesInit
<1>2. MacIInv /\ WinIInv /\ [SourcesNext]_all => (MacIInv /\ WinIInv)'
  <2> SUFFICES ASSUME MacIInv, WinIInv, [SourcesNext]_all
               PROVE  MacIInv' /\ WinIInv'
    OBVIOUS
  <2>1. [Mac!Next]_Mac!vars /\ [Win!Next]_Win!vars
    BY DEF SourcesNext, all, others, macVars, winVars, Mac!vars, Win!vars
  <2> QED
    BY <2>1, MacStep, WinStep
<1> QED
  BY <1>1, <1>2, PTL DEF SourcesSpec

\* DM-15, DM-19, for any logs, channels and faults: what a stored cursor
\* passes is durably stored or lost in a named way, and gaps are real.
THEOREM CursorsAlwaysCover == SourcesSpec => []CursorsCover
<1>1. MacIInv /\ WinIInv => CursorsCover
  BY MacGoals, WinGoals DEF CursorsCover
<1> QED
  BY <1>1, SourcesCover, PTL

\* DM-15 on Windows, for any number of readers and daemons: no event is
\* stored twice.
THEOREM BookmarksResumeOnce == SourcesSpec => []Win!ResumesOnce
<1>1. WinIInv => Win!ResumesOnce
  BY WinGoals
<1> QED
  BY <1>1, SourcesCover, PTL
=============================================================================
