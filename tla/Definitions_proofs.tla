------------------------- MODULE Definitions_proofs -------------------------
(***************************************************************************)
(* Proofs about Definitions, for any files, bodies, tools and registries.   *)
(* A scan is a loop over the files and a loop over the names: Scanned says  *)
(* what each round of either keeps, ScanKeeps that the loops exist and keep *)
(* it.  The invariant IInv relates three places: what runs, the incidents   *)
(* held under it, and what the tables will say of both once the buffers are *)
(* committed; a start has nothing but the tables.                           *)
(***************************************************************************)
EXTENDS Definitions, WellFoundedInduction, SequenceTheorems, TLAPS

(* A nonempty set of naturals has a least element.                         *)
LEMMA LeastNatural ==
  ASSUME NEW S \in SUBSET Nat, S # {}
  PROVE  \E x \in S : \A y \in S : x <= y
<1>1. \E x \in S : \A y \in S : ~(<<y, x>> \in OpToRel(<, Nat))
  BY WFMin, NatLessThanWellFounded
<1>2. PICK x \in S : \A y \in S : ~(<<y, x>> \in OpToRel(<, Nat))
  BY <1>1
<1>3. ASSUME NEW y \in S PROVE x <= y
  <2>1. x \in Nat /\ y \in Nat
    OBVIOUS
  <2>2. ~(<<y, x>> \in {ss \in Nat \X Nat : ss[1] < ss[2]})
    BY <1>2 DEF OpToRel
  <2>3. <<y, x>> \in Nat \X Nat
    BY <2>1
  <2>4. ~(y < x)
    BY <2>2, <2>3
  <2> QED
    BY <2>1, <2>4
<1> QED
  BY <1>3

(* What holds at 0 and is passed on holds up to n.                          *)
LEMMA UpTo ==
  ASSUME NEW n \in Nat, NEW P \in SUBSET (0..n), 0 \in P,
         \A i \in 1..n : i - 1 \in P => i \in P
  PROVE  P = 0..n
<1> DEFINE Missing == {i \in 0..n : i \notin P}
<1>1. ASSUME Missing # {} PROVE FALSE
  <2>0. Missing \in SUBSET Nat
    OBVIOUS
  <2>1. PICK i \in Missing : \A j \in Missing : i <= j
    <3> HIDE DEF Missing
    <3> QED
      BY <1>1, <2>0, LeastNatural
  <2>2. i \in 1..n /\ i - 1 \in 0..n /\ ~(i <= i - 1)
    BY <2>1
  <2>3. i - 1 \in P
    BY <2>1, <2>2
  <2> QED
    BY <2>1, <2>2, <2>3
<1> QED
  BY <1>1

(* f takes the step G for each member of seq in turn.                       *)
Takes(f, base, n, seq, G) ==
  \A i \in 0..n : f[i] = IF i = 0 THEN base ELSE G[<<f[i - 1], seq[i]>>]

(* A function that takes a step for each member of a sequence exists, and   *)
(* stays where the steps stay.                                              *)
LEMMA StepsExist ==
  ASSUME NEW S, NEW X, NEW base \in S, NEW n \in Nat, NEW seq \in [1..n -> X],
         NEW G \in [S \X X -> S]
  PROVE  \E f \in [0..n -> S] : Takes(f, base, n, seq, G)
<1> DEFINE Has(k) == \E f \in [0..k -> S] :
             \A i \in 0..k : f[i] = IF i = 0 THEN base ELSE G[<<f[i - 1], seq[i]>>]
           P == {k \in 0..n : Has(k)}
<1>1. 0 \in P
  <2> DEFINE f == [i \in 0..0 |-> base]
  <2>1. f \in [0..0 -> S] /\ \A i \in 0..0 : i = 0 /\ f[i] = base
    OBVIOUS
  <2> HIDE DEF f
  <2>2. Has(0)
    BY <2>1
  <2> QED
    BY <2>2
<1>2. ASSUME NEW k \in 1..n, k - 1 \in P PROVE k \in P
  <2>1. PICK f \in [0..k - 1 -> S] :
               \A i \in 0..k - 1 : f[i] = IF i = 0 THEN base ELSE G[<<f[i - 1], seq[i]>>]
    BY <1>2
  <2> DEFINE g == [i \in 0..k |-> IF i = k THEN G[<<f[k - 1], seq[k]>>] ELSE f[i]]
  <2>2. f[k - 1] \in S /\ seq[k] \in X
    OBVIOUS
  <2>3. G[<<f[k - 1], seq[k]>>] \in S
    BY <2>2
  <2>4. g \in [0..k -> S]
    <3>1. \A i \in 0..k : i # k => i \in 0..k - 1
      OBVIOUS
    <3> QED
      BY <2>3, <3>1
  <2>5. ASSUME NEW i \in 0..k
        PROVE  g[i] = IF i = 0 THEN base ELSE G[<<g[i - 1], seq[i]>>]
    <3>1. CASE i = k
      <4>1. k # 0 /\ k - 1 \in 0..k /\ k - 1 # k
        OBVIOUS
      <4> QED
        BY <3>1, <4>1
    <3>2. CASE i # k
      <4>1. i \in 0..k - 1 /\ g[i] = f[i]
        BY <3>2
      <4>2. i # 0 => i - 1 \in 0..k /\ i - 1 # k
        BY <4>1
      <4> QED
        BY <2>1, <4>1, <4>2
    <3> QED
      BY <3>1, <3>2
  <2> HIDE DEF g
  <2> QED
    BY <2>4, <2>5
<1>3. n \in P
  <2>1. P = 0..n
    <3> HIDE DEF P
    <3>1. P \in SUBSET (0..n)
      BY DEF P
    <3> QED
      BY <1>1, <1>2, <3>1, UpTo
  <2> QED
    BY <2>1
<1> QED
  BY <1>3 DEF Takes

-----------------------------------------------------------------------------
(* What a scan works on, and what each of its steps does to it.             *)

ScanState ==
  [loaded : [Names -> BodyOrNone], events : [Names -> BodyOrNone], held : [Names -> BodyOrNone],
   buf : [open : SUBSET Entry, close : SUBSET Entry, loads : Seq(Entry)], seen : SUBSET Names]

Goes(st, n, kinds) == st.held[n] # None /\ About[st.held[n]].kind \in kinds

\* The incident of n goes if its definition is of one of the kinds.
Superseded(st, s, n, kinds) ==
  /\ s.held = IF Goes(st, n, kinds) THEN [st.held EXCEPT ![n] = None] ELSE st.held
  /\ s.buf.close = IF Goes(st, n, kinds) THEN st.buf.close \cup {Row(n, st.held[n])} ELSE st.buf.close

LEMMA SupersedeFields ==
  ASSUME NEW st \in ScanState, NEW n \in Names, NEW kinds
  PROVE  LET s == Supersede(st, n, kinds)
         IN  /\ s \in ScanState
             /\ s.loaded = st.loaded /\ s.events = st.events /\ s.seen = st.seen
             /\ s.buf.open = st.buf.open /\ s.buf.loads = st.buf.loads
             /\ Superseded(st, s, n, kinds)
<1>1. CASE ~Goes(st, n, kinds)
  BY <1>1 DEF Supersede, Superseded, Goes
<1>2. CASE Goes(st, n, kinds)
  <2>1. st.held[n] \in Bodies /\ Row(n, st.held[n]) \in Entry
    BY <1>2 DEF Goes, ScanState, BodyOrNone, Entry, Row
  <2> DEFINE r == [st EXCEPT !.buf.close = @ \cup {Row(n, st.held[n])}, !.held[n] = None]
  <2>2. Supersede(st, n, kinds) = r
    BY <1>2 DEF Supersede, Goes
  <2>3. r.loaded = st.loaded /\ r.events = st.events /\ r.seen = st.seen /\ r.held = [st.held EXCEPT ![n] = None]
    BY DEF ScanState
  <2>4. r.buf.open = st.buf.open /\ r.buf.loads = st.buf.loads /\ r.buf.close = st.buf.close \cup {Row(n, st.held[n])}
    BY DEF ScanState
  <2>5. r \in ScanState
    BY <2>1 DEF ScanState, BodyOrNone
  <2> HIDE DEF r
  <2> QED
    BY <1>2, <2>2, <2>3, <2>4, <2>5 DEF Superseded
<1> QED
  BY <1>1, <1>2

(* A new or changed definition is put in its table and its load is noted.   *)
LEMMA LoadSamplerFields ==
  ASSUME NEW st \in ScanState, NEW b \in Bodies, About[b].name \in Names, st.loaded[About[b].name] # b
  PROVE  LET n == About[b].name
             s == LoadSampler(st, b)
         IN  /\ s \in ScanState
             /\ s.loaded = [st.loaded EXCEPT ![n] = b] /\ s.events = st.events /\ s.seen = st.seen
             /\ s.buf.open = st.buf.open /\ s.buf.loads = Append(st.buf.loads, Row(n, b))
             /\ Superseded(st, s, n, SamplerKinds)
<1> DEFINE n == About[b].name
           w == Supersede(st, n, SamplerKinds)
<1>1. /\ w \in ScanState
      /\ w.loaded = st.loaded /\ w.events = st.events /\ w.seen = st.seen
      /\ w.buf.open = st.buf.open /\ w.buf.loads = st.buf.loads
      /\ Superseded(st, w, n, SamplerKinds)
  BY SupersedeFields
<1> DEFINE r == [w EXCEPT !.loaded[n] = b, !.buf.loads = Append(@, Row(n, b))]
<1>2. LoadSampler(st, b) = r
  BY DEF LoadSampler
<1>3. Row(n, b) \in Entry /\ [st.loaded EXCEPT ![n] = b] \in [Names -> BodyOrNone]
  BY DEF Row, Entry, ScanState, BodyOrNone
<1> HIDE DEF w
<1>4. Append(w.buf.loads, Row(n, b)) \in Seq(Entry)
  BY <1>1, <1>3 DEF ScanState
<1>5. r.loaded = [w.loaded EXCEPT ![n] = b] /\ r.events = w.events /\ r.seen = w.seen /\ r.held = w.held
  BY <1>1 DEF ScanState
<1>6. r.buf.open = w.buf.open /\ r.buf.loads = Append(w.buf.loads, Row(n, b)) /\ r.buf.close = w.buf.close
  BY <1>1 DEF ScanState
<1>7. r \in ScanState
  BY <1>1, <1>3, <1>4 DEF ScanState
<1> HIDE DEF r
<1> QED
  BY <1>1, <1>2, <1>5, <1>6, <1>7 DEF Superseded

LEMMA LoadEventFields ==
  ASSUME NEW st \in ScanState, NEW b \in Bodies, About[b].name \in Names, st.events[About[b].name] # b
  PROVE  LET n == About[b].name
             s == LoadEvent(st, b)
         IN  /\ s \in ScanState
             /\ s.loaded = st.loaded /\ s.events = [st.events EXCEPT ![n] = b] /\ s.seen = st.seen
             /\ s.buf.open = st.buf.open /\ s.buf.loads = Append(st.buf.loads, Row(n, b))
             /\ Superseded(st, s, n, EventKinds)
<1> DEFINE n == About[b].name
           w == Supersede(st, n, EventKinds)
<1>1. /\ w \in ScanState
      /\ w.loaded = st.loaded /\ w.events = st.events /\ w.seen = st.seen
      /\ w.buf.open = st.buf.open /\ w.buf.loads = st.buf.loads
      /\ Superseded(st, w, n, EventKinds)
  BY SupersedeFields
<1> DEFINE r == [w EXCEPT !.events[n] = b, !.buf.loads = Append(@, Row(n, b))]
<1>2. LoadEvent(st, b) = r
  BY DEF LoadEvent
<1>3. Row(n, b) \in Entry /\ [st.events EXCEPT ![n] = b] \in [Names -> BodyOrNone]
  BY DEF Row, Entry, ScanState, BodyOrNone
<1> HIDE DEF w
<1>4. Append(w.buf.loads, Row(n, b)) \in Seq(Entry)
  BY <1>1, <1>3 DEF ScanState
<1>5. r.events = [w.events EXCEPT ![n] = b] /\ r.loaded = w.loaded /\ r.seen = w.seen /\ r.held = w.held
  BY <1>1 DEF ScanState
<1>6. r.buf.open = w.buf.open /\ r.buf.loads = Append(w.buf.loads, Row(n, b)) /\ r.buf.close = w.buf.close
  BY <1>1 DEF ScanState
<1>7. r \in ScanState
  BY <1>1, <1>3, <1>4 DEF ScanState
<1> HIDE DEF r
<1> QED
  BY <1>1, <1>2, <1>5, <1>6, <1>7 DEF Superseded

-----------------------------------------------------------------------------
(* What a scan keeps, said of the state st it works on.                     *)

(* A file is named after its monitor.                                       *)
Named(fs) == \A s \in Names : fs[s] # None => About[fs[s].body].name = s

(* What evaluates the incidents of a name. *)
Ran(st, n) == IF st.loaded[n] # None THEN st.loaded[n] ELSE st.events[n]

(* A name is in one table, that of its file's kind.                         *)
Tabled(st, n) ==
  /\ st.loaded[n] # None => About[st.loaded[n]].kind \in SamplerKinds
  /\ st.events[n] # None => About[st.events[n]].kind \in EventKinds
  /\ st.loaded[n] = None \/ st.events[n] = None
  /\ monitors[n] # None => /\ st.loaded[n] # None => About[monitors[n].body].kind \in SamplerKinds
                           /\ st.events[n] # None => About[monitors[n].body].kind \in EventKinds

(* What a file named this time runs as that file says.                      *)
FromFile(st, n, aliases) ==
  n \in st.seen => /\ monitors[n] # None /\ Valid(monitors[n], aliases, TRUE)
                   /\ st.loaded[n] \in {None, monitors[n].body}

(* The latest load a name has, once the buffers are committed, is of what  *)
(* runs; an incident is held under what runs; an open row is of an incident *)
(* that is held.                                                            *)
Told(st, n) == Ran(st, n) # None => LatestLoad(st.buf.loads, n) = Ran(st, n)
OwnHeld(st, n) == st.held[n] # None => st.held[n] = Ran(st, n)
RowsHeld(st) == \A row \in (rows \ st.buf.close) \cup st.buf.open : st.held[row.name] = row.body

Disk == monitors \in [Names -> File \cup {None}] /\ Named(monitors)

-----------------------------------------------------------------------------
(* A nonempty set of places of a sequence has a last one.                   *)
LEMMA LastPlace ==
  ASSUME NEW n \in Nat, NEW S \in SUBSET (1..n), S # {}
  PROVE  Max(S) \in S /\ \A y \in S : y <= Max(S)
<1> DEFINE Above == {k \in Nat : \A y \in S : y <= k}
<1>1. Above \in SUBSET Nat /\ n \in Above
  OBVIOUS
<1>2. PICK k \in Above : \A j \in Above : k <= j
  <2> HIDE DEF Above
  <2> QED
    BY <1>1, LeastNatural
<1>3. k \in S
  <2>1. SUFFICES ASSUME k \notin S PROVE FALSE
    OBVIOUS
  <2>2. k \in Nat /\ \A y \in S : y <= k /\ y # k /\ y \in Nat /\ y >= 1
    BY <1>2, <2>1
  <2>5. PICK z \in S : TRUE
    OBVIOUS
  <2>6. k >= 1
    BY <2>2, <2>5
  <2>3. k - 1 \in Nat /\ \A y \in S : y <= k - 1
    BY <2>2, <2>6
  <2>4. k <= k - 1
    BY <1>2, <2>3
  <2> QED
    BY <2>2, <2>4
<1>4. \E x \in S : \A y \in S : x >= y
  BY <1>2, <1>3
<1> QED
  BY <1>4 DEF Max

(* A load appended is the latest of its name and of no other.               *)
LEMMA LatestOfAppend ==
  ASSUME NEW new \in Seq(Entry), NEW m \in Names, NEW b \in Bodies, NEW n \in Names
  PROVE  LatestLoad(Append(new, Row(m, b)), n) = IF n = m THEN b ELSE LatestLoad(new, n)
<1> DEFINE more == Append(new, Row(m, b))
           k == Len(new)
           own == {i \in 1..k : new[i].name = n}
           later == {i \in 1..k + 1 : more[i].name = n}
<1>1. /\ k \in Nat /\ DOMAIN new = 1..k /\ DOMAIN more = 1..k + 1
      /\ \A i \in 1..k : more[i] = new[i]
      /\ more[k + 1] = Row(m, b)
  <2>1. Row(m, b) \in Entry
    BY DEF Row, Entry
  <2> QED
    BY <2>1
<1>2. Row(m, b).name = m /\ Row(m, b).body = b
  BY DEF Row
<1>3. LatestLoad(Append(new, Row(m, b)), n) = IF later = {} THEN loads[n] ELSE more[Max(later)].body
  BY <1>1 DEF LatestLoad
<1>4. LatestLoad(new, n) = IF own = {} THEN loads[n] ELSE new[Max(own)].body
  BY <1>1 DEF LatestLoad
<1> HIDE DEF more, k
<1>5. CASE n = m
  <2>1. k + 1 \in later /\ later \in SUBSET (1..k + 1)
    BY <1>1, <1>2, <1>5
  <2>2. Max(later) \in later /\ k + 1 <= Max(later)
    <3> HIDE DEF later
    <3>1. k + 1 \in Nat /\ later # {}
      BY <1>1, <2>1
    <3> QED
      BY <2>1, <3>1, LastPlace
  <2>3. Max(later) = k + 1
    BY <1>1, <2>1, <2>2
  <2> QED
    BY <1>1, <1>2, <1>3, <1>5, <2>1, <2>3
<1>6. CASE n # m
  <2>1. later = own
    BY <1>1, <1>2, <1>6
  <2>2. ASSUME own # {} PROVE more[Max(own)] = new[Max(own)]
    <3>1. own \in SUBSET (1..k)
      OBVIOUS
    <3>2. Max(own) \in own
      <4> HIDE DEF own
      <4> QED
        BY <1>1, <2>2, <3>1, LastPlace
    <3> QED
      BY <1>1, <3>2
  <2> HIDE DEF own, later
  <2> QED
    BY <1>3, <1>4, <1>6, <2>1, <2>2
<1> QED
  BY <1>5, <1>6

LEMMA LatestOfNone ==
  ASSUME NEW n PROVE LatestLoad(<<>>, n) = loads[n]
BY DEF LatestLoad

-----------------------------------------------------------------------------
(* One file of a scan, one name of a scan.                                  *)

Same(st, r) == r.loaded = st.loaded /\ r.events = st.events /\ r.held = st.held /\ r.buf = st.buf

(* A definition that is new or changed under the name n, in one table.      *)
Puts(st, r, n, b) ==
  /\ About[b].kind \in SamplerKinds
  /\ r.loaded = [st.loaded EXCEPT ![n] = b] /\ r.events = st.events
  /\ r.buf.open = st.buf.open /\ r.buf.loads = Append(st.buf.loads, Row(n, b))
  /\ Superseded(st, r, n, SamplerKinds)
PutsEvent(st, r, n, b) ==
  /\ About[b].kind \in EventKinds
  /\ r.loaded = st.loaded /\ r.events = [st.events EXCEPT ![n] = b]
  /\ r.buf.open = st.buf.open /\ r.buf.loads = Append(st.buf.loads, Row(n, b))
  /\ Superseded(st, r, n, EventKinds)

LEMMA LoadFileCases ==
  ASSUME Disk, NEW st \in ScanState, NEW n \in Names, NEW aliases, Tabled(st, n)
  PROVE  LET r == LoadFile(st, n, aliases)
             b == monitors[n].body
         IN  /\ r \in ScanState
             /\ \/ r = st
                \/ /\ monitors[n] # None /\ Valid(monitors[n], aliases, TRUE) /\ b \in Bodies
                   /\ r.seen = st.seen \cup {n} /\ r.loaded[n] \in {None, b}
                   /\ Same(st, r) \/ Puts(st, r, n, b) \/ PutsEvent(st, r, n, b)
<1> DEFINE r == LoadFile(st, n, aliases)
           f == monitors[n]
           b == f.body
           seen == [st EXCEPT !.seen = @ \cup {n}]
<1>1. CASE f = None \/ ~Valid(f, aliases, TRUE) \/ (f # None /\ ~f.on)
  <2>1. r = st
    BY <1>1 DEF LoadFile, LoadOne
  <2> QED
    BY <2>1
<1>2. CASE f # None /\ Valid(f, aliases, TRUE) /\ f.on
  <2>1. b \in Bodies /\ About[b].name = n
    BY <1>2 DEF Disk, Named, File
  <2>2. About[b].kind \in {"sampler", "event", "external", "unavailable"}
    BY <2>1, DefinitionsAssumption
  <2>3. /\ seen \in ScanState /\ seen.seen = st.seen \cup {n} /\ Same(st, seen)
    BY DEF ScanState, Same
  <2>4. r = IF About[b].kind = "unavailable" THEN seen
            ELSE IF About[b].kind = "event" THEN LoadEvent(seen, b)
            ELSE LoadSampler(seen, b)
    BY <1>2, <2>1 DEF LoadFile, LoadOne
  <2> HIDE DEF seen, b
  <2>5. /\ st.loaded[n] # None => About[b].kind \in SamplerKinds
    BY <1>2 DEF Tabled, b
  <2>6. CASE About[b].kind = "unavailable"
    <3>1. r = seen /\ st.loaded[n] = None
      BY <2>4, <2>5, <2>6 DEF SamplerKinds
    <3> QED
      BY <1>2, <2>1, <2>3, <3>1 DEF Same, b
  <2>7. CASE About[b].kind = "event"
    <3>1. r = LoadEvent(seen, b) /\ st.loaded[n] = None /\ About[b].kind \in EventKinds
      BY <2>4, <2>5, <2>7 DEF SamplerKinds, EventKinds
    <3>2. CASE seen.events[n] = b
      <4>1. r = seen
        BY <2>1, <3>1, <3>2 DEF LoadEvent
      <4> QED
        BY <1>2, <2>1, <2>3, <3>1, <4>1 DEF Same, b
    <3>3. CASE seen.events[n] # b
      <4>1. /\ r \in ScanState
            /\ r.loaded = seen.loaded /\ r.events = [seen.events EXCEPT ![n] = b] /\ r.seen = seen.seen
            /\ r.buf.open = seen.buf.open /\ r.buf.loads = Append(seen.buf.loads, Row(n, b))
            /\ Superseded(seen, r, n, EventKinds)
        BY <2>1, <2>3, <3>1, <3>3, LoadEventFields
      <4>2. PutsEvent(st, r, n, b)
        BY <2>3, <3>1, <4>1 DEF PutsEvent, Superseded, Same, Goes
      <4> QED
        BY <1>2, <2>1, <2>3, <3>1, <4>1, <4>2 DEF Same, b
    <3> QED
      BY <3>2, <3>3
  <2>8. CASE About[b].kind \in {"sampler", "external"}
    <3>1. r = LoadSampler(seen, b) /\ About[b].kind \in SamplerKinds
      BY <2>4, <2>8 DEF SamplerKinds
    <3>2. CASE seen.loaded[n] = b
      <4>1. r = seen
        BY <2>1, <3>1, <3>2 DEF LoadSampler
      <4> QED
        BY <1>2, <2>1, <2>3, <3>1, <3>2, <4>1 DEF Same, b
    <3>3. CASE seen.loaded[n] # b
      <4>1. /\ r \in ScanState
            /\ r.loaded = [seen.loaded EXCEPT ![n] = b] /\ r.events = seen.events /\ r.seen = seen.seen
            /\ r.buf.open = seen.buf.open /\ r.buf.loads = Append(seen.buf.loads, Row(n, b))
            /\ Superseded(seen, r, n, SamplerKinds)
        BY <2>1, <2>3, <3>1, <3>3, LoadSamplerFields
      <4>2. Puts(st, r, n, b)
        BY <2>3, <3>1, <4>1 DEF Puts, Superseded, Same, Goes
      <4>3. r.loaded[n] = b
        BY <2>3, <4>1 DEF ScanState
      <4> QED
        BY <1>2, <2>1, <2>3, <4>1, <4>2, <4>3 DEF Same, b
    <3> QED
      BY <3>2, <3>3
  <2> QED
    BY <2>2, <2>6, <2>7, <2>8
<1> QED
  BY <1>1, <1>2

(* A name that no file had this time goes from its table.                   *)
LEMMA DropOneCases ==
  ASSUME NEW st \in ScanState, NEW n \in Names, Tabled(st, n)
  PROVE  LET r == DropOne(st, n)
         IN  /\ r \in ScanState /\ r.seen = st.seen
             /\ r.buf.open = st.buf.open /\ r.buf.loads = st.buf.loads
             /\ \/ r = st /\ (n \notin st.seen => st.loaded[n] = None /\ st.events[n] = None)
                \/ /\ r.loaded = [st.loaded EXCEPT ![n] = None] /\ r.events = st.events
                   /\ st.loaded[n] # None /\ st.events[n] = None /\ Superseded(st, r, n, SamplerKinds)
                   /\ n \notin st.seen
                \/ /\ r.loaded = st.loaded /\ r.events = [st.events EXCEPT ![n] = None]
                   /\ st.loaded[n] = None /\ st.events[n] # None /\ Superseded(st, r, n, EventKinds)
                   /\ n \notin st.seen
<1> DEFINE r == DropOne(st, n)
<1>1. CASE n \in st.seen \/ (st.loaded[n] = None /\ st.events[n] = None)
  <2>1. r = st
    BY <1>1 DEF DropOne
  <2> QED
    BY <1>1, <2>1
<1>2. CASE n \notin st.seen /\ st.loaded[n] # None
  <2> DEFINE w == Supersede(st, n, SamplerKinds)
             q == [w EXCEPT !.loaded[n] = None]
  <2>1. /\ w \in ScanState
        /\ w.loaded = st.loaded /\ w.events = st.events /\ w.seen = st.seen
        /\ w.buf.open = st.buf.open /\ w.buf.loads = st.buf.loads
        /\ Superseded(st, w, n, SamplerKinds)
    BY SupersedeFields
  <2>2. st.events[n] = None
    BY <1>2 DEF Tabled
  <2> HIDE DEF w
  <2>3. q \in ScanState
    BY <2>1 DEF ScanState, BodyOrNone
  <2>4. /\ q.loaded = [w.loaded EXCEPT ![n] = None] /\ q.events = w.events /\ q.seen = w.seen
        /\ q.held = w.held /\ q.buf = w.buf
    BY <2>1 DEF ScanState
  <2>5. r = q
    BY <1>2, <2>1, <2>2, <2>4 DEF DropOne, w
  <2> HIDE DEF q
  <2> QED
    BY <1>2, <2>1, <2>2, <2>3, <2>4, <2>5 DEF Superseded
<1>3. CASE n \notin st.seen /\ st.loaded[n] = None /\ st.events[n] # None
  <2> DEFINE w == Supersede(st, n, EventKinds)
             q == [w EXCEPT !.events[n] = None]
  <2>1. /\ w \in ScanState
        /\ w.loaded = st.loaded /\ w.events = st.events /\ w.seen = st.seen
        /\ w.buf.open = st.buf.open /\ w.buf.loads = st.buf.loads
        /\ Superseded(st, w, n, EventKinds)
    BY SupersedeFields
  <2> HIDE DEF w
  <2>3. q \in ScanState
    BY <2>1 DEF ScanState, BodyOrNone
  <2>4. /\ q.loaded = w.loaded /\ q.events = [w.events EXCEPT ![n] = None] /\ q.seen = w.seen
        /\ q.held = w.held /\ q.buf = w.buf
    BY <2>1 DEF ScanState
  <2>5. r = q
    BY <1>3 DEF DropOne, w
  <2> HIDE DEF q
  <2> QED
    BY <1>3, <2>1, <2>3, <2>4, <2>5 DEF Superseded
<1> QED
  BY <1>1, <1>2, <1>3

-----------------------------------------------------------------------------
(* What the steps keep.                                                     *)

TablesHold(st, aliases) == \A n \in Names : Tabled(st, n) /\ FromFile(st, n, aliases)
BooksHold(st) == st.buf.open = {} /\ \A n \in Names : Told(st, n) /\ OwnHeld(st, n)

LEMMA KindsDiffer == \A k \in SamplerKinds : k \notin EventKinds
BY DEF SamplerKinds, EventKinds

LEMMA LoadFileKeepsTables ==
  ASSUME Disk, NEW st \in ScanState, NEW n \in Names, NEW aliases, TablesHold(st, aliases)
  PROVE  TablesHold(LoadFile(st, n, aliases), aliases)
<1> DEFINE r == LoadFile(st, n, aliases)
           b == monitors[n].body
<1> SUFFICES ASSUME NEW m \in Names PROVE Tabled(r, m) /\ FromFile(r, m, aliases)
  BY DEF TablesHold
<1>1. Tabled(st, n) /\ Tabled(st, m) /\ FromFile(st, m, aliases)
  BY DEF TablesHold
<1>2. r = st \/ /\ monitors[n] # None /\ Valid(monitors[n], aliases, TRUE) /\ b \in Bodies
                /\ r.seen = st.seen \cup {n} /\ r.loaded[n] \in {None, b}
                /\ Same(st, r) \/ Puts(st, r, n, b) \/ PutsEvent(st, r, n, b)
  BY <1>1, LoadFileCases
<1> HIDE DEF r
<1>3. CASE r = st
  BY <1>1, <1>3
<1>4. CASE r # st /\ m # n
  <2>1. r.loaded[m] = st.loaded[m] /\ r.events[m] = st.events[m] /\ (m \in r.seen <=> m \in st.seen)
    BY <1>2, <1>4 DEF Same, Puts, PutsEvent, ScanState
  <2> QED
    BY <1>1, <2>1 DEF Tabled, FromFile
<1>5. CASE r # st /\ m = n
  <2>1. FromFile(r, n, aliases)
    BY <1>2, <1>5 DEF FromFile
  <2>2. CASE Same(st, r)
    BY <1>1, <1>5, <2>1, <2>2 DEF Same, Tabled
  <2>3. CASE Puts(st, r, n, b)
    <3>1. r.loaded[n] = b /\ r.events[n] = st.events[n] /\ About[b].kind \in SamplerKinds
      BY <2>3 DEF Puts, ScanState
    <3>2. st.events[n] = None
      BY <1>1, <1>2, <1>5, <3>1, KindsDiffer DEF Tabled
    <3> QED
      BY <1>2, <1>5, <2>1, <3>1, <3>2 DEF Tabled
  <2>4. CASE PutsEvent(st, r, n, b)
    <3>1. r.events[n] = b /\ r.loaded[n] = st.loaded[n] /\ About[b].kind \in EventKinds
      BY <2>4 DEF PutsEvent, ScanState
    <3>2. st.loaded[n] = None
      BY <1>1, <1>2, <1>5, <3>1, KindsDiffer DEF Tabled
    <3> QED
      BY <1>2, <1>5, <2>1, <3>1, <3>2 DEF Tabled
  <2> QED
    BY <1>2, <1>5, <2>2, <2>3, <2>4
<1> QED
  BY <1>3, <1>4, <1>5

LEMMA DropOneKeepsTables ==
  ASSUME NEW st \in ScanState, NEW n \in Names, NEW aliases, TablesHold(st, aliases)
  PROVE  TablesHold(DropOne(st, n), aliases)
<1> DEFINE r == DropOne(st, n)
<1> SUFFICES ASSUME NEW m \in Names PROVE Tabled(r, m) /\ FromFile(r, m, aliases)
  BY DEF TablesHold
<1>1. Tabled(st, n) /\ Tabled(st, m) /\ FromFile(st, m, aliases)
  BY DEF TablesHold
<1>2. /\ r.seen = st.seen
      /\ \/ r = st
         \/ r.loaded = [st.loaded EXCEPT ![n] = None] /\ r.events = st.events
         \/ r.loaded = st.loaded /\ r.events = [st.events EXCEPT ![n] = None]
  BY <1>1, DropOneCases
<1> HIDE DEF r
<1>3. /\ r.loaded[m] \in {None, st.loaded[m]} /\ r.events[m] \in {None, st.events[m]}
  BY <1>2 DEF ScanState
<1> QED
  BY <1>1, <1>2, <1>3 DEF Tabled, FromFile

(* An incident goes with the definition it was opened under.                *)
LEMMA GoesWithDefinition ==
  ASSUME NEW st \in ScanState, NEW n \in Names, Tabled(st, n), OwnHeld(st, n), st.held[n] # None
  PROVE  /\ st.loaded[n] # None \/ st.events[n] = None => Goes(st, n, SamplerKinds)
         /\ st.events[n] # None \/ st.loaded[n] = None => Goes(st, n, EventKinds)
BY DEF Tabled, OwnHeld, Goes, Ran

LEMMA SupersededFrees ==
  ASSUME NEW st \in ScanState, NEW r \in ScanState, NEW n \in Names, Tabled(st, n), OwnHeld(st, n),
         \/ Superseded(st, r, n, SamplerKinds) /\ (st.loaded[n] # None \/ st.events[n] = None)
         \/ Superseded(st, r, n, EventKinds) /\ (st.events[n] # None \/ st.loaded[n] = None)
  PROVE  /\ r.held[n] = None
         /\ \A m \in Names : m # n => r.held[m] = st.held[m]
         /\ \A row \in Entry : row \in st.buf.close \/ st.held[row.name] = row.body
                            => row \in r.buf.close \/ r.held[row.name] = row.body
<1>1. CASE st.held[n] = None
  <2>1. r.held = st.held /\ r.buf.close = st.buf.close
    BY <1>1 DEF Superseded, Goes
  <2> QED
    BY <1>1, <2>1
<1>2. CASE st.held[n] # None
  <2>1. /\ r.held = [st.held EXCEPT ![n] = None]
        /\ r.buf.close = st.buf.close \cup {Row(n, st.held[n])}
    BY <1>2, GoesWithDefinition DEF Superseded
  <2>2. r.held[n] = None /\ \A m \in Names : m # n => r.held[m] = st.held[m]
    BY <2>1 DEF ScanState
  <2>3. ASSUME NEW row \in Entry, row \in st.buf.close \/ st.held[row.name] = row.body
        PROVE  row \in r.buf.close \/ r.held[row.name] = row.body
    <3>1. CASE row \in st.buf.close
      BY <2>1, <3>1
    <3>2. CASE row \notin st.buf.close /\ row.name = n
      <4>1. row = Row(n, st.held[n])
        BY <2>3, <3>2 DEF Entry, Row
      <4> QED
        BY <2>1, <4>1
    <3>3. CASE row \notin st.buf.close /\ row.name # n
      <4>1. row.name \in Names
        BY DEF Entry
      <4> QED
        BY <2>2, <2>3, <3>3, <4>1
    <3> QED
      BY <3>1, <3>2, <3>3
  <2> QED
    BY <2>2, <2>3
<1> QED
  BY <1>1, <1>2

(* Books and rows stay in order when a name is put into a table ...         *)
LEMMA PutKeepsBooks ==
  ASSUME NEW st \in ScanState, NEW r \in ScanState, NEW n \in Names, NEW b \in Bodies,
         Tabled(st, n), Tabled(r, n), BooksHold(st), b # None,
         Puts(st, r, n, b) \/ PutsEvent(st, r, n, b)
  PROVE  /\ BooksHold(r)
         /\ \A row \in Entry : row \in st.buf.close \/ st.held[row.name] = row.body
                            => row \in r.buf.close \/ r.held[row.name] = row.body
<1>1. OwnHeld(st, n)
  BY DEF BooksHold
<1>2. /\ r.buf.open = st.buf.open /\ r.buf.loads = Append(st.buf.loads, Row(n, b))
      /\ Ran(r, n) = b
      /\ \/ Superseded(st, r, n, SamplerKinds) /\ (st.loaded[n] # None \/ st.events[n] = None)
         \/ Superseded(st, r, n, EventKinds) /\ (st.events[n] # None \/ st.loaded[n] = None)
      /\ \A m \in Names : m # n => r.loaded[m] = st.loaded[m] /\ r.events[m] = st.events[m]
  <2>1. CASE Puts(st, r, n, b)
    <3>1. /\ r.loaded[n] = b /\ r.events[n] = st.events[n]
          /\ \A m \in Names : m # n => r.loaded[m] = st.loaded[m] /\ r.events[m] = st.events[m]
      BY <2>1 DEF Puts, ScanState
    <3>2. st.events[n] = None
      BY <3>1 DEF Tabled
    <3> QED
      BY <2>1, <3>1, <3>2 DEF Puts, Ran
  <2>2. CASE PutsEvent(st, r, n, b)
    <3>1. /\ r.events[n] = b /\ r.loaded[n] = st.loaded[n]
          /\ \A m \in Names : m # n => r.loaded[m] = st.loaded[m] /\ r.events[m] = st.events[m]
      BY <2>2 DEF PutsEvent, ScanState
    <3>2. st.loaded[n] = None
      BY <3>1 DEF Tabled
    <3> QED
      BY <2>2, <3>1, <3>2 DEF PutsEvent, Ran
  <2> QED
    BY <2>1, <2>2
<1>3. /\ r.held[n] = None
      /\ \A m \in Names : m # n => r.held[m] = st.held[m]
      /\ \A row \in Entry : row \in st.buf.close \/ st.held[row.name] = row.body
                         => row \in r.buf.close \/ r.held[row.name] = row.body
  BY <1>1, <1>2, SupersededFrees
<1>4. ASSUME NEW m \in Names PROVE Told(r, m) /\ OwnHeld(r, m)
  <2>1. st.buf.loads \in Seq(Entry)
    BY DEF ScanState
  <2>2. LatestLoad(r.buf.loads, m) = IF m = n THEN b ELSE LatestLoad(st.buf.loads, m)
    BY <1>2, <2>1, LatestOfAppend
  <2>3. m # n => Ran(r, m) = Ran(st, m)
    BY <1>2 DEF Ran
  <2>4. Told(st, m) /\ OwnHeld(st, m)
    BY DEF BooksHold
  <2> QED
    BY <1>2, <1>3, <2>2, <2>3, <2>4 DEF Told, OwnHeld
<1>5. r.buf.open = {}
  BY <1>2 DEF BooksHold
<1> QED
  BY <1>3, <1>4, <1>5 DEF BooksHold

(* ... and when it goes.                                                    *)
LEMMA DropOneKeepsBooks ==
  ASSUME NEW st \in ScanState, NEW n \in Names, Tabled(st, n), BooksHold(st)
  PROVE  LET r == DropOne(st, n)
         IN  /\ BooksHold(r)
             /\ \A row \in Entry : row \in st.buf.close \/ st.held[row.name] = row.body
                                => row \in r.buf.close \/ r.held[row.name] = row.body
<1> DEFINE r == DropOne(st, n)
<1>1. OwnHeld(st, n)
  BY DEF BooksHold
<1>2. r \in ScanState /\ r.buf.open = st.buf.open /\ r.buf.loads = st.buf.loads
  BY DropOneCases
<1>3. CASE r = st
  BY <1>3
<1>4. CASE r # st
  <2>1. /\ \/ r.loaded = [st.loaded EXCEPT ![n] = None] /\ r.events = st.events /\ st.events[n] = None
           \/ r.loaded = st.loaded /\ r.events = [st.events EXCEPT ![n] = None] /\ st.loaded[n] = None
        /\ \/ Superseded(st, r, n, SamplerKinds) /\ (st.loaded[n] # None \/ st.events[n] = None)
           \/ Superseded(st, r, n, EventKinds) /\ (st.events[n] # None \/ st.loaded[n] = None)
    BY <1>4, DropOneCases
  <2> HIDE DEF r
  <2>2. Ran(r, n) = None /\ \A m \in Names : m # n => Ran(r, m) = Ran(st, m)
    BY <1>2, <2>1 DEF Ran, ScanState
  <2>3. /\ r.held[n] = None
        /\ \A m \in Names : m # n => r.held[m] = st.held[m]
        /\ \A row \in Entry : row \in st.buf.close \/ st.held[row.name] = row.body
                           => row \in r.buf.close \/ r.held[row.name] = row.body
    BY <1>1, <1>2, <2>1, SupersededFrees
  <2>4. ASSUME NEW m \in Names PROVE Told(r, m) /\ OwnHeld(r, m)
    <3>1. Told(st, m) /\ OwnHeld(st, m)
      BY DEF BooksHold
    <3> QED
      BY <1>2, <2>2, <2>3, <3>1 DEF Told, OwnHeld
  <2> QED
    BY <1>2, <2>3, <2>4 DEF BooksHold, r
<1> QED
  BY <1>3, <1>4

-----------------------------------------------------------------------------
(* A whole scan.                                                            *)

(* What is looked for at a start, where no incident is held yet, and what   *)
(* at a rescan.                                                             *)
Scanned(st, aliases, books, mine) ==
  /\ st \in ScanState /\ TablesHold(st, aliases)
  /\ books => BooksHold(st)
  /\ mine => \A row \in rows : row \in st.buf.close \/ st.held[row.name] = row.body

LEMMA LoadFileKeeps ==
  ASSUME Disk, rows \subseteq Entry, NEW n \in Names, NEW aliases, NEW books, NEW mine, mine => books,
         NEW st, Scanned(st, aliases, books, mine)
  PROVE  Scanned(LoadFile(st, n, aliases), aliases, books, mine)
<1> DEFINE r == LoadFile(st, n, aliases)
           b == monitors[n].body
<1>1. st \in ScanState /\ TablesHold(st, aliases)
  BY DEF Scanned
<1>2. TablesHold(r, aliases)
  BY <1>1, LoadFileKeepsTables
<1>3. Tabled(st, n) /\ Tabled(r, n)
  BY <1>1, <1>2 DEF TablesHold
<1>4. /\ r \in ScanState
      /\ r = st \/ (b \in Bodies /\ (Same(st, r) \/ Puts(st, r, n, b) \/ PutsEvent(st, r, n, b)))
  BY <1>1, <1>3, LoadFileCases
<1>5. b \in Bodies => b # None
  BY DefinitionsAssumption
<1> HIDE DEF r
<1>6. ASSUME books
      PROVE  /\ BooksHold(r)
             /\ \A row \in Entry : row \in st.buf.close \/ st.held[row.name] = row.body
                                => row \in r.buf.close \/ r.held[row.name] = row.body
  <2>1. BooksHold(st)
    BY <1>6 DEF Scanned
  <2>2. CASE r = st \/ Same(st, r)
    BY <2>1, <2>2 DEF Same, BooksHold, Told, OwnHeld, Ran
  <2>3. CASE b \in Bodies /\ (Puts(st, r, n, b) \/ PutsEvent(st, r, n, b))
    <3> HIDE DEF b
    <3> QED
      BY <1>1, <1>3, <1>4, <1>5, <2>1, <2>3, PutKeepsBooks
  <2> QED
    BY <1>4, <2>2, <2>3
<1> QED
  BY <1>2, <1>4, <1>6 DEF Scanned, r

LEMMA DropOneKeeps ==
  ASSUME rows \subseteq Entry, NEW n \in Names, NEW aliases, NEW books, NEW mine, mine => books,
         NEW st, Scanned(st, aliases, books, mine)
  PROVE  Scanned(DropOne(st, n), aliases, books, mine)
<1> DEFINE r == DropOne(st, n)
<1>1. st \in ScanState /\ TablesHold(st, aliases) /\ Tabled(st, n)
  BY DEF Scanned, TablesHold
<1>2. r \in ScanState /\ TablesHold(r, aliases)
  BY <1>1, DropOneCases, DropOneKeepsTables
<1>3. ASSUME books
      PROVE  /\ BooksHold(r)
             /\ \A row \in Entry : row \in st.buf.close \/ st.held[row.name] = row.body
                                => row \in r.buf.close \/ r.held[row.name] = row.body
  BY <1>1, <1>3, DropOneKeepsBooks DEF Scanned
<1> HIDE DEF r
<1> QED
  BY <1>2, <1>3 DEF Scanned, r

(* What is not there for a name.                                            *)
Gone(st, n) == n \notin st.seen => st.loaded[n] = None /\ st.events[n] = None

LEMMA DropOneDrops ==
  ASSUME NEW st \in ScanState, NEW n \in Names, Tabled(st, n)
  PROVE  /\ Gone(DropOne(st, n), n)
         /\ \A m \in Names : Gone(st, m) => Gone(DropOne(st, n), m)
<1> DEFINE r == DropOne(st, n)
<1>1. /\ r.seen = st.seen
      /\ \/ r = st /\ (n \notin st.seen => st.loaded[n] = None /\ st.events[n] = None)
         \/ r.loaded = [st.loaded EXCEPT ![n] = None] /\ r.events = st.events /\ st.events[n] = None
         \/ r.loaded = st.loaded /\ r.events = [st.events EXCEPT ![n] = None] /\ st.loaded[n] = None
  BY DropOneCases
<1> HIDE DEF r
<1>2. Gone(r, n) /\ \A m \in Names : Gone(st, m) => Gone(r, m)
  BY <1>1 DEF Gone, ScanState
<1> QED
  BY <1>2 DEF r

LEMMA ScanKeeps ==
  ASSUME Disk, rows \subseteq Entry, NEW aliases, NEW books, NEW mine, mine => books,
         NEW base, Scanned(base, aliases, books, mine)
  PROVE  LET r == Scan(base, aliases)
         IN  Scanned(r, aliases, books, mine) /\ \A n \in Names : Gone(r, n)
<1> DEFINE N == Len(Stems)
           S == {st \in ScanState : Scanned(st, aliases, books, mine)}
           LoadEq(f) == f = [i \in 0..N |-> IF i = 0 THEN base ELSE LoadFile(f[i - 1], Stems[i], aliases)]
           after == CHOOSE f : LoadEq(f)
           DropEq(f) == f = [i \in 0..N |-> IF i = 0 THEN after[N] ELSE DropOne(f[i - 1], Stems[i])]
           kept == CHOOSE f : DropEq(f)
<1>1. /\ N \in Nat /\ Stems \in [1..N -> Names]
      /\ \A n \in Names : \E i \in 1..N : Stems[i] = n
  <2>1. Stems \in Seq(Names)
    BY DefinitionsAssumption DEF Names
  <2>2. DOMAIN Stems = 1..N
    BY <2>1
  <2>3. \A n \in Names : \E i \in DOMAIN Stems : Stems[i] = n
    BY DEF Names, Range
  <2> QED
    BY <2>1, <2>2, <2>3
<1>2. base \in S
  BY DEF Scanned
<1>3. ASSUME NEW st \in S, NEW n \in Names PROVE LoadFile(st, n, aliases) \in S /\ DropOne(st, n) \in S
  <2>1. Scanned(st, aliases, books, mine)
    OBVIOUS
  <2>2. Scanned(LoadFile(st, n, aliases), aliases, books, mine) /\ Scanned(DropOne(st, n), aliases, books, mine)
    BY <2>1, LoadFileKeeps, DropOneKeeps
  <2> QED
    BY <2>2 DEF Scanned
<1>4. \A st \in S, n \in Names : Tabled(st, n) /\ st \in ScanState
  BY DEF Scanned, TablesHold
<1>5. Scan(base, aliases) = kept[N]
  BY DEF Scan
<1> HIDE DEF N, S
<1>6. LoadEq(after)
  <2> DEFINE G == [p \in S \X Names |-> LoadFile(p[1], p[2], aliases)]
  <2>1. G \in [S \X Names -> S]
    BY <1>3
  <2>2. \E f \in [0..N -> S] : Takes(f, base, N, Stems, G)
    <3> HIDE DEF G
    <3> QED
      BY <1>1, <1>2, <2>1, StepsExist
  <2>3. PICK f \in [0..N -> S] : Takes(f, base, N, Stems, G)
    BY <2>2
  <2>4. ASSUME NEW i \in 0..N, i # 0
        PROVE  G[<<f[i - 1], Stems[i]>>] = LoadFile(f[i - 1], Stems[i], aliases)
    <3>1. i - 1 \in 0..N /\ i \in 1..N
      BY <1>1, <2>4
    <3>2. f[i - 1] \in S /\ Stems[i] \in Names
      BY <1>1, <2>3, <3>1
    <3> QED
      BY <3>2
  <2>5. LoadEq(f)
    BY <2>3, <2>4 DEF Takes
  <2> QED
    BY <2>5
<1> HIDE DEF after
<1>7. after[N] \in S
  <2> DEFINE P == {i \in 0..N : after[i] \in S}
  <2>1. 0 \in P
    BY <1>1, <1>2, <1>6
  <2>2. ASSUME NEW i \in 1..N, i - 1 \in P PROVE i \in P
    <3>1. i \in 0..N /\ i # 0 /\ Stems[i] \in Names
      BY <1>1
    <3>2. after[i] = LoadFile(after[i - 1], Stems[i], aliases)
      BY <1>6, <3>1
    <3> QED
      BY <1>3, <2>2, <3>1, <3>2
  <2>3. P \in SUBSET (0..N)
    OBVIOUS
  <2>4. P = 0..N
    <3> HIDE DEF P
    <3> QED
      BY <1>1, <2>1, <2>2, <2>3, UpTo
  <2>5. N \in 0..N
    BY <1>1
  <2> QED
    BY <2>4, <2>5
<1>8. DropEq(kept)
  <2> DEFINE G == [p \in S \X Names |-> DropOne(p[1], p[2])]
             first == after[N]
  <2>1. G \in [S \X Names -> S]
    BY <1>3
  <2> HIDE DEF first
  <2>2. \E f \in [0..N -> S] : Takes(f, first, N, Stems, G)
    <3> HIDE DEF G
    <3>1. first \in S
      BY <1>7 DEF first
    <3> QED
      BY <1>1, <2>1, <3>1, StepsExist
  <2>3. PICK f \in [0..N -> S] : Takes(f, first, N, Stems, G)
    BY <2>2
  <2>4. ASSUME NEW i \in 0..N, i # 0
        PROVE  G[<<f[i - 1], Stems[i]>>] = DropOne(f[i - 1], Stems[i])
    <3>1. i - 1 \in 0..N /\ i \in 1..N
      BY <1>1, <2>4
    <3>2. f[i - 1] \in S /\ Stems[i] \in Names
      BY <1>1, <2>3, <3>1
    <3> QED
      BY <3>2
  <2>5. DropEq(f)
    BY <2>3, <2>4 DEF first, Takes
  <2> QED
    BY <2>5
<1> HIDE DEF kept
<1>9. kept[N] \in S /\ \A j \in 1..N : Gone(kept[N], Stems[j])
  <2> DEFINE P == {i \in 0..N : kept[i] \in S /\ \A j \in 1..i : Gone(kept[i], Stems[j])}
  <2>1. 0 \in P
    BY <1>1, <1>7, <1>8
  <2>2. ASSUME NEW i \in 1..N, i - 1 \in P PROVE i \in P
    <3>1. i \in 0..N /\ i # 0 /\ Stems[i] \in Names
      BY <1>1
    <3>2. kept[i] = DropOne(kept[i - 1], Stems[i])
      BY <1>8, <3>1
    <3>3. kept[i - 1] \in S /\ \A j \in 1..i - 1 : Gone(kept[i - 1], Stems[j])
      BY <2>2
    <3>4. kept[i] \in S
      BY <1>3, <3>1, <3>2, <3>3
    <3>5. kept[i - 1] \in ScanState /\ Tabled(kept[i - 1], Stems[i])
      BY <1>4, <3>1, <3>3
    <3>6. /\ Gone(kept[i], Stems[i])
          /\ \A m \in Names : Gone(kept[i - 1], m) => Gone(kept[i], m)
      BY <3>1, <3>2, <3>5, DropOneDrops
    <3>7. ASSUME NEW j \in 1..i PROVE Gone(kept[i], Stems[j])
      <4>1. Stems[j] \in Names /\ (j = i \/ j \in 1..i - 1)
        BY <1>1
      <4> QED
        BY <3>3, <3>6, <4>1
    <3> QED
      BY <3>1, <3>4, <3>7
  <2>3. P \in SUBSET (0..N)
    OBVIOUS
  <2>4. P = 0..N
    <3> HIDE DEF P
    <3> QED
      BY <1>1, <2>1, <2>2, <2>3, UpTo
  <2>5. N \in 0..N
    BY <1>1
  <2> QED
    BY <2>4, <2>5
<1> QED
  BY <1>1, <1>5, <1>9 DEF S

-----------------------------------------------------------------------------
(* The invariant.                                                           *)

(* Every file, also one a tool is about to write, is named after its        *)
(* monitor.                                                                 *)
FilesInv ==
  /\ Named(monitors) /\ Named(drafts)
  /\ \A t \in Tools : /\ tool[t].file # None => About[tool[t].file.body].name = tool[t].stem
                      /\ tool[t].op = "write" => tool[t].file # None
(* Without the process there is no memory.                                 *)
AtRest == ~up => loaded = Nothing /\ events = Nothing /\ held = Nothing /\ buf = EmptyBuf
(* The books, as long as no commit was lost to a lock: a row names the body *)
(* of the latest load of its name; memory agrees with what the tables will  *)
(* hold once the buffers are committed.                                     *)
Books ==
  /\ \A row \in rows : loads[row.name] = row.body
  /\ \A n \in Names : Told(Memory, n) /\ OwnHeld(Memory, n)
  /\ up => RowsHeld(Memory)
(* The registry in force backs what is scheduled.                           *)
Backs(n) ==
  loaded[n] # None /\ About[loaded[n]].kind = "external" => About[loaded[n]].alias \in authority.aliases
IInv ==
  /\ TypeOK /\ FilesInv /\ AtRest
  /\ \A n \in Names : Tabled(Memory, n) /\ Backs(n)
  /\ locked = 0 => Books

-----------------------------------------------------------------------------
(* Tools and users.                                                         *)

FilesTyped ==
  /\ monitors \in [Names -> File \cup {None}] /\ drafts \in [Names -> File \cup {None}]
  /\ checks \in [there : BOOLEAN, good : BOOLEAN, aliases : SUBSET Aliases, stamp : Nat]
  /\ tool \in [Tools -> [op : Step, stem : Names, file : File \cup {None}, aliases : SUBSET Aliases]]
  /\ edits \in Nat

FilesAction ==
  \/ \E b \in Bodies : WriteDraft(b)
  \/ \E s \in Names : delete_draft(s)
  \/ \E t \in Tools, s \in Names : ApproveRead(t, s)
  \/ \E t \in Tools : ApproveTarget(t) \/ ApproveRename(t)
  \/ \E t \in Tools, s \in Names, on \in BOOLEAN : SetEnabled(t, s, on)
  \/ \E t \in Tools : EnableWrite(t)
  \/ \E t \in Tools : InstallRead(t) \/ InstallMerge(t) \/ InstallMonitor(t) \/ InstallEnable(t)
  \/ \E s \in Names, f \in File \cup {None} : HandEdit(s, f)
  \/ \E there, good \in BOOLEAN, a \in SUBSET Aliases : EditRegistry(there, good, a)

(* A file that exists is a record, and None is not.                          *)
LEMMA FileFacts ==
  /\ None \notin File /\ None \notin Bodies
  /\ \A f \in File : f # None /\ f.body \in Bodies
  /\ \A b \in Bodies, on \in BOOLEAN : [body |-> b, on |-> on] \in File
BY DefinitionsAssumption DEF File

ToolState == [op : Step, stem : Names, file : File \cup {None}, aliases : SUBSET Aliases]

LEMMA IdleTyped == Idle \in ToolState /\ Idle.file = None /\ Idle.op = "idle"
<1>1. Stems[1] \in Names
  BY DefinitionsAssumption DEF Names, Range
<1> QED
  BY <1>1 DEF Idle, ToolState, Step

LEMMA WriteDraftFiles ==
  ASSUME TypeOK, FilesInv, NEW b \in Bodies, WriteDraft(b)
  PROVE  FilesTyped' /\ FilesInv'
<1>1. About[b].name \in Names /\ [body |-> b, on |-> TRUE] \in File
  BY DefinitionsAssumption, FileFacts DEF Names
<1>2. FilesTyped'
  BY <1>1 DEF WriteDraft, Edit, FilesTyped, TypeOK
<1>3. Named(drafts)'
  BY <1>1 DEF WriteDraft, FilesInv, Named, TypeOK
<1> QED
  BY <1>2, <1>3 DEF WriteDraft, FilesInv, Named

LEMMA DeleteDraftFiles ==
  ASSUME TypeOK, FilesInv, NEW s \in Names, delete_draft(s)
  PROVE  FilesTyped' /\ FilesInv'
<1>1. FilesTyped'
  BY DEF delete_draft, Edit, FilesTyped, TypeOK
<1>2. Named(drafts)'
  BY DEF delete_draft, FilesInv, Named, TypeOK
<1> QED
  BY <1>1, <1>2 DEF delete_draft, FilesInv, Named

(* A tool that reads a file holds a file of the same name.                  *)
LEMMA ToolStepFiles ==
  ASSUME TypeOK, FilesInv, NEW t \in Tools, NEW st \in ToolState,
         st.file # None => About[st.file.body].name = st.stem, st.op = "write" => st.file # None,
         tool' = [tool EXCEPT ![t] = st], UNCHANGED <<monitors, drafts>>,
         checks' \in [there : BOOLEAN, good : BOOLEAN, aliases : SUBSET Aliases, stamp : Nat], edits' \in Nat
  PROVE  FilesTyped' /\ FilesInv'
<1>1. FilesTyped'
  BY DEF FilesTyped, TypeOK, ToolState
<1>2. \A u \in Tools : tool'[u] = IF u = t THEN st ELSE tool[u]
  BY DEF TypeOK
<1> QED
  BY <1>1, <1>2 DEF FilesInv, Named

LEMMA ApproveReadFiles ==
  ASSUME TypeOK, FilesInv, NEW t \in Tools, NEW s \in Names, ApproveRead(t, s)
  PROVE  FilesTyped' /\ FilesInv'
<1> DEFINE st == [Idle EXCEPT !.op = "approve", !.stem = s, !.file = drafts[s]]
<1>1. st \in ToolState /\ st.op = "approve" /\ st.stem = s /\ st.file = drafts[s]
  BY IdleTyped DEF ToolState, Step, TypeOK
<1>2. tool' = [tool EXCEPT ![t] = st] /\ UNCHANGED <<monitors, drafts, checks>> /\ edits' \in Nat
  BY DEF ApproveRead, Edit, TypeOK
<1>3. drafts[s] # None => About[drafts[s].body].name = s
  BY DEF FilesInv, Named
<1>4. checks' \in [there : BOOLEAN, good : BOOLEAN, aliases : SUBSET Aliases, stamp : Nat]
  BY <1>2 DEF TypeOK
<1> HIDE DEF st
<1> QED
  BY <1>1, <1>2, <1>3, <1>4, ToolStepFiles

LEMMA ApproveTargetFiles ==
  ASSUME TypeOK, FilesInv, NEW t \in Tools, ApproveTarget(t)
  PROVE  FilesTyped' /\ FilesInv'
<1> DEFINE st == IF monitors[tool[t].stem] # None THEN Idle ELSE [tool[t] EXCEPT !.op = "rename"]
<1>1. tool[t] \in ToolState
  BY DEF TypeOK, ToolState
<1>2. /\ st \in ToolState /\ st.op # "write"
      /\ st.file # None => st.file = tool[t].file /\ st.stem = tool[t].stem
  BY <1>1, IdleTyped DEF ToolState, Step
<1>3. tool' = [tool EXCEPT ![t] = st] /\ UNCHANGED <<monitors, drafts, checks, edits>>
  BY DEF ApproveTarget
<1>4. checks' \in [there : BOOLEAN, good : BOOLEAN, aliases : SUBSET Aliases, stamp : Nat] /\ edits' \in Nat
  BY <1>3 DEF TypeOK
<1>5. st.file # None => About[st.file.body].name = st.stem
  BY <1>2 DEF FilesInv
<1> HIDE DEF st
<1> QED
  BY <1>2, <1>3, <1>4, <1>5, ToolStepFiles

(* Where a step of a tool changes the monitors, too.                        *)
LEMMA WrittenFiles ==
  ASSUME TypeOK, FilesInv, NEW t \in Tools, NEW st \in ToolState, st.file = None, st.op # "write",
         tool' = [tool EXCEPT ![t] = st],
         monitors' \in [Names -> File \cup {None}], Named(monitors'),
         drafts' \in [Names -> File \cup {None}], Named(drafts'),
         UNCHANGED <<checks, edits>>
  PROVE  FilesTyped' /\ FilesInv'
<1>1. FilesTyped'
  BY DEF FilesTyped, TypeOK, ToolState
<1>2. \A u \in Tools : tool'[u] = IF u = t THEN st ELSE tool[u]
  BY DEF TypeOK
<1> QED
  BY <1>1, <1>2 DEF FilesInv, Named

LEMMA ApproveRenameFiles ==
  ASSUME TypeOK, FilesInv, NEW t \in Tools, ApproveRename(t)
  PROVE  FilesTyped' /\ FilesInv'
<1> DEFINE s == tool[t].stem
<1>1. s \in Names
  BY DEF TypeOK
<1>2. /\ tool' = [tool EXCEPT ![t] = Idle] /\ UNCHANGED <<checks, edits>>
      /\ IF drafts[s] = None THEN UNCHANGED <<monitors, drafts>>
         ELSE monitors' = [monitors EXCEPT ![s] = drafts[s]] /\ drafts' = [drafts EXCEPT ![s] = None]
  BY DEF ApproveRename
<1> HIDE DEF s
<1>3. monitors' \in [Names -> File \cup {None}] /\ drafts' \in [Names -> File \cup {None}]
  BY <1>1, <1>2 DEF TypeOK
<1>4. Named(monitors') /\ Named(drafts')
  BY <1>1, <1>2 DEF FilesInv, Named, TypeOK
<1> QED
  BY <1>2, <1>3, <1>4, IdleTyped, WrittenFiles

LEMMA SetEnabledFiles ==
  ASSUME TypeOK, FilesInv, NEW t \in Tools, NEW s \in Names, NEW on \in BOOLEAN, SetEnabled(t, s, on)
  PROVE  FilesTyped' /\ FilesInv'
<1> DEFINE new == [monitors[s] EXCEPT !.on = on]
           st == [Idle EXCEPT !.op = "write", !.stem = s, !.file = new]
<1>1. /\ monitors[s] # None /\ edits' \in Nat
      /\ tool' = [tool EXCEPT ![t] = st] /\ UNCHANGED <<monitors, drafts, checks>>
  BY DEF SetEnabled, EnableRead, Edit, TypeOK
<1>2. monitors[s] \in File
  BY <1>1 DEF TypeOK
<1>3. new \in File /\ new.body = monitors[s].body
  BY <1>2 DEF File
<1> HIDE DEF new
<1>4. st \in ToolState /\ st.op = "write" /\ st.stem = s /\ st.file = new
  BY <1>3, IdleTyped DEF ToolState, Step
<1>5. About[new.body].name = s /\ new # None
  BY <1>1, <1>3, FileFacts DEF FilesInv, Named
<1>6. checks' \in [there : BOOLEAN, good : BOOLEAN, aliases : SUBSET Aliases, stamp : Nat]
  BY <1>1 DEF TypeOK
<1> HIDE DEF st
<1> QED
  BY <1>1, <1>4, <1>5, <1>6, ToolStepFiles

LEMMA EnableWriteFiles ==
  ASSUME TypeOK, FilesInv, NEW t \in Tools, EnableWrite(t)
  PROVE  FilesTyped' /\ FilesInv'
<1> DEFINE s == tool[t].stem
           f == tool[t].file
<1>1. s \in Names /\ f \in File /\ About[f.body].name = s
  BY DEF TypeOK, EnableWrite, FilesInv
<1>2. /\ tool' = [tool EXCEPT ![t] = Idle] /\ UNCHANGED <<drafts, checks, edits>>
      /\ monitors' = [monitors EXCEPT ![s] = f]
  BY DEF EnableWrite
<1> HIDE DEF s, f
<1>3. monitors' \in [Names -> File \cup {None}] /\ drafts' \in [Names -> File \cup {None}]
  BY <1>1, <1>2 DEF TypeOK
<1>4. Named(monitors') /\ Named(drafts')
  BY <1>1, <1>2 DEF FilesInv, Named, TypeOK
<1> QED
  BY <1>2, <1>3, <1>4, IdleTyped, WrittenFiles

LEMMA InstallReadFiles ==
  ASSUME TypeOK, FilesInv, NEW t \in Tools, InstallRead(t)
  PROVE  FilesTyped' /\ FilesInv'
<1> DEFINE op == IF Recipe.aliases \subseteq FileAliases THEN "install" ELSE "merge"
           st == [Idle EXCEPT !.op = op, !.stem = Recipe.stem, !.aliases = FileAliases \cup Recipe.aliases]
<1>1. FileAliases \in SUBSET Aliases
  BY DEF FileAliases, TypeOK
<1>2. Recipe.stem \in Names /\ Recipe.aliases \in SUBSET Aliases
  BY DefinitionsAssumption DEF Names
<1>3. op \in {"install", "merge"}
  OBVIOUS
<1>4. tool' = [tool EXCEPT ![t] = st] /\ UNCHANGED <<monitors, drafts, checks>> /\ edits' \in Nat
  BY DEF InstallRead, Edit, TypeOK
<1> HIDE DEF op
<1>5. st \in ToolState /\ st.op # "write" /\ st.file = None
  BY <1>1, <1>2, <1>3, IdleTyped DEF ToolState, Step
<1>6. checks' \in [there : BOOLEAN, good : BOOLEAN, aliases : SUBSET Aliases, stamp : Nat]
  BY <1>4 DEF TypeOK
<1> HIDE DEF st
<1> QED
  BY <1>4, <1>5, <1>6, ToolStepFiles

LEMMA InstallMergeFiles ==
  ASSUME TypeOK, FilesInv, NEW t \in Tools, InstallMerge(t)
  PROVE  FilesTyped' /\ FilesInv'
<1> DEFINE st == [tool[t] EXCEPT !.op = "install"]
<1>1. tool[t] \in ToolState
  BY DEF TypeOK, ToolState
<1>2. st \in ToolState /\ st.op = "install" /\ st.file = tool[t].file /\ st.stem = tool[t].stem
  BY <1>1 DEF ToolState, Step
<1>3. tool' = [tool EXCEPT ![t] = st] /\ UNCHANGED <<monitors, drafts, edits>>
  BY <1>1 DEF InstallMerge, TypeOK
<1>4. checks' \in [there : BOOLEAN, good : BOOLEAN, aliases : SUBSET Aliases, stamp : Nat] /\ edits' \in Nat
  BY <1>1, <1>3 DEF InstallMerge, TypeOK, ToolState
<1>5. st.file # None => About[st.file.body].name = st.stem
  BY <1>2 DEF FilesInv
<1> HIDE DEF st
<1> QED
  BY <1>2, <1>3, <1>4, <1>5, ToolStepFiles

LEMMA InstallEnableFiles ==
  ASSUME TypeOK, FilesInv, NEW t \in Tools, InstallEnable(t)
  PROVE  FilesTyped' /\ FilesInv'
<1> DEFINE s == Recipe.stem
           new == [body |-> monitors[s].body, on |-> TRUE]
           write == [Idle EXCEPT !.op = "write", !.stem = s, !.file = new]
           st == IF monitors[s] = None THEN Idle ELSE IF ~Valid(new, FileAliases, TRUE) THEN Idle ELSE write
<1>1. s \in Names
  BY DefinitionsAssumption DEF Names
<1>2. tool' = [tool EXCEPT ![t] = st] /\ UNCHANGED <<monitors, drafts, checks, edits>>
  BY DEF InstallEnable
<1>3. ASSUME monitors[s] # None
      PROVE  /\ write \in ToolState /\ write.file # None
             /\ About[write.file.body].name = write.stem
  <2>1. monitors[s] \in File
    BY <1>1, <1>3 DEF TypeOK
  <2>2. new \in File /\ new.body = monitors[s].body /\ new # None
    BY <2>1, FileFacts
  <2>3. About[new.body].name = s
    BY <1>1, <1>3, <2>2 DEF FilesInv, Named
  <2> HIDE DEF new, s
  <2>4. write \in ToolState /\ write.stem = s /\ write.file = new
    BY <1>1, <2>2, IdleTyped DEF ToolState, Step
  <2> HIDE DEF write
  <2> QED
    BY <2>2, <2>3, <2>4
<1> HIDE DEF write, s, new
<1>4. /\ st \in ToolState
      /\ st.file # None => About[st.file.body].name = st.stem
      /\ st.op = "write" => st.file # None
  BY <1>3, IdleTyped
<1>5. checks' \in [there : BOOLEAN, good : BOOLEAN, aliases : SUBSET Aliases, stamp : Nat] /\ edits' \in Nat
  BY <1>2 DEF TypeOK
<1> HIDE DEF st
<1> QED
  BY <1>2, <1>4, <1>5, ToolStepFiles

LEMMA InstallMonitorFiles ==
  ASSUME TypeOK, FilesInv, NEW t \in Tools, InstallMonitor(t)
  PROVE  FilesTyped' /\ FilesInv'
<1> DEFINE s == Recipe.stem
           f == [body |-> Recipe.body, on |-> TRUE]
           st == [tool[t] EXCEPT !.op = "installed"]
<1>1. s \in Names /\ f \in File /\ f.body = Recipe.body /\ About[f.body].name = s
  BY DefinitionsAssumption, FileFacts DEF Names
<1>2. /\ monitors' = [monitors EXCEPT ![s] = IF monitors[s] = None THEN f ELSE monitors[s]]
      /\ UNCHANGED <<drafts, checks, edits>>
  BY <1>1 DEF InstallMonitor, TypeOK
<1>3. tool' = [tool EXCEPT ![t] = st]
  BY DEF InstallMonitor, TypeOK
<1> HIDE DEF s, f
<1>4. monitors' \in [Names -> File \cup {None}] /\ drafts' \in [Names -> File \cup {None}]
  BY <1>1, <1>2 DEF TypeOK
<1>5. Named(monitors') /\ Named(drafts')
  BY <1>1, <1>2 DEF FilesInv, Named, TypeOK
<1>6. tool[t] \in ToolState
  BY DEF TypeOK, ToolState
<1>7. st \in ToolState /\ st.op = "installed" /\ st.file = tool[t].file /\ st.stem = tool[t].stem
  BY <1>6 DEF ToolState, Step
<1>8. st.file # None => About[st.file.body].name = st.stem
  BY <1>7 DEF FilesInv
<1> HIDE DEF st
<1>9. FilesTyped'
  BY <1>2, <1>3, <1>4, <1>7 DEF FilesTyped, TypeOK, ToolState
<1>10. \A u \in Tools : tool'[u] = IF u = t THEN st ELSE tool[u]
  BY <1>3 DEF TypeOK
<1> QED
  BY <1>5, <1>7, <1>8, <1>9, <1>10 DEF FilesInv, Named

LEMMA HandEditFiles ==
  ASSUME TypeOK, FilesInv, NEW s \in Names, NEW f \in File \cup {None}, HandEdit(s, f)
  PROVE  FilesTyped' /\ FilesInv'
<1>1. FilesTyped'
  BY DEF HandEdit, Edit, FilesTyped, TypeOK
<1>2. Named(monitors)'
  BY DEF HandEdit, FilesInv, Named, TypeOK
<1> QED
  BY <1>1, <1>2 DEF HandEdit, FilesInv, Named

LEMMA EditRegistryFiles ==
  ASSUME TypeOK, FilesInv, NEW there \in BOOLEAN, NEW good \in BOOLEAN, NEW a \in SUBSET Aliases,
         EditRegistry(there, good, a)
  PROVE  FilesTyped' /\ FilesInv'
BY DEF EditRegistry, Edit, FilesTyped, TypeOK, FilesInv, Named

LEMMA FilesActionKeepsFiles ==
  ASSUME TypeOK, FilesInv, FilesAction
  PROVE  FilesTyped' /\ FilesInv'
BY WriteDraftFiles, DeleteDraftFiles, ApproveReadFiles, ApproveTargetFiles, ApproveRenameFiles, SetEnabledFiles,
   EnableWriteFiles, InstallReadFiles, InstallMergeFiles, InstallMonitorFiles, InstallEnableFiles,
   HandEditFiles, EditRegistryFiles DEF FilesAction

LEMMA FilesActionLeavesDaemon ==
  ASSUME FilesAction PROVE DaemonUnchanged
BY DEF FilesAction, WriteDraft, delete_draft, ApproveRead, ApproveTarget, ApproveRename, SetEnabled, EnableRead,
       EnableWrite, InstallRead, InstallMerge, InstallMonitor, InstallEnable, HandEdit, EditRegistry

LEMMA FilesActionKeepsInvariant ==
  ASSUME IInv, FilesAction, KeepsTable
  PROVE  IInv'
<1>1. FilesTyped' /\ FilesInv'
  BY FilesActionKeepsFiles DEF IInv
<1>2. /\ UNCHANGED <<up, loaded, events, authority, held, buf, rows, loads, crashes, locked>>
  BY FilesActionLeavesDaemon DEF DaemonUnchanged, memory, tables
<1>3. TypeOK'
  BY <1>1, <1>2 DEF IInv, TypeOK, FilesTyped
<1>4. AtRest'
  BY <1>2 DEF IInv, AtRest, EmptyBuf, Nothing
<1>5. ASSUME NEW n \in Names PROVE Tabled(Memory, n)' /\ Backs(n)'
  <2>1. Tabled(Memory, n) /\ Backs(n)
    BY DEF IInv
  <2>2. monitors'[n] # None => /\ loaded[n] # None => About[monitors'[n].body].kind \in SamplerKinds
                               /\ events[n] # None => About[monitors'[n].body].kind \in EventKinds
    BY DEF KeepsTable
  <2> QED
    BY <1>2, <2>1, <2>2 DEF Tabled, Memory, Backs
<1>6. locked' = 0 => Books'
  BY <1>2, ZenonT(40) DEF IInv, Books, Told, OwnHeld, RowsHeld, Ran, LatestLoad, Memory
<1> QED
  BY <1>1, <1>3, <1>4, <1>5, <1>6 DEF IInv

-----------------------------------------------------------------------------
(* The daemon.                                                              *)

LEMMA NothingTyped ==
  /\ Nothing \in [Names -> BodyOrNone] /\ \A n \in Names : Nothing[n] = None
  /\ EmptyBuf \in [open : SUBSET Entry, close : SUBSET Entry, loads : Seq(Entry)]
  /\ EmptyBuf.open = {} /\ EmptyBuf.close = {} /\ EmptyBuf.loads = <<>>
BY DEF Nothing, EmptyBuf, BodyOrNone

LEMMA ForgetKeepsInvariant ==
  ASSUME IInv, Forget, UNCHANGED <<disk, tables, edits, locked>>, crashes' \in Nat
  PROVE  IInv'
<1>1. /\ loaded' = Nothing /\ events' = Nothing /\ held' = Nothing /\ buf' = EmptyBuf /\ up' = FALSE
      /\ authority' = [aliases |-> {}, stamp |-> 0]
      /\ UNCHANGED <<monitors, drafts, checks, tool, rows, loads, edits, locked>>
  BY DEF Forget, disk, tables
<1>2. TypeOK'
  BY <1>1, NothingTyped DEF IInv, TypeOK
<1>3. FilesInv'
  BY <1>1 DEF IInv, FilesInv, Named
<1>4. ASSUME NEW n \in Names PROVE Tabled(Memory, n)' /\ Backs(n)'
  BY <1>1, NothingTyped DEF Tabled, Memory, Backs
<1>5. locked' = 0 => Books'
  BY <1>1, NothingTyped DEF IInv, Books, Told, OwnHeld, Ran, Memory
<1> QED
  BY <1>1, <1>2, <1>3, <1>4, <1>5 DEF IInv, AtRest, Nothing, EmptyBuf

(* Where a scan starts from.                                                *)
LEMMA MemoryIsScanned ==
  ASSUME IInv, up, buf = EmptyBuf, NEW aliases
  PROVE  Scanned(Memory, aliases, locked = 0, locked = 0)
<1>1. Memory \in ScanState /\ Memory.seen = {}
  BY DEF Memory, ScanState, IInv, TypeOK
<1>2. TablesHold(Memory, aliases)
  BY <1>1 DEF TablesHold, IInv, FromFile
<1>3. Memory.buf.open = {} /\ Memory.buf.close = {}
  BY NothingTyped DEF Memory
<1>4. locked = 0 => BooksHold(Memory) /\ RowsHeld(Memory)
  BY <1>3 DEF IInv, Books, BooksHold
<1>5. locked = 0 => \A row \in rows : Memory.held[row.name] = row.body
  BY <1>3, <1>4 DEF RowsHeld
<1> QED
  BY <1>1, <1>2, <1>4, <1>5 DEF Scanned

(* What a scan leaves is in its table, and backed by the aliases scanned    *)
(* with.                                                                    *)
LEMMA ScanBacks ==
  ASSUME NEW st, NEW aliases, NEW books, NEW mine, Scanned(st, aliases, books, mine),
         NEW n \in Names, Gone(st, n), st.loaded[n] # None, About[st.loaded[n]].kind = "external"
  PROVE  About[st.loaded[n]].alias \in aliases
<1>1. FromFile(st, n, aliases)
  BY DEF Scanned, TablesHold
<1>2. n \in st.seen
  BY DEF Gone
<1> QED
  BY <1>1, <1>2 DEF FromFile, Valid

LEMMA RescanKeepsInvariant ==
  ASSUME IInv, Rescan
  PROVE  IInv'
<1>1. CASE ScanRaises
  <2>1. Forget /\ UNCHANGED <<disk, tables, edits, crashes, locked>>
    BY <1>1 DEF Rescan
  <2>2. crashes' \in Nat
    BY <2>1 DEF IInv, TypeOK
  <2> QED
    BY <2>1, <2>2, ForgetKeepsInvariant
<1>2. CASE ~ScanRaises
  <2> DEFINE aliases == Reloaded.aliases
             r == Scan(Memory, aliases)
  <2>1. /\ authority' = Reloaded /\ up' = up /\ up /\ buf = EmptyBuf
        /\ loaded' = r.loaded /\ events' = r.events /\ held' = r.held /\ buf' = r.buf
        /\ UNCHANGED <<monitors, drafts, checks, tool, rows, loads, edits, crashes, locked>>
    BY <1>2 DEF Rescan, disk, tables
  <2>2. Disk /\ rows \subseteq Entry
    BY DEF IInv, TypeOK, FilesInv, Disk
  <2>3. Scanned(Memory, aliases, locked = 0, locked = 0)
    BY <2>1, MemoryIsScanned
  <2>4. Scanned(r, aliases, locked = 0, locked = 0) /\ \A n \in Names : Gone(r, n)
    BY <2>2, <2>3, ScanKeeps
  <2>5. Reloaded \in [aliases : SUBSET Aliases, stamp : Nat]
    BY DEF IInv, TypeOK, Reloaded
  <2> HIDE DEF r, aliases
  <2>6. TypeOK'
    BY <2>1, <2>4, <2>5 DEF IInv, TypeOK, Scanned, ScanState
  <2>7. FilesInv' /\ AtRest'
    BY <2>1 DEF IInv, FilesInv, Named, AtRest
  <2>8. ASSUME NEW n \in Names PROVE Tabled(Memory, n)' /\ Backs(n)'
    <3>1. Tabled(r, n)
      BY <2>4 DEF Scanned, TablesHold
    <3>2. Backs(n)'
      BY <2>1, <2>4, ScanBacks DEF Backs, aliases
    <3> QED
      BY <2>1, <3>1, <3>2 DEF Tabled, Memory
  <2>9. ASSUME locked = 0 PROVE Books'
    <3>1. /\ BooksHold(r)
          /\ \A row \in rows : row \in r.buf.close \/ r.held[row.name] = row.body
      BY <2>4, <2>9 DEF Scanned
    <3>2. ASSUME NEW n \in Names PROVE Told(Memory, n)' /\ OwnHeld(Memory, n)'
      BY <2>1, <3>1, ZenonT(40) DEF BooksHold, Told, OwnHeld, Ran, LatestLoad, Memory
    <3>3. RowsHeld(Memory)'
      BY <2>1, <3>1 DEF BooksHold, RowsHeld, Memory
    <3>4. \A row \in rows' : loads'[row.name] = row.body
      BY <2>1, <2>9 DEF IInv, Books
    <3> QED
      BY <3>2, <3>3, <3>4 DEF Books
  <2> QED
    BY <2>1, <2>6, <2>7, <2>8, <2>9 DEF IInv
<1> QED
  BY <1>1, <1>2

LEMMA RowTyped ==
  ASSUME NEW n \in Names, NEW b \in Bodies
  PROVE  Row(n, b) \in Entry /\ Row(n, b).name = n /\ Row(n, b).body = b
BY DEF Row, Entry

(* An incident opens under the definition that runs, and its name had no    *)
(* row that stays.                                                          *)
LEMMA OpenIncidentKeepsInvariant ==
  ASSUME IInv, NEW n \in Names, OpenIncident(n)
  PROVE  IInv'
<1> DEFINE b == Current(n)
<1>1. /\ up /\ b # None /\ held[n] = None
      /\ held' = [held EXCEPT ![n] = b] /\ buf' = [buf EXCEPT !.open = @ \cup {Row(n, b)}]
      /\ UNCHANGED <<monitors, drafts, checks, tool, up, loaded, events, authority, rows, loads, edits, crashes, locked>>
  BY DEF OpenIncident, disk, tables
<1>2. b \in Bodies /\ b = Ran(Memory, n)
  BY <1>1 DEF Current, IInv, TypeOK, BodyOrNone, Ran, Memory
<1> HIDE DEF b
<1>3. Row(n, b) \in Entry /\ Row(n, b).name = n /\ Row(n, b).body = b
  BY <1>2, RowTyped
<1>4. buf'.open = buf.open \cup {Row(n, b)} /\ buf'.close = buf.close /\ buf'.loads = buf.loads
  BY <1>1 DEF IInv, TypeOK
<1>5. TypeOK'
  <2>1. buf' \in [open : SUBSET Entry, close : SUBSET Entry, loads : Seq(Entry)]
    BY <1>1, <1>3 DEF IInv, TypeOK
  <2> QED
    BY <1>1, <1>2, <2>1 DEF IInv, TypeOK, BodyOrNone
<1>6. FilesInv' /\ AtRest'
  BY <1>1 DEF IInv, FilesInv, Named, AtRest
<1>7. ASSUME NEW m \in Names PROVE Tabled(Memory, m)' /\ Backs(m)'
  BY <1>1 DEF IInv, Tabled, Memory, Backs
<1>8. ASSUME locked = 0 PROVE Books'
  <2>1. Books
    BY <1>8 DEF IInv
  <2>2. \A m \in Names : held'[m] = IF m = n THEN b ELSE held[m]
    BY <1>1 DEF IInv, TypeOK
  <2>3. ASSUME NEW m \in Names PROVE Told(Memory, m)' /\ OwnHeld(Memory, m)'
    <3>1. Told(Memory, m) /\ OwnHeld(Memory, m)
      BY <2>1 DEF Books
    <3>2. Ran(Memory, m)' = Ran(Memory, m)
      BY <1>1 DEF Ran, Memory
    <3>3. LatestLoad(Memory.buf.loads, m)' = LatestLoad(Memory.buf.loads, m)
      <4>1. Memory.buf.loads = buf.loads /\ Memory'.buf.loads = buf.loads /\ loads' = loads
        BY <1>1, <1>4 DEF Memory
      <4> QED
        BY <4>1 DEF LatestLoad
    <3>4. Memory.held = held /\ Memory'.held = held'
      BY DEF Memory
    <3> QED
      BY <1>2, <2>2, <3>1, <3>2, <3>3, <3>4 DEF Told, OwnHeld
  <2>4. RowsHeld(Memory)'
    <3>1. ASSUME NEW row \in (rows \ buf.close) \cup buf.open PROVE held'[row.name] = row.body
      <4>1. held[row.name] = row.body
        BY <1>1, <2>1 DEF Books, RowsHeld, Memory
      <4>2. row \in Entry
        BY DEF IInv, TypeOK
      <4>3. row.name \in Names /\ row.body \in Bodies
        BY <4>2 DEF Entry
      <4>4. row.body # None
        BY <4>3, FileFacts
      <4> QED
        BY <1>1, <2>2, <4>1, <4>3, <4>4
    <3>2. held'[n] = b
      BY <2>2
    <3> QED
      BY <1>1, <1>3, <1>4, <3>1, <3>2 DEF RowsHeld, Memory
  <2> QED
    BY <1>1, <2>1, <2>3, <2>4 DEF Books
<1> QED
  BY <1>1, <1>5, <1>6, <1>7, <1>8 DEF IInv

LEMMA ClearIncidentKeepsInvariant ==
  ASSUME IInv, NEW n \in Names, ClearIncident(n)
  PROVE  IInv'
<1> DEFINE b == held[n]
<1>1. /\ up /\ b # None /\ Row(n, b) \notin buf.open
      /\ held' = [held EXCEPT ![n] = None] /\ buf' = [buf EXCEPT !.close = @ \cup {Row(n, b)}]
      /\ UNCHANGED <<monitors, drafts, checks, tool, up, loaded, events, authority, rows, loads, edits, crashes, locked>>
  BY DEF ClearIncident, disk, tables
<1>2. b \in Bodies
  BY <1>1 DEF IInv, TypeOK, BodyOrNone
<1>3. Row(n, b) \in Entry /\ Row(n, b).name = n /\ Row(n, b).body = b
  BY <1>2, RowTyped
<1>4. buf'.open = buf.open /\ buf'.close = buf.close \cup {Row(n, b)} /\ buf'.loads = buf.loads
  BY <1>1 DEF IInv, TypeOK
<1>5. TypeOK'
  <2>1. buf' \in [open : SUBSET Entry, close : SUBSET Entry, loads : Seq(Entry)]
    BY <1>1, <1>3 DEF IInv, TypeOK
  <2> QED
    BY <1>1, <1>2, <2>1 DEF IInv, TypeOK, BodyOrNone
<1>6. FilesInv' /\ AtRest'
  BY <1>1 DEF IInv, FilesInv, Named, AtRest
<1>7. ASSUME NEW m \in Names PROVE Tabled(Memory, m)' /\ Backs(m)'
  BY <1>1 DEF IInv, Tabled, Memory, Backs
<1>8. ASSUME locked = 0 PROVE Books'
  <2>1. Books
    BY <1>8 DEF IInv
  <2>2. \A m \in Names : held'[m] = IF m = n THEN None ELSE held[m]
    BY <1>1 DEF IInv, TypeOK
  <2>3. ASSUME NEW m \in Names PROVE Told(Memory, m)' /\ OwnHeld(Memory, m)'
    <3>1. Told(Memory, m) /\ OwnHeld(Memory, m)
      BY <2>1 DEF Books
    <3>2. Ran(Memory, m)' = Ran(Memory, m)
      BY <1>1 DEF Ran, Memory
    <3>3. LatestLoad(Memory.buf.loads, m)' = LatestLoad(Memory.buf.loads, m)
      <4>1. Memory.buf.loads = buf.loads /\ Memory'.buf.loads = buf.loads /\ loads' = loads
        BY <1>1, <1>4 DEF Memory
      <4> QED
        BY <4>1 DEF LatestLoad
    <3>4. Memory.held = held /\ Memory'.held = held'
      BY DEF Memory
    <3> QED
      BY <2>2, <3>1, <3>2, <3>3, <3>4 DEF Told, OwnHeld
  <2>4. RowsHeld(Memory)'
    <3>1. ASSUME NEW row \in (rows \ buf'.close) \cup buf.open PROVE held'[row.name] = row.body
      <4>1. held[row.name] = row.body
        BY <1>1, <1>4, <2>1 DEF Books, RowsHeld, Memory
      <4>2. row \in Entry
        BY DEF IInv, TypeOK
      <4>3. row.name = n => row = Row(n, b)
        BY <4>1, <4>2 DEF Entry, Row
      <4>4. row # Row(n, b)
        BY <1>1, <1>4
      <4>5. row.name \in Names
        BY <4>2 DEF Entry
      <4> QED
        BY <2>2, <4>1, <4>3, <4>4, <4>5
    <3> QED
      BY <1>1, <1>4, <3>1 DEF RowsHeld, Memory
  <2> QED
    BY <1>1, <2>1, <2>3, <2>4 DEF Books
<1> QED
  BY <1>1, <1>5, <1>6, <1>7, <1>8 DEF IInv

LEMMA CommitKeepsInvariant ==
  ASSUME IInv, Commit
  PROVE  IInv'
<1>1. /\ up /\ buf' = EmptyBuf /\ rows' = (rows \ buf.close) \cup buf.open
      /\ loads' = [n \in Names |-> LatestLoad(buf.loads, n)]
      /\ UNCHANGED <<monitors, drafts, checks, tool, up, loaded, events, authority, held, edits, crashes, locked>>
  BY DEF Commit, disk
<1>2. ASSUME NEW n \in Names PROVE LatestLoad(buf.loads, n) \in BodyOrNone
  <2> DEFINE new == buf.loads
             own == {i \in DOMAIN new : new[i].name = n}
  <2>1. new \in Seq(Entry) /\ loads[n] \in BodyOrNone
    BY DEF IInv, TypeOK
  <2>2. DOMAIN new = 1..Len(new) /\ Len(new) \in Nat
    BY <2>1
  <2>3. own \in SUBSET (1..Len(new))
    BY <2>2
  <2> HIDE DEF new
  <2>4. own # {} => Max(own) \in own
    <3> HIDE DEF own
    <3> QED
      BY <2>2, <2>3, LastPlace
  <2>5. own # {} => new[Max(own)].body \in Bodies
    <3>1. SUFFICES ASSUME own # {} PROVE new[Max(own)] \in Entry
      BY DEF Entry
    <3>2. Max(own) \in 1..Len(new)
      BY <2>3, <2>4, <3>1
    <3> QED
      BY <2>1, <3>2
  <2>6. LatestLoad(new, n) = IF own = {} THEN loads[n] ELSE new[Max(own)].body
    BY DEF LatestLoad
  <2> HIDE DEF own
  <2>7. LatestLoad(new, n) \in BodyOrNone
    BY <2>1, <2>5, <2>6 DEF BodyOrNone
  <2> QED
    BY <2>7 DEF new
<1>3. TypeOK'
  <2>1. rows' \subseteq Entry
    BY <1>1 DEF IInv, TypeOK
  <2>2. loads' \in [Names -> BodyOrNone]
    BY <1>1, <1>2
  <2> QED
    BY <1>1, <2>1, <2>2, NothingTyped DEF IInv, TypeOK
<1>4. FilesInv' /\ AtRest'
  BY <1>1 DEF IInv, FilesInv, Named, AtRest
<1>5. ASSUME NEW m \in Names PROVE Tabled(Memory, m)' /\ Backs(m)'
  BY <1>1 DEF IInv, Tabled, Memory, Backs
<1>6. ASSUME locked = 0 PROVE Books'
  <2>1. Books
    BY <1>6 DEF IInv
  <2>2. ASSUME NEW row \in rows' PROVE held[row.name] = row.body /\ loads'[row.name] = row.body
    <3>1. held[row.name] = row.body
      BY <1>1, <2>1, <2>2 DEF Books, RowsHeld, Memory
    <3>2. row \in Entry
      BY <1>1 DEF IInv, TypeOK
    <3>3. row.name \in Names /\ row.body # None
      BY <3>2, FileFacts DEF Entry
    <3>4. LatestLoad(buf.loads, row.name) = row.body
      BY <2>1, <3>1, <3>3 DEF Books, Told, OwnHeld, Ran, Memory
    <3> QED
      BY <1>1, <3>1, <3>3, <3>4
  <2>3. ASSUME NEW m \in Names PROVE Told(Memory, m)' /\ OwnHeld(Memory, m)'
    <3>1. Told(Memory, m) /\ OwnHeld(Memory, m)
      BY <2>1 DEF Books
    <3>2. buf'.loads = <<>>
      BY <1>1, NothingTyped
    <3>3. LatestLoad(<<>>, m)' = loads'[m]
      BY DEF LatestLoad
    <3>4. loads'[m] = LatestLoad(buf.loads, m)
      BY <1>1
    <3> QED
      BY <1>1, <3>1, <3>2, <3>3, <3>4 DEF Told, OwnHeld, Ran, Memory
  <2>4. RowsHeld(Memory)'
    BY <1>1, <2>2, NothingTyped DEF RowsHeld, Memory
  <2> QED
    BY <2>2, <2>3, <2>4 DEF Books
<1> QED
  BY <1>1, <1>3, <1>4, <1>5, <1>6 DEF IInv

(* A commit that fails ends what the books say.                             *)
LEMMA CommitLockedKeepsInvariant ==
  ASSUME IInv, CommitLocked
  PROVE  IInv'
<1>1. /\ up /\ buf' = EmptyBuf /\ locked' = locked + 1
      /\ UNCHANGED <<monitors, drafts, checks, tool, up, loaded, events, authority, held, rows, loads, edits, crashes>>
  BY DEF CommitLocked, disk, tables
<1>2. locked' \in Nat /\ locked' # 0
  BY <1>1 DEF IInv, TypeOK
<1>3. TypeOK'
  BY <1>1, <1>2, NothingTyped DEF IInv, TypeOK
<1>4. FilesInv' /\ AtRest'
  BY <1>1 DEF IInv, FilesInv, Named, AtRest
<1>5. ASSUME NEW m \in Names PROVE Tabled(Memory, m)' /\ Backs(m)'
  BY <1>1 DEF IInv, Tabled, Memory, Backs
<1> QED
  BY <1>2, <1>3, <1>4, <1>5 DEF IInv

LEMMA StopKeepsInvariant ==
  ASSUME IInv, Stop
  PROVE  IInv'
<1>1. crashes' \in Nat
  BY DEF Stop, IInv, TypeOK
<1> QED
  BY <1>1, ForgetKeepsInvariant DEF Stop

(* A start closes what it does not take up; what it takes up it takes from  *)
(* the rows, which agree with the latest loads, and these with what runs.   *)
LEMMA StartKeepsInvariant ==
  ASSUME IInv, Start
  PROVE  IInv'
<1> DEFINE auth == IF checks.there /\ checks.good
                   THEN [aliases |-> checks.aliases, stamp |-> checks.stamp] ELSE [aliases |-> {}, stamp |-> 0]
           base == [loaded |-> Nothing, events |-> Nothing, held |-> Nothing, buf |-> EmptyBuf, seen |-> {}]
           st == Scan(base, auth.aliases)
           closed == {r \in rows : Changed(st, r.name)}
           own(n) == {r.body : r \in {r \in rows : r.name = n}}
<1>1. /\ up' = TRUE /\ authority' = auth /\ loaded' = st.loaded /\ events' = st.events
      /\ buf' = [st.buf EXCEPT !.close = closed]
      /\ held' \in [Names -> Bodies \cup {None}]
      /\ \A n \in Names : IF Changed(st, n) \/ own(n) = {} THEN held'[n] = None ELSE held'[n] \in own(n)
      /\ UNCHANGED <<monitors, drafts, checks, tool, rows, loads, edits, crashes, locked>>
  BY DEF Start, disk, tables
<1>2. auth \in [aliases : SUBSET Aliases, stamp : Nat]
  BY DEF IInv, TypeOK
<1>3. Disk /\ rows \subseteq Entry
  BY DEF IInv, TypeOK, FilesInv, Disk
<1> HIDE DEF auth
<1>4. Scanned(base, auth.aliases, locked = 0, FALSE)
  <2>1. base \in ScanState
    BY NothingTyped DEF ScanState
  <2>2. ASSUME NEW n \in Names
        PROVE  Tabled(base, n) /\ FromFile(base, n, auth.aliases) /\ Told(base, n) /\ OwnHeld(base, n)
    BY NothingTyped DEF Tabled, FromFile, Told, OwnHeld, Ran
  <2>3. base.buf.open = {}
    BY NothingTyped
  <2> HIDE DEF base
  <2> QED
    BY <2>1, <2>2, <2>3 DEF Scanned, TablesHold, BooksHold
<1>5. Scanned(st, auth.aliases, locked = 0, FALSE) /\ \A n \in Names : Gone(st, n)
  BY <1>3, <1>4, ScanKeeps
<1> HIDE DEF st
<1>6. st \in ScanState
  BY <1>5 DEF Scanned
<1>7. buf'.open = st.buf.open /\ buf'.close = closed /\ buf'.loads = st.buf.loads
  BY <1>1, <1>6 DEF ScanState
<1>8. TypeOK'
  <2>1. closed \in SUBSET Entry
    BY <1>3
  <2> HIDE DEF closed
  <2>2. buf' \in [open : SUBSET Entry, close : SUBSET Entry, loads : Seq(Entry)]
    BY <1>1, <1>6, <2>1 DEF ScanState
  <2> QED
    BY <1>1, <1>2, <1>6, <2>2 DEF IInv, TypeOK, ScanState, BodyOrNone
<1>9. FilesInv' /\ AtRest'
  BY <1>1 DEF IInv, FilesInv, Named, AtRest
<1>10. ASSUME NEW n \in Names PROVE Tabled(Memory, n)' /\ Backs(n)'
  <2>1. Tabled(st, n)
    BY <1>5 DEF Scanned, TablesHold
  <2>2. Backs(n)'
    BY <1>1, <1>5, ScanBacks DEF Backs
  <2> QED
    BY <1>1, <2>1, <2>2 DEF Tabled, Memory
<1>11. ASSUME locked = 0 PROVE Books'
  <2>1. BooksHold(st) /\ \A row \in rows : loads[row.name] = row.body
    BY <1>5, <1>11 DEF Scanned, IInv, Books
  <2>2. ASSUME NEW n \in Names, held'[n] # None
        PROVE  /\ ~Changed(st, n) /\ held'[n] = loads[n] /\ held'[n] = Ran(st, n)
    <3>1. ~Changed(st, n) /\ held'[n] \in own(n)
      BY <1>1, <2>2
    <3>2. held'[n] = loads[n]
      BY <2>1, <3>1
    <3>3. Ran(st, n) # None /\ loads[n] \in {None, Ran(st, n)}
      BY <3>1 DEF Changed, Ran
    <3> QED
      BY <2>2, <3>1, <3>2, <3>3
  <2>3. ASSUME NEW row \in rows, row \notin closed PROVE held'[row.name] = row.body
    <3>1. row.name \in Names /\ row.body \in own(row.name)
      BY <1>3, <2>3 DEF Entry
    <3>2. held'[row.name] \in own(row.name)
      BY <1>1, <2>3, <3>1
    <3> QED
      BY <2>1, <3>2
  <2>4. ASSUME NEW n \in Names PROVE Told(Memory, n)' /\ OwnHeld(Memory, n)'
    <3>1. Ran(Memory, n)' = Ran(st, n) /\ Memory'.held = held' /\ Memory'.buf = buf' /\ loads' = loads
      BY <1>1 DEF Ran, Memory
    <3>2. LatestLoad(Memory.buf.loads, n)' = LatestLoad(st.buf.loads, n)
      BY <1>7, <3>1 DEF LatestLoad
    <3> QED
      BY <2>1, <2>2, <3>1, <3>2 DEF BooksHold, Told, OwnHeld
  <2>5. RowsHeld(Memory)'
    BY <1>1, <1>7, <2>1, <2>3 DEF RowsHeld, BooksHold, Memory
  <2> QED
    BY <1>1, <2>1, <2>4, <2>5 DEF Books
<1> QED
  BY <1>1, <1>8, <1>9, <1>10, <1>11 DEF IInv

-----------------------------------------------------------------------------
LEMMA InitEstablishesInvariant == Init => IInv
<1> SUFFICES ASSUME Init PROVE IInv
  OBVIOUS
<1>1. /\ monitors = NoMonitor /\ drafts = NoMonitor /\ tool = [t \in Tools |-> Idle]
      /\ up = FALSE /\ loaded = Nothing /\ events = Nothing /\ held = Nothing /\ buf = EmptyBuf
      /\ rows = {} /\ loads = Nothing /\ edits = 0 /\ crashes = 0 /\ locked = 0
      /\ checks = [there |-> FALSE, good |-> FALSE, aliases |-> {}, stamp |-> 1]
      /\ authority = [aliases |-> {}, stamp |-> 0]
  BY DEF Init
<1>2. TypeOK
  BY <1>1, NothingTyped, IdleTyped DEF TypeOK, NoMonitor, ToolState
<1>3. FilesInv /\ AtRest
  BY <1>1, IdleTyped DEF FilesInv, Named, NoMonitor, AtRest
<1>4. ASSUME NEW n \in Names PROVE Tabled(Memory, n) /\ Backs(n)
  BY <1>1, NothingTyped DEF Tabled, Memory, Backs
<1>5. Books
  BY <1>1, NothingTyped DEF Books, Told, OwnHeld, Ran, Memory
<1> QED
  BY <1>2, <1>3, <1>4, <1>5 DEF IInv

LEMMA StepKeepsInvariant ==
  ASSUME IInv, [Next]_vars, [KeepsTable]_vars
  PROVE  IInv'
<1>1. CASE UNCHANGED vars
  <2>1. UNCHANGED <<monitors, drafts, checks, tool, up, loaded, events, authority, held, buf, rows, loads, edits, crashes,
                    locked>>
    BY <1>1 DEF vars, disk, memory, tables
  <2>2. TypeOK' /\ FilesInv' /\ AtRest'
    BY <2>1 DEF IInv, TypeOK, FilesInv, Named, AtRest, EmptyBuf, Nothing
  <2>3. \A n \in Names : Tabled(Memory, n)' /\ Backs(n)'
    BY <2>1 DEF IInv, Tabled, Memory, Backs
  <2>4. locked' = 0 => Books'
    BY <2>1, ZenonT(40) DEF IInv, Books, Told, OwnHeld, RowsHeld, Ran, LatestLoad, Memory
  <2> QED
    BY <2>2, <2>3, <2>4 DEF IInv
<1>2. CASE FilesAction /\ KeepsTable
  BY <1>2, FilesActionKeepsInvariant
<1>3. CASE Rescan
  BY <1>3, RescanKeepsInvariant
<1>4. CASE \E n \in Names : OpenIncident(n) \/ ClearIncident(n)
  BY <1>4, OpenIncidentKeepsInvariant, ClearIncidentKeepsInvariant
<1>5. CASE Commit \/ CommitLocked \/ Stop \/ Start
  BY <1>5, CommitKeepsInvariant, CommitLockedKeepsInvariant, StopKeepsInvariant, StartKeepsInvariant
<1> QED
  BY <1>1, <1>2, <1>3, <1>4, <1>5 DEF Next, FilesAction

(* Definitions: as long as every file keeps to the table its monitor is in, *)
(* the types hold ...                                                       *)
THEOREM TypeCorrect == Spec /\ [][KeepsTable]_vars => []TypeOK
<1>1. IInv => TypeOK
  BY DEF IInv
<1> QED
  BY <1>1, InitEstablishesInvariant, StepKeepsInvariant, PTL DEF Spec

(* ... and each scheduled check is backed by the registry in force, in      *)
(* whatever order tools, users, rescans and restarts come (EC-01, EC-06,    *)
(* DaemonCore._reload_check_registry, _load_definitions), ...               *)
THEOREM ChecksAreAlwaysBacked == Spec /\ [][KeepsTable]_vars => []ChecksAreBacked
<1>1. IInv => ChecksAreBacked
  BY DEF IInv, ChecksAreBacked, Backs
<1> QED
  BY <1>1, InitEstablishesInvariant, StepKeepsInvariant, PTL DEF Spec

(* ... and an open incident is never evaluated by another definition than   *)
(* the one it was opened under, through reloads, edits while the daemon is  *)
(* down, and crashes between a reload and its commit (MD-06,                *)
(* DaemonCore._supersede_monitor, _clear_startup_superseded).               *)
THEOREM NothingIsInherited == Spec /\ [][KeepsTable]_vars => []NoInheritance
<1>1. IInv => NoInheritance
  BY DEF IInv, NoInheritance, Books, OwnHeld, Ran, Memory, Current
<1> QED
  BY <1>1, InitEstablishesInvariant, StepKeepsInvariant, PTL DEF Spec

=============================================================================
