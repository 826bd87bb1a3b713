------------------------ MODULE SnapshotPanelsProofs ------------------------
(***************************************************************************)
(* The safety of SnapshotPanels for every schema, every snapshot with its    *)
(* deletions and Blobs, every statement and every limit, with any number of  *)
(* refused requests; and what its operators compute, for every input.        *)
(***************************************************************************)
EXTENDS SnapshotPanels, FiniteSetTheorems, SequenceTheorems, TLAPS

-----------------------------------------------------------------------------
(* Finite sets, sums and sequences *)

\* Induction by least counterexample: a set of numbers has a least one.
LEMMA Least == ASSUME NEW T \in SUBSET Nat, T # {} PROVE \E n \in T : \A m \in T : n <= m
<1> DEFINE Sets == {1..n : n \in T}
           N == Nat
<1>1. \A n \in Nat : 1..n \in SUBSET Nat /\ IsFiniteSet(1..n)
  BY FS_Interval
<1>2. Sets \subseteq FiniteSubsetsOf(N) /\ Sets # {}
  BY <1>1 DEF FiniteSubsetsOf
<1>3. PICK s \in Sets : \A t \in Sets : ~ (<<t, s>> \in StrictSubsetOrdering(N))
  <2> HIDE DEF Sets, N
  <2> QED BY <1>2, FS_StrictSubsetOrderingWellFounded, WFMin
<1>4. PICK n \in T : s = 1..n
  OBVIOUS
<1>5. ASSUME NEW m \in T, m < n PROVE FALSE
  <2>1. 1..m \in Sets /\ 1..m \in FiniteSubsetsOf(N) /\ 1..n \in FiniteSubsetsOf(N)
     BY <1>2
  <2>2. 1..m \subseteq 1..n /\ 1..m # 1..n
    <3>1. n \in 1..n /\ n \notin 1..m
      BY <1>5
    <3> QED BY <3>1, <1>5
  <2>3. <<1..m, 1..n>> \in StrictSubsetOrdering(N)
     BY <2>1, <2>2 DEF StrictSubsetOrdering
  <2> QED BY <1>3, <1>4, <2>1, <2>3
<1> QED BY <1>5

\* Each step, by itself.
Steps(seqs, n, g) ==
    /\ g[1] = seqs[1]
    /\ \A i \in 2..n : g[i] = g[i - 1] \o seqs[i]

\* Lists can be joined one after the other...
LEMMA Flatten ==
    ASSUME NEW S, NEW seqs \in Seq(Seq(S)), NEW n \in 1..Len(seqs)
    PROVE  \E g \in [1..n -> Seq(S)] : Steps(seqs, n, g)
<1> DEFINE Good(k) == \E g \in [1..k -> Seq(S)] : Steps(seqs, k, g)
           Bad == {k \in 1..Len(seqs) : ~Good(k)}
<1>0. Len(seqs) \in Nat /\ \A i \in 1..Len(seqs) : seqs[i] \in Seq(S)
  BY LenProperties, ElementOfSeq
<1>1. SUFFICES ASSUME Bad # {} PROVE FALSE
  OBVIOUS
<1>2. PICK k \in Bad : \A m \in Bad : k <= m
  <2>1. Bad \in SUBSET Nat
    BY <1>0
  <2> HIDE DEF Bad
  <2> QED BY <1>1, <2>1, Least
<1>3. k \in 1..Len(seqs) /\ ~Good(k)
  OBVIOUS
<1>4. CASE k = 1
  <2> DEFINE g == [i \in 1..1 |-> seqs[1]]
  <2>1. g \in [1..k -> Seq(S)] /\ g[1] = seqs[1]
    BY <1>0, <1>3, <1>4
  <2>2. Steps(seqs, k, g)
    <3> HIDE DEF g
    <3> QED BY <1>4, <2>1 DEF Steps
  <2> QED BY <1>3, <2>1, <2>2
<1>5. CASE k # 1
  <2>1. k - 1 \in 1..Len(seqs) /\ k - 1 \notin Bad
    <3>1. k \in Nat /\ k - 1 \in 1..Len(seqs) /\ ~(k <= k - 1)
      BY <1>0, <1>3, <1>5
    <3> HIDE DEF Bad
    <3> QED BY <1>2, <3>1
  <2>2. PICK h \in [1..(k - 1) -> Seq(S)] : Steps(seqs, k - 1, h)
    BY <2>1
  <2> DEFINE g == [i \in 1..k |-> IF i < k THEN h[i] ELSE h[k - 1] \o seqs[k]]
  <2>3. h[k - 1] \in Seq(S) /\ h[k - 1] \o seqs[k] \in Seq(S)
    <3>1. h[k - 1] \in Seq(S) /\ seqs[k] \in Seq(S)
      BY <1>0, <1>3, <2>1
    <3> QED BY <3>1, ConcatProperties
  <2>4. g \in [1..k -> Seq(S)]
    BY <1>0, <1>3, <2>3
  <2>5. g[k] = g[k - 1] \o seqs[k] /\ \A i \in 1..(k - 1) : g[i] = h[i]
    <3>1. /\ k \in 1..k /\ ~(k < k) /\ k - 1 \in 1..(k - 1)
          /\ \A i \in 1..(k - 1) : i \in 1..k /\ i < k
      BY <1>0, <1>3, <1>5
    <3> QED BY <3>1, Zenon
  <2>6. Steps(seqs, k, g)
    <3> HIDE DEF g
    <3>1. g[1] = seqs[1]
      BY <1>0, <1>3, <1>5, <2>2, <2>5 DEF Steps
    <3>2. ASSUME NEW i \in 2..k PROVE g[i] = g[i - 1] \o seqs[i]
      <4>1. CASE i = k
        BY <4>1, <2>5
      <4>2. CASE i # k
        <5>1. i \in 2..(k - 1) /\ i \in 1..(k - 1) /\ i - 1 \in 1..(k - 1)
          BY <1>0, <1>3, <4>2
        <5> QED BY <5>1, <2>2, <2>5 DEF Steps
      <4> QED BY <4>1, <4>2
    <3> QED BY <3>1, <3>2 DEF Steps
  <2> QED BY <1>3, <2>4, <2>6
<1> QED BY <1>4, <1>5

\* ...in one way only...
LEMMA FlattenUnique ==
    ASSUME NEW seqs, NEW n \in Nat, NEW g, NEW h, Steps(seqs, n, g), Steps(seqs, n, h)
    PROVE  \A i \in 1..n : g[i] = h[i]
<1> DEFINE Bad == {i \in 1..n : g[i] # h[i]}
<1>1. SUFFICES ASSUME Bad # {} PROVE FALSE
  OBVIOUS
<1>2. PICK k \in Bad : \A m \in Bad : k <= m
  <2>1. Bad \in SUBSET Nat
    OBVIOUS
  <2> HIDE DEF Bad
  <2> QED BY <1>1, <2>1, Least
<1>3. k \in 1..n /\ g[k] # h[k]
  OBVIOUS
<1>4. k # 1
  BY <1>3 DEF Steps
<1>5. k \in 2..n /\ k - 1 \in 1..n /\ k - 1 \notin Bad
  BY <1>2, <1>3, <1>4
<1> QED BY <1>3, <1>5 DEF Steps

\* ...which is how FlattenSeq joins them.
LEMMA FlattenSeqIs ==
    ASSUME NEW S, NEW seqs \in Seq(Seq(S)), seqs # << >>, NEW g, Steps(seqs, Len(seqs), g)
    PROVE  FlattenSeq(seqs) = g[Len(seqs)] /\ FlattenSeq(seqs) \in Seq(S)
<1>1. Len(seqs) \in Nat \ {0}
  BY EmptySeq
<1>2. PICK h \in [1..Len(seqs) -> Seq(S)] : Steps(seqs, Len(seqs), h)
  BY <1>1, Flatten
<1>3. h = [i \in 1..Len(seqs) |-> IF i = 1 THEN seqs[i] ELSE h[i - 1] \o seqs[i]]
  <2>1. \A i \in 1..Len(seqs) : i # 1 => i \in 2..Len(seqs)
    BY <1>1
  <2>2. \A i \in 1..Len(seqs) : h[i] = IF i = 1 THEN seqs[i] ELSE h[i - 1] \o seqs[i]
    BY <1>2, <2>1, Zenon DEF Steps
  <2>3. h = [i \in 1..Len(seqs) |-> h[i]]
    BY <1>2
  <2> QED BY <2>2, <2>3, Zenon
<1>4. ASSUME NEW f, f = [i \in 1..Len(seqs) |-> IF i = 1 THEN seqs[i] ELSE f[i - 1] \o seqs[i]]
      PROVE  f = h
  <2>1. Steps(seqs, Len(seqs), f)
    <3>1. \A i \in 1..Len(seqs) : f[i] = IF i = 1 THEN seqs[i] ELSE f[i - 1] \o seqs[i]
      BY <1>4, Zenon
    <3>2. 1 \in 1..Len(seqs) /\ \A i \in 2..Len(seqs) : i \in 1..Len(seqs) /\ i # 1
      BY <1>1
    <3> QED BY <3>1, <3>2, Zenon DEF Steps
  <2>2. \A i \in 1..Len(seqs) : f[i] = h[i]
    BY <1>1, <1>2, <2>1, FlattenUnique
  <2>3. f = [i \in 1..Len(seqs) |-> f[i]]
    BY <1>4
  <2> QED BY <2>2, <2>3
<1>5. FlattenSeq(seqs) = h[Len(seqs)]
  BY <1>1, <1>3, <1>4 DEF FlattenSeq
<1>6. h[Len(seqs)] = g[Len(seqs)]
  BY <1>1, <1>2, FlattenUnique
<1>7. h[Len(seqs)] \in Seq(S)
  <2>1. Len(seqs) \in 1..Len(seqs)
    BY <1>1
  <2> QED BY <1>2, <2>1, Zenon
<1> QED BY <1>5, <1>6, <1>7

\* FlattenSeq of no list, of one list more, and what is in it.
LEMMA FlattenEmpty == FlattenSeq(<< >>) = << >>
<1>1. Len(<< >>) = 0
  BY EmptySeq
<1> QED BY <1>1 DEF FlattenSeq

LEMMA FlattenAppend ==
    ASSUME NEW S, NEW seqs \in Seq(Seq(S)), NEW last \in Seq(S)
    PROVE  FlattenSeq(Append(seqs, last)) = FlattenSeq(seqs) \o last
<1> DEFINE more == Append(seqs, last)
           n == Len(seqs)
<1>1. /\ n \in Nat /\ more \in Seq(Seq(S)) /\ more # << >> /\ Len(more) = n + 1
      /\ more[n + 1] = last /\ \A i \in 1..n : more[i] = seqs[i]
  BY AppendProperties, LenProperties
<1> HIDE DEF more, n
<1>2. PICK g \in [1..(n + 1) -> Seq(S)] : Steps(more, n + 1, g)
  <2>1. n + 1 \in 1..Len(more)
    BY <1>1
  <2> QED BY <1>1, <2>1, Flatten
<1>3. FlattenSeq(more) = g[n + 1]
  BY <1>1, <1>2, FlattenSeqIs
<1>4. CASE seqs = << >>
  <2>1. n = 0
    BY <1>4, EmptySeq DEF n
  <2>2. g[n + 1] = last
    BY <1>1, <1>2, <2>1 DEF Steps
  <2>3. FlattenSeq(seqs) \o last = last
    BY <1>4, FlattenEmpty, ConcatEmptySeq
  <2> QED BY <1>3, <2>2, <2>3 DEF more
<1>5. CASE seqs # << >>
  <2>1. n \in Nat \ {0}
    BY <1>5, EmptySeq DEF n
  <2>2. Steps(seqs, n, g)
    <3>1. /\ 1 \in 1..n
          /\ \A i \in 2..n : i \in 1..n /\ i \in 2..(n + 1)
      BY <2>1
    <3> QED BY <1>1, <1>2, <3>1, Zenon DEF Steps
  <2>3. FlattenSeq(seqs) = g[n]
    BY <1>5, <2>2, FlattenSeqIs DEF n
  <2>4. g[n + 1] = g[n] \o last
    <3>1. n + 1 \in 2..(n + 1) /\ (n + 1) - 1 = n
      BY <2>1
    <3> QED BY <1>1, <1>2, <3>1 DEF Steps
  <2> QED BY <1>3, <2>3, <2>4 DEF more
<1> QED BY <1>4, <1>5

LEMMA FlattenRange ==
    ASSUME NEW S, NEW seqs \in Seq(Seq(S))
    PROVE  /\ FlattenSeq(seqs) \in Seq(S)
           /\ Range(FlattenSeq(seqs)) = UNION {Range(seqs[i]) : i \in 1..Len(seqs)}
<1>1. CASE seqs = << >>
  <2>1. Len(seqs) = 0 /\ FlattenSeq(seqs) = << >>
    BY <1>1, EmptySeq, FlattenEmpty
  <2>2. Range(<< >>) = {} /\ << >> \in Seq(S)
    <3>1. << >> \in Seq(S) /\ 1..Len(<< >>) = {}
      BY EmptySeq
    <3>2. Range(<< >>) = {<< >>[i] : i \in 1..Len(<< >>)}
      BY <3>1, RangeEquality
    <3> QED BY <3>1, <3>2
  <2> QED BY <2>1, <2>2
<1>2. CASE seqs # << >>
  <2> DEFINE n == Len(seqs)
             Upto(k) == UNION {Range(seqs[i]) : i \in 1..k}
  <2>1. n \in Nat \ {0} /\ \A i \in 1..n : seqs[i] \in Seq(S)
    BY <1>2, EmptySeq, ElementOfSeq
  <2>2. PICK g \in [1..n -> Seq(S)] : Steps(seqs, n, g)
    <3>1. n \in 1..Len(seqs)
      BY <2>1
    <3> QED BY <3>1, Flatten
  <2> DEFINE Bad == {k \in 1..n : Range(g[k]) # Upto(k)}
  <2>3. ASSUME Bad # {} PROVE FALSE
    <3>1. PICK k \in Bad : \A m \in Bad : k <= m
      <4>1. Bad \in SUBSET Nat
        BY <2>1
      <4> HIDE DEF Bad
      <4> QED BY <2>3, <4>1, Least
    <3>2. k \in 1..n /\ Range(g[k]) # Upto(k)
      OBVIOUS
    <3> HIDE DEF n
    <3>3. CASE k = 1
      <4>1. g[k] = seqs[1]
        BY <2>2, <3>3 DEF Steps, n
      <4>2. 1..k = {1}
        BY <3>3
      <4> QED BY <3>2, <4>1, <4>2
    <3>4. CASE k # 1
      <4>1. k \in Nat /\ k \in 2..n /\ k - 1 \in 1..n /\ ~(k <= k - 1)
        BY <2>1, <3>2, <3>4
      <4>2. k - 1 \notin Bad
        <5> HIDE DEF Bad
        <5> QED BY <3>1, <4>1
      <4>3. Range(g[k - 1]) = Upto(k - 1)
        BY <4>1, <4>2
      <4>4. g[k] = g[k - 1] \o seqs[k]
        BY <2>2, <4>1 DEF Steps, n
      <4>5. Range(g[k]) = Range(g[k - 1]) \cup Range(seqs[k])
        <5>1. g[k - 1] \in Seq(S) /\ seqs[k] \in Seq(S)
          BY <2>1, <2>2, <3>2, <4>1, Zenon DEF n
        <5> QED BY <4>4, <5>1, RangeConcatenation
      <4>6. 1..k = (1..(k - 1)) \cup {k}
        BY <4>1
      <4>7. Upto(k) = Upto(k - 1) \cup Range(seqs[k])
        BY <4>6, Zenon
      <4> QED BY <3>2, <4>3, <4>5, <4>7
    <3> QED BY <3>3, <3>4
  <2>4. n \in 1..n
    BY <2>1
  <2>5. Range(g[n]) = Upto(n)
    BY <2>3, <2>4
  <2>6. FlattenSeq(seqs) = g[n] /\ FlattenSeq(seqs) \in Seq(S)
    BY <1>2, <2>2, FlattenSeqIs
  <2> QED BY <2>5, <2>6
<1> QED BY <1>1, <1>2

-----------------------------------------------------------------------------
(* The rows of a snapshot *)

\* The rows before a row in a scan.
Rank(live, a) == Cardinality({b \in live : b < a})

\* Ranks are below the number of rows, and in the order of the rows.
LEMMA RankBelow ==
    ASSUME NEW live \in SUBSET Nat, IsFiniteSet(live), NEW a \in live
    PROVE  /\ Rank(live, a) \in 0..(Cardinality(live) - 1)
           /\ \A b \in live : b < a => Rank(live, b) < Rank(live, a)
<1>1. ASSUME NEW b \in live
      PROVE  /\ IsFiniteSet({c \in live : c < b}) /\ Rank(live, b) \in Nat
             /\ IsFiniteSet(live \ {b}) /\ Cardinality(live \ {b}) = Cardinality(live) - 1
             /\ Cardinality(live) \in Nat
  <2>1. {c \in live : c < b} \in SUBSET live
    OBVIOUS
  <2> QED BY <2>1, FS_Subset, FS_RemoveElement, FS_CardinalityType DEF Rank
<1>2. Rank(live, a) <= Cardinality(live) - 1
  <2> DEFINE below == {c \in live : c < a}
             others == live \ {a}
  <2>1. below \in SUBSET others
    OBVIOUS
  <2>2. IsFiniteSet(others) /\ Cardinality(others) = Cardinality(live) - 1
    BY <1>1
  <2>3. Cardinality(below) <= Cardinality(others)
    <3> HIDE DEF below, others
    <3> QED BY <2>1, <2>2, FS_Subset
  <2> QED BY <2>2, <2>3 DEF Rank
<1>3. ASSUME NEW b \in live, b < a PROVE Rank(live, b) < Rank(live, a)
  <2> DEFINE below == {c \in live : c < a}
             lower == {c \in live : c < b}
  <2>1. b \in below /\ lower \in SUBSET (below \ {b})
    <3>1. b \in below /\ a \in Nat /\ b \in Nat
      BY <1>3
    <3>2. ASSUME NEW c \in lower PROVE c \in below \ {b}
      <4>1. c \in live /\ c \in Nat /\ c < b
        OBVIOUS
      <4> QED BY <1>3, <3>1, <4>1
    <3> QED BY <3>1, <3>2
  <2>2. /\ IsFiniteSet(below) /\ Cardinality(below) = Rank(live, a)
        /\ Cardinality(lower) = Rank(live, b)
    BY <1>1 DEF Rank
  <2> HIDE DEF below, lower
  <2>3. IsFiniteSet(below \ {b}) /\ Cardinality(below \ {b}) = Cardinality(below) - 1
    BY <2>1, <2>2, FS_RemoveElement
  <2>4. Rank(live, b) <= Cardinality(below \ {b})
    BY <2>1, <2>2, <2>3, FS_Subset
  <2>5. Rank(live, a) \in Nat /\ Rank(live, b) \in Nat
    BY <1>1
  <2> QED BY <2>2, <2>3, <2>4, <2>5
<1>4. Rank(live, a) \in Nat /\ Cardinality(live) \in Nat
  BY <1>1
<1>5. Rank(live, a) \in 0..(Cardinality(live) - 1)
  BY <1>2, <1>4
<1> QED BY <1>3, <1>5

\* Each rank is that of one row.
LEMMA Ranks ==
    ASSUME NEW live \in SUBSET Nat, IsFiniteSet(live)
    PROVE  /\ \A a, b \in live : Rank(live, a) = Rank(live, b) => a = b
           /\ \A n \in 0..(Cardinality(live) - 1) : \E a \in live : Rank(live, a) = n
<1> DEFINE places == 0..(Cardinality(live) - 1)
           rank == [a \in live |-> Rank(live, a)]
<1>1. \A a, b \in live : Rank(live, a) = Rank(live, b) => a = b
  <2> SUFFICES ASSUME NEW a \in live, NEW b \in live, Rank(live, a) = Rank(live, b)
               PROVE  a = b
    OBVIOUS
  <2>1. a \in Nat /\ b \in Nat /\ Rank(live, a) \in Nat
    BY RankBelow
  <2>2. ~(a < b) /\ ~(b < a)
    <3>1. ~(Rank(live, a) < Rank(live, b)) /\ ~(Rank(live, b) < Rank(live, a))
      BY <2>1
    <3> QED BY <3>1, RankBelow
  <2> QED BY <2>1, <2>2
<1>2. rank \in Injection(live, places)
  BY <1>1, RankBelow DEF Injection, IsInjective
<1>3. IsFiniteSet(places) /\ Cardinality(places) = Cardinality(live)
  <2>1. Cardinality(live) \in Nat
    BY FS_CardinalityType
  <2>2. 0 \in Int /\ Cardinality(live) - 1 \in Int
    BY <2>1
  <2> QED BY <2>1, <2>2, FS_Interval
<1>4. rank \in Surjection(live, places)
  <2> HIDE DEF rank, places
  <2> QED BY <1>2, <1>3, FS_Injection
<1>5. \A n \in places : \E a \in live : rank[a] = n
  BY <1>4 DEF Surjection
<1> QED BY <1>1, <1>5

\* The live rows of one fragment.
RowsOf(fragments, f) ==
    {Address(f, o) : o \in 0..(fragments[f].physical - 1) \ Offsets(fragments[f])}

\* Deletions are of rows there are, and fragments have room for their rows.
Sound(fragments) ==
    /\ IsFiniteSet(DOMAIN fragments) /\ DOMAIN fragments \subseteq Nat
    /\ \A f \in DOMAIN fragments :
        /\ fragments[f].physical \in 0..FragmentSpan
        /\ fragments[f].deletion # None =>
             fragments[f].deletion.offsets \subseteq 0..(fragments[f].physical - 1)

\* Addresses of different fragments differ.
LEMMA Apart ==
    ASSUME NEW f \in Nat, NEW g \in Nat, f < g, NEW o \in Nat, NEW p \in Nat,
           o < FragmentSpan
    PROVE  Address(f, o) < Address(g, p)
<1>1. FragmentSpan \in Nat
  BY SnapshotAssumption
<1>2. PICK d \in Nat : g = f + 1 + d
  <2>1. g - f - 1 \in Nat /\ g = f + 1 + (g - f - 1)
    OBVIOUS
  <2> QED BY <2>1
<1>3. g * FragmentSpan = f * FragmentSpan + FragmentSpan + d * FragmentSpan
  BY <1>1, <1>2
<1>4. d * FragmentSpan \in Nat /\ f * FragmentSpan \in Nat
  BY <1>1
<1> QED BY <1>1, <1>3, <1>4 DEF Address

\* The rows of a fragment are as many as VisibleRows counts, and of no other
\* fragment.
LEMMA RowsOfFragment ==
    ASSUME NEW fragments, Sound(fragments), NEW f \in DOMAIN fragments
    PROVE  /\ IsFiniteSet(RowsOf(fragments, f)) /\ RowsOf(fragments, f) \subseteq Nat
           /\ Cardinality(RowsOf(fragments, f)) = VisibleRows(fragments[f])
           /\ VisibleRows(fragments[f]) \in Nat
           /\ \A g \in DOMAIN fragments :
                 f # g => RowsOf(fragments, f) \cap RowsOf(fragments, g) = {}
<1> DEFINE physical == fragments[f].physical
           all == 0..(physical - 1)
           kept == all \ Offsets(fragments[f])
<1>1. /\ f \in Nat /\ physical \in Nat /\ physical <= FragmentSpan /\ FragmentSpan \in Nat
      /\ Offsets(fragments[f]) \subseteq all
  BY SnapshotAssumption DEF Sound, Offsets
<1>2. IsFiniteSet(all) /\ Cardinality(all) = physical
  <2>1. 0 \in Int /\ physical - 1 \in Int
    BY <1>1
  <2>2. /\ IsFiniteSet(all)
        /\ Cardinality(all) = IF 0 > physical - 1 THEN 0 ELSE (physical - 1) - 0 + 1
    BY <2>1, FS_Interval, Zenon
  <2> QED BY <1>1, <2>2
<1>3. /\ IsFiniteSet(kept)
      /\ Cardinality(kept) = physical - Cardinality(Offsets(fragments[f]))
      /\ Cardinality(kept) \in Nat
  <2>1. all \cap Offsets(fragments[f]) = Offsets(fragments[f])
    BY <1>1
  <2> HIDE DEF all
  <2> QED BY <1>2, <2>1, FS_Difference, FS_CardinalityType
<1>4. \A o \in kept : o \in Nat /\ o < FragmentSpan
  BY <1>1
<1>5. RowsOf(fragments, f) = {Address(f, o) : o \in kept}
  BY DEF RowsOf
<1>6. f * FragmentSpan \in Nat
  BY <1>1
<1> HIDE DEF kept, all, physical
<1>7. RowsOf(fragments, f) \subseteq Nat
  BY <1>4, <1>5, <1>6 DEF Address
<1>8. /\ IsFiniteSet(RowsOf(fragments, f))
      /\ Cardinality(RowsOf(fragments, f)) = Cardinality(kept)
  <2> DEFINE address == [o \in kept |-> Address(f, o)]
  <2>1. address \in Bijection(kept, RowsOf(fragments, f))
    <3>1. address \in Injection(kept, RowsOf(fragments, f))
      BY <1>4, <1>5, <1>6 DEF Injection, IsInjective, Address
    <3>2. address \in Surjection(kept, RowsOf(fragments, f))
      BY <1>5 DEF Surjection
    <3> QED BY <3>1, <3>2 DEF Bijection
  <2>2. ExistsBijection(kept, RowsOf(fragments, f))
    BY <2>1 DEF ExistsBijection
  <2> QED BY <1>3, <2>2, FS_Bijection
<1>9. ASSUME NEW g \in DOMAIN fragments, f # g
      PROVE  RowsOf(fragments, f) \cap RowsOf(fragments, g) = {}
  <2>1. /\ g \in Nat
        /\ \A o \in 0..(fragments[g].physical - 1) : o \in Nat /\ o < FragmentSpan
    BY <1>1 DEF Sound
  <2> SUFFICES ASSUME NEW o \in kept, NEW p \in 0..(fragments[g].physical - 1),
                      Address(f, o) = Address(g, p)
               PROVE  FALSE
    BY <1>5 DEF RowsOf
  <2>2. Address(f, o) \in Nat
    BY <1>4, <1>6 DEF Address
  <2> QED BY <1>1, <1>4, <1>9, <2>1, <2>2, Apart
<1> QED BY <1>3, <1>7, <1>8, <1>9 DEF VisibleRows, physical

\* The rows counted when a dataset is opened, physical rows less deletions for
\* each fragment, are as many as a scan yields (dataset.rs:281-333).
THEOREM RowsAreCounted ==
    ASSUME NEW fragments, Sound(fragments)
    PROVE  /\ LiveAddresses(fragments) \subseteq Nat
           /\ IsFiniteSet(LiveAddresses(fragments))
           /\ DatasetRows(fragments) = Cardinality(LiveAddresses(fragments))
<1> DEFINE S == DOMAIN fragments
           Rows(s) == UNION {RowsOf(fragments, f) : f \in s}
           count == [s \in SUBSET S |-> Cardinality(Rows(s))]
<1>1. LiveAddresses(fragments) = Rows(S)
  BY DEF LiveAddresses, RowsOf
<1>2. ASSUME NEW s \in SUBSET S PROVE IsFiniteSet(s) /\ IsFiniteSet(Rows(s)) /\ Rows(s) \subseteq Nat
  <2>1. IsFiniteSet(s)
    BY FS_Subset DEF Sound
  <2> DEFINE all == {RowsOf(fragments, f) : f \in s}
  <2>2. IsFiniteSet(all)
    <3> DEFINE rows == [f \in s |-> RowsOf(fragments, f)]
    <3>1. rows \in Surjection(s, all)
      BY DEF Surjection
    <3> HIDE DEF rows, all
    <3> QED BY <2>1, <3>1, FS_Surjection
  <2>3. \A r \in all : IsFiniteSet(r) /\ r \subseteq Nat
    BY RowsOfFragment
  <2>4. IsFiniteSet(UNION all)
    <3> HIDE DEF all
    <3> QED BY <2>2, <2>3, FS_UNION
  <2> QED BY <2>1, <2>3, <2>4
<1>3. ASSUME NEW s \in SUBSET S, NEW f \in s
      PROVE  count[s] = VisibleRows(fragments[f]) + count[s \ {f}]
  <2>1. /\ Rows(s) = RowsOf(fragments, f) \cup Rows(s \ {f})
        /\ RowsOf(fragments, f) \cap Rows(s \ {f}) = {}
    <3>1. f \in DOMAIN fragments
      OBVIOUS
    <3>2. \A g \in s \ {f} : RowsOf(fragments, f) \cap RowsOf(fragments, g) = {}
      BY <3>1, RowsOfFragment
    <3> QED BY <3>2
  <2>2. s \ {f} \in SUBSET S /\ f \in DOMAIN fragments
    OBVIOUS
  <2>3. Cardinality(Rows(s \ {f})) \in Nat /\ IsFiniteSet(Rows(s \ {f}))
    <3>1. IsFiniteSet(Rows(s \ {f}))
      BY <1>2, <2>2
    <3> HIDE DEF Rows
    <3> QED BY <3>1, FS_CardinalityType
  <2>4. /\ IsFiniteSet(RowsOf(fragments, f))
        /\ Cardinality(RowsOf(fragments, f)) = VisibleRows(fragments[f])
        /\ VisibleRows(fragments[f]) \in Nat
    BY <2>2, RowsOfFragment
  <2>5. Cardinality(Rows(s)) = VisibleRows(fragments[f]) + Cardinality(Rows(s \ {f}))
    <3>1. Cardinality(RowsOf(fragments, f) \cap Rows(s \ {f})) = 0
      BY <2>1, FS_EmptySet
    <3> DEFINE own == RowsOf(fragments, f)
               others == Rows(s \ {f})
    <3>2. Cardinality(own \cup others) =
            Cardinality(own) + Cardinality(others) - Cardinality(own \cap others)
      <4>1. IsFiniteSet(own) /\ IsFiniteSet(others)
        BY <2>3, <2>4
      <4> HIDE DEF own, others
      <4> QED BY <4>1, FS_Union
    <3> HIDE DEF Rows
    <3> QED BY <2>1, <2>3, <2>4, <3>1, <3>2
  <2> QED BY <2>2, <2>5
<1>4. count[{}] = 0
  <2>1. Rows({}) = {} /\ {} \in SUBSET S
    OBVIOUS
  <2> QED BY <2>1, FS_EmptySet
<1> DEFINE Sum(f) == f = [s \in SUBSET S |->
                            IF s = {} THEN 0
                            ELSE LET x == CHOOSE x \in s : TRUE
                                 IN  VisibleRows(fragments[x]) + f[s \ {x}]]
<1>5. Sum(count)
  <2>1. count = [s \in SUBSET S |-> count[s]]
    OBVIOUS
  <2>2. ASSUME NEW s \in SUBSET S
        PROVE  count[s] = IF s = {} THEN 0
                          ELSE LET x == CHOOSE x \in s : TRUE
                               IN  VisibleRows(fragments[x]) + count[s \ {x}]
    <3>1. s # {} => (CHOOSE x \in s : TRUE) \in s
      OBVIOUS
    <3> HIDE DEF count
    <3> QED BY <1>3, <1>4, <3>1
  <2> HIDE DEF count
  <2> QED BY <2>1, <2>2, Zenon
<1>6. ASSUME NEW f, Sum(f) PROVE f = count
  <2> DEFINE Bad == {s \in SUBSET S : f[s] # count[s]}
  <2>1. ASSUME Bad # {} PROVE FALSE
    <3>1. Bad \subseteq FiniteSubsetsOf(S)
      BY <1>2 DEF FiniteSubsetsOf
    <3>2. PICK s \in Bad : \A t \in Bad : ~ (<<t, s>> \in StrictSubsetOrdering(S))
      <4> HIDE DEF Bad, S
      <4> QED BY <2>1, <3>1, FS_StrictSubsetOrderingWellFounded, WFMin
    <3>3. s \in SUBSET S /\ f[s] # count[s]
      OBVIOUS
    <3> DEFINE x == CHOOSE x \in s : TRUE
    <3>4. \A g : Sum(g) => g[s] = IF s = {} THEN 0 ELSE VisibleRows(fragments[x]) + g[s \ {x}]
      BY <3>3, Zenon
    <3>5. s # {}
      <4> HIDE DEF Sum, count
      <4> QED BY <1>5, <1>6, <3>3, <3>4
    <3>6. x \in s
      BY <3>5
    <3> HIDE DEF x
    <3>7. s \ {x} \notin Bad
      <4>1. <<s \ {x}, s>> \in StrictSubsetOrdering(S)
        BY <3>3, <3>6 DEF StrictSubsetOrdering
      <4> HIDE DEF Bad
      <4> QED BY <3>2, <4>1
    <3>8. f[s \ {x}] = count[s \ {x}]
      <4>1. s \ {x} \in SUBSET S
        BY <3>3
      <4> QED BY <3>7, <4>1
    <3> HIDE DEF Sum, count
    <3> QED BY <1>5, <1>6, <3>3, <3>4, <3>8
  <2>2. \A s \in SUBSET S : f[s] = count[s]
    BY <2>1
  <2>3. f = [s \in SUBSET S |-> f[s]]
    BY <1>6
  <2> QED BY <2>2, <2>3
<1>7. DatasetRows(fragments) = count[S]
  <2> HIDE DEF count
  <2> QED BY <1>5, <1>6 DEF DatasetRows, MapThenSumSet, MapThenFoldSet
<1>8. S \in SUBSET S
  OBVIOUS
<1> QED BY <1>1, <1>2, <1>7, <1>8

-----------------------------------------------------------------------------
(* Index paths *)

\* There is a list before each index of a path that is offered.
LEMMA BlobsFollow ==
    ASSUME NEW v, NEW depth \in Nat, IsValue(v, depth), DOMAIN v \subseteq Seq(Nat),
           NEW p \in MediaItems(v)
    PROVE  FollowsTo(v, depth, p)
<1>1. p \in DOMAIN v /\ v[p] = "blob" /\ p \in Seq(Nat) /\ Len(p) = depth
  <2>1. p \in DOMAIN v /\ v[p] = "blob"
    BY DEF MediaItems
  <2>2. v[p] \in {"null", IF Len(p) = depth THEN "blob" ELSE "list"}
    BY <2>1 DEF IsValue
  <2> QED BY <2>1, <2>2
<1> DEFINE Prefix(n) == SubSeq(p, 1, n)
<1>2. ASSUME NEW n \in 0..(depth - 1)
      PROVE  /\ Prefix(n + 1) \in Seq(Nat) /\ Prefix(n + 1) # << >>
             /\ Front(Prefix(n + 1)) = Prefix(n)
  <2>1. /\ n + 1 \in 1..Len(p) /\ n \in 0..Len(p) /\ n + 1 \in Int /\ n \in Int
        /\ \A i \in 1..(n + 1) : i \in 1..Len(p)
        /\ \A i \in 1..n : i \in 1..Len(p)
    BY <1>1
  <2>2. /\ Prefix(n + 1) \in Seq(Nat) /\ Len(Prefix(n + 1)) = n + 1
        /\ \A i \in 1..(n + 1) : Prefix(n + 1)[i] = p[i]
    <3>1. \A i \in 1..(n + 1) : p[i] \in Nat
      BY <1>1, <2>1, ElementOfSeq
    <3> QED BY <2>1, <3>1, SubSeqProperties
  <2>3. /\ Prefix(n) \in Seq(Nat) /\ Len(Prefix(n)) = n
        /\ \A i \in 1..n : Prefix(n)[i] = p[i]
    <3>1. \A i \in 1..n : p[i] \in Nat
      BY <1>1, <2>1, ElementOfSeq
    <3> QED BY <2>1, <3>1, SubSeqProperties
  <2> DEFINE front == SubSeq(Prefix(n + 1), 1, n)
  <2>4. /\ front \in Seq(Nat) /\ Len(front) = n
        /\ \A i \in 1..n : front[i] = Prefix(n + 1)[i]
    <3>1. \A i \in 1..n : Prefix(n + 1)[i] \in Nat
      BY <1>1, <2>1, <2>2, ElementOfSeq
    <3> HIDE DEF Prefix
    <3> QED BY <2>1, <3>1, SubSeqProperties
  <2>5. front = Prefix(n)
    <3>1. \A i \in 1..n : front[i] = Prefix(n)[i]
      BY <2>1, <2>2, <2>3, <2>4
    <3> HIDE DEF front, Prefix
    <3> QED BY <2>3, <2>4, <3>1, SeqEqual
  <2>6. Front(Prefix(n + 1)) = front
    BY <2>1, <2>2 DEF Front
  <2>7. Prefix(n + 1) # << >>
    <3> HIDE DEF Prefix
    <3> QED BY <2>1, <2>2, EmptySeq
  <2> QED BY <2>2, <2>5, <2>6, <2>7
<1>3. Prefix(depth) = p
  BY <1>1, SubSeqFull
<1> HIDE DEF Prefix
<1> DEFINE Bad == {m \in 0..depth : Prefix(depth - m) \notin DOMAIN v}
<1>4. ASSUME Bad # {} PROVE FALSE
  <2>1. PICK m \in Bad : \A n \in Bad : m <= n
    <3>1. Bad \in SUBSET Nat
      OBVIOUS
    <3> HIDE DEF Bad
    <3> QED BY <1>4, <3>1, Least
  <2>2. m \in 0..depth /\ Prefix(depth - m) \notin DOMAIN v
    OBVIOUS
  <2>3. m # 0
    BY <1>1, <1>3, <2>2
  <2>4. /\ m - 1 \in 0..depth /\ ~(m <= m - 1) /\ depth - m \in 0..(depth - 1)
        /\ depth - (m - 1) = (depth - m) + 1
    BY <2>2, <2>3
  <2>5. m - 1 \notin Bad
    <3> HIDE DEF Bad
    <3> QED BY <2>1, <2>4
  <2>6. Prefix((depth - m) + 1) \in DOMAIN v
    BY <2>4, <2>5
  <2>7. Front(Prefix((depth - m) + 1)) \in DOMAIN v
    BY <1>2, <2>4, <2>6 DEF IsValue
  <2> QED BY <1>2, <2>2, <2>4, <2>7
<1>5. \A n \in 0..(depth - 1) : Prefix(n) \in DOMAIN v /\ v[Prefix(n)] = "list"
  <2> SUFFICES ASSUME NEW n \in 0..(depth - 1)
               PROVE  Prefix(n) \in DOMAIN v /\ v[Prefix(n)] = "list"
    OBVIOUS
  <2>1. Prefix(n + 1) \in DOMAIN v
    <3>1. depth - (n + 1) \in 0..depth /\ depth - (depth - (n + 1)) = n + 1
      OBVIOUS
    <3> QED BY <1>4, <3>1
  <2> QED BY <1>2, <2>1 DEF IsValue
<1> QED BY <1>1, <1>5 DEF FollowsTo, ListAt, Prefix

\* The index paths offered with a row are exactly those that lead to a Blob when
\* they are followed, for values of any depth (blob.rs:36-71, media.rs:112-134).
THEOREM OfferedPathsLead ==
    ASSUME NEW v, NEW depth \in Nat, IsValue(v, depth), DOMAIN v \subseteq Seq(Nat), NEW p
    PROVE  p \in MediaItems(v) <=> FollowsTo(v, depth, p)
<1>1. p \in MediaItems(v) => FollowsTo(v, depth, p)
  BY BlobsFollow
<1>2. FollowsTo(v, depth, p) => p \in MediaItems(v)
  BY DEF FollowsTo, MediaItems
<1> QED BY <1>1, <1>2

-----------------------------------------------------------------------------
(* The columns of a result *)

\* The address as a column of its own name.
RowAddrColumn == [name |-> RowAddr, of |-> RowAddr]

\* A field is known by its name and by its id.
LEMMA SchemaShape ==
    /\ Len(Schema) \in Nat /\ DOMAIN Schema = 1..Len(Schema)
    /\ Fields = {Schema[i] : i \in 1..Len(Schema)}
    /\ \A i \in DOMAIN Schema : Schema[i].name \notin {RowAddr, None} /\ Schema[i] \in Fields
    /\ \A f, g \in Fields : f.name = g.name \/ f.id = g.id => f = g
    /\ \A f \in Fields : FieldNamed(f.name) = f
<1>1. Len(Schema) \in Nat /\ DOMAIN Schema = 1..Len(Schema)
  <2>1. Schema \in Seq(Range(Schema))
    BY SnapshotAssumption
  <2> QED BY <2>1, LenProperties
<1>2. \A f, g \in Fields : f.name = g.name \/ f.id = g.id => f = g
  BY SnapshotAssumption DEF Fields
<1>3. ASSUME NEW f \in Fields PROVE FieldNamed(f.name) = f
  <2>1. FieldNamed(f.name) \in Fields /\ FieldNamed(f.name).name = f.name
    BY DEF FieldNamed
  <2> QED BY <1>2, <2>1
<1> QED BY <1>1, <1>2, <1>3, SnapshotAssumption DEF Fields

\* A row preview has the columns of the schema, then the address.
LEMMA PreviewShape ==
    /\ PreviewResult \in Seq({[name |-> n, of |-> n] : n \in FieldNames \cup {RowAddr}})
    /\ Len(PreviewResult) = Len(Schema) + 1
    /\ \A i \in DOMAIN Schema : PreviewResult[i] = [name |-> Schema[i].name, of |-> Schema[i].name]
    /\ PreviewResult[Len(Schema) + 1] = RowAddrColumn
<1> DEFINE C == {[name |-> n, of |-> n] : n \in FieldNames \cup {RowAddr}}
           columns == [i \in DOMAIN Schema |-> [name |-> Schema[i].name, of |-> Schema[i].name]]
<1>1. columns \in Seq(C) /\ Len(columns) = Len(Schema)
  <2>1. Len(Schema) \in Nat /\ DOMAIN Schema = 1..Len(Schema)
    BY SchemaShape
  <2>2. \A i \in DOMAIN Schema : Schema[i].name \in FieldNames
    BY SchemaShape, Zenon DEF FieldNames
  <2>3. \A i \in DOMAIN Schema : columns[i] \in C
    BY <2>2
  <2> HIDE DEF C
  <2>4. columns \in [1..Len(Schema) -> C]
    BY <2>1, <2>3
  <2> HIDE DEF columns
  <2> QED BY <2>1, <2>4
<1>2. RowAddrColumn \in C
  BY DEF RowAddrColumn
<1>3. \A i \in DOMAIN Schema : columns[i] = [name |-> Schema[i].name, of |-> Schema[i].name]
  OBVIOUS
<1>4. PreviewResult = Append(columns, RowAddrColumn)
  BY DEF PreviewResult, RowAddrColumn
<1>5. DOMAIN Schema = 1..Len(Schema)
  BY SchemaShape
<1> HIDE DEF columns
<1> QED BY <1>1, <1>2, <1>3, <1>4, <1>5, AppendProperties

\* The columns of a result are those of its items, one after the other.
LEMMA ExpandedShape ==
    ASSUME NEW item
    PROVE  Expanded(item) \in Seq(Range(Expanded(item)))
<1>1. CASE item.kind = "wildcard"
  <2>1. Expanded(item) = PreviewResult
    BY <1>1 DEF Expanded
  <2> QED BY <2>1, PreviewShape, SeqOfRange
<1>2. CASE item.kind # "wildcard"
  <2>1. Expanded(item) = <<ItemColumn(item)>>
    BY <1>2 DEF Expanded
  <2>2. <<ItemColumn(item)>> \in Seq({ItemColumn(item)})
    OBVIOUS
  <2> QED BY <2>1, <2>2, SeqOfRange
<1> QED BY <1>1, <1>2

LEMMA ResultShape ==
    ASSUME NEW I, NEW items \in Seq(I)
    PROVE  /\ Range(Result(items)) = UNION {Range(Expanded(items[i])) : i \in 1..Len(items)}
           /\ Result(items) \in Seq(Range(Result(items)))
           /\ \A item \in I :
                 /\ Result(Append(items, item)) = Result(items) \o Expanded(item)
                 /\ Range(Result(Append(items, item))) = Range(Result(items)) \cup Range(Expanded(item))
<1> DEFINE S == UNION {Range(Expanded(item)) : item \in I}
           seqs(list) == [i \in DOMAIN list |-> Expanded(list[i])]
<1>1. \A item \in I : Expanded(item) \in Seq(S)
  <2> SUFFICES ASSUME NEW item \in I PROVE Expanded(item) \in Seq(S)
    OBVIOUS
  <2>1. Range(Expanded(item)) \subseteq S
    OBVIOUS
  <2> QED BY <2>1, ExpandedShape, SeqMonotonic
<1>2. ASSUME NEW list \in Seq(I)
      PROVE  /\ seqs(list) \in Seq(Seq(S)) /\ Len(seqs(list)) = Len(list)
             /\ Result(list) \in Seq(S)
             /\ Range(Result(list)) = UNION {Range(Expanded(list[i])) : i \in 1..Len(list)}
  <2>1. Len(list) \in Nat /\ DOMAIN list = 1..Len(list) /\ \A i \in 1..Len(list) : list[i] \in I
    BY LenProperties, ElementOfSeq
  <2>2. seqs(list) \in Seq(Seq(S)) /\ Len(seqs(list)) = Len(list)
    <3> HIDE DEF S
    <3> QED BY <1>1, <2>1
  <2>3. Result(list) = FlattenSeq(seqs(list))
    BY DEF Result
  <2>4. /\ Result(list) \in Seq(S)
        /\ Range(Result(list)) = UNION {Range(seqs(list)[i]) : i \in 1..Len(list)}
    <3> HIDE DEF S, seqs
    <3> QED BY <2>2, <2>3, FlattenRange
  <2>5. \A i \in 1..Len(list) : seqs(list)[i] = Expanded(list[i])
    BY <2>1
  <2>6. {Range(seqs(list)[i]) : i \in 1..Len(list)} = {Range(Expanded(list[i])) : i \in 1..Len(list)}
    <3> HIDE DEF seqs
    <3> QED BY <2>5
  <2> QED BY <2>2, <2>4, <2>6
<1>3. ASSUME NEW item \in I
      PROVE  /\ Result(Append(items, item)) = Result(items) \o Expanded(item)
             /\ Range(Result(Append(items, item))) = Range(Result(items)) \cup Range(Expanded(item))
  <2> DEFINE more == Append(items, item)
  <2>1. /\ more \in Seq(I) /\ Len(more) = Len(items) + 1 /\ Len(items) \in Nat
        /\ DOMAIN items = 1..Len(items) /\ DOMAIN more = 1..(Len(items) + 1)
        /\ more[Len(items) + 1] = item /\ \A i \in 1..Len(items) : more[i] = items[i]
    <3>1. more \in Seq(I) /\ Len(more) = Len(items) + 1 /\ Len(items) \in Nat
      BY AppendProperties, LenProperties
    <3> QED BY <3>1, AppendProperties, LenProperties
  <2>2. seqs(more) = Append(seqs(items), Expanded(item))
    <3>1. /\ seqs(items) \in Seq(Seq(S)) /\ Len(seqs(items)) = Len(items)
          /\ seqs(more) \in Seq(Seq(S)) /\ Len(seqs(more)) = Len(items) + 1
      BY <1>2, <2>1
    <3>2. /\ \A i \in 1..Len(items) : seqs(more)[i] = seqs(items)[i]
          /\ seqs(more)[Len(items) + 1] = Expanded(item)
      BY <2>1
    <3>3. Expanded(item) \in Seq(S)
      BY <1>1
    <3> DEFINE other == Append(seqs(items), Expanded(item))
    <3> HIDE DEF seqs, more, S
    <3>4. /\ other \in Seq(Seq(S)) /\ Len(other) = Len(items) + 1
          /\ \A i \in 1..Len(items) : other[i] = seqs(items)[i]
          /\ other[Len(items) + 1] = Expanded(item)
      BY <3>1, <3>3, AppendProperties
    <3>5. \A i \in 1..(Len(items) + 1) : i \in 1..Len(items) \/ i = Len(items) + 1
      BY <2>1
    <3>6. \A i \in 1..(Len(items) + 1) : seqs(more)[i] = other[i]
      BY <3>2, <3>4, <3>5
    <3> HIDE DEF other
    <3>7. seqs(more) = other
      BY <3>1, <3>4, <3>6, SeqEqual
    <3> QED BY <3>7 DEF other
  <2>3. seqs(items) \in Seq(Seq(S)) /\ Expanded(item) \in Seq(S) /\ Result(items) \in Seq(S)
    BY <1>1, <1>2
  <2>4. Result(more) = Result(items) \o Expanded(item)
    <3>1. Result(more) = FlattenSeq(seqs(more)) /\ Result(items) = FlattenSeq(seqs(items))
      BY DEF Result
    <3> HIDE DEF seqs, S, more
    <3> QED BY <2>2, <2>3, <3>1, FlattenAppend
  <2>5. Range(Result(more)) = Range(Result(items)) \cup Range(Expanded(item))
    <3> HIDE DEF S, more
    <3> QED BY <2>3, <2>4, RangeConcatenation
  <2> QED BY <2>4, <2>5
<1>4. Result(items) \in Seq(Range(Result(items)))
  <2>1. Result(items) \in Seq(S)
    BY <1>2
  <2> HIDE DEF S
  <2> QED BY <2>1, SeqOfRange
<1> QED BY <1>2, <1>3, <1>4

-----------------------------------------------------------------------------
(* Media columns *)

\* A media column is a column with Blobs, under the name it has in the result.
MediaColumn(result, m) ==
    /\ m.index \in DOMAIN result /\ m.name = result[m.index].name
    /\ result[m.index].of \in BlobNames

\* It asks for the field its values come from.
AsksForItsField(result, m) ==
    \E f \in Fields : f.name = result[m.index].of /\ m.field = f.id

\* The columns of a statement's result that are taken for the field of their name.
LostColumns(order, result) ==
    {i \in DOMAIN result : SortsByHidden(order, result) /\ result[i].name # result[i].of}

\* Every media column is of Blobs, and asks for its own field if it is not lost.
Faithful(result, media, lost) ==
    \A m \in media : /\ MediaColumn(result, m)
                     /\ m.index \notin lost => AsksForItsField(result, m)

\* What a result calls the address is the address, and it has it.
HasAddress(result) ==
    /\ \A i \in DOMAIN result : result[i].name = RowAddr => result[i].of = RowAddr
    /\ \E i \in DOMAIN result : result[i].name = RowAddr

\* Every column of Blobs that is not lost is a media column.
Complete(result, media, lost) ==
    \A i \in DOMAIN result :
        result[i].of \in BlobNames /\ i \notin lost => \E m \in media : m.index = i

\* Blob columns are fields, and none is called like the address.
LEMMA BlobNameShape ==
    /\ BlobNames \subseteq FieldNames /\ RowAddr \notin FieldNames /\ None \notin FieldNames
    /\ \A f \in Fields : f.name \in BlobNames <=> IsBlobField(f) \/ IsBlobArrayField(f)
<1>1. \A f \in Fields : f.name \in BlobNames <=> IsBlobField(f) \/ IsBlobArrayField(f)
  BY SchemaShape DEF BlobNames
<1>2. RowAddr \notin FieldNames /\ None \notin FieldNames
  BY SchemaShape DEF FieldNames, Fields
<1> QED BY <1>1, <1>2 DEF BlobNames, FieldNames

\* What an accepted item calls the address is the address...
LEMMA AcceptedColumn ==
    ASSUME NEW item, Accepted(item), item.kind # "member",
           NEW c \in Range(Expanded(item)), c.name = RowAddr
    PROVE  c.of = RowAddr /\ KeepsRowAddr(item)
<1>1. CASE item.kind = "wildcard"
  <2>1. c \in Range(PreviewResult)
    BY <1>1 DEF Expanded
  <2>2. c \in {[name |-> n, of |-> n] : n \in FieldNames \cup {RowAddr}}
    BY <2>1, PreviewShape, RangeOfSeq
  <2> QED BY <1>1, <2>2 DEF KeepsRowAddr
<1>2. CASE item.kind # "wildcard"
  <2>1. item.kind = "column" /\ (item.alias = RowAddr => item.column = RowAddr)
    BY <1>2 DEF Accepted, IsDirectColumn, IsRowAddr
  <2>2. c = ItemColumn(item)
    <3>1. Range(<<ItemColumn(item)>>) = {ItemColumn(item)}
      BY DEF Range
    <3> QED BY <1>2, <3>1 DEF Expanded
  <2>3. c.of = item.column /\ c.name = IF item.alias # None THEN item.alias ELSE item.column
    BY <2>1, <2>2 DEF ItemColumn
  <2> QED BY <2>1, <2>3 DEF KeepsRowAddr, IsRowAddr
<1> QED BY <1>1, <1>2

\* ...and an item that keeps it has it.
LEMMA KeptColumn ==
    ASSUME NEW item, KeepsRowAddr(item), item.kind # "member"
    PROVE  RowAddrColumn \in Range(Expanded(item))
<1>1. CASE item.kind = "wildcard"
  <2>1. Len(Schema) + 1 \in DOMAIN PreviewResult
    BY PreviewShape, SchemaShape, LenProperties
  <2>2. RowAddrColumn \in Range(PreviewResult)
    BY <2>1, PreviewShape, Zenon DEF Range
  <2> QED BY <1>1, <2>2 DEF Expanded
<1>2. CASE item.kind # "wildcard"
  <2>1. item.kind = "column" /\ item.column = RowAddr /\ item.alias \in {None, RowAddr}
    BY <1>2 DEF KeepsRowAddr, IsRowAddr
  <2>2. ItemColumn(item) = RowAddrColumn
    BY <2>1 DEF ItemColumn, RowAddrColumn
  <2>3. Expanded(item) = <<RowAddrColumn>>
    BY <1>2, <2>2 DEF Expanded
  <2> QED BY <2>3 DEF Range
<1> QED BY <1>1, <1>2

\* Of a statement that prepares, without members of structs.
Plain(items) ==
    \A i \in DOMAIN items : Accepted(items[i]) /\ items[i].kind # "member"

\* So whatever a result calls the address is the address.
LEMMA NamedColumn ==
    ASSUME NEW I, NEW items \in Seq(I), Plain(items),
           NEW c \in Range(Result(items)), c.name = RowAddr
    PROVE  c.of = RowAddr /\ \E i \in DOMAIN items : KeepsRowAddr(items[i])
<1>1. DOMAIN items = 1..Len(items)
  BY LenProperties
<1>2. PICK i \in 1..Len(items) : c \in Range(Expanded(items[i]))
  BY ResultShape
<1> QED BY <1>1, <1>2, AcceptedColumn DEF Plain

\* The item added to a statement is the address.
LEMMA AddedColumn ==
    /\ Accepted(ColumnItem(RowAddr, None)) /\ KeepsRowAddr(ColumnItem(RowAddr, None))
    /\ ColumnItem(RowAddr, None).kind # "member"
    /\ Expanded(ColumnItem(RowAddr, None)) = <<RowAddrColumn>>
BY SnapshotAssumption DEF Accepted, IsDirectColumn, IsRowAddr, KeepsRowAddr, ColumnItem, Expanded, ItemColumn,
    RowAddrColumn

\* A prepared statement has its row address under that name, once it builds, and
\* it builds if the statement did.
LEMMA PreparedAddress ==
    ASSUME NEW I, NEW items \in Seq(I), Plain(items)
    PROVE  /\ Result(PreparedItems(items)) \in Seq(Range(Result(PreparedItems(items))))
           /\ \A c \in Range(Result(PreparedItems(items))) : c.name = RowAddr => c.of = RowAddr
           /\ RowAddrColumn \in Range(Result(PreparedItems(items)))
           /\ Builds(items) => Builds(PreparedItems(items))
<1>1. CASE \E i \in DOMAIN items : KeepsRowAddr(items[i])
  <2>1. PreparedItems(items) = items
    BY <1>1 DEF PreparedItems
  <2>2. PICK i \in 1..Len(items) : KeepsRowAddr(items[i]) /\ items[i].kind # "member"
    BY <1>1, LenProperties DEF Plain
  <2>3. RowAddrColumn \in Range(Expanded(items[i]))
    BY <2>2, KeptColumn
  <2> QED BY <2>1, <2>3, ResultShape, NamedColumn
<1>2. CASE ~\E i \in DOMAIN items : KeepsRowAddr(items[i])
  <2> DEFINE added == ColumnItem(RowAddr, None)
             more == Append(items, added)
             columns == Range(Result(items)) \cup {RowAddrColumn}
  <2>1. PreparedItems(items) = more
    BY <1>2 DEF PreparedItems
  <2>2. \A c \in Range(Result(items)) : c.name # RowAddr
    BY <1>2, NamedColumn
  <2>3. items \in Seq(I \cup {added}) /\ Expanded(added) = <<RowAddrColumn>>
    BY SeqMonotonic, AddedColumn
  <2>4. Range(<<RowAddrColumn>>) = {RowAddrColumn}
    BY DEF Range
  <2>5. /\ Result(more) = Result(items) \o <<RowAddrColumn>>
        /\ Range(Result(more)) = columns
    <3>1. added \in I \cup {added}
      OBVIOUS
    <3>2. /\ Result(more) = Result(items) \o Expanded(added)
          /\ Range(Result(more)) = Range(Result(items)) \cup Range(Expanded(added))
      <4>1. \A item \in I \cup {added} :
              /\ Result(Append(items, item)) = Result(items) \o Expanded(item)
              /\ Range(Result(Append(items, item))) = Range(Result(items)) \cup Range(Expanded(item))
        <5> HIDE DEF added
        <5> QED BY <2>3, ResultShape
      <4> HIDE DEF added
      <4> QED BY <3>1, <4>1
    <3> HIDE DEF more, added
    <3> QED BY <2>3, <2>4, <3>2
  <2>6. Result(more) \in Seq(Range(Result(more)))
    <3> HIDE DEF added
    <3>1. more \in Seq(I \cup {added})
      BY <2>3, AppendProperties
    <3> QED BY <3>1, ResultShape
  <2>7. ASSUME Builds(items) PROVE Builds(more)
    <3> DEFINE old == Result(items)
               new == Result(more)
               n == Len(old)
    <3>1. old \in Seq(columns) /\ <<RowAddrColumn>> \in Seq(columns) /\ n \in Nat
      <4>1. old \in Seq(Range(old)) /\ Range(old) \subseteq columns
        BY <2>3, ResultShape
      <4>2. <<RowAddrColumn>> \in Seq(columns)
        OBVIOUS
      <4>3. old \in Seq(columns)
        <5> HIDE DEF old, columns
        <5> QED BY <4>1, SeqMonotonic
      <4>4. n \in Nat
        <5> HIDE DEF old
        <5> QED BY <4>1, LenProperties
      <4> QED BY <4>2, <4>3, <4>4
    <3>2. /\ new \in Seq(columns) /\ DOMAIN new = 1..(n + 1) /\ DOMAIN old = 1..n
          /\ \A i \in 1..n : new[i] = old[i]
          /\ new[n + 1] = RowAddrColumn
      <4>1. Len(<<RowAddrColumn>>) = 1 /\ <<RowAddrColumn>>[1] = RowAddrColumn
        OBVIOUS
      <4>2. new = old \o <<RowAddrColumn>>
        BY <2>5
      <4> HIDE DEF old, new, columns
      <4>3. new \in Seq(columns) /\ Len(new) = n + 1 /\ Len(old) = n
            /\ \A i \in 1..(n + 1) : new[i] = IF i <= n THEN old[i] ELSE <<RowAddrColumn>>[i - n]
        BY <3>1, <4>1, <4>2, ConcatProperties
      <4> QED BY <3>1, <4>1, <4>3, LenProperties
    <3>3. \A i \in 1..n : new[i].name # RowAddr
      <4>1. \A i \in 1..n : old[i] \in Range(Result(items))
        BY <3>2 DEF Range
      <4> QED BY <2>2, <3>2, <4>1
    <3>4. \A i, j \in 1..n : old[i].name = old[j].name => i = j
      BY <2>7, <3>2 DEF Builds
    <3> HIDE DEF old, new, n, more
    <3>5. \A i, j \in 1..(n + 1) : new[i].name = new[j].name => i = j
      <4>1. \A i \in 1..(n + 1) : i \in 1..n \/ i = n + 1
        BY <3>1
      <4>2. new[n + 1].name = RowAddr
        BY <3>2 DEF RowAddrColumn
      <4> QED BY <3>2, <3>3, <3>4, <4>1, <4>2, Zenon
    <3> QED BY <3>2, <3>5 DEF Builds, new
  <2>8. RowAddrColumn.of = RowAddr
    BY DEF RowAddrColumn
  <2> HIDE DEF more
  <2> QED BY <2>1, <2>2, <2>5, <2>6, <2>7, <2>8
<1> QED BY <1>1, <1>2

-----------------------------------------------------------------------------
(* Media cells *)

\* The cell of a Blob, and the Blobs of a media column in a row.
CellOf(a, m, p) == [at |-> a, column |-> m, address |-> JsNumber(a), path |-> p]
ItemsOf(values, result, a, m) == MediaItems(values[<<a, result[m.index].of>>])

\* Cells expanded, for a row as it was sent.
LEMMA CellShape ==
    ASSUME NEW row
    PROVE  /\ \A cell \in Cells(row) :
                 /\ row.address # None
                 /\ \E m \in DOMAIN row.media : \E p \in row.media[m] :
                      cell = [at |-> row.at, column |-> m, address |-> JsNumber(row.address), path |-> p]
           /\ row.address # None =>
                \A m \in DOMAIN row.media : \A p \in row.media[m] :
                   [at |-> row.at, column |-> m, address |-> JsNumber(row.address), path |-> p] \in Cells(row)
<1> DEFINE all == UNION {{[at |-> row.at, column |-> m, address |-> JsNumber(row.address), path |-> p] :
                          p \in row.media[m]} : m \in DOMAIN row.media}
<1>1. Cells(row) = IF row.address = None THEN {} ELSE all
  BY DEF Cells
<1>2. ASSUME NEW cell \in all
      PROVE  \E m \in DOMAIN row.media : \E p \in row.media[m] :
               cell = [at |-> row.at, column |-> m, address |-> JsNumber(row.address), path |-> p]
  BY Zenon
<1>3. ASSUME NEW m \in DOMAIN row.media, NEW p \in row.media[m]
      PROVE  [at |-> row.at, column |-> m, address |-> JsNumber(row.address), path |-> p] \in all
  <2> DEFINE own(n) == {[at |-> row.at, column |-> n, address |-> JsNumber(row.address), path |-> q] :
                          q \in row.media[n]}
  <2>1. [at |-> row.at, column |-> m, address |-> JsNumber(row.address), path |-> p] \in own(m)
    OBVIOUS
  <2>2. own(m) \subseteq UNION {own(n) : n \in DOMAIN row.media}
    <3> HIDE DEF own
    <3> QED OBVIOUS
  <2> QED BY <2>1, <2>2
<1> HIDE DEF all
<1>4. \A cell \in Cells(row) : row.address # None /\ cell \in all
  BY <1>1
<1>5. row.address # None => Cells(row) = all
  BY <1>1
<1> QED BY <1>2, <1>3, <1>4, <1>5, Zenon

\* The cells of a row are the Blobs of its media columns.
CellsAre(row, values, result, media, a) ==
    /\ row.at = a
    /\ \A cell \in Cells(row) : \E m \in media : \E p \in ItemsOf(values, result, a, m) :
          cell = CellOf(a, m, p)
    /\ \A m \in media : \A p \in ItemsOf(values, result, a, m) : CellOf(a, m, p) \in Cells(row)

\* No media column hides the address, so that the cells of a row have the
\* address of that row.
LEMMA CellsOfRow ==
    ASSUME NEW values, NEW result, NEW media, \A m \in media : MediaColumn(result, m),
           HasAddress(result), NEW a \in Nat
    PROVE  CellsAre(SerializedRow(values, result, media, a), values, result, media, a)
<1> DEFINE row == SerializedRow(values, result, media, a)
           scalars == DOMAIN result \ {m.index : m \in media}
           named == {i \in scalars : result[i].name = RowAddr}
           address == IF named = {} THEN None
                      ELSE CHOOSE n \in {IF result[i].of = RowAddr THEN a ELSE 0 : i \in named} : TRUE
           items == [m \in media |-> MediaItems(values[<<a, result[m.index].of>>])]
<1>1. row = [at |-> a, address |-> address, media |-> items]
  BY DEF SerializedRow
<1>2. address = IF named = {} THEN None ELSE a
  <2>1. CASE named # {}
    <3>1. {IF result[i].of = RowAddr THEN a ELSE 0 : i \in named} = {a}
      BY <2>1 DEF HasAddress
    <3> QED BY <2>1, <3>1
  <2> QED BY <2>1
<1>3. a # None
  BY SnapshotAssumption
<1>4. named # {}
  <2>0. PICK i \in DOMAIN result : result[i].name = RowAddr
    BY DEF HasAddress
  <2> SUFFICES i \in named
    OBVIOUS
  <2>1. result[i].of = RowAddr
    BY <2>0 DEF HasAddress
  <2>2. ASSUME NEW m \in media, m.index = i PROVE FALSE
    <3>1. result[i].of \in BlobNames
      BY <2>2 DEF MediaColumn
    <3> QED BY <2>1, <3>1, BlobNameShape
  <2> QED BY <2>0, <2>2
<1> HIDE DEF address, named, row
<1>5. row.at = a /\ row.address = address /\ row.media = items /\ DOMAIN items = media
  BY <1>1
<1>6. /\ \A m \in media : row.media[m] = ItemsOf(values, result, a, m)
      /\ DOMAIN row.media = media
  BY <1>5 DEF ItemsOf
<1> HIDE DEF items
<1>7. ASSUME NEW cell \in Cells(row)
      PROVE  \E m \in media : \E p \in ItemsOf(values, result, a, m) : cell = CellOf(a, m, p)
  <2>1. row.address # None
    BY CellShape
  <2>2. row.at = a /\ row.address = a
    BY <1>2, <1>5, <2>1
  <2>3. PICK m \in DOMAIN row.media : \E p \in row.media[m] :
          cell = [at |-> row.at, column |-> m, address |-> JsNumber(row.address), path |-> p]
    BY CellShape, Zenon
  <2>4. PICK p \in row.media[m] : cell = CellOf(a, m, p)
    BY <2>2, <2>3, Zenon DEF CellOf
  <2>5. m \in media /\ p \in ItemsOf(values, result, a, m)
    BY <1>6, <2>4
  <2> QED BY <2>4, <2>5, Zenon
<1>8. ASSUME NEW m \in media, NEW p \in ItemsOf(values, result, a, m)
      PROVE  CellOf(a, m, p) \in Cells(row)
  <2>1. row.at = a /\ row.address = a /\ row.address # None
    BY <1>2, <1>3, <1>4, <1>5
  <2>2. m \in DOMAIN row.media /\ p \in row.media[m]
    BY <1>6
  <2>3. [at |-> row.at, column |-> m, address |-> JsNumber(row.address), path |-> p] \in Cells(row)
    BY <2>1, <2>2, CellShape, Zenon
  <2> QED BY <2>1, <2>3, Zenon DEF CellOf
<1> QED BY <1>5, <1>7, <1>8 DEF row, CellsAre

\* The request of a cell finds the field by its id, the row by its address, and
\* the Blob by its path.
LEMMA CellOpens ==
    ASSUME NEW fragments \in Fragmentations, NEW values \in Contents[fragments],
           NEW result, NEW media, NEW lost, Faithful(result, media, lost), HasAddress(result),
           NEW a \in LiveAddresses(fragments), a \in Nat,
           NEW cell \in Cells(SerializedRow(values, result, media, a)),
           cell.column.index \notin lost, cell.at <= MaxExact
    PROVE  OpenedBlob(values, cell.column.field, cell.address, cell.path) =
             <<cell.at, result[cell.column.index].of, cell.path>>
<1>1. PICK m \in media : \E p \in ItemsOf(values, result, a, m) : cell = CellOf(a, m, p)
  <2>1. CellsAre(SerializedRow(values, result, media, a), values, result, media, a)
    BY CellsOfRow DEF Faithful
  <2> QED BY <2>1, Zenon DEF CellsAre
<1>2. PICK p \in ItemsOf(values, result, a, m) : cell = CellOf(a, m, p)
  BY <1>1
<1>3. cell.at = a /\ cell.column = m /\ cell.path = p /\ cell.address = JsNumber(a)
  BY <1>2 DEF CellOf
<1>4. JsNumber(a) = a
  BY <1>3 DEF JsNumber
<1>5. PICK f \in Fields : /\ f.name = result[m.index].of /\ f.name \in BlobNames
                          /\ m.field = f.id
  BY <1>3 DEF Faithful, MediaColumn, AsksForItsField
<1>6. (CHOOSE g \in Fields : g.id = m.field) = f
  BY <1>5, SchemaShape
<1> DEFINE key == <<a, f.name>>
           v == values[key]
           index == IF p = << >> THEN None ELSE p
<1>7. /\ key \in DOMAIN values /\ DOMAIN v \subseteq Seq(Nat) /\ None \notin DOMAIN v
      /\ IsValue(v, f.depth) /\ p \in MediaItems(v) /\ p \in DOMAIN v
  <2>1. key \in LiveAddresses(fragments) \X BlobNames
    BY <1>5
  <2>2. key \in DOMAIN values
    BY <2>1, ContentsAssumption, Zenon
  <2>3. FieldNamed(key[2]) = f
    BY SchemaShape
  <2>4. DOMAIN v \subseteq Seq(Nat) /\ None \notin DOMAIN v /\ IsValue(v, f.depth)
    <3> HIDE DEF key
    <3> QED BY <2>2, <2>3, ContentsAssumption
  <2> QED BY <1>2, <1>5, <2>2, <2>4 DEF MediaItems, ItemsOf
<1>8. f.depth \in Nat
  BY SnapshotAssumption DEF Fields
<1>9. FollowsTo(v, f.depth, p)
  <2> HIDE DEF v
  <2> QED BY <1>7, <1>8, BlobsFollow
<1>10. p # None /\ p \in Seq(Nat) /\ Len(p) = f.depth
  BY <1>7, <1>9 DEF FollowsTo
<1>11. (f.depth = 0) <=> (index = None)
  <2>1. p = << >> <=> f.depth = 0
    BY <1>8, <1>10, EmptySeq
  <2> QED BY <1>10, <2>1
<1>12. (IF index = None THEN << >> ELSE index) = p
  BY <1>10
<1>13. Selected(v, f.depth, index, None) = p
  <2> HIDE DEF v, index
  <2> QED BY <1>9, <1>11, <1>12 DEF Selected
<1>14. OpenedBlob(values, m.field, a, p) = <<a, f.name, p>>
  <2> HIDE DEF v
  <2>1. OpenedBlob(values, f.id, a, p) =
          IF key \notin DOMAIN values THEN None
          ELSE LET q == Selected(v, f.depth, index, None)
               IN  IF q = None THEN None ELSE <<a, f.name, q>>
    BY <1>5, <1>6 DEF OpenedBlob, v
  <2> HIDE DEF key, index
  <2> QED BY <1>5, <1>7, <1>10, <1>13, <2>1
<1> QED BY <1>3, <1>4, <1>5, <1>14

\* The cells of a row, as the properties name them.
Shown(row) == {<<c.column.name, c.path>> : c \in Cells(row)}

BlobsOf(row, values, result, i) ==
    {<<result[i].name, p>> : p \in MediaItems(values[<<row.at, result[i].of>>])}

\* With or without an address of the row, only Blobs have cells.
LEMMA OnlyBlobs ==
    ASSUME NEW values, NEW result, NEW media, \A m \in media : MediaColumn(result, m), NEW a,
           NEW row, row = SerializedRow(values, result, media, a)
    PROVE  Shown(row) \subseteq UNION {BlobsOf(row, values, result, i) :
                                        i \in {j \in DOMAIN result : result[j].of \in BlobNames}}
<1> DEFINE blobs == {j \in DOMAIN result : result[j].of \in BlobNames}
<1>1. /\ row.at = a /\ DOMAIN row.media = media
      /\ \A m \in media : row.media[m] = MediaItems(values[<<a, result[m.index].of>>])
  BY DEF SerializedRow
<1>2. ASSUME NEW c \in Cells(row)
      PROVE  \E i \in blobs : <<c.column.name, c.path>> \in BlobsOf(row, values, result, i)
  <2>1. PICK m \in DOMAIN row.media : \E p \in row.media[m] :
          c = [at |-> row.at, column |-> m, address |-> JsNumber(row.address), path |-> p]
    BY CellShape, Zenon
  <2>2. PICK p \in row.media[m] :
          c = [at |-> row.at, column |-> m, address |-> JsNumber(row.address), path |-> p]
    BY <2>1
  <2>3. m.index \in blobs /\ m.name = result[m.index].name
    BY <1>1 DEF MediaColumn
  <2>4. c.column.name = m.name /\ c.path = p
    BY <2>2
  <2>5. p \in MediaItems(values[<<row.at, result[m.index].of>>])
    BY <1>1
  <2>6. <<c.column.name, c.path>> \in BlobsOf(row, values, result, m.index)
    BY <2>3, <2>4, <2>5 DEF BlobsOf
  <2> QED BY <2>3, <2>6
<1> HIDE DEF blobs
<1>3. ASSUME NEW x \in Shown(row) PROVE x \in UNION {BlobsOf(row, values, result, i) : i \in blobs}
  <2>1. PICK c \in Cells(row) : x = <<c.column.name, c.path>>
    BY DEF Shown
  <2>2. PICK i \in blobs : x \in BlobsOf(row, values, result, i)
    BY <1>2, <2>1
  <2> QED BY <2>2
<1> QED BY <1>3 DEF blobs

\* With its address, a row has the cells of all its Blobs but those of lost columns.
LEMMA EveryBlob ==
    ASSUME NEW values, NEW result, NEW media, NEW lost, Faithful(result, media, lost),
           Complete(result, media, lost), HasAddress(result), NEW a \in Nat,
           NEW row, row = SerializedRow(values, result, media, a),
           NEW i \in DOMAIN result, result[i].of \in BlobNames, i \notin lost
    PROVE  BlobsOf(row, values, result, i) \subseteq Shown(row)
<1>1. CellsAre(row, values, result, media, a)
  BY CellsOfRow DEF Faithful
<1>2. /\ row.at = a
      /\ \A m \in media : \A p \in ItemsOf(values, result, a, m) : CellOf(a, m, p) \in Cells(row)
  BY <1>1 DEF CellsAre
<1>3. PICK m \in media : m.index = i /\ m.name = result[i].name
  BY DEF Complete, Faithful, MediaColumn
<1>4. ASSUME NEW p \in MediaItems(values[<<row.at, result[i].of>>])
      PROVE  <<result[i].name, p>> \in Shown(row)
  <2>1. CellOf(a, m, p) \in Cells(row)
    BY <1>2, <1>3 DEF ItemsOf
  <2>2. CellOf(a, m, p).column.name = result[i].name /\ CellOf(a, m, p).path = p
    BY <1>3 DEF CellOf
  <2> QED BY <2>1, <2>2 DEF Shown
<1> QED BY <1>4 DEF BlobsOf

\* Row previews have every Blob column and the address.
LEMMA PreviewComplete ==
    /\ Faithful(PreviewResult, PreviewMedia, {}) /\ Complete(PreviewResult, PreviewMedia, {})
    /\ HasAddress(PreviewResult)
<1>1. DOMAIN PreviewResult = 1..(Len(Schema) + 1) /\ Len(Schema) \in Nat
  BY PreviewShape, SchemaShape, LenProperties
<1>2. /\ \A i \in DOMAIN Schema : /\ i \in DOMAIN PreviewResult
                                  /\ PreviewResult[i].name = Schema[i].name
                                  /\ PreviewResult[i].of = Schema[i].name
      /\ Len(Schema) + 1 \in DOMAIN PreviewResult
      /\ PreviewResult[Len(Schema) + 1].name = RowAddr
      /\ PreviewResult[Len(Schema) + 1].of = RowAddr
      /\ \A i \in DOMAIN PreviewResult : i \in DOMAIN Schema \/ i = Len(Schema) + 1
  <2>1. /\ \A i \in DOMAIN Schema : i \in DOMAIN PreviewResult
        /\ Len(Schema) + 1 \in DOMAIN PreviewResult
        /\ \A i \in DOMAIN PreviewResult : i \in DOMAIN Schema \/ i = Len(Schema) + 1
    BY <1>1, SchemaShape
  <2>2. ASSUME NEW i \in DOMAIN Schema
        PROVE  PreviewResult[i].name = Schema[i].name /\ PreviewResult[i].of = Schema[i].name
    <3>1. PreviewResult[i] = [name |-> Schema[i].name, of |-> Schema[i].name]
      BY PreviewShape
    <3> QED BY <3>1
  <2>3. /\ PreviewResult[Len(Schema) + 1].name = RowAddr
        /\ PreviewResult[Len(Schema) + 1].of = RowAddr
    BY PreviewShape DEF RowAddrColumn
  <2> QED BY <2>1, <2>2, <2>3, Zenon
<1>3. ASSUME NEW m \in PreviewMedia
      PROVE  MediaColumn(PreviewResult, m) /\ AsksForItsField(PreviewResult, m)
  <2>1. PICK i \in DOMAIN Schema :
          /\ IsBlobField(Schema[i]) \/ IsBlobArrayField(Schema[i])
          /\ m = MediaProjection(i, Schema[i].name, Schema[i])
    BY Zenon DEF PreviewMedia
  <2>2. m.index = i /\ m.name = Schema[i].name /\ m.field = Schema[i].id
    BY <2>1 DEF MediaProjection
  <2>3. Schema[i] \in Fields /\ Schema[i].name \in BlobNames
    BY <2>1, SchemaShape, BlobNameShape
  <2> QED BY <1>2, <2>2, <2>3 DEF MediaColumn, AsksForItsField
<1>4. \A i \in DOMAIN PreviewResult : PreviewResult[i].name = RowAddr => PreviewResult[i].of = RowAddr
  BY <1>2, SchemaShape
<1>5. ASSUME NEW i \in DOMAIN PreviewResult, PreviewResult[i].of \in BlobNames
      PROVE  \E m \in PreviewMedia : m.index = i
  <2>1. i \in DOMAIN Schema /\ Schema[i].name \in BlobNames /\ Schema[i] \in Fields
    BY <1>2, <1>5, BlobNameShape, SchemaShape
  <2>2. IsBlobField(Schema[i]) \/ IsBlobArrayField(Schema[i])
    BY <2>1, BlobNameShape
  <2>3. MediaProjection(i, Schema[i].name, Schema[i]) \in PreviewMedia
    BY <2>1, <2>2 DEF PreviewMedia
  <2> QED BY <2>3 DEF MediaProjection
<1> QED BY <1>2, <1>3, <1>4, <1>5 DEF Complete, Faithful, HasAddress

-----------------------------------------------------------------------------
(* The answer to a statement *)

\* What the Blob columns of a prepared statement are.
LEMMA SourcesFit ==
    ASSUME NEW order, NEW result
    PROVE  /\ Faithful(result, SqlMedia(result, Sources(order, result)), LostColumns(order, result))
           /\ Complete(result, SqlMedia(result, Sources(order, result)), LostColumns(order, result))
<1> DEFINE sources == Sources(order, result)
<1>1. ASSUME NEW m \in SqlMedia(result, sources)
      PROVE  \E i \in DOMAIN result : \E f \in SourceFields(result[i], sources[i]) :
               m = MediaProjection(i, result[i].name, f)
  BY Zenon DEF SqlMedia
<1>2. ASSUME NEW i \in DOMAIN result, NEW f \in SourceFields(result[i], sources[i])
      PROVE  MediaProjection(i, result[i].name, f) \in SqlMedia(result, sources)
  <2> DEFINE of(j) == {MediaProjection(j, result[j].name, g) : g \in SourceFields(result[j], sources[j])}
  <2>1. MediaProjection(i, result[i].name, f) \in of(i)
    OBVIOUS
  <2>2. of(i) \subseteq UNION {of(j) : j \in DOMAIN result}
    <3> HIDE DEF of
    <3> QED OBVIOUS
  <2> QED BY <2>1, <2>2 DEF SqlMedia
<1>3. \A i \in DOMAIN result : sources[i] =
        IF SortsByHidden(order, result) THEN result[i].name
        ELSE IF result[i].of \in FieldNames \cup {RowAddr} THEN result[i].of ELSE None
  BY Zenon DEF Sources
<1> HIDE DEF sources
<1>4. \A i \in DOMAIN result :
        result[i].of \in FieldNames /\ i \notin LostColumns(order, result) => sources[i] = result[i].of
  BY <1>3 DEF LostColumns
<1>5. ASSUME NEW m \in SqlMedia(result, sources)
      PROVE  /\ MediaColumn(result, m)
             /\ m.index \notin LostColumns(order, result) => AsksForItsField(result, m)
  <2>1. PICK i \in DOMAIN result : \E f \in SourceFields(result[i], sources[i]) :
          m = MediaProjection(i, result[i].name, f)
    BY <1>1
  <2>2. PICK f \in SourceFields(result[i], sources[i]) : m = MediaProjection(i, result[i].name, f)
    BY <2>1
  <2>3. m.index = i /\ m.name = result[i].name /\ m.field = f.id
    BY <2>2 DEF MediaProjection
  <2>4. PICK g \in Fields : /\ f \in Fields /\ f.name = sources[i] /\ g.name = result[i].of
                            /\ IsBlobField(g) \/ IsBlobArrayField(g)
    BY <2>2 DEF SourceFields
  <2>5. result[i].of \in BlobNames /\ result[i].of \in FieldNames
    BY <2>4, BlobNameShape
  <2> QED BY <1>4, <2>3, <2>4, <2>5 DEF MediaColumn, AsksForItsField
<1>6. ASSUME NEW i \in DOMAIN result, result[i].of \in BlobNames, i \notin LostColumns(order, result)
      PROVE  \E m \in SqlMedia(result, sources) : m.index = i
  <2>1. PICK f \in Fields : f.name = result[i].of /\ (IsBlobField(f) \/ IsBlobArrayField(f))
    BY <1>6 DEF BlobNames
  <2>2. sources[i] = f.name
    BY <1>4, <1>6, <2>1, BlobNameShape
  <2>3. f \in SourceFields(result[i], sources[i])
    BY <2>1, <2>2 DEF SourceFields
  <2>4. MediaProjection(i, result[i].name, f).index = i
    BY DEF MediaProjection
  <2> QED BY <1>2, <2>3, <2>4
<1> QED BY <1>5, <1>6 DEF sources, Faithful, Complete

\* A statement that was not prepared has no media columns.
LEMMA NoSources ==
    ASSUME NEW result
    PROVE  SqlMedia(result, Nowhere(result)) = {}
<1>1. \A i \in DOMAIN result : Nowhere(result)[i] = None
  BY DEF Nowhere
<1>2. \A i \in DOMAIN result : SourceFields(result[i], Nowhere(result)[i]) = {}
  BY <1>1, SchemaShape, BlobNameShape DEF SourceFields, FieldNames
<1> QED BY <1>2 DEF SqlMedia

\* However a statement came to its plan, its media columns are what they say; if it
\* was not prepared there are none, and if it was they are complete.
LEMMA StatementMedia ==
    ASSUME NEW statement \in Statements, NEW answer, answer = StartSql(statement), answer # None
    PROVE  /\ Faithful(answer.result, answer.media, LostColumns(statement.order, answer.result))
           /\ ~Prepares(statement) => answer.media = {}
           /\ Prepares(statement)
                /\ (\A i \in DOMAIN statement.items : statement.items[i].kind # "member") =>
                /\ HasAddress(answer.result)
                /\ Complete(answer.result, answer.media, LostColumns(statement.order, answer.result))
<1> DEFINE items == statement.items
           safe == Prepares(statement) /\ Builds(PreparedItems(items))
           result == Result(IF safe THEN PreparedItems(items) ELSE items)
<1>1. /\ safe \/ Builds(items)
      /\ answer = [result |-> result,
                   media |-> SqlMedia(result, IF safe THEN Sources(statement.order, result)
                                              ELSE Nowhere(result))]
  BY Zenon DEF StartSql
<1>2. answer.result = result
  BY <1>1
<1> DEFINE plain == \A i \in DOMAIN items : items[i].kind # "member"
<1>3. Prepares(statement) /\ plain => Plain(items)
  BY DEF Prepares, Plain
<1>4. items \in Seq(Range(items))
  BY StatementsAssumption
<1>5. Prepares(statement) /\ plain => safe
  BY <1>1, <1>3, <1>4, PreparedAddress
<1>6. CASE ~safe
  <2>1. answer.media = {}
    BY <1>1, <1>6, NoSources
  <2> QED BY <1>5, <1>6, <2>1 DEF Faithful
<1>7. CASE safe
  <2>1. result = Result(PreparedItems(items)) /\ answer.media = SqlMedia(result, Sources(statement.order, result))
    BY <1>1, <1>7
  <2>2. ASSUME plain PROVE HasAddress(result)
    <3>1. /\ \A c \in Range(result) : c.name = RowAddr => c.of = RowAddr
          /\ RowAddrColumn \in Range(result)
      BY <1>3, <1>4, <1>7, <2>1, <2>2, PreparedAddress
    <3>2. \E i \in DOMAIN result : result[i] = RowAddrColumn
      <4> HIDE DEF result
      <4> QED BY <3>1 DEF Range
    <3>3. \A i \in DOMAIN result : result[i] \in Range(result)
      <4> HIDE DEF result
      <4> QED BY DEF Range
    <3>4. RowAddrColumn.name = RowAddr
      BY DEF RowAddrColumn
    <3> HIDE DEF result
    <3> QED BY <3>1, <3>2, <3>3, <3>4 DEF HasAddress
  <2>3. /\ Faithful(result, answer.media, LostColumns(statement.order, result))
        /\ Complete(result, answer.media, LostColumns(statement.order, result))
    <3> HIDE DEF result
    <3> QED BY <2>1, SourcesFit
  <2> HIDE DEF result
  <2> QED BY <1>2, <1>7, <2>2, <2>3
<1> QED BY <1>6, <1>7

-----------------------------------------------------------------------------
(* The invariant *)

\* What FileDataView may show.
Views == {"none", "sql", "manifest", "data", "deletion", "transaction", "raw"}

\* The listings are of the deletions of this snapshot.
SnapshotShape ==
    /\ snapshot.fragments \in Fragmentations
    /\ snapshot.listed \in Listings(snapshot.fragments)
    /\ snapshot.rows = DatasetRows(snapshot.fragments)
    /\ snapshot.values \in Contents[snapshot.fragments]

\* A panel shows a file of the snapshot in the view of its kind, or none.
PanelShape ==
    /\ panel \in [view : Views, path : Paths \cup {None}, offset : Nat]
    /\ \/ panel = NoPanel \/ panel.view = "sql"
       \/ panel.path \in Paths /\ panel.view = View(panel.path)

\* What can still answer is the request of this panel, before it has data.
RequestShape ==
    /\ requests \subseteq [url : Urls, refused : BOOLEAN]
    /\ error \in Urls \cup {None} /\ faults \in 0..MaxFaults
    /\ \A q \in requests : ~q.refused => q.url = panel /\ data = None

\* Data on screen answers the request of the panel on screen.
DataIsAnswer == data # None => data = Answer(panel)

\* A page begins among the rows, or with the first.
OffsetFits == panel.view = "data" => panel.offset = 0 \/ panel.offset < snapshot.rows

\* A table has the live rows of this snapshot, with what its statement selects.
TableShape ==
    table # None =>
        /\ panel.view = "sql" /\ table.statement \in Statements
        /\ table.answer = StartSql(table.statement)
        /\ table.rows = IF table.answer = None THEN {}
                        ELSE {SerializedRow(snapshot.values, table.answer.result,
                                            table.answer.media, a) : a \in Live}

\* The cell opened last is still on screen, with what its request got.
OpenedShape ==
    opened # None =>
        /\ \E r \in RowsOnScreen : opened.cell \in Cells(r)
        /\ opened.blob = OpenedBlob(snapshot.values, opened.cell.column.field,
                                    opened.cell.address, opened.cell.path)

\* The inductive invariant.
IInv ==
    /\ SnapshotShape /\ PanelShape /\ RequestShape /\ DataIsAnswer
    /\ OffsetFits /\ TableShape /\ OpenedShape

-----------------------------------------------------------------------------
(* Files and their views *)

\* A file is shown in the view of its kind.
LEMMA ViewType == ASSUME NEW path PROVE View(path) \in Views \ {"none", "sql"}
BY DEF View, Kind, Views

\* The deletion files of a fragment, by the version they were written for.
LEMMA DeletionFileOf ==
    ASSUME NEW fragments, NEW d \in DeletionFiles(fragments)
    PROVE  \E f \in DOMAIN fragments : \E v \in 1..fragments[f].deletion.readVersion :
             /\ fragments[f].deletion # None
             /\ d = [path |-> DeletionPath(f, [fragments[f].deletion EXCEPT !.readVersion = v]),
                     offsets |-> IF v = fragments[f].deletion.readVersion
                                 THEN fragments[f].deletion.offsets ELSE {}]
BY ZenonT(30) DEF DeletionFiles

\* Only files of no fragment are shown raw or as transactions.
LEMMA RawIsOther ==
    ASSUME NEW fragments, NEW path \in FilePaths(fragments),
           View(path) \in {"raw", "transaction"}
    PROVE  Other(path) \in OtherFiles /\ Other(path).path = path
<1>1. ASSUME NEW f, path = DataPath(f) PROVE FALSE
    BY <1>1 DEF DataPath, View, Kind
<1>2. ASSUME NEW d \in DeletionFiles(fragments), path = d.path PROVE FALSE
    <2>1. PICK f \in DOMAIN fragments : \E v \in 1..fragments[f].deletion.readVersion :
            /\ fragments[f].deletion # None
            /\ d = [path |-> DeletionPath(f, [fragments[f].deletion EXCEPT !.readVersion = v]),
                    offsets |-> IF v = fragments[f].deletion.readVersion
                                THEN fragments[f].deletion.offsets ELSE {}]
        BY DeletionFileOf, Zenon
    <2>2. path.dir = "_deletions" /\ path.ext \in {"arrow", "bin"}
        BY <1>2, <2>1 DEF DeletionPath
    <2>. QED BY <2>2 DEF View, Kind
<1>3. \E o \in OtherFiles : o.path = path
    BY <1>1, <1>2 DEF FilePaths
<1>. QED BY <1>3 DEF Other

-----------------------------------------------------------------------------
(* The invariant is inductive *)

\* The rows counted from the deletion files are the rows that a scan yields.
LEMMA RowsCounted ==
    ASSUME SnapshotShape
    PROVE  /\ Live \subseteq Nat /\ IsFiniteSet(Live)
           /\ snapshot.rows = Cardinality(Live) /\ snapshot.rows \in Nat
<1>1. Sound(snapshot.fragments)
    BY FragmentsAssumption DEF SnapshotShape, Sound
<1>. QED BY <1>1, RowsAreCounted, FS_CardinalityType DEF SnapshotShape, Live

LEMMA InitIInv == Init => IInv
<1>. SUFFICES ASSUME Init PROVE IInv
    OBVIOUS
<1>1. SnapshotShape
    BY DEF Init, SnapshotShape
<1>2. PanelShape
    BY DEF Init, PanelShape, NoPanel, Views
<1>3. RequestShape /\ DataIsAnswer
    BY PanelsAssumption DEF Init, RequestShape, DataIsAnswer
<1>4. OffsetFits /\ TableShape /\ OpenedShape
    BY DEF Init, OffsetFits, TableShape, OpenedShape, NoPanel
<1>. QED BY <1>1, <1>2, <1>3, <1>4 DEF IInv

\* Neither paths nor answers change while the snapshot is the same.
LEMMA SameSnapshot ==
    ASSUME snapshot' = snapshot
    PROVE  /\ SnapshotShape => SnapshotShape'
           /\ Paths' = Paths /\ Urls' = Urls
           /\ Live' = Live
           /\ \A url : Answer(url)' = Answer(url)
BY DEF SnapshotShape, Paths, Urls, Live, Answer, RowsPage

\* Nor do the rows on screen with the panel, its data and the table.
LEMMA SameRows ==
    ASSUME IInv, UNCHANGED <<snapshot, panel, data, table>>
    PROVE  /\ OffsetFits' /\ TableShape' /\ RowsOnScreen' = RowsOnScreen
           /\ opened' = opened => OpenedShape'
<1>1. OffsetFits' /\ TableShape' /\ RowsOnScreen' = RowsOnScreen
    BY SameSnapshot DEF IInv, OffsetFits, TableShape, RowsOnScreen
<1>2. opened' = opened => OpenedShape'
    BY <1>1 DEF IInv, OpenedShape
<1>. QED BY <1>1, <1>2

\* Whatever panel is shown, only its own request can still answer.
LEMMA ShowKeeps ==
    ASSUME IInv, NEW p, Show(p),
           p \in [view : Views, path : Paths \cup {None}, offset : Nat],
           p.view \in {"none", "sql"} \/ p.path \in Paths
    PROVE  /\ SnapshotShape' /\ RequestShape' /\ DataIsAnswer' /\ OpenedShape'
           /\ panel' = p /\ snapshot' = snapshot
<1>0. OpenedShape'
    BY DEF Show, OpenedShape
<1>1. /\ snapshot' = snapshot /\ panel' = p /\ faults' = faults
      /\ SnapshotShape' /\ Urls' = Urls /\ Answer(panel)' = Answer(panel')
    BY SameSnapshot DEF Show, IInv
<1>2. CASE p = panel
    <2>1. UNCHANGED <<data, error, requests, panel>>
        BY <1>1, <1>2 DEF Show, resource
    <2>. QED BY <1>0, <1>1, <2>1 DEF IInv, RequestShape, DataIsAnswer, Answer, RowsPage
<1>3. CASE p # panel
    <2>1. data' = None /\ error' = None
        BY <1>3 DEF Show
    <2>2. Url(p) # None => p \in Urls
        BY DEF Url, Urls
    <2>3. \A q \in requests' :
            \/ q \in requests /\ q.refused
            \/ q = [url |-> p, refused |-> FALSE] /\ p \in Urls
        BY <1>3, <2>2 DEF Show, GivenUp
    <2>4. requests' \subseteq [url : Urls, refused : BOOLEAN]
        <3>. SUFFICES ASSUME NEW q \in requests' PROVE q \in [url : Urls, refused : BOOLEAN]
            OBVIOUS
        <3>1. CASE q \in requests
            BY <3>1 DEF IInv, RequestShape
        <3>2. CASE q = [url |-> p, refused |-> FALSE] /\ p \in Urls
            BY <3>2
        <3>. QED BY <2>3, <3>1, <3>2
    <2>5. \A q \in requests' : ~q.refused => q.url = p
        BY <2>3
    <2>. QED BY <1>0, <1>1, <2>1, <2>4, <2>5 DEF IInv, RequestShape, DataIsAnswer
<1>. QED BY <1>2, <1>3

\* One step for each action.
LEMMA NextIInv == IInv /\ [Next]_vars => IInv'
<1>. SUFFICES ASSUME IInv, [Next]_vars PROVE IInv'
    OBVIOUS
<1>1. CASE SelectFile
    <2>1. PICK path \in Paths :
            Show([view |-> View(path), path |-> path, offset |-> 0]) /\ table' = None
        BY <1>1 DEF SelectFile, Paths
    <2>2. /\ SnapshotShape' /\ RequestShape' /\ DataIsAnswer' /\ OpenedShape'
          /\ panel' = [view |-> View(path), path |-> path, offset |-> 0]
        BY <2>1, ViewType, ShowKeeps
    <2>3. PanelShape' /\ OffsetFits'
        BY <2>1, <2>2, ViewType, SameSnapshot DEF PanelShape, Show, OffsetFits
    <2>. QED BY <2>1, <2>2, <2>3 DEF IInv, TableShape
<1>2. CASE TurnPage
    <2>0. /\ panel.view = "data" /\ panel.offset \in Nat /\ panel.path \in Paths
          /\ table' = table /\ table = None /\ data.total = snapshot.rows
        BY <1>2 DEF TurnPage, IInv, PanelShape, NoPanel, TableShape, DataIsAnswer, Answer, RowsPage
    <2>1. PICK offset \in Nat : /\ Show([panel EXCEPT !.offset = offset])
                                /\ offset = 0 \/ offset < snapshot.rows
        <3>1. CASE HasNext /\ Show([panel EXCEPT !.offset = @ + PageRows])
            BY <2>0, <3>1, PanelsAssumption DEF HasNext
        <3>2. CASE /\ panel.offset # 0
                   /\ Show([panel EXCEPT !.offset = IF @ > PageRows THEN @ - PageRows ELSE 0])
            <4>. DEFINE back == IF panel.offset > PageRows THEN panel.offset - PageRows ELSE 0
            <4>1. panel.offset < snapshot.rows
                BY <2>0, <3>2 DEF IInv, OffsetFits
            <4>2. snapshot.rows \in Nat
                BY RowsCounted DEF IInv
            <4>3. back \in Nat /\ (back = 0 \/ back < snapshot.rows)
                BY <2>0, <4>1, <4>2, PanelsAssumption
            <4>. QED BY <3>2, <4>3
        <3>. QED BY <1>2, <3>1, <3>2 DEF TurnPage
    <2>3. /\ SnapshotShape' /\ RequestShape' /\ DataIsAnswer' /\ OpenedShape'
          /\ panel' = [panel EXCEPT !.offset = offset] /\ snapshot' = snapshot
        BY <2>0, <2>1, ShowKeeps DEF IInv, PanelShape
    <2>4. PanelShape'
        BY <2>0, <2>3, SameSnapshot DEF IInv, PanelShape, NoPanel
    <2>5. OffsetFits' /\ TableShape'
        BY <2>0, <2>1, <2>3 DEF OffsetFits, TableShape, IInv, PanelShape
    <2>. QED BY <2>3, <2>4, <2>5 DEF IInv
<1>3. CASE SelectSql
    <2>1. /\ SnapshotShape' /\ RequestShape' /\ DataIsAnswer' /\ OpenedShape'
          /\ panel' = [NoPanel EXCEPT !.view = "sql"]
        BY <1>3, ShowKeeps DEF SelectSql, NoPanel, Views
    <2>2. PanelShape' /\ OffsetFits'
        BY <1>3, <2>1, SameSnapshot DEF SelectSql, Show, PanelShape, NoPanel, Views, OffsetFits
    <2>. QED BY <1>3, <2>1, <2>2 DEF IInv, TableShape, SelectSql
<1>4. CASE RunStatement
    <2>1. /\ UNCHANGED <<snapshot, panel, data, error, requests, opened, faults>>
          /\ panel.view = "sql" /\ table = None
        BY <1>4 DEF RunStatement, resource
    <2>2. opened = None
        BY <2>1 DEF IInv, OpenedShape, RowsOnScreen
    <2>3. SnapshotShape' /\ PanelShape' /\ RequestShape' /\ DataIsAnswer' /\ OffsetFits'
        BY <2>1, SameSnapshot DEF IInv, PanelShape, RequestShape, DataIsAnswer, OffsetFits
    <2>4. TableShape'
        <3>1. PICK statement \in Statements :
                table' = [statement |-> statement, answer |-> StartSql(statement),
                          rows |-> IF StartSql(statement) = None THEN {}
                                   ELSE {SerializedRow(snapshot.values, StartSql(statement).result,
                                                       StartSql(statement).media, a) : a \in Live}]
            BY <1>4 DEF RunStatement, Live
        <3>. DEFINE answer == StartSql(statement)
        <3>2. /\ table'.statement = statement /\ table'.answer = answer
              /\ table'.rows = IF answer = None THEN {}
                               ELSE {SerializedRow(snapshot.values, answer.result,
                                                   answer.media, a) : a \in Live}
            BY <3>1
        <3>3. snapshot' = snapshot /\ Live' = Live /\ panel' = panel
            BY <2>1, SameSnapshot
        <3>. QED BY <2>1, <3>2, <3>3 DEF TableShape
    <2>. QED BY <2>1, <2>2, <2>3, <2>4 DEF IInv, OpenedShape
<1>5. CASE OpenCell
    <2>1. UNCHANGED <<snapshot, panel, data, error, requests, table, faults>>
        BY <1>5 DEF OpenCell, resource
    <2>2. OpenedShape'
        <3>1. PICK r \in RowsOnScreen : \E cell \in Cells(r) :
                opened' = [cell |-> cell,
                           blob |-> OpenedBlob(snapshot.values, cell.column.field,
                                               cell.address, cell.path)]
            BY <1>5 DEF OpenCell
        <3>2. PICK cell \in Cells(r) :
                opened' = [cell |-> cell,
                           blob |-> OpenedBlob(snapshot.values, cell.column.field,
                                               cell.address, cell.path)]
            BY <3>1
        <3>3. /\ opened'.cell = cell
              /\ opened'.blob = OpenedBlob(snapshot.values, cell.column.field,
                                           cell.address, cell.path)
            BY <3>2
        <3>4. RowsOnScreen' = RowsOnScreen /\ snapshot' = snapshot
            BY <2>1, SameRows
        <3>. QED BY <3>3, <3>4 DEF OpenedShape
    <2>. QED BY <2>1, <2>2, SameSnapshot, SameRows DEF IInv, PanelShape, RequestShape, DataIsAnswer
<1>6. ASSUME NEW q \in requests, Answered(q) PROVE IInv'
    <2>1. /\ UNCHANGED <<snapshot, panel, error, table, faults>>
          /\ data' = Answer(q.url) /\ requests' = requests \ {q} /\ ~q.refused
        BY <1>6 DEF Answered
    <2>2. q.url = panel /\ q \in [url : Urls, refused : BOOLEAN]
        BY <2>1 DEF IInv, RequestShape
    <2>3. \A r \in requests' : r.refused
        BY <2>1, <2>2 DEF IInv, RequestShape
    <2>4. DataIsAnswer'
        BY <2>1, <2>2, SameSnapshot DEF DataIsAnswer, Answer, RowsPage
    <2>5. opened' = None
        <3>1. data = None /\ panel.view # "sql"
            BY <2>1, <2>2 DEF IInv, RequestShape, Urls
        <3>2. opened = None
            BY <3>1 DEF IInv, OpenedShape, RowsOnScreen, TableShape
        <3>. QED BY <1>6, <3>2 DEF Answered
    <2>6. OffsetFits' /\ TableShape' /\ OpenedShape'
        BY <2>1, <2>5, SameSnapshot DEF IInv, OffsetFits, TableShape, OpenedShape
    <2>. QED BY <2>1, <2>3, <2>4, <2>6, SameSnapshot DEF IInv, PanelShape, RequestShape
<1>7. ASSUME NEW q \in requests, Fails(q) PROVE IInv'
    <2>1. /\ UNCHANGED <<snapshot, panel, data, error, table>>
          /\ requests' = (requests \ {q}) \cup {[q EXCEPT !.refused = TRUE]}
          /\ faults' \in 0..MaxFaults
        BY <1>7, PanelsAssumption DEF Fails, IInv, RequestShape
    <2>2. [q EXCEPT !.refused = TRUE] \in [url : Urls, refused : BOOLEAN]
            /\ [q EXCEPT !.refused = TRUE].refused
        BY DEF IInv, RequestShape
    <2>3. RequestShape'
        BY <2>1, <2>2, SameSnapshot DEF IInv, RequestShape
    <2>4. opened' = opened
        BY <1>7 DEF Fails
    <2>. QED BY <2>1, <2>3, <2>4, SameSnapshot, SameRows DEF IInv, PanelShape, DataIsAnswer,
            Answer, RowsPage
<1>8. ASSUME NEW q \in requests, Reports(q) PROVE IInv'
    BY <1>8, SameSnapshot, SameRows DEF Reports, IInv, PanelShape, RequestShape, DataIsAnswer,
        Answer, RowsPage
<1>9. CASE UNCHANGED vars
    BY <1>9, SameSnapshot, SameRows DEF vars, resource, IInv, PanelShape, RequestShape, DataIsAnswer,
        Answer, RowsPage
<1>. QED BY <1>1, <1>2, <1>3, <1>4, <1>5, <1>6, <1>7, <1>8, <1>9 DEF Next

THEOREM Invariance == Spec => []IInv
BY InitIInv, NextIInv, PTL DEF Spec

\* Whatever panels were left and pages turned, only the request of the panel on
\* screen can still answer (api.ts:39-49).
THEOREM TypeCorrect == Spec => []TypeOK
<1>1. IInv => TypeOK
    BY DEF IInv, PanelShape, RequestShape, TableShape, TypeOK
<1>. QED BY <1>1, Invariance, PTL

\* No panel ever shows the answer to the request of another panel or page.
THEOREM AnswersFit == Spec => []DataIsAnswer
<1>1. IInv => DataIsAnswer
    BY DEF IInv
<1>. QED BY <1>1, Invariance, PTL

-----------------------------------------------------------------------------
(* Previews of files *)

\* The bytes read are the first of the file, all of them if they are few.
LEMMA ReadIsPrefix ==
    ASSUME NEW bytes \in Seq(Byte), NEW read, read = SubSeq(bytes, 1, ReadSize(bytes))
    PROVE  /\ IsPrefix(read, bytes)
           /\ Len(bytes) > ReadSize(bytes) <=> Len(bytes) > PreviewBytes
           /\ Len(bytes) > ReadSize(bytes) <=> read # bytes
<1>1. /\ Len(bytes) \in Nat /\ ReadSize(bytes) \in 0..Len(bytes)
      /\ Len(bytes) > ReadSize(bytes) <=> Len(bytes) > PreviewBytes
    BY PreviewAssumption, LenProperties DEF ReadSize
<1>2. Len(read) = ReadSize(bytes)
    BY <1>1, SubSeqProperties, LenProperties
<1>3. IsPrefix(read, bytes)
    BY <1>1, <1>2 DEF IsPrefix
<1>4. CASE ReadSize(bytes) = Len(bytes)
    BY <1>1, <1>3, <1>4, SubSeqFull
<1>5. CASE ReadSize(bytes) < Len(bytes)
    BY <1>1, <1>2, <1>3, <1>5
<1>. QED BY <1>1, <1>4, <1>5

\* A preview is of the file selected, its first bytes up to the limit, and says
\* when there are more; a text short enough is shown as text (files.rs:189-228).
THEOREM FilesShown == Spec => []FileShown
<1>1. IInv => FileShown
    <2>. SUFFICES ASSUME IInv, panel.view = "raw", data # None
                  PROVE  LET bytes == Other(panel.path).bytes
                         IN  /\ data.path = panel.path /\ IsPrefix(data.content, bytes)
                             /\ data.truncated <=> data.content # bytes
                             /\ data.truncated <=> Len(bytes) > PreviewBytes
                             /\ ~data.truncated => (data.format = "text" <=> IsText(bytes))
        BY DEF FileShown
    <2>. DEFINE bytes == Other(panel.path).bytes
                read == SubSeq(bytes, 1, ReadSize(bytes))
    <2>1. panel.path \in FilePaths(snapshot.fragments) /\ View(panel.path) = "raw"
        BY DEF IInv, PanelShape, NoPanel, Paths
    <2>2. bytes \in Seq(Byte)
        BY <2>1, RawIsOther, FilesAssumption
    <2>3. data = [path |-> panel.path, size |-> Len(bytes), content |-> read,
                  format |-> IF IsText(read) THEN "text" ELSE "hex",
                  truncated |-> Len(bytes) > ReadSize(bytes)]
        BY DEF IInv, DataIsAnswer, Answer, Preview
    <2>4. /\ IsPrefix(read, bytes)
          /\ Len(bytes) > ReadSize(bytes) <=> Len(bytes) > PreviewBytes
          /\ Len(bytes) > ReadSize(bytes) <=> read # bytes
        BY <2>2, ReadIsPrefix
    <2>5. data.path = panel.path /\ data.content = read
            /\ (data.truncated <=> Len(bytes) > ReadSize(bytes))
            /\ (data.format = "text" <=> IsText(read))
        BY <2>3
    <2>. QED BY <2>4, <2>5, Zenon
<1>. QED BY <1>1, Invariance, PTL

-----------------------------------------------------------------------------
(* Deletions *)

\* Deleted offsets are finitely many numbers.
LEMMA OffsetsFinite ==
    ASSUME NEW n \in Int, NEW all \in SUBSET (0..n)
    PROVE  IsFiniteSet(all) /\ Cardinality(all) \in Nat /\ all \subseteq Nat
<1>1. IsFiniteSet(0..n)
    BY FS_Interval
<1>2. IsFiniteSet(all)
    BY <1>1, FS_Subset
<1>3. Cardinality(all) \in Nat
    BY <1>2, FS_CardinalityType
<1>4. all \subseteq Nat
    OBVIOUS
<1>. QED BY <1>2, <1>3, <1>4

\* Each of the first offsets is among the first to be listed.
LEMMA FirstOffsets ==
    ASSUME NEW n \in Int, NEW all \in SUBSET (0..n), NEW o \in all, o < MaxOffsets
    PROVE  /\ Cardinality({p \in all : p < o}) < MaxOffsets
           /\ Cardinality({p \in all : p < o}) < Cardinality(all)
<1>. DEFINE before == {p \in all : p < o}
<1>1. IsFiniteSet(all) /\ Cardinality(all) \in Nat /\ o \in Nat
    BY OffsetsFinite
<1>2. /\ IsFiniteSet(all \ {o}) /\ Cardinality(all \ {o}) = Cardinality(all) - 1
    BY <1>1, FS_RemoveElement
<1>3. before \subseteq all \ {o} /\ before \subseteq 0..(o - 1)
    <2>. SUFFICES ASSUME NEW p \in all, p < o PROVE p # o /\ p \in 0..(o - 1)
        OBVIOUS
    <2>1. p \in Nat
        BY OffsetsFinite
    <2>. QED BY <1>1, <2>1
<1>4. /\ Cardinality(before) \in Nat
      /\ Cardinality(before) <= Cardinality(all \ {o})
    BY <1>2, <1>3, FS_Subset, FS_CardinalityType
<1>5. IsFiniteSet(0..(o - 1)) /\ Cardinality(0..(o - 1)) = o
    <2>1. 0 \in Int /\ o - 1 \in Int
        BY <1>1
    <2>2. /\ IsFiniteSet(0..(o - 1))
          /\ Cardinality(0..(o - 1)) = IF 0 > o - 1 THEN 0 ELSE (o - 1) - 0 + 1
        BY <2>1, FS_Interval, Zenon
    <2>. QED BY <1>1, <2>2
<1>6. Cardinality(before) <= o
    BY <1>3, <1>5, FS_Subset
<1>. QED BY <1>1, <1>2, <1>4, <1>5, <1>6, SnapshotAssumption

\* What is listed of a deletion are deleted offsets; of a bitmap the ones a grid
\* has room for are all there, as is everything when nothing was cut.
LEMMA Listing ==
    ASSUME NEW deletion, deletion # None, NEW n \in Int,
           deletion.offsets \subseteq 0..n, NEW listed \in Listed(deletion)
    PROVE  /\ listed \subseteq deletion.offsets
           /\ deletion.encoding = "Bitmap" =>
                \A o \in deletion.offsets : o < GridCells => o \in listed
           /\ Cardinality(deletion.offsets) <= MaxOffsets => listed = deletion.offsets
<1>. DEFINE all == deletion.offsets
            cut == IF Cardinality(all) <= MaxOffsets THEN Cardinality(all) ELSE MaxOffsets
<1>1. all \subseteq 0..n /\ IsFiniteSet(all) /\ Cardinality(all) \in Nat
    BY OffsetsFinite
<1>2. CASE deletion.encoding = "Bitmap"
    <2>1. listed = {o \in all : Cardinality({p \in all : p < o}) < cut}
        BY <1>2 DEF Listed
    <2>2. ASSUME NEW o \in all, o < GridCells PROVE o \in listed
        <3>1. o < MaxOffsets
            BY <1>1, <2>2, PanelsAssumption, SnapshotAssumption
        <3>. QED BY <1>1, <2>1, <3>1, FirstOffsets
    <2>3. ASSUME Cardinality(all) <= MaxOffsets, NEW o \in all PROVE o \in listed
        <3>1. {p \in all : p < o} \subseteq all \ {o}
            BY <1>1
        <3>2. IsFiniteSet(all \ {o}) /\ Cardinality(all \ {o}) = Cardinality(all) - 1
            BY <1>1, FS_RemoveElement
        <3>3. /\ Cardinality({p \in all : p < o}) \in Nat
              /\ Cardinality({p \in all : p < o}) <= Cardinality(all \ {o})
            BY <3>1, <3>2, FS_Subset, FS_CardinalityType
        <3>. QED BY <1>1, <2>1, <2>3, <3>2, <3>3
    <2>. QED BY <2>1, <2>2, <2>3
<1>3. CASE deletion.encoding # "Bitmap"
    <2>1. listed \in SUBSET all /\ Cardinality(listed) = cut
        BY <1>3 DEF Listed
    <2>2. Cardinality(all) <= MaxOffsets => listed = all
        BY <1>1, <2>1, FS_Subset
    <2>. QED BY <1>3, <2>1, <2>2
<1>. QED BY <1>2, <1>3

\* A deletion file with the name of the current one is the current one.
LEMMA CurrentFile ==
    ASSUME NEW fragments, NEW d \in DeletionFiles(fragments), NEW f \in DOMAIN fragments,
           fragments[f].deletion # None,
           d.path = DeletionPath(f, fragments[f].deletion)
    PROVE  d.offsets = fragments[f].deletion.offsets
<1>1. PICK g \in DOMAIN fragments : \E v \in 1..fragments[g].deletion.readVersion :
        /\ fragments[g].deletion # None
        /\ d = [path |-> DeletionPath(g, [fragments[g].deletion EXCEPT !.readVersion = v]),
                offsets |-> IF v = fragments[g].deletion.readVersion
                            THEN fragments[g].deletion.offsets ELSE {}]
    BY DeletionFileOf, Zenon
<1>2. PICK v \in 1..fragments[g].deletion.readVersion :
        d = [path |-> DeletionPath(g, [fragments[g].deletion EXCEPT !.readVersion = v]),
             offsets |-> IF v = fragments[g].deletion.readVersion
                         THEN fragments[g].deletion.offsets ELSE {}]
    BY <1>1, Zenon
<1>3. d.path.name[1] = g /\ d.path.name[1] = f /\ d.path.name[2] = fragments[f].deletion.readVersion
    BY <1>2 DEF DeletionPath
<1>4. d.path.name[2] = v
    BY <1>2 DEF DeletionPath
<1>. QED BY <1>2, <1>3, <1>4

\* A deletion file shows its own deletions, or that the snapshot does not use it,
\* and a red cell is a deleted row.  A live cell is a live row unless the list of
\* a hash set was cut (dataset.rs:285-319, DeletionGrid.tsx, DataViews.tsx:97).
THEOREM DeletionsAreShown == Spec => []DeletionsShown
<1>1. IInv => DeletionsShown
    <2>. SUFFICES ASSUME IInv, NEW f \in GridFragments
                  PROVE  LET deletion == snapshot.fragments[f].deletion
                         IN  /\ \A d \in DeletionFiles(snapshot.fragments) :
                                  d.path = panel.path => d.offsets = deletion.offsets
                             /\ RedCells(f) \subseteq deletion.offsets
                             /\ deletion.encoding = "Bitmap" \/ ~ViewOf(f).truncated =>
                                  RedCells(f) = deletion.offsets \cap GridOffsets(f)
        BY DEF DeletionsShown
    <2>. DEFINE fragments == snapshot.fragments
                deletion == fragments[f].deletion
                listed == snapshot.listed[f]
    <2>1. /\ f \in DOMAIN fragments /\ ViewOf(f) # None
          /\ \/ panel.view = "data" /\ panel.path = DataPath(f)
             \/ panel.view = "deletion" /\ panel.path = ViewOf(f).path
        BY DEF GridFragments
    <2>2. deletion # None
        BY <2>1 DEF ViewOf, DeletionView
    <2>3. /\ ViewOf(f).path = DeletionPath(f, deletion) /\ ViewOf(f).offsets = listed
          /\ ViewOf(f).truncated = (Cardinality(deletion.offsets) > MaxOffsets)
        BY <2>2 DEF ViewOf, DeletionView
    <2>4. listed \in Listed(deletion)
        BY <2>1 DEF IInv, SnapshotShape, Listings
    <2>5. /\ fragments[f].physical \in Nat /\ fragments[f].physical - 1 \in Int
          /\ deletion.offsets \subseteq 0..(fragments[f].physical - 1)
        BY <2>1, <2>2, FragmentsAssumption DEF IInv, SnapshotShape
    <2>6. /\ listed \subseteq deletion.offsets
          /\ deletion.encoding = "Bitmap" =>
               \A o \in deletion.offsets : o < GridCells => o \in listed
          /\ Cardinality(deletion.offsets) <= MaxOffsets => listed = deletion.offsets
        BY <2>2, <2>4, <2>5, Listing
    <2>7. Cardinality(deletion.offsets) \in Nat
        BY <2>5, OffsetsFinite
    <2>8. \A o \in GridOffsets(f) : o < GridCells
        BY <2>5, PanelsAssumption DEF GridOffsets
    <2>9. ASSUME NEW d \in DeletionFiles(fragments), d.path = panel.path
          PROVE  d.offsets = deletion.offsets
        <3>1. CASE panel.path = DataPath(f)
            <4>1. PICK g \in DOMAIN fragments : \E v \in 1..fragments[g].deletion.readVersion :
                    /\ fragments[g].deletion # None
                    /\ d = [path |-> DeletionPath(g, [fragments[g].deletion EXCEPT !.readVersion = v]),
                            offsets |-> IF v = fragments[g].deletion.readVersion
                                        THEN fragments[g].deletion.offsets ELSE {}]
                BY DeletionFileOf, Zenon
            <4>. QED BY <2>9, <3>1, <4>1 DEF DeletionPath, DataPath
        <3>2. CASE panel.path = DeletionPath(f, deletion)
            BY <2>1, <2>2, <2>9, <3>2, CurrentFile
        <3>. QED BY <2>1, <2>3, <3>1, <3>2
    <2>10. RedCells(f) = listed \cap GridOffsets(f)
        BY <2>3 DEF RedCells
    <2>11. RedCells(f) \subseteq deletion.offsets
        BY <2>6, <2>10
    <2>12. deletion.encoding = "Bitmap" \/ ~ViewOf(f).truncated =>
             RedCells(f) = deletion.offsets \cap GridOffsets(f)
        <3>1. CASE deletion.encoding = "Bitmap"
            BY <2>6, <2>8, <2>10, <3>1
        <3>2. CASE ~ViewOf(f).truncated
            <4>1. Cardinality(deletion.offsets) <= MaxOffsets
                <5>1. ~(Cardinality(deletion.offsets) > MaxOffsets)
                    BY <2>3, <3>2, Zenon
                <5>. QED BY <2>7, <5>1, SnapshotAssumption
            <4>2. listed = deletion.offsets
                BY <2>6, <4>1
            <4>. QED BY <2>10, <4>2
        <3>. QED BY <3>1, <3>2
    <2>. QED BY <2>9, <2>11, <2>12
<1>. QED BY <1>1, Invariance, PTL

\* If every deletion vector is a bitmap or small enough to be listed whole, the
\* grid shows every deleted row it has a cell for, as README.md:37-38 has it
\* (dataset.rs:285-319).
THEOREM GridHidesNothing ==
    ASSUME \A fragments \in Fragmentations : \A f \in DOMAIN fragments :
               fragments[f].deletion # None =>
                  \/ fragments[f].deletion.encoding = "Bitmap"
                  \/ Cardinality(fragments[f].deletion.offsets) <= MaxOffsets
    PROVE  Spec => []GridShowsDeletions
<1>1. IInv /\ DeletionsShown => GridShowsDeletions
    <2>. SUFFICES ASSUME IInv, DeletionsShown, NEW f \in GridFragments
                  PROVE  RedCells(f) = snapshot.fragments[f].deletion.offsets \cap GridOffsets(f)
        BY DEF GridShowsDeletions
    <2>. DEFINE deletion == snapshot.fragments[f].deletion
                count == Cardinality(deletion.offsets)
    <2>1. f \in DOMAIN snapshot.fragments /\ ViewOf(f) # None
        BY DEF GridFragments
    <2>2. deletion # None /\ ViewOf(f).truncated = (count > MaxOffsets)
        BY <2>1 DEF ViewOf, DeletionView
    <2>3. deletion.encoding = "Bitmap" \/ count <= MaxOffsets
        BY <2>1, <2>2 DEF IInv, SnapshotShape
    <2>4. count \in Nat
        <3>1. /\ snapshot.fragments[f].physical - 1 \in Int
              /\ deletion.offsets \subseteq 0..(snapshot.fragments[f].physical - 1)
            BY <2>1, <2>2, FragmentsAssumption DEF IInv, SnapshotShape
        <3>. QED BY <3>1, OffsetsFinite
    <2>5. count <= MaxOffsets => ~(count > MaxOffsets)
        BY <2>4, SnapshotAssumption
    <2>6. deletion.encoding = "Bitmap" \/ ~ViewOf(f).truncated
        BY <2>2, <2>3, <2>5, Zenon
    <2>. QED BY <2>6 DEF DeletionsShown
<1>. QED BY <1>1, Invariance, DeletionsAreShown, PTL

-----------------------------------------------------------------------------
(* Pages of rows *)

\* The rows of a page.
RowsFrom(offset) ==
    {SerializedRow(snapshot.values, PreviewResult, PreviewMedia, a) :
       a \in {b \in Live : Rank(Live, b) \in offset..(offset + PageRows - 1)}}

\* The row after n others is the one of that rank.
LEMMA LiveRowIs ==
    ASSUME NEW fragments, LiveAddresses(fragments) \subseteq Nat,
           IsFiniteSet(LiveAddresses(fragments))
    PROVE  /\ \A n \in 0..(Cardinality(LiveAddresses(fragments)) - 1) :
                 /\ LiveRow(fragments, n) \in LiveAddresses(fragments)
                 /\ Rank(LiveAddresses(fragments), LiveRow(fragments, n)) = n
           /\ \A a \in LiveAddresses(fragments) :
                 /\ Rank(LiveAddresses(fragments), a) \in
                       0..(Cardinality(LiveAddresses(fragments)) - 1)
                 /\ LiveRow(fragments, Rank(LiveAddresses(fragments), a)) = a
<1>. DEFINE live == LiveAddresses(fragments)
<1>1. \A n : LiveRow(fragments, n) = CHOOSE a \in live : Rank(live, a) = n
    BY DEF LiveRow, Rank
<1>. HIDE DEF live
<1>2. live \in SUBSET Nat /\ IsFiniteSet(live)
    BY DEF live
<1>3. ASSUME NEW n \in 0..(Cardinality(live) - 1)
      PROVE  LiveRow(fragments, n) \in live /\ Rank(live, LiveRow(fragments, n)) = n
    <2>1. \E a \in live : Rank(live, a) = n
        BY <1>2, Ranks
    <2>. QED BY <1>1, <2>1
<1>4. ASSUME NEW a \in live
      PROVE  /\ Rank(live, a) \in 0..(Cardinality(live) - 1)
             /\ LiveRow(fragments, Rank(live, a)) = a
    <2>. DEFINE n == Rank(live, a)
                b == LiveRow(fragments, n)
    <2>1. n \in 0..(Cardinality(live) - 1)
        BY <1>2, RankBelow
    <2>2. \A c, d \in live : Rank(live, c) = Rank(live, d) => c = d
        BY <1>2, Ranks
    <2>3. b \in live /\ Rank(live, b) = Rank(live, a)
        BY <1>3, <2>1
    <2>4. b = a
        BY <2>2, <2>3
    <2>. QED BY <2>1, <2>4
<1>. QED BY <1>3, <1>4 DEF live

\* The pages of a row preview are the live rows, none twice and none left out,
\* and there is a next page exactly when there are more rows: `total` is counted
\* from the deletion files when the dataset is opened, the rows are those of a
\* scan (dataset.rs:281-333, query.rs:57-104, DataViews.tsx:54-80).
THEOREM RowsArePaged == Spec => []RowsPaged
<1>1. IInv => RowsPaged
    <2>. SUFFICES ASSUME IInv, panel.view = "data", data # None
                  PROVE  /\ {r.at : r \in data.rows} =
                              {LiveRow(snapshot.fragments, n) :
                                 n \in panel.offset..(panel.offset + PageRows - 1)
                                         \cap 0..(Cardinality(Live) - 1)}
                         /\ HasNext <=> panel.offset + PageRows < Cardinality(Live)
                         /\ data.rows = {} => Live = {}
        BY DEF RowsPaged
    <2>. DEFINE first == panel.offset
                count == Cardinality(Live)
                page == {a \in Live : Rank(Live, a) \in first..(first + PageRows - 1)}
                row(a) == SerializedRow(snapshot.values, PreviewResult, PreviewMedia, a)
    <2>1. /\ Live \subseteq Nat /\ IsFiniteSet(Live) /\ count \in Nat
          /\ snapshot.rows = count /\ first \in Nat /\ PageRows \in Nat \ {0}
          /\ first = 0 \/ first < count
        BY RowsCounted, PanelsAssumption DEF IInv, PanelShape, OffsetFits
    <2>2. data.total = snapshot.rows /\ data.rows = {row(a) : a \in page}
        <3>1. data = RowsPage(first)
            BY DEF IInv, DataIsAnswer, Answer
        <3>2. data.total = snapshot.rows
            BY <3>1 DEF RowsPage
        <3>3. data.rows = RowsFrom(first)
            BY <3>1 DEF RowsPage, RowsFrom, Rank, Live
        <3>. QED BY <3>2, <3>3 DEF RowsFrom
    <2>3. \A a : row(a).at = a
        BY DEF SerializedRow
    <2>. HIDE DEF row
    <2>4. {r.at : r \in data.rows} = page
        BY <2>2, <2>3
    <2>5. /\ \A n \in 0..(count - 1) :
               /\ LiveRow(snapshot.fragments, n) \in Live
               /\ Rank(Live, LiveRow(snapshot.fragments, n)) = n
          /\ \A a \in Live :
               /\ Rank(Live, a) \in 0..(count - 1)
               /\ LiveRow(snapshot.fragments, Rank(Live, a)) = a
        BY <2>1, LiveRowIs DEF Live
    <2>. HIDE DEF count
    <2>6. page = {LiveRow(snapshot.fragments, n) :
                    n \in first..(first + PageRows - 1) \cap 0..(count - 1)}
        BY <2>5
    <2>7. HasNext <=> first + PageRows < count
        BY <2>1, <2>2 DEF HasNext
    <2>8. ASSUME data.rows = {}, Live # {} PROVE FALSE
        <3>1. count # 0
            BY <2>1, <2>8, FS_EmptySet DEF count
        <3>2. first \in first..(first + PageRows - 1) /\ first \in 0..(count - 1)
            BY <2>1, <3>1
        <3>3. LiveRow(snapshot.fragments, first) \in page
            BY <2>5, <3>2
        <3>. QED BY <2>2, <2>8, <3>3
    <2>. QED BY <2>4, <2>6, <2>7, <2>8 DEF count
<1>. QED BY <1>1, Invariance, PTL

-----------------------------------------------------------------------------
(* Cells on screen *)

\* Where a row on screen comes from.
LEMMA RowFrom ==
    ASSUME IInv, NEW r \in RowsOnScreen
    PROVE  /\ table # None =>
                /\ table.statement \in Statements /\ table.answer # None
                /\ table.answer = StartSql(table.statement) /\ panel.view # "data"
           /\ table = None => ResultOnScreen = PreviewResult
           /\ \E a \in Live : a \in Nat /\
                r = SerializedRow(snapshot.values, ResultOnScreen,
                                  IF table # None THEN table.answer.media ELSE PreviewMedia, a)
<1>1. Live \subseteq Nat
    BY RowsCounted DEF IInv
<1>2. CASE table # None
    <2>1. /\ panel.view = "sql" /\ table.statement \in Statements
          /\ table.answer = StartSql(table.statement)
          /\ table.rows = IF table.answer = None THEN {}
                          ELSE {SerializedRow(snapshot.values, table.answer.result,
                                              table.answer.media, a) : a \in Live}
        BY <1>2 DEF IInv, TableShape
    <2>2. r \in table.rows
        BY <1>2, <2>1 DEF RowsOnScreen
    <2>3. table.answer # None
        BY <2>1, <2>2
    <2>4. ResultOnScreen = table.answer.result
        BY <1>2 DEF ResultOnScreen
    <2>5. PICK a \in Live : r = SerializedRow(snapshot.values, table.answer.result,
                                              table.answer.media, a)
        BY <2>1, <2>2, <2>3
    <2>. QED BY <1>1, <1>2, <2>1, <2>3, <2>4, <2>5
<1>3. CASE table = None
    <2>1. panel.view = "data" /\ data # None /\ r \in data.rows
        BY <1>3 DEF RowsOnScreen
    <2>2. ResultOnScreen = PreviewResult
        BY <1>3 DEF ResultOnScreen
    <2>3. PICK a \in Live : r = SerializedRow(snapshot.values, PreviewResult, PreviewMedia, a)
        <3>1. data = RowsPage(panel.offset)
            BY <2>1 DEF IInv, DataIsAnswer, Answer
        <3>2. data.rows = RowsFrom(panel.offset)
            BY <3>1 DEF RowsPage, RowsFrom, Rank, Live
        <3>. QED BY <2>1, <3>2, Zenon DEF RowsFrom
    <2>. QED BY <1>1, <1>3, <2>2, <2>3
<1>. QED BY <1>2, <1>3

\* What is known of the media columns behind the rows on screen.
MediaOnScreen == IF table # None THEN table.answer.media ELSE PreviewMedia

LostOnScreen == {i \in DOMAIN ResultOnScreen : TakenForItsName(i)}

LEMMA ScreenMedia ==
    ASSUME IInv, NEW r \in RowsOnScreen
    PROVE  /\ Faithful(ResultOnScreen, MediaOnScreen, LostOnScreen)
           /\ ~IsPrepared => MediaOnScreen = {}
           /\ IsPrepared /\ ~MemberForAddress =>
                /\ HasAddress(ResultOnScreen)
                /\ Complete(ResultOnScreen, MediaOnScreen, LostOnScreen)
<1>1. CASE table # None
    <2>1. MediaOnScreen = table.answer.media /\ ResultOnScreen = table.answer.result
        BY <1>1 DEF MediaOnScreen, ResultOnScreen
    <2>2. LostOnScreen = LostColumns(table.statement.order, table.answer.result)
        BY <1>1, <2>1 DEF LostOnScreen, LostColumns, TakenForItsName
    <2>3. /\ table.statement \in Statements /\ table.answer # None
          /\ table.answer = StartSql(table.statement)
        BY <1>1, RowFrom
    <2>. QED BY <1>1, <2>1, <2>2, <2>3, StatementMedia DEF IsPrepared, MemberForAddress
<1>2. CASE table = None
    <2>1. MediaOnScreen = PreviewMedia /\ ResultOnScreen = PreviewResult /\ LostOnScreen = {}
        BY <1>2, RowFrom DEF MediaOnScreen, LostOnScreen, TakenForItsName
    <2>2. IsPrepared
        BY <1>2 DEF IsPrepared
    <2>. QED BY <2>1, <2>2, PreviewComplete
<1>. QED BY <1>1, <1>2

\* A media cell opens the Blob that its column has in its row, of all the Blobs
\* of all rows: through aliases, wildcards, the address appended to the statement
\* and the index path of a nested item (query.rs:370-486, schema.rs:55-90,
\* blob.rs:36-71, media.rs:84-145).  Not so of a column of TakenForItsName, of a
\* statement of MemberForAddress and of an address beyond MaxExact.
THEOREM CellsOpenTheirBlobs == Spec => []CellOpensItsBlob
<1>1. IInv => CellOpensItsBlob
    <2>. SUFFICES ASSUME IInv, opened # None, ~TakenForItsName(opened.cell.column.index),
                         ~MemberForAddress, opened.cell.at <= MaxExact
                  PROVE  opened.blob = <<opened.cell.at,
                                         ResultOnScreen[opened.cell.column.index].of,
                                         opened.cell.path>>
        BY DEF CellOpensItsBlob
    <2>. DEFINE cell == opened.cell
    <2>1. PICK r \in RowsOnScreen : cell \in Cells(r)
        BY DEF IInv, OpenedShape
    <2>2. opened.blob = OpenedBlob(snapshot.values, cell.column.field, cell.address, cell.path)
        BY DEF IInv, OpenedShape
    <2>3. PICK a \in Live : a \in Nat /\
            r = SerializedRow(snapshot.values, ResultOnScreen, MediaOnScreen, a)
        BY RowFrom DEF MediaOnScreen
    <2>4. MediaOnScreen # {}
        <3>1. DOMAIN r.media = MediaOnScreen
            BY <2>3 DEF SerializedRow
        <3>. QED BY <2>1, <3>1, CellShape
    <2>5. /\ Faithful(ResultOnScreen, MediaOnScreen, LostOnScreen)
          /\ HasAddress(ResultOnScreen)
        BY <2>4, ScreenMedia
    <2>6. /\ snapshot.fragments \in Fragmentations
          /\ snapshot.values \in Contents[snapshot.fragments]
          /\ a \in LiveAddresses(snapshot.fragments)
        BY DEF IInv, SnapshotShape, Live
    <2>7. cell \in Cells(SerializedRow(snapshot.values, ResultOnScreen, MediaOnScreen, a))
        BY <2>1, <2>3
    <2>8. cell.column.index \notin LostOnScreen /\ cell.at <= MaxExact
        BY DEF LostOnScreen
    <2>. HIDE DEF cell
    <2>9. OpenedBlob(snapshot.values, cell.column.field, cell.address, cell.path) =
            <<cell.at, ResultOnScreen[cell.column.index].of, cell.path>>
        BY <2>3, <2>5, <2>6, <2>7, <2>8, CellOpens
    <2>. QED BY <2>2, <2>9 DEF cell
<1>. QED BY <1>1, Invariance, PTL

\* Whatever the statement, only a Blob has a media cell, a null never.  In a row
\* preview every Blob has one; in the result of a prepared statement every Blob of
\* every column, with two exceptions: a column of TakenForItsName and a statement of
\* MemberForAddress (query.rs:370-486, blob.rs:36-71).
THEOREM BlobsHaveTheirCells == Spec => []BlobsHaveCells
<1>1. IInv => BlobsHaveCells
    <2>. SUFFICES ASSUME IInv, NEW r \in RowsOnScreen
                  PROVE  /\ CellsShown(r) \subseteq UNION {BlobsIn(r, i) : i \in BlobColumns}
                         /\ IsPrepared /\ ~MemberForAddress =>
                              \A i \in BlobColumns :
                                ~TakenForItsName(i) => BlobsIn(r, i) \subseteq CellsShown(r)
        BY DEF BlobsHaveCells
    <2>1. PICK a \in Live : a \in Nat /\
            r = SerializedRow(snapshot.values, ResultOnScreen, MediaOnScreen, a)
        BY RowFrom DEF MediaOnScreen
    <2>2. /\ CellsShown(r) = Shown(r)
          /\ \A i : BlobsIn(r, i) = BlobsOf(r, snapshot.values, ResultOnScreen, i)
        BY DEF CellsShown, Shown, BlobsIn, BlobsOf
    <2>3. CellsShown(r) \subseteq UNION {BlobsIn(r, i) : i \in BlobColumns}
        <3>1. \A m \in MediaOnScreen : MediaColumn(ResultOnScreen, m)
            BY ScreenMedia DEF Faithful
        <3>2. Shown(r) \subseteq
                UNION {BlobsOf(r, snapshot.values, ResultOnScreen, i) :
                       i \in {j \in DOMAIN ResultOnScreen : ResultOnScreen[j].of \in BlobNames}}
            BY <2>1, <3>1, OnlyBlobs
        <3>. QED BY <3>2 DEF CellsShown, Shown, BlobsIn, BlobsOf, BlobColumns
    <2>4. ASSUME IsPrepared, ~MemberForAddress, NEW i \in BlobColumns, ~TakenForItsName(i)
          PROVE  BlobsIn(r, i) \subseteq CellsShown(r)
        <3>1. /\ i \in DOMAIN ResultOnScreen /\ ResultOnScreen[i].of \in BlobNames
              /\ i \notin LostOnScreen
            BY <2>4 DEF BlobColumns, LostOnScreen
        <3>2. BlobsOf(r, snapshot.values, ResultOnScreen, i) \subseteq Shown(r)
            BY <2>1, <2>4, <3>1, ScreenMedia, EveryBlob
        <3>. QED BY <2>2, <3>2
    <2>. QED BY <2>3, <2>4
<1>. QED BY <1>1, Invariance, PTL
=============================================================================
