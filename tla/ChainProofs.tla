---------------------------- MODULE ChainProofs -----------------------------
(* Proofs about the Reader and the Writer of a descriptor chain, for every  *)
(* slicing of the chain and calls of any size.                              *)
EXTENDS ChainCalls, FiniteSetTheorems, FunctionTheorems, SequenceTheorems, TLAPS

Slices == [addr : Nat, len : Nat]

-----------------------------------------------------------------------------
(* Sums of lengths.                                                        *)

LEMMA CountTo ==
    ASSUME NEW n \in Nat
    PROVE  IsFiniteSet(1 .. n) /\ Cardinality(1 .. n) = n
  <1>1. 1 \in Int /\ n \in Int
    OBVIOUS
  <1>2. IsFiniteSet(1 .. n) /\ Cardinality(1 .. n) = IF 1 > n THEN 0 ELSE n - 1 + 1
    BY <1>1, FS_Interval
  <1> QED
    BY <1>2

LEMMA WordsFinite ==
    ASSUME NEW lens \in Seq(Nat)
    PROVE  IsFiniteSet(WordsIn(lens)) /\ Sum(lens) \in Nat
  <1> DEFINE part(i) == {i} \X (1 .. lens[i])
             parts == {part(i) : i \in DOMAIN lens}
  <1>1. IsFiniteSet(DOMAIN lens)
    BY FS_Interval
  <1>2. IsFiniteSet(parts)
    <2>1. [i \in DOMAIN lens |-> part(i)] \in Surjection(DOMAIN lens, parts)
      BY DEF Surjection
    <2> QED
      BY <1>1, <2>1, FS_Surjection
  <1>3. ASSUME NEW i \in DOMAIN lens PROVE IsFiniteSet(part(i))
    <2>1. IsFiniteSet({i})
      BY FS_Singleton
    <2>2. lens[i] \in Nat
      OBVIOUS
    <2>3. IsFiniteSet(1 .. lens[i])
      BY <2>2, CountTo
    <2> QED
      BY <2>1, <2>3, FS_Product
  <1> HIDE DEF part
  <1>4. IsFiniteSet(UNION parts)
    BY <1>2, <1>3, FS_UNION
  <1>5. WordsIn(lens) = UNION parts
    BY DEF WordsIn, part
  <1> QED
    BY <1>4, <1>5, FS_CardinalityType DEF Sum

(* The first i lengths. *)
First(lens, i) == SubSeq(lens, 1, i)

LEMMA FirstFacts ==
    ASSUME NEW S, NEW lens \in Seq(S), NEW i \in 0 .. Len(lens)
    PROVE  /\ First(lens, i) \in Seq(S) /\ Len(First(lens, i)) = i
           /\ DOMAIN First(lens, i) = 1 .. i
           /\ \A j \in 1 .. i : First(lens, i)[j] = lens[j]
  BY DEF First

LEMMA FirstWords ==
    ASSUME NEW lens \in Seq(Nat), NEW i \in 0 .. Len(lens)
    PROVE  WordsIn(First(lens, i)) = UNION {{j} \X (1 .. lens[j]) : j \in 1 .. i}
  <1>1. DOMAIN First(lens, i) = 1 .. i /\ \A j \in 1 .. i : First(lens, i)[j] = lens[j]
    BY FirstFacts
  <1>2. {{j} \X (1 .. First(lens, i)[j]) : j \in DOMAIN First(lens, i)}
          = {{j} \X (1 .. lens[j]) : j \in 1 .. i}
    BY <1>1
  <1> QED
    BY <1>2, Zenon DEF WordsIn

LEMMA SumNone == Sum(<<>>) = 0
  <1>1. WordsIn(<<>>) = {}
    BY DEF WordsIn
  <1> QED
    BY <1>1, FS_EmptySet DEF Sum

LEMMA SumFirst ==
    ASSUME NEW lens \in Seq(Nat), NEW i \in 1 .. Len(lens)
    PROVE  Sum(First(lens, i)) = Sum(First(lens, i - 1)) + lens[i]
  <1> DEFINE old == WordsIn(First(lens, i - 1))
             new == {i} \X (1 .. lens[i])
  <1>1. i - 1 \in 0 .. Len(lens) /\ i \in 0 .. Len(lens) /\ lens[i] \in Nat
    OBVIOUS
  <1>2. WordsIn(First(lens, i)) = old \cup new
    <2>1. 1 .. i = (1 .. (i - 1)) \cup {i}
      OBVIOUS
    <2>2. WordsIn(First(lens, i)) = UNION {{j} \X (1 .. lens[j]) : j \in 1 .. i}
      BY <1>1, FirstWords
    <2>3. old = UNION {{j} \X (1 .. lens[j]) : j \in 1 .. (i - 1)}
      BY <1>1, FirstWords
    <2> QED
      BY <2>1, <2>2, <2>3
  <1>3. old \cap new = {}
    <2>1. old = UNION {{j} \X (1 .. lens[j]) : j \in 1 .. (i - 1)}
      BY <1>1, FirstWords
    <2>2. \A x \in old : x[1] \in 1 .. (i - 1)
      BY <2>1
    <2>3. \A x \in new : x[1] = i
      OBVIOUS
    <2>4. i \notin 1 .. (i - 1)
      OBVIOUS
    <2> QED
      BY <2>2, <2>3, <2>4
  <1>4. IsFiniteSet(old) /\ Cardinality(old) \in Nat
    BY <1>1, FirstFacts, WordsFinite, FS_CardinalityType
  <1>5. IsFiniteSet(new) /\ Cardinality(new) = lens[i]
    <2>1. IsFiniteSet({i}) /\ Cardinality({i}) = 1
      BY FS_Singleton
    <2>2. IsFiniteSet(1 .. lens[i]) /\ Cardinality(1 .. lens[i]) = lens[i]
      BY <1>1, CountTo
    <2>3. IsFiniteSet(new) /\ Cardinality(new) = Cardinality({i}) * Cardinality(1 .. lens[i])
      BY <2>1, <2>2, FS_Product
    <2> QED
      BY <1>1, <2>1, <2>2, <2>3
  <1> HIDE DEF old, new
  <1>6. Cardinality(old \cup new) = Cardinality(old) + Cardinality(new) - Cardinality(old \cap new)
    BY <1>4, <1>5, FS_Union
  <1>7. Cardinality(old \cap new) = 0
    BY <1>3, FS_EmptySet
  <1>8. Cardinality(old \cup new) = Cardinality(old) + lens[i]
    BY <1>1, <1>4, <1>5, <1>6, <1>7
  <1> QED
    BY <1>2, <1>8 DEF Sum, old

LEMMA SumGrows ==
    ASSUME NEW lens \in Seq(Nat), NEW i \in 0 .. Len(lens), NEW j \in 0 .. Len(lens), i <= j
    PROVE  Sum(First(lens, i)) <= Sum(First(lens, j))
  <1>1. 1 .. i \subseteq 1 .. j
    OBVIOUS
  <1>2. WordsIn(First(lens, i)) \subseteq WordsIn(First(lens, j))
    BY <1>1, FirstWords
  <1>3. IsFiniteSet(WordsIn(First(lens, j)))
    BY FirstFacts, WordsFinite
  <1> QED
    BY <1>2, <1>3, FS_Subset DEF Sum

(* An initial part of 1 .. n is counted by its last element. *)
LEMMA CountOfPrefix ==
    ASSUME NEW n \in Nat, NEW D \in SUBSET (1 .. n),
           \A i \in D : \A j \in 1 .. i : j \in D
    PROVE  Cardinality(D) \in 0 .. n /\ D = 1 .. Cardinality(D)
  <1> DEFINE k == Cardinality(D)
  <1>1. IsFiniteSet(1 .. n) /\ Cardinality(1 .. n) = n
    BY CountTo
  <1>2. IsFiniteSet(D) /\ k \in Nat /\ k <= n
    BY <1>1, FS_Subset, FS_CardinalityType
  <1> HIDE DEF k
  <1>3. ASSUME NEW i \in D PROVE i <= k
    <2>1. 1 .. i \subseteq D /\ i \in Nat
      OBVIOUS
    <2>2. Cardinality(1 .. i) = i
      BY <2>1, CountTo
    <2> QED
      BY <1>2, <2>1, <2>2, FS_Subset DEF k
  <1>4. ASSUME NEW i \in 1 .. k, i \notin D PROVE FALSE
    <2>1. \A j \in D : j < i
      BY <1>4
    <2>2. D \subseteq 1 .. (i - 1) /\ i - 1 \in Nat
      BY <1>2, <2>1
    <2>3. IsFiniteSet(1 .. (i - 1)) /\ Cardinality(1 .. (i - 1)) = i - 1
      BY <2>2, CountTo
    <2>4. k <= i - 1
      BY <2>2, <2>3, FS_Subset DEF k
    <2> QED
      BY <1>2, <2>4
  <1>5. D = 1 .. k
    <2>1. \A i \in D : i \in 1 .. n /\ i <= k
      BY <1>3
    <2>2. D \subseteq 1 .. k
      BY <1>2, <2>1
    <2>3. 1 .. k \subseteq D
      BY <1>4
    <2> QED
      BY <2>2, <2>3
  <1> QED
    BY <1>2, <1>5 DEF k

-----------------------------------------------------------------------------
(* The words before a slice.                                               *)

LEMMA LensFacts ==
    ASSUME NEW bufs \in Seq(Slices)
    PROVE  /\ Lens(bufs) \in Seq(Nat) /\ Len(Lens(bufs)) = Len(bufs)
           /\ \A i \in 1 .. Len(bufs) : Lens(bufs)[i] = bufs[i].len
  <1>1. DOMAIN bufs = 1 .. Len(bufs) /\ Len(bufs) \in Nat
    OBVIOUS
  <1>2. \A i \in 1 .. Len(bufs) : bufs[i].len \in Nat
    <2>1. \A i \in 1 .. Len(bufs) : bufs[i] \in Slices
      OBVIOUS
    <2> QED
      BY <2>1 DEF Slices
  <1>3. Lens(bufs) = [i \in 1 .. Len(bufs) |-> bufs[i].len]
    BY <1>1 DEF Lens
  <1>4. Lens(bufs) \in [1 .. Len(bufs) -> Nat]
    BY <1>2, <1>3
  <1> QED
    BY <1>1, <1>3, <1>4

LEMMA BeforeIsSum ==
    ASSUME NEW bufs \in Seq(Slices), NEW i \in 1 .. (Len(bufs) + 1)
    PROVE  Before(bufs, i) = Sum(First(Lens(bufs), i - 1)) /\ i - 1 \in 0 .. Len(bufs)
  <1>1. i - 1 \in 0 .. Len(bufs)
    OBVIOUS
  <1>2. /\ First(bufs, i - 1) \in Seq(Slices) /\ Len(First(bufs, i - 1)) = i - 1
        /\ \A j \in 1 .. (i - 1) : First(bufs, i - 1)[j] = bufs[j]
    BY <1>1, FirstFacts
  <1>3. /\ First(Lens(bufs), i - 1) \in Seq(Nat) /\ Len(First(Lens(bufs), i - 1)) = i - 1
        /\ \A j \in 1 .. (i - 1) : First(Lens(bufs), i - 1)[j] = Lens(bufs)[j]
    <2> DEFINE lens == Lens(bufs)
    <2>1. lens \in Seq(Nat) /\ i - 1 \in 0 .. Len(lens)
      BY <1>1, LensFacts
    <2> HIDE DEF lens
    <2>2. /\ First(lens, i - 1) \in Seq(Nat) /\ Len(First(lens, i - 1)) = i - 1
          /\ \A j \in 1 .. (i - 1) : First(lens, i - 1)[j] = lens[j]
      BY <2>1, FirstFacts
    <2> QED
      BY <2>2 DEF lens
  <1>4. /\ Lens(First(bufs, i - 1)) \in Seq(Nat) /\ Len(Lens(First(bufs, i - 1))) = i - 1
        /\ \A j \in 1 .. (i - 1) : Lens(First(bufs, i - 1))[j] = bufs[j].len
    BY <1>2, LensFacts
  <1>5. \A j \in 1 .. (i - 1) : Lens(bufs)[j] = bufs[j].len
    <2>1. \A j \in 1 .. (i - 1) : j \in 1 .. Len(bufs)
      BY <1>1
    <2> QED
      BY <2>1, LensFacts
  <1>6. Lens(First(bufs, i - 1)) = First(Lens(bufs), i - 1)
    BY <1>3, <1>4, <1>5
  <1> QED
    BY <1>1, <1>6 DEF Before, Total, First

LEMMA BeforeFacts ==
    ASSUME NEW bufs \in Seq(Slices)
    PROVE  /\ Before(bufs, 1) = 0 /\ Before(bufs, Len(bufs) + 1) = Total(bufs)
           /\ \A i \in 1 .. (Len(bufs) + 1) : Before(bufs, i) \in Nat
           /\ \A i \in 1 .. Len(bufs) : Before(bufs, i + 1) = Before(bufs, i) + bufs[i].len
           /\ \A i, j \in 1 .. (Len(bufs) + 1) : i <= j => Before(bufs, i) <= Before(bufs, j)
  <1> DEFINE lens == Lens(bufs)
             n == Len(bufs)
  <1>0. lens \in Seq(Nat) /\ Len(lens) = n /\ n \in Nat
    BY LensFacts
  <1>1. Before(bufs, 1) = 0
    <2>1. Before(bufs, 1) = Sum(First(lens, 1 - 1)) /\ 1 - 1 = 0
      BY BeforeIsSum
    <2>2. First(lens, 0) = <<>>
      BY <1>0 DEF First
    <2> QED
      BY <2>1, <2>2, SumNone
  <1>2. Before(bufs, n + 1) = Total(bufs)
    <2>1. Before(bufs, n + 1) = Sum(First(lens, (n + 1) - 1)) /\ (n + 1) - 1 = n
      BY BeforeIsSum
    <2>2. First(lens, n) = lens
      BY <1>0, FirstFacts
    <2> QED
      BY <2>1, <2>2 DEF Total
  <1>3. ASSUME NEW i \in 1 .. (n + 1) PROVE Before(bufs, i) \in Nat
    <2>1. Before(bufs, i) = Sum(First(lens, i - 1)) /\ i - 1 \in 0 .. n
      BY BeforeIsSum
    <2> QED
      BY <1>0, <2>1, FirstFacts, WordsFinite
  <1>4. ASSUME NEW i \in 1 .. n PROVE Before(bufs, i + 1) = Before(bufs, i) + bufs[i].len
    <2>1. Before(bufs, i) = Sum(First(lens, i - 1))
      BY BeforeIsSum
    <2>2. Before(bufs, i + 1) = Sum(First(lens, (i + 1) - 1)) /\ (i + 1) - 1 = i
      BY BeforeIsSum
    <2>3. lens[i] = bufs[i].len
      BY LensFacts
    <2> HIDE DEF lens
    <2> QED
      BY <1>0, <2>1, <2>2, <2>3, SumFirst
  <1>5. ASSUME NEW i \in 1 .. (n + 1), NEW j \in 1 .. (n + 1), i <= j
        PROVE  Before(bufs, i) <= Before(bufs, j)
    <2>1. Before(bufs, i) = Sum(First(lens, i - 1)) /\ i - 1 \in 0 .. n
      BY BeforeIsSum
    <2>2. Before(bufs, j) = Sum(First(lens, j - 1)) /\ j - 1 \in 0 .. n
      BY BeforeIsSum
    <2>3. i - 1 <= j - 1
      BY <1>5
    <2> HIDE DEF lens
    <2> QED
      BY <1>0, <2>1, <2>2, <2>3, SumGrows
  <1> QED
    BY <1>1, <1>2, <1>3, <1>4, <1>5

(* Whole counts the slices that lie in the first n words, and no more. *)
LEMMA WholeFacts ==
    ASSUME NEW bufs \in Seq(Slices), NEW n \in Nat
    PROVE  /\ Whole(bufs, n) \in 0 .. Len(bufs)
           /\ Before(bufs, Whole(bufs, n) + 1) <= n
           /\ Whole(bufs, n) < Len(bufs) => n < Before(bufs, Whole(bufs, n) + 2)
  <1> DEFINE D == {i \in DOMAIN bufs : Before(bufs, i + 1) <= n}
             k == Cardinality(D)
  <1>1. DOMAIN bufs = 1 .. Len(bufs) /\ Len(bufs) \in Nat /\ D \in SUBSET (1 .. Len(bufs))
    OBVIOUS
  <1>2. ASSUME NEW i \in D, NEW j \in 1 .. i PROVE j \in D
    <2>1. j \in 1 .. Len(bufs) /\ j + 1 \in 1 .. (Len(bufs) + 1) /\ i + 1 \in 1 .. (Len(bufs) + 1)
          /\ j + 1 <= i + 1
      BY <1>1
    <2>2. Before(bufs, j + 1) <= Before(bufs, i + 1) /\ Before(bufs, i + 1) <= n
          /\ Before(bufs, j + 1) \in Nat /\ Before(bufs, i + 1) \in Nat
      BY <2>1, BeforeFacts
    <2> QED
      BY <1>1, <2>1, <2>2
  <1>3. k \in 0 .. Len(bufs) /\ D = 1 .. k
    BY <1>1, <1>2, CountOfPrefix
  <1>4. Whole(bufs, n) = k
    BY DEF Whole
  <1> HIDE DEF k
  <1>5. Before(bufs, k + 1) <= n
    <2>1. CASE k = 0
      BY <2>1, BeforeFacts
    <2>2. CASE k # 0
      <3>1. k \in D
        BY <1>3, <2>2
      <3> QED
        BY <3>1
    <2> QED
      BY <2>1, <2>2
  <1>6. ASSUME k < Len(bufs) PROVE n < Before(bufs, k + 2)
    <2>1. k + 1 \in 1 .. Len(bufs) /\ k + 1 \notin D /\ (k + 1) + 1 = k + 2
      BY <1>3, <1>6
    <2>2. ~(Before(bufs, k + 2) <= n) /\ Before(bufs, k + 2) \in Nat
      BY <1>1, <2>1, BeforeFacts
    <2> QED
      BY <2>2
  <1> QED
    BY <1>3, <1>4, <1>5, <1>6

-----------------------------------------------------------------------------
(* Where slices lie.                                                       *)

\* Slices that lie inside an area of memory, and the area of some slices.
Within(bufs, area) ==
    bufs \in Seq(Slices) /\ \A i \in 1 .. Len(bufs) : Addresses(bufs[i]) \subseteq area
AreaOf(bufs) == UNION {Addresses(bufs[i]) : i \in DOMAIN bufs}

LEMMA SliceFacts ==
    ASSUME NEW vs \in Slices, NEW n \in 0 .. vs.len
    PROVE  /\ Offset(vs, n) \in Slices /\ Addresses(Offset(vs, n)) \subseteq Addresses(vs)
           /\ Subslice(vs, n) \in Slices /\ Addresses(Subslice(vs, n)) \subseteq Addresses(vs)
           /\ vs.addr .. (vs.addr + n - 1) \subseteq Addresses(vs)
  BY DEF Slices, Offset, Subslice, Slice, Addresses

LEMMA DropFacts ==
    ASSUME NEW S, NEW bufs \in Seq(S), NEW m \in 1 .. (Len(bufs) + 1)
    PROVE  /\ SubSeq(bufs, m, Len(bufs)) \in Seq(S)
           /\ Len(SubSeq(bufs, m, Len(bufs))) = Len(bufs) - m + 1
           /\ \A i \in 1 .. (Len(bufs) - m + 1) : SubSeq(bufs, m, Len(bufs))[i] = bufs[m + i - 1]
  <1>1. m \in Int /\ Len(bufs) \in Int /\ \A i \in m .. Len(bufs) : bufs[i] \in S
    OBVIOUS
  <1>2. /\ SubSeq(bufs, m, Len(bufs)) \in Seq(S)
        /\ Len(SubSeq(bufs, m, Len(bufs))) = IF m <= Len(bufs) THEN Len(bufs) - m + 1 ELSE 0
        /\ \A i \in 1 .. (Len(bufs) - m + 1) : SubSeq(bufs, m, Len(bufs))[i] = bufs[m + i - 1]
    BY <1>1, SubSeqProperties
  <1> QED
    BY <1>2

(* What consuming n words leaves lies where the slices lay. *)
LEMMA AdvanceWithin ==
    ASSUME NEW area, NEW bufs, Within(bufs, area), NEW n \in Nat
    PROVE  Within(Advance(bufs, n), area)
  <1> DEFINE k == Whole(bufs, n)
             rest == SubSeq(bufs, k + 2, Len(bufs))
  <1>1. bufs \in Seq(Slices) /\ \A i \in 1 .. Len(bufs) : Addresses(bufs[i]) \subseteq area
    BY DEF Within
  <1>2. /\ k \in 0 .. Len(bufs) /\ Before(bufs, k + 1) <= n
        /\ k < Len(bufs) => n < Before(bufs, k + 2)
    BY <1>1, WholeFacts
  <1> HIDE DEF k
  <1>3. CASE k = Len(bufs)
    <2>1. Advance(bufs, n) = <<>>
      BY <1>3 DEF Advance, k
    <2> QED
      BY <2>1 DEF Within
  <1>4. CASE k # Len(bufs)
    <2> DEFINE vs == bufs[k + 1]
               head == Offset(vs, n - Before(bufs, k + 1))
    <2>1. k + 1 \in 1 .. Len(bufs) /\ k + 2 \in 1 .. (Len(bufs) + 1) /\ Len(bufs) \in Nat
      BY <1>1, <1>2, <1>4
    <2>2. vs \in Slices /\ vs.len \in Nat /\ Addresses(vs) \subseteq area
      <3>1. vs \in Slices
        BY <1>1, <2>1
      <3> QED
        BY <1>1, <2>1, <3>1 DEF Slices
    <2>3. n - Before(bufs, k + 1) \in 0 .. vs.len
      <3>1. Before(bufs, (k + 1) + 1) = Before(bufs, k + 1) + vs.len
        BY <1>1, <2>1, BeforeFacts
      <3>2. (k + 1) + 1 = k + 2 /\ n < Before(bufs, k + 2)
        BY <1>2, <1>4
      <3>3. Before(bufs, k + 1) \in Nat
        BY <1>1, <2>1, BeforeFacts
      <3> QED
        BY <1>2, <2>2, <3>1, <3>2, <3>3
    <2>4. head \in Slices /\ Addresses(head) \subseteq area
      BY <2>2, <2>3, SliceFacts
    <2>5. /\ rest \in Seq(Slices) /\ Len(rest) = Len(bufs) - (k + 2) + 1
          /\ \A i \in 1 .. (Len(bufs) - (k + 2) + 1) : rest[i] = bufs[(k + 2) + i - 1]
      BY <1>1, <2>1, DropFacts
    <2>6. Advance(bufs, n) = <<head>> \o rest
      BY <1>4 DEF Advance, k
    <2> HIDE DEF head, rest
    <2>7. /\ <<head>> \o rest \in Seq(Slices) /\ Len(<<head>> \o rest) = 1 + Len(rest)
          /\ \A i \in 1 .. (1 + Len(rest)) :
                (<<head>> \o rest)[i] = IF i = 1 THEN head ELSE rest[i - 1]
      BY <2>4, <2>5
    <2>8. ASSUME NEW i \in 1 .. (1 + Len(rest)) PROVE Addresses((<<head>> \o rest)[i]) \subseteq area
      <3>1. CASE i = 1
        BY <2>4, <2>7, <3>1
      <3>2. CASE i # 1
        <4>1. /\ i - 1 \in 1 .. (Len(bufs) - (k + 2) + 1)
              /\ (k + 2) + (i - 1) - 1 \in 1 .. Len(bufs)
          BY <1>2, <2>1, <2>5, <3>2
        <4>2. (<<head>> \o rest)[i] = rest[i - 1]
          BY <2>7, <3>2
        <4>3. rest[i - 1] = bufs[(k + 2) + (i - 1) - 1]
          BY <2>5, <4>1
        <4> QED
          BY <1>1, <4>1, <4>2, <4>3
      <3> QED
        BY <3>1, <3>2
    <2> QED
      BY <2>6, <2>7, <2>8 DEF Within
  <1> QED
    BY <1>3, <1>4

(* And so does what split_at leaves the first writer. *)
LEMMA KeptWithin ==
    ASSUME NEW area, NEW bufs, Within(bufs, area), NEW n \in Nat, n <= Total(bufs)
    PROVE  Within(Kept(bufs, n), area)
  <1> DEFINE k == Whole(bufs, n)
             remain == n - Before(bufs, k + 1)
             front == SubSeq(bufs, 1, k)
  <1>1. bufs \in Seq(Slices) /\ \A i \in 1 .. Len(bufs) : Addresses(bufs[i]) \subseteq area
    BY DEF Within
  <1>2. /\ k \in 0 .. Len(bufs) /\ Before(bufs, k + 1) <= n
        /\ k < Len(bufs) => n < Before(bufs, k + 2)
    BY <1>1, WholeFacts
  <1>3. Kept(bufs, n) = front \o (IF remain > 0 THEN <<Subslice(bufs[k + 1], remain)>> ELSE <<>>)
    BY DEF Kept
  <1> HIDE DEF k
  <1>4. /\ front \in Seq(Slices) /\ Len(front) = k
        /\ \A i \in 1 .. k : front[i] = bufs[i] /\ i \in 1 .. Len(bufs)
    BY <1>1, <1>2
  <1>5. CASE ~(remain > 0)
    <2>1. Kept(bufs, n) = front
      BY <1>3, <1>4, <1>5
    <2> QED
      BY <1>1, <1>4, <2>1 DEF Within
  <1>6. CASE remain > 0
    <2> DEFINE vs == bufs[k + 1]
               tail == Subslice(vs, remain)
    <2>1. k # Len(bufs) /\ Before(bufs, k + 1) \in Nat
      <3>1. Before(bufs, Len(bufs) + 1) = Total(bufs) /\ k + 1 \in 1 .. (Len(bufs) + 1)
        BY <1>1, <1>2, BeforeFacts
      <3>2. Before(bufs, k + 1) \in Nat
        BY <1>1, <3>1, BeforeFacts
      <3> QED
        BY <1>6, <3>1, <3>2
    <2>2. k + 1 \in 1 .. Len(bufs)
      BY <1>1, <1>2, <2>1
    <2>3. vs \in Slices /\ vs.len \in Nat /\ Addresses(vs) \subseteq area
      <3>1. vs \in Slices
        BY <1>1, <2>2
      <3> QED
        BY <1>1, <2>2, <3>1 DEF Slices
    <2>4. remain \in 0 .. vs.len
      <3>1. Before(bufs, (k + 1) + 1) = Before(bufs, k + 1) + vs.len
        BY <1>1, <2>2, BeforeFacts
      <3>2. (k + 1) + 1 = k + 2 /\ n < Before(bufs, k + 2)
        BY <1>2, <2>1
      <3> QED
        BY <1>2, <2>1, <2>3, <3>1, <3>2
    <2>5. tail \in Slices /\ Addresses(tail) \subseteq area
      BY <2>3, <2>4, SliceFacts
    <2>6. Kept(bufs, n) = front \o <<tail>>
      BY <1>3, <1>6
    <2> HIDE DEF front, tail
    <2>7. /\ front \o <<tail>> \in Seq(Slices) /\ Len(front \o <<tail>>) = k + 1
          /\ \A i \in 1 .. (k + 1) :
                (front \o <<tail>>)[i] = IF i <= k THEN front[i] ELSE tail
      BY <1>2, <1>4, <2>5
    <2>8. ASSUME NEW i \in 1 .. (k + 1) PROVE Addresses((front \o <<tail>>)[i]) \subseteq area
      <3>1. CASE i <= k
        BY <1>1, <1>4, <2>7, <3>1
      <3>2. CASE ~(i <= k)
        BY <2>5, <2>7, <3>2
      <3> QED
        BY <3>1, <3>2
    <2> QED
      BY <2>6, <2>7, <2>8 DEF Within
  <1> QED
    BY <1>5, <1>6

-----------------------------------------------------------------------------
(* The copies.                                                             *)

LEMMA PickedWithin ==
    ASSUME NEW area, NEW bufs, Within(bufs, area), NEW n \in Nat
    PROVE  Within(Picked(bufs, n), area)
  <1> DEFINE D == {i \in DOMAIN bufs : Before(bufs, i) < n}
             k == Cardinality(D)
  <1>1. bufs \in Seq(Slices) /\ \A i \in 1 .. Len(bufs) : Addresses(bufs[i]) \subseteq area
    BY DEF Within
  <1>2. D \subseteq 1 .. Len(bufs) /\ Len(bufs) \in Nat
    BY <1>1
  <1>3. IsFiniteSet(1 .. Len(bufs)) /\ Cardinality(1 .. Len(bufs)) = Len(bufs)
    BY <1>2, CountTo
  <1> HIDE DEF D
  <1>4. k \in Nat /\ k <= Len(bufs)
    BY <1>2, <1>3, FS_Subset, FS_CardinalityType
  <1> HIDE DEF k
  <1>5. Picked(bufs, n) = First(bufs, k)
    BY DEF Picked, First, k, D
  <1>6. k \in 0 .. Len(bufs)
    BY <1>2, <1>4
  <1>7. /\ First(bufs, k) \in Seq(Slices) /\ Len(First(bufs, k)) = k
        /\ \A i \in 1 .. k : First(bufs, k)[i] = bufs[i]
    BY <1>1, <1>6, FirstFacts
  <1>8. \A i \in 1 .. k : i \in 1 .. Len(bufs)
    BY <1>6
  <1> QED
    BY <1>1, <1>5, <1>7, <1>8 DEF Within

(* Lengths that a copy into some slices may have. *)
Fits(lens, bufs) ==
    /\ lens \in Seq(Nat) /\ Len(lens) = Len(bufs)
    /\ \A i \in 1 .. Len(bufs) : lens[i] <= bufs[i].len

LEMMA CopyFits ==
    ASSUME NEW bufs \in Seq(Slices), NEW n \in Nat
    PROVE  Fits(CopyLens(bufs, n), bufs) /\ Fits(VectoredLens(bufs, n), bufs)
  <1> DEFINE m == Len(bufs)
             copy == CopyLens(bufs, n)
             vectored == VectoredLens(bufs, n)
  <1>1. DOMAIN bufs = 1 .. m /\ m \in Nat
    OBVIOUS
  <1>2. ASSUME NEW i \in 1 .. m PROVE bufs[i].len \in Nat /\ Before(bufs, i) \in Nat
    <2>1. bufs[i] \in Slices /\ i \in 1 .. (m + 1)
      OBVIOUS
    <2>2. Before(bufs, i) \in Nat
      BY <2>1, BeforeFacts
    <2> QED
      BY <2>1, <2>2 DEF Slices
  <1>3. copy = [i \in 1 .. m |->
                  IF n <= Before(bufs, i) THEN 0
                  ELSE IF n - Before(bufs, i) < bufs[i].len THEN n - Before(bufs, i) ELSE bufs[i].len]
    BY <1>1 DEF CopyLens
  <1>4. ASSUME NEW i \in 1 .. m PROVE copy[i] \in Nat /\ copy[i] <= bufs[i].len
    <2> HIDE DEF copy
    <2> QED
      BY <1>2, <1>3
  <1>5. vectored = [i \in 1 .. m |-> IF \E j \in 1 .. i : copy[j] = 0 THEN 0 ELSE copy[i]]
    BY <1>1 DEF VectoredLens
  <1> HIDE DEF copy, vectored
  <1>6. ASSUME NEW i \in 1 .. m PROVE vectored[i] \in Nat /\ vectored[i] <= bufs[i].len
    <2>1. vectored[i] = IF \E j \in 1 .. i : copy[j] = 0 THEN 0 ELSE copy[i]
      BY <1>5
    <2>2. vectored[i] = 0 \/ vectored[i] = copy[i]
      BY <2>1
    <2> QED
      BY <1>2, <1>4, <2>2
  <1>7. copy \in [1 .. m -> Nat] /\ vectored \in [1 .. m -> Nat]
    <2>1. copy = [i \in 1 .. m |-> copy[i]] /\ vectored = [i \in 1 .. m |-> vectored[i]]
      BY <1>3, <1>5
    <2> QED
      BY <1>4, <1>6, <2>1
  <1>8. copy \in Seq(Nat) /\ Len(copy) = m /\ vectored \in Seq(Nat) /\ Len(vectored) = m
    BY <1>1, <1>7
  <1> QED
    BY <1>4, <1>6, <1>8 DEF Fits, copy, vectored

(* A copy that fits changes no word outside the area of its slices. *)
LEMMA StoredOutside ==
    ASSUME NEW area, NEW bufs, Within(bufs, area), NEW lens, Fits(lens, bufs), NEW data,
           NEW a \in DOMAIN mem, a \notin area
    PROVE  Stored(bufs, lens, data)[a] = mem[a]
  <1> DEFINE hit == {i \in DOMAIN bufs : a \in bufs[i].addr .. (bufs[i].addr + lens[i] - 1)}
  <1>1. hit = {}
    <2> SUFFICES ASSUME NEW i \in hit PROVE FALSE
      OBVIOUS
    <2>1. i \in 1 .. Len(bufs) /\ bufs[i] \in Slices /\ Addresses(bufs[i]) \subseteq area
      BY DEF Within
    <2>2. lens[i] \in Nat /\ lens[i] <= bufs[i].len
      BY <2>1 DEF Fits
    <2>3. lens[i] \in 0 .. bufs[i].len
      BY <2>1, <2>2 DEF Slices
    <2>4. bufs[i].addr .. (bufs[i].addr + lens[i] - 1) \subseteq Addresses(bufs[i])
      BY <2>1, <2>3, SliceFacts
    <2> QED
      BY <2>1, <2>4
  <1> QED
    BY <1>1 DEF Stored

-----------------------------------------------------------------------------
(* How many words are left.                                                *)

LEMMA WordIn ==
    ASSUME NEW lens \in Seq(Nat)
    PROVE  /\ \A x \in WordsIn(lens) : /\ x = <<x[1], x[2]>> /\ x[1] \in 1 .. Len(lens)
                                       /\ x[2] \in 1 .. lens[x[1]]
           /\ \A i \in 1 .. Len(lens) : \A j \in 1 .. lens[i] : <<i, j>> \in WordsIn(lens)
  <1>1. DOMAIN lens = 1 .. Len(lens)
    OBVIOUS
  <1> QED
    BY <1>1 DEF WordsIn

LEMMA SumOne ==
    ASSUME NEW n \in Nat
    PROVE  Sum(<<n>>) = n
  <1> DEFINE words == {1} \X (1 .. n)
  <1>1. WordsIn(<<n>>) = words
    <2>1. DOMAIN <<n>> = {1} /\ <<n>>[1] = n
      OBVIOUS
    <2>2. {{i} \X (1 .. <<n>>[i]) : i \in DOMAIN <<n>>} = {words}
      BY <2>1
    <2> QED
      BY <2>2 DEF WordsIn
  <1>2. IsFiniteSet({1}) /\ Cardinality({1}) = 1
    BY FS_Singleton
  <1>3. IsFiniteSet(1 .. n) /\ Cardinality(1 .. n) = n
    BY CountTo
  <1>4. Cardinality(words) = Cardinality({1}) * Cardinality(1 .. n)
    BY <1>2, <1>3, FS_Product
  <1> QED
    <2>1. Cardinality(words) = n
      BY <1>2, <1>3, <1>4
    <2> HIDE DEF words
    <2> QED
      BY <1>1, <2>1, Zenon DEF Sum

LEMMA SumConcat ==
    ASSUME NEW s \in Seq(Nat), NEW t \in Seq(Nat)
    PROVE  Sum(s \o t) = Sum(s) + Sum(t)
  <1> DEFINE m == Len(s)
             n == Len(t)
             moved == {<<x[1] + m, x[2]>> : x \in WordsIn(t)}
             move == [x \in WordsIn(t) |-> <<x[1] + m, x[2]>>]
  <1>1. /\ s \o t \in Seq(Nat) /\ Len(s \o t) = m + n /\ m \in Nat /\ n \in Nat
        /\ \A i \in 1 .. m : (s \o t)[i] = s[i]
        /\ \A i \in 1 .. n : (s \o t)[i + m] = t[i]
    OBVIOUS
  <1>2. IsFiniteSet(WordsIn(s)) /\ IsFiniteSet(WordsIn(t)) /\ Sum(s) \in Nat /\ Sum(t) \in Nat
    BY WordsFinite
  <1>3. \A x \in WordsIn(t) : x = <<x[1], x[2]>> /\ x[1] \in 1 .. n /\ x[2] \in 1 .. t[x[1]]
    BY WordIn
  <1>4. IsFiniteSet(moved) /\ Cardinality(moved) = Cardinality(WordsIn(t))
    <2>1. \A x, y \in WordsIn(t) : move[x] = move[y] => x = y
      <3> SUFFICES ASSUME NEW x \in WordsIn(t), NEW y \in WordsIn(t), move[x] = move[y]
                   PROVE  x = y
        OBVIOUS
      <3>1. x[1] + m = y[1] + m /\ x[2] = y[2]
        OBVIOUS
      <3>2. x[1] \in Nat /\ y[1] \in Nat
        BY <1>3
      <3>3. x[1] = y[1]
        BY <1>1, <3>1, <3>2
      <3> QED
        BY <1>3, <3>1, <3>3
    <2>2. move \in [WordsIn(t) -> moved] /\ \A y \in moved : \E x \in WordsIn(t) : move[x] = y
      OBVIOUS
    <2> HIDE DEF move, moved
    <2>3. move \in Bijection(WordsIn(t), moved)
      BY <2>1, <2>2, Fun_IsBij
    <2>4. ExistsBijection(WordsIn(t), moved)
      BY <2>3 DEF ExistsBijection
    <2> QED
      BY <1>2, <2>4, FS_Bijection
  <1>5. WordsIn(s \o t) = WordsIn(s) \cup moved
    <2>1. ASSUME NEW x \in WordsIn(s \o t) PROVE x \in WordsIn(s) \cup moved
      <3>1. x = <<x[1], x[2]>> /\ x[1] \in 1 .. (m + n) /\ x[2] \in 1 .. (s \o t)[x[1]]
        BY <1>1, WordIn
      <3>2. CASE x[1] <= m
        <4>1. x[1] \in 1 .. m /\ x[2] \in 1 .. s[x[1]]
          BY <1>1, <3>1, <3>2
        <4> QED
          BY <3>1, <4>1, WordIn
      <3>3. CASE ~(x[1] <= m)
        <4>1. x[1] - m \in 1 .. n /\ (x[1] - m) + m = x[1]
          BY <1>1, <3>1, <3>3
        <4>2. x[2] \in 1 .. t[x[1] - m]
          BY <1>1, <3>1, <4>1
        <4>3. <<x[1] - m, x[2]>> \in WordsIn(t)
          BY <4>1, <4>2, WordIn
        <4>4. x = <<(x[1] - m) + m, x[2]>>
          BY <3>1, <4>1
        <4> QED
          BY <4>3, <4>4
      <3> QED
        BY <3>2, <3>3
    <2>2. ASSUME NEW x \in WordsIn(s) PROVE x \in WordsIn(s \o t)
      <3>1. x = <<x[1], x[2]>> /\ x[1] \in 1 .. m /\ x[2] \in 1 .. s[x[1]]
        BY WordIn
      <3>2. x[1] \in 1 .. (m + n) /\ x[2] \in 1 .. (s \o t)[x[1]]
        BY <1>1, <3>1
      <3> QED
        <4>1. <<x[1], x[2]>> \in WordsIn(s \o t)
          BY <1>1, <3>2, WordIn
        <4> QED
          BY <3>1, <4>1
    <2>3. ASSUME NEW x \in WordsIn(t) PROVE <<x[1] + m, x[2]>> \in WordsIn(s \o t)
      <3>1. x[1] \in 1 .. n /\ x[2] \in 1 .. t[x[1]]
        BY <1>3
      <3>2. x[1] + m \in 1 .. (m + n) /\ x[2] \in 1 .. (s \o t)[x[1] + m]
        BY <1>1, <3>1
      <3> QED
        BY <1>1, <3>2, WordIn
    <2> QED
      BY <2>1, <2>2, <2>3
  <1>6. WordsIn(s) \cap moved = {}
    <2>1. \A x \in WordsIn(s) : x[1] \in 1 .. m
      BY WordIn
    <2>2. \A y \in moved : y[1] \in (m + 1) .. (m + n)
      BY <1>1, <1>3
    <2>3. (1 .. m) \cap ((m + 1) .. (m + n)) = {}
      BY <1>1
    <2> QED
      BY <2>1, <2>2, <2>3
  <1> HIDE DEF moved
  <1>7. Cardinality(WordsIn(s) \cup moved)
          = Cardinality(WordsIn(s)) + Cardinality(moved) - Cardinality(WordsIn(s) \cap moved)
    BY <1>2, <1>4, FS_Union
  <1>8. Cardinality(WordsIn(s) \cap moved) = 0
    BY <1>6, FS_EmptySet
  <1> QED
    BY <1>2, <1>4, <1>5, <1>7, <1>8 DEF Sum

LEMMA LensConcat ==
    ASSUME NEW a \in Seq(Slices), NEW b \in Seq(Slices)
    PROVE  Lens(a \o b) = Lens(a) \o Lens(b) /\ Total(a \o b) = Total(a) + Total(b)
  <1>1. /\ a \o b \in Seq(Slices) /\ Len(a \o b) = Len(a) + Len(b) /\ Len(a) \in Nat /\ Len(b) \in Nat
        /\ \A i \in 1 .. (Len(a) + Len(b)) : (a \o b)[i] = IF i <= Len(a) THEN a[i] ELSE b[i - Len(a)]
    OBVIOUS
  <1>2. /\ Lens(a) \in Seq(Nat) /\ Len(Lens(a)) = Len(a)
        /\ \A i \in 1 .. Len(a) : Lens(a)[i] = a[i].len
    BY LensFacts
  <1>3. /\ Lens(b) \in Seq(Nat) /\ Len(Lens(b)) = Len(b)
        /\ \A i \in 1 .. Len(b) : Lens(b)[i] = b[i].len
    BY LensFacts
  <1>4. /\ Lens(a \o b) \in Seq(Nat) /\ Len(Lens(a \o b)) = Len(a) + Len(b)
        /\ \A i \in 1 .. (Len(a) + Len(b)) : Lens(a \o b)[i] = (a \o b)[i].len
    BY <1>1, LensFacts
  <1> DEFINE la == Lens(a)
             lb == Lens(b)
             lab == Lens(a \o b)
  <1> HIDE DEF la, lb, lab
  <1>5. /\ la \o lb \in Seq(Nat) /\ Len(la \o lb) = Len(a) + Len(b)
        /\ \A i \in 1 .. (Len(a) + Len(b)) : (la \o lb)[i] = IF i <= Len(a) THEN la[i] ELSE lb[i - Len(a)]
    <2>1. la \in Seq(Nat) /\ lb \in Seq(Nat) /\ Len(la) = Len(a) /\ Len(lb) = Len(b)
      BY <1>2, <1>3 DEF la, lb
    <2>2. /\ la \o lb \in Seq(Nat) /\ Len(la \o lb) = Len(la) + Len(lb)
          /\ \A i \in 1 .. Len(la) + Len(lb) :
                (la \o lb)[i] = IF i <= Len(la) THEN la[i] ELSE lb[i - Len(la)]
      BY <2>1, ConcatProperties, Zenon
    <2> QED
      BY <2>1, <2>2, Zenon
  <1>6. ASSUME NEW i \in 1 .. (Len(a) + Len(b)) PROVE lab[i] = (la \o lb)[i]
    <2>1. CASE i <= Len(a)
      <3>1. i \in 1 .. Len(a)
        BY <1>1, <2>1
      <3> QED
        BY <1>1, <1>2, <1>4, <1>5, <2>1, <3>1 DEF la, lab
    <2>2. CASE ~(i <= Len(a))
      <3>1. i - Len(a) \in 1 .. Len(b)
        BY <1>1, <2>2
      <3> QED
        BY <1>1, <1>3, <1>4, <1>5, <2>2, <3>1 DEF lb, lab
    <2> QED
      BY <2>1, <2>2
  <1>7. lab = la \o lb
    <2>1. lab \in Seq(Nat) /\ Len(lab) = Len(a) + Len(b)
      BY <1>4 DEF lab
    <2> QED
      BY <1>5, <1>6, <2>1, SeqEqual
  <1>8. Sum(la \o lb) = Sum(la) + Sum(lb)
    BY <1>2, <1>3, SumConcat DEF la, lb
  <1> QED
    BY <1>7, <1>8 DEF Total, la, lb, lab

LEMMA TotalFacts ==
    /\ Total(<<>>) = 0
    /\ \A bufs \in Seq(Slices) : Total(bufs) \in Nat
    /\ \A vs \in Slices : Total(<<vs>>) = vs.len
  <1>1. Total(<<>>) = 0
    <2>1. Lens(<<>>) = <<>>
      BY DEF Lens
    <2> QED
      BY <2>1, SumNone DEF Total
  <1>2. ASSUME NEW bufs \in Seq(Slices) PROVE Total(bufs) \in Nat
    BY LensFacts, WordsFinite DEF Total
  <1>3. ASSUME NEW vs \in Slices PROVE Total(<<vs>>) = vs.len
    <2>1. vs.len \in Nat
      BY DEF Slices
    <2>2. Lens(<<vs>>) = <<vs.len>>
      BY DEF Lens
    <2> QED
      BY <2>1, <2>2, SumOne DEF Total
  <1> QED
    BY <1>1, <1>2, <1>3

\* The p-th word of some slices lies in the i-th of them.
Holds(bufs, i, p) == Before(bufs, i) < p /\ p <= Before(bufs, i) + bufs[i].len

LEMMA HoldsSome ==
    ASSUME NEW bufs \in Seq(Slices), NEW p \in 1 .. Total(bufs)
    PROVE  Whole(bufs, p - 1) + 1 \in 1 .. Len(bufs) /\ Holds(bufs, Whole(bufs, p - 1) + 1, p)
  <1> DEFINE n == p - 1
             k == Whole(bufs, n)
  <1>1. n \in Nat /\ p \in Nat /\ n < p /\ p <= Total(bufs) /\ Total(bufs) \in Nat /\ n + 1 = p
    BY TotalFacts
  <1>2. /\ k \in 0 .. Len(bufs) /\ Before(bufs, k + 1) <= n
        /\ k < Len(bufs) => n < Before(bufs, k + 2)
    BY <1>1, WholeFacts
  <1> HIDE DEF k, n
  <1>3. k < Len(bufs)
    <2>1. Before(bufs, Len(bufs) + 1) = Total(bufs)
      BY BeforeFacts
    <2> QED
      BY <1>1, <1>2, <2>1
  <1>4. k + 1 \in 1 .. Len(bufs) /\ k + 1 \in 1 .. (Len(bufs) + 1) /\ (k + 1) + 1 = k + 2
    BY <1>2, <1>3
  <1>5. Before(bufs, k + 2) = Before(bufs, k + 1) + bufs[k + 1].len
    BY <1>4, BeforeFacts
  <1>6. Before(bufs, k + 1) \in Nat
    BY <1>4, BeforeFacts
  <1>7. bufs[k + 1].len \in Nat
    <2>1. bufs[k + 1] \in Slices
      BY <1>4
    <2> QED
      BY <2>1 DEF Slices
  <1>8. Holds(bufs, k + 1, p)
    BY <1>1, <1>2, <1>3, <1>5, <1>6, <1>7 DEF Holds
  <1> QED
    BY <1>4, <1>8 DEF k, n

LEMMA HoldsOne ==
    ASSUME NEW bufs \in Seq(Slices), NEW i \in 1 .. Len(bufs), NEW j \in 1 .. Len(bufs), NEW p \in Int,
           Holds(bufs, i, p), Holds(bufs, j, p)
    PROVE  i = j
  <1>1. ASSUME NEW a \in 1 .. Len(bufs), NEW b \in 1 .. Len(bufs), a < b,
               Holds(bufs, a, p), Holds(bufs, b, p)
        PROVE  FALSE
    <2>1. a + 1 \in 1 .. (Len(bufs) + 1) /\ b \in 1 .. (Len(bufs) + 1) /\ a + 1 <= b
      BY <1>1
    <2>2. Before(bufs, a + 1) <= Before(bufs, b) /\ Before(bufs, a + 1) \in Nat /\ Before(bufs, b) \in Nat
      BY <2>1, BeforeFacts
    <2>3. Before(bufs, a + 1) = Before(bufs, a) + bufs[a].len
      BY BeforeFacts
    <2> QED
      BY <1>1, <2>2, <2>3 DEF Holds
  <1>2. ~(i < j) /\ ~(j < i)
    BY <1>1
  <1> QED
    BY <1>2

Least(m, n) == IF m <= n THEN m ELSE n

(* A copy of n words moves n, or all there is. *)
LEMMA CopySum ==
    ASSUME NEW bufs \in Seq(Slices), NEW n \in Nat
    PROVE  Sum(CopyLens(bufs, n)) = Least(n, Total(bufs))
  <1> DEFINE copy == CopyLens(bufs, n)
             last == Least(n, Total(bufs))
             place == [x \in WordsIn(copy) |-> Before(bufs, x[1]) + x[2]]
  <1>1. copy \in Seq(Nat) /\ Len(copy) = Len(bufs)
    BY CopyFits DEF Fits
  <1>2. last \in Nat /\ Total(bufs) \in Nat /\ last <= Total(bufs) /\ last <= n
    BY TotalFacts DEF Least
  <1>3. ASSUME NEW i \in 1 .. Len(bufs) PROVE bufs[i].len \in Nat /\ Before(bufs, i) \in Nat
    <2>1. bufs[i] \in Slices /\ i \in 1 .. (Len(bufs) + 1)
      OBVIOUS
    <2>2. Before(bufs, i) \in Nat
      BY <2>1, BeforeFacts
    <2> QED
      BY <2>1, <2>2 DEF Slices
  <1>4. ASSUME NEW i \in 1 .. Len(bufs), NEW j \in Nat
        PROVE  j \in 1 .. copy[i] <=>
                 Holds(bufs, i, Before(bufs, i) + j) /\ Before(bufs, i) + j <= n
    <2>1. DOMAIN bufs = 1 .. Len(bufs)
      OBVIOUS
    <2>2. copy[i] = IF n <= Before(bufs, i) THEN 0
                    ELSE IF n - Before(bufs, i) < bufs[i].len THEN n - Before(bufs, i) ELSE bufs[i].len
      BY <2>1 DEF CopyLens
    <2> HIDE DEF copy
    <2> QED
      BY <1>3, <2>2 DEF Holds
  <1>5. ASSUME NEW i \in 1 .. Len(bufs) PROVE Before(bufs, i) + bufs[i].len <= Total(bufs)
    <2>1. i + 1 \in 1 .. (Len(bufs) + 1) /\ Len(bufs) + 1 \in 1 .. (Len(bufs) + 1) /\ i + 1 <= Len(bufs) + 1
      OBVIOUS
    <2>2. /\ Before(bufs, i + 1) <= Before(bufs, Len(bufs) + 1)
          /\ Before(bufs, Len(bufs) + 1) = Total(bufs)
          /\ Before(bufs, i + 1) = Before(bufs, i) + bufs[i].len
      BY <2>1, BeforeFacts
    <2> QED
      BY <2>2
  <1> HIDE DEF copy, last
  <1>6. ASSUME NEW x \in WordsIn(copy)
        PROVE  /\ x = <<x[1], x[2]>> /\ x[1] \in 1 .. Len(bufs) /\ x[2] \in Nat
               /\ Holds(bufs, x[1], Before(bufs, x[1]) + x[2]) /\ Before(bufs, x[1]) + x[2] \in 1 .. last
    <2>1. x = <<x[1], x[2]>> /\ x[1] \in 1 .. Len(bufs) /\ x[2] \in 1 .. copy[x[1]] /\ x[2] \in Nat
      BY <1>1, WordIn
    <2>2. Holds(bufs, x[1], Before(bufs, x[1]) + x[2]) /\ Before(bufs, x[1]) + x[2] <= n
      BY <1>4, <2>1
    <2>3. Before(bufs, x[1]) + bufs[x[1]].len <= Total(bufs)
      BY <1>5, <2>1
    <2>4. Before(bufs, x[1]) \in Nat /\ bufs[x[1]].len \in Nat
      BY <1>3, <2>1
    <2> QED
      BY <1>2, <2>1, <2>2, <2>3, <2>4 DEF Holds, last, Least
  <1>7. place \in Bijection(WordsIn(copy), 1 .. last)
    <2>1. \A x \in WordsIn(copy) : place[x] = Before(bufs, x[1]) + x[2]
      OBVIOUS
    <2>2. place \in [WordsIn(copy) -> 1 .. last]
      BY <1>6
    <2> HIDE DEF place
    <2>3. ASSUME NEW x \in WordsIn(copy), NEW y \in WordsIn(copy), place[x] = place[y] PROVE x = y
      <3>1. x[1] = y[1]
        <4>1. Holds(bufs, x[1], place[x]) /\ Holds(bufs, y[1], place[x]) /\ place[x] \in Int
          BY <1>6, <2>1, <2>3
        <4> QED
          BY <1>6, <4>1, HoldsOne
      <3>2. Before(bufs, x[1]) \in Nat /\ x[2] \in Nat /\ y[2] \in Nat
        BY <1>3, <1>6
      <3>3. Before(bufs, x[1]) + x[2] = Before(bufs, x[1]) + y[2]
        BY <2>1, <2>3, <3>1
      <3>4. x[2] = y[2]
        BY <3>2, <3>3
      <3> QED
        BY <1>6, <3>1, <3>4
    <2>4. ASSUME NEW p \in 1 .. last PROVE \E x \in WordsIn(copy) : place[x] = p
      <3> DEFINE i == Whole(bufs, p - 1) + 1
                 j == p - Before(bufs, i)
      <3>1. p \in 1 .. Total(bufs) /\ p <= n
        BY <1>2
      <3>2. i \in 1 .. Len(bufs) /\ Holds(bufs, i, p)
        BY <3>1, HoldsSome
      <3> HIDE DEF i
      <3>3. Before(bufs, i) \in Nat
        BY <1>3, <3>2
      <3>4. j \in Nat /\ Before(bufs, i) + j = p
        BY <3>1, <3>2, <3>3 DEF Holds
      <3>5. j \in 1 .. copy[i]
        BY <1>4, <3>1, <3>2, <3>4
      <3> HIDE DEF j
      <3>6. <<i, j>> \in WordsIn(copy) /\ <<i, j>>[1] = i /\ <<i, j>>[2] = j
        BY <1>1, <3>2, <3>5, WordIn
      <3>7. place[<<i, j>>] = p
        BY <2>1, <3>4, <3>6
      <3> QED
        BY <3>6, <3>7
    <2> QED
      BY <2>2, <2>3, <2>4, Fun_IsBij
  <1>8. IsFiniteSet(WordsIn(copy))
    BY <1>1, WordsFinite
  <1>9. ExistsBijection(WordsIn(copy), 1 .. last)
    BY <1>7 DEF ExistsBijection
  <1>10. Cardinality(1 .. last) = Cardinality(WordsIn(copy))
    BY <1>8, <1>9, FS_Bijection
  <1>11. Cardinality(1 .. last) = last
    BY <1>2, CountTo
  <1> QED
    BY <1>10, <1>11 DEF Sum, copy, last

Consumers == [buffers : Seq(Slices), bytes_consumed : Nat]

LEMMA ConsumedWithin ==
    ASSUME NEW area, NEW c \in Consumers, Within(c.buffers, area), NEW bufs, NEW n \in Nat
    PROVE  Consumed(c, bufs, n) \in Consumers /\ Within(Consumed(c, bufs, n).buffers, area)
  <1>1. CASE bufs = <<>>
    BY <1>1 DEF Consumed
  <1>2. CASE bufs # <<>>
    <2>1. Consumed(c, bufs, n) = [buffers |-> Advance(c.buffers, n),
                                  bytes_consumed |-> c.bytes_consumed + n]
      BY <1>2 DEF Consumed
    <2>2. Within(Advance(c.buffers, n), area)
      BY AdvanceWithin
    <2>3. Advance(c.buffers, n) \in Seq(Slices)
      BY <2>2 DEF Within
    <2>4. c.bytes_consumed + n \in Nat
      BY DEF Consumers
    <2> QED
      BY <2>1, <2>2, <2>3, <2>4 DEF Consumers
  <1> QED
    BY <1>1, <1>2

LEMMA ConsumedTyped ==
    ASSUME NEW c \in Consumers, NEW bufs, NEW n \in Nat
    PROVE  Consumed(c, bufs, n) \in Consumers
  <1> DEFINE area == AreaOf(c.buffers)
  <1>1. c.buffers \in Seq(Slices) /\ DOMAIN c.buffers = 1 .. Len(c.buffers)
    BY DEF Consumers
  <1>2. Within(c.buffers, area)
    BY <1>1 DEF Within, AreaOf
  <1> QED
    BY <1>2, ConsumedWithin

LEMMA TotalSplits ==
    ASSUME NEW bufs \in Seq(Slices), NEW i \in 0 .. Len(bufs)
    PROVE  Total(bufs) = Before(bufs, i + 1) + Total(SubSeq(bufs, i + 1, Len(bufs)))
  <1> DEFINE front == First(bufs, i)
             rest == SubSeq(bufs, i + 1, Len(bufs))
  <1>1. front \in Seq(Slices) /\ Len(front) = i /\ \A j \in 1 .. i : front[j] = bufs[j]
    BY FirstFacts
  <1>2. i + 1 \in 1 .. (Len(bufs) + 1) /\ i \in Nat /\ Len(bufs) \in Nat /\ (i + 1) - 1 = i
    OBVIOUS
  <1>3. /\ rest \in Seq(Slices) /\ Len(rest) = Len(bufs) - (i + 1) + 1
        /\ \A j \in 1 .. (Len(bufs) - (i + 1) + 1) : rest[j] = bufs[(i + 1) + j - 1]
    BY <1>2, DropFacts
  <1> HIDE DEF front, rest
  <1>4. /\ front \o rest \in Seq(Slices) /\ Len(front \o rest) = Len(front) + Len(rest)
        /\ \A j \in 1 .. Len(front) + Len(rest) :
              (front \o rest)[j] = IF j <= Len(front) THEN front[j] ELSE rest[j - Len(front)]
    BY <1>1, <1>3, ConcatProperties
  <1>5. Len(front \o rest) = Len(bufs)
    BY <1>1, <1>2, <1>3, <1>4
  <1>6. ASSUME NEW j \in 1 .. Len(bufs) PROVE bufs[j] = (front \o rest)[j]
    <2>1. (front \o rest)[j] = IF j <= i THEN front[j] ELSE rest[j - i]
      BY <1>1, <1>2, <1>3, <1>4
    <2>2. CASE j <= i
      <3>1. j \in 1 .. i
        BY <1>2, <2>2
      <3> QED
        BY <1>1, <2>1, <2>2, <3>1
    <2>3. CASE ~(j <= i)
      <3>1. j - i \in 1 .. (Len(bufs) - (i + 1) + 1) /\ (i + 1) + (j - i) - 1 = j
        BY <1>2, <2>3
      <3>2. rest[j - i] = bufs[j]
        BY <1>3, <3>1
      <3> QED
        BY <2>1, <2>3, <3>2
    <2> QED
      BY <2>2, <2>3
  <1>7. bufs = front \o rest
    BY <1>4, <1>5, <1>6, SeqEqual
  <1>8. Total(bufs) = Total(front) + Total(rest)
    BY <1>1, <1>3, <1>7, LensConcat
  <1> QED
    BY <1>2, <1>8 DEF Before, First, front, rest

(* Consuming n words leaves n words less, and split_at parts the words in two. *)
LEMMA AdvanceTotal ==
    ASSUME NEW bufs \in Seq(Slices), NEW n \in Nat, n <= Total(bufs)
    PROVE  Total(Advance(bufs, n)) = Total(bufs) - n /\ Total(Kept(bufs, n)) = n
  <1> DEFINE k == Whole(bufs, n)
             from == Before(bufs, k + 1)
             remain == n - from
             front == First(bufs, k)
  <1>1. /\ k \in 0 .. Len(bufs) /\ from <= n
        /\ k < Len(bufs) => n < Before(bufs, k + 2)
    BY WholeFacts
  <1>2. /\ Advance(bufs, n) = IF k = Len(bufs) THEN <<>>
                              ELSE <<Offset(bufs[k + 1], remain)>> \o SubSeq(bufs, k + 2, Len(bufs))
        /\ Kept(bufs, n) = front \o (IF remain > 0 THEN <<Subslice(bufs[k + 1], remain)>> ELSE <<>>)
    BY DEF Advance, Kept, First
  <1> HIDE DEF k
  <1>3. from \in Nat /\ Total(bufs) \in Nat /\ Len(bufs) \in Nat /\ k \in Nat
    <2>1. k + 1 \in 1 .. (Len(bufs) + 1)
      BY <1>1
    <2> QED
      BY <1>1, <2>1, BeforeFacts, TotalFacts
  <1>4. front \in Seq(Slices) /\ Total(front) = from
    <2>1. (k + 1) - 1 = k
      BY <1>3
    <2> QED
      BY <1>1, <2>1, FirstFacts DEF Before, First
  <1>5. CASE k = Len(bufs)
    <2>1. from = Total(bufs)
      BY <1>5, BeforeFacts
    <2>2. n = Total(bufs) /\ remain = 0
      BY <1>1, <1>3, <2>1
    <2>3. Advance(bufs, n) = <<>>
      BY <1>2, <1>5
    <2>4. Kept(bufs, n) = front
      <3>1. ~(remain > 0)
        BY <2>2
      <3>2. Kept(bufs, n) = front \o <<>>
        <4> HIDE DEF remain, front
        <4> QED
          BY <1>2, <3>1
      <3> QED
        BY <1>4, <3>2, ConcatEmptySeq
    <2> QED
      BY <1>3, <1>4, <2>1, <2>2, <2>3, <2>4, TotalFacts
  <1>6. CASE k # Len(bufs)
    <2> DEFINE vs == bufs[k + 1]
               head == Offset(vs, remain)
               tail == Subslice(vs, remain)
               rest == SubSeq(bufs, k + 2, Len(bufs))
    <2>1. k + 1 \in 1 .. Len(bufs) /\ k + 2 \in 1 .. (Len(bufs) + 1) /\ k + 1 \in 0 .. Len(bufs)
          /\ (k + 1) + 1 = k + 2 /\ k < Len(bufs)
      BY <1>1, <1>3, <1>6
    <2>2. vs \in Slices /\ vs.len \in Nat
      <3>1. vs \in Slices
        BY <2>1
      <3> QED
        BY <3>1 DEF Slices
    <2>3. Before(bufs, k + 2) = from + vs.len
      BY <2>1, BeforeFacts
    <2>4. remain \in 0 .. vs.len /\ remain \in Nat
      BY <1>1, <1>3, <2>1, <2>2, <2>3
    <2>5. Total(bufs) = Before(bufs, k + 2) + Total(rest)
      <3>1. Total(bufs) = Before(bufs, (k + 1) + 1) + Total(SubSeq(bufs, (k + 1) + 1, Len(bufs)))
        BY <2>1, TotalSplits
      <3>2. (k + 1) + 1 = k + 2
        BY <2>1
      <3> QED
        BY <3>1, <3>2, Zenon
    <2>6. rest \in Seq(Slices) /\ Total(rest) \in Nat
      BY <2>1, DropFacts, TotalFacts
    <2>7. head \in Slices /\ head.len = vs.len - remain /\ tail \in Slices /\ tail.len = remain
      BY <2>2, <2>4, SliceFacts DEF Offset, Subslice, Slice
    <2> HIDE DEF head, tail, rest, vs
    <2>8. <<head>> \in Seq(Slices) /\ <<tail>> \in Seq(Slices)
      BY <2>7
    <2>9. Total(<<head>>) = head.len /\ Total(<<tail>>) = tail.len
      BY <2>7, TotalFacts
    <2>10. Total(Advance(bufs, n)) = Total(bufs) - n
      <3>1. Advance(bufs, n) = <<head>> \o rest
        BY <1>2, <1>6 DEF head, rest, vs
      <3>2. Total(Advance(bufs, n)) = Total(<<head>>) + Total(rest)
        BY <2>6, <2>8, <3>1, LensConcat
      <3> QED
        BY <1>3, <2>2, <2>3, <2>4, <2>5, <2>6, <2>7, <2>9, <3>2
    <2>11. Total(Kept(bufs, n)) = n
      <3>1. CASE remain > 0
        <4>1. Kept(bufs, n) = front \o <<tail>>
          BY <1>2, <3>1 DEF tail, vs
        <4>2. Total(Kept(bufs, n)) = Total(front) + Total(<<tail>>)
          BY <1>4, <2>8, <4>1, LensConcat
        <4> QED
          BY <1>3, <1>4, <2>4, <2>7, <2>9, <4>2
      <3>2. CASE ~(remain > 0)
        <4>1. Kept(bufs, n) = front \o <<>>
          BY <1>2, <3>2
        <4>2. Kept(bufs, n) = front
          BY <1>4, <4>1, ConcatEmptySeq
        <4> QED
          BY <1>1, <1>3, <1>4, <3>2, <4>2
      <3> QED
        BY <3>1, <3>2
    <2> QED
      BY <2>10, <2>11
  <1> QED
    BY <1>5, <1>6

(* The slices consume picks are the first ones, and hold n words or all there are. *)
LEMMA PickedFacts ==
    ASSUME NEW bufs \in Seq(Slices), NEW n \in Nat
    PROVE  /\ Picked(bufs, n) \in Seq(Slices) /\ Total(Picked(bufs, n)) \in Nat
           /\ Total(Picked(bufs, n)) <= Total(bufs)
           /\ Least(n, Total(Picked(bufs, n))) = Least(n, Total(bufs))
           /\ Picked(bufs, n) = First(bufs, Len(Picked(bufs, n)))
           /\ Len(Picked(bufs, n)) \in 0 .. Len(bufs)
           /\ Picked(bufs, n) = <<>> => n = 0 \/ Total(bufs) = 0
  <1> DEFINE D == {i \in DOMAIN bufs : Before(bufs, i) < n}
             k == Cardinality(D)
  <1>1. DOMAIN bufs = 1 .. Len(bufs) /\ Len(bufs) \in Nat /\ D \in SUBSET (1 .. Len(bufs))
        /\ Total(bufs) \in Nat
    BY TotalFacts
  <1>2. ASSUME NEW i \in D, NEW j \in 1 .. i PROVE j \in D
    <2>1. j \in 1 .. Len(bufs) /\ j \in 1 .. (Len(bufs) + 1) /\ i \in 1 .. (Len(bufs) + 1) /\ j <= i
      BY <1>1
    <2>2. Before(bufs, j) <= Before(bufs, i) /\ Before(bufs, i) < n
          /\ Before(bufs, j) \in Nat /\ Before(bufs, i) \in Nat
      BY <2>1, BeforeFacts
    <2> QED
      BY <1>1, <2>1, <2>2
  <1>3. k \in 0 .. Len(bufs) /\ D = 1 .. k
    BY <1>1, <1>2, CountOfPrefix
  <1>4. Picked(bufs, n) = First(bufs, k)
    BY DEF Picked, First
  <1> HIDE DEF k
  <1>5. First(bufs, k) \in Seq(Slices) /\ Len(First(bufs, k)) = k
    BY <1>3, FirstFacts
  <1>6. Total(First(bufs, k)) = Before(bufs, k + 1) /\ k + 1 \in 1 .. (Len(bufs) + 1)
    <2>1. (k + 1) - 1 = k /\ k + 1 \in 1 .. (Len(bufs) + 1)
      BY <1>1, <1>3
    <2> QED
      BY <2>1 DEF Before, First
  <1>7. Before(bufs, k + 1) \in Nat /\ Before(bufs, k + 1) <= Total(bufs)
    <2>1. Len(bufs) + 1 \in 1 .. (Len(bufs) + 1) /\ k + 1 <= Len(bufs) + 1
      BY <1>1, <1>3
    <2> QED
      BY <1>6, <2>1, BeforeFacts
  <1>8. k = Len(bufs) => Before(bufs, k + 1) = Total(bufs)
    BY BeforeFacts
  <1>9. k # Len(bufs) => n <= Before(bufs, k + 1)
    <2>1. ASSUME k # Len(bufs) PROVE n <= Before(bufs, k + 1)
      <3>1. k + 1 \in 1 .. Len(bufs) /\ k + 1 \notin 1 .. k
        <4>1. k \in 0 .. Len(bufs) /\ k # Len(bufs) /\ Len(bufs) \in Nat
          BY <1>1, <1>3, <2>1
        <4> QED
          BY <4>1
      <3>2. ~(Before(bufs, k + 1) < n)
        BY <1>1, <1>3, <3>1
      <3> QED
        BY <1>7, <3>2
    <2> QED
      BY <2>1
  <1>10. Least(n, Before(bufs, k + 1)) = Least(n, Total(bufs))
    BY <1>1, <1>7, <1>8, <1>9 DEF Least
  <1>11. First(bufs, k) = <<>> => n = 0 \/ Total(bufs) = 0
    <2>1. ASSUME First(bufs, k) = <<>> PROVE n = 0 \/ Total(bufs) = 0
      <3>1. k = 0
        BY <1>5, <2>1
      <3>2. Before(bufs, 1) = 0 /\ k + 1 = 1
        BY <3>1, BeforeFacts
      <3> QED
        BY <1>1, <1>8, <1>9, <3>2
    <2> QED
      BY <2>1
  <1> QED
    BY <1>3, <1>4, <1>5, <1>6, <1>7, <1>10, <1>11

(* read and write: n words leave the chain, or all there are. *)
LEMMA CopyMoves ==
    ASSUME NEW c \in Consumers, NEW n \in Nat
    PROVE  LET bufs == Picked(c.buffers, n)
               moved == Sum(CopyLens(bufs, n))
           IN  /\ moved = Least(n, Total(c.buffers))
               /\ Consumed(c, bufs, moved) \in Consumers
               /\ Total(Consumed(c, bufs, moved).buffers) = Total(c.buffers) - moved
  <1> DEFINE bufs == Picked(c.buffers, n)
             moved == Sum(CopyLens(bufs, n))
  <1>1. c.buffers \in Seq(Slices) /\ Total(c.buffers) \in Nat /\ c.bytes_consumed \in Nat
    BY TotalFacts DEF Consumers
  <1>2. /\ bufs \in Seq(Slices) /\ Least(n, Total(bufs)) = Least(n, Total(c.buffers))
        /\ bufs = <<>> => n = 0 \/ Total(c.buffers) = 0
    BY <1>1, PickedFacts
  <1> HIDE DEF bufs
  <1>3. moved = Least(n, Total(c.buffers))
    BY <1>2, CopySum
  <1> HIDE DEF moved
  <1>4. moved \in Nat /\ moved <= Total(c.buffers)
    BY <1>1, <1>3 DEF Least
  <1>5. CASE bufs = <<>>
    <2>1. moved = 0
      BY <1>1, <1>2, <1>3, <1>5 DEF Least
    <2>2. Consumed(c, bufs, moved) = c
      BY <1>5 DEF Consumed
    <2> QED
      BY <1>1, <1>3, <2>1, <2>2 DEF bufs, moved
  <1>6. CASE bufs # <<>>
    <2>1. Consumed(c, bufs, moved) = [buffers |-> Advance(c.buffers, moved),
                                      bytes_consumed |-> c.bytes_consumed + moved]
      BY <1>6 DEF Consumed
    <2>2. Total(Advance(c.buffers, moved)) = Total(c.buffers) - moved
      BY <1>1, <1>4, AdvanceTotal
    <2>3. Consumed(c, bufs, moved) \in Consumers
      BY <1>1, <1>4, ConsumedTyped
    <2> QED
      BY <1>3, <2>1, <2>2, <2>3 DEF bufs, moved
  <1> QED
    BY <1>5, <1>6

-----------------------------------------------------------------------------
(* Which words are left.                                                   *)

LEMMA SliceAt ==
    ASSUME NEW bufs \in Seq(Slices), NEW i \in 1 .. Len(bufs)
    PROVE  bufs[i] \in Slices /\ bufs[i].addr \in Nat /\ bufs[i].len \in Nat
  <1>1. bufs[i] \in Slices
    OBVIOUS
  <1> QED
    BY <1>1 DEF Slices

(* The j-th word of the i-th slice. *)
LEMMA CellAt ==
    ASSUME NEW bufs \in Seq(Slices), NEW i \in 1 .. Len(bufs), NEW j \in 1 .. bufs[i].len
    PROVE  /\ Before(bufs, i) + j \in 1 .. Total(bufs)
           /\ Cells(bufs)[Before(bufs, i) + j] = bufs[i].addr + (j - 1)
  <1> DEFINE p == Before(bufs, i) + j
             h == Whole(bufs, p - 1) + 1
  <1>1. bufs[i].addr \in Nat /\ bufs[i].len \in Nat /\ Len(bufs) \in Nat
    BY SliceAt
  <1>2. i \in 1 .. (Len(bufs) + 1) /\ i + 1 \in 1 .. (Len(bufs) + 1) /\ i + 1 <= Len(bufs) + 1
        /\ Len(bufs) + 1 \in 1 .. (Len(bufs) + 1)
    BY <1>1
  <1>3. /\ Before(bufs, i) \in Nat /\ Before(bufs, i + 1) = Before(bufs, i) + bufs[i].len
        /\ Before(bufs, i + 1) <= Total(bufs) /\ Total(bufs) \in Nat
    <2>1. Before(bufs, i + 1) <= Before(bufs, Len(bufs) + 1) /\ Before(bufs, Len(bufs) + 1) = Total(bufs)
      BY <1>2, BeforeFacts
    <2>2. Before(bufs, i) \in Nat /\ Before(bufs, i + 1) = Before(bufs, i) + bufs[i].len
      BY <1>2, BeforeFacts
    <2> QED
      BY <2>1, <2>2, TotalFacts
  <1>4. p \in 1 .. Total(bufs) /\ Holds(bufs, i, p) /\ p \in Int
    BY <1>1, <1>3 DEF Holds
  <1>5. h \in 1 .. Len(bufs) /\ Holds(bufs, h, p)
    BY <1>4, HoldsSome
  <1>6. Cells(bufs)[p] = bufs[h].addr + (p - 1 - Before(bufs, h))
    BY <1>4 DEF Cells
  <1> HIDE DEF h
  <1>7. h = i
    BY <1>4, <1>5, HoldsOne
  <1>8. p - 1 - Before(bufs, i) = j - 1
    BY <1>1, <1>3
  <1> QED
    BY <1>4, <1>6, <1>7, <1>8

(* Every position is one of those. *)
LEMMA PositionIn ==
    ASSUME NEW bufs \in Seq(Slices), NEW p \in 1 .. Total(bufs)
    PROVE  \E i \in 1 .. Len(bufs) : \E j \in 1 .. bufs[i].len : p = Before(bufs, i) + j
  <1> DEFINE i == Whole(bufs, p - 1) + 1
             j == p - Before(bufs, i)
  <1>1. i \in 1 .. Len(bufs) /\ Holds(bufs, i, p)
    BY HoldsSome
  <1> HIDE DEF i
  <1>2. bufs[i].len \in Nat /\ Before(bufs, i) \in Nat /\ p \in Nat
    <2>1. i \in 1 .. (Len(bufs) + 1) /\ p \in Nat
      BY <1>1, TotalFacts
    <2> QED
      BY <1>1, <2>1, SliceAt, BeforeFacts
  <1>3. j \in 1 .. bufs[i].len /\ p = Before(bufs, i) + j
    BY <1>1, <1>2 DEF Holds
  <1> QED
    BY <1>1, <1>3

LEMMA BeforeConcat ==
    ASSUME NEW a \in Seq(Slices), NEW b \in Seq(Slices)
    PROVE  /\ \A i \in 1 .. Len(a) : Before(a \o b, i) = Before(a, i) /\ (a \o b)[i] = a[i]
           /\ \A i \in 1 .. Len(b) : /\ Before(a \o b, Len(a) + i) = Total(a) + Before(b, i)
                                     /\ (a \o b)[Len(a) + i] = b[i]
  <1>0. Len(a) \in Nat /\ Len(b) \in Nat
    OBVIOUS
  <1>1. /\ a \o b \in Seq(Slices) /\ Len(a \o b) = Len(a) + Len(b)
        /\ \A i \in 1 .. Len(a) + Len(b) : (a \o b)[i] = IF i <= Len(a) THEN a[i] ELSE b[i - Len(a)]
    BY ConcatProperties
  <1>2. ASSUME NEW i \in 1 .. Len(a) PROVE Before(a \o b, i) = Before(a, i) /\ (a \o b)[i] = a[i]
    <2>1. i - 1 \in 0 .. Len(a) /\ i - 1 \in 0 .. Len(a \o b) /\ i \in 1 .. (Len(a) + Len(b)) /\ i <= Len(a)
      BY <1>0, <1>1
    <2>2. /\ First(a, i - 1) \in Seq(Slices) /\ Len(First(a, i - 1)) = i - 1
          /\ \A k \in 1 .. (i - 1) : First(a, i - 1)[k] = a[k]
      BY <2>1, FirstFacts
    <2>3. /\ First(a \o b, i - 1) \in Seq(Slices) /\ Len(First(a \o b, i - 1)) = i - 1
          /\ \A k \in 1 .. (i - 1) : First(a \o b, i - 1)[k] = (a \o b)[k]
      BY <1>1, <2>1, FirstFacts
    <2>4. ASSUME NEW k \in 1 .. (i - 1) PROVE (a \o b)[k] = a[k]
      <3>1. k \in 1 .. Len(a) + Len(b) /\ k <= Len(a)
        BY <1>0, <2>1
      <3> QED
        BY <1>1, <3>1
    <2>5. First(a \o b, i - 1) = First(a, i - 1)
      BY <2>2, <2>3, <2>4, SeqEqual
    <2> QED
      BY <1>1, <2>1, <2>5 DEF Before, First
  <1>3. ASSUME NEW i \in 1 .. Len(b)
        PROVE  Before(a \o b, Len(a) + i) = Total(a) + Before(b, i) /\ (a \o b)[Len(a) + i] = b[i]
    <2> DEFINE m == Len(a) + i
               front == First(b, i - 1)
    <2>1. /\ m - 1 \in 0 .. Len(a \o b) /\ i - 1 \in 0 .. Len(b) /\ m \in 1 .. Len(a) + Len(b)
          /\ ~(m <= Len(a)) /\ m - Len(a) = i /\ m - 1 = Len(a) + (i - 1)
      BY <1>0, <1>1
    <2>2. front \in Seq(Slices) /\ Len(front) = i - 1 /\ \A k \in 1 .. (i - 1) : front[k] = b[k]
      BY <2>1, FirstFacts
    <2> HIDE DEF front
    <2>3. /\ First(a \o b, m - 1) \in Seq(Slices) /\ Len(First(a \o b, m - 1)) = m - 1
          /\ \A k \in 1 .. (m - 1) : First(a \o b, m - 1)[k] = (a \o b)[k]
      BY <1>1, <2>1, FirstFacts
    <2>4. /\ a \o front \in Seq(Slices) /\ Len(a \o front) = Len(a) + Len(front)
          /\ \A k \in 1 .. Len(a) + Len(front) :
                (a \o front)[k] = IF k <= Len(a) THEN a[k] ELSE front[k - Len(a)]
      BY <2>2, ConcatProperties
    <2>5. ASSUME NEW k \in 1 .. (m - 1) PROVE First(a \o b, m - 1)[k] = (a \o front)[k]
      <3>1. k \in 1 .. Len(a) + Len(b) /\ k \in 1 .. Len(a) + Len(front) /\ k \in Nat
        BY <1>0, <2>1, <2>2
      <3>2. CASE k <= Len(a)
        BY <1>1, <2>3, <2>4, <3>1, <3>2
      <3>3. CASE ~(k <= Len(a))
        <4>1. k - Len(a) \in 1 .. (i - 1)
          BY <1>0, <2>1, <3>1, <3>3
        <4> QED
          BY <1>1, <2>2, <2>3, <2>4, <3>1, <3>3, <4>1
      <3> QED
        BY <3>2, <3>3
    <2>6. First(a \o b, m - 1) = a \o front
      BY <2>1, <2>2, <2>3, <2>4, <2>5, SeqEqual
    <2>7. Total(a \o front) = Total(a) + Total(front)
      BY <2>2, LensConcat
    <2>8. Before(a \o b, m) = Total(a) + Before(b, i)
      BY <2>6, <2>7 DEF Before, First, front
    <2> QED
      BY <1>1, <2>1, <2>8
  <1> QED
    BY <1>2, <1>3

LEMMA CellsConcat ==
    ASSUME NEW a \in Seq(Slices), NEW b \in Seq(Slices)
    PROVE  /\ \A p \in 1 .. Total(a) : Cells(a \o b)[p] = Cells(a)[p]
           /\ \A p \in 1 .. Total(b) : Cells(a \o b)[Total(a) + p] = Cells(b)[p]
  <1> DEFINE all == a \o b
  <1>1. all \in Seq(Slices) /\ Len(all) = Len(a) + Len(b) /\ Len(a) \in Nat /\ Len(b) \in Nat
    OBVIOUS
  <1>2. ASSUME NEW p \in 1 .. Total(a) PROVE Cells(all)[p] = Cells(a)[p]
    <2>1. PICK i \in 1 .. Len(a) : \E j \in 1 .. a[i].len : p = Before(a, i) + j
      BY PositionIn
    <2>2. PICK j \in 1 .. a[i].len : p = Before(a, i) + j
      BY <2>1
    <2>3. Before(all, i) = Before(a, i) /\ all[i] = a[i] /\ i \in 1 .. Len(all)
      BY <1>1, BeforeConcat
    <2> HIDE DEF all
    <2>4. Cells(all)[Before(all, i) + j] = all[i].addr + (j - 1)
      BY <1>1, <2>3, CellAt
    <2>5. Cells(a)[Before(a, i) + j] = a[i].addr + (j - 1)
      BY CellAt
    <2> QED
      BY <2>2, <2>3, <2>4, <2>5
  <1>3. ASSUME NEW p \in 1 .. Total(b) PROVE Cells(all)[Total(a) + p] = Cells(b)[p]
    <2>1. PICK i \in 1 .. Len(b) : \E j \in 1 .. b[i].len : p = Before(b, i) + j
      BY PositionIn
    <2>2. PICK j \in 1 .. b[i].len : p = Before(b, i) + j
      BY <2>1
    <2> DEFINE m == Len(a) + i
    <2>3. Before(all, m) = Total(a) + Before(b, i) /\ all[m] = b[i] /\ m \in 1 .. Len(all)
      BY <1>1, BeforeConcat
    <2> HIDE DEF all, m
    <2>4. Cells(all)[Before(all, m) + j] = all[m].addr + (j - 1)
      BY <1>1, <2>3, CellAt
    <2>5. Cells(b)[Before(b, i) + j] = b[i].addr + (j - 1)
      BY CellAt
    <2>6. Before(all, m) + j = Total(a) + p
      <3>1. Total(a) \in Nat /\ Before(b, i) \in Nat
        <4>1. i \in 1 .. (Len(b) + 1)
          BY <1>1
        <4> QED
          BY <4>1, TotalFacts, BeforeFacts
      <3>2. j \in Nat
        BY SliceAt
      <3> QED
        BY <2>2, <2>3, <3>1, <3>2
    <2> QED
      BY <2>2, <2>3, <2>4, <2>5, <2>6
  <1> QED
    BY <1>2, <1>3

LEMMA CellsOne ==
    ASSUME NEW vs \in Slices, NEW p \in 1 .. vs.len
    PROVE  Cells(<<vs>>)[p] = vs.addr + (p - 1)
  <1> DEFINE bufs == <<vs>>
  <1>1. bufs \in Seq(Slices) /\ Len(bufs) = 1 /\ 1 \in 1 .. Len(bufs) /\ bufs[1] = vs
    OBVIOUS
  <1> HIDE DEF bufs
  <1>2. Before(bufs, 1) = 0 /\ Cells(bufs)[Before(bufs, 1) + p] = vs.addr + (p - 1)
    BY <1>1, CellAt, BeforeFacts
  <1>3. 0 + p = p
    BY DEF Slices
  <1> QED
    BY <1>2, <1>3 DEF bufs

LEMMA CutAt ==
    ASSUME NEW bufs \in Seq(Slices), NEW i \in 0 .. Len(bufs)
    PROVE  /\ bufs = First(bufs, i) \o SubSeq(bufs, i + 1, Len(bufs))
           /\ First(bufs, i) \in Seq(Slices) /\ SubSeq(bufs, i + 1, Len(bufs)) \in Seq(Slices)
           /\ i < Len(bufs) => SubSeq(bufs, i + 1, Len(bufs))
                                 = <<bufs[i + 1]>> \o SubSeq(bufs, i + 2, Len(bufs))
  <1>1. Len(bufs) \in Nat /\ 1 \in 1 .. (Len(bufs) + 1) /\ i \in (1 - 1) .. Len(bufs)
        /\ Len(bufs) \in i .. Len(bufs)
    OBVIOUS
  <1>2. SubSeq(bufs, 1, i) \o SubSeq(bufs, i + 1, Len(bufs)) = SubSeq(bufs, 1, Len(bufs))
    BY <1>1, ConcatAdjacentSubSeq
  <1>3. SubSeq(bufs, 1, Len(bufs)) = bufs
    BY SubSeqFull
  <1>4. First(bufs, i) \in Seq(Slices) /\ SubSeq(bufs, i + 1, Len(bufs)) \in Seq(Slices)
    <2>1. i + 1 \in 1 .. (Len(bufs) + 1)
      BY <1>1
    <2> QED
      BY <2>1, FirstFacts, DropFacts
  <1>5. ASSUME i < Len(bufs)
        PROVE  SubSeq(bufs, i + 1, Len(bufs)) = <<bufs[i + 1]>> \o SubSeq(bufs, i + 2, Len(bufs))
    <2>1. i + 1 \in 1 .. Len(bufs) /\ Len(bufs) \in (i + 1) .. Len(bufs) /\ (i + 1) + 1 = i + 2
      BY <1>1, <1>5
    <2>2. SubSeq(bufs, i + 1, Len(bufs)) = <<bufs[i + 1]>> \o SubSeq(bufs, (i + 1) + 1, Len(bufs))
      BY <2>1, SubSeqRecursiveFirst
    <2> QED
      BY <2>1, <2>2
  <1> QED
    BY <1>2, <1>3, <1>4, <1>5 DEF First

(* Consuming n words leaves the cells behind the first n; split_at keeps the first n. *)
LEMMA SplitCells ==
    ASSUME NEW bufs \in Seq(Slices), NEW n \in Nat, n <= Total(bufs)
    PROVE  /\ \A p \in 1 .. n : Cells(Kept(bufs, n))[p] = Cells(bufs)[p]
           /\ \A p \in 1 .. (Total(bufs) - n) : Cells(Advance(bufs, n))[p] = Cells(bufs)[n + p]
  <1> DEFINE k == Whole(bufs, n)
             from == Before(bufs, k + 1)
             remain == n - from
             front == First(bufs, k)
  <1>1. /\ k \in 0 .. Len(bufs) /\ from <= n
        /\ k < Len(bufs) => n < Before(bufs, k + 2)
    BY WholeFacts
  <1>2. /\ Advance(bufs, n) = IF k = Len(bufs) THEN <<>>
                              ELSE <<Offset(bufs[k + 1], remain)>> \o SubSeq(bufs, k + 2, Len(bufs))
        /\ Kept(bufs, n) = front \o (IF remain > 0 THEN <<Subslice(bufs[k + 1], remain)>> ELSE <<>>)
    BY DEF Advance, Kept, First
  <1> HIDE DEF k
  <1>3. k + 1 \in 1 .. (Len(bufs) + 1) /\ Total(bufs) \in Nat /\ from \in Nat /\ Len(bufs) \in Nat
        /\ (k + 1) - 1 = k
    <2>1. k + 1 \in 1 .. (Len(bufs) + 1) /\ Len(bufs) \in Nat /\ (k + 1) - 1 = k
      BY <1>1
    <2> QED
      BY <2>1, BeforeFacts, TotalFacts
  <1>4. front \in Seq(Slices) /\ Total(front) = from
    BY <1>1, <1>3, CutAt DEF Before, First
  <1> HIDE DEF front, from
  <1>5. CASE k = Len(bufs)
    <2>1. from = Total(bufs)
      BY <1>5, BeforeFacts DEF from
    <2>2. n = Total(bufs) /\ remain = 0
      BY <1>1, <1>3, <2>1
    <2>3. front = bufs
      BY <1>5, SubSeqFull DEF front, First
    <2>4. Kept(bufs, n) = bufs
      <3>1. Kept(bufs, n) = bufs \o <<>>
        BY <1>2, <2>2, <2>3
      <3> QED
        BY <3>1, ConcatEmptySeq
    <2>5. \A p \in 1 .. (Total(bufs) - n) : FALSE
      BY <1>3, <2>2
    <2> QED
      BY <2>4, <2>5
  <1>6. CASE k # Len(bufs)
    <2> DEFINE vs == bufs[k + 1]
               head == Offset(vs, remain)
               tail == Subslice(vs, remain)
               rest == SubSeq(bufs, k + 2, Len(bufs))
               one == <<vs>>
               left == <<head>>
               cut == <<tail>>
               back == one \o rest
    <2>1. k + 1 \in 1 .. Len(bufs) /\ k + 2 \in 1 .. (Len(bufs) + 1) /\ (k + 1) + 1 = k + 2 /\ k < Len(bufs)
      BY <1>1, <1>3, <1>6
    <2>2. vs \in Slices /\ vs.len \in Nat /\ vs.addr \in Nat
      BY <2>1, SliceAt
    <2>3. Before(bufs, k + 2) = from + vs.len
      BY <2>1, BeforeFacts DEF from
    <2>4. remain \in 0 .. vs.len /\ remain \in Nat /\ n = from + remain
      BY <1>1, <1>3, <2>1, <2>2, <2>3
    <2>5. rest \in Seq(Slices) /\ Total(rest) \in Nat
      BY <2>1, DropFacts, TotalFacts
    <2>6. /\ head \in Slices /\ head.len = vs.len - remain /\ head.addr = vs.addr + remain
          /\ tail \in Slices /\ tail.len = remain /\ tail.addr = vs.addr
      BY <2>2, <2>4, SliceFacts DEF Offset, Subslice, Slice
    <2>7. bufs = front \o back
      BY <1>1, <2>1, CutAt DEF front
    <2>8. Advance(bufs, n) = left \o rest
      BY <1>2, <1>6
    <2>9. remain > 0 => Kept(bufs, n) = front \o cut
      BY <1>2
    <2> HIDE DEF vs, head, tail, rest, remain
    <2>10. /\ one \in Seq(Slices) /\ left \in Seq(Slices) /\ cut \in Seq(Slices)
           /\ Total(one) = vs.len /\ Total(left) = head.len /\ Total(cut) = remain
      BY <2>2, <2>6, TotalFacts
    <2>cells. /\ \A p \in 1 .. vs.len : Cells(one)[p] = vs.addr + (p - 1)
              /\ \A p \in 1 .. head.len : Cells(left)[p] = head.addr + (p - 1)
              /\ \A p \in 1 .. tail.len : Cells(cut)[p] = tail.addr + (p - 1)
      BY <2>2, <2>6, CellsOne
    <2> HIDE DEF one, left, cut
    <2>11. back \in Seq(Slices) /\ Total(back) = vs.len + Total(rest)
      <3>1. Total(one \o rest) = Total(one) + Total(rest)
        BY <2>5, <2>10, LensConcat
      <3> QED
        BY <2>5, <2>10, <3>1
    <2>12. \A p \in 1 .. vs.len : Cells(back)[p] = vs.addr + (p - 1)
      <3>1. \A p \in 1 .. Total(one) : Cells(one \o rest)[p] = Cells(one)[p]
        BY <2>5, <2>10, CellsConcat
      <3> QED
        BY <2>cells, <2>10, <3>1
    <2>13. \A p \in 1 .. Total(rest) : Cells(back)[vs.len + p] = Cells(rest)[p]
      BY <2>5, <2>10, CellsConcat
    <2> HIDE DEF back
    <2>14. Total(bufs) = from + vs.len + Total(rest)
      <3>1. Total(bufs) = from + Total(back)
        BY <1>4, <2>7, <2>11, LensConcat
      <3> QED
        BY <1>3, <2>2, <2>5, <2>11, <3>1
    <2>15. /\ \A p \in 1 .. from : Cells(bufs)[p] = Cells(front)[p]
           /\ \A p \in 1 .. Total(back) : Cells(bufs)[from + p] = Cells(back)[p]
      <3>1. /\ \A p \in 1 .. Total(front) : Cells(front \o back)[p] = Cells(front)[p]
            /\ \A p \in 1 .. Total(back) : Cells(front \o back)[Total(front) + p] = Cells(back)[p]
        BY <1>4, <2>11, CellsConcat
      <3> QED
        BY <1>4, <2>7, <3>1
    <2>16. ASSUME NEW p \in 1 .. (Total(bufs) - n)
           PROVE  Cells(Advance(bufs, n))[p] = Cells(bufs)[n + p]
      <3>1. p \in Nat /\ p >= 1 /\ p <= vs.len + Total(rest) - remain
        BY <1>3, <2>2, <2>4, <2>5, <2>14
      <3>2. Cells(bufs)[n + p] = Cells(back)[remain + p]
        <4>1. remain + p \in 1 .. Total(back) /\ n + p = from + (remain + p)
          BY <1>3, <2>2, <2>4, <2>5, <2>11, <3>1
        <4> QED
          BY <2>15, <4>1
      <3>3. CASE p <= head.len
        <4>1. p \in 1 .. head.len /\ remain + p \in 1 .. vs.len
          BY <2>2, <2>4, <2>6, <3>1, <3>3
        <4>2. Cells(Advance(bufs, n))[p] = Cells(left)[p]
          BY <2>5, <2>8, <2>10, <4>1, CellsConcat
        <4>3. Cells(left)[p] = head.addr + (p - 1)
          BY <2>cells, <4>1
        <4>4. Cells(back)[remain + p] = vs.addr + ((remain + p) - 1)
          BY <2>12, <4>1
        <4> QED
          BY <2>2, <2>4, <2>6, <3>1, <3>2, <4>2, <4>3, <4>4
      <3>4. CASE ~(p <= head.len)
        <4> DEFINE q == p - head.len
        <4>1. q \in 1 .. Total(rest) /\ p = head.len + q /\ remain + p = vs.len + q
          BY <2>2, <2>4, <2>5, <2>6, <3>1, <3>4
        <4> HIDE DEF q
        <4>2. Cells(Advance(bufs, n))[p] = Cells(rest)[q]
          BY <2>5, <2>8, <2>10, <4>1, CellsConcat
        <4>3. Cells(back)[remain + p] = Cells(rest)[q]
          BY <2>13, <4>1
        <4> QED
          BY <3>2, <4>2, <4>3
      <3> QED
        BY <3>3, <3>4
    <2>17. ASSUME NEW p \in 1 .. n PROVE Cells(Kept(bufs, n))[p] = Cells(bufs)[p]
      <3>1. CASE remain > 0
        <4>1. CASE p <= from
          <5>1. p \in 1 .. from
            BY <1>3, <4>1
          <5>2. Cells(front \o cut)[p] = Cells(front)[p]
            BY <1>4, <2>10, <5>1, CellsConcat
          <5> QED
            BY <2>9, <2>15, <3>1, <5>1, <5>2
        <4>2. CASE ~(p <= from)
          <5> DEFINE q == p - from
          <5>1. q \in 1 .. remain /\ p = from + q /\ q \in 1 .. vs.len /\ q \in 1 .. Total(back)
                /\ q \in 1 .. tail.len
            BY <1>3, <2>2, <2>4, <2>5, <2>6, <2>11, <4>2
          <5> HIDE DEF q
          <5>2. Cells(front \o cut)[from + q] = Cells(cut)[q]
            BY <1>4, <2>10, <5>1, CellsConcat
          <5>3. Cells(cut)[q] = tail.addr + (q - 1)
            BY <2>cells, <5>1
          <5>4. Cells(bufs)[from + q] = vs.addr + (q - 1)
            BY <2>12, <2>15, <5>1
          <5> QED
            BY <2>6, <2>9, <3>1, <5>1, <5>2, <5>3, <5>4
        <4> QED
          BY <4>1, <4>2
      <3>2. CASE ~(remain > 0)
        <4>1. remain = 0 /\ n = from
          BY <1>3, <2>4, <3>2
        <4>2. Kept(bufs, n) = front
          <5>1. Kept(bufs, n) = front \o <<>>
            BY <1>2, <3>2 DEF remain
          <5> QED
            BY <1>4, <5>1, ConcatEmptySeq
        <4> QED
          BY <2>15, <4>1, <4>2
      <3> QED
        BY <3>1, <3>2
    <2> QED
      BY <2>16, <2>17
  <1> QED
    BY <1>5, <1>6

LEMMA PickedCells ==
    ASSUME NEW bufs \in Seq(Slices), NEW n \in Nat
    PROVE  \A p \in 1 .. Total(Picked(bufs, n)) : Cells(Picked(bufs, n))[p] = Cells(bufs)[p]
  <1> DEFINE k == Len(Picked(bufs, n))
             rest == SubSeq(bufs, k + 1, Len(bufs))
  <1>1. Picked(bufs, n) = First(bufs, k) /\ k \in 0 .. Len(bufs)
    BY PickedFacts
  <1> HIDE DEF k
  <1>2. bufs = First(bufs, k) \o rest /\ First(bufs, k) \in Seq(Slices) /\ rest \in Seq(Slices)
    BY <1>1, CutAt
  <1> HIDE DEF rest
  <1>3. \A p \in 1 .. Total(First(bufs, k)) : Cells(First(bufs, k) \o rest)[p] = Cells(First(bufs, k))[p]
    BY <1>2, CellsConcat
  <1> QED
    BY <1>1, <1>2, <1>3

(* A consumer of bufs that is where its count says. *)
PlacedIn(c, bufs) ==
    /\ Total(c.buffers) + c.bytes_consumed = Total(bufs)
    /\ \A p \in 1 .. Total(c.buffers) : Cells(c.buffers)[p] = Cells(bufs)[c.bytes_consumed + p]

LEMMA ConsumedPlaced ==
    ASSUME NEW c \in Consumers, NEW bufs, PlacedIn(c, bufs), NEW picked, NEW n \in Nat,
           n <= Total(c.buffers), picked = <<>> => n = 0
    PROVE  /\ Consumed(c, picked, n) \in Consumers /\ PlacedIn(Consumed(c, picked, n), bufs)
           /\ Consumed(c, picked, n).bytes_consumed = c.bytes_consumed + n
           /\ Total(Consumed(c, picked, n).buffers) = Total(c.buffers) - n
  <1> DEFINE d == Consumed(c, picked, n)
             old == c.buffers
             new == Advance(old, n)
  <1>1. old \in Seq(Slices) /\ c.bytes_consumed \in Nat /\ Total(old) \in Nat
    BY TotalFacts DEF Consumers
  <1>2. d \in Consumers
    BY ConsumedTyped
  <1>3. CASE picked = <<>>
    <2>1. d = c /\ n = 0
      BY <1>3 DEF Consumed
    <2> QED
      BY <1>1, <2>1
  <1>4. CASE picked # <<>>
    <2>1. d.buffers = new /\ d.bytes_consumed = c.bytes_consumed + n
      BY <1>4 DEF Consumed
    <2>2. Total(new) = Total(old) - n
      BY <1>1, AdvanceTotal
    <2>3. \A p \in 1 .. (Total(old) - n) : Cells(new)[p] = Cells(old)[n + p]
      BY <1>1, SplitCells
    <2> HIDE DEF new, old, d
    <2>4. ASSUME NEW p \in 1 .. Total(new) PROVE Cells(new)[p] = Cells(bufs)[(c.bytes_consumed + n) + p]
      <3>1. p \in 1 .. (Total(old) - n) /\ n + p \in 1 .. Total(old)
            /\ c.bytes_consumed + (n + p) = (c.bytes_consumed + n) + p
        BY <1>1, <2>2
      <3>2. Cells(old)[n + p] = Cells(bufs)[c.bytes_consumed + (n + p)]
        BY <3>1 DEF PlacedIn, old
      <3> QED
        BY <2>3, <3>1, <3>2
    <2>5. Total(new) + (c.bytes_consumed + n) = Total(bufs)
      <3>1. Total(old) + c.bytes_consumed = Total(bufs)
        BY DEF PlacedIn, old
      <3> QED
        BY <1>1, <2>2, <3>1
    <2>6. PlacedIn(d, bufs)
      BY <2>1, <2>4, <2>5 DEF PlacedIn
    <2> QED
      BY <1>2, <2>1, <2>2, <2>6 DEF d, old
  <1> QED
    BY <1>3, <1>4

LEMMA StartsPlaced ==
    ASSUME NEW bufs \in Seq(Slices)
    PROVE  PlacedIn(Consumer(bufs), bufs)
  <1>1. Consumer(bufs).buffers = bufs /\ Consumer(bufs).bytes_consumed = 0 /\ Total(bufs) \in Nat
    BY TotalFacts DEF Consumer
  <1> QED
    BY <1>1 DEF PlacedIn

(* Whole slices are loaded as they are. *)
LEMMA LoadedWhole ==
    ASSUME NEW bufs \in Seq(Slices)
    PROVE  Loaded(bufs, Lens(bufs)) = Contents(bufs)
  <1>1. \A i \in 1 .. Len(bufs) : Subslice(bufs[i], Lens(bufs)[i]) = bufs[i]
    <2>1. ASSUME NEW i \in 1 .. Len(bufs) PROVE Subslice(bufs[i], Lens(bufs)[i]) = bufs[i]
      <3>1. Lens(bufs)[i] = bufs[i].len /\ bufs[i] \in Slices
        BY LensFacts, SliceAt
      <3> QED
        BY <3>1 DEF Subslice, Slice, Slices
    <2> QED
      BY <2>1
  <1>2. DOMAIN bufs = 1 .. Len(bufs) /\ bufs = [i \in 1 .. Len(bufs) |-> bufs[i]]
    OBVIOUS
  <1>3. [i \in DOMAIN bufs |-> Subslice(bufs[i], Lens(bufs)[i])] = bufs
    BY <1>1, <1>2
  <1> QED
    BY <1>3 DEF Loaded

LEMMA ContentsFacts ==
    ASSUME NEW bufs \in Seq(Slices)
    PROVE  /\ Total(bufs) \in Nat /\ Len(Contents(bufs)) = Total(bufs)
           /\ Contents(bufs) \in Seq({mem[Cells(bufs)[p]] : p \in 1 .. Total(bufs)})
           /\ \A p \in 1 .. Total(bufs) : Contents(bufs)[p] = mem[Cells(bufs)[p]]
  <1> DEFINE n == Total(bufs)
             cells == Cells(bufs)
             S == {mem[cells[p]] : p \in 1 .. n}
  <1>1. n \in Nat /\ DOMAIN cells = 1 .. n
    BY TotalFacts DEF Cells
  <1>2. Contents(bufs) = [p \in DOMAIN cells |-> mem[cells[p]]]
    BY DEF Contents
  <1> HIDE DEF n, cells
  <1>3. Contents(bufs) = [p \in 1 .. n |-> mem[cells[p]]]
    BY <1>1, <1>2
  <1>4. Contents(bufs) \in [1 .. n -> S]
    BY <1>3
  <1>5. Contents(bufs) \in Seq(S) /\ Len(Contents(bufs)) = n
    <2>1. \A T : \A f \in [1 .. n -> T] : f \in Seq(T) /\ Len(f) = n
      BY <1>1
    <2> HIDE DEF S
    <2> QED
      BY <1>4, <2>1
  <1> QED
    BY <1>1, <1>3, <1>5 DEF n, cells

-----------------------------------------------------------------------------
(* What a copy moves.                                                      *)

\* A copy that goes on to a slice only when it has filled those before.
InOrder(lens, bufs) ==
    \A i \in 1 .. Len(bufs) : lens[i] > 0 => Sum(First(lens, i - 1)) = Before(bufs, i)

LEMMA CopyInOrder ==
    ASSUME NEW bufs \in Seq(Slices), NEW n \in Nat
    PROVE  InOrder(CopyLens(bufs, n), bufs) /\ InOrder(VectoredLens(bufs, n), bufs)
  <1> DEFINE copy == CopyLens(bufs, n)
             vectored == VectoredLens(bufs, n)
  <1>1. Len(bufs) \in Nat /\ DOMAIN bufs = 1 .. Len(bufs)
    OBVIOUS
  <1>2. /\ copy \in Seq(Nat) /\ Len(copy) = Len(bufs)
        /\ vectored \in Seq(Nat) /\ Len(vectored) = Len(bufs)
    BY CopyFits DEF Fits
  <1>3. \A i \in 1 .. Len(bufs) :
           copy[i] = IF n <= Before(bufs, i) THEN 0
                     ELSE IF n - Before(bufs, i) < bufs[i].len THEN n - Before(bufs, i) ELSE bufs[i].len
    BY <1>1 DEF CopyLens
  <1>4. \A i \in 1 .. Len(bufs) :
           vectored[i] = IF \E j \in 1 .. i : copy[j] = 0 THEN 0 ELSE copy[i]
    BY <1>1 DEF VectoredLens
  <1> HIDE DEF copy, vectored
  <1>5. ASSUME NEW i \in 1 .. Len(bufs), copy[i] > 0, NEW j \in 1 .. (i - 1)
        PROVE  copy[j] = bufs[j].len
    <2>1. /\ j \in 1 .. Len(bufs) /\ j + 1 \in 1 .. (Len(bufs) + 1) /\ i \in 1 .. (Len(bufs) + 1)
          /\ j \in 1 .. (Len(bufs) + 1) /\ j + 1 <= i
      BY <1>1
    <2>2. /\ Before(bufs, i) \in Nat /\ Before(bufs, j) \in Nat /\ Before(bufs, j + 1) \in Nat
          /\ Before(bufs, j + 1) = Before(bufs, j) + bufs[j].len /\ Before(bufs, j + 1) <= Before(bufs, i)
      BY <2>1, BeforeFacts
    <2>3. ~(n <= Before(bufs, i))
      BY <1>3, <1>5
    <2>4. bufs[j].len \in Nat
      BY <2>1, SliceAt
    <2>5. copy[j] = IF n <= Before(bufs, j) THEN 0
                    ELSE IF n - Before(bufs, j) < bufs[j].len THEN n - Before(bufs, j) ELSE bufs[j].len
      BY <1>3, <2>1
    <2> QED
      BY <2>2, <2>3, <2>4, <2>5
  <1>6. ASSUME NEW lens \in Seq(Nat), Len(lens) = Len(bufs), NEW i \in 1 .. Len(bufs),
               \A j \in 1 .. (i - 1) : lens[j] = bufs[j].len
        PROVE  Sum(First(lens, i - 1)) = Before(bufs, i)
    <2>1. i - 1 \in 0 .. Len(lens) /\ i \in 1 .. (Len(bufs) + 1)
      BY <1>1, <1>6
    <2>2. Lens(bufs) \in Seq(Nat) /\ i - 1 \in 0 .. Len(Lens(bufs))
          /\ \A j \in 1 .. Len(bufs) : Lens(bufs)[j] = bufs[j].len
      BY <1>6, <2>1, LensFacts
    <2> DEFINE a == First(lens, i - 1)
               b == First(Lens(bufs), i - 1)
    <2>3. a \in Seq(Nat) /\ Len(a) = i - 1 /\ \A j \in 1 .. (i - 1) : a[j] = lens[j]
      BY <2>1, FirstFacts
    <2>4. b \in Seq(Nat) /\ Len(b) = i - 1 /\ \A j \in 1 .. (i - 1) : b[j] = Lens(bufs)[j]
      BY <2>2, FirstFacts
    <2>5. \A j \in 1 .. (i - 1) : j \in 1 .. Len(bufs)
      BY <1>1
    <2> HIDE DEF a, b
    <2>6. a = b
      BY <1>6, <2>2, <2>3, <2>4, <2>5, SeqEqual
    <2>7. Before(bufs, i) = Sum(First(Lens(bufs), i - 1))
      BY <2>1, BeforeIsSum
    <2> QED
      BY <2>6, <2>7 DEF a, b
  <1>7. InOrder(copy, bufs)
    BY <1>2, <1>5, <1>6 DEF InOrder
  <1>8. ASSUME NEW i \in 1 .. Len(bufs), vectored[i] > 0
        PROVE  Sum(First(vectored, i - 1)) = Before(bufs, i)
    <2>1. ~(\E j \in 1 .. i : copy[j] = 0) /\ vectored[i] = copy[i]
      BY <1>4, <1>8
    <2>2. ASSUME NEW j \in 1 .. (i - 1) PROVE vectored[j] = bufs[j].len
      <3>1. j \in 1 .. Len(bufs) /\ 1 .. j \subseteq 1 .. i
        BY <1>1
      <3>2. vectored[j] = copy[j]
        BY <1>4, <2>1, <3>1
      <3> QED
        BY <1>5, <1>8, <2>1, <3>2
    <2> QED
      BY <1>2, <1>6, <2>2
  <1>9. InOrder(vectored, bufs)
    BY <1>8 DEF InOrder
  <1> QED
    BY <1>7, <1>9 DEF copy, vectored

\* The parts of the slices that a copy moves.
Parts(bufs, lens) == [i \in DOMAIN bufs |-> Subslice(bufs[i], lens[i])]

LEMMA PartsFacts ==
    ASSUME NEW bufs \in Seq(Slices), NEW lens, Fits(lens, bufs)
    PROVE  /\ Parts(bufs, lens) \in Seq(Slices) /\ Len(Parts(bufs, lens)) = Len(bufs)
           /\ Total(Parts(bufs, lens)) = Sum(lens) /\ Sum(lens) \in Nat
           /\ \A i \in 1 .. Len(bufs) : /\ Parts(bufs, lens)[i].addr = bufs[i].addr
                                        /\ Parts(bufs, lens)[i].len = lens[i] /\ lens[i] <= bufs[i].len
                                        /\ Before(Parts(bufs, lens), i) = Sum(First(lens, i - 1))
  <1> DEFINE parts == Parts(bufs, lens)
  <1>1. DOMAIN bufs = 1 .. Len(bufs) /\ Len(bufs) \in Nat
    OBVIOUS
  <1>2. lens \in Seq(Nat) /\ Len(lens) = Len(bufs) /\ \A i \in 1 .. Len(bufs) : lens[i] <= bufs[i].len
    BY DEF Fits
  <1>3. ASSUME NEW i \in 1 .. Len(bufs)
        PROVE  /\ Subslice(bufs[i], lens[i]) \in Slices
               /\ Subslice(bufs[i], lens[i]).addr = bufs[i].addr /\ Subslice(bufs[i], lens[i]).len = lens[i]
    <2>1. lens[i] \in 0 .. bufs[i].len /\ bufs[i] \in Slices
      <3>1. lens[i] \in Nat /\ lens[i] <= bufs[i].len
        BY <1>2
      <3> QED
        BY <3>1, SliceAt
    <2> QED
      BY <2>1, SliceFacts DEF Subslice, Slice
  <1>4. parts = [i \in 1 .. Len(bufs) |-> Subslice(bufs[i], lens[i])]
    BY <1>1 DEF Parts
  <1> HIDE DEF parts
  <1>5. parts \in [1 .. Len(bufs) -> Slices]
    BY <1>3, <1>4
  <1>6. parts \in Seq(Slices) /\ Len(parts) = Len(bufs)
    BY <1>1, <1>5
  <1>7. \A i \in 1 .. Len(bufs) : parts[i].addr = bufs[i].addr /\ parts[i].len = lens[i]
    BY <1>3, <1>4
  <1>8. Lens(parts) = lens
    <2>1. /\ Lens(parts) \in Seq(Nat) /\ Len(Lens(parts)) = Len(bufs)
          /\ \A i \in 1 .. Len(bufs) : Lens(parts)[i] = parts[i].len
      BY <1>6, LensFacts
    <2> QED
      BY <1>2, <1>7, <2>1, SeqEqual
  <1>9. ASSUME NEW i \in 1 .. Len(bufs) PROVE Before(parts, i) = Sum(First(lens, i - 1))
    <2>1. i \in 1 .. (Len(parts) + 1)
      BY <1>1, <1>6
    <2> QED
      BY <1>6, <1>8, <2>1, BeforeIsSum
  <1>10. Total(parts) = Sum(lens) /\ Sum(lens) \in Nat
    BY <1>2, <1>8, WordsFinite DEF Total
  <1> QED
    BY <1>2, <1>6, <1>7, <1>9, <1>10 DEF parts

LEMMA PartsCells ==
    ASSUME NEW bufs \in Seq(Slices), NEW lens, Fits(lens, bufs), InOrder(lens, bufs),
           NEW q \in 1 .. Sum(lens)
    PROVE  q \in 1 .. Total(bufs) /\ Cells(Parts(bufs, lens))[q] = Cells(bufs)[q]
  <1> DEFINE parts == Parts(bufs, lens)
  <1>1. /\ parts \in Seq(Slices) /\ Len(parts) = Len(bufs) /\ Total(parts) = Sum(lens)
        /\ \A i \in 1 .. Len(bufs) : /\ parts[i].addr = bufs[i].addr /\ parts[i].len = lens[i]
                                     /\ lens[i] <= bufs[i].len
                                     /\ Before(parts, i) = Sum(First(lens, i - 1))
    BY PartsFacts
  <1> HIDE DEF parts
  <1>2. PICK i \in 1 .. Len(bufs) : \E j \in 1 .. parts[i].len : q = Before(parts, i) + j
    BY <1>1, PositionIn
  <1>3. PICK j \in 1 .. parts[i].len : q = Before(parts, i) + j
    BY <1>2
  <1>4. parts[i].len \in Nat /\ bufs[i].len \in Nat
    BY <1>1, SliceAt
  <1>5. lens[i] > 0 /\ j \in 1 .. bufs[i].len
    BY <1>1, <1>4
  <1>6. Before(parts, i) = Before(bufs, i)
    BY <1>1, <1>5 DEF InOrder
  <1>7. Cells(parts)[Before(parts, i) + j] = parts[i].addr + (j - 1)
    BY <1>1, CellAt
  <1>8. /\ Before(bufs, i) + j \in 1 .. Total(bufs)
        /\ Cells(bufs)[Before(bufs, i) + j] = bufs[i].addr + (j - 1)
    BY <1>5, CellAt
  <1> QED
    BY <1>1, <1>3, <1>6, <1>7, <1>8 DEF parts

\* Slices no two positions of which are the same cell.
Distinct(bufs) ==
    \A p, q \in 1 .. Total(bufs) : Cells(bufs)[p] = Cells(bufs)[q] => p = q

\* Slices that are the part of others that starts behind a position.
PartOf(bufs, all, at) ==
    \A p \in 1 .. Total(bufs) : at + p \in 1 .. Total(all) /\ Cells(bufs)[p] = Cells(all)[at + p]

\* The word at position k once the first m words of data are put behind a position.
Laidover(data, at, m, k, word) == IF k - at \in 1 .. m THEN data[k - at] ELSE word

\* A copy of these lengths into a part of an area.
Copies(lens, bufs, all, at) ==
    /\ all \in Seq(Slices) /\ Distinct(all) /\ bufs \in Seq(Slices) /\ at \in Nat
    /\ PartOf(bufs, all, at) /\ Fits(lens, bufs) /\ InOrder(lens, bufs)

(* A copy overwrites the positions it says, in the order of the data, and no others. *)
LEMMA StoredAt ==
    ASSUME NEW all, NEW bufs, NEW at, NEW lens, Copies(lens, bufs, all, at), NEW data,
           NEW k \in 1 .. Total(all), Cells(all)[k] \in DOMAIN mem
    PROVE  Stored(bufs, lens, data)[Cells(all)[k]] =
             Laidover(data, at, Sum(lens), k, mem[Cells(all)[k]])
  <1> DEFINE a == Cells(all)[k]
             hit == {i \in DOMAIN bufs : a \in bufs[i].addr .. (bufs[i].addr + lens[i] - 1)}
             pos(i) == Sum(SubSeq(lens, 1, i - 1)) + a - bufs[i].addr + 1
  <1>0. /\ all \in Seq(Slices) /\ Distinct(all) /\ bufs \in Seq(Slices) /\ at \in Nat
        /\ PartOf(bufs, all, at) /\ Fits(lens, bufs) /\ InOrder(lens, bufs)
    BY DEF Copies
  <1>1. Stored(bufs, lens, data)[a] = IF hit = {} THEN mem[a] ELSE data[pos(CHOOSE i \in hit : TRUE)]
    BY DEF Stored
  <1>2. lens \in Seq(Nat) /\ Len(lens) = Len(bufs) /\ \A i \in 1 .. Len(bufs) : lens[i] <= bufs[i].len
    BY <1>0 DEF Fits
  <1>3. DOMAIN bufs = 1 .. Len(bufs) /\ Len(bufs) \in Nat /\ Total(all) \in Nat /\ k \in Nat
    BY <1>0, TotalFacts
  <1> HIDE DEF a
  <1>4. ASSUME NEW i \in hit PROVE k - at \in 1 .. Sum(lens) /\ pos(i) = k - at
    <2> DEFINE j == a - bufs[i].addr + 1
    <2>1. i \in 1 .. Len(bufs) /\ a \in bufs[i].addr .. (bufs[i].addr + lens[i] - 1)
      BY <1>3
    <2>2. bufs[i].addr \in Nat /\ bufs[i].len \in Nat /\ lens[i] \in Nat /\ lens[i] <= bufs[i].len
      BY <1>0, <1>2, <2>1, SliceAt
    <2>3. j \in 1 .. lens[i] /\ j \in 1 .. bufs[i].len /\ a = bufs[i].addr + (j - 1) /\ lens[i] > 0 /\ j \in Nat
      <3>1. \A b, l, m \in Nat : \A c \in b .. (b + l - 1) : l <= m =>
              c - b + 1 \in 1 .. l /\ c - b + 1 \in 1 .. m /\ c = b + ((c - b + 1) - 1) /\ l > 0 /\ c - b + 1 \in Nat
        OBVIOUS
      <3> HIDE DEF hit, pos
      <3> QED
        BY <2>1, <2>2, <3>1
    <2> HIDE DEF j
    <2>4. /\ Before(bufs, i) + j \in 1 .. Total(bufs)
          /\ Cells(bufs)[Before(bufs, i) + j] = a
      BY <1>0, <2>1, <2>3, CellAt
    <2>5. /\ at + (Before(bufs, i) + j) \in 1 .. Total(all)
          /\ Cells(all)[at + (Before(bufs, i) + j)] = a
      BY <1>0, <2>4 DEF PartOf
    <2>6. k = at + (Before(bufs, i) + j)
      BY <1>0, <2>5 DEF Distinct, a
    <2>7. Sum(First(lens, i - 1)) = Before(bufs, i)
      BY <1>0, <2>1, <2>3 DEF InOrder
    <2>8. Before(bufs, i) \in Nat
      <3>1. i \in 1 .. (Len(bufs) + 1)
        BY <1>3, <2>1
      <3> QED
        BY <1>0, <3>1, BeforeFacts
    <2>9. Before(bufs, i) + lens[i] <= Sum(lens) /\ Sum(lens) \in Nat
      <3>1. i \in 1 .. Len(lens) /\ i \in 0 .. Len(lens) /\ Len(lens) \in 0 .. Len(lens) /\ i <= Len(lens)
        BY <1>2, <1>3, <2>1
      <3>2. Sum(First(lens, i)) = Sum(First(lens, i - 1)) + lens[i]
        BY <1>2, <3>1, SumFirst
      <3>3. Sum(First(lens, i)) <= Sum(First(lens, Len(lens)))
        BY <1>2, <3>1, SumGrows
      <3>4. First(lens, Len(lens)) = lens
        BY <1>2, SubSeqFull DEF First
      <3>5. Sum(lens) \in Nat
        BY <1>2, WordsFinite
      <3> QED
        BY <2>7, <3>2, <3>3, <3>4, <3>5
    <2>10. k - at = Before(bufs, i) + j
      BY <1>0, <1>3, <2>3, <2>6, <2>8
    <2>11. k - at \in 1 .. Sum(lens)
      BY <2>2, <2>3, <2>8, <2>9, <2>10
    <2>12. pos(i) = Before(bufs, i) + a - bufs[i].addr + 1
      BY <2>7 DEF First
    <2>13. pos(i) = Before(bufs, i) + j
      BY <2>2, <2>3, <2>8, <2>12
    <2> QED
      BY <2>10, <2>11, <2>13
  <1>5. ASSUME k - at \in 1 .. Sum(lens) PROVE hit # {}
    <2> DEFINE q == k - at
               parts == Parts(bufs, lens)
    <2>1. /\ parts \in Seq(Slices) /\ Len(parts) = Len(bufs) /\ Total(parts) = Sum(lens)
          /\ \A i \in 1 .. Len(bufs) : parts[i].addr = bufs[i].addr /\ parts[i].len = lens[i]
      BY <1>0, PartsFacts
    <2>2. q \in 1 .. Total(bufs) /\ Cells(parts)[q] = Cells(bufs)[q]
      BY <1>0, <1>5, PartsCells
    <2> HIDE DEF parts
    <2>3. PICK i \in 1 .. Len(bufs) : \E j \in 1 .. parts[i].len : q = Before(parts, i) + j
      BY <1>5, <2>1, PositionIn
    <2>4. PICK j \in 1 .. parts[i].len : q = Before(parts, i) + j
      BY <2>3
    <2>5. Cells(parts)[q] = bufs[i].addr + (j - 1)
      BY <2>1, <2>4, CellAt
    <2>6. Cells(bufs)[q] = a
      <3>1. at + q = k
        BY <1>0, <1>3
      <3>2. Cells(bufs)[q] = Cells(all)[at + q]
        BY <1>0, <2>2 DEF PartOf
      <3> QED
        BY <3>1, <3>2 DEF a
    <2>7. bufs[i].addr \in Nat /\ lens[i] \in Nat /\ j \in 1 .. lens[i]
      BY <1>0, <1>2, <2>1, SliceAt
    <2>8. a \in bufs[i].addr .. (bufs[i].addr + lens[i] - 1)
      <3>1. a = bufs[i].addr + (j - 1)
        BY <2>2, <2>5, <2>6
      <3>2. \A b, l \in Nat : \A c \in 1 .. l : b + (c - 1) \in b .. (b + l - 1)
        OBVIOUS
      <3> QED
        BY <2>7, <3>1, <3>2
    <2> QED
      BY <1>3, <2>8
  <1> HIDE DEF hit, pos
  <1>6. CASE k - at \in 1 .. Sum(lens)
    <2>1. (CHOOSE i \in hit : TRUE) \in hit
      BY <1>5, <1>6
    <2> QED
      BY <1>1, <1>4, <1>5, <1>6, <2>1 DEF a, Laidover
  <1>7. CASE ~(k - at \in 1 .. Sum(lens))
    <2>1. hit = {}
      BY <1>4, <1>7
    <2> QED
      BY <1>1, <1>7, <2>1 DEF a, Laidover
  <1> QED
    BY <1>6, <1>7

-----------------------------------------------------------------------------
(* The invariant: whatever was consumed and wherever the reply was split,   *)
(* a writer holds slices of the area the guest made writable.               *)

InsideInv ==
    \A w \in DOMAIN writers :
        writers[w] \in Consumers /\ Within(writers[w].buffers, AreaOf(chain.writable))

LEMMA LaidSlices ==
    ASSUME NEW lens \in Seq(Nat), NEW addr \in Nat
    PROVE  Laid(lens, addr) \in Seq(Slices) /\ Len(Laid(lens, addr)) \in Nat
           /\ Total(Laid(lens, addr)) \in Nat
  <1> DEFINE n == Len(lens)
             vs(i) == Slice(addr + Sum(SubSeq(lens, 1, i - 1)) + i - 1, lens[i])
  <1>1. DOMAIN lens = 1 .. n /\ n \in Nat
    OBVIOUS
  <1>2. ASSUME NEW i \in 1 .. n PROVE vs(i) \in Slices
    <2>1. i - 1 \in 0 .. n /\ i \in Nat /\ i >= 1 /\ lens[i] \in Nat
      OBVIOUS
    <2>2. First(lens, i - 1) \in Seq(Nat)
      BY <2>1, FirstFacts
    <2>3. Sum(SubSeq(lens, 1, i - 1)) \in Nat
      BY <2>2, WordsFinite DEF First
    <2>4. addr + Sum(SubSeq(lens, 1, i - 1)) + i - 1 \in Nat
      BY <2>1, <2>3
    <2> QED
      BY <2>1, <2>4 DEF Slice, Slices
  <1>3. Laid(lens, addr) = [i \in 1 .. n |-> vs(i)]
    BY <1>1 DEF Laid
  <1> HIDE DEF vs
  <1>4. Laid(lens, addr) \in [1 .. n -> Slices]
    BY <1>2, <1>3
  <1>5. Laid(lens, addr) \in Seq(Slices)
    BY <1>1, <1>4
  <1>6. Lens(Laid(lens, addr)) \in Seq(Nat)
    BY <1>5, LensFacts
  <1> QED
    BY <1>5, <1>6, WordsFinite DEF Total

(* The slices of a chain lie one behind the other: no two positions share a cell. *)
LEMMA LaidCells ==
    ASSUME NEW lens \in Seq(Nat), NEW addr \in Nat
    PROVE  /\ Distinct(Laid(lens, addr)) /\ Lens(Laid(lens, addr)) = lens
           /\ \A p \in 1 .. Total(Laid(lens, addr)) :
                Cells(Laid(lens, addr))[p]
                  \in addr .. (addr + Total(Laid(lens, addr)) + Len(Laid(lens, addr)) - 2)
  <1> DEFINE bufs == Laid(lens, addr)
             n == Len(lens)
             start(i) == addr + Sum(SubSeq(lens, 1, i - 1)) + i - 1
  <1>1. DOMAIN lens = 1 .. n /\ n \in Nat
    OBVIOUS
  <1>2. bufs = [i \in 1 .. n |-> Slice(start(i), lens[i])]
    BY <1>1 DEF Laid
  <1>3. bufs \in Seq(Slices) /\ Total(bufs) \in Nat
    BY LaidSlices
  <1>4. DOMAIN bufs = 1 .. n
    <2> HIDE DEF start
    <2> QED
      BY <1>2
  <1>5. Len(bufs) = n
    <2> HIDE DEF bufs
    <2> QED
      BY <1>1, <1>3, <1>4
  <1>6. \A i \in 1 .. n : bufs[i].addr = start(i) /\ bufs[i].len = lens[i]
    <2> HIDE DEF start
    <2> QED
      BY <1>2 DEF Slice
  <1> HIDE DEF bufs
  <1>7. Lens(bufs) = lens
    <2>1. Lens(bufs) \in Seq(Nat) /\ Len(Lens(bufs)) = n /\ \A i \in 1 .. n : Lens(bufs)[i] = bufs[i].len
      BY <1>3, <1>5, LensFacts
    <2> HIDE DEF start
    <2>2. \A i \in 1 .. n : Lens(bufs)[i] = lens[i]
      BY <1>6, <2>1
    <2> QED
      BY <2>1, <2>2, SeqEqual
  <1>8. ASSUME NEW i \in 1 .. n PROVE bufs[i].addr = addr + Before(bufs, i) + i - 1
    <2>1. i \in 1 .. (Len(bufs) + 1)
      BY <1>1, <1>5
    <2>2. Before(bufs, i) = Sum(First(lens, i - 1))
      BY <1>3, <1>7, <2>1, BeforeIsSum
    <2> QED
      BY <1>6, <2>2 DEF First
  <1> HIDE DEF start
  <1>9. /\ \A i \in 1 .. (n + 1) : Before(bufs, i) \in Nat
        /\ \A i \in 1 .. n : Before(bufs, i + 1) = Before(bufs, i) + bufs[i].len
        /\ \A i, j \in 1 .. (n + 1) : i <= j => Before(bufs, i) <= Before(bufs, j)
    BY <1>3, <1>5, BeforeFacts
  <1>10. ASSUME NEW p \in 1 .. Total(bufs)
         PROVE  \E i \in 1 .. n : /\ Cells(bufs)[p] = addr + p + i - 2
                                  /\ Before(bufs, i) < p /\ p <= Before(bufs, i + 1)
    <2>1. PICK i \in 1 .. Len(bufs) : \E j \in 1 .. bufs[i].len : p = Before(bufs, i) + j
      BY <1>3, PositionIn
    <2>2. PICK j \in 1 .. bufs[i].len : p = Before(bufs, i) + j
      BY <2>1
    <2>3. Cells(bufs)[p] = bufs[i].addr + (j - 1)
      BY <1>3, <2>2, CellAt
    <2>4. i \in 1 .. n /\ i \in Int /\ bufs[i].len \in Nat /\ Before(bufs, i) \in Nat
      <3>1. i \in 1 .. n /\ i \in 1 .. (n + 1)
        BY <1>1, <1>5
      <3> QED
        BY <1>3, <1>9, <3>1, SliceAt
    <2>5. Before(bufs, i + 1) = Before(bufs, i) + bufs[i].len /\ bufs[i].addr = addr + Before(bufs, i) + i - 1
      BY <1>8, <1>9, <2>4
    <2>6. \A b, l \in Nat : \A c \in 1 .. l :
             b < b + c /\ b + c <= b + l
      OBVIOUS
    <2>7. Cells(bufs)[p] = addr + p + i - 2
      <3>1. Cells(bufs)[p] = (addr + Before(bufs, i) + i - 1) + (j - 1)
        BY <2>3, <2>5
      <3>2. (addr + Before(bufs, i) + i - 1) + (j - 1) = addr + (Before(bufs, i) + j) + i - 2
        <4> DEFINE b == Before(bufs, i)
        <4>1. addr \in Int /\ b \in Int /\ j \in Int /\ i \in Int
          BY <2>4
        <4> HIDE DEF b
        <4>2. (addr + b + i - 1) + (j - 1) = addr + (b + j) + i - 2
          BY <4>1
        <4> QED
          BY <4>2 DEF b
      <3> QED
        BY <2>2, <3>1, <3>2
    <2>8. Before(bufs, i) < p /\ p <= Before(bufs, i + 1)
      BY <2>2, <2>4, <2>5, <2>6
    <2> QED
      BY <2>4, <2>7, <2>8
  <1>11. ASSUME NEW p \in 1 .. Total(bufs), NEW q \in 1 .. Total(bufs), p < q
         PROVE  Cells(bufs)[p] < Cells(bufs)[q]
    <2>1. PICK i \in 1 .. n : /\ Cells(bufs)[p] = addr + p + i - 2
                              /\ Before(bufs, i) < p /\ p <= Before(bufs, i + 1)
      BY <1>10
    <2>2. PICK j \in 1 .. n : /\ Cells(bufs)[q] = addr + q + j - 2
                              /\ Before(bufs, j) < q /\ q <= Before(bufs, j + 1)
      BY <1>10
    <2>3. i <= j
      <3>1. SUFFICES ASSUME j < i PROVE FALSE
        OBVIOUS
      <3>2. j + 1 \in 1 .. (n + 1) /\ i \in 1 .. (n + 1) /\ j + 1 <= i
        BY <1>1, <3>1
      <3>3. Before(bufs, j + 1) <= Before(bufs, i) /\ Before(bufs, j + 1) \in Nat /\ Before(bufs, i) \in Nat
        BY <1>9, <3>2
      <3> QED
        BY <1>3, <1>11, <2>1, <2>2, <3>3
    <2> QED
      BY <1>3, <1>11, <2>1, <2>2, <2>3
  <1>12. ASSUME NEW p \in 1 .. Total(bufs)
         PROVE  Cells(bufs)[p] \in addr .. (addr + Total(bufs) + Len(bufs) - 2) /\ Cells(bufs)[p] \in Int
    <2>1. PICK i \in 1 .. n : Cells(bufs)[p] = addr + p + i - 2
      BY <1>10
    <2> QED
      BY <1>1, <1>3, <1>5, <2>1
  <1>13. Distinct(bufs)
    <2> SUFFICES ASSUME NEW p \in 1 .. Total(bufs), NEW q \in 1 .. Total(bufs), Cells(bufs)[p] = Cells(bufs)[q]
                 PROVE  p = q
      BY DEF Distinct
    <2>1. ~(p < q) /\ ~(q < p)
      BY <1>11, <1>12
    <2> QED
      BY <1>3, <2>1
  <1> QED
    BY <1>7, <1>12, <1>13 DEF bufs

(* The area of a chain: cells of guest memory, each of them once. *)
Laidout(all) == Distinct(all) /\ \A k \in 1 .. Total(all) : Cells(all)[k] \in DOMAIN mem

LEMMA ChainLaid ==
    ASSUME NEW readable \in Seq(Nat), NEW writable \in Seq(Nat), ChainOf(readable, writable)
    PROVE  /\ Laidout(chain.readable) /\ Laidout(chain.writable)
           /\ Lens(chain.readable) = readable /\ Lens(chain.writable) = writable
           /\ \A k \in 1 .. Total(chain.readable), m \in 1 .. Total(chain.writable) :
                Cells(chain.readable)[k] # Cells(chain.writable)[m]
  <1> DEFINE rs == Laid(readable, 1)
             start == 1 + Total(rs) + Len(rs)
             ws == Laid(writable, start)
  <1>1. Len(rs) \in Nat /\ Total(rs) \in Nat
    BY LaidSlices
  <1>2. start \in Nat
    BY <1>1
  <1>3. Len(ws) \in Nat /\ Total(ws) \in Nat
    BY <1>2, LaidSlices
  <1>4. /\ Distinct(rs) /\ Lens(rs) = readable
        /\ \A p \in 1 .. Total(rs) : Cells(rs)[p] \in 1 .. (1 + Total(rs) + Len(rs) - 2)
    BY LaidCells
  <1>5. /\ Distinct(ws) /\ Lens(ws) = writable
        /\ \A p \in 1 .. Total(ws) : Cells(ws)[p] \in start .. (start + Total(ws) + Len(ws) - 2)
    BY <1>2, LaidCells
  <1>6. chain = [readable |-> rs, writable |-> ws] /\ mem = MemoryOf(rs, ws)
    BY DEF ChainOf
  <1> HIDE DEF rs, ws
  <1>7. DOMAIN mem = 1 .. (Total(rs) + Len(rs) + Total(ws) + Len(ws))
    BY <1>6 DEF MemoryOf
  <1>8. \A k \in 1 .. Total(rs) : Cells(rs)[k] \in DOMAIN mem /\ Cells(rs)[k] < start
    BY <1>1, <1>3, <1>4, <1>7
  <1>9. \A m \in 1 .. Total(ws) : Cells(ws)[m] \in DOMAIN mem /\ Cells(ws)[m] >= start
    BY <1>1, <1>3, <1>5, <1>7
  <1>10. chain.readable = rs /\ chain.writable = ws
    BY <1>6
  <1>11. \A k \in 1 .. Total(rs), m \in 1 .. Total(ws) : Cells(rs)[k] # Cells(ws)[m]
    <2> SUFFICES ASSUME NEW k \in 1 .. Total(rs), NEW m \in 1 .. Total(ws) PROVE Cells(rs)[k] # Cells(ws)[m]
      OBVIOUS
    <2>1. /\ Cells(rs)[k] \in 1 .. (1 + Total(rs) + Len(rs) - 2) /\ Cells(rs)[k] < start
          /\ Cells(ws)[m] \in start .. (start + Total(ws) + Len(ws) - 2) /\ Cells(ws)[m] >= start
      BY <1>4, <1>5, <1>8, <1>9
    <2> HIDE DEF start
    <2> QED
      BY <1>2, <2>1
  <1> QED
    BY <1>4, <1>5, <1>8, <1>9, <1>10, <1>11 DEF Laidout

(* Without an empty slice a BufferWrapper is filled like any buffer. *)
NoEmpty(bufs) == \A i \in 1 .. Len(bufs) : bufs[i].len > 0

LEMMA VectoredIsCopy ==
    ASSUME NEW bufs \in Seq(Slices), NoEmpty(bufs), NEW n \in Nat
    PROVE  VectoredLens(bufs, n) = CopyLens(bufs, n)
  <1> DEFINE copy == CopyLens(bufs, n)
  <1>1. Len(bufs) \in Nat /\ DOMAIN bufs = 1 .. Len(bufs)
    OBVIOUS
  <1>2. copy = [i \in 1 .. Len(bufs) |->
                  IF n <= Before(bufs, i) THEN 0
                  ELSE IF n - Before(bufs, i) < bufs[i].len THEN n - Before(bufs, i) ELSE bufs[i].len]
    BY <1>1 DEF CopyLens
  <1>3. /\ \A i \in 1 .. (Len(bufs) + 1) : Before(bufs, i) \in Nat
        /\ \A i, j \in 1 .. (Len(bufs) + 1) : i <= j => Before(bufs, i) <= Before(bufs, j)
    BY BeforeFacts
  <1> HIDE DEF copy
  <1>4. ASSUME NEW i \in 1 .. Len(bufs), NEW j \in 1 .. i, copy[j] = 0 PROVE copy[i] = 0
    <2>1. j \in 1 .. Len(bufs) /\ i \in 1 .. (Len(bufs) + 1) /\ j \in 1 .. (Len(bufs) + 1) /\ j <= i
      BY <1>1
    <2>2. bufs[j].len \in Nat /\ bufs[j].len > 0
      BY <2>1, SliceAt DEF NoEmpty
    <2>3. Before(bufs, i) \in Nat /\ Before(bufs, j) \in Nat /\ Before(bufs, j) <= Before(bufs, i)
      BY <1>3, <2>1
    <2>4. n <= Before(bufs, j)
      BY <1>2, <1>4, <2>1, <2>2, <2>3
    <2>5. n <= Before(bufs, i)
      BY <2>3, <2>4
    <2> QED
      BY <1>2, <2>5
  <1>5. VectoredLens(bufs, n) =
          [i \in 1 .. Len(bufs) |-> IF \E j \in 1 .. i : copy[j] = 0 THEN 0 ELSE copy[i]]
    BY <1>1 DEF VectoredLens, copy
  <1>6. \A i \in 1 .. Len(bufs) : (IF \E j \in 1 .. i : copy[j] = 0 THEN 0 ELSE copy[i]) = copy[i]
    BY <1>4
  <1>7. VectoredLens(bufs, n) = [i \in 1 .. Len(bufs) |-> copy[i]]
    BY <1>5, <1>6
  <1> QED
    BY <1>2, <1>7 DEF copy

LEMMA NoEmptyKept ==
    ASSUME NEW bufs \in Seq(Slices), NoEmpty(bufs), NEW n \in Nat
    PROVE  NoEmpty(Picked(bufs, n)) /\ NoEmpty(Advance(bufs, n))
  <1> DEFINE k == Whole(bufs, n)
             rest == SubSeq(bufs, k + 2, Len(bufs))
             vs == Offset(bufs[k + 1], n - Before(bufs, k + 1))
             m == Len(Picked(bufs, n))
  <1>1. Len(bufs) \in Nat
    OBVIOUS
  <1>2. NoEmpty(Picked(bufs, n))
    <2>1. Picked(bufs, n) = First(bufs, m) /\ m \in 0 .. Len(bufs)
      BY PickedFacts
    <2> HIDE DEF m
    <2>2. Len(First(bufs, m)) = m /\ \A i \in 1 .. m : First(bufs, m)[i] = bufs[i] /\ i \in 1 .. Len(bufs)
      BY <1>1, <2>1, FirstFacts
    <2> QED
      BY <2>1, <2>2 DEF NoEmpty
  <1>3. /\ k \in 0 .. Len(bufs) /\ Before(bufs, k + 1) <= n
        /\ k < Len(bufs) => n < Before(bufs, k + 2)
    BY WholeFacts
  <1>4. Advance(bufs, n) = IF k = Len(bufs) THEN <<>> ELSE <<vs>> \o rest
    BY DEF Advance
  <1> HIDE DEF k
  <1>5. CASE k = Len(bufs)
    BY <1>2, <1>4, <1>5 DEF NoEmpty
  <1>6. CASE k # Len(bufs)
    <2>1. k < Len(bufs) /\ k + 1 \in 1 .. Len(bufs) /\ k + 2 \in 1 .. (Len(bufs) + 1) /\ (k + 1) + 1 = k + 2
      BY <1>1, <1>3, <1>6
    <2>2. bufs[k + 1] \in Slices /\ bufs[k + 1].len \in Nat
      BY <2>1, SliceAt
    <2>3. /\ Before(bufs, k + 1) \in Nat /\ Before(bufs, k + 2) \in Nat
          /\ Before(bufs, k + 2) = Before(bufs, k + 1) + bufs[k + 1].len
      <3>1. k + 1 \in 1 .. (Len(bufs) + 1)
        BY <1>1, <2>1
      <3> QED
        BY <2>1, <3>1, BeforeFacts
    <2>4. vs.len = bufs[k + 1].len - (n - Before(bufs, k + 1))
      BY DEF Offset, Slice
    <2>5. vs.len > 0
      BY <1>3, <2>1, <2>2, <2>3, <2>4
    <2>6. n - Before(bufs, k + 1) \in 0 .. bufs[k + 1].len
      BY <1>3, <2>1, <2>2, <2>3
    <2>7. vs \in Slices
      BY <2>2, <2>6, SliceFacts
    <2>8. /\ rest \in Seq(Slices) /\ Len(rest) = Len(bufs) - (k + 2) + 1
          /\ \A i \in 1 .. (Len(bufs) - (k + 2) + 1) : rest[i] = bufs[(k + 2) + i - 1]
      BY <2>1, DropFacts
    <2>9. \A i \in 1 .. Len(rest) : rest[i].len > 0
      <3>1. \A i \in 1 .. Len(rest) : (k + 2) + i - 1 \in 1 .. Len(bufs)
        BY <1>1, <1>3, <2>1, <2>8
      <3> QED
        BY <2>8, <3>1 DEF NoEmpty
    <2> HIDE DEF vs, rest
    <2> DEFINE one == <<vs>>
    <2>10. one \in Seq(Slices) /\ Len(one) = 1 /\ one[1] = vs
      BY <2>7
    <2> HIDE DEF one
    <2>11. /\ Len(one \o rest) = Len(one) + Len(rest)
           /\ \A i \in 1 .. (Len(one) + Len(rest)) :
                (one \o rest)[i] = IF i <= Len(one) THEN one[i] ELSE rest[i - Len(one)]
      BY <2>8, <2>10, ConcatProperties
    <2>12. Len(rest) \in Nat
      BY <2>8
    <2>13. ASSUME NEW i \in 1 .. (1 + Len(rest)) PROVE (one \o rest)[i].len > 0
      <3>1. CASE i = 1
        BY <2>5, <2>10, <2>11, <2>12, <3>1
      <3>2. CASE i # 1
        <4>1. i - 1 \in 1 .. Len(rest) /\ ~(i <= 1)
          BY <2>12, <3>2
        <4> QED
          BY <2>9, <2>10, <2>11, <4>1
      <3> QED
        BY <3>1, <3>2
    <2>14. NoEmpty(one \o rest)
      BY <2>10, <2>11, <2>13 DEF NoEmpty
    <2> QED
      BY <1>2, <1>4, <1>6, <2>14 DEF one
  <1> QED
    BY <1>5, <1>6

\* A consumer that is where its count says, in the part of an area behind a position.
Stands(c, part, all, start) ==
    /\ c \in Consumers /\ part \in Seq(Slices) /\ all \in Seq(Slices) /\ start \in Nat
    /\ PlacedIn(c, part) /\ PartOf(part, all, start)

(* A copy through a consumer that is where its count says leaves it there, with a
   count that is larger by what it moved. *)
LEMMA PlacedMoves ==
    ASSUME NEW c, NEW part, NEW all, NEW start, Stands(c, part, all, start), NEW n \in Nat, NEW lens,
           Fits(lens, Picked(c.buffers, n)), InOrder(lens, Picked(c.buffers, n))
    PROVE  LET bufs == Picked(c.buffers, n)
               moved == Sum(lens)
           IN  /\ moved \in Nat /\ moved <= Total(c.buffers)
               /\ Copies(lens, bufs, all, start + c.bytes_consumed) \/ ~Distinct(all)
               /\ Consumed(c, bufs, moved) \in Consumers /\ PlacedIn(Consumed(c, bufs, moved), part)
               /\ Consumed(c, bufs, moved).bytes_consumed = c.bytes_consumed + moved
  <1> DEFINE at == start + c.bytes_consumed
             moved == Sum(lens)
             old == c.buffers
             bufs == Picked(c.buffers, n)
  <1>0. /\ c \in Consumers /\ part \in Seq(Slices) /\ all \in Seq(Slices) /\ start \in Nat
        /\ PlacedIn(c, part) /\ PartOf(part, all, start) /\ Fits(lens, bufs) /\ InOrder(lens, bufs)
    BY DEF Stands
  <1>1. old \in Seq(Slices) /\ c.bytes_consumed \in Nat /\ Total(old) \in Nat /\ at \in Nat
    BY <1>0, TotalFacts DEF Consumers
  <1>2. bufs \in Seq(Slices) /\ Total(bufs) \in Nat /\ Total(bufs) <= Total(old)
    BY <1>1, PickedFacts
  <1>3. \A p \in 1 .. Total(bufs) : Cells(bufs)[p] = Cells(old)[p]
    BY <1>1, PickedCells
  <1> HIDE DEF bufs
  <1>4. moved \in Nat
    BY <1>0, <1>2, PartsFacts
  <1>5. moved <= Total(bufs)
    <2>1. CASE moved = 0
      BY <1>2, <2>1
    <2>2. CASE moved # 0
      <3>1. moved \in 1 .. moved
        BY <1>4, <2>2
      <3>2. moved \in 1 .. Total(bufs)
        BY <1>0, <1>2, <3>1, PartsCells
      <3> QED
        BY <1>2, <3>2
    <2> QED
      BY <2>1, <2>2
  <1>6. bufs = <<>> => moved = 0
    BY <1>4, <1>5, TotalFacts
  <1>7. moved <= Total(old)
    BY <1>1, <1>2, <1>4, <1>5
  <1>8. PartOf(bufs, all, at)
    <2> SUFFICES ASSUME NEW p \in 1 .. Total(bufs)
                 PROVE  at + p \in 1 .. Total(all) /\ Cells(bufs)[p] = Cells(all)[at + p]
      BY DEF PartOf
    <2> DEFINE q == c.bytes_consumed + p
    <2>1. p \in 1 .. Total(old) /\ Total(part) \in Nat
      BY <1>0, <1>1, <1>2, TotalFacts
    <2>2. Cells(old)[p] = Cells(part)[q] /\ Total(old) + c.bytes_consumed = Total(part)
      BY <1>0, <2>1 DEF PlacedIn
    <2>3. q \in 1 .. Total(part)
      BY <1>1, <2>1, <2>2
    <2>4. start + q = at + p
      BY <1>0, <1>1
    <2> HIDE DEF q, at
    <2>5. start + q \in 1 .. Total(all) /\ Cells(part)[q] = Cells(all)[start + q]
      BY <1>0, <2>3 DEF PartOf
    <2> QED
      BY <1>3, <2>2, <2>4, <2>5
  <1>9. Copies(lens, bufs, all, at) \/ ~Distinct(all)
    BY <1>0, <1>1, <1>2, <1>8 DEF Copies
  <1> HIDE DEF at
  <1> HIDE DEF moved, old
  <1>10. /\ Consumed(c, bufs, moved) \in Consumers /\ PlacedIn(Consumed(c, bufs, moved), part)
         /\ Consumed(c, bufs, moved).bytes_consumed = c.bytes_consumed + moved
    BY <1>0, <1>4, <1>6, <1>7, ConsumedPlaced DEF old
  <1> QED
    BY <1>1, <1>4, <1>7, <1>9, <1>10 DEF moved, old, bufs, at

LEMMA SplitTyped ==
    ASSUME NEW bufs \in Seq(Slices), NEW n \in Nat, n <= Total(bufs)
    PROVE  Kept(bufs, n) \in Seq(Slices) /\ Advance(bufs, n) \in Seq(Slices)
  <1>1. Within(bufs, AreaOf(bufs))
    <2>1. DOMAIN bufs = 1 .. Len(bufs)
      OBVIOUS
    <2> QED
      BY <2>1 DEF Within, AreaOf
  <1>2. Within(Kept(bufs, n), AreaOf(bufs)) /\ Within(Advance(bufs, n), AreaOf(bufs))
    BY <1>1, KeptWithin, AdvanceWithin
  <1> QED
    BY <1>2 DEF Within

LEMMA LaidInside ==
    ASSUME NEW readable \in Seq(Nat), NEW writable \in Seq(Nat), ChainOf(readable, writable)
    PROVE  InsideInv /\ NoStrayWrite
  <1> DEFINE rs == Laid(readable, 1)
             start == 1 + Total(rs) + Len(rs)
             ws == Laid(writable, start)
  <1>1. start \in Nat
    <2>1. Len(rs) \in Nat /\ Total(rs) \in Nat
      BY LaidSlices
    <2> QED
      BY <2>1
  <1>2. ws \in Seq(Slices)
    BY <1>1, LaidSlices
  <1>3. /\ chain = [readable |-> rs, writable |-> ws] /\ mem = MemoryOf(rs, ws)
        /\ writers = [w \in {"w"} |-> Consumer(ws)]
    BY DEF ChainOf
  <1> HIDE DEF rs, ws
  <1>4. NoStrayWrite
    BY <1>3 DEF NoStrayWrite
  <1>5. Within(ws, AreaOf(ws))
    <2>1. DOMAIN ws = 1 .. Len(ws)
      BY <1>2
    <2> QED
      BY <1>2, <2>1 DEF Within, AreaOf
  <1>6. Consumer(ws) \in Consumers /\ Consumer(ws).buffers = ws
    BY <1>2 DEF Consumer, Consumers
  <1>7. InsideInv
    BY <1>3, <1>5, <1>6 DEF InsideInv
  <1> QED
    BY <1>4, <1>7

LEMMA ChainStarts == ChainInit => InsideInv /\ NoStrayWrite
  BY LaidInside, ChainAssumption DEF ChainInit

(* A copy through a writer. *)
LEMMA PlaceStays ==
    ASSUME InsideInv, NoStrayWrite, NEW w \in DOMAIN writers, NEW n \in Nat, NEW lens, NEW data,
           Fits(lens, Picked(writers[w].buffers, n)),
           Place(w, Picked(writers[w].buffers, n), lens, data)
    PROVE  InsideInv' /\ NoStrayWrite'
  <1> DEFINE area == AreaOf(chain.writable)
             bufs == Picked(writers[w].buffers, n)
  <1>1. writers[w] \in Consumers /\ Within(writers[w].buffers, area)
    BY DEF InsideInv
  <1>2. Within(bufs, area)
    BY <1>1, PickedWithin
  <1>3. Fits(lens, bufs) /\ Sum(lens) \in Nat
    BY WordsFinite DEF Fits
  <1>4. /\ mem' = Stored(bufs, lens, data) /\ chain' = chain
        /\ writers' = [writers EXCEPT ![w] = Consumed(@, bufs, Sum(lens))]
    BY DEF Place
  <1> HIDE DEF bufs
  <1>5. InsideInv'
    <2>1. Consumed(writers[w], bufs, Sum(lens)) \in Consumers
          /\ Within(Consumed(writers[w], bufs, Sum(lens)).buffers, area)
      BY <1>1, <1>3, ConsumedWithin
    <2>2. ASSUME NEW v \in DOMAIN writers'
          PROVE  writers'[v] \in Consumers /\ Within(writers'[v].buffers, area)
      <3>1. v \in DOMAIN writers /\ writers'[v] = IF v = w THEN Consumed(writers[w], bufs, Sum(lens)) ELSE writers[v]
        BY <1>4
      <3> HIDE DEF area
      <3>2. CASE v = w
        BY <2>1, <3>1, <3>2
      <3>3. CASE v # w
        BY <3>1, <3>3 DEF InsideInv, area
      <3> QED
        BY <3>2, <3>3
    <2> QED
      BY <1>4, <2>2 DEF InsideInv
  <1>6. NoStrayWrite'
    <2>1. DOMAIN mem' = DOMAIN mem
      BY <1>4 DEF Stored
    <2>2. ASSUME NEW a \in DOMAIN mem,
                 \A i \in DOMAIN chain.writable : a \notin Addresses(chain.writable[i])
          PROVE  mem'[a] = mem[a]
      <3>1. a \notin area
        BY <2>2 DEF AreaOf
      <3> HIDE DEF area
      <3> QED
        BY <1>2, <1>3, <1>4, <3>1, StoredOutside
    <2> QED
      BY <1>4, <2>1, <2>2 DEF NoStrayWrite
  <1> QED
    BY <1>5, <1>6

LEMMA SplitStays ==
    ASSUME InsideInv, NoStrayWrite, NEW n \in Nat, SplitAt(n)
    PROVE  InsideInv' /\ NoStrayWrite'
  <1> DEFINE area == AreaOf(chain.writable)
             c == writers["w"]
             kept == [c EXCEPT !.buffers = Kept(@, n)]
             rest == Consumer(Advance(c.buffers, n))
  <1>1. c \in Consumers /\ Within(c.buffers, area) /\ n <= Total(c.buffers)
    BY DEF InsideInv, SplitAt, CanSplit
  <1>2. /\ chain' = chain /\ mem' = mem
        /\ writers' = [w \in {"w", "data_writer"} |-> IF w = "w" THEN kept ELSE rest]
    BY DEF SplitAt
  <1>3. Within(Kept(c.buffers, n), area) /\ Within(Advance(c.buffers, n), area)
    BY <1>1, KeptWithin, AdvanceWithin
  <1>4. Kept(c.buffers, n) \in Seq(Slices) /\ Advance(c.buffers, n) \in Seq(Slices)
    BY <1>3 DEF Within
  <1> HIDE DEF c, area
  <1>5. kept \in Consumers /\ kept.buffers = Kept(c.buffers, n)
    BY <1>1, <1>4 DEF Consumers
  <1>6. rest \in Consumers /\ rest.buffers = Advance(c.buffers, n)
    BY <1>4 DEF Consumer, Consumers
  <1> HIDE DEF kept, rest
  <1>7. InsideInv'
    BY <1>2, <1>3, <1>5, <1>6 DEF InsideInv, area
  <1>8. NoStrayWrite'
    BY <1>2 DEF NoStrayWrite
  <1> QED
    BY <1>7, <1>8

LEMMA ChainSteps == InsideInv /\ NoStrayWrite /\ [ChainNext]_dvars => InsideInv' /\ NoStrayWrite'
  <1> SUFFICES ASSUME InsideInv, NoStrayWrite, [ChainNext]_dvars PROVE InsideInv' /\ NoStrayWrite'
    OBVIOUS
  <1>1. ASSUME UNCHANGED <<chain, mem, writers>> PROVE InsideInv' /\ NoStrayWrite'
    <2>1. chain' = chain /\ mem' = mem /\ writers' = writers
      BY <1>1
    <2> QED
      BY <2>1 DEF InsideInv, NoStrayWrite
  <1>2. CASE UNCHANGED dvars
    BY <1>1, <1>2 DEF dvars
  <1>3. ASSUME NEW n \in 1 .. MaxCall, Read(n) \/ ReadToAt(n) PROVE InsideInv' /\ NoStrayWrite'
    BY <1>1, <1>3 DEF Read, ReadToAt, Deliver
  <1>4. ASSUME NEW n \in 1 .. MaxCall, SplitAt(n) PROVE InsideInv' /\ NoStrayWrite'
    <2>1. n \in Nat
      BY ChainAssumption
    <2> QED
      BY <1>4, <2>1, SplitStays
  <1>5. ASSUME NEW n \in 1 .. MaxCall, NEW w \in DOMAIN writers,
               Write(w, Words(w, n)) \/ WriteFromAt(w, Words(w, n))
        PROVE  InsideInv' /\ NoStrayWrite'
    <2> DEFINE bufs == Picked(writers[w].buffers, n)
               data == Words(w, n)
    <2>1. n \in Nat
      BY ChainAssumption
    <2>2. Len(data) = n
      BY <2>1 DEF Words
    <2>3. Within(bufs, AreaOf(chain.writable))
      BY <2>1, PickedWithin DEF InsideInv
    <2>4. Fits(CopyLens(bufs, n), bufs) /\ Fits(VectoredLens(bufs, n), bufs)
      BY <2>1, <2>3, CopyFits DEF Within
    <2>5. CASE Write(w, Words(w, n))
      <3>1. Place(w, bufs, CopyLens(bufs, n), data)
        BY <2>2, <2>5 DEF Write
      <3> QED
        BY <2>1, <2>4, <3>1, PlaceStays
    <2>6. CASE WriteFromAt(w, Words(w, n))
      <3>1. Place(w, bufs, VectoredLens(bufs, n), data)
        BY <2>2, <2>6 DEF WriteFromAt
      <3> QED
        BY <2>1, <2>4, <3>1, PlaceStays
    <2> QED
      BY <1>5, <2>5, <2>6
  <1> QED
    BY <1>2, <1>3, <1>4, <1>5 DEF ChainNext

(* The calls of a handler write to no guest memory outside the writable slices
   of the chain, however the chain is sliced, whatever the calls ask for, in any
   order, and wherever the reply is split: VolatileSlice::offset, subslice and the
   copy lengths of util.rs and buffer.rs never reach past a slice's end. *)
THEOREM WritesStayInside == ChainSpec => []NoStrayWrite
  <1>1. ChainInit => InsideInv /\ NoStrayWrite
    BY ChainStarts
  <1>2. InsideInv /\ NoStrayWrite /\ [ChainNext]_dvars => InsideInv' /\ NoStrayWrite'
    BY ChainSteps
  <1> QED
    BY <1>1, <1>2, PTL DEF ChainSpec

-----------------------------------------------------------------------------
(* A chain acts as two contiguous buffers (module FlatBuffer).               *)

Input == Contents(chain.readable)
Output == Contents(chain.writable)
Ends == [w \in DOMAIN writers |-> End(w)]

\* The words of an area of all words that lie before the next one of writer w.
Passed(w, c, all) == IF w = "w" THEN c.bytes_consumed ELSE all - Total(c.buffers)

\* What writer w has left is the part of the area behind those.
Tracks(w, c, area) ==
    /\ c \in Consumers
    /\ Passed(w, c, Total(area)) \in Nat
    /\ Passed(w, c, Total(area)) + Total(c.buffers) <= Total(area)
    /\ PartOf(c.buffers, area, Passed(w, c, Total(area)))
    /\ NoEmpty(area) => NoEmpty(c.buffers)

FlatInv ==
    /\ chain.readable \in Seq(Slices) /\ chain.writable \in Seq(Slices) /\ Laidout(chain.writable)
    /\ \A k \in 1 .. Total(chain.readable) : Cells(chain.readable)[k] \in DOMAIN mem \ AreaOf(chain.writable)
    /\ reader \in Consumers /\ PlacedIn(reader, chain.readable)
    /\ Len(taken) = reader.bytes_consumed /\ \E S : taken \in Seq(S)
    /\ DOMAIN writers \in {{"w"}, {"w", "data_writer"}}
    /\ DOMAIN writers = {"w"} =>
         writers["w"].bytes_consumed + Total(writers["w"].buffers) = Total(chain.writable)
    /\ \A w \in DOMAIN writers : Tracks(w, writers[w], chain.writable)

\* Where a writer is, from its count and what it has left.
EndAt(w, c, only, all) ==
    LET left == Total(c.buffers)
        limit == IF w = "w" /\ ~only THEN c.bytes_consumed + left ELSE all
        pos == limit - left
    IN  [start |-> pos - c.bytes_consumed, pos |-> pos, limit |-> limit]

LEMMA EndIs ==
    ASSUME NEW w \in {"w", "data_writer"}, NEW c \in Consumers, NEW all \in Nat, NEW only \in BOOLEAN,
           only => w = "w" /\ c.bytes_consumed + Total(c.buffers) = all
    PROVE  EndAt(w, c, only, all) = [start |-> Passed(w, c, all) - c.bytes_consumed,
                                     pos |-> Passed(w, c, all),
                                     limit |-> Passed(w, c, all) + Total(c.buffers)]
  <1> DEFINE left == Total(c.buffers)
             limit == IF w = "w" /\ ~only THEN c.bytes_consumed + left ELSE all
  <1>1. left \in Nat /\ c.bytes_consumed \in Nat
    BY TotalFacts DEF Consumers
  <1>2. EndAt(w, c, only, all) =
          [start |-> (limit - left) - c.bytes_consumed, pos |-> limit - left, limit |-> limit]
    BY DEF EndAt
  <1>3. Passed(w, c, all) = IF w = "w" THEN c.bytes_consumed ELSE all - left
    BY DEF Passed
  <1> HIDE DEF left
  <1>4. limit - left = Passed(w, c, all) /\ limit = Passed(w, c, all) + left
    BY <1>1, <1>3 DEF left
  <1> QED
    BY <1>2, <1>4 DEF left

\* A copy through a writer moves it on by what it moved.
LEMMA TracksOn ==
    ASSUME NEW w \in {"w", "data_writer"}, NEW c, NEW area \in Seq(Slices), Tracks(w, c, area),
           NEW n \in Nat, NEW lens, NEW bufs, bufs = Picked(c.buffers, n), Fits(lens, bufs), InOrder(lens, bufs)
    PROVE  LET d == Consumed(c, bufs, Sum(lens))
           IN  /\ Sum(lens) \in Nat /\ Sum(lens) <= Total(c.buffers)
               /\ Tracks(w, d, area) /\ d.bytes_consumed = c.bytes_consumed + Sum(lens)
               /\ Total(d.buffers) = Total(c.buffers) - Sum(lens)
               /\ Passed(w, d, Total(area)) = Passed(w, c, Total(area)) + Sum(lens)
               /\ Copies(lens, bufs, area, Passed(w, c, Total(area))) \/ ~Distinct(area)
  <1> DEFINE old == c.buffers
             fresh == Consumer(old)
             moved == Sum(lens)
             d == Consumed(c, bufs, moved)
             e == Consumed(fresh, bufs, moved)
             all == Total(area)
             at == Passed(w, c, all)
             on == Passed(w, d, all)
  <1>1. /\ c \in Consumers /\ old \in Seq(Slices) /\ c.bytes_consumed \in Nat /\ Total(old) \in Nat
        /\ all \in Nat /\ at \in Nat /\ at + Total(old) <= all /\ PartOf(old, area, at)
        /\ NoEmpty(area) => NoEmpty(old)
    BY TotalFacts DEF Tracks, Consumers
  <1>2. fresh \in Consumers /\ fresh.buffers = old /\ fresh.bytes_consumed = 0 /\ PlacedIn(fresh, old)
    BY <1>1, StartsPlaced DEF Consumer, Consumers
  <1>3. at = IF w = "w" THEN c.bytes_consumed ELSE all - Total(old)
    BY DEF Passed
  <1> HIDE DEF fresh, at
  <1>4. Stands(fresh, old, area, at)
    BY <1>1, <1>2 DEF Stands
  <1>5. bufs = Picked(fresh.buffers, n)
    BY <1>2
  <1>6. moved \in Nat /\ moved <= Total(old) /\ (Copies(lens, bufs, area, at + 0) \/ ~Distinct(area))
    BY <1>2, <1>4, <1>5, PlacedMoves
  <1>7. bufs = <<>> => moved = 0
    <2>1. bufs = <<>> => lens = <<>>
      BY DEF Fits
    <2> QED
      BY <2>1, SumNone
  <1> HIDE DEF moved
  <1>8. /\ e \in Consumers /\ PlacedIn(e, old) /\ e.bytes_consumed = 0 + moved
        /\ Total(e.buffers) = Total(old) - moved
    BY <1>2, <1>6, <1>7, ConsumedPlaced
  <1>9. d.buffers = e.buffers /\ d.bytes_consumed = c.bytes_consumed + moved
    <2>1. CASE bufs = <<>>
      BY <1>1, <1>2, <1>7, <2>1 DEF Consumed
    <2>2. CASE bufs # <<>>
      BY <1>2, <2>2 DEF Consumed
    <2> QED
      BY <2>1, <2>2
  <1>10. d \in Consumers
    BY <1>1, <1>6, ConsumedTyped
  <1>11. on = IF w = "w" THEN d.bytes_consumed ELSE all - Total(d.buffers)
    BY DEF Passed
  <1>12. NoEmpty(area) => NoEmpty(d.buffers)
    <2>1. CASE bufs = <<>>
      BY <1>1, <2>1 DEF Consumed
    <2>2. CASE bufs # <<>>
      <3>1. d.buffers = Advance(old, moved)
        BY <2>2 DEF Consumed
      <3> QED
        BY <1>1, <1>6, <3>1, NoEmptyKept
    <2> QED
      BY <2>1, <2>2
  <1> HIDE DEF d, e, on, old, all
  <1>13. on = at + moved /\ Total(d.buffers) = Total(old) - moved /\ on \in Nat /\ on + Total(d.buffers) <= all
    BY <1>1, <1>3, <1>6, <1>8, <1>9, <1>11
  <1>14. PartOf(d.buffers, area, on)
    <2> SUFFICES ASSUME NEW p \in 1 .. Total(d.buffers)
                 PROVE  on + p \in 1 .. Total(area) /\ Cells(d.buffers)[p] = Cells(area)[on + p]
      BY DEF PartOf
    <2>1. p \in 1 .. Total(e.buffers) /\ e.bytes_consumed = moved
      BY <1>6, <1>8, <1>9
    <2>2. Cells(d.buffers)[p] = Cells(old)[moved + p]
      BY <1>8, <1>9, <2>1 DEF PlacedIn
    <2>3. moved + p \in 1 .. Total(old) /\ on + p = at + (moved + p)
      BY <1>1, <1>6, <1>13
    <2> DEFINE q == moved + p
    <2> HIDE DEF q
    <2>4. at + q \in 1 .. Total(area) /\ Cells(old)[q] = Cells(area)[at + q]
      BY <1>1, <2>3 DEF PartOf, q
    <2> QED
      BY <2>2, <2>3, <2>4 DEF q
  <1>15. Tracks(w, d, area)
    BY <1>10, <1>12, <1>13, <1>14 DEF Tracks, on, all
  <1>16. at + 0 = at
    BY <1>1
  <1> QED
    BY <1>6, <1>9, <1>13, <1>15, <1>16 DEF d, moved, on, at, all, old

\* Every address of an area is one of its cells.
LEMMA AreaCells ==
    ASSUME NEW bufs \in Seq(Slices), NEW a \in AreaOf(bufs)
    PROVE  \E k \in 1 .. Total(bufs) : Cells(bufs)[k] = a
  <1>1. PICK i \in 1 .. Len(bufs) : a \in Addresses(bufs[i])
    <2>1. DOMAIN bufs = 1 .. Len(bufs)
      OBVIOUS
    <2> QED
      BY <2>1 DEF AreaOf
  <1>2. bufs[i].addr \in Nat /\ bufs[i].len \in Nat
    BY SliceAt
  <1>3. a \in bufs[i].addr .. (bufs[i].addr + bufs[i].len - 1)
    BY <1>1 DEF Addresses
  <1> DEFINE j == a - bufs[i].addr + 1
  <1>4. j \in 1 .. bufs[i].len /\ bufs[i].addr + (j - 1) = a
    BY <1>2, <1>3
  <1> HIDE DEF j
  <1>5. Before(bufs, i) + j \in 1 .. Total(bufs) /\ Cells(bufs)[Before(bufs, i) + j] = bufs[i].addr + (j - 1)
    BY <1>4, CellAt
  <1> QED
    BY <1>4, <1>5

LEMMA FlatStarts == ChainInit => FlatInv /\ Flat!Init
  <1> SUFFICES ASSUME ChainInit PROVE FlatInv /\ Flat!Init
    OBVIOUS
  <1>1. PICK readable \in Seq(Nat), writable \in Seq(Nat) : ChainOf(readable, writable)
    BY ChainAssumption DEF ChainInit
  <1> DEFINE rs == Laid(readable, 1)
             start == 1 + Total(rs) + Len(rs)
             ws == Laid(writable, start)
  <1>2. rs \in Seq(Slices) /\ Total(rs) \in Nat /\ Len(rs) \in Nat
    BY <1>1, LaidSlices
  <1>3. start \in Nat
    BY <1>2
  <1>4. ws \in Seq(Slices) /\ Total(ws) \in Nat
    BY <1>1, <1>3, LaidSlices
  <1>5. /\ chain.readable = rs /\ chain.writable = ws /\ reader = Consumer(rs) /\ taken = <<>> /\ result = 0
        /\ writers = [w \in {"w"} |-> Consumer(ws)]
    BY <1>1 DEF ChainOf
  <1> HIDE DEF rs, ws, start
  <1>6. /\ Laidout(rs) /\ Laidout(ws)
        /\ \A k \in 1 .. Total(rs), m \in 1 .. Total(ws) : Cells(rs)[k] # Cells(ws)[m]
    <2>1. /\ Laidout(chain.readable) /\ Laidout(chain.writable)
          /\ \A k \in 1 .. Total(chain.readable), m \in 1 .. Total(chain.writable) :
                Cells(chain.readable)[k] # Cells(chain.writable)[m]
      BY <1>1, ChainLaid
    <2> QED
      BY <1>5, <2>1
  <1>7. \A k \in 1 .. Total(rs) : Cells(rs)[k] \in DOMAIN mem \ AreaOf(ws)
    <2> SUFFICES ASSUME NEW k \in 1 .. Total(rs), Cells(rs)[k] \in AreaOf(ws) PROVE FALSE
      BY <1>6 DEF Laidout
    <2> QED
      BY <1>4, <1>6, AreaCells
  <1>8. /\ Consumer(rs) \in Consumers /\ PlacedIn(Consumer(rs), rs) /\ Consumer(rs).bytes_consumed = 0
        /\ Consumer(ws) \in Consumers /\ Consumer(ws).bytes_consumed = 0 /\ Consumer(ws).buffers = ws
    BY <1>2, <1>4, StartsPlaced DEF Consumer, Consumers
  <1> DEFINE c == Consumer(ws)
  <1>9. DOMAIN writers = {"w"} /\ writers["w"] = c
    BY <1>5
  <1> HIDE DEF c
  <1>10. Passed("w", c, Total(ws)) = 0 /\ c \in Consumers /\ c.buffers = ws /\ c.bytes_consumed = 0
    BY <1>8 DEF Passed, c
  <1>11. PartOf(ws, ws, 0)
    BY <1>4 DEF PartOf
  <1>12. Tracks("w", c, ws)
    BY <1>4, <1>10, <1>11 DEF Tracks
  <1>13. FlatInv
    <2>1. \E S : taken \in Seq(S)
      BY <1>5
    <2>2. Len(taken) = reader.bytes_consumed
      BY <1>5, <1>8
    <2>3. writers["w"].bytes_consumed + Total(writers["w"].buffers) = Total(chain.writable)
      BY <1>4, <1>5, <1>9, <1>10
    <2> QED
      BY <1>2, <1>4, <1>5, <1>6, <1>7, <1>8, <1>9, <1>12, <2>1, <2>2, <2>3 DEF FlatInv
  <1>14. Len(Output) = Total(ws)
    BY <1>4, <1>5, ContentsFacts DEF Output
  <1>15. End("w") = [start |-> 0, pos |-> 0, limit |-> Len(Output)]
    <2>1. End("w") = EndAt("w", c, TRUE, Total(ws))
      BY <1>5, <1>9 DEF End, EndAt
    <2>2. c.bytes_consumed + Total(c.buffers) = Total(ws)
      BY <1>4, <1>10
    <2>3. EndAt("w", c, TRUE, Total(ws)) = [start |-> Passed("w", c, Total(ws)) - c.bytes_consumed,
                                            pos |-> Passed("w", c, Total(ws)),
                                            limit |-> Passed("w", c, Total(ws)) + Total(c.buffers)]
      BY <1>4, <1>10, <2>2, EndIs
    <2>4. 0 + Total(ws) = Total(ws) /\ 0 - 0 = 0
      BY <1>4
    <2> QED
      BY <1>10, <1>14, <2>1, <2>3, <2>4
  <1>16. Ends = [w \in {"w"} |-> [start |-> 0, pos |-> 0, limit |-> Len(Output)]]
    BY <1>9, <1>15 DEF Ends
  <1>17. Flat!Init
    BY <1>5, <1>16 DEF Flat!Init, Ends, Output
  <1> QED
    BY <1>13, <1>17

\* The calls on the reader.
LEMMA Hands ==
    ASSUME FlatInv, NEW n \in Nat, NEW lens, NEW bufs, bufs = Picked(reader.buffers, n),
           Fits(lens, bufs), InOrder(lens, bufs), Deliver(bufs, lens)
    PROVE  /\ FlatInv' /\ Sum(lens) \in Nat /\ Sum(lens) <= Total(reader.buffers)
           /\ Flat!Hand(Sum(lens)) /\ Flat!Rest = Total(reader.buffers)
  <1> DEFINE all == chain.readable
             old == reader.buffers
             moved == Sum(lens)
             from == Len(taken)
             words == Loaded(bufs, lens)
             parts == Parts(bufs, lens)
  <1>1. /\ all \in Seq(Slices) /\ reader \in Consumers /\ PlacedIn(reader, all) /\ from = reader.bytes_consumed
        /\ old \in Seq(Slices) /\ from \in Nat /\ Total(old) \in Nat /\ Total(all) \in Nat
    BY TotalFacts DEF FlatInv, Consumers
  <1>2. Stands(reader, all, all, 0)
    <2>1. PartOf(all, all, 0)
      BY <1>1 DEF PartOf
    <2> QED
      BY <1>1, <2>1 DEF Stands
  <1>3. /\ moved \in Nat /\ moved <= Total(old)
        /\ Consumed(reader, bufs, moved) \in Consumers /\ PlacedIn(Consumed(reader, bufs, moved), all)
        /\ Consumed(reader, bufs, moved).bytes_consumed = reader.bytes_consumed + moved
    BY <1>2, PlacedMoves
  <1>4. /\ taken' = taken \o words /\ reader' = Consumed(reader, bufs, moved) /\ result' = moved
        /\ chain' = chain /\ mem' = mem /\ writers' = writers
    BY DEF Deliver
  <1>5. bufs \in Seq(Slices) /\ \A p \in 1 .. Total(bufs) : Cells(bufs)[p] = Cells(old)[p] /\ p \in 1 .. Total(old)
    <2>1. bufs \in Seq(Slices) /\ Total(bufs) \in Nat /\ Total(bufs) <= Total(old)
      BY <1>1, PickedFacts
    <2> QED
      BY <1>1, <2>1, PickedCells
  <1>6. /\ parts \in Seq(Slices) /\ Total(parts) = moved
        /\ \A q \in 1 .. moved : q \in 1 .. Total(bufs) /\ Cells(parts)[q] = Cells(bufs)[q]
    BY <1>5, PartsFacts, PartsCells
  <1>7. words = Contents(parts)
    BY DEF Loaded, Parts
  <1> HIDE DEF parts, words, moved
  <1> DEFINE T == {mem[Cells(parts)[p]] : p \in 1 .. Total(parts)}
             V == {mem[Cells(all)[p]] : p \in 1 .. Total(all)}
  <1>8. words \in Seq(T) /\ Len(words) = moved /\ \A q \in 1 .. moved : words[q] = mem[Cells(parts)[q]]
    <2>1. /\ Contents(parts) \in Seq(T) /\ Len(Contents(parts)) = Total(parts)
          /\ \A q \in 1 .. Total(parts) : Contents(parts)[q] = mem[Cells(parts)[q]]
      BY <1>6, ContentsFacts
    <2> HIDE DEF T
    <2> QED
      BY <1>6, <1>7, <2>1
  <1>9. /\ Input \in Seq(V) /\ Len(Input) = Total(all)
        /\ \A p \in 1 .. Total(all) : Input[p] = mem[Cells(all)[p]]
    BY <1>1, ContentsFacts DEF Input
  <1> HIDE DEF T, V, old, all, from
  <1>10. Total(old) + from = Total(all) /\ \A p \in 1 .. Total(old) : Cells(old)[p] = Cells(all)[from + p]
    BY <1>1 DEF PlacedIn, old, all
  <1> DEFINE next == SubSeq(Input, from + 1, from + moved)
  <1>11. next \in Seq(V) /\ Len(next) = moved /\ \A q \in 1 .. moved : next[q] = Input[from + q]
    <2>1. from + moved <= Len(Input) /\ Len(Input) \in Nat /\ moved \in Nat
      BY <1>1, <1>3, <1>9, <1>10 DEF moved, old, from, all
    <2> DEFINE lo == from + 1
               hi == from + moved
    <2>2. /\ lo \in Int /\ hi \in Int /\ hi - lo + 1 = moved /\ (lo <= hi <=> 1 <= moved)
          /\ \A q \in 1 .. moved : lo + q - 1 = from + q
          /\ \A q \in lo .. hi : q \in 1 .. Len(Input)
      <3>1. \A a, b, k \in Nat : /\ (a + b) - (a + 1) + 1 = b /\ (a + 1 <= a + b <=> 1 <= b)
                                 /\ \A q \in 1 .. b : (a + 1) + q - 1 = a + q
                                 /\ a + b <= k => \A q \in (a + 1) .. (a + b) : q \in 1 .. k
        OBVIOUS
      <3>2. from \in Nat
        BY <1>1
      <3> QED
        BY <2>1, <3>1, <3>2
    <2> HIDE DEF lo, hi
    <2>3. \A q \in lo .. hi : Input[q] \in V
      BY <1>9, <2>2
    <2>4. /\ SubSeq(Input, lo, hi) \in Seq(V)
          /\ Len(SubSeq(Input, lo, hi)) = IF lo <= hi THEN hi - lo + 1 ELSE 0
          /\ \A q \in 1 .. hi - lo + 1 : SubSeq(Input, lo, hi)[q] = Input[lo + q - 1]
      BY <2>2, <2>3, SubSeqProperties
    <2>5. next = SubSeq(Input, lo, hi)
      BY DEF lo, hi
    <2> HIDE DEF next
    <2>6. Len(next) = moved
      BY <2>1, <2>2, <2>4, <2>5
    <2> QED
      BY <2>2, <2>4, <2>5, <2>6
  <1> HIDE DEF next
  <1>12. words = next
    <2>1. ASSUME NEW q \in 1 .. moved PROVE words[q] = next[q]
      <3>1. q \in 1 .. Total(old) /\ Cells(parts)[q] = Cells(old)[q]
        BY <1>5, <1>6 DEF moved, old
      <3>2. from + q \in 1 .. Total(all)
        BY <1>1, <1>10, <3>1 DEF old
      <3> QED
        BY <1>8, <1>9, <1>10, <1>11, <3>1, <3>2
    <2> QED
      BY <1>8, <1>11, <2>1, SeqEqual
  <1>13. Input' = Input /\ Output' = Output /\ Ends' = Ends
    BY <1>4 DEF Input, Output, Ends, End, Contents
  <1>14. Flat!Hand(moved)
    BY <1>4, <1>12, <1>13 DEF Flat!Hand, Input, Output, Ends, next, from
  <1>15. Flat!Rest = Total(old)
    <2>1. Len(Input) - from = Total(old)
      BY <1>1, <1>9, <1>10
    <2> QED
      BY <2>1 DEF Flat!Rest, Input, from
  <1>16. FlatInv'
    <2>1. PICK S : taken \in Seq(S)
      BY DEF FlatInv
    <2> DEFINE U == S \cup T
    <2>2. taken \in Seq(U) /\ words \in Seq(U)
      BY <1>8, <2>1
    <2> HIDE DEF U
    <2>3. taken' \in Seq(U) /\ Len(taken') = from + moved
      BY <1>4, <1>8, <2>2, ConcatProperties DEF from
    <2>4. PlacedIn(reader, chain.readable)' /\ reader' \in Consumers /\ Len(taken') = reader'.bytes_consumed
      <3>1. PlacedIn(reader', chain.readable)
        BY <1>3, <1>4 DEF all, moved
      <3>2. PlacedIn(reader, chain.readable)'
        BY <1>4, <3>1 DEF PlacedIn
      <3> QED
        BY <1>1, <1>3, <1>4, <2>3, <3>2 DEF moved
    <2>5. Laidout(chain.writable)'
      BY <1>4 DEF FlatInv, Laidout
    <2> QED
      BY <1>4, <2>3, <2>4, <2>5 DEF FlatInv
  <1> QED
    BY <1>3, <1>14, <1>15, <1>16 DEF moved, old

\* The writers as FlatBuffer sees them.
LEMMA EndsFacts ==
    ASSUME FlatInv, NEW w \in DOMAIN writers
    PROVE  LET c == writers[w]
               at == Passed(w, c, Total(chain.writable))
           IN  /\ w \in {"w", "data_writer"} /\ c \in Consumers /\ c.bytes_consumed \in Nat
               /\ Total(c.buffers) \in Nat /\ Total(chain.writable) \in Nat /\ at \in Nat
               /\ End(w) = [start |-> at - c.bytes_consumed, pos |-> at, limit |-> at + Total(c.buffers)]
               /\ Flat!Room(w) = Total(c.buffers)
  <1> DEFINE c == writers[w]
             all == Total(chain.writable)
             only == DOMAIN writers = {"w"}
             at == Passed(w, c, all)
  <1>1. w \in {"w", "data_writer"} /\ Tracks(w, c, chain.writable) /\ chain.writable \in Seq(Slices)
    BY DEF FlatInv
  <1>2. c \in Consumers /\ at \in Nat
    BY <1>1 DEF Tracks
  <1>3. c.bytes_consumed \in Nat /\ Total(c.buffers) \in Nat /\ all \in Nat
    BY <1>1, <1>2, TotalFacts DEF Consumers
  <1>4. only => w = "w" /\ c.bytes_consumed + Total(c.buffers) = all
    BY DEF FlatInv
  <1>5. End(w) = EndAt(w, c, only, all)
    BY DEF End, EndAt
  <1>6. only \in BOOLEAN
    OBVIOUS
  <1> HIDE DEF c, all, only
  <1>7. End(w) = [start |-> at - c.bytes_consumed, pos |-> at, limit |-> at + Total(c.buffers)]
    BY <1>1, <1>2, <1>3, <1>4, <1>5, <1>6, EndIs
  <1>8. Flat!Room(w) = End(w).limit - End(w).pos
    BY DEF Flat!Room
  <1> HIDE DEF at
  <1>9. Flat!Room(w) = Total(c.buffers)
    BY <1>2, <1>3, <1>7, <1>8
  <1> QED
    BY <1>1, <1>2, <1>3, <1>7, <1>9 DEF c, all, at

\* The calls on a writer.
LEMMA Enters ==
    ASSUME FlatInv, InsideInv, NEW w \in DOMAIN writers, NEW n \in Nat, NEW lens, NEW bufs,
           bufs = Picked(writers[w].buffers, n), Fits(lens, bufs), InOrder(lens, bufs),
           Sum(lens) <= n, Place(w, bufs, lens, Words(w, n))
    PROVE  /\ FlatInv' /\ Sum(lens) \in Nat /\ Sum(lens) <= Total(writers[w].buffers)
           /\ Flat!Enter(w, Sum(lens))
  <1> DEFINE area == chain.writable
             all == Total(area)
             c == writers[w]
             b == c.bytes_consumed
             at == Passed(w, c, all)
             moved == Sum(lens)
             d == Consumed(c, bufs, moved)
             data == Words(w, n)
             only == DOMAIN writers = {"w"}
  <1>1. /\ w \in {"w", "data_writer"} /\ c \in Consumers /\ b \in Nat /\ Total(c.buffers) \in Nat
        /\ all \in Nat /\ at \in Nat
        /\ End(w) = [start |-> at - b, pos |-> at, limit |-> at + Total(c.buffers)]
    BY EndsFacts
  <1>2. area \in Seq(Slices) /\ Laidout(area) /\ Tracks(w, c, area)
    BY DEF FlatInv
  <1>3. /\ moved \in Nat /\ moved <= Total(c.buffers) /\ Tracks(w, d, area)
        /\ d.bytes_consumed = b + moved /\ Total(d.buffers) = Total(c.buffers) - moved
        /\ Passed(w, d, all) = at + moved /\ (Copies(lens, bufs, area, at) \/ ~Distinct(area))
    BY <1>1, <1>2, TracksOn
  <1>4. /\ mem' = Stored(bufs, lens, data) /\ writers' = [writers EXCEPT ![w] = d] /\ result' = moved
        /\ chain' = chain /\ reader' = reader /\ taken' = taken
    BY DEF Place
  <1>5. /\ DOMAIN writers' = DOMAIN writers /\ writers'[w] = d
        /\ \A v \in DOMAIN writers : v # w => writers'[v] = writers[v]
    BY <1>4
  <1>6. DOMAIN mem' = DOMAIN mem
    BY <1>4 DEF Stored
  <1>7. only => w = "w" /\ b + Total(c.buffers) = all
    BY DEF FlatInv
  <1>8. \A k \in 1 .. n : data[k] = <<w, b + k>>
    BY DEF Words
  <1>9. Within(bufs, AreaOf(area))
    BY PickedWithin DEF InsideInv
  <1> HIDE DEF moved, d, data, at, c
  <1>10. End(w)' = [start |-> at - b, pos |-> at + moved, limit |-> at + Total(c.buffers)]
    <2>1. End(w)' = EndAt(w, d, only, all)
      BY <1>4, <1>5 DEF End, EndAt
    <2>2. d \in Consumers /\ only \in BOOLEAN
      BY <1>3 DEF Tracks
    <2> HIDE DEF b, all, only, area
    <2>3. only => w = "w" /\ d.bytes_consumed + Total(d.buffers) = all
      BY <1>1, <1>3, <1>7
    <2>4. EndAt(w, d, only, all) = [start |-> Passed(w, d, all) - d.bytes_consumed,
                                    pos |-> Passed(w, d, all),
                                    limit |-> Passed(w, d, all) + Total(d.buffers)]
      BY <1>1, <2>2, <2>3, EndIs
    <2>5. (at + moved) - (b + moved) = at - b /\ (at + moved) + (Total(c.buffers) - moved) = at + Total(c.buffers)
      BY <1>1, <1>3
    <2> QED
      BY <1>3, <2>1, <2>4, <2>5
  <1>11. ASSUME NEW v \in DOMAIN writers, v # w PROVE End(v)' = End(v)
    BY <1>4, <1>5, <1>11 DEF End
  <1>12. Ends' = [Ends EXCEPT ![w].pos = @ + moved]
    <2>1. Ends = [v \in DOMAIN writers |-> End(v)] /\ Ends[w] = End(w)
      BY DEF Ends
    <2>2. Ends' = [v \in DOMAIN writers |-> End(v)']
      BY <1>5 DEF Ends
    <2>3. [End(w) EXCEPT !.pos = @ + moved] = End(w)'
      BY <1>1, <1>10
    <2>4. [Ends EXCEPT ![w].pos = @ + moved]
            = [v \in DOMAIN writers |-> IF v = w THEN [End(w) EXCEPT !.pos = @ + moved] ELSE End(v)]
      BY <2>1
    <2>5. \A v \in DOMAIN writers : End(v)' = IF v = w THEN [End(w) EXCEPT !.pos = @ + moved] ELSE End(v)
      BY <1>11, <2>3
    <2> QED
      BY <2>2, <2>4, <2>5
  <1>13. Input' = Input
    <2> DEFINE req == chain.readable
    <2>1. ASSUME NEW k \in 1 .. Total(req) PROVE mem'[Cells(req)[k]] = mem[Cells(req)[k]]
      <3>1. Cells(req)[k] \in DOMAIN mem /\ Cells(req)[k] \notin AreaOf(area)
        BY DEF FlatInv
      <3> HIDE DEF area, req
      <3> QED
        BY <1>4, <1>9, <3>1, StoredOutside
    <2>2. DOMAIN Cells(req) = 1 .. Total(req)
      BY DEF Cells
    <2>3. Input = [k \in 1 .. Total(req) |-> mem[Cells(req)[k]]]
      BY <2>2 DEF Input, Contents
    <2>4. Input' = [k \in 1 .. Total(req) |-> mem'[Cells(req)[k]]]
      BY <1>4, <2>2 DEF Input, Contents, Cells
    <2> HIDE DEF req
    <2> QED
      BY <2>1, <2>3, <2>4
  <1>14. Output' = [k \in 1 .. Len(Output) |->
                      IF k \in (at + 1) .. (at + moved) THEN <<w, k - (at - b)>> ELSE Output[k]]
    <2>1. Len(Output) = all /\ \A k \in 1 .. all : Output[k] = mem[Cells(area)[k]]
      BY <1>2, ContentsFacts DEF Output
    <2>2. DOMAIN Cells(area) = 1 .. all
      BY DEF Cells
    <2>3. Output' = [k \in 1 .. all |-> mem'[Cells(area)[k]]]
      BY <1>4, <2>2 DEF Output, Contents, Cells
    <2>4. ASSUME NEW k \in 1 .. all
          PROVE  mem'[Cells(area)[k]] = IF k \in (at + 1) .. (at + moved) THEN <<w, k - (at - b)>> ELSE Output[k]
      <3>1. Cells(area)[k] \in DOMAIN mem /\ Copies(lens, bufs, area, at)
        BY <1>2, <1>3 DEF Laidout
      <3>2. mem'[Cells(area)[k]] = Laidover(data, at, Sum(lens), k, mem[Cells(area)[k]])
        BY <1>4, <3>1, StoredAt
      <3>3. mem'[Cells(area)[k]] = Laidover(data, at, moved, k, Output[k])
        BY <2>1, <3>2 DEF moved
      <3> HIDE DEF b, all, area
      <3>4. CASE k - at \in 1 .. moved
        <4>1. moved <= n
          BY DEF moved
        <4>2. /\ k \in (at + 1) .. (at + moved) /\ k - at \in 1 .. n /\ b + (k - at) = k - (at - b)
          BY <1>1, <1>3, <3>4, <4>1
        <4>3. data[k - at] = <<w, k - (at - b)>>
          BY <1>8, <4>2 DEF b
        <4> QED
          BY <3>3, <3>4, <4>2, <4>3 DEF Laidover
      <3>5. CASE k - at \notin 1 .. moved
        <4>1. k \notin (at + 1) .. (at + moved)
          BY <1>1, <1>3, <3>5
        <4> QED
          BY <3>3, <3>5, <4>1 DEF Laidover
      <3> QED
        BY <3>4, <3>5
    <2> HIDE DEF all, area, b
    <2> QED
      BY <2>1, <2>3, <2>4
  <1>15. Flat!Enter(w, moved)
    <2>1. Ends[w] = End(w) /\ End(w).pos = at /\ End(w).start = at - b
      BY <1>1 DEF Ends
    <2>2. Output' = [k \in 1 .. Len(Output) |->
                      IF k \in (Ends[w].pos + 1) .. (Ends[w].pos + moved)
                      THEN <<w, k - Ends[w].start>> ELSE Output[k]]
      BY <1>14, <2>1
    <2> QED
      BY <1>4, <1>12, <1>13, <2>2 DEF Flat!Enter, Input, Output, Ends
  <1>16. FlatInv'
    <2>1. Laidout(chain.writable)'
      BY <1>2, <1>4, <1>6 DEF Laidout
    <2>2. \A v \in DOMAIN writers : Tracks(v, writers'[v], chain'.writable)
      <3> SUFFICES ASSUME NEW v \in DOMAIN writers PROVE Tracks(v, writers'[v], area)
        BY <1>4
      <3>1. CASE v = w
        BY <1>3, <1>5, <3>1
      <3>2. CASE v # w
        BY <1>5, <3>2 DEF FlatInv
      <3> QED
        BY <3>1, <3>2
    <2>3. \A v \in DOMAIN writers' : Tracks(v, writers[v], chain.writable)'
      BY <1>5, <2>2 DEF Tracks, Passed, PartOf, NoEmpty
    <2>4. only => writers'["w"].bytes_consumed + Total(writers'["w"].buffers) = all
      <3> SUFFICES ASSUME only PROVE d.bytes_consumed + Total(d.buffers) = all
        BY <1>5, <1>7
      <3>1. b + Total(c.buffers) = all
        BY <1>7
      <3> HIDE DEF b, all
      <3> QED
        BY <1>1, <1>3, <3>1
    <2>5. PlacedIn(reader, chain.readable)'
      BY <1>4 DEF FlatInv, PlacedIn
    <2> QED
      BY <1>4, <1>5, <1>6, <2>1, <2>3, <2>4, <2>5 DEF FlatInv
  <1> QED
    BY <1>3, <1>15, <1>16 DEF moved, c

LEMMA NoEmptySplit ==
    ASSUME NEW bufs \in Seq(Slices), NoEmpty(bufs), NEW n \in Nat, n <= Total(bufs)
    PROVE  NoEmpty(Kept(bufs, n))
  <1> DEFINE k == Whole(bufs, n)
             remain == n - Before(bufs, k + 1)
             last == Subslice(bufs[k + 1], remain)
             front == First(bufs, k)
             S == Slices \cup {last}
             one == <<last>>
  <1>1. k \in 0 .. Len(bufs) /\ Len(bufs) \in Nat
    BY WholeFacts
  <1>2. Kept(bufs, n) = front \o (IF remain > 0 THEN one ELSE <<>>)
    BY DEF Kept, First
  <1>3. last.len = remain
    BY DEF Subslice, Slice
  <1> HIDE DEF k, remain
  <1>4. /\ front \in Seq(Slices) /\ Len(front) = k
        /\ \A i \in 1 .. k : front[i] = bufs[i] /\ i \in 1 .. Len(bufs)
    BY <1>1, FirstFacts
  <1> HIDE DEF front, last
  <1>5. NoEmpty(front)
    BY <1>4 DEF NoEmpty
  <1>6. CASE ~(remain > 0)
    <2>1. Kept(bufs, n) = front
      BY <1>2, <1>4, <1>6
    <2> QED
      BY <1>5, <2>1
  <1>7. CASE remain > 0
    <2>1. front \in Seq(S) /\ one \in Seq(S) /\ Len(one) = 1 /\ one[1] = last
      BY <1>4
    <2> HIDE DEF one, S
    <2>2. /\ Len(front \o one) = Len(front) + Len(one)
          /\ \A i \in 1 .. Len(front) + Len(one) :
               (front \o one)[i] = IF i <= Len(front) THEN front[i] ELSE one[i - Len(front)]
      BY <2>1, ConcatProperties
    <2>3. ASSUME NEW i \in 1 .. (k + 1) PROVE (front \o one)[i].len > 0
      <3>1. CASE i <= k
        <4>1. i \in 1 .. k /\ i \in 1 .. k + 1
          BY <1>1, <3>1
        <4> QED
          BY <1>4, <1>5, <2>1, <2>2, <3>1, <4>1 DEF NoEmpty
      <3>2. CASE ~(i <= k)
        <4>1. i - k = 1 /\ i \in 1 .. k + 1
          BY <1>1, <3>2
        <4> QED
          BY <1>3, <1>4, <1>7, <2>1, <2>2, <3>2, <4>1
      <3> QED
        BY <3>1, <3>2
    <2>4. Kept(bufs, n) = front \o one
      BY <1>2, <1>7
    <2> QED
      BY <1>4, <2>1, <2>2, <2>3, <2>4 DEF NoEmpty
  <1> QED
    BY <1>6, <1>7

\* split_at.
LEMMA Splits ==
    ASSUME FlatInv, NEW n \in Nat, SplitAt(n)
    PROVE  FlatInv' /\ Flat!Split(n)
  <1> DEFINE area == chain.writable
             all == Total(area)
             c == writers["w"]
             old == c.buffers
             b == c.bytes_consumed
             left == Total(old)
             kept == [c EXCEPT !.buffers = Kept(@, n)]
             rest == Consumer(Advance(old, n))
             cut == b + n
  <1>1. /\ DOMAIN writers = {"w"} /\ n <= left /\ chain' = chain /\ mem' = mem /\ reader' = reader
        /\ taken' = taken /\ result' = result
        /\ writers' = [w \in {"w", "data_writer"} |-> IF w = "w" THEN kept ELSE rest]
    BY DEF SplitAt, CanSplit
  <1>2. /\ c \in Consumers /\ b \in Nat /\ left \in Nat /\ all \in Nat
        /\ End("w") = [start |-> Passed("w", c, all) - b, pos |-> Passed("w", c, all),
                       limit |-> Passed("w", c, all) + left]
        /\ Flat!Room("w") = left
    BY <1>1, EndsFacts
  <1>3. Passed("w", c, all) = b /\ b + left = all
    BY <1>1 DEF Passed, FlatInv
  <1>4. /\ old \in Seq(Slices) /\ area \in Seq(Slices) /\ PartOf(old, area, b) /\ (NoEmpty(area) => NoEmpty(old))
    BY <1>1, <1>2, <1>3 DEF FlatInv, Tracks, Consumers
  <1>5. /\ Kept(old, n) \in Seq(Slices) /\ Advance(old, n) \in Seq(Slices)
        /\ Total(Kept(old, n)) = n /\ Total(Advance(old, n)) = left - n
        /\ \A p \in 1 .. n : Cells(Kept(old, n))[p] = Cells(old)[p]
        /\ \A p \in 1 .. (left - n) : Cells(Advance(old, n))[p] = Cells(old)[n + p]
    BY <1>1, <1>4, SplitTyped, AdvanceTotal, SplitCells
  <1>6. /\ kept \in Consumers /\ kept.buffers = Kept(old, n) /\ kept.bytes_consumed = b
        /\ rest \in Consumers /\ rest.buffers = Advance(old, n) /\ rest.bytes_consumed = 0
    BY <1>2, <1>5 DEF Consumers, Consumer
  <1>7. /\ DOMAIN writers' = {"w", "data_writer"} /\ writers'["w"] = kept /\ writers'["data_writer"] = rest
    BY <1>1
  <1>8. Passed("w", kept, all) = b /\ Passed("data_writer", rest, all) = all - (left - n)
    BY <1>5, <1>6 DEF Passed
  <1>9. /\ NoEmpty(area) => NoEmpty(Kept(old, n)) /\ NoEmpty(Advance(old, n))
    BY <1>1, <1>4, NoEmptyKept, NoEmptySplit
  <1> HIDE DEF kept, rest, left, b, all, area, old, c
  <1>10. all - (left - n) = cut /\ cut \in Nat /\ cut + (left - n) = all /\ b + n <= all
    BY <1>1, <1>2, <1>3
  <1>11. PartOf(Kept(old, n), area, b)
    <2> SUFFICES ASSUME NEW p \in 1 .. n
                 PROVE  b + p \in 1 .. Total(area) /\ Cells(Kept(old, n))[p] = Cells(area)[b + p]
      BY <1>5 DEF PartOf
    <2>1. p \in 1 .. left
      BY <1>1, <1>2
    <2> QED
      BY <1>4, <1>5, <2>1 DEF PartOf, left
  <1>12. PartOf(Advance(old, n), area, cut)
    <2> SUFFICES ASSUME NEW p \in 1 .. (left - n)
                 PROVE  cut + p \in 1 .. Total(area) /\ Cells(Advance(old, n))[p] = Cells(area)[cut + p]
      BY <1>5 DEF PartOf
    <2> DEFINE q == n + p
    <2>1. q \in 1 .. left /\ b + q = cut + p
      BY <1>1, <1>2
    <2>2. Cells(Advance(old, n))[p] = Cells(old)[q]
      BY <1>5
    <2> HIDE DEF q, cut
    <2>3. b + q \in 1 .. Total(area) /\ Cells(old)[q] = Cells(area)[b + q]
      BY <1>4, <2>1 DEF PartOf, left
    <2> QED
      BY <2>1, <2>2, <2>3
  <1> HIDE DEF cut
  <1>13. Tracks("w", kept, area)
    <2>1. Total(kept.buffers) = n
      BY <1>5, <1>6
    <2> QED
      BY <1>2, <1>6, <1>8, <1>9, <1>10, <1>11, <2>1 DEF Tracks, all
  <1>14. Tracks("data_writer", rest, area)
    <2>1. Total(rest.buffers) = left - n /\ Passed("data_writer", rest, all) = cut
      BY <1>5, <1>6, <1>8, <1>10
    <2>2. cut + (left - n) <= all
      BY <1>2, <1>10
    <2> QED
      BY <1>6, <1>9, <1>10, <1>12, <2>1, <2>2 DEF Tracks, all
  <1>15. End("w")' = [start |-> b - b, pos |-> b, limit |-> cut]
    <2>1. DOMAIN writers' # {"w"} /\ chain'.writable = area
      BY <1>1, <1>7 DEF area
    <2>2. End("w")' = EndAt("w", kept, FALSE, all)
      BY <1>7, <2>1 DEF End, EndAt, all
    <2>3. EndAt("w", kept, FALSE, all) = [start |-> Passed("w", kept, all) - kept.bytes_consumed,
                                          pos |-> Passed("w", kept, all),
                                          limit |-> Passed("w", kept, all) + Total(kept.buffers)]
      BY <1>2, <1>6, EndIs
    <2> QED
      BY <1>5, <1>6, <1>8, <2>2, <2>3 DEF cut
  <1>16. End("data_writer")' = [start |-> cut, pos |-> cut, limit |-> b + left]
    <2>1. DOMAIN writers' # {"w"} /\ chain'.writable = area
      BY <1>1, <1>7 DEF area
    <2>2. End("data_writer")' = EndAt("data_writer", rest, FALSE, all)
      BY <1>7, <2>1 DEF End, EndAt, all
    <2>3. EndAt("data_writer", rest, FALSE, all)
            = [start |-> Passed("data_writer", rest, all) - rest.bytes_consumed,
               pos |-> Passed("data_writer", rest, all),
               limit |-> Passed("data_writer", rest, all) + Total(rest.buffers)]
      BY <1>2, <1>6, EndIs
    <2>4. cut - 0 = cut /\ cut + (left - n) = b + left
      BY <1>3, <1>10
    <2> QED
      BY <1>5, <1>6, <1>8, <1>10, <2>2, <2>3, <2>4
  <1>17. Ends' = [w \in {"w", "data_writer"} |->
                    IF w = "w" THEN [Ends["w"] EXCEPT !.limit = Ends["w"].pos + n]
                    ELSE [start |-> Ends["w"].pos + n, pos |-> Ends["w"].pos + n, limit |-> Ends["w"].limit]]
    <2>1. Ends["w"] = End("w") /\ End("w") = [start |-> b - b, pos |-> b, limit |-> b + left]
      BY <1>1, <1>2, <1>3 DEF Ends
    <2> DEFINE e == Ends["w"]
    <2>2. e.pos + n = cut /\ e.limit = b + left /\ [e EXCEPT !.limit = cut] = End("w")'
      BY <1>15, <2>1 DEF cut
    <2>3. Ends' = [w \in {"w", "data_writer"} |-> End(w)']
      BY <1>7 DEF Ends
    <2> HIDE DEF e
    <2>4. Ends' = [w \in {"w", "data_writer"} |->
                    IF w = "w" THEN [e EXCEPT !.limit = e.pos + n]
                    ELSE [start |-> e.pos + n, pos |-> e.pos + n, limit |-> e.limit]]
      BY <1>16, <2>2, <2>3
    <2> QED
      BY <2>4 DEF e
  <1>18. Input' = Input /\ Output' = Output
    BY <1>1 DEF Input, Output, Contents
  <1>19. DOMAIN Ends = {"w"}
    BY <1>1 DEF Ends
  <1>20. Flat!Split(n)
    BY <1>1, <1>2, <1>17, <1>18, <1>19 DEF Flat!Split, Input, Output, Ends
  <1>21. FlatInv'
    <2>1. Laidout(chain.writable)'
      BY <1>1 DEF Laidout, FlatInv
    <2>2. \A v \in DOMAIN writers' : Tracks(v, writers'[v], chain'.writable)
      BY <1>1, <1>7, <1>13, <1>14 DEF area
    <2>3. \A v \in DOMAIN writers' : Tracks(v, writers[v], chain.writable)'
      BY <2>2 DEF Tracks, Passed, PartOf, NoEmpty
    <2>4. DOMAIN writers' # {"w"}
      BY <1>7
    <2>5. PlacedIn(reader, chain.readable)'
      BY <1>1 DEF FlatInv, PlacedIn
    <2> QED
      BY <1>1, <1>7, <2>1, <2>3, <2>4, <2>5 DEF FlatInv
  <1> QED
    BY <1>20, <1>21

\* A copy that stops at an empty slice moves no more than one that does not.
LEMMA VectoredSum ==
    ASSUME NEW bufs \in Seq(Slices), NEW n \in Nat
    PROVE  /\ Sum(VectoredLens(bufs, n)) \in Nat /\ Sum(VectoredLens(bufs, n)) <= n
           /\ Sum(CopyLens(bufs, n)) <= n
  <1> DEFINE copy == CopyLens(bufs, n)
             less == VectoredLens(bufs, n)
  <1>1. copy \in Seq(Nat) /\ less \in Seq(Nat) /\ Len(copy) = Len(bufs) /\ Len(less) = Len(bufs)
    BY CopyFits DEF Fits
  <1>2. \A i \in 1 .. Len(bufs) : less[i] = 0 \/ less[i] = copy[i]
    BY DEF VectoredLens
  <1>3. Sum(copy) \in Nat /\ Sum(copy) <= n
    <2>1. Sum(copy) = Least(n, Total(bufs)) /\ Total(bufs) \in Nat
      BY CopySum, TotalFacts
    <2> QED
      BY <2>1 DEF Least
  <1> HIDE DEF copy, less
  <1>4. WordsIn(less) \subseteq WordsIn(copy)
    <2> SUFFICES ASSUME NEW x \in WordsIn(less) PROVE x \in WordsIn(copy)
      OBVIOUS
    <2>1. x = <<x[1], x[2]>> /\ x[1] \in 1 .. Len(bufs) /\ x[2] \in 1 .. less[x[1]]
      BY <1>1, WordIn
    <2>2. less[x[1]] # 0
      BY <2>1
    <2>3. x[2] \in 1 .. copy[x[1]]
      BY <1>2, <2>1, <2>2
    <2>4. <<x[1], x[2]>> \in WordsIn(copy)
      BY <1>1, <2>1, <2>3, WordIn
    <2> QED
      BY <2>1, <2>4
  <1>5. Sum(less) <= Sum(copy) /\ Sum(less) \in Nat
    <2>1. IsFiniteSet(WordsIn(copy)) /\ Sum(less) \in Nat
      BY <1>1, WordsFinite
    <2>2. Cardinality(WordsIn(less)) <= Cardinality(WordsIn(copy))
      BY <1>4, <2>1, FS_Subset
    <2> QED
      BY <2>1, <2>2 DEF Sum
  <1> QED
    BY <1>3, <1>5 DEF copy, less

\* Every call is one of FlatBuffer's.
LEMMA FlatSteps ==
    ASSUME FlatInv, InsideInv, [ChainNext]_dvars
    PROVE  FlatInv' /\ [Flat!Next]_Flat!fvars
  <1>1. CASE UNCHANGED dvars
    <2>1. /\ chain' = chain /\ mem' = mem /\ reader' = reader /\ taken' = taken /\ writers' = writers
          /\ result' = result
      BY <1>1 DEF dvars
    <2>2. Input' = Input /\ Output' = Output /\ Ends' = Ends
      BY <2>1 DEF Input, Output, Ends, End, Contents
    <2>3. UNCHANGED Flat!fvars
      BY <2>1, <2>2 DEF Flat!fvars, Input, Output, Ends
    <2>4. Laidout(chain.writable)' /\ PlacedIn(reader, chain.readable)'
      BY <2>1 DEF FlatInv, Laidout, PlacedIn
    <2>5. \A v \in DOMAIN writers' : Tracks(v, writers[v], chain.writable)'
      BY <2>1 DEF FlatInv, Tracks, Passed, PartOf, NoEmpty
    <2>6. FlatInv'
      BY <2>1, <2>4, <2>5 DEF FlatInv
    <2> QED
      BY <2>3, <2>6
  <1>2. ASSUME NEW n \in 1 .. MaxCall, Read(n) \/ ReadToAt(n)
        PROVE  FlatInv' /\ (Flat!Take(n) \/ Flat!TakeAtLeast(n))
    <2> DEFINE old == reader.buffers
               bufs == Picked(old, n)
               left == Total(old)
    <2>1. n \in Nat /\ reader \in Consumers /\ old \in Seq(Slices) /\ left \in Nat
      BY ChainAssumption, TotalFacts DEF FlatInv, Consumers
    <2>2. /\ bufs \in Seq(Slices) /\ Total(bufs) \in Nat /\ Total(bufs) <= left
          /\ Least(n, Total(bufs)) = Least(n, left)
      BY <2>1, PickedFacts
    <2>3. CASE Read(n)
      <3> DEFINE lens == CopyLens(bufs, n)
      <3>1. Fits(lens, bufs) /\ InOrder(lens, bufs) /\ Deliver(bufs, lens)
        BY <2>1, <2>2, <2>3, CopyFits, CopyInOrder DEF Read
      <3>2. Sum(lens) = Least(n, left)
        BY <2>1, <2>2, CopySum
      <3> HIDE DEF lens
      <3>3. FlatInv' /\ Flat!Hand(Sum(lens)) /\ Flat!Rest = left
        BY <2>1, <3>1, Hands
      <3>4. Flat!AtMost(n, Flat!Rest) = Sum(lens)
        BY <3>2, <3>3 DEF Flat!AtMost, Least
      <3>5. Flat!Take(n)
        BY <3>3, <3>4 DEF Flat!Take
      <3> QED
        BY <3>3, <3>5
    <2>4. CASE ReadToAt(n)
      <3> DEFINE lens == Lens(bufs)
                 m == Sum(lens)
      <3>1. Fits(lens, bufs)
        <4>1. lens \in Seq(Nat) /\ Len(lens) = Len(bufs) /\ \A i \in 1 .. Len(bufs) : lens[i] = bufs[i].len
          BY <2>2, LensFacts
        <4>2. \A i \in 1 .. Len(bufs) : bufs[i].len \in Nat
          BY <2>2, SliceAt
        <4> QED
          BY <4>1, <4>2 DEF Fits
      <3>2. InOrder(lens, bufs)
        <4> SUFFICES ASSUME NEW i \in 1 .. Len(bufs) PROVE Sum(First(lens, i - 1)) = Before(bufs, i)
          BY DEF InOrder
        <4>1. i \in 1 .. (Len(bufs) + 1)
          BY <2>2
        <4> QED
          BY <2>2, <4>1, BeforeIsSum
      <3>3. Deliver(bufs, lens) /\ m = Total(bufs)
        BY <2>4 DEF ReadToAt, Total
      <3> HIDE DEF lens
      <3>4. FlatInv' /\ Flat!Hand(m) /\ Flat!Rest = left
        BY <2>1, <3>1, <3>2, <3>3, Hands
      <3> HIDE DEF m, left, bufs
      <3>5. m \in Least(n, left) .. left
        BY <2>1, <2>2, <3>3 DEF Least
      <3>6. Flat!AtMost(n, Flat!Rest) = Least(n, left)
        BY <3>4 DEF Flat!AtMost, Least
      <3>7. Flat!TakeAtLeast(n)
        BY <3>4, <3>5, <3>6 DEF Flat!TakeAtLeast
      <3> QED
        BY <3>4, <3>7
    <2> QED
      BY <1>2, <2>3, <2>4
  <1>3. ASSUME NEW n \in 1 .. MaxCall, SplitAt(n) PROVE FlatInv' /\ Flat!Split(n)
    <2>1. n \in Nat
      BY ChainAssumption
    <2> QED
      BY <1>3, <2>1, Splits
  <1>4. ASSUME NEW n \in 1 .. MaxCall, NEW w \in DOMAIN writers,
               Write(w, Words(w, n)) \/ WriteFromAt(w, Words(w, n))
        PROVE  FlatInv' /\ (Flat!Put(w, n) \/ Flat!PutFrom(w, n))
    <2> DEFINE c == writers[w]
               bufs == Picked(c.buffers, n)
               left == Total(c.buffers)
               data == Words(w, n)
    <2>1. n \in Nat
      BY ChainAssumption
    <2>2. c \in Consumers /\ left \in Nat /\ Flat!Room(w) = left
      BY EndsFacts
    <2>3. c.buffers \in Seq(Slices)
      BY <2>2 DEF Consumers
    <2>4. bufs \in Seq(Slices)
      BY <2>1, <2>3, PickedFacts
    <2>5. Len(data) = n
      BY <2>1 DEF Words
    <2>6. Sum(CopyLens(bufs, n)) = Least(n, left)
      BY <2>1, <2>2, CopyMoves
    <2>7. Flat!AtMost(n, Flat!Room(w)) = Least(n, left)
      BY <2>2 DEF Flat!AtMost, Least
    <2>8. CASE Write(w, data)
      <3> DEFINE lens == CopyLens(bufs, n)
      <3>1. Fits(lens, bufs) /\ InOrder(lens, bufs) /\ Sum(lens) <= n
        BY <2>1, <2>4, CopyFits, CopyInOrder, VectoredSum
      <3>2. Place(w, bufs, lens, data)
        BY <2>5, <2>8 DEF Write
      <3> HIDE DEF lens
      <3>3. FlatInv' /\ Flat!Enter(w, Sum(lens))
        BY <2>1, <3>1, <3>2, Enters
      <3>4. Flat!Put(w, n)
        BY <2>6, <2>7, <3>3 DEF Flat!Put, lens
      <3> QED
        BY <3>3, <3>4
    <2>9. CASE WriteFromAt(w, data)
      <3> DEFINE lens == VectoredLens(bufs, n)
                 m == Sum(lens)
      <3>1. Fits(lens, bufs) /\ InOrder(lens, bufs) /\ m \in Nat /\ m <= n
        BY <2>1, <2>4, CopyFits, CopyInOrder, VectoredSum
      <3>2. Place(w, bufs, lens, data)
        BY <2>5, <2>9 DEF WriteFromAt
      <3>3. NoEmpty(chain.writable) => m = Least(n, left)
        <4> SUFFICES ASSUME NoEmpty(chain.writable) PROVE m = Least(n, left)
          OBVIOUS
        <4>1. NoEmpty(c.buffers)
          BY DEF FlatInv, Tracks
        <4>2. NoEmpty(bufs)
          BY <2>1, <2>3, <4>1, NoEmptyKept
        <4> HIDE DEF bufs, left
        <4> QED
          BY <2>1, <2>4, <2>6, <4>2, VectoredIsCopy
      <3> HIDE DEF lens
      <3>4. FlatInv' /\ Flat!Enter(w, m) /\ m <= left
        BY <2>1, <3>1, <3>2, Enters
      <3> HIDE DEF m, left, bufs
      <3>5. m \in 0 .. Least(n, left)
        BY <2>1, <2>2, <3>1, <3>4 DEF Least
      <3>6. (\E i \in DOMAIN chain.writable : chain.writable[i].len = 0) \/ m = Least(n, left)
        <4>1. DOMAIN chain.writable = 1 .. Len(chain.writable) /\ \A i \in 1 .. Len(chain.writable) : chain.writable[i].len \in Nat
          BY SliceAt DEF FlatInv
        <4>2. ~NoEmpty(chain.writable) => \E i \in DOMAIN chain.writable : chain.writable[i].len = 0
          BY <4>1 DEF NoEmpty
        <4> QED
          BY <3>3, <4>2
      <3>7. Flat!PutFrom(w, n)
        BY <2>7, <3>4, <3>5, <3>6 DEF Flat!PutFrom
      <3> QED
        BY <3>4, <3>7
    <2> QED
      BY <1>4, <2>8, <2>9
  <1>5. CASE ChainNext
    <2>1. PICK n \in 1 .. MaxCall :
             \/ Read(n) \/ ReadToAt(n) \/ SplitAt(n)
             \/ \E w \in DOMAIN writers : Write(w, Words(w, n)) \/ WriteFromAt(w, Words(w, n))
      BY <1>5 DEF ChainNext
    <2>2. CASE Read(n) \/ ReadToAt(n) \/ SplitAt(n)
      BY <1>2, <1>3, <2>2 DEF Flat!Next
    <2>3. CASE \E w \in DOMAIN writers : Write(w, Words(w, n)) \/ WriteFromAt(w, Words(w, n))
      <3>1. PICK w \in DOMAIN writers : Write(w, Words(w, n)) \/ WriteFromAt(w, Words(w, n))
        BY <2>3
      <3>2. FlatInv' /\ (Flat!Put(w, n) \/ Flat!PutFrom(w, n))
        BY <1>4, <3>1
      <3>3. DOMAIN Ends = DOMAIN writers
        BY DEF Ends
      <3>4. Flat!Next
        BY <3>2, <3>3 DEF Flat!Next, Ends
      <3> QED
        BY <3>2, <3>4
    <2> QED
      BY <2>1, <2>2, <2>3
  <1> QED
    BY <1>1, <1>5

(* A chain of descriptors acts as two contiguous runs of words for every slicing,
   every sequence of calls and every split: nothing is skipped, repeated or put
   elsewhere at the border of two slices, no call moves less than it could, except
   write_from_at in an area with an empty slice, and results and bytes_consumed
   count exactly what moved. *)
THEOREM ChainActsAsFlat == ChainSpec => ActsAsFlat
  <1>1. ChainInit => FlatInv /\ InsideInv /\ NoStrayWrite /\ Flat!Init
    BY FlatStarts, ChainStarts
  <1>2. FlatInv /\ InsideInv /\ NoStrayWrite /\ [ChainNext]_dvars
          => (FlatInv /\ InsideInv /\ NoStrayWrite)' /\ [Flat!Next]_Flat!fvars
    BY FlatSteps, ChainSteps
  <1> QED
    BY <1>1, <1>2, PTL DEF ChainSpec, ActsAsFlat, Flat!Spec

=============================================================================
