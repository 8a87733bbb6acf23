------------------------ MODULE ObservationRelayProofs ------------------------
(***************************************************************************)
(* Proofs about observations on their way, for any sources, sizes and      *)
(* limits: no record is repeated or overtaken, buffers and stream stay     *)
(* within their limits, and what is missing has been counted.              *)
(*                                                                         *)
(* None of the three is inductive.  They rest on one invariant, Inv: the   *)
(* records of a source, from its file to its buffer, are at seven stations *)
(* (Station), each with earlier records than the next (InOrder); a         *)
(* thread that holds a record is at a label that says so (Consistent);     *)
(* lengths and frames take turns on a channel, so that a reader never      *)
(* takes one for the other (Alternating); and what is missing is balanced  *)
(* by what is counted (Ledger, FileCounted).  A step moves one record to   *)
(* the next station, lets the oldest of one go, or adds a new one.         *)
(***************************************************************************)
EXTENDS ObservationRelay, SequenceTheorems, FiniteSetTheorems, WellFoundedInduction, TLAPS

\* A set of natural numbers that is not empty has a least element.
LEMMA LeastElement ==
    ASSUME NEW S \in SUBSET Nat, S # {} PROVE \E x \in S : \A y \in S : x <= y
<1> DEFINE below == {p \in Nat \X Nat : p[1] < p[2]}
<1>1. IsWellFoundedOn(OpToRel(<, Nat), Nat)
  BY NatLessThanWellFounded
<1>2. OpToRel(<, Nat) = below
  BY Zenon DEF OpToRel
<1>3. IsWellFoundedOn(below, Nat)
  BY <1>1, <1>2, Zenon
<1>4. \E x \in S : \A y \in S : ~(<<y, x>> \in below)
  BY <1>3, WFMin
<1>5. \A x, y \in Nat : ~(<<y, x>> \in below) => x <= y
  OBVIOUS
<1> HIDE DEF below
<1> QED
  BY <1>4, <1>5

\* Induction, for a set.
LEMMA AllNumbers ==
    ASSUME NEW T, 0 \in T, \A n \in Nat : n \in T => n + 1 \in T PROVE Nat \subseteq T
<1> SUFFICES ASSUME ~(Nat \subseteq T) PROVE FALSE
  OBVIOUS
<1>1. PICK x \in Nat \ T : \A y \in Nat \ T : x <= y
  BY LeastElement
<1>2. x - 1 \in Nat \ T
  BY <1>1
<1> QED
  BY <1>1, <1>2

(***************************************************************************)
(* The bytes of a sequence of records.                                     *)
(***************************************************************************)
Index == 1..Len(Size)

\* A function gives the sums of the first up to n records.
SumsTo(records, sum, n) ==
    sum = [k \in 0..n |-> IF k = 0 THEN 0 ELSE sum[k - 1] + Size[records[k]]]
Sums(records) == CHOOSE sum : SumsTo(records, sum, Len(records))

\* What SizeOf adds up is the last of the sums.
LEMMA SizeIsSum == \A records : SizeOf(records) = Sums(records)[Len(records)]
BY Zenon DEF SizeOf, Sums, SumsTo

\* There is such a function, for records of known sizes.
LEMMA SumsExist ==
    ASSUME NEW records \in Seq(Index) PROVE SumsTo(records, Sums(records), Len(records))
<1> DEFINE T == {n \in Nat : \E sum : SumsTo(records, sum, n)}
<1>1. 0 \in T
  <2> DEFINE g == [k \in 0..0 |-> 0]
  <2>1. \A k \in 0..0 : (IF k = 0 THEN 0 ELSE g[k - 1] + Size[records[k]]) = 0
    OBVIOUS
  <2>2. g = [k \in 0..0 |-> IF k = 0 THEN 0 ELSE g[k - 1] + Size[records[k]]]
    <3> HIDE DEF g
    <3>1. g = [k \in 0..0 |-> 0]
      BY DEF g
    <3> QED
      BY <2>1, <3>1, Zenon
  <2> QED
    BY <2>2, Zenon DEF SumsTo
<1>2. ASSUME NEW n \in Nat, n \in T PROVE n + 1 \in T
  <2>1. PICK sum : SumsTo(records, sum, n)
    BY <1>2
  <2> DEFINE g == [k \in 0..n + 1 |-> IF k = 0 THEN 0 ELSE sum[k - 1] + Size[records[k]]]
  <2>2. ASSUME NEW k \in 0..n, k # 0 PROVE sum[k] = sum[k - 1] + Size[records[k]]
    BY <2>1, <2>2 DEF SumsTo
  <2>3. sum[0] = 0
    BY <2>1 DEF SumsTo
  <2>4. \A k \in 0..n : g[k] = sum[k]
    BY <2>2, <2>3
  <2>5. \A k \in 0..n + 1 : (IF k = 0 THEN 0 ELSE sum[k - 1] + Size[records[k]])
                          = (IF k = 0 THEN 0 ELSE g[k - 1] + Size[records[k]])
    <3> HIDE DEF g
    <3> TAKE k \in 0..n + 1
    <3>1. k # 0 => k - 1 \in 0..n
      OBVIOUS
    <3> QED
      BY <2>4, <3>1
  <2>6. g = [k \in 0..n + 1 |-> IF k = 0 THEN 0 ELSE g[k - 1] + Size[records[k]]]
    <3>1. g = [k \in 0..n + 1 |-> IF k = 0 THEN 0 ELSE sum[k - 1] + Size[records[k]]]
      OBVIOUS
    <3> HIDE DEF g
    <3> QED
      BY <2>5, <3>1, Zenon
  <2>7. SumsTo(records, g, n + 1)
    <3> HIDE DEF g
    <3> QED
      BY <2>6, Zenon DEF SumsTo
  <2> HIDE DEF g
  <2>8. n + 1 \in Nat
    OBVIOUS
  <2> QED
    BY <2>7, <2>8
<1>3. Len(records) \in T
  <2> HIDE DEF T
  <2> QED
    BY <1>1, <1>2, AllNumbers
<1> QED
  BY <1>3, Zenon DEF Sums

\* Its values, one after the other.
LEMMA SumsAre ==
    ASSUME NEW records \in Seq(Index)
    PROVE  /\ Sums(records)[0] = 0
           /\ \A k \in 1..Len(records) :
                 Sums(records)[k] = Sums(records)[k - 1] + Size[records[k]] /\ records[k] \in Index
<1> DEFINE sum == Sums(records)
<1>1. sum = [k \in 0..Len(records) |-> IF k = 0 THEN 0 ELSE sum[k - 1] + Size[records[k]]]
  BY SumsExist DEF SumsTo
<1>2. Len(records) \in Nat
  OBVIOUS
<1> HIDE DEF sum
<1>3. \A k \in 0..Len(records) : sum[k] = IF k = 0 THEN 0 ELSE sum[k - 1] + Size[records[k]]
  BY <1>1
<1>4. sum[0] = 0
  BY <1>2, <1>3
<1>5. \A k \in 1..Len(records) : sum[k] = sum[k - 1] + Size[records[k]] /\ records[k] \in Index
  BY <1>2, <1>3
<1> QED
  BY <1>4, <1>5 DEF sum

\* No record is empty.
LEMMA SizesAre == \A i \in Index : Size[i] \in Nat \ {0}
BY RecordsAssumption DEF Index

\* Sums are natural numbers.
LEMMA SumsAreNumbers ==
    ASSUME NEW records \in Seq(Index) PROVE \A k \in 0..Len(records) : Sums(records)[k] \in Nat
<1> DEFINE odd == {k \in Nat : k <= Len(records) /\ ~(Sums(records)[k] \in Nat)}
<1> SUFFICES ASSUME odd # {} PROVE FALSE
  OBVIOUS
<1>1. PICK k \in odd : \A j \in odd : k <= j
  BY LeastElement
<1>2. k # 0
  BY <1>1, SumsAre
<1>3. k - 1 \in Nat /\ ~(k - 1 \in odd) /\ k \in 1..Len(records)
  BY <1>1, <1>2
<1>4. Sums(records)[k - 1] \in Nat
  BY <1>3
<1>5. Size[records[k]] \in Nat
  BY <1>3, SumsAre, SizesAre
<1>6. Sums(records)[k] = Sums(records)[k - 1] + Size[records[k]]
  BY <1>3, SumsAre
<1>7. Sums(records)[k] \in Nat
  BY <1>4, <1>5, <1>6
<1> QED
  BY <1>1, <1>7

\* A part of a sequence has the sums of that part.
LEMMA SumsOfPart ==
    ASSUME NEW records \in Seq(Index), NEW part \in Seq(Index), NEW d \in Nat,
           d + Len(part) <= Len(records), \A k \in 1..Len(part) : part[k] = records[k + d]
    PROVE  \A k \in 0..Len(part) : Sums(records)[k + d] = Sums(records)[d] + Sums(part)[k]
<1> DEFINE sum == Sums(records)
           own == Sums(part)
           odd == {k \in Nat : k <= Len(part) /\ sum[k + d] # sum[d] + own[k]}
<1> SUFFICES ASSUME odd # {} PROVE FALSE
  <2>1. Len(part) \in Nat
    OBVIOUS
  <2> HIDE DEF sum, own
  <2>2. \A k \in 0..Len(part) : sum[k + d] = sum[d] + own[k]
    BY <2>1
  <2> QED
    BY <2>2 DEF sum, own
<1>1. PICK k \in odd : \A j \in odd : k <= j
  BY LeastElement
<1>0. Len(records) \in Nat /\ Len(part) \in Nat
  OBVIOUS
<1>t. /\ \A j \in 0..Len(records) : Sums(records)[j] \in Nat
      /\ \A j \in 0..Len(part) : Sums(part)[j] \in Nat
  BY SumsAreNumbers
<1>2. k # 0
  <2>1. Sums(part)[0] = 0 /\ Sums(records)[d] \in Nat /\ 0 + d = d
    BY <1>0, <1>t, SumsAre
  <2> QED
    BY <1>1, <2>1
<1>3. k - 1 \in Nat /\ ~(k - 1 \in odd) /\ k \in 1..Len(part) /\ k + d \in 1..Len(records)
      /\ (k + d) - 1 = (k - 1) + d /\ (k + d) - 1 \in 0..Len(records) /\ d \in 0..Len(records) /\ k - 1 \in 0..Len(part)
  BY <1>0, <1>1, <1>2
<1>4. Sums(records)[(k - 1) + d] = Sums(records)[d] + Sums(part)[k - 1]
  BY <1>3
<1>5. /\ Sums(records)[k + d] = Sums(records)[(k - 1) + d] + Size[records[k + d]]
      /\ Sums(part)[k] = Sums(part)[k - 1] + Size[part[k]]
      /\ part[k] = records[k + d] /\ part[k] \in Index
  <2>1. Sums(records)[k + d] = Sums(records)[(k + d) - 1] + Size[records[k + d]]
    BY <1>3, SumsAre
  <2> QED
    BY <1>3, <2>1, SumsAre
<1>6. Size[part[k]] \in Nat
  BY <1>5, SizesAre
<1>7. Sums(records)[d] \in Nat /\ Sums(part)[k - 1] \in Nat
  BY <1>3, <1>t
<1>8. Sums(records)[k + d] = Sums(records)[d] + Sums(part)[k]
  BY <1>4, <1>5, <1>6, <1>7, SMTT(30)
<1> QED
  BY <1>1, <1>8

\* So is a size.
LEMMA SizeIsNumber == ASSUME NEW records \in Seq(Index) PROVE SizeOf(records) \in Nat
BY SizeIsSum, SumsAreNumbers

\* Nothing has no size.
LEMMA SizeOfNone == SizeOf(<<>>) = 0
<1>1. <<>> \in Seq(Index) /\ Len(<<>>) = 0
  OBVIOUS
<1> QED
  BY <1>1, SizeIsSum, SumsAre

\* A record more.
LEMMA SizeOfAppend ==
    ASSUME NEW records \in Seq(Index), NEW i \in Index
    PROVE  SizeOf(Append(records, i)) = SizeOf(records) + Size[i]
<1> DEFINE all == Append(records, i)
           n == Len(records)
<1>1. /\ all \in Seq(Index) /\ n \in Nat /\ Len(all) = n + 1 /\ all[n + 1] = i
      /\ \A k \in 1..n : records[k] = all[k + 0] /\ 0 + n <= Len(all)
  OBVIOUS
<1> HIDE DEF all, n
<1>2. Sums(all)[n + 1] = Sums(all)[n] + Size[i]
  <2>1. n + 1 \in 1..Len(all) /\ (n + 1) - 1 = n
    BY <1>1
  <2> QED
    BY <1>1, <2>1, SumsAre
<1>3. \A k \in 0..n : Sums(all)[k + 0] = Sums(all)[0] + Sums(records)[k]
  BY <1>1, SumsOfPart DEF n
<1>4. Sums(all)[n] = Sums(records)[n]
  <2>1. n \in 0..n /\ n + 0 = n /\ Sums(all)[0] = 0 /\ Sums(records)[n] \in Nat
    BY <1>1, SumsAre, SumsAreNumbers DEF n
  <2> QED
    BY <1>3, <2>1
<1> QED
  BY <1>1, <1>2, <1>4, SizeIsSum DEF all, n

\* A sequence is as large as its two parts.
LEMMA SizeOfParts ==
    ASSUME NEW records \in Seq(Index), NEW n \in 0..Len(records)
    PROVE  /\ SubSeq(records, 1, n) \in Seq(Index) /\ SubSeq(records, n + 1, Len(records)) \in Seq(Index)
           /\ SizeOf(records) = SizeOf(SubSeq(records, 1, n)) + SizeOf(SubSeq(records, n + 1, Len(records)))
<1> DEFINE old == SubSeq(records, 1, n)
           new == SubSeq(records, n + 1, Len(records))
           m == Len(records)
<1>1. /\ old \in Seq(Index) /\ Len(old) = n /\ \A k \in 1..n : old[k] = records[k + 0]
      /\ new \in Seq(Index) /\ Len(new) = m - n /\ \A k \in 1..m - n : new[k] = records[k + n]
      /\ n \in 0..m /\ m \in Nat
  OBVIOUS
<1> HIDE DEF old, new
<1>2. \A k \in 0..n : Sums(records)[k + 0] = Sums(records)[0] + Sums(old)[k]
  <2>1. 0 \in Nat /\ 0 + Len(old) <= Len(records) /\ \A k \in 1..Len(old) : old[k] = records[k + 0]
    BY <1>1
  <2>2. \A k \in 0..Len(old) : Sums(records)[k + 0] = Sums(records)[0] + Sums(old)[k]
    BY <1>1, <2>1, SumsOfPart
  <2> QED
    BY <1>1, <2>2
<1>3. \A k \in 0..m - n : Sums(records)[k + n] = Sums(records)[n] + Sums(new)[k]
  <2>1. n \in Nat /\ n + Len(new) <= Len(records) /\ \A k \in 1..Len(new) : new[k] = records[k + n]
    BY <1>1
  <2>2. \A k \in 0..Len(new) : Sums(records)[k + n] = Sums(records)[n] + Sums(new)[k]
    BY <1>1, <2>1, SumsOfPart
  <2> QED
    BY <1>1, <2>2
<1>4. Sums(records)[n] = Sums(old)[n]
  <2>1. n \in 0..n /\ n + 0 = n /\ Sums(records)[0] = 0 /\ Sums(old)[n] \in Nat
    BY <1>1, SumsAre, SumsAreNumbers
  <2> QED
    BY <1>2, <2>1
<1>5. Sums(records)[m] = Sums(old)[n] + Sums(new)[m - n]
  <2>1. m - n \in 0..m - n /\ (m - n) + n = m
    BY <1>1
  <2> QED
    BY <1>3, <1>4, <2>1
<1> QED
  BY <1>1, <1>5, SizeIsSum DEF old, new, m

\* The oldest record is taken.
LEMMA SizeOfTail ==
    ASSUME NEW records \in Seq(Index), records # <<>>
    PROVE  /\ Head(records) \in Index /\ Tail(records) \in Seq(Index)
           /\ SizeOf(records) = Size[Head(records)] + SizeOf(Tail(records))
<1> DEFINE new == Tail(records)
           m == Len(records)
<1>1. /\ new \in Seq(Index) /\ Len(new) = m - 1 /\ \A k \in 1..m - 1 : new[k] = records[k + 1]
      /\ m \in Nat \ {0} /\ Head(records) = records[1] /\ records[1] \in Index
  OBVIOUS
<1> HIDE DEF new
<1>3. \A k \in 0..m - 1 : Sums(records)[k + 1] = Sums(records)[1] + Sums(new)[k]
  <2>1. 1 \in Nat /\ 1 + Len(new) <= Len(records) /\ \A k \in 1..Len(new) : new[k] = records[k + 1]
    BY <1>1
  <2>2. \A k \in 0..Len(new) : Sums(records)[k + 1] = Sums(records)[1] + Sums(new)[k]
    BY <1>1, <2>1, SumsOfPart
  <2> QED
    BY <1>1, <2>2
<1>4. Sums(records)[1] = Size[records[1]]
  <2>1. 1 \in 1..m /\ 1 - 1 = 0 /\ Sums(records)[0] = 0 /\ Size[records[1]] \in Nat
    BY <1>1, SumsAre, SizesAre
  <2>2. Sums(records)[1] = Sums(records)[1 - 1] + Size[records[1]]
    BY <2>1, SumsAre
  <2> QED
    BY <2>1, <2>2
<1>5. Sums(records)[m] = Size[records[1]] + Sums(new)[m - 1]
  <2>1. m - 1 \in 0..m - 1 /\ (m - 1) + 1 = m
    BY <1>1
  <2> QED
    BY <1>3, <1>4, <2>1
<1> QED
  BY <1>1, <1>5, SizeIsSum DEF new

(***************************************************************************)
(* Retention: what is admitted fits after the oldest records have made     *)
(* room, and what did not make room stays.                                 *)
(***************************************************************************)
Within(records, used) == Len(records) <= MaxRecords /\ used = SizeOf(records) /\ used <= MaxBytes

\* Eviction ends where there is room, or where nothing is left.
LEMMA EvictedIs ==
    ASSUME NEW records \in Seq(Index), NEW used \in Nat, NEW size \in Nat
    PROVE  LET n == Evicted(records, used, size)
           IN  /\ n \in 0..Len(records)
               /\ \/ n = Len(records)
                  \/ ~Full(Len(records) - n, used - SizeOf(SubSeq(records, 1, n)), size)
<1> DEFINE room == {n \in 0..Len(records) :
                        \/ n = Len(records)
                        \/ ~Full(Len(records) - n, used - SizeOf(SubSeq(records, 1, n)), size)}
<1>1. Len(records) \in room /\ room \in SUBSET Nat
  OBVIOUS
<1>2. Evicted(records, used, size) = Min(room)
  BY Zenon DEF Evicted
<1>3. Min(room) \in room
  <2> HIDE DEF room
  <2>1. \E x \in room : \A y \in room : x <= y
    BY <1>1, LeastElement
  <2> QED
    BY <2>1, Zenon DEF Min
<1> QED
  BY <1>2, <1>3

\* The loop of try_publish and retain: what is admitted fits once the evicted are gone, and
\* the bytes counted are those that are there.
LEMMA AdmittedFits ==
    ASSUME NEW records \in Seq(Index), NEW used, Within(records, used), NEW i \in Index,
           ~Refused(records, used, Size[i])
    PROVE  LET n == Evicted(records, used, Size[i])
           IN  /\ n \in 0..Len(records)
               /\ Append(SubSeq(records, n + 1, Len(records)), i) \in Seq(Index)
               /\ Within(Append(SubSeq(records, n + 1, Len(records)), i),
                         used - SizeOf(SubSeq(records, 1, n)) + Size[i])
<1> DEFINE n == Evicted(records, used, Size[i])
           left == SubSeq(records, n + 1, Len(records))
           gone == SizeOf(SubSeq(records, 1, n))
           m == Len(records)
<1>1. used \in Nat /\ used = SizeOf(records) /\ Size[i] \in Nat /\ m \in Nat
  BY SizeIsNumber, SizesAre DEF Within
<1>2. n \in 0..m /\ (n = m \/ ~Full(m - n, used - gone, Size[i]))
  BY <1>1, EvictedIs
<1>3. Size[i] <= MaxBytes /\ MaxBytes \in Nat /\ MaxRecords \in Nat \ {0}
  BY <1>1, RetentionAssumption DEF Refused
<1> HIDE DEF n
<1>4. /\ left \in Seq(Index) /\ SubSeq(records, 1, n) \in Seq(Index)
      /\ SizeOf(records) = gone + SizeOf(left) /\ SizeOf(left) \in Nat /\ gone \in Nat
  BY <1>2, SizeOfParts, SizeIsNumber
<1>5. Len(left) = m - n
  BY <1>2
<1>6. /\ Append(left, i) \in Seq(Index) /\ Len(Append(left, i)) = m - n + 1
      /\ SizeOf(Append(left, i)) = SizeOf(left) + Size[i]
  <2> HIDE DEF left
  <2>1. Append(left, i) \in Seq(Index) /\ Len(Append(left, i)) = m - n + 1
    BY <1>1, <1>2, <1>4, <1>5
  <2> QED
    BY <1>4, <2>1, SizeOfAppend
<1>7. used - gone = SizeOf(left)
  BY <1>1, <1>4
<1>8. CASE n = m
  <2>1. Len(left) = 0 /\ left = <<>>
    BY <1>1, <1>4, <1>5, <1>8
  <2>2. SizeOf(left) = 0
    BY <2>1, SizeOfNone
  <2> HIDE DEF left, gone
  <2>3. Len(Append(left, i)) = 1 /\ SizeOf(Append(left, i)) = Size[i]
    BY <1>1, <1>2, <1>6, <1>8, <2>2
  <2>4. used - gone + Size[i] = Size[i] /\ 1 <= MaxRecords
    BY <1>1, <1>3, <1>7, <2>2
  <2>5. Within(Append(left, i), used - gone + Size[i])
    BY <1>3, <2>3, <2>4 DEF Within
  <2> QED
    BY <1>2, <1>6, <2>5 DEF left, gone, n
<1>9. CASE ~Full(m - n, used - gone, Size[i])
  <2> HIDE DEF left, gone, m
  <2>1. m - n < MaxRecords /\ used - gone + Size[i] <= MaxBytes
    <3> DEFINE rest == m - n
               total == used - gone + Size[i]
    <3>1. rest \in Int /\ total \in Int
      BY <1>1, <1>2, <1>4
    <3>2. ~(rest >= MaxRecords \/ total > MaxBytes)
      BY <1>9 DEF Full
    <3> HIDE DEF rest, total
    <3>3. rest < MaxRecords /\ total <= MaxBytes
      BY <1>3, <3>1, <3>2
    <3> QED
      BY <3>3 DEF rest, total
  <2>2. m - n + 1 <= MaxRecords /\ used - gone + Size[i] = SizeOf(Append(left, i))
    BY <1>1, <1>2, <1>3, <1>6, <1>7, <2>1
  <2>3. Within(Append(left, i), used - gone + Size[i])
    BY <1>6, <2>1, <2>2 DEF Within
  <2> QED
    BY <1>2, <1>6, <2>3 DEF left, gone, n, m
<1> QED
  BY <1>2, <1>8, <1>9

\* Taking the oldest out keeps the limits and the count.
LEMMA OldestFits ==
    ASSUME NEW records \in Seq(Index), records # <<>>, NEW used, Within(records, used)
    PROVE  /\ Head(records) \in Index /\ Tail(records) \in Seq(Index)
           /\ Within(Tail(records), used - Size[Head(records)])
<1>1. /\ Head(records) \in Index /\ Tail(records) \in Seq(Index)
      /\ SizeOf(records) = Size[Head(records)] + SizeOf(Tail(records))
  BY SizeOfTail
<1>2. SizeOf(Tail(records)) \in Nat /\ Size[Head(records)] \in Nat /\ SizeOf(records) \in Nat
  BY <1>1, SizeIsNumber, SizesAre
<1>3. Len(Tail(records)) = Len(records) - 1 /\ Len(records) \in Nat
  OBVIOUS
<1> QED
  BY <1>1, <1>2, <1>3, RetentionAssumption DEF Within

(***************************************************************************)
(* Sequences of records, among them blanks: what increases goes on to do   *)
(* so when the oldest are taken away and a newer one is added.             *)
(***************************************************************************)
Records(q) == In(q) \ {0}
Below(A, B) == \A a \in A, b \in B : a < b

\* What is a record.
LEMMA RecordsAre ==
    ASSUME NEW q \in Seq(Nat)
    PROVE  /\ Records(q) \subseteq Nat \ {0}
           /\ \A x : x \in Records(q) <=> x # 0 /\ \E k \in 1..Len(q) : q[k] = x
BY DEF Records, In

\* The records of a sequence that ascends, divided at some place.
LEMMA LateRecords ==
    ASSUME NEW q \in Seq(Nat), Increasing(q), NEW n \in 0..Len(q)
    PROVE  LET old == SubSeq(q, 1, n)
               new == SubSeq(q, n + 1, Len(q))
           IN  /\ old \in Seq(Nat) /\ new \in Seq(Nat) /\ Len(old) = n /\ Len(new) = Len(q) - n
               /\ Increasing(new) /\ Increasing(old)
               /\ Records(q) = Records(old) \cup Records(new)
               /\ Below(Records(old), Records(new))
<1> DEFINE old == SubSeq(q, 1, n)
           new == SubSeq(q, n + 1, Len(q))
<1>1. /\ old \in Seq(Nat) /\ Len(old) = n /\ \A k \in 1..n : old[k] = q[k] /\ k \in 1..Len(q)
      /\ new \in Seq(Nat) /\ Len(new) = Len(q) - n
      /\ \A k \in 1..Len(q) - n : new[k] = q[k + n] /\ k + n \in 1..Len(q)
      /\ Len(q) \in Nat /\ \A k \in 1..Len(q) : q[k] \in Nat
  OBVIOUS
<1> HIDE DEF old, new
<1>2. \A j, k \in 1..Len(q) : j < k /\ q[j] # 0 /\ q[k] # 0 => q[j] < q[k]
  BY DEF Increasing
<1>3. Increasing(old)
  <2>1. DOMAIN old = 1..n
    BY <1>1
  <2> QED
    BY <1>1, <1>2, <2>1 DEF Increasing
<1>4. Increasing(new)
  <2>1. DOMAIN new = 1..Len(q) - n
    BY <1>1
  <2>2. ASSUME NEW j \in 1..Len(q) - n, NEW k \in 1..Len(q) - n, j < k, new[j] # 0, new[k] # 0
        PROVE  new[j] < new[k]
    <3>1. j + n < k + n
      BY <2>2
    <3> QED
      BY <1>1, <1>2, <2>2, <3>1
  <2> QED
    BY <2>1, <2>2 DEF Increasing
<1>5. /\ \A x : x \in Records(old) <=> x # 0 /\ \E k \in 1..n : q[k] = x
      /\ \A x : x \in Records(new) <=> x # 0 /\ \E k \in 1..Len(q) - n : q[k + n] = x
  <2>1. \A x : x \in Records(old) <=> x # 0 /\ \E k \in 1..Len(old) : old[k] = x
    BY <1>1, RecordsAre
  <2>2. \A x : x \in Records(new) <=> x # 0 /\ \E k \in 1..Len(new) : new[k] = x
    BY <1>1, RecordsAre
  <2>3. \A x : x \in Records(old) <=> x # 0 /\ \E k \in 1..n : q[k] = x
    BY <1>1, <2>1
  <2>4. \A x : x \in Records(new) <=> x # 0 /\ \E k \in 1..Len(q) - n : new[k] = x
    BY <1>1, <2>2
  <2>5. \A x : (\E k \in 1..Len(q) - n : new[k] = x) <=> (\E k \in 1..Len(q) - n : q[k + n] = x)
    BY <1>1
  <2> QED
    BY <2>3, <2>4, <2>5
<1>6. Records(q) = Records(old) \cup Records(new)
  <2>1. ASSUME NEW x, x \in Records(q) PROVE x \in Records(old) \cup Records(new)
    <3>1. PICK k \in 1..Len(q) : q[k] = x
      BY <2>1, RecordsAre
    <3>2. x # 0
      BY <2>1, RecordsAre
    <3>3. CASE k <= n
      BY <1>1, <1>5, <3>1, <3>2, <3>3
    <3>4. CASE k > n
      <4>1. k - n \in 1..Len(q) - n /\ (k - n) + n = k
        BY <1>1, <3>4
      <4> QED
        BY <1>5, <3>1, <3>2, <4>1
    <3> QED
      BY <3>3, <3>4
  <2>2. ASSUME NEW x, x \in Records(old) \cup Records(new) PROVE x \in Records(q)
    <3>1. x # 0 /\ ((\E k \in 1..n : q[k] = x) \/ \E k \in 1..Len(q) - n : q[k + n] = x)
      BY <1>5, <2>2
    <3>2. \E k \in 1..Len(q) : q[k] = x
      BY <1>1, <3>1
    <3> QED
      BY <3>1, <3>2, RecordsAre
  <2> QED
    BY <2>1, <2>2
<1>7. Below(Records(old), Records(new))
  <2> SUFFICES ASSUME NEW x \in Records(old), NEW y \in Records(new) PROVE x < y
    BY DEF Below
  <2>1. PICK j \in 1..n : q[j] = x /\ x # 0
    BY <1>5
  <2>2. PICK k \in 1..Len(q) - n : q[k + n] = y /\ y # 0
    BY <1>5
  <2>3. j < k + n /\ j \in 1..Len(q) /\ k + n \in 1..Len(q)
    BY <1>1
  <2> QED
    BY <1>2, <2>1, <2>2, <2>3
<1> QED
  BY <1>1, <1>3, <1>4, <1>6, <1>7 DEF old, new

\* A later record, or none, at the end of such a sequence.
LEMMA AnotherRecord ==
    ASSUME NEW q \in Seq(Nat), Increasing(q), NEW x \in Nat, \A y \in Records(q) : x # 0 => y < x
    PROVE  /\ Append(q, x) \in Seq(Nat) /\ Increasing(Append(q, x))
           /\ Records(Append(q, x)) = Records(q) \cup ({x} \ {0})
<1> DEFINE all == Append(q, x)
           n == Len(q)
<1>1. /\ all \in Seq(Nat) /\ Len(all) = n + 1 /\ n \in Nat /\ all[n + 1] = x
      /\ \A k \in 1..n : all[k] = q[k] /\ q[k] \in Nat
      /\ DOMAIN all = 1..n + 1
  OBVIOUS
<1> HIDE DEF all, n
<1>2. \A j, k \in 1..n : j < k /\ q[j] # 0 /\ q[k] # 0 => q[j] < q[k]
  BY DEF Increasing, n
<1>3. \A y : y \in Records(q) <=> y # 0 /\ \E k \in 1..n : q[k] = y
  BY RecordsAre DEF n
<1>4. \A y : y \in Records(all) <=> y # 0 /\ \E k \in 1..n + 1 : all[k] = y
  BY <1>1, RecordsAre
<1>5. Increasing(all)
  <2>1. ASSUME NEW j \in 1..n + 1, NEW k \in 1..n + 1, j < k, all[j] # 0, all[k] # 0 PROVE all[j] < all[k]
    <3>1. j \in 1..n
      BY <1>1, <2>1
    <3>2. CASE k = n + 1
      BY <1>1, <1>3, <2>1, <3>1, <3>2
    <3>3. CASE k \in 1..n
      BY <1>1, <1>2, <2>1, <3>1, <3>3
    <3> QED
      BY <1>1, <3>2, <3>3
  <2> QED
    BY <1>1, <2>1 DEF Increasing
<1>6. Records(all) = Records(q) \cup ({x} \ {0})
  <2>1. ASSUME NEW y, y \in Records(all) PROVE y \in Records(q) \cup ({x} \ {0})
    <3>1. PICK k \in 1..n + 1 : all[k] = y /\ y # 0
      BY <1>4, <2>1
    <3> QED
      BY <1>1, <1>3, <3>1
  <2>2. ASSUME NEW y, y \in Records(q) \cup ({x} \ {0}) PROVE y \in Records(all)
    <3>1. CASE y \in Records(q)
      BY <1>1, <1>3, <1>4, <3>1
    <3>2. CASE y = x /\ x # 0
      BY <1>1, <1>4, <3>2
    <3> QED
      BY <2>2, <3>1, <3>2
  <2> QED
    BY <2>1, <2>2
<1> QED
  BY <1>1, <1>5, <1>6 DEF all

\* A place without a record at its end changes nothing.
LEMMA NothingAdded ==
    ASSUME NEW q \in Seq(Nat), Increasing(q)
    PROVE  Append(q, 0) \in Seq(Nat) /\ Increasing(Append(q, 0)) /\ Records(Append(q, 0)) = Records(q)
<1>1. 0 \in Nat /\ {0} \ {0} = {} /\ \A y \in Records(q) : 0 # 0 => y < 0
  OBVIOUS
<1>2. Append(q, 0) \in Seq(Nat) /\ Increasing(Append(q, 0)) /\ Records(Append(q, 0)) = Records(q) \cup ({0} \ {0})
  BY <1>1, AnotherRecord, Zenon
<1> QED
  BY <1>1, <1>2

\* The first place of such a sequence.
LEMMA OldestRecord ==
    ASSUME NEW q \in Seq(Nat), Increasing(q), q # <<>>
    PROVE  /\ Tail(q) \in Seq(Nat) /\ Increasing(Tail(q)) /\ Head(q) \in Nat
           /\ Records(q) = Records(Tail(q)) \cup ({Head(q)} \ {0})
           /\ Head(q) # 0 => \A y \in Records(Tail(q)) : Head(q) < y
<1> DEFINE old == SubSeq(q, 1, 1)
           new == SubSeq(q, 1 + 1, Len(q))
<1>1. 1 \in 0..Len(q) /\ Tail(q) = new /\ Head(q) = q[1] /\ q[1] \in Nat
  OBVIOUS
<1>2. /\ new \in Seq(Nat) /\ Increasing(new) /\ Records(q) = Records(old) \cup Records(new)
      /\ Below(Records(old), Records(new))
  BY <1>1, LateRecords
<1>3. old \in Seq(Nat) /\ Len(old) = 1 /\ old[1] = q[1]
  OBVIOUS
<1>4. Records(old) = {q[1]} \ {0}
  <2> HIDE DEF old
  <2>1. \A x : x \in Records(old) <=> x # 0 /\ \E k \in 1..Len(old) : old[k] = x
    BY <1>3, RecordsAre
  <2>2. \A x : x \in Records(old) <=> x # 0 /\ q[1] = x
    BY <1>3, <2>1
  <2> QED
    BY <2>2
<1> HIDE DEF old, new
<1> QED
  BY <1>1, <1>2, <1>4 DEF Below

\* A place of its own.
LEMMA OneRecord ==
    ASSUME NEW x \in Nat
    PROVE <<x>> \in Seq(Nat) /\ Increasing(<<x>>) /\ Records(<<x>>) = {x} \ {0}
BY DEF Increasing, Records, In

\* No place at all.
LEMMA NoRecord == <<>> \in Seq(Nat) /\ Increasing(<<>>) /\ Records(<<>>) = {}
BY DEF Increasing, Records, In

\* Two such sequences in a row, the second with later records.
LEMMA JoinedRecords ==
    ASSUME NEW p \in Seq(Nat), NEW q \in Seq(Nat), Increasing(p), Increasing(q), Below(Records(p), Records(q))
    PROVE  /\ p \o q \in Seq(Nat) /\ Increasing(p \o q)
           /\ Records(p \o q) = Records(p) \cup Records(q)
<1> DEFINE all == p \o q
           m == Len(p)
           n == Len(q)
<1>1. /\ all \in Seq(Nat) /\ Len(all) = m + n /\ m \in Nat /\ n \in Nat /\ DOMAIN all = 1..m + n
      /\ \A k \in 1..m : all[k] = p[k] /\ p[k] \in Nat
      /\ \A k \in 1..n : all[k + m] = q[k] /\ q[k] \in Nat
  OBVIOUS
<1> HIDE DEF all, m, n
<1>2. /\ \A j, k \in 1..m : j < k /\ p[j] # 0 /\ p[k] # 0 => p[j] < p[k]
      /\ \A j, k \in 1..n : j < k /\ q[j] # 0 /\ q[k] # 0 => q[j] < q[k]
  BY SMTT(30) DEF Increasing, m, n
<1>3. /\ \A y : y \in Records(p) <=> y # 0 /\ \E k \in 1..m : p[k] = y
      /\ \A y : y \in Records(q) <=> y # 0 /\ \E k \in 1..n : q[k] = y
  BY RecordsAre DEF m, n
<1>4. \A y : y \in Records(all) <=> y # 0 /\ \E k \in 1..m + n : all[k] = y
  <2>1. \A y : y \in Records(all) <=> y # 0 /\ \E k \in 1..Len(all) : all[k] = y
    BY <1>1, RecordsAre
  <2> QED
    BY <1>1, <2>1
<1>5. \A k \in 1..m + n : k \in 1..m \/ (k - m \in 1..n /\ (k - m) + m = k /\ k > m)
  BY <1>1
<1>6. Increasing(all)
  <2>1. ASSUME NEW j \in 1..m + n, NEW k \in 1..m + n, j < k, all[j] # 0, all[k] # 0 PROVE all[j] < all[k]
    <3>1. CASE j \in 1..m /\ k \in 1..m
      BY <1>1, <1>2, <2>1, <3>1
    <3>2. CASE j \in 1..m /\ ~(k \in 1..m)
      <4>1. k - m \in 1..n /\ all[k] = q[k - m]
        BY <1>1, <1>5, <3>2
      <4>2. all[j] \in Records(p) /\ all[k] \in Records(q)
        BY <1>1, <1>3, <2>1, <3>2, <4>1
      <4> QED
        BY <4>2 DEF Below
    <3>3. CASE ~(j \in 1..m)
      <4>1. ~(k \in 1..m)
        BY <1>1, <2>1, <3>3
      <4>2. /\ j - m \in 1..n /\ all[j] = q[j - m] /\ k - m \in 1..n /\ all[k] = q[k - m]
            /\ j - m < k - m
        BY <1>1, <1>5, <2>1, <3>3, <4>1, SMTT(30)
      <4> QED
        BY <1>2, <2>1, <4>2
    <3> QED
      BY <3>1, <3>2, <3>3
  <2> QED
    BY <1>1, <2>1 DEF Increasing
<1>7. Records(all) = Records(p) \cup Records(q)
  <2>1. ASSUME NEW y, y \in Records(all) PROVE y \in Records(p) \cup Records(q)
    <3>1. PICK k \in 1..m + n : all[k] = y /\ y # 0
      BY <1>4, <2>1
    <3>2. CASE k \in 1..m
      BY <1>1, <1>3, <3>1, <3>2
    <3>3. CASE k - m \in 1..n /\ (k - m) + m = k
      <4>1. q[k - m] = y
        BY <1>1, <3>1, <3>3
      <4> QED
        BY <1>3, <3>1, <3>3, <4>1
    <3> QED
      BY <1>5, <3>2, <3>3
  <2>2. ASSUME NEW y, y \in Records(p) PROVE y \in Records(all)
    <3>1. PICK k \in 1..m : p[k] = y /\ y # 0
      BY <1>3, <2>2
    <3>2. k \in 1..m + n /\ all[k] = y
      BY <1>1, <3>1
    <3> QED
      BY <1>4, <3>1, <3>2
  <2>3. ASSUME NEW y, y \in Records(q) PROVE y \in Records(all)
    <3>1. PICK k \in 1..n : q[k] = y /\ y # 0
      BY <1>3, <2>3
    <3>2. k + m \in 1..m + n /\ all[k + m] = y
      BY <1>1, <3>1
    <3> QED
      BY <1>4, <3>1, <3>2
  <2> QED
    BY <2>1, <2>2, <2>3
<1> QED
  BY <1>1, <1>6, <1>7 DEF all
\* A function applied to each element of a sequence.
Mapped(f, q) == [k \in DOMAIN q |-> f[q[k]]]
Maps(f, S, T) == f \in [S -> T]
Image(f, q, T, g) == g \in Seq(T) /\ Len(g) = Len(q) /\ \A k \in 1..Len(q) : g[k] = f[q[k]]

\* It is one, of the same length.
LEMMA MappedIs ==
    ASSUME NEW f, NEW S, NEW T, NEW q, Maps(f, S, T), q \in Seq(S)
    PROVE  Image(f, q, T, Mapped(f, q))
<1>1. DOMAIN q = 1..Len(q) /\ Len(q) \in Nat /\ \A k \in 1..Len(q) : q[k] \in S
  OBVIOUS
<1>2. Mapped(f, q) \in [1..Len(q) -> T]
  BY <1>1 DEF Mapped, Maps
<1>3. Mapped(f, q) \in Seq(T) /\ Len(Mapped(f, q)) = Len(q)
  BY <1>1, <1>2
<1> QED
  BY <1>1, <1>3 DEF Mapped, Image

\* It goes on with the sequence.
LEMMA MappedAppend ==
    ASSUME NEW S, NEW T, NEW f, Maps(f, S, T), NEW q \in Seq(S), NEW x \in S
    PROVE  Mapped(f, Append(q, x)) = Append(Mapped(f, q), f[x])
<1> DEFINE p == Append(q, x)
           g == Mapped(f, q)
           l == Mapped(f, p)
           r == Append(g, f[x])
<1>1. p \in Seq(S) /\ Len(p) = Len(q) + 1 /\ p[Len(q) + 1] = x /\ (\A k \in 1..Len(q) : p[k] = q[k]) /\ Len(q) \in Nat
  OBVIOUS
<1>2. Image(f, p, T, l)
  BY <1>1, MappedIs
<1>3. Image(f, q, T, g)
  BY MappedIs
<1>x. f[x] \in T
  BY DEF Maps
<1> HIDE DEF g, l, p
<1>y. /\ l \in Seq(T) /\ Len(l) = Len(p) /\ \A k \in 1..Len(p) : l[k] = f[p[k]]
      /\ g \in Seq(T) /\ Len(g) = Len(q) /\ \A k \in 1..Len(q) : g[k] = f[q[k]]
  BY <1>2, <1>3 DEF Image
<1>4. r \in Seq(T) /\ Len(r) = Len(q) + 1 /\ r[Len(q) + 1] = f[x] /\ \A k \in 1..Len(q) : r[k] = g[k]
  BY <1>x, <1>y
<1> HIDE DEF r
<1>5. \A k \in 1..Len(l) : l[k] = r[k]
  <2> TAKE k \in 1..Len(l)
  <2>1. k \in 1..Len(q) \/ k = Len(q) + 1
    BY <1>1, <1>y
  <2> QED
    BY <1>1, <1>y, <1>4, <2>1
<1>6. l = r
  BY <1>1, <1>y, <1>4, <1>5, SeqEqual
<1> QED
  BY <1>6 DEF l, r, p, g

\* The parts of a sequence, place by place.
LEMMA PartsAre ==
    ASSUME NEW S, NEW q \in Seq(S), NEW n \in 0..Len(q)
    PROVE  LET late == SubSeq(q, n + 1, Len(q))
               early == SubSeq(q, 1, n)
           IN  /\ late \in Seq(S) /\ Len(late) = Len(q) - n
               /\ \A k \in 1..Len(q) - n : late[k] = q[k + n] /\ k + n \in 1..Len(q)
               /\ early \in Seq(S) /\ Len(early) = n /\ \A k \in 1..n : early[k] = q[k] /\ k \in 1..Len(q)
BY SMTT(30)

\* The tail of a sequence, place by place.
LEMMA RestIs ==
    ASSUME NEW S, NEW q \in Seq(S), q # <<>>
    PROVE  /\ Head(q) = q[1] /\ \A k \in 1..Len(q) : q[k] \in S
           /\ Len(q) \in Nat \ {0} /\ Tail(q) \in Seq(S) /\ Len(Tail(q)) = Len(q) - 1
           /\ Tail(q) = <<>> <=> Len(q) = 1
           /\ \A k \in 1..Len(q) - 1 : Tail(q)[k] = q[k + 1]
<1>1. Len(q) \in Nat \ {0} /\ Tail(q) \in Seq(S) /\ Len(Tail(q)) = Len(q) - 1
  OBVIOUS
<1>2. Tail(q) = <<>> <=> Len(Tail(q)) = 0
  BY <1>1, EmptySeq
<1>3. \A k \in 1..Len(q) - 1 : Tail(q)[k] = q[k + 1]
  OBVIOUS
<1>4. Head(q) = q[1] /\ \A k \in 1..Len(q) : q[k] \in S
  OBVIOUS
<1> QED
  BY <1>1, <1>2, <1>3, <1>4

\* Parts of a mapped sequence.
LEMMA MappedPart ==
    ASSUME NEW S, NEW T, NEW f, Maps(f, S, T), NEW q \in Seq(S), NEW n \in 0..Len(q)
    PROVE  /\ Mapped(f, SubSeq(q, n + 1, Len(q))) = SubSeq(Mapped(f, q), n + 1, Len(q))
           /\ Mapped(f, SubSeq(q, 1, n)) = SubSeq(Mapped(f, q), 1, n)
<1> DEFINE m == Len(q)
           a == SubSeq(q, n + 1, m)
           b == SubSeq(q, 1, n)
           g == Mapped(f, q)
           ga == Mapped(f, a)
           gb == Mapped(f, b)
           c == SubSeq(g, n + 1, m)
           d == SubSeq(g, 1, n)
<1>1. /\ a \in Seq(S) /\ Len(a) = m - n /\ \A k \in 1..m - n : a[k] = q[k + n] /\ k + n \in 1..m
      /\ b \in Seq(S) /\ Len(b) = n /\ \A k \in 1..n : b[k] = q[k] /\ k \in 1..m
      /\ m \in Nat /\ n \in Nat /\ n <= m
  OBVIOUS
<1>2. Image(f, q, T, g) /\ Image(f, a, T, ga) /\ Image(f, b, T, gb)
  BY <1>1, MappedIs
<1> HIDE DEF a, b, g, ga, gb
<1>3. /\ g \in Seq(T) /\ Len(g) = m /\ \A k \in 1..m : g[k] = f[q[k]]
      /\ ga \in Seq(T) /\ Len(ga) = m - n /\ \A k \in 1..m - n : ga[k] = f[a[k]]
      /\ gb \in Seq(T) /\ Len(gb) = n /\ \A k \in 1..n : gb[k] = f[b[k]]
  BY <1>1, <1>2 DEF Image
<1> HIDE DEF m
<1>4. /\ c \in Seq(T) /\ Len(c) = m - n /\ \A k \in 1..m - n : c[k] = g[k + n]
      /\ d \in Seq(T) /\ Len(d) = n /\ \A k \in 1..n : d[k] = g[k]
  <2>1. g \in Seq(T) /\ n \in 0..Len(g) /\ Len(g) = m
    BY <1>1, <1>3
  <2> QED
    BY <2>1, PartsAre, SMTT(30)
<1> HIDE DEF c, d
<1>5. ga = c
  <2>1. ASSUME NEW k \in 1..m - n PROVE ga[k] = c[k]
    <3>1. ga[k] = f[a[k]] /\ a[k] = q[k + n] /\ k + n \in 1..m /\ c[k] = g[k + n]
      BY <1>1, <1>3, <1>4, Zenon
    <3> QED
      BY <1>3, <3>1, Zenon
  <2> QED
    BY <1>1, <1>3, <1>4, <2>1, SeqEqual
<1>6. gb = d
  <2>1. ASSUME NEW k \in 1..n PROVE gb[k] = d[k]
    <3>1. gb[k] = f[b[k]] /\ b[k] = q[k] /\ k \in 1..m /\ d[k] = g[k]
      BY <1>1, <1>3, <1>4, Zenon
    <3> QED
      BY <1>3, <3>1, Zenon
  <2> QED
    BY <1>1, <1>3, <1>4, <2>1, SeqEqual
<1> QED
  BY <1>5, <1>6 DEF a, b, c, d, g, m, ga, gb

\* Its tail.
LEMMA MappedTail ==
    ASSUME NEW S, NEW T, NEW f, Maps(f, S, T), NEW q \in Seq(S), q # <<>>
    PROVE  /\ Mapped(f, Tail(q)) = Tail(Mapped(f, q)) /\ Head(Mapped(f, q)) = f[Head(q)] /\ Mapped(f, q) # <<>>
           /\ Head(q) \in S /\ Tail(q) \in Seq(S)
<1> DEFINE g == Mapped(f, q)
<1>1. 1 \in 0..Len(q) /\ Tail(q) = SubSeq(q, 1 + 1, Len(q)) /\ Head(q) = q[1] /\ q[1] \in S /\ 1 \in 1..Len(q)
      /\ Tail(q) \in Seq(S)
  OBVIOUS
<1>2. Image(f, q, T, g)
  BY MappedIs
<1>4. Mapped(f, SubSeq(q, 1 + 1, Len(q))) = SubSeq(g, 1 + 1, Len(q))
  BY <1>1, MappedPart
<1> HIDE DEF g
<1>3. Tail(g) = SubSeq(g, 1 + 1, Len(q)) /\ Head(g) = f[Head(q)] /\ g # <<>>
  BY <1>1, <1>2 DEF Image
<1> QED
  BY <1>1, <1>3, <1>4 DEF g
(***************************************************************************)
(* The stations of a source's records, from the far end to the near one.   *)
(***************************************************************************)
Stations == 1..7

InOrder(X, top) ==
    /\ \A m \in Stations : X[m] \in Seq(Nat) /\ Increasing(X[m]) /\ \A x \in Records(X[m]) : x <= top
    /\ \A m, n \in Stations : m < n => Below(Records(X[m]), Records(X[n]))
Present(X) == UNION {Records(X[m]) : m \in Stations}

\* A record goes on to another station; there is none between.
Moves(X, Y, from, to, x) ==
    /\ from \in Stations /\ to \in Stations /\ to < from /\ x \in Nat
    /\ \A m \in Stations : Y[m] \in Seq(Nat) /\ Increasing(Y[m])
    /\ \A m \in Stations \ {from, to} : Records(Y[m]) = Records(X[m])
    /\ Records(X[from]) = Records(Y[from]) \cup {x} /\ \A y \in Records(Y[from]) : x < y
    /\ Records(Y[to]) = Records(X[to]) \cup {x}
    /\ \A m \in Stations : to < m /\ m < from => Records(X[m]) = {}

\* So order and records stay.
LEMMA RecordMoves ==
    ASSUME NEW X, NEW Y, NEW top, InOrder(X, top), NEW from, NEW to, NEW x, Moves(X, Y, from, to, x)
    PROVE  InOrder(Y, top) /\ Present(Y) = Present(X)
<1> USE DEF Moves
<1>0. \A m \in Stations : Records(X[m]) \subseteq Nat /\ Records(Y[m]) \subseteq Nat
  BY RecordsAre DEF InOrder
<1>1. ASSUME NEW m \in Stations, NEW y \in Records(Y[m]) PROVE y <= top
  BY <1>1 DEF InOrder
<1>s. \A m \in Stations : m \in Int
  BY DEF Stations
<1>m. \A m \in Stations : m # from => \A y \in Records(Y[m]) : y \in Records(X[m]) \/ (m = to /\ y = x)
  OBVIOUS
<1>f. \A y \in Records(Y[from]) : y \in Records(X[from]) /\ x < y
  OBVIOUS
<1>2. ASSUME NEW m \in Stations, NEW n \in Stations, m < n, NEW a \in Records(Y[m]), NEW b \in Records(Y[n])
      PROVE  a < b
  <2>1. x \in Records(X[from])
    OBVIOUS
  <2>2. \A j, k \in Stations : j < k => \A c \in Records(X[j]), d \in Records(X[k]) : c < d
    BY DEF InOrder, Below
  <2>3. CASE m = to /\ a = x
    <3>1. CASE n < from
      <4>1. n # to /\ n # from /\ to < n
        BY <1>2, <1>s, <2>3, <3>1
      <4>2. b \in Records(X[n])
        BY <1>2, <1>m, <4>1
      <4> QED
        BY <3>1, <4>1, <4>2
    <3>2. CASE n = from
      BY <1>2, <1>f, <2>3, <3>2
    <3>3. CASE n > from
      <4>1. n # to /\ n # from /\ from < n
        BY <1>2, <1>s, <2>3, <3>3
      <4>2. b \in Records(X[n])
        BY <1>2, <1>m, <4>1
      <4> QED
        BY <2>1, <2>2, <2>3, <4>1, <4>2
    <3> QED
      BY <1>s, <3>1, <3>2, <3>3
  <2>4. CASE n = to /\ b = x
    <3>2. m < from /\ m # from /\ m # to
      BY <1>2, <1>s, <2>4
    <3>1. a \in Records(X[m])
      BY <1>2, <1>m, <3>2
    <3> QED
      BY <2>1, <2>2, <2>4, <3>1, <3>2
  <2>5. CASE ~(m = to /\ a = x) /\ ~(n = to /\ b = x)
    <3>1. a \in Records(X[m]) /\ b \in Records(X[n])
      BY <1>2, <2>5
    <3> QED
      BY <1>2, <2>2, <3>1
  <2> QED
    BY <2>3, <2>4, <2>5
<1>3. InOrder(Y, top)
  BY <1>1, <1>2 DEF InOrder, Below
<1>4. Present(Y) = Present(X)
  <2>1. ASSUME NEW y \in Present(Y) PROVE y \in Present(X)
    <3>1. PICK m \in Stations : y \in Records(Y[m])
      BY DEF Present
    <3>2. y \in Records(X[m]) \/ y \in Records(X[from])
      BY <3>1
    <3> QED
      BY <3>2 DEF Present
  <2>2. ASSUME NEW y \in Present(X) PROVE y \in Present(Y)
    <3>1. PICK m \in Stations : y \in Records(X[m])
      BY DEF Present
    <3>2. y \in Records(Y[m]) \/ y \in Records(Y[to])
      BY <3>1
    <3> QED
      BY <3>2 DEF Present
  <2> QED
    BY <2>1, <2>2
<1> QED
  BY <1>3, <1>4

\* Records are dropped.
LEMMA RecordsDrop ==
    ASSUME NEW X, NEW Y, NEW top, InOrder(X, top),
           \A m \in Stations : Y[m] \in Seq(Nat) /\ Increasing(Y[m]) /\ Records(Y[m]) \subseteq Records(X[m])
    PROVE  InOrder(Y, top)
BY DEF InOrder, Below

\* A new record enters the buffer.
LEMMA RecordEnters ==
    ASSUME NEW X, NEW Y, NEW top \in Nat, InOrder(X, top),
           \A m \in Stations : Y[m] \in Seq(Nat) /\ Increasing(Y[m]),
           \A m \in 1..6 : Records(Y[m]) = Records(X[m]),
           Records(Y[7]) = Records(X[7]) \cup {top + 1}
    PROVE  InOrder(Y, top + 1) /\ Present(Y) = Present(X) \cup {top + 1}
<1>0. \A m \in Stations : Records(X[m]) \subseteq Nat /\ Records(Y[m]) \subseteq Nat
  BY RecordsAre DEF InOrder
<1>1. \A m \in Stations : \A x \in Records(X[m]) : x < top + 1
  <2> TAKE m \in Stations
  <2> TAKE x \in Records(X[m])
  <2>1. x \in Nat /\ x <= top
    BY <1>0 DEF InOrder
  <2> QED
    BY <2>1
<1>2. \A m \in Stations : m \in 1..6 \/ m = 7
  BY DEF Stations
<1>3. ASSUME NEW m \in Stations, NEW y \in Records(Y[m]) PROVE y <= top + 1
  <2>1. y \in Nat /\ (y \in Records(X[m]) \/ y = top + 1)
    BY <1>0, <1>2, <1>3
  <2> QED
    BY <1>1, <2>1
<1>4. ASSUME NEW m \in Stations, NEW n \in Stations, m < n, NEW a \in Records(Y[m]), NEW b \in Records(Y[n])
      PROVE  a < b
  <2>1. m \in 1..6 /\ a \in Records(X[m])
    BY <1>2, <1>4, SMTT(30) DEF Stations
  <2>2. CASE b \in Records(X[n])
    BY <1>4, <2>1, <2>2 DEF InOrder, Below
  <2>3. CASE b = top + 1
    BY <1>1, <1>4, <2>1, <2>3
  <2> QED
    BY <1>2, <1>4, <2>2, <2>3
<1>5. InOrder(Y, top + 1)
  BY <1>3, <1>4 DEF InOrder, Below
<1>6. Present(Y) = Present(X) \cup {top + 1}
  <2>0. 7 \in Stations /\ 1..6 \subseteq Stations
    BY DEF Stations
  <2>1. \A y : y \in Present(Y) <=> \E m \in Stations : y \in Records(Y[m])
    BY DEF Present
  <2>2. \A y : y \in Present(X) <=> \E m \in Stations : y \in Records(X[m])
    BY DEF Present
  <2>3. ASSUME NEW y, y \in Present(Y) PROVE y \in Present(X) \cup {top + 1}
    BY <1>2, <2>1, <2>2, <2>3
  <2>4. ASSUME NEW y, y \in Present(X) \cup {top + 1} PROVE y \in Present(Y)
    BY <1>2, <2>0, <2>1, <2>2, <2>4
  <2> QED
    BY <2>3, <2>4
<1> QED
  BY <1>5, <1>6

\* Only what is no record comes and goes.
Same(X, Y) ==
    \A m \in Stations : Y[m] \in Seq(Nat) /\ Increasing(Y[m]) /\ Records(Y[m]) = Records(X[m])

\* So order and records stay.
LEMMA RecordsStay ==
    ASSUME NEW X, NEW Y, NEW top, InOrder(X, top), Same(X, Y)
    PROVE  InOrder(Y, top) /\ Present(Y) = Present(X)
BY DEF InOrder, Below, Present, Same

-----------------------------------------------------------------------------
(***************************************************************************)
(* The inductive invariant.                                                *)
(***************************************************************************)
Piece == [part : {"length", "frame"}, index : Index]
Entry == [order : Nat, source : Sources, index : Index]

Labels ==
    /\ kind \in [Sources -> {"file", "stream", "off"}] /\ policy \in {"drop_oldest", "drop_newest"}
    /\ solver \in [Sources -> {"run", "check", "close", "interrupt", "join", "stopped"}]
    /\ worker \in [Sources -> {"open", "pop", "write", "length", "frame", "failed", "close", "hang_up", "done"}]
    /\ reader \in [Sources -> {"test", "wait", "length", "frame", "retain", "threw", "ended"}]
    /\ closed \in [Sources -> BOOLEAN] /\ healthy \in [Sources -> BOOLEAN] /\ shut \in [Sources -> BOOLEAN]
    /\ streamStopped \in BOOLEAN
AtRanks ==
    /\ made \in [Sources -> Nat] /\ dropped \in [Sources -> Nat] /\ bytes \in [Sources -> Nat]
    /\ buffer \in [Sources -> Seq(Index)] /\ file \in [Sources -> Seq(Index)]
    /\ held \in [Sources -> {0} \cup Index]
AtStream ==
    /\ channel \in [Sources -> Seq(Piece)] /\ reading \in [Sources -> {0} \cup Index]
    /\ merged \in Seq(Entry) /\ mergedBytes \in Nat /\ mergedDropped \in Nat
    /\ nextIndex \in Nat /\ latest \in Nat
    /\ delivered \in [Sources -> Seq(Index)]
TypeOK == Labels /\ AtRanks /\ AtStream

\* Where the threads of a source are, and what they hold there.
Consistent(s) ==
    /\ worker[s] \in {"write", "length", "frame"} => held[s] # 0
    /\ worker[s] \in {"open", "pop", "close", "hang_up", "done"} => held[s] = 0
    /\ reader[s] = "retain" <=> reading[s] # 0
    /\ worker[s] \in {"open", "write"} => kind[s] = "file"
    /\ worker[s] \in {"length", "frame", "close", "hang_up"} => kind[s] = "stream"
    /\ worker[s] \in {"close", "hang_up"} => ~healthy[s]
    /\ kind[s] # "stream" =>
          /\ channel[s] = <<>> /\ delivered[s] = <<>> /\ reader[s] = "ended"
          /\ \A k \in DOMAIN merged : merged[k].source # s
    /\ kind[s] # "file" => file[s] = <<>>
    /\ kind[s] = "off" => solver[s] = "stopped" /\ worker[s] = "done"
    /\ solver[s] = "stopped" => worker[s] = "done"
    /\ worker[s] = "done" /\ kind[s] # "off" /\ healthy[s] => buffer[s] = <<>> /\ closed[s]

\* Lengths and frames take turns, and both ends know whose turn it is.
Alternating(s) ==
    reader[s] \notin {"threw", "ended"} =>
        /\ \A k \in 1..Len(channel[s]) - 1 : channel[s][k].part # channel[s][k + 1].part
        /\ channel[s] # <<>> => (channel[s][1].part = "frame" <=> reader[s] = "frame")
        /\ worker[s] \in {"pop", "length"} =>
              IF channel[s] = <<>> THEN reader[s] # "frame" ELSE channel[s][Len(channel[s])].part = "frame"
        /\ worker[s] = "frame" =>
              IF channel[s] = <<>> THEN reader[s] = "frame" ELSE channel[s][Len(channel[s])].part = "length"

Station(s) ==
    <<file[s], delivered[s], Merged(s), <<reading[s]>>, Frames(s), <<held[s]>>, buffer[s]>>

\* What a file lacks is in the buffer, in the writer's hands or counted.
FileCounted(s) ==
    kind[s] = "file" /\ healthy[s] =>
        made[s] = dropped[s] + Len(file[s]) + Len(buffer[s]) + (IF held[s] = 0 THEN 0 ELSE 1)

Indices == [k \in DOMAIN merged |-> merged[k].index]

MergedInOrder ==
    /\ \A j, k \in DOMAIN merged : j < k => merged[j].order < merged[k].order
    /\ \A k \in DOMAIN merged : latest <= merged[k].order /\ merged[k].order < nextIndex
    /\ latest <= nextIndex

\* Nothing has failed and nothing is being stopped.
Quiet ==
    (\A s \in Observed : healthy[s] /\ solver[s] \in {"run", "check"} /\ ~shut[s]) /\ ~streamStopped
Lost == UNION {{s} \X Missing(s) : s \in Sources}
Counted == UNION {{s} \X (1..dropped[s]) : s \in Sources}
Ledger == Quiet => Cardinality(Lost) = Cardinality(Counted) + mergedDropped

Each(s) ==
    /\ Consistent(s) /\ Alternating(s) /\ InOrder(Station(s), made[s]) /\ FileCounted(s)
    /\ Within(buffer[s], bytes[s])

Inv ==
    /\ TypeOK /\ (\A s \in Sources : Each(s)) /\ Within(Indices, mergedBytes) /\ MergedInOrder
    /\ Ledger

\* What is where, as a function applied to the elements of a sequence.
FrameOf == [p \in Piece |-> IF p.part = "frame" THEN p.index ELSE 0]
MergedOf(s) == [e \in Entry |-> IF e.source = s THEN e.index ELSE 0]
IndexOf == [e \in Entry |-> e.index]

\* No index is 0, which stands for something else.
LEMMA IndexIsNumber == Index \subseteq Nat \ {0}
BY RecordsAssumption DEF Index

\* The three functions map what they are meant for.
LEMMA MapsAre ==
    Maps(FrameOf, Piece, Nat) /\ (\A s : Maps(MergedOf(s), Entry, Nat)) /\ Maps(IndexOf, Entry, Index)
BY IndexIsNumber DEF Maps, FrameOf, MergedOf, IndexOf, Piece, Entry

\* The records of a channel are one of them applied to it.
LEMMA FramesAre ==
    ASSUME NEW c \in Seq(Piece)
    PROVE  [k \in DOMAIN c |-> IF c[k].part = "frame" THEN c[k].index ELSE 0] = Mapped(FrameOf, c)
<1>1. \A k \in DOMAIN c : c[k] \in Piece
  OBVIOUS
<1> QED
  BY <1>1 DEF Mapped, FrameOf

\* So are those of the merged stream, of one source and of all.
LEMMA MergedAre ==
    ASSUME NEW q \in Seq(Entry)
    PROVE  /\ \A s : [k \in DOMAIN q |-> IF q[k].source = s THEN q[k].index ELSE 0] = Mapped(MergedOf(s), q)
           /\ [k \in DOMAIN q |-> q[k].index] = Mapped(IndexOf, q)
<1>1. \A k \in DOMAIN q : q[k] \in Entry
  OBVIOUS
<1> QED
  BY <1>1 DEF Mapped, MergedOf, IndexOf

-----------------------------------------------------------------------------
(***************************************************************************)
(* The types.                                                              *)
(***************************************************************************)
LEMMA IndicesAre ==
    ASSUME NEW q \in Seq(Entry) PROVE [k \in DOMAIN q |-> q[k].index] \in Seq(Index)
<1>1. Image(IndexOf, q, Index, Mapped(IndexOf, q))
  BY MapsAre, MappedIs
<1> QED
  BY <1>1, MergedAre DEF Image

\* Threads stay at their labels.
LEMMA LabelsStay == TypeOK /\ Next => Labels'
<1> SUFFICES ASSUME Labels, Next PROVE Labels'
  BY DEF TypeOK
<1> USE DEF Labels, To
<1>1. ASSUME NEW s \in Sources, Publish(s) \/ Shutdown(s) \/ Check(s) \/ StopCloses(s) \/ StopInterrupts(s) \/ StopJoins(s)
      PROVE  Labels'
  <2>1. CASE Publish(s)
    BY <2>1 DEF Publish, buffered, fixed, farEnd, streamVars
  <2>2. CASE Shutdown(s) \/ Check(s) \/ StopJoins(s)
    BY <2>2 DEF Shutdown, Check, StopJoins, buffered, fixed, farEnd, streamVars
  <2>3. CASE StopCloses(s)
    BY <2>3 DEF StopCloses, fixed, farEnd, streamVars
  <2>4. CASE StopInterrupts(s)
    BY <2>4 DEF StopInterrupts, buffered, fixed, farEnd, streamVars
  <2> QED
    BY <1>1, <2>1, <2>2, <2>3, <2>4
<1>2. ASSUME NEW s \in Sources, WorkerStep(s) PROVE Labels'
  <2>1. CASE Open(s)
    BY <2>1 DEF Open, solverSide, fixed, farEnd, streamVars
  <2>2. CASE Pop(s)
    BY <2>2 DEF Pop, WorkerTo, solverSide, fixed, farEnd, streamVars
  <2>3. CASE WriteLine(s)
    BY <2>3 DEF WriteLine, WorkerTo, solverSide, fixed, farEnd, streamVars
  <2>4. CASE WriteFrame(s)
    BY <2>4 DEF WriteFrame, WorkerTo, solverSide, fixed, farEnd, streamVars
  <2>5. CASE WorkerFails(s)
    BY <2>5 DEF WorkerFails, WorkerTo, solverSide, fixed, farEnd, streamVars
  <2> QED
    BY <1>2, <2>1, <2>2, <2>3, <2>4, <2>5 DEF WorkerStep
<1>3. ASSUME NEW s \in Sources, ReaderStep(s) PROVE Labels'
  <2>1. CASE AwaitFrame(s)
    BY <2>1 DEF AwaitFrame, ReaderTo, nearEnd, rankVars, fixed, streamVars
  <2>2. CASE ReadFrame(s)
    BY <2>2 DEF ReadFrame, ReaderTo, nearEnd, rankVars, fixed, streamVars
  <2>3. CASE Retain(s)
    <3>1. ReaderTo(s, "retain", "test") /\ UNCHANGED <<nearEnd, shut, streamStopped>>
      BY <2>3 DEF Retain
    <3> QED
      BY <3>1 DEF ReaderTo, nearEnd, rankVars, fixed
  <2>4. CASE ReaderThrew(s)
    BY <2>4 DEF ReaderThrew, ReaderTo, nearEnd, rankVars, fixed
  <2> QED
    BY <1>3, <2>1, <2>2, <2>3, <2>4 DEF ReaderStep
<1>4. CASE Receive
  BY <1>4 DEF Receive, nearEnd, rankVars, fixed
<1>5. CASE OwnerStops
  BY <1>5 DEF OwnerStops, nearEnd, rankVars, fixed
<1> QED
  BY <1>1, <1>2, <1>3, <1>4, <1>5 DEF Next, SolverStops

\* Every step keeps what a thread holds consistent with where it is.
LEMMA ConsistentStays ==
    ASSUME TypeOK, \A s \in Sources : Consistent(s), Next
    PROVE  \A q \in Sources : Consistent(q)'
<1> USE DEF Labels, To
<1>0. Labels /\ AtRanks /\ AtStream
  BY DEF TypeOK
<1>1. ASSUME NEW s \in Sources, Publish(s), NEW q \in Sources PROVE Consistent(q)'
  <2>1. /\ SolverAt(s, "run") /\ solver' = To(solver, s, "check")
        /\ UNCHANGED <<fixed, healthy, worker, held, file, channel, shut, farEnd>>
        /\ UNCHANGED closed
        /\ \A p \in Sources : buffer'[p] = buffer[p] \/ (p = s /\ ~closed[s])
    BY <1>0, <1>1, SMTT(30) DEF Publish, buffered, AtRanks
  <2> QED
    BY <1>0, <2>1 DEF Consistent, SolverAt, fixed, farEnd, streamVars, mergedVars
<1>2. ASSUME NEW s \in Sources, Shutdown(s) \/ SolverStops(s), NEW q \in Sources PROVE Consistent(q)'
  <2>1. /\ solver[s] # "stopped"
        /\ solver'[s] = "stopped" => worker[s] = "done"
        /\ \A p \in Sources \ {s} : solver'[p] = solver[p]
        /\ closed[q] => closed'[q]
        /\ UNCHANGED <<kind, healthy, worker, held, buffer, file, channel, reader, reading, merged, delivered>>
    <3>1. CASE Shutdown(s)
      BY <1>0, <3>1 DEF Shutdown, SolverAt, buffered, fixed, farEnd, streamVars, mergedVars
    <3>2. CASE Check(s)
      BY <1>0, <3>2 DEF Check, SolverAt, buffered, fixed, farEnd, streamVars, mergedVars
    <3>3. CASE StopCloses(s)
      BY <1>0, <3>3 DEF StopCloses, SolverAt, buffered, fixed, farEnd, streamVars, mergedVars
    <3>4. CASE StopInterrupts(s)
      BY <1>0, <3>4 DEF StopInterrupts, SolverAt, buffered, fixed, farEnd, streamVars, mergedVars
    <3>5. CASE StopJoins(s)
      BY <1>0, <3>5 DEF StopJoins, SolverAt, buffered, fixed, farEnd, streamVars, mergedVars
    <3> QED
      BY <1>2, <3>1, <3>2, <3>3, <3>4, <3>5 DEF SolverStops
  <2> QED
    BY <2>1 DEF Consistent
<1>3. ASSUME NEW s \in Sources, Open(s), NEW q \in Sources PROVE Consistent(q)'
  BY <1>0, <1>3 DEF Open, WorkerAt, Consistent, solverSide, fixed, farEnd, streamVars, mergedVars
<1>4. ASSUME NEW s \in Sources, Pop(s), NEW q \in Sources PROVE Consistent(q)'
  <2>1. CASE buffer[s] # <<>>
    <3>1. Head(buffer[s]) # 0 /\ Head(buffer[s]) \in Index
      BY <1>0, <2>1, IndexIsNumber DEF AtRanks
    <3>2. /\ WorkerAt(s, "pop") /\ worker' = To(worker, s, IF kind[s] = "file" THEN "write" ELSE "length")
          /\ held' = [held EXCEPT ![s] = Head(buffer[s])]
          /\ buffer' = [buffer EXCEPT ![s] = Tail(@)]
          /\ UNCHANGED <<kind, solver, closed, healthy, file, channel, reader, reading, merged, delivered>>
      BY <1>4, <2>1 DEF Pop, WorkerTo, solverSide, fixed, farEnd, streamVars, mergedVars
    <3>3. held'[s] # 0 /\ \A p \in Sources \ {s} : held'[p] = held[p] /\ buffer'[p] = buffer[p]
      BY <1>0, <3>1, <3>2 DEF AtRanks
    <3>4. /\ kind[s] = "file" => worker'[s] = "write"
          /\ kind[s] # "file" => worker'[s] = "length" /\ kind[s] = "stream"
          /\ worker[s] = "pop" /\ \A p \in Sources \ {s} : worker'[p] = worker[p]
      BY <1>0, <3>2 DEF WorkerAt, Consistent
    <3> QED
      BY <3>2, <3>3, <3>4 DEF Consistent
  <2>2. CASE buffer[s] = <<>>
    <3>1. /\ WorkerAt(s, "pop") /\ worker' = To(worker, s, "done") /\ closed[s]
          /\ UNCHANGED <<kind, solver, closed, healthy, buffer, held, file, channel, reader, reading, merged, delivered>>
      BY <1>4, <2>2 DEF Pop, WorkerTo, solverSide, fixed, farEnd, streamVars, mergedVars
    <3> QED
      BY <1>0, <2>2, <3>1 DEF WorkerAt, Consistent
  <2> QED
    BY <2>1, <2>2
<1>5. ASSUME NEW s \in Sources, WriteLine(s), NEW q \in Sources PROVE Consistent(q)'
  <2>1. /\ worker[s] = "write" /\ kind[s] = "file"
        /\ \/ worker' = To(worker, s, "pop") /\ held' = [held EXCEPT ![s] = 0]
           \/ worker' = To(worker, s, "failed") /\ UNCHANGED held
        /\ \A p \in Sources \ {s} : file'[p] = file[p]
        /\ UNCHANGED <<kind, solver, closed, healthy, buffer, channel, reader, reading, merged, delivered>>
    BY <1>0, <1>5, SMTT(30) DEF WriteLine, WorkerTo, WorkerAt, Consistent, AtRanks, solverSide, fixed, farEnd, streamVars, mergedVars
  <2>2. CASE q = s
    BY <1>0, <2>1, <2>2 DEF Consistent, AtRanks
  <2>3. CASE q # s
    <3>1. worker'[q] = worker[q] /\ held'[q] = held[q] /\ file'[q] = file[q] /\ channel'[q] = channel[q]
      BY <1>0, <2>1, <2>3 DEF AtRanks
    <3> QED
      BY <2>1, <3>1 DEF Consistent
  <2> QED
    BY <2>2, <2>3
<1>6. ASSUME NEW s \in Sources, WriteFrame(s), NEW q \in Sources PROVE Consistent(q)'
  <2>1. /\ worker[s] \in {"length", "frame"} /\ kind[s] = "stream"
        /\ \/ worker' = To(worker, s, "frame") /\ UNCHANGED held
           \/ worker' = To(worker, s, "pop") /\ held' = [held EXCEPT ![s] = 0]
           \/ worker' = To(worker, s, "failed") /\ UNCHANGED held
        /\ \A p \in Sources \ {s} : channel'[p] = channel[p]
        /\ UNCHANGED <<kind, solver, closed, healthy, buffer, file, reader, reading, merged, delivered>>
    BY <1>0, <1>6 DEF WriteFrame, SendPiece, WorkerTo, WorkerAt, Consistent, AtStream, solverSide, fixed, farEnd,
       streamVars, mergedVars
  <2>2. CASE q = s
    BY <1>0, <2>1, <2>2 DEF Consistent, AtRanks
  <2>3. CASE q # s
    <3>1. worker'[q] = worker[q] /\ held'[q] = held[q] /\ file'[q] = file[q] /\ channel'[q] = channel[q]
      BY <1>0, <2>1, <2>3 DEF AtRanks
    <3> QED
      BY <2>1, <3>1 DEF Consistent
  <2> QED
    BY <2>2, <2>3
<1>7. ASSUME NEW s \in Sources, WorkerFails(s), NEW q \in Sources PROVE Consistent(q)'
  <2>1. /\ UNCHANGED <<kind, solver, buffer, file, channel, reader, reading, merged, delivered>>
        /\ \/ /\ worker[s] = "failed" /\ worker' = To(worker, s, IF kind[s] = "file" THEN "done" ELSE "close")
              /\ healthy' = [healthy EXCEPT ![s] = FALSE] /\ held' = [held EXCEPT ![s] = 0] /\ UNCHANGED closed
           \/ /\ worker[s] = "close" /\ worker' = To(worker, s, "hang_up")
              /\ closed' = [closed EXCEPT ![s] = TRUE] /\ UNCHANGED <<healthy, held>>
           \/ /\ worker[s] = "hang_up" /\ worker' = To(worker, s, "done") /\ UNCHANGED <<closed, healthy, held>>
    BY <1>7 DEF WorkerFails, WorkerTo, WorkerAt, solverSide, fixed, farEnd, streamVars, mergedVars
  <2>2. kind[s] \in {"file", "stream"}
    BY <1>0, <2>1 DEF Consistent
  <2>3. CASE q = s
    BY <1>0, <2>1, <2>2, <2>3 DEF Consistent, AtRanks
  <2>4. CASE q # s
    <3>1. worker'[q] = worker[q] /\ held'[q] = held[q] /\ closed'[q] = closed[q] /\ healthy'[q] = healthy[q]
      BY <1>0, <2>1, <2>4 DEF AtRanks
    <3> QED
      BY <2>1, <3>1 DEF Consistent
  <2> QED
    BY <2>3, <2>4
<1>8. ASSUME NEW s \in Sources, ReaderStep(s), NEW q \in Sources PROVE Consistent(q)'
  <2>0. kind[s] = "stream" /\ UNCHANGED <<kind, solver, closed, healthy, worker, held, buffer, file, delivered>>
    <3>1. reader[s] # "ended" /\ UNCHANGED <<nearEnd, delivered>>
      <4>1. CASE AwaitFrame(s)
        BY <4>1 DEF AwaitFrame, ReaderTo, ReaderAt, streamVars
      <4>2. CASE ReadFrame(s)
        BY <4>2 DEF ReadFrame, ReaderTo, ReaderAt, streamVars
      <4>3. CASE Retain(s)
        BY <4>3 DEF Retain, ReaderTo, ReaderAt
      <4>4. CASE ReaderThrew(s)
        BY <4>4 DEF ReaderThrew, ReaderTo, ReaderAt
      <4> QED
        BY <1>8, <4>1, <4>2, <4>3, <4>4 DEF ReaderStep
    <3> QED
      BY <1>0, <3>1 DEF Consistent, nearEnd, rankVars, fixed
  <2>1. CASE AwaitFrame(s)
    <3>1. /\ reader[s] \notin {"retain"} /\ reader'[s] # "retain"
          /\ \A p \in Sources \ {s} : reader'[p] = reader[p]
          /\ UNCHANGED <<channel, reading, merged>>
      BY <1>0, <2>1 DEF AwaitFrame, ReaderTo, ReaderAt, streamVars, mergedVars
    <3> QED
      BY <2>0, <3>1 DEF Consistent
  <2>2. CASE ReadFrame(s)
    <3>1. channel[s] # <<>> => Head(channel[s]).index # 0
      <4>1. channel[s] # <<>> => Head(channel[s]) \in Piece
        BY <1>0 DEF AtStream
      <4> QED
        BY <4>1, IndexIsNumber DEF Piece
    <3>2. /\ reader[s] # "retain" /\ (reader'[s] = "retain" => reading'[s] # 0) /\ UNCHANGED merged
          /\ (reader'[s] # "retain" => reading'[s] = reading[s])
          /\ \A p \in Sources \ {s} : reader'[p] = reader[p] /\ channel'[p] = channel[p] /\ reading'[p] = reading[p]
      BY <1>0, <2>2, <3>1 DEF ReadFrame, ReaderTo, ReaderAt, AtStream, streamVars, mergedVars
    <3> QED
      BY <2>0, <3>2 DEF Consistent
  <2>3. CASE Retain(s)
    <3>1. /\ reader'[s] = "test" /\ reading'[s] = 0 /\ UNCHANGED channel
          /\ \A p \in Sources \ {s} : reader'[p] = reader[p] /\ reading'[p] = reading[p]
      BY <1>0, <2>3 DEF Retain, ReaderTo, AtStream
    <3>2. ASSUME NEW p \in Sources, p # s, \A k \in DOMAIN merged : merged[k].source # p
          PROVE  \A k \in DOMAIN merged' : merged'[k].source # p
      <4> DEFINE i == reading[s]
                 n == Evicted(Indices, mergedBytes, Size[i])
                 e == [order |-> nextIndex, source |-> s, index |-> i]
                 part == SubSeq(merged, n + 1, Len(merged))
      <4>1. UNCHANGED merged \/ (merged' = Append(part, e) /\ ~Refused(Indices, mergedBytes, Size[i]))
        BY <2>3, Zenon DEF Retain, Indices, mergedVars
      <4>2. n \in 0..Len(merged)
        <5>1. Indices \in Seq(Index) /\ Len(Indices) = Len(merged)
          BY <1>0, IndicesAre DEF AtStream, Indices
        <5>2. i \in Index /\ Size[i] \in Nat /\ mergedBytes \in Nat
          BY <1>0, <2>3, SizesAre DEF AtStream, Retain, ReaderTo, ReaderAt, Consistent
        <5> QED
          BY <5>1, <5>2, EvictedIs
      <4>3. part \in Seq(Entry) /\ \A k \in 1..Len(part) : part[k] = merged[k + n] /\ k + n \in DOMAIN merged
        <5>1. merged \in Seq(Entry)
          BY <1>0 DEF AtStream
        <5> QED
          BY <4>2, <5>1, PartsAre
      <4>4. e.source # p
        BY <3>2
      <4> HIDE DEF part, n, e
      <4>5. \A k \in DOMAIN Append(part, e) : Append(part, e)[k] = e \/ (k \in 1..Len(part) /\ Append(part, e)[k] = part[k])
        BY <4>3
      <4> QED
        BY <3>2, <4>1, <4>3, <4>4, <4>5
    <3> QED
      BY <2>0, <3>1, <3>2 DEF Consistent
  <2>4. CASE ReaderThrew(s)
    <3>1. /\ reader[s] # "retain" /\ reader'[s] = "ended"
          /\ \A p \in Sources \ {s} : reader'[p] = reader[p]
          /\ UNCHANGED <<channel, reading, merged>>
      BY <1>0, <2>4 DEF ReaderThrew, ReaderTo, ReaderAt, mergedVars
    <3> QED
      BY <2>0, <3>1 DEF Consistent
  <2> QED
    BY <1>8, <2>1, <2>2, <2>3, <2>4 DEF ReaderStep
<1>9. ASSUME Receive, NEW q \in Sources PROVE Consistent(q)'
  <2>1. /\ merged # <<>> /\ merged' = Tail(merged)
        /\ delivered' = [delivered EXCEPT ![Head(merged).source] = Append(@, Head(merged).index)]
        /\ UNCHANGED <<kind, solver, closed, healthy, worker, held, buffer, file, channel, reader, reading>>
    BY <1>9 DEF Receive, nearEnd, rankVars, fixed
  <2>2. Head(merged) = merged[1] /\ 1 \in DOMAIN merged
    BY <1>0, <2>1 DEF AtStream
  <2>3. kind[q] # "stream" => delivered'[q] = delivered[q]
    BY <1>0, <2>1, <2>2 DEF Consistent, AtStream
  <2>4. \A k \in DOMAIN merged' : k + 1 \in DOMAIN merged /\ merged'[k] = merged[k + 1]
    BY <1>0, <2>1 DEF AtStream
  <2>5. kind[q] # "stream" => delivered'[q] = delivered[q] /\ \A k \in DOMAIN merged' : merged'[k].source # q
    BY <2>3, <2>4 DEF Consistent
  <2>6. /\ kind'[q] = kind[q] /\ solver'[q] = solver[q] /\ closed'[q] = closed[q] /\ healthy'[q] = healthy[q]
        /\ worker'[q] = worker[q] /\ held'[q] = held[q] /\ buffer'[q] = buffer[q] /\ file'[q] = file[q]
        /\ channel'[q] = channel[q] /\ reader'[q] = reader[q] /\ reading'[q] = reading[q]
    BY <2>1
  <2> QED
    BY <2>5, <2>6 DEF Consistent
<1>10. ASSUME OwnerStops, NEW q \in Sources PROVE Consistent(q)'
  BY <1>10 DEF OwnerStops, Consistent, nearEnd, rankVars, fixed, streamVars, mergedVars
<1> QED
  BY <1>1, <1>2, <1>3, <1>4, <1>5, <1>6, <1>7, <1>8, <1>9, <1>10 DEF Next, WorkerStep

\* Every step keeps lengths and frames in turns; a reader at a length never takes a frame for one.
LEMMA AlternatingStays ==
    ASSUME TypeOK, \A s \in Sources : Consistent(s) /\ Alternating(s), Next
    PROVE  \A q \in Sources : Alternating(q)'
<1> USE DEF To
<1>0. Labels /\ AtRanks /\ AtStream
  BY DEF TypeOK
<1>1. ASSUME NEW s \in Sources, Publish(s) \/ Shutdown(s) \/ SolverStops(s), NEW q \in Sources PROVE Alternating(q)'
  <2>1. UNCHANGED <<worker, channel, reader>>
    BY <1>1 DEF Publish, Shutdown, SolverStops, Check, StopCloses, StopInterrupts, StopJoins, farEnd
  <2> QED
    BY <2>1 DEF Alternating
<1>2. ASSUME NEW s \in Sources, Open(s) \/ Pop(s) \/ WriteLine(s) \/ WorkerFails(s), NEW q \in Sources
      PROVE  Alternating(q)'
  <2>1. UNCHANGED <<channel, reader>>
    BY <1>2 DEF Open, Pop, WriteLine, WorkerFails, farEnd
  <2>2. CASE WorkerAt(s, "pop") /\ (worker' = To(worker, s, "length") \/ worker' = To(worker, s, "done"))
    BY <1>0, <2>1, <2>2 DEF Alternating, Labels, WorkerAt
  <2>3. CASE kind[s] # "stream"
    <3>1. reader[s] = "ended" /\ \A p \in Sources \ {s} : worker'[p] = worker[p]
      BY <1>0, <1>2, <2>3 DEF Consistent, Labels, Open, Pop, WriteLine, WorkerFails, WorkerTo
    <3> QED
      BY <2>1, <3>1 DEF Alternating
  <2>4. CASE WorkerFails(s)
    <3>1. worker'[s] \notin {"pop", "length", "frame"} /\ \A p \in Sources \ {s} : worker'[p] = worker[p]
      BY <1>0, <2>4 DEF Labels, WorkerFails, WorkerTo
    <3> QED
      BY <2>1, <3>1 DEF Alternating
  <2> QED
    BY <1>0, <1>2, <2>2, <2>3, <2>4 DEF Consistent, WorkerAt, Open, Pop, WriteLine, WorkerTo
<1>3. ASSUME NEW s \in Sources, WriteFrame(s), NEW q \in Sources PROVE Alternating(q)'
  <2>1. UNCHANGED reader /\ \A p \in Sources \ {s} : worker'[p] = worker[p] /\ channel'[p] = channel[p]
    BY <1>0, <1>3 DEF Labels, AtStream, WriteFrame, WorkerTo, SendPiece, farEnd
  <2>2. ASSUME NEW part \in {"length", "frame"}, WorkerAt(s, part), SendPiece(s, part),
               worker' = To(worker, s, IF part = "length" THEN "frame" ELSE "pop")
        PROVE  Alternating(s)'
    <3> DEFINE c == channel[s]
               d == Append(c, [part |-> part, index |-> held[s]])
               n == Len(c)
    <3>1. c \in Seq(Piece) /\ channel'[s] = d
      BY <1>0, <2>2 DEF AtStream, SendPiece
    <3>2. /\ Len(d) = n + 1 /\ n \in Nat /\ d # <<>> /\ d[n + 1].part = part
          /\ \A k \in 1..n : d[k] = c[k]
      BY <3>1
    <3>3. worker'[s] = IF part = "length" THEN "frame" ELSE "pop"
      BY <1>0, <2>2 DEF Labels
    <3> SUFFICES ASSUME reader[s] \notin {"threw", "ended"} PROVE Alternating(s)'
      BY <2>1 DEF Alternating
    <3>4. /\ \A k \in 1..n - 1 : c[k].part # c[k + 1].part
          /\ c # <<>> => (c[1].part = "frame" <=> reader[s] = "frame") /\ c[n].part # part
          /\ c = <<>> => (part = "frame" <=> reader[s] = "frame")
      BY <2>2 DEF Alternating, WorkerAt
    <3>5. c # <<>> => n >= 1
      BY <3>1
    <3>6. c = <<>> => n = 0
      OBVIOUS
    <3> HIDE DEF c, d, n
    <3>7. \A k \in 1..(n + 1) - 1 : d[k].part # d[k + 1].part
      <4> TAKE k \in 1..(n + 1) - 1
      <4>1. CASE k = n
        <5>1. c # <<>> /\ k \in 1..n /\ d[k] = c[n]
          BY <3>2, <3>6, <4>1
        <5> QED
          BY <3>2, <3>4, <4>1, <5>1
      <4>2. CASE k # n
        <5>1. k \in 1..n - 1 /\ k \in 1..n /\ k + 1 \in 1..n
          BY <3>2, <4>2
        <5> QED
          BY <3>2, <3>4, <5>1
      <4> QED
        BY <4>1, <4>2
    <3>8. d[1].part = "frame" <=> reader[s] = "frame"
      <4>1. CASE c = <<>>
        BY <3>2, <3>4, <3>6, <4>1
      <4>2. CASE c # <<>>
        <5>1. 1 \in 1..n
          BY <3>2, <3>5, <4>2
        <5> QED
          BY <3>2, <3>4, <4>2, <5>1
      <4> QED
        BY <4>1, <4>2
    <3> QED
      BY <2>1, <3>1, <3>2, <3>3, <3>7, <3>8 DEF Alternating
  <2>3. CASE worker' = To(worker, s, "failed") /\ UNCHANGED channel
    BY <1>0, <2>1, <2>3 DEF Labels, Alternating
  <2>4. q # s => Alternating(q)'
    BY <2>1 DEF Alternating
  <2> QED
    BY <1>3, <2>2, <2>3, <2>4 DEF WriteFrame, WorkerTo
<1>4. ASSUME NEW s \in Sources, ReadFrame(s), NEW q \in Sources PROVE Alternating(q)'
  <2>1. UNCHANGED worker /\ \A p \in Sources \ {s} : reader'[p] = reader[p] /\ channel'[p] = channel[p]
    BY <1>0, <1>4 DEF Labels, AtStream, ReadFrame, ReaderTo, nearEnd, rankVars
  <2>2. ASSUME NEW here \in {"length", "frame"}, ReaderAt(s, here), channel[s] # <<>>,
               channel' = [channel EXCEPT ![s] = Tail(@)],
               reader' = To(reader, s, IF here = "length" THEN "frame" ELSE "retain")
        PROVE  Alternating(s)'
    <3> DEFINE c == channel[s]
               d == Tail(c)
               n == Len(c)
    <3>1. c \in Seq(Piece) /\ channel'[s] = d /\ c # <<>>
      BY <1>0, <2>2 DEF AtStream
    <3>2. /\ Len(d) = n - 1 /\ n \in Nat \ {0} /\ (d = <<>> => n = 1) /\ (d # <<>> => n > 1)
          /\ \A k \in 1..n - 1 : d[k] = c[k + 1]
      <4>1. /\ Len(d) = n - 1 /\ n \in Nat \ {0} /\ (d = <<>> <=> n = 1)
            /\ \A k \in 1..n - 1 : d[k] = c[k + 1]
        BY <3>1, RestIs
      <4> QED
        BY <4>1
    <3>3. reader'[s] = (IF here = "length" THEN "frame" ELSE "retain") /\ reader[s] = here
      BY <1>0, <2>2 DEF Labels, ReaderAt
    <3>4. /\ \A k \in 1..n - 1 : c[k].part # c[k + 1].part
          /\ c[1].part = "frame" <=> here = "frame"
          /\ worker[s] \in {"pop", "length"} => c[n].part = "frame"
          /\ worker[s] = "frame" => c[n].part = "length"
      BY <2>2, <3>3 DEF Alternating
    <3>p. \A k \in 1..n : c[k].part \in {"length", "frame"}
      <4>1. \A k \in 1..n : c[k] \in Piece
        BY <3>1, RestIs
      <4> QED
        BY <4>1 DEF Piece
    <3> HIDE DEF c, d, n
    <3>5. \A k \in 1..(n - 1) - 1 : d[k].part # d[k + 1].part
      <4> TAKE k \in 1..(n - 1) - 1
      <4>1. k \in 1..n - 1 /\ k + 1 \in 1..n - 1
        BY <3>2
      <4> QED
        BY <3>2, <3>4, <4>1
    <3>6. d # <<>> => (d[1].part = "frame" <=> reader'[s] = "frame")
      <4> SUFFICES ASSUME d # <<>> PROVE d[1].part = "frame" <=> reader'[s] = "frame"
        OBVIOUS
      <4>1. 1 \in 1..n - 1 /\ 1 + 1 = 2 /\ 2 \in 1..n /\ 1 \in 1..n
        BY <3>2
      <4>2. d[1] = c[2] /\ c[1].part # c[2].part /\ c[2].part \in {"length", "frame"} /\ c[1].part \in {"length", "frame"}
        BY <3>2, <3>4, <3>p, <4>1
      <4> QED
        BY <3>3, <3>4, <4>2
    <3>7. d # <<>> => d[n - 1] = c[n]
      BY <3>2
    <3>8. d = <<>> => n = 1
      BY <3>2
    <3> QED
      BY <2>1, <3>1, <3>2, <3>3, <3>4, <3>5, <3>6, <3>7, <3>8 DEF Alternating
  <2>3. CASE reader' = To(reader, s, "threw")
    BY <1>0, <2>1, <2>3 DEF Labels, Alternating
  <2>4. q # s => Alternating(q)'
    BY <2>1 DEF Alternating
  <2> QED
    BY <1>4, <2>2, <2>3, <2>4 DEF ReadFrame, ReaderTo
<1>5. ASSUME NEW s \in Sources, AwaitFrame(s) \/ Retain(s) \/ ReaderThrew(s), NEW q \in Sources PROVE Alternating(q)'
  <2>1. /\ UNCHANGED <<channel, worker>> /\ reader[s] # "frame" /\ \A p \in Sources \ {s} : reader'[p] = reader[p]
        /\ reader'[s] \in {"threw", "ended"} \/ (reader'[s] # "frame" /\ reader[s] \notin {"threw", "ended"})
    <3>1. CASE AwaitFrame(s)
      BY <1>0, <3>1 DEF AwaitFrame, ReaderTo, ReaderAt, nearEnd, rankVars, Labels
    <3>2. CASE Retain(s)
      <4>1. ReaderTo(s, "retain", "test") /\ UNCHANGED <<nearEnd, channel>>
        BY <3>2 DEF Retain
      <4> QED
        BY <1>0, <4>1 DEF ReaderTo, ReaderAt, nearEnd, rankVars, Labels
    <3>3. CASE ReaderThrew(s)
      BY <1>0, <3>3 DEF ReaderThrew, ReaderTo, ReaderAt, nearEnd, rankVars, Labels
    <3> QED
      BY <1>5, <3>1, <3>2, <3>3
  <2> QED
    BY <2>1 DEF Alternating
<1>6. ASSUME Receive \/ OwnerStops, NEW q \in Sources PROVE Alternating(q)'
  <2>1. UNCHANGED <<channel, worker, reader>>
    BY <1>6 DEF Receive, OwnerStops, nearEnd, rankVars
  <2> QED
    BY <2>1 DEF Alternating
<1> QED
  BY <1>1, <1>2, <1>3, <1>4, <1>5, <1>6 DEF Next, WorkerStep, ReaderStep

-----------------------------------------------------------------------------
(***************************************************************************)
(* What a step does to the records.                                        *)
(***************************************************************************)
Kept ==
    /\ AtRanks' /\ AtStream' /\ Within(Indices, mergedBytes)' /\ MergedInOrder' /\ Ledger'
    /\ \A q \in Sources : InOrder(Station(q), made[q])' /\ FileCounted(q)' /\ Within(buffer[q], bytes[q])'
records ==
    <<kind, made, dropped, bytes, buffer, file, held, channel, reading, merged, mergedBytes, mergedDropped,
      nextIndex, latest, delivered>>

\* What has failed or is being stopped stays so.
LEMMA QuietBefore == TypeOK /\ Next /\ Quiet' => Quiet
<1> SUFFICES ASSUME TypeOK, Next, Quiet' PROVE Quiet
  OBVIOUS
<1>0. Labels
  BY DEF TypeOK
<1> DEFINE Later ==
             /\ kind' = kind /\ (streamStopped => streamStopped')
             /\ \A q \in Sources :
                   /\ ~healthy[q] => ~healthy'[q]
                   /\ shut[q] => shut'[q]
                   /\ solver[q] \notin {"run", "check"} => solver'[q] \notin {"run", "check"}
<1>1. Later
  <2> USE <1>0 DEF Labels, To
  <2>1. ASSUME NEW s \in Sources, Publish(s) \/ Shutdown(s) \/ SolverStops(s) PROVE Later
    <3>1. CASE Publish(s)
      BY <3>1 DEF Publish, fixed, farEnd, streamVars, SolverAt
    <3>2. CASE Shutdown(s) \/ Check(s)
      BY <3>2 DEF Shutdown, Check, fixed, farEnd, streamVars, SolverAt
    <3>3. CASE StopCloses(s) \/ StopJoins(s)
      BY <3>3 DEF StopCloses, StopJoins, fixed, farEnd, streamVars, SolverAt
    <3>4. CASE StopInterrupts(s)
      BY <3>4 DEF StopInterrupts, fixed, farEnd, streamVars, SolverAt
    <3> QED
      BY <2>1, <3>1, <3>2, <3>3, <3>4 DEF SolverStops
  <2>2. ASSUME NEW s \in Sources, WorkerStep(s) PROVE Later
    <3>1. CASE WorkerFails(s)
      BY <3>1 DEF WorkerFails, solverSide, fixed, farEnd, streamVars
    <3>2. CASE ~WorkerFails(s)
      <4>1. UNCHANGED <<solverSide, healthy, shut, farEnd>>
        BY <2>2, <3>2 DEF WorkerStep, Open, Pop, WriteLine, WriteFrame
      <4> QED
        BY <4>1 DEF solverSide, fixed, farEnd, streamVars
    <3> QED
      BY <3>1, <3>2
  <2>3. ASSUME NEW s \in Sources, ReaderStep(s) PROVE Later
    <3>1. UNCHANGED <<nearEnd, shut, streamStopped>>
      BY <2>3 DEF ReaderStep, AwaitFrame, ReadFrame, Retain, ReaderThrew, streamVars
    <3> QED
      BY <3>1 DEF nearEnd, rankVars, fixed
  <2>4. CASE Receive
    BY <2>4 DEF Receive, nearEnd, rankVars, fixed
  <2>5. CASE OwnerStops
    BY <2>5 DEF OwnerStops, nearEnd, rankVars, fixed
  <2> QED
    BY <2>1, <2>2, <2>3, <2>4, <2>5 DEF Next
<1> QED
  BY <1>0, <1>1 DEF Quiet, Observed, Labels

\* A step that touches no record keeps all that is said of records.
LEMMA Idle ==
    ASSUME Inv, UNCHANGED records, \A q \in Sources : healthy'[q] => healthy[q], Quiet' => Quiet
    PROVE  Kept
<1>1. AtRanks' /\ AtStream' /\ Within(Indices, mergedBytes)' /\ MergedInOrder'
  BY DEF Inv, TypeOK, records, AtRanks, AtStream, Within, Indices, MergedInOrder
<1>2. Ledger'
  <2>1. Lost' = Lost /\ Counted' = Counted /\ mergedDropped' = mergedDropped
    BY DEF Lost, Counted, Missing, Trail, Merged, Frames, records
  <2> QED
    BY <2>1 DEF Inv, Ledger
<1>3. ASSUME NEW q \in Sources
      PROVE  InOrder(Station(q), made[q])' /\ FileCounted(q)' /\ Within(buffer[q], bytes[q])'
  <2>1. Station(q)' = Station(q) /\ made'[q] = made[q]
    BY DEF Station, Merged, Frames, records
  <2> QED
    BY <2>1 DEF Inv, Each, FileCounted, records
<1> QED
  BY <1>1, <1>2, <1>3 DEF Kept

-----------------------------------------------------------------------------
(***************************************************************************)
(* What is missing, and how much that is.                                  *)
(***************************************************************************)
LEMMA TrailIs ==
    ASSUME NEW X, NEW top, InOrder(X, top)
    PROVE  LET all == X[1] \o X[2] \o X[3] \o X[4] \o X[5] \o X[6] \o X[7]
           IN  all \in Seq(Nat) /\ Increasing(all) /\ Records(all) = Present(X)
<1> DEFINE p2 == X[1] \o X[2]
           p3 == p2 \o X[3]
           p4 == p3 \o X[4]
           p5 == p4 \o X[5]
           p6 == p5 \o X[6]
           p7 == p6 \o X[7]
<1>0. /\ \A m \in 1..7 : X[m] \in Seq(Nat) /\ Increasing(X[m])
      /\ \A m, n \in 1..7 : m < n => Below(Records(X[m]), Records(X[n]))
  BY DEF InOrder, Stations
<1>2. p2 \in Seq(Nat) /\ Increasing(p2) /\ Records(p2) = Records(X[1]) \cup Records(X[2])
  BY <1>0, JoinedRecords
<1> HIDE DEF p2
<1>3. p3 \in Seq(Nat) /\ Increasing(p3) /\ Records(p3) = Records(p2) \cup Records(X[3])
  <2>1. Below(Records(p2), Records(X[3]))
    BY <1>0, <1>2 DEF Below
  <2>2. X[3] \in Seq(Nat) /\ Increasing(X[3])
    BY <1>0
  <2> QED
    BY <1>2, <2>1, <2>2, JoinedRecords
<1> HIDE DEF p3
<1>4. p4 \in Seq(Nat) /\ Increasing(p4) /\ Records(p4) = Records(p3) \cup Records(X[4])
  <2>1. Below(Records(p3), Records(X[4]))
    BY <1>0, <1>2, <1>3 DEF Below
  <2>2. X[4] \in Seq(Nat) /\ Increasing(X[4])
    BY <1>0
  <2> QED
    BY <1>3, <2>1, <2>2, JoinedRecords
<1> HIDE DEF p4
<1>5. p5 \in Seq(Nat) /\ Increasing(p5) /\ Records(p5) = Records(p4) \cup Records(X[5])
  <2>1. Below(Records(p4), Records(X[5]))
    BY <1>0, <1>2, <1>3, <1>4 DEF Below
  <2>2. X[5] \in Seq(Nat) /\ Increasing(X[5])
    BY <1>0
  <2> QED
    BY <1>4, <2>1, <2>2, JoinedRecords
<1> HIDE DEF p5
<1>6. p6 \in Seq(Nat) /\ Increasing(p6) /\ Records(p6) = Records(p5) \cup Records(X[6])
  <2>1. Below(Records(p5), Records(X[6]))
    BY <1>0, <1>2, <1>3, <1>4, <1>5 DEF Below
  <2>2. X[6] \in Seq(Nat) /\ Increasing(X[6])
    BY <1>0
  <2> QED
    BY <1>5, <2>1, <2>2, JoinedRecords
<1> HIDE DEF p6
<1>7. p7 \in Seq(Nat) /\ Increasing(p7) /\ Records(p7) = Records(p6) \cup Records(X[7])
  <2>1. Below(Records(p6), Records(X[7]))
    BY <1>0, <1>2, <1>3, <1>4, <1>5, <1>6 DEF Below
  <2>2. X[7] \in Seq(Nat) /\ Increasing(X[7])
    BY <1>0
  <2> QED
    BY <1>6, <2>1, <2>2, JoinedRecords
<1>8. Records(p7) = Present(X)
  <2>1. \A x : x \in Records(p7) <=> \E m \in 1..7 : x \in Records(X[m])
    <3>1. \A x : x \in Records(p7) <=> x \in Records(X[1]) \/ x \in Records(X[2]) \/ x \in Records(X[3])
              \/ x \in Records(X[4]) \/ x \in Records(X[5]) \/ x \in Records(X[6]) \/ x \in Records(X[7])
      BY <1>2, <1>3, <1>4, <1>5, <1>6, <1>7
    <3>2. \A m : m \in 1..7 <=> m = 1 \/ m = 2 \/ m = 3 \/ m = 4 \/ m = 5 \/ m = 6 \/ m = 7
      OBVIOUS
    <3> QED
      BY <3>1, <3>2
  <2> QED
    BY <2>1 DEF Present, Stations
<1> QED
  BY <1>7, <1>8 DEF p2, p3, p4, p5, p6

\* The records of each source up to a number, without some.
Absent(m, P) == {z \in Sources \X Nat : z[2] \in 1..m[z[1]] /\ z[2] \notin P[z[1]]}
None == [s \in Sources |-> {}]
Here == [s \in Sources |-> Present(Station(s))]

\* What a trail lacks is what no station has.
LEMMA MissingIs ==
    ASSUME NEW X, NEW top, InOrder(X, top), NEW m \in Nat
    PROVE  (1..m) \ In(X[1] \o X[2] \o X[3] \o X[4] \o X[5] \o X[6] \o X[7]) = {i \in 1..m : i \notin Present(X)}
<1> DEFINE all == X[1] \o X[2] \o X[3] \o X[4] \o X[5] \o X[6] \o X[7]
<1>1. Records(all) = Present(X)
  BY TrailIs
<1>2. \A i \in 1..m : i # 0
  OBVIOUS
<1> HIDE DEF all
<1>3. (1..m) \ In(all) = {i \in 1..m : i \notin Present(X)}
  BY <1>1, <1>2 DEF Records
<1> QED
  BY <1>3 DEF all

\* The records that are missing, source by source.
LEMMA LostIs ==
    ASSUME AtRanks, \A s \in Sources : InOrder(Station(s), made[s])
    PROVE  Lost = Absent(made, Here)
<1>1. ASSUME NEW s \in Sources PROVE Missing(s) = {i \in 1..made[s] : i \notin Present(Station(s))}
  <2> DEFINE X == Station(s)
  <2>1. X[1] \o X[2] \o X[3] \o X[4] \o X[5] \o X[6] \o X[7] = Trail(s)
    BY DEF Station, Trail
  <2>2. made[s] \in Nat
    BY DEF AtRanks
  <2> HIDE DEF X
  <2>3. InOrder(X, made[s])
    BY DEF X
  <2>4. (1..made[s]) \ In(X[1] \o X[2] \o X[3] \o X[4] \o X[5] \o X[6] \o X[7]) = {i \in 1..made[s] : i \notin Present(X)}
    BY <2>2, <2>3, MissingIs
  <2> QED
    BY <2>1, <2>4 DEF Missing, X
<1>2. \A z : z \in Lost <=> \E s \in Sources : \E i \in 1..made[s] : i \notin Present(Station(s)) /\ z = <<s, i>>
  BY <1>1 DEF Lost
<1>3. \A z : z \in Absent(made, Here) <=>
            \E s \in Sources : \E i \in 1..made[s] : i \notin Present(Station(s)) /\ z = <<s, i>>
  <2>1. \A s \in Sources : Here[s] = Present(Station(s)) /\ 1..made[s] \subseteq Nat
    BY DEF Here, AtRanks
  <2>2. ASSUME NEW z, z \in Absent(made, Here)
        PROVE \E s \in Sources : \E i \in 1..made[s] : i \notin Present(Station(s)) /\ z = <<s, i>>
    BY <2>1, <2>2 DEF Absent
  <2>3. ASSUME NEW s \in Sources, NEW i \in 1..made[s], i \notin Present(Station(s))
        PROVE <<s, i>> \in Absent(made, Here)
    BY <2>1, <2>3 DEF Absent
  <2> QED
    BY <2>2, <2>3
<1> QED
  BY <1>2, <1>3

\* The records that are counted as dropped, likewise.
LEMMA CountedIs == ASSUME NEW d \in [Sources -> Nat] PROVE UNION {{s} \X (1..d[s]) : s \in Sources} = Absent(d, None)
<1>1. \A s \in Sources : None[s] = {} /\ 1..d[s] \subseteq Nat
  BY DEF None
<1>2. ASSUME NEW z, z \in Absent(d, None) PROVE \E s \in Sources : \E i \in 1..d[s] : z = <<s, i>>
  BY <1>2 DEF Absent
<1>3. ASSUME NEW s \in Sources, NEW i \in 1..d[s] PROVE <<s, i>> \in Absent(d, None)
  BY <1>1, <1>3 DEF Absent
<1>4. \A z : z \in UNION {{s} \X (1..d[s]) : s \in Sources} <=> \E s \in Sources : \E i \in 1..d[s] : z = <<s, i>>
  OBVIOUS
<1> QED
  BY <1>2, <1>3, <1>4

\* There are finitely many of either.
LEMMA AbsentFinite == ASSUME NEW m \in [Sources -> Nat], NEW P PROVE IsFiniteSet(Absent(m, P))
<1> DEFINE f == [s \in Sources |-> {s} \X (1..m[s])]
           T == {f[s] : s \in Sources}
<1>1. f \in Surjection(Sources, T)
  BY DEF Surjection
<1>2. IsFiniteSet(T)
  BY <1>1, SourcesAssumption, FS_Surjection
<1>3. ASSUME NEW s \in Sources PROVE IsFiniteSet(f[s])
  <2>1. IsFiniteSet({s}) /\ IsFiniteSet(1..m[s])
    <3>1. 1 \in Int /\ m[s] \in Int
      OBVIOUS
    <3> QED
      BY <3>1, FS_Singleton, FS_Interval
  <2> QED
    BY <2>1, FS_Product
<1>4. IsFiniteSet(UNION T)
  <2>1. \A t \in T : IsFiniteSet(t)
    BY <1>3
  <2> HIDE DEF T
  <2> QED
    BY <1>2, <2>1, FS_UNION
<1>5. Absent(m, P) \subseteq UNION T
  <2> SUFFICES ASSUME NEW z \in Absent(m, P) PROVE z \in UNION T
    OBVIOUS
  <2>1. z \in f[z[1]] /\ z[1] \in Sources
    BY DEF Absent
  <2> QED
    BY <2>1
<1> HIDE DEF T
<1> QED
  BY <1>4, <1>5, FS_Subset

\* A set numbered from 1 to n has n elements.
LEMMA OneEach ==
    ASSUME NEW n \in Nat, NEW D, NEW f \in [1..n -> D], \A z \in D : \E k \in 1..n : f[k] = z,
           \A j, k \in 1..n : j < k => f[j] # f[k]
    PROVE  IsFiniteSet(D) /\ Cardinality(D) = n
<1>1. f \in Bijection(1..n, D)
  BY DEF Bijection, Injection, Surjection, IsInjective
<1>2. IsFiniteSet(1..n) /\ Cardinality(1..n) = n
  BY FS_Interval
<1> QED
  BY <1>1, <1>2, FS_Bijection DEF ExistsBijection

\* Cardinalities of sets without a common element add up.
LEMMA MoreThan ==
    ASSUME NEW A, IsFiniteSet(A), NEW D, IsFiniteSet(D), A \cap D = {}
    PROVE  Cardinality(A \cup D) = Cardinality(A) + Cardinality(D)
<1>1. Cardinality(A \cap D) = 0
  BY FS_EmptySet
<1>2. Cardinality(A) \in Nat /\ Cardinality(D) \in Nat
  BY FS_CardinalityType
<1>3. Cardinality(A \cup D) = Cardinality(A) + Cardinality(D) - Cardinality(A \cap D)
  BY FS_Union
<1> QED
  BY <1>1, <1>2, <1>3

\* More are counted.
CountsMore(d, e, s, n) == e = [d EXCEPT ![s] = @ + n]

\* A counter that grows by n counts n more.
LEMMA CountedGrows ==
    ASSUME NEW d \in [Sources -> Nat], NEW s \in Sources, NEW n \in Nat, NEW e, CountsMore(d, e, s, n)
    PROVE  Cardinality(Absent(e, None)) = Cardinality(Absent(d, None)) + n
<1> DEFINE D == {s} \X (d[s] + 1 .. d[s] + n)
<1>1. Absent(e, None) = Absent(d, None) \cup D
  <2>0. \A q \in Sources : None[q] = {} /\ e[q] = (IF q = s THEN d[q] + n ELSE d[q]) /\ d[q] \in Nat
    BY DEF None, CountsMore
  <2>1. ASSUME NEW z, z \in Absent(e, None) PROVE z \in Absent(d, None) \cup D
    BY <2>0, <2>1 DEF Absent
  <2>2. ASSUME NEW z, z \in Absent(d, None) PROVE z \in Absent(e, None)
    BY <2>0, <2>2 DEF Absent
  <2>3. ASSUME NEW z, z \in D PROVE z \in Absent(e, None)
    BY <2>0, <2>3 DEF Absent
  <2> QED
    BY <2>1, <2>2, <2>3
<1>2. Absent(d, None) \cap D = {}
  BY DEF Absent
<1>3. IsFiniteSet(D) /\ Cardinality(D) = n
  <2>1. IsFiniteSet({s}) /\ Cardinality({s}) = 1
    BY FS_Singleton
  <2>2. d[s] \in Nat /\ IsFiniteSet(d[s] + 1 .. d[s] + n) /\ Cardinality(d[s] + 1 .. d[s] + n) = n
    <3>1. d[s] \in Nat /\ d[s] + 1 \in Int /\ d[s] + n \in Int
      OBVIOUS
    <3>2. /\ IsFiniteSet(d[s] + 1 .. d[s] + n)
          /\ Cardinality(d[s] + 1 .. d[s] + n)
                = IF d[s] + 1 > d[s] + n THEN 0 ELSE (d[s] + n) - (d[s] + 1) + 1
      BY <3>1, FS_Interval
    <3> QED
      BY <3>1, <3>2
  <2>3. IsFiniteSet(D) /\ Cardinality(D) = Cardinality({s}) * Cardinality(d[s] + 1 .. d[s] + n)
    BY <2>1, <2>2, FS_Product
  <2> QED
    BY <2>1, <2>2, <2>3
<1> HIDE DEF D
<1> QED
  BY <1>1, <1>2, <1>3, AbsentFinite, MoreThan

Placed == \A s \in Sources : InOrder(Station(s), made[s])
Balanced == Quiet => Cardinality(Absent(made, Here)) = Cardinality(Absent(dropped, None)) + mergedDropped

\* The ledger, in these terms.
LEMMA LedgerIs == AtRanks /\ Placed => (Ledger <=> Balanced)
<1> SUFFICES ASSUME AtRanks, Placed PROVE Ledger <=> Balanced
  OBVIOUS
<1>1. Lost = Absent(made, Here)
  BY LostIs DEF Placed
<1>2. Counted = Absent(dropped, None)
  BY CountedIs DEF Counted, AtRanks
<1> QED
  BY <1>1, <1>2 DEF Ledger, Balanced

\* The ledger after a step.
LEMMA LedgerNext == AtRanks' /\ Placed' => (Ledger' <=> Balanced')
BY LedgerIs, PTL

\* The stations of a source by name.
LEMMA StationIs ==
    ASSUME NEW s
    PROVE  /\ Station(s)[1] = file[s] /\ Station(s)[2] = delivered[s] /\ Station(s)[3] = Merged(s)
           /\ Station(s)[4] = <<reading[s]>> /\ Station(s)[5] = Frames(s) /\ Station(s)[6] = <<held[s]>>
           /\ Station(s)[7] = buffer[s]
           /\ (Station(s)[1])' = file'[s] /\ (Station(s)[2])' = delivered'[s] /\ (Station(s)[3])' = Merged(s)'
           /\ (Station(s)[4])' = <<reading'[s]>> /\ (Station(s)[5])' = Frames(s)' /\ (Station(s)[6])' = <<held'[s]>>
           /\ (Station(s)[7])' = buffer'[s]
BY DEF Station

\* There are seven.
LEMMA StationsAre == \A m : m \in Stations <=> m = 1 \/ m = 2 \/ m = 3 \/ m = 4 \/ m = 5 \/ m = 6 \/ m = 7
BY DEF Stations

\* A step after which all records are there, perhaps at another station.
LEMMA AllMove ==
    ASSUME Inv, Quiet' => Quiet, AtRanks', AtStream', UNCHANGED <<made, dropped, mergedDropped>>,
           \A s \in Sources : InOrder(Station(s)', made[s]) /\ Present(Station(s)') = Present(Station(s))
    PROVE  Placed' /\ Ledger'
<1>1. Placed'
  BY DEF Placed
<1>2. Here' = Here
  BY DEF Here
<1>3. Ledger <=> Balanced
  BY LedgerIs DEF Inv, TypeOK, Placed, Each
<1>4. Ledger' <=> Balanced'
  BY <1>1, LedgerNext
<1>5. Balanced => Balanced'
  BY <1>2 DEF Balanced
<1> QED
  BY <1>1, <1>3, <1>4, <1>5 DEF Inv

\* The same for a step that concerns one source.
LEMMA OneMoves ==
    ASSUME Inv, Quiet' => Quiet, AtRanks', AtStream', NEW s \in Sources,
           UNCHANGED <<made, dropped, mergedDropped>>,
           \A q \in Sources \ {s} : Station(q)' = Station(q),
           InOrder(Station(s)', made[s]), Present(Station(s)') = Present(Station(s))
    PROVE  Placed' /\ Ledger'
<1>1. \A q \in Sources : InOrder(Station(q)', made[q]) /\ Present(Station(q)') = Present(Station(q))
  BY DEF Inv, Each
<1> QED
  BY <1>1, AllMove

\* A step that leaves the merged stream alone.
LEMMA MergedStays ==
    ASSUME Inv, UNCHANGED <<merged, mergedBytes, nextIndex, latest>>
    PROVE  Within(Indices, mergedBytes)' /\ MergedInOrder'
BY DEF Inv, Within, Indices, MergedInOrder

\* wait_pop_oldest: a record goes from the buffer into the hands of the worker.
LEMMA KeptByPop == ASSUME Inv, Next, NEW s \in Sources, Pop(s), buffer[s] # <<>> PROVE Kept
<1> DEFINE i == Head(buffer[s])
           X == Station(s)
           Y == Station(s)'
<1>0. AtRanks /\ AtStream /\ InOrder(X, made[s]) /\ FileCounted(s) /\ Within(buffer[s], bytes[s]) /\ Labels
  BY DEF Inv, TypeOK, Each
<1>1. WorkerAt(s, "pop") /\ held[s] = 0
  BY DEF Pop, WorkerTo, Inv, Each, Consistent, WorkerAt
<1>2. /\ held' = [held EXCEPT ![s] = i] /\ buffer' = [buffer EXCEPT ![s] = Tail(@)]
      /\ bytes' = [bytes EXCEPT ![s] = @ - Size[i]]
      /\ UNCHANGED <<kind, made, dropped, healthy, file, channel, reading, merged, mergedBytes, mergedDropped,
                     nextIndex, latest, delivered>>
  BY DEF Pop, solverSide, fixed, farEnd, streamVars, mergedVars
<1>3. i \in Index /\ Tail(buffer[s]) \in Seq(Index) /\ Within(Tail(buffer[s]), bytes[s] - Size[i])
  BY <1>0, OldestFits DEF AtRanks
<1>4. AtRanks' /\ AtStream'
  <2>1. bytes[s] - Size[i] \in Nat
    BY <1>3, SizeIsNumber DEF Within
  <2> HIDE DEF i
  <2> QED
    BY <1>0, <1>2, <1>3, <2>1 DEF AtRanks, AtStream
<1>5. held'[s] = i /\ buffer'[s] = Tail(buffer[s]) /\ bytes'[s] = bytes[s] - Size[i]
      /\ \A q \in Sources \ {s} : held'[q] = held[q] /\ buffer'[q] = buffer[q] /\ bytes'[q] = bytes[q]
  BY <1>0, <1>2 DEF AtRanks
<1>6. \A q \in Sources \ {s} : Station(q)' = Station(q)
  BY <1>2, <1>5 DEF Station, Merged, Frames
<1>7. InOrder(Y, made[s]) /\ Present(Y) = Present(X)
  <2>1. /\ X[7] = buffer[s] /\ X[6] = <<held[s]>> /\ Y[7] = Tail(buffer[s]) /\ Y[6] = <<i>>
        /\ Y[1] = X[1] /\ Y[2] = X[2] /\ Y[3] = X[3] /\ Y[4] = X[4] /\ Y[5] = X[5]
    <3>1. Merged(s)' = Merged(s) /\ Frames(s)' = Frames(s) /\ delivered' = delivered /\ reading' = reading /\ file' = file
      BY <1>2 DEF Merged, Frames
    <3> HIDE DEF i
    <3> QED
      BY <1>5, <3>1 DEF Station
  <2>2. X[7] \in Seq(Nat) /\ Increasing(X[7]) /\ X[7] # <<>>
    BY <1>0, <2>1, StationsAre DEF InOrder
  <2>3. i \in Nat /\ i # 0
    BY <1>3, IndexIsNumber
  <2>4. /\ Y[7] \in Seq(Nat) /\ Increasing(Y[7]) /\ Records(X[7]) = Records(Y[7]) \cup {i}
        /\ \A y \in Records(Y[7]) : i < y
    BY <2>1, <2>2, <2>3, OldestRecord
  <2>5. Y[6] \in Seq(Nat) /\ Increasing(Y[6]) /\ Records(Y[6]) = {i}
    BY <2>1, <2>3, OneRecord
  <2>6. Records(X[6]) = {}
    BY <1>1, <2>1, OneRecord
  <2> HIDE DEF X, Y, i
  <2>7. \A m \in Stations : Y[m] \in Seq(Nat) /\ Increasing(Y[m])
    <3>1. \A m \in Stations \ {7, 6} : Y[m] = X[m]
      BY <2>1, StationsAre
    <3>2. \A m \in Stations : X[m] \in Seq(Nat) /\ Increasing(X[m])
      BY <1>0 DEF InOrder
    <3> QED
      BY <2>4, <2>5, <3>1, <3>2
  <2>8. \A m \in Stations \ {7, 6} : Records(Y[m]) = Records(X[m])
    BY <2>1, StationsAre
  <2>9. Records(Y[6]) = Records(X[6]) \cup {i}
    BY <2>5, <2>6
  <2>10. Moves(X, Y, 7, 6, i)
    BY <2>3, <2>4, <2>7, <2>8, <2>9 DEF Moves, Stations
  <2> QED
    BY <1>0, <2>10, RecordMoves
<1>8. Placed' /\ Ledger'
  BY <1>2, <1>4, <1>6, <1>7, OneMoves, QuietBefore DEF Inv
<1>9. \A q \in Sources : FileCounted(q)' /\ Within(buffer[q], bytes[q])'
  <2>1. FileCounted(s)'
    <3>1. Len(buffer[s]) = Len(buffer'[s]) + 1 /\ Len(buffer'[s]) \in Nat /\ i # 0
      BY <1>0, <1>3, <1>5, RestIs, IndexIsNumber DEF AtRanks
    <3>2. made[s] \in Nat /\ dropped[s] \in Nat /\ Len(file[s]) \in Nat
      BY <1>0 DEF AtRanks
    <3> QED
      BY <1>0, <1>1, <1>2, <1>5, <3>1, <3>2 DEF FileCounted
  <2>2. Within(buffer[s], bytes[s])'
    BY <1>3, <1>5 DEF Within
  <2>3. ASSUME NEW q \in Sources \ {s} PROVE FileCounted(q)' /\ Within(buffer[q], bytes[q])'
    BY <1>2, <1>5, <2>3 DEF FileCounted, Within, Inv, Each
  <2> QED
    BY <2>1, <2>2, <2>3
<1> QED
  BY <1>2, <1>4, <1>8, <1>9, MergedStays DEF Kept, Placed

\* The writer: a record goes from the hands of the worker into the file.
LEMMA KeptByLine ==
    ASSUME Inv, Next, NEW s \in Sources, WriteLine(s), WorkerTo(s, "write", "pop"),
           file' = [file EXCEPT ![s] = Append(@, held[s])], held' = [held EXCEPT ![s] = 0]
    PROVE  Kept
<1> DEFINE i == held[s]
           X == Station(s)
           Y == Station(s)'
<1>0. AtRanks /\ AtStream /\ InOrder(X, made[s]) /\ FileCounted(s) /\ Within(buffer[s], bytes[s]) /\ Consistent(s)
  BY DEF Inv, TypeOK, Each
<1>1. i # 0 /\ i \in Index /\ i \in Nat /\ kind[s] = "file"
  BY <1>0, IndexIsNumber DEF WorkerTo, WorkerAt, Consistent, AtRanks
<1>2. UNCHANGED <<kind, made, dropped, healthy, buffer, bytes, channel, reading, merged, mergedBytes, mergedDropped,
                  nextIndex, latest, delivered>>
  BY DEF WriteLine, solverSide, fixed, farEnd, streamVars, mergedVars
<1>4. AtRanks' /\ AtStream'
  BY <1>0, <1>1, <1>2 DEF AtRanks, AtStream
<1>5. held'[s] = 0 /\ file'[s] = Append(file[s], i) /\ \A q \in Sources \ {s} : held'[q] = held[q] /\ file'[q] = file[q]
  BY <1>0 DEF AtRanks
<1>6. \A q \in Sources \ {s} : Station(q)' = Station(q)
  BY <1>2, <1>5 DEF Station, Merged, Frames
<1>7. InOrder(Y, made[s]) /\ Present(Y) = Present(X)
  <2>1. /\ X[1] = file[s] /\ X[6] = <<i>> /\ Y[1] = Append(file[s], i) /\ Y[6] = << 0 >>
        /\ Y[2] = X[2] /\ Y[3] = X[3] /\ Y[4] = X[4] /\ Y[5] = X[5] /\ Y[7] = X[7]
    <3>1. Merged(s)' = Merged(s) /\ Frames(s)' = Frames(s)
      BY <1>2 DEF Merged, Frames
    <3> QED
      BY <1>2, <1>5, <3>1 DEF Station
  <2>2. X[1] \in Seq(Nat) /\ Increasing(X[1]) /\ \A y \in Records(X[1]) : y < i
    <3>1. i \in Records(X[6])
      BY <1>1, <2>1, OneRecord
    <3> QED
      BY <1>0, <3>1, StationsAre DEF InOrder, Below
  <2>3. Y[1] \in Seq(Nat) /\ Increasing(Y[1]) /\ Records(Y[1]) = Records(X[1]) \cup {i}
    BY <1>1, <2>1, <2>2, AnotherRecord
  <2>4. /\ Y[6] \in Seq(Nat) /\ Increasing(Y[6]) /\ Records(Y[6]) = {}
        /\ Records(X[6]) = {i}
    BY <1>1, <2>1, OneRecord
  <2>5. Records(X[2]) = {} /\ Records(X[3]) = {} /\ Records(X[4]) = {} /\ Records(X[5]) = {}
    <3>1. delivered[s] = <<>> /\ channel[s] = <<>> /\ reading[s] = 0
          /\ \A k \in DOMAIN merged : merged[k].source # s
      BY <1>0, <1>1 DEF Consistent
    <3>2. Frames(s) = <<>>
      BY <3>1 DEF Frames
    <3>3. Merged(s) \in [DOMAIN merged -> {0}]
      BY <3>1 DEF Merged
    <3>4. Records(Merged(s)) = {}
      BY <3>3 DEF Records, In
    <3>5. X[2] = <<>> /\ X[3] = Merged(s) /\ X[4] = << 0 >> /\ X[5] = <<>>
      BY <3>1, <3>2, StationIs
    <3>6. Records(<<>>) = {} /\ Records(<< 0 >>) = {}
      BY NoRecord, OneRecord
    <3> HIDE DEF X
    <3> QED
      BY <3>4, <3>5, <3>6
  <2> HIDE DEF X, Y, i
  <2>7. \A m \in Stations : Y[m] \in Seq(Nat) /\ Increasing(Y[m])
    <3>1. \A m \in Stations \ {6, 1} : Y[m] = X[m]
      BY <2>1, StationsAre
    <3>2. \A m \in Stations : X[m] \in Seq(Nat) /\ Increasing(X[m])
      BY <1>0 DEF InOrder
    <3> QED
      BY <2>3, <2>4, <3>1, <3>2
  <2>8. \A m \in Stations \ {6, 1} : Records(Y[m]) = Records(X[m])
    BY <2>1, StationsAre
  <2>9. \A m \in Stations : 1 < m /\ m < 6 => Records(X[m]) = {}
    BY <2>5, StationsAre
  <2>10. Moves(X, Y, 6, 1, i)
    BY <1>1, <2>3, <2>4, <2>7, <2>8, <2>9, SMTT(30) DEF Moves, Stations
  <2> QED
    BY <1>0, <2>10, RecordMoves
<1>8. Placed' /\ Ledger'
  BY <1>2, <1>4, <1>6, <1>7, OneMoves, QuietBefore DEF Inv
<1>9. \A q \in Sources : FileCounted(q)' /\ Within(buffer[q], bytes[q])'
  <2>1. FileCounted(s)'
    <3> DEFINE before == Len(file[s])
               after == Len(file'[s])
               waiting == Len(buffer[s])
    <3>1. after = before + 1 /\ before \in Nat /\ waiting \in Nat
      BY <1>0, <1>1, <1>5 DEF AtRanks
    <3>2. made[s] \in Nat /\ dropped[s] \in Nat
      BY <1>0 DEF AtRanks
    <3>3. healthy[s] => made[s] = dropped[s] + before + waiting + 1
      BY <1>0, <1>1 DEF FileCounted
    <3> HIDE DEF before, after, waiting
    <3>4. healthy[s] => made[s] = dropped[s] + after + waiting + 0
      BY <3>1, <3>2, <3>3
    <3> QED
      BY <1>2, <1>5, <3>4 DEF FileCounted, after, waiting
  <2>2. Within(buffer[s], bytes[s])'
    BY <1>0, <1>2, <1>5 DEF Within
  <2>3. ASSUME NEW q \in Sources \ {s} PROVE FileCounted(q)' /\ Within(buffer[q], bytes[q])'
    BY <1>2, <1>5, <2>3 DEF FileCounted, Within, Inv, Each
  <2> QED
    BY <2>1, <2>2, <2>3
<1> QED
  BY <1>2, <1>4, <1>8, <1>9, MergedStays DEF Kept, Placed

\* One piece more, or one less, on the way.
LEMMA ChannelIs ==
    ASSUME NEW c \in Seq(Piece), NEW p \in Piece
    PROVE  /\ Append(c, p) \in Seq(Piece)
           /\ Mapped(FrameOf, Append(c, p)) = Append(Mapped(FrameOf, c), IF p.part = "frame" THEN p.index ELSE 0)
           /\ c # <<>> => /\ Head(c) \in Piece /\ Tail(c) \in Seq(Piece)
                          /\ Mapped(FrameOf, c) # <<>>
                          /\ Head(Mapped(FrameOf, c)) = (IF Head(c).part = "frame" THEN Head(c).index ELSE 0)
                          /\ Mapped(FrameOf, Tail(c)) = Tail(Mapped(FrameOf, c))
<1>1. \A x \in Piece : FrameOf[x] = IF x.part = "frame" THEN x.index ELSE 0
  BY DEF FrameOf
<1>2. Append(c, p) \in Seq(Piece) /\ Mapped(FrameOf, Append(c, p)) = Append(Mapped(FrameOf, c), FrameOf[p])
  BY MapsAre, MappedAppend
<1>3. c # <<>> => /\ Mapped(FrameOf, Tail(c)) = Tail(Mapped(FrameOf, c))
                  /\ Head(Mapped(FrameOf, c)) = FrameOf[Head(c)] /\ Mapped(FrameOf, c) # <<>>
                  /\ Head(c) \in Piece /\ Tail(c) \in Seq(Piece)
  BY MapsAre, MappedTail
<1> QED
  BY <1>1, <1>2, <1>3

\* The records on their way.
LEMMA FramesNow == AtStream => \A q \in Sources : Frames(q) = Mapped(FrameOf, channel[q])
BY FramesAre DEF AtStream, Frames

\* The same after a step.
LEMMA FramesNext == AtStream' => \A q \in Sources : Frames(q)' = Mapped(FrameOf, channel'[q])
<1>1. ASSUME AtStream', NEW q \in Sources PROVE Frames(q)' = Mapped(FrameOf, channel'[q])
  <2>1. channel'[q] \in Seq(Piece)
    BY <1>1 DEF AtStream
  <2> QED
    BY <2>1, FramesAre DEF Frames
<1> QED
  BY <1>1

\* Only the channel of one source and what is held at its ends may have changed.
OnChannel(s) ==
    /\ UNCHANGED <<kind, made, dropped, healthy, file, buffer, bytes, merged, mergedBytes, mergedDropped, nextIndex,
                   latest, delivered>>
    /\ \A q \in Sources \ {s} : channel'[q] = channel[q] /\ held'[q] = held[q] /\ reading'[q] = reading[q]

\* Such a step keeps the rest.
LEMMA KeptOnChannel ==
    ASSUME Inv, Next, AtRanks', AtStream', NEW s \in Sources, OnChannel(s), kind[s] # "file",
           InOrder(Station(s)', made[s]), Present(Station(s)') = Present(Station(s))
    PROVE  Kept
<1>1. \A q \in Sources \ {s} : Station(q)' = Station(q)
  <2>1. ASSUME NEW q \in Sources \ {s} PROVE Merged(q)' = Merged(q) /\ Frames(q)' = Frames(q)
    BY DEF OnChannel, Merged, Frames
  <2> QED
    BY <2>1 DEF OnChannel, Station
<1>2. Placed' /\ Ledger'
  BY <1>1, OneMoves, QuietBefore DEF Inv, OnChannel
<1>3. \A q \in Sources : FileCounted(q)' /\ Within(buffer[q], bytes[q])'
  BY DEF OnChannel, FileCounted, Within, Inv, Each
<1> QED
  BY <1>2, <1>3, MergedStays DEF Kept, Placed, OnChannel

\* write_frame: a length is no record yet, a frame is one.
LEMMA KeptByPiece ==
    ASSUME Inv, Next, NEW s \in Sources, WriteFrame(s), NEW part \in {"length", "frame"}, WorkerAt(s, part),
           SendPiece(s, part), held' = [held EXCEPT ![s] = IF part = "frame" THEN 0 ELSE held[s]]
    PROVE  Kept
<1> DEFINE i == held[s]
           p == [part |-> part, index |-> i]
           X == Station(s)
           Y == Station(s)'
<1>0. AtRanks /\ AtStream /\ InOrder(X, made[s]) /\ Consistent(s)
  BY DEF Inv, TypeOK, Each
<1>1. i # 0 /\ i \in Index /\ i \in Nat /\ kind[s] = "stream" /\ p \in Piece
  BY <1>0, IndexIsNumber DEF WorkerAt, Consistent, AtRanks, Piece
<1>2. UNCHANGED <<kind, made, dropped, healthy, file, buffer, bytes, reading, merged, mergedBytes, mergedDropped,
                  nextIndex, latest, delivered>>
  BY DEF WriteFrame, solverSide, fixed, farEnd, streamVars, mergedVars
<1>3. channel' = [channel EXCEPT ![s] = Append(@, p)]
  BY DEF SendPiece
<1>4. AtRanks' /\ AtStream'
  BY <1>0, <1>1, <1>2, <1>3 DEF AtRanks, AtStream
<1>5. /\ channel'[s] = Append(channel[s], p) /\ channel[s] \in Seq(Piece)
      /\ held'[s] = IF part = "frame" THEN 0 ELSE i
      /\ \A q \in Sources \ {s} : held'[q] = held[q] /\ channel'[q] = channel[q]
  BY <1>0, <1>3 DEF AtRanks, AtStream
<1>6. InOrder(Y, made[s]) /\ Present(Y) = Present(X)
  <2>1. /\ X[6] = <<i>> /\ Y[6] = <<held'[s]>>
        /\ Y[1] = X[1] /\ Y[2] = X[2] /\ Y[3] = X[3] /\ Y[4] = X[4] /\ Y[7] = X[7]
    <3>1. Merged(s)' = Merged(s)
      BY <1>2 DEF Merged
    <3> QED
      BY <1>2, <3>1 DEF Station
  <2>2. Y[5] = Append(X[5], IF part = "frame" THEN i ELSE 0)
    <3>1. X[5] = Mapped(FrameOf, channel[s]) /\ Y[5] = Mapped(FrameOf, channel'[s])
      BY <1>0, <1>4, FramesNow, FramesNext, StationIs
    <3>2. Mapped(FrameOf, channel'[s]) = Append(Mapped(FrameOf, channel[s]), IF p.part = "frame" THEN p.index ELSE 0)
      BY <1>1, <1>5, ChannelIs
    <3> QED
      BY <3>1, <3>2
  <2>3. X[5] \in Seq(Nat) /\ Increasing(X[5]) /\ \A y \in Records(X[5]) : y < i
    <3>1. i \in Records(X[6])
      BY <1>1, <2>1, OneRecord
    <3> QED
      BY <1>0, <3>1, StationsAre DEF InOrder, Below
  <2>4. Records(X[6]) = {i}
    BY <1>1, <2>1, OneRecord
  <2> HIDE DEF X, Y, i, p
  <2>5. CASE part = "frame"
    <3>1. Y[5] \in Seq(Nat) /\ Increasing(Y[5]) /\ Records(Y[5]) = Records(X[5]) \cup {i}
      BY <1>1, <2>2, <2>3, <2>5, AnotherRecord
    <3>2. Y[6] \in Seq(Nat) /\ Increasing(Y[6]) /\ Records(Y[6]) = {}
      BY <1>5, <2>1, <2>5, OneRecord
    <3>3. \A m \in Stations : Y[m] \in Seq(Nat) /\ Increasing(Y[m])
      <4>1. \A m \in Stations \ {6, 5} : Y[m] = X[m]
        BY <2>1, StationsAre
      <4>2. \A m \in Stations : X[m] \in Seq(Nat) /\ Increasing(X[m])
        BY <1>0 DEF InOrder
      <4> QED
        BY <3>1, <3>2, <4>1, <4>2
    <3>4. \A m \in Stations \ {6, 5} : Records(Y[m]) = Records(X[m])
      BY <2>1, StationsAre
    <3>5. Moves(X, Y, 6, 5, i)
      BY <1>1, <2>4, <3>1, <3>2, <3>3, <3>4 DEF Moves, Stations
    <3> QED
      BY <1>0, <3>5, RecordMoves
  <2>6. CASE part # "frame"
    <3>1. Y[5] \in Seq(Nat) /\ Increasing(Y[5]) /\ Records(Y[5]) = Records(X[5])
      <4>1. Y[5] = Append(X[5], 0)
        BY <2>2, <2>6
      <4> QED
        BY <2>3, <4>1, NothingAdded
    <3>2. Y[6] = X[6]
      BY <1>5, <2>1, <2>6
    <3>3. Same(X, Y)
      <4>1. \A m \in Stations \ {6, 5} : Y[m] = X[m]
        BY <2>1, StationsAre
      <4>2. \A m \in Stations : X[m] \in Seq(Nat) /\ Increasing(X[m])
        BY <1>0 DEF InOrder
      <4> QED
        BY <3>1, <3>2, <4>1, <4>2 DEF Same
    <3> QED
      BY <1>0, <3>3, RecordsStay
  <2> QED
    BY <2>5, <2>6
<1> QED
  BY <1>1, <1>2, <1>4, <1>5, <1>6, KeptOnChannel DEF OnChannel

\* read_frame: a record arrives with its frame.
LEMMA KeptByRead ==
    ASSUME Inv, Next, NEW s \in Sources, ReadFrame(s), NEW here \in {"length", "frame"}, ReaderAt(s, here),
           channel[s] # <<>>, channel' = [channel EXCEPT ![s] = Tail(@)],
           reading' = [reading EXCEPT ![s] = IF here = "frame" THEN Head(channel[s]).index ELSE reading[s]]
    PROVE  Kept
<1> DEFINE p == Head(channel[s])
           i == p.index
           X == Station(s)
           Y == Station(s)'
<1>0. AtRanks /\ AtStream /\ InOrder(X, made[s]) /\ Consistent(s) /\ Alternating(s)
  BY DEF Inv, TypeOK, Each
<1>1. channel[s] \in Seq(Piece) /\ p \in Piece /\ Tail(channel[s]) \in Seq(Piece) /\ p = channel[s][1]
  BY <1>0, RestIs DEF AtStream
<1>2. i # 0 /\ i \in Index /\ i \in Nat
  BY <1>1, IndexIsNumber DEF Piece
<1>3. UNCHANGED <<kind, made, dropped, healthy, file, buffer, bytes, held, merged, mergedBytes, mergedDropped,
                  nextIndex, latest, delivered>>
  BY DEF ReadFrame, nearEnd, rankVars, fixed, streamVars, mergedVars
<1>4. AtRanks' /\ AtStream'
  <2> HIDE DEF i
  <2> QED
    BY <1>0, <1>1, <1>2, <1>3 DEF AtRanks, AtStream, i
<1>5. /\ channel'[s] = Tail(channel[s]) /\ reading[s] = 0
      /\ reading'[s] = (IF here = "frame" THEN i ELSE 0)
      /\ \A q \in Sources \ {s} : reading'[q] = reading[q] /\ channel'[q] = channel[q]
  BY <1>0 DEF AtStream, Consistent, ReaderAt
<1>p. p.part = here /\ kind[s] = "stream"
  <2>1. reader[s] = here
    BY DEF ReaderAt
  <2>2. p.part \in {"length", "frame"}
    BY <1>1 DEF Piece
  <2>3. p.part = "frame" <=> here = "frame"
    BY <1>0, <1>1, <2>1 DEF Alternating
  <2> QED
    BY <1>0, <2>1, <2>2, <2>3 DEF Consistent
<1>6. InOrder(Y, made[s]) /\ Present(Y) = Present(X)
  <2>1. /\ X[4] = << 0 >> /\ Y[4] = <<reading'[s]>>
        /\ Y[1] = X[1] /\ Y[2] = X[2] /\ Y[3] = X[3] /\ Y[6] = X[6] /\ Y[7] = X[7]
    <3>1. Merged(s)' = Merged(s)
      BY <1>3 DEF Merged
    <3> QED
      BY <1>3, <1>5, <3>1 DEF Station
  <2>2. X[5] # <<>> /\ Y[5] = Tail(X[5]) /\ Head(X[5]) = IF here = "frame" THEN i ELSE 0
    <3>1. X[5] = Mapped(FrameOf, channel[s]) /\ Y[5] = Mapped(FrameOf, channel'[s])
      BY <1>0, <1>4, FramesNow, FramesNext, StationIs
    <3>2. /\ Mapped(FrameOf, channel[s]) # <<>>
          /\ Mapped(FrameOf, channel'[s]) = Tail(Mapped(FrameOf, channel[s]))
          /\ Head(Mapped(FrameOf, channel[s])) = IF p.part = "frame" THEN p.index ELSE 0
      BY <1>1, <1>5, ChannelIs
    <3> HIDE DEF X, Y, p
    <3> QED
      BY <1>p, <3>1, <3>2
  <2>3. X[5] \in Seq(Nat) /\ Increasing(X[5])
    BY <1>0, StationsAre DEF InOrder
  <2> HIDE DEF X, Y, i, p
  <2>4. /\ Y[5] \in Seq(Nat) /\ Increasing(Y[5]) /\ Records(X[5]) = Records(Y[5]) \cup ({Head(X[5])} \ {0})
        /\ Head(X[5]) # 0 => \A y \in Records(Y[5]) : Head(X[5]) < y
    BY <2>2, <2>3, OldestRecord
  <2>5. Records(X[4]) = {}
    BY <2>1, OneRecord
  <2>6. CASE here = "frame"
    <3>1. Y[4] \in Seq(Nat) /\ Increasing(Y[4]) /\ Records(Y[4]) = {i}
      BY <1>2, <1>5, <2>1, <2>6, OneRecord
    <3>2. Records(X[5]) = Records(Y[5]) \cup {i} /\ \A y \in Records(Y[5]) : i < y
      BY <1>2, <2>2, <2>4, <2>6
    <3>3. \A m \in Stations : Y[m] \in Seq(Nat) /\ Increasing(Y[m])
      <4>1. \A m \in Stations \ {5, 4} : Y[m] = X[m]
        BY <2>1, StationsAre
      <4>2. \A m \in Stations : X[m] \in Seq(Nat) /\ Increasing(X[m])
        BY <1>0 DEF InOrder
      <4> QED
        BY <2>4, <3>1, <4>1, <4>2
    <3>4. \A m \in Stations \ {5, 4} : Records(Y[m]) = Records(X[m])
      BY <2>1, StationsAre
    <3>5. Records(Y[4]) = Records(X[4]) \cup {i}
      BY <2>5, <3>1
    <3>6. Moves(X, Y, 5, 4, i)
      BY <1>2, <3>2, <3>3, <3>4, <3>5 DEF Moves, Stations
    <3> QED
      BY <1>0, <3>6, RecordMoves
  <2>7. CASE here # "frame"
    <3>1. Records(Y[5]) = Records(X[5]) /\ Y[4] = X[4]
      BY <1>5, <2>1, <2>2, <2>4, <2>7
    <3>2. Same(X, Y)
      <4>1. \A m \in Stations \ {5, 4} : Y[m] = X[m]
        BY <2>1, StationsAre
      <4>2. \A m \in Stations : X[m] \in Seq(Nat) /\ Increasing(X[m])
        BY <1>0 DEF InOrder
      <4> QED
        BY <2>4, <3>1, <4>1, <4>2 DEF Same
    <3> QED
      BY <1>0, <3>2, RecordsStay
  <2> QED
    BY <2>6, <2>7
<1> QED
  BY <1>3, <1>4, <1>5, <1>6, <1>p, KeptOnChannel DEF OnChannel

\* The record in the hands of a worker that fails is lost, but then its rank is not healthy.
LEMMA KeptByFailure ==
    ASSUME Inv, Next, NEW s \in Sources, WorkerFails(s), WorkerAt(s, "failed"),
           healthy' = [healthy EXCEPT ![s] = FALSE], held' = [held EXCEPT ![s] = 0]
    PROVE  Kept
<1> DEFINE X == Station(s)
           Y == Station(s)'
<1>0. AtRanks /\ AtStream /\ Labels /\ InOrder(X, made[s]) /\ Consistent(s)
  BY DEF Inv, TypeOK, Each
<1>1. UNCHANGED <<kind, made, dropped, file, buffer, bytes, channel, reading, merged, mergedBytes, mergedDropped,
                  nextIndex, latest, delivered>>
  BY DEF WorkerFails, solverSide, fixed, farEnd, streamVars, mergedVars
<1>2. AtRanks' /\ AtStream'
  BY <1>0, <1>1 DEF AtRanks, AtStream
<1>3. /\ held'[s] = 0 /\ healthy'[s] = FALSE
      /\ \A q \in Sources \ {s} : held'[q] = held[q] /\ healthy'[q] = healthy[q]
  BY <1>0 DEF AtRanks, Labels
<1>4. InOrder(Y, made[s])
  <2>1. /\ Y[6] = << 0 >> /\ Y[1] = X[1] /\ Y[2] = X[2] /\ Y[3] = X[3] /\ Y[4] = X[4] /\ Y[5] = X[5] /\ Y[7] = X[7]
    <3>1. Merged(s)' = Merged(s) /\ Frames(s)' = Frames(s)
      BY <1>1 DEF Merged, Frames
    <3> QED
      BY <1>1, <1>3, <3>1 DEF Station
  <2>2. Y[6] \in Seq(Nat) /\ Increasing(Y[6]) /\ Records(Y[6]) = {}
    BY <2>1, OneRecord
  <2> HIDE DEF X, Y
  <2>3. \A m \in Stations : Y[m] \in Seq(Nat) /\ Increasing(Y[m]) /\ Records(Y[m]) \subseteq Records(X[m])
    <3>1. \A m \in Stations \ {6} : Y[m] = X[m]
      BY <2>1, StationsAre
    <3>2. \A m \in Stations : X[m] \in Seq(Nat) /\ Increasing(X[m])
      BY <1>0 DEF InOrder
    <3> QED
      BY <2>2, <3>1, <3>2
  <2> QED
    BY <1>0, <2>3, RecordsDrop
<1>5. ASSUME NEW q \in Sources \ {s} PROVE Station(q)' = Station(q)
  <2>1. Merged(q)' = Merged(q) /\ Frames(q)' = Frames(q)
    BY <1>1 DEF Merged, Frames
  <2> QED
    BY <1>1, <1>3, <2>1 DEF Station
<1>6. \A q \in Sources : InOrder(Station(q), made[q])'
  BY <1>1, <1>4, <1>5 DEF Inv, Each
<1>7. ~Quiet'
  <2>1. kind'[s] # "off"
    BY <1>0, <1>1 DEF Consistent, WorkerAt
  <2> QED
    BY <1>3, <2>1 DEF Quiet, Observed
<1>8. \A q \in Sources : FileCounted(q)' /\ Within(buffer[q], bytes[q])'
  BY <1>1, <1>3 DEF FileCounted, Within, Inv, Each
<1> QED
  BY <1>1, <1>2, <1>6, <1>7, <1>8, MergedStays DEF Kept, Ledger

\* The first of the merged stream.
LEMMA MergedFromAre ==
    ASSUME NEW q \in Seq(Entry), q # <<>>, NEW s
    PROVE  /\ Head(q) \in Entry /\ Tail(q) \in Seq(Entry) /\ Mapped(MergedOf(s), q) # <<>>
           /\ Head(Mapped(MergedOf(s), q)) = IF Head(q).source = s THEN Head(q).index ELSE 0
           /\ Mapped(MergedOf(s), Tail(q)) = Tail(Mapped(MergedOf(s), q))
           /\ Mapped(IndexOf, q) # <<>> /\ Head(Mapped(IndexOf, q)) = Head(q).index
           /\ Mapped(IndexOf, Tail(q)) = Tail(Mapped(IndexOf, q))
<1>1. \A e \in Entry : MergedOf(s)[e] = (IF e.source = s THEN e.index ELSE 0) /\ IndexOf[e] = e.index
  BY DEF MergedOf, IndexOf
<1>2. /\ Mapped(MergedOf(s), Tail(q)) = Tail(Mapped(MergedOf(s), q)) /\ Mapped(MergedOf(s), q) # <<>>
      /\ Head(Mapped(MergedOf(s), q)) = MergedOf(s)[Head(q)] /\ Head(q) \in Entry /\ Tail(q) \in Seq(Entry)
  BY MapsAre, MappedTail
<1>3. /\ Mapped(IndexOf, Tail(q)) = Tail(Mapped(IndexOf, q)) /\ Mapped(IndexOf, q) # <<>>
      /\ Head(Mapped(IndexOf, q)) = IndexOf[Head(q)]
  BY MapsAre, MappedTail
<1> QED
  BY <1>1, <1>2, <1>3

\* The records of the merged stream.
LEMMA MergedNow ==
    AtStream => Indices = Mapped(IndexOf, merged) /\ \A q : Merged(q) = Mapped(MergedOf(q), merged)
BY MergedAre DEF AtStream, Merged, Indices

\* The same after a step.
LEMMA MergedNext ==
    AtStream' => Indices' = Mapped(IndexOf, merged') /\ \A q : Merged(q)' = Mapped(MergedOf(q), merged')
<1>1. ASSUME AtStream' PROVE Indices' = Mapped(IndexOf, merged') /\ \A q : Merged(q)' = Mapped(MergedOf(q), merged')
  <2>1. merged' \in Seq(Entry)
    BY <1>1 DEF AtStream
  <2> QED
    BY <2>1, MergedAre DEF Merged, Indices
<1> QED
  BY <1>1

\* receive: a record goes from the merged stream to whoever observes.
LEMMA KeptByReceive == ASSUME Inv, Next, Receive PROVE Kept
<1> DEFINE first == Head(merged)
           s == first.source
           i == first.index
<1>0. AtRanks /\ AtStream /\ MergedInOrder /\ Within(Indices, mergedBytes) /\ \A q \in Sources : Each(q)
  BY DEF Inv, TypeOK
<1>1. merged # <<>> /\ merged \in Seq(Entry)
  BY <1>0 DEF Receive, AtStream
<1>2. first \in Entry /\ s \in Sources /\ i \in Index /\ i \in Nat /\ i # 0 /\ first.order \in Nat
      /\ Tail(merged) \in Seq(Entry)
  <2>1. first \in Entry /\ Tail(merged) \in Seq(Entry)
    BY <1>1
  <2> QED
    BY <2>1, IndexIsNumber DEF Entry
<1>3. /\ delivered' = [delivered EXCEPT ![s] = Append(@, i)] /\ latest' = first.order
      /\ mergedBytes' = mergedBytes - Size[i] /\ merged' = Tail(merged)
      /\ UNCHANGED <<kind, made, dropped, healthy, file, buffer, bytes, held, channel, reading, mergedDropped, nextIndex>>
  BY DEF Receive, nearEnd, rankVars, fixed
<1>4. /\ Indices = Mapped(IndexOf, merged) /\ Indices # <<>> /\ Head(Indices) = i
      /\ Mapped(IndexOf, merged') = Tail(Indices) /\ Indices \in Seq(Index)
  <2>1. Indices = Mapped(IndexOf, merged) /\ Indices \in Seq(Index)
    BY <1>0, <1>1, MergedNow, IndicesAre DEF Indices
  <2> QED
    BY <1>1, <1>3, <2>1, MergedFromAre
<1>5. Within(Tail(Indices), mergedBytes - Size[i])
  BY <1>0, <1>4, OldestFits
<1>6. AtRanks' /\ AtStream'
  <2>1. mergedBytes - Size[i] \in Nat
    <3>1. Tail(Indices) \in Seq(Index)
      BY <1>4, RestIs
    <3> QED
      BY <1>5, <3>1, SizeIsNumber DEF Within
  <2> HIDE DEF first, s, i
  <2>2. delivered' \in [Sources -> Seq(Index)]
    BY <1>0, <1>2, <1>3 DEF AtStream
  <2>3. merged' \in Seq(Entry) /\ mergedBytes' \in Nat /\ latest' \in Nat
    BY <1>2, <1>3, <2>1 DEF first
  <2> QED
    BY <1>0, <1>3, <2>2, <2>3 DEF AtRanks, AtStream
<1>7. Within(Indices, mergedBytes)'
  BY <1>3, <1>4, <1>5, <1>6, MergedNext
<1> HIDE DEF s, i
<1>8. MergedInOrder'
  <2> DEFINE n == Len(merged)
             t == Tail(merged)
  <2>1. /\ n \in Nat \ {0} /\ Len(t) = n - 1 /\ \A k \in 1..n - 1 : t[k] = merged[k + 1]
        /\ first = merged[1] /\ t \in Seq(Entry)
    BY <1>1, RestIs
  <2> HIDE DEF first, n
  <2>2. /\ \A j, k \in 1..n : j < k => merged[j].order < merged[k].order
        /\ \A k \in 1..n : latest <= merged[k].order /\ merged[k].order < nextIndex
    <3>1. DOMAIN merged = 1..n
      BY <1>1 DEF n
    <3> QED
      BY <1>0, <3>1 DEF MergedInOrder
  <2>3. DOMAIN t = 1..n - 1
    BY <2>1
  <2> HIDE DEF t
  <2>4. \A j, k \in 1..n - 1 : j < k => t[j].order < t[k].order
    <3> SUFFICES ASSUME NEW j \in 1..n - 1, NEW k \in 1..n - 1, j < k PROVE t[j].order < t[k].order
      OBVIOUS
    <3>1. j + 1 \in 1..n /\ k + 1 \in 1..n /\ j + 1 < k + 1
      BY <2>1
    <3> QED
      BY <2>1, <2>2, <3>1
  <2>5. \A k \in 1..n - 1 : first.order <= t[k].order /\ t[k].order < nextIndex
    <3> TAKE k \in 1..n - 1
    <3>1. k + 1 \in 1..n /\ 1 \in 1..n /\ 1 < k + 1
      BY <2>1
    <3>2. t[k].order = merged[k + 1].order /\ t[k] \in Entry
      BY <2>1, <2>3
    <3>3. t[k].order \in Nat
      BY <3>2 DEF Entry
    <3>4. first.order < t[k].order /\ t[k].order < nextIndex
      BY <2>1, <2>2, <3>1, <3>2
    <3> QED
      BY <1>2, <3>3, <3>4
  <2>6. first.order <= nextIndex
    <3>1. 1 \in 1..n
      BY <2>1
    <3>2. first.order < nextIndex /\ nextIndex \in Nat
      BY <1>0, <2>1, <2>2, <3>1 DEF AtStream
    <3> QED
      BY <1>2, <3>2
  <2>7. merged' = t /\ latest' = first.order /\ nextIndex' = nextIndex
    BY <1>3 DEF t
  <2> QED
    BY <2>3, <2>4, <2>5, <2>6, <2>7 DEF MergedInOrder
<1>9. ASSUME NEW q \in Sources
      PROVE  InOrder(Station(q)', made[q]) /\ Present(Station(q)') = Present(Station(q))
  <2> DEFINE X == Station(q)
             Y == Station(q)'
  <2>0. InOrder(X, made[q])
    BY <1>0 DEF Each
  <2>1. /\ X[2] = delivered[q] /\ Y[2] = delivered'[q]
        /\ Y[1] = X[1] /\ Y[4] = X[4] /\ Y[5] = X[5] /\ Y[6] = X[6] /\ Y[7] = X[7]
    <3>1. Frames(q)' = Frames(q)
      BY <1>3 DEF Frames
    <3> QED
      BY <1>3, <3>1 DEF Station
  <2>2. X[3] # <<>> /\ Y[3] = Tail(X[3]) /\ Head(X[3]) = IF s = q THEN i ELSE 0
    <3>1. X[3] = Mapped(MergedOf(q), merged) /\ Y[3] = Mapped(MergedOf(q), merged')
      BY <1>0, <1>6, MergedNow, MergedNext, StationIs
    <3> QED
      BY <1>1, <1>3, <3>1, MergedFromAre DEF s, i
  <2>3. X[3] \in Seq(Nat) /\ Increasing(X[3]) /\ X[2] \in Seq(Nat) /\ Increasing(X[2])
        /\ Below(Records(X[2]), Records(X[3]))
    BY <2>0, StationsAre DEF InOrder
  <2> HIDE DEF X, Y, first
  <2>4. /\ Y[3] \in Seq(Nat) /\ Increasing(Y[3]) /\ Records(X[3]) = Records(Y[3]) \cup ({Head(X[3])} \ {0})
        /\ Head(X[3]) # 0 => \A y \in Records(Y[3]) : Head(X[3]) < y
    BY <2>2, <2>3, OldestRecord
  <2>5. CASE s = q
    <3>1. Records(X[3]) = Records(Y[3]) \cup {i} /\ \A y \in Records(Y[3]) : i < y
      BY <1>2, <2>2, <2>4, <2>5
    <3>2. \A y \in Records(X[2]) : y < i
      BY <2>3, <3>1 DEF Below
    <3>3. Y[2] = Append(X[2], i)
      BY <1>0, <1>2, <1>3, <2>1, <2>5 DEF AtStream
    <3>4. Y[2] \in Seq(Nat) /\ Increasing(Y[2]) /\ Records(Y[2]) = Records(X[2]) \cup {i}
      BY <1>2, <2>3, <3>2, <3>3, AnotherRecord
    <3>5. \A m \in Stations : Y[m] \in Seq(Nat) /\ Increasing(Y[m])
      <4>1. \A m \in Stations \ {3, 2} : Y[m] = X[m]
        BY <2>1, StationsAre
      <4>2. \A m \in Stations : X[m] \in Seq(Nat) /\ Increasing(X[m])
        BY <2>0 DEF InOrder
      <4> QED
        BY <2>4, <3>4, <4>1, <4>2
    <3>6. \A m \in Stations \ {3, 2} : Records(Y[m]) = Records(X[m])
      BY <2>1, StationsAre
    <3>7. Moves(X, Y, 3, 2, i)
      BY <1>2, <3>1, <3>4, <3>5, <3>6 DEF Moves, Stations
    <3>8. InOrder(Y, made[q]) /\ Present(Y) = Present(X)
      BY <2>0, <3>7, RecordMoves
    <3> QED
      BY <3>8 DEF X, Y
  <2>6. CASE s # q
    <3>1. Records(Y[3]) = Records(X[3])
      BY <2>2, <2>4, <2>6
    <3>2. Y[2] = X[2]
      BY <1>0, <1>2, <1>3, <2>1, <2>6 DEF AtStream
    <3>3. Same(X, Y)
      <4>1. \A m \in Stations \ {3, 2} : Y[m] = X[m]
        BY <2>1, StationsAre
      <4>2. \A m \in Stations : X[m] \in Seq(Nat) /\ Increasing(X[m])
        BY <2>0 DEF InOrder
      <4> QED
        BY <2>4, <3>1, <3>2, <4>1, <4>2 DEF Same
    <3>4. InOrder(Y, made[q]) /\ Present(Y) = Present(X)
      BY <2>0, <3>3, RecordsStay
    <3> QED
      BY <3>4 DEF X, Y
  <2> QED
    BY <2>5, <2>6
<1>10. Placed' /\ Ledger'
  BY <1>3, <1>6, <1>9, AllMove, QuietBefore DEF Inv
<1>11. \A q \in Sources : FileCounted(q)' /\ Within(buffer[q], bytes[q])'
  BY <1>0, <1>3 DEF FileCounted, Within, Each
<1> QED
  BY <1>6, <1>7, <1>8, <1>10, <1>11 DEF Kept, Placed

\* Some records of one station leave.
Leaves(X, Z, at, G) ==
    /\ at \in Stations /\ (\A m \in Stations : Z[m] \in Seq(Nat) /\ Increasing(Z[m]))
    /\ \A m \in Stations \ {at} : Records(Z[m]) = Records(X[m])
    /\ Records(X[at]) = Records(Z[at]) \cup G /\ G \cap Records(Z[at]) = {}

\* Order stays, and what has left is nowhere else.
LEMMA RecordsLeave ==
    ASSUME NEW X, NEW Z, NEW top \in Nat, InOrder(X, top), NEW at, NEW G, Leaves(X, Z, at, G)
    PROVE  /\ InOrder(Z, top) /\ Present(X) = Present(Z) \cup G /\ G \cap Present(Z) = {}
           /\ G \subseteq 1..top
<1>0. \A m \in Stations : Records(Z[m]) \subseteq Records(X[m])
  BY DEF Leaves
<1>1. InOrder(Z, top)
  BY <1>0, RecordsDrop DEF Leaves
<1>2. Present(X) = Present(Z) \cup G
  <2>1. ASSUME NEW x, x \in Present(X) PROVE x \in Present(Z) \cup G
    <3>1. PICK m \in Stations : x \in Records(X[m])
      BY <2>1 DEF Present
    <3>2. x \in Records(Z[m]) \/ x \in G
      BY <3>1 DEF Leaves
    <3> QED
      BY <3>2 DEF Present
  <2>2. ASSUME NEW x, x \in Present(Z) \cup G PROVE x \in Present(X)
    <3>1. \E m \in Stations : x \in Records(X[m])
      BY <1>0, <2>2 DEF Present, Leaves
    <3> QED
      BY <3>1 DEF Present
  <2> QED
    BY <2>1, <2>2
<1>3. ASSUME NEW x \in G PROVE x \in 1..top /\ x \notin Present(Z)
  <2>1. at \in Stations /\ x \in Records(X[at]) /\ x \notin Records(Z[at])
    BY DEF Leaves
  <2>2. x \in Nat \ {0} /\ x <= top
    BY <2>1, RecordsAre DEF InOrder
  <2>3. ASSUME NEW m \in Stations, x \in Records(Z[m]) PROVE FALSE
    <3>1. m # at /\ x \in Records(X[m])
      BY <1>0, <2>1, <2>3
    <3>2. m < at \/ at < m
      BY <2>1, <3>1 DEF Stations
    <3>3. x < x
      BY <2>1, <3>1, <3>2 DEF InOrder, Below
    <3> QED
      BY <2>2, <3>3
  <2> QED
    BY <2>2, <2>3 DEF Present
<1> QED
  BY <1>1, <1>2, <1>3

Gone(m, m2, P, P2, G) ==
    \A q \in Sources :
        /\ m[q] <= m2[q] /\ G[q] \subseteq 1..m2[q]
        /\ \A x \in G[q] : x \in P[q] \/ x > m[q]
        /\ \A x \in 1..m2[q] : x \notin P2[q] <=> x \in G[q] \/ (x <= m[q] /\ x \notin P[q])
Pairs(G) == {z \in Sources \X Nat : z[2] \in G[z[1]]}

\* If more are gone at some sources, that many more are missing.
LEMMA LostGrows ==
    ASSUME NEW m \in [Sources -> Nat], NEW m2 \in [Sources -> Nat], NEW P, NEW P2, NEW G,
           Gone(m, m2, P, P2, G), IsFiniteSet(Pairs(G))
    PROVE  Cardinality(Absent(m2, P2)) = Cardinality(Absent(m, P)) + Cardinality(Pairs(G))
<1>1. ASSUME NEW q \in Sources, NEW x \in Nat
      PROVE  <<q, x>> \in Absent(m2, P2) <=> <<q, x>> \in Absent(m, P) \/ <<q, x>> \in Pairs(G)
  <2>1. m[q] \in Nat /\ m2[q] \in Nat
    OBVIOUS
  <2>2. /\ m[q] <= m2[q] /\ G[q] \subseteq 1..m2[q]
        /\ x \in 1..m2[q] => (x \notin P2[q] <=> x \in G[q] \/ (x <= m[q] /\ x \notin P[q]))
    BY DEF Gone
  <2>3. /\ <<q, x>> \in Absent(m2, P2) <=> x \in 1..m2[q] /\ x \notin P2[q]
        /\ <<q, x>> \in Absent(m, P) <=> x \in 1..m[q] /\ x \notin P[q]
        /\ <<q, x>> \in Pairs(G) <=> x \in G[q]
    BY DEF Absent, Pairs
  <2>4. /\ x \in 1..m2[q] <=> 1 <= x /\ x <= m2[q]
        /\ x \in 1..m[q] <=> 1 <= x /\ x <= m[q]
        /\ x \in 1..m[q] => x \in 1..m2[q]
    BY <2>1, <2>2
  <2> QED
    BY <2>2, <2>3, <2>4
<1>2. Absent(m2, P2) = Absent(m, P) \cup Pairs(G)
  <2>1. \A z : z \in Absent(m2, P2) \/ z \in Absent(m, P) \/ z \in Pairs(G) => \E q \in Sources, x \in Nat : z = <<q, x>>
    BY DEF Absent, Pairs
  <2> QED
    BY <1>1, <2>1
<1>3. Absent(m, P) \cap Pairs(G) = {}
  <2> SUFFICES ASSUME NEW z, z \in Absent(m, P), z \in Pairs(G) PROVE FALSE
    OBVIOUS
  <2>1. z[1] \in Sources /\ z[2] \in 1..m[z[1]] /\ z[2] \notin P[z[1]] /\ z[2] \in G[z[1]]
    BY DEF Absent, Pairs
  <2>2. z[2] > m[z[1]]
    BY <2>1 DEF Gone
  <2> QED
    BY <2>1, <2>2
<1> QED
  BY <1>2, <1>3, AbsentFinite, MoreThan

\* What a thread of the stream does with the record it has received.
HasReceived(s) ==
    /\ reader[s] = "retain" /\ reading' = [reading EXCEPT ![s] = 0]
    /\ UNCHANGED <<kind, made, dropped, healthy, file, buffer, bytes, held, channel, delivered, latest, streamStopped>>

\* Retain is such a step.
LEMMA Received == ASSUME NEW s, Retain(s) PROVE HasReceived(s)
BY DEF Retain, HasReceived, ReaderTo, ReaderAt, nearEnd, rankVars, fixed

\* retain, of a record that is not admitted, or after stop().
LEMMA KeptByLetGo ==
    ASSUME Inv, Next, NEW s \in Sources, HasReceived(s), UNCHANGED <<merged, mergedBytes, nextIndex>>,
           mergedDropped' = mergedDropped + 1 \/ (streamStopped /\ mergedDropped' = mergedDropped)
    PROVE  Kept
<1> DEFINE i == reading[s]
           X == Station(s)
           Y == Station(s)'
           G == [q \in Sources |-> IF q = s THEN {i} ELSE {}]
<1>0. AtRanks /\ AtStream /\ InOrder(X, made[s]) /\ Consistent(s) /\ made[s] \in Nat
  BY DEF Inv, TypeOK, Each, AtRanks
<1>1. i # 0 /\ i \in Index /\ i \in Nat
  BY <1>0, IndexIsNumber DEF HasReceived, Consistent, AtStream
<1>2. AtRanks' /\ AtStream'
  BY <1>0, SMTT(30) DEF AtRanks, AtStream, HasReceived
<1>3. reading'[s] = 0 /\ \A q \in Sources \ {s} : reading'[q] = reading[q]
  BY <1>0 DEF HasReceived, AtStream
<1>4. InOrder(Y, made[s]) /\ Present(X) = Present(Y) \cup {i} /\ i \notin Present(Y) /\ i \in 1..made[s]
  <2>1. /\ X[4] = <<i>> /\ Y[4] = << 0 >>
        /\ Y[1] = X[1] /\ Y[2] = X[2] /\ Y[3] = X[3] /\ Y[5] = X[5] /\ Y[6] = X[6] /\ Y[7] = X[7]
    <3>1. Merged(s)' = Merged(s) /\ Frames(s)' = Frames(s)
      BY DEF Merged, Frames, HasReceived
    <3> QED
      BY <1>3, <3>1 DEF Station, HasReceived
  <2>2. Y[4] \in Seq(Nat) /\ Increasing(Y[4]) /\ Records(Y[4]) = {} /\ Records(X[4]) = {i}
    BY <1>1, <2>1, OneRecord
  <2> HIDE DEF X, Y, i
  <2>3. \A m \in Stations : Y[m] \in Seq(Nat) /\ Increasing(Y[m])
    BY <1>0, <2>1, <2>2, StationsAre DEF InOrder
  <2>4. \A m \in Stations \ {4} : Records(Y[m]) = Records(X[m])
    BY <2>1, StationsAre
  <2>5. Leaves(X, Y, 4, {i})
    BY <2>2, <2>3, <2>4 DEF Leaves, Stations
  <2> QED
    BY <1>0, <2>5, RecordsLeave
<1>5. ASSUME NEW q \in Sources \ {s} PROVE Station(q)' = Station(q)
  <2>1. Merged(q)' = Merged(q) /\ Frames(q)' = Frames(q)
    BY DEF Merged, Frames, HasReceived
  <2> QED
    BY <1>3, <2>1 DEF Station, HasReceived
<1>6. Placed'
  BY <1>4, <1>5 DEF Placed, Inv, Each, HasReceived
<1>7. Ledger'
  <2>1. CASE mergedDropped' = mergedDropped + 1
    <3>1. Cardinality(Absent(made, Here')) = Cardinality(Absent(made, Here)) + 1
      <4>1. \A q \in Sources : /\ Here[q] = Present(Station(q)) /\ Here'[q] = Present(Station(q)')
                               /\ G[q] = IF q = s THEN {i} ELSE {}
        BY DEF Here
      <4>2. \A q \in Sources : q # s => Here'[q] = Here[q] /\ G[q] = {}
        BY <1>5, <4>1
      <4>3. Here[s] = Here'[s] \cup {i} /\ i \notin Here'[s] /\ G[s] = {i}
        BY <1>4, <4>1
      <4>4. made \in [Sources -> Nat]
        BY <1>0 DEF AtRanks
      <4> HIDE DEF G, X, Y, i
      <4>5. \A q \in Sources : made[q] <= made[q] /\ \A x \in 1..made[q] : x <= made[q]
        BY <4>4
      <4>6. Gone(made, made, Here, Here', G)
        BY <1>4, <4>2, <4>3, <4>5 DEF Gone
      <4>7. Pairs(G) = {<<s, i>>}
        BY <1>1, <4>2, <4>3 DEF Pairs
      <4>8. IsFiniteSet(Pairs(G)) /\ Cardinality(Pairs(G)) = 1
        BY <4>7, FS_Singleton
      <4> QED
        BY <4>4, <4>6, <4>8, LostGrows
    <3>2. Balanced => Balanced'
      <4> DEFINE a == Cardinality(Absent(made, Here))
                 b == Cardinality(Absent(made', Here'))
                 c == Cardinality(Absent(dropped, None))
      <4>1. Cardinality(Absent(dropped', None)) = c /\ b = a + 1
        BY <3>1 DEF HasReceived
      <4>2. Quiet' => Quiet
        BY QuietBefore DEF Inv
      <4>3. c \in Nat /\ mergedDropped \in Nat
        BY <1>0, AbsentFinite, FS_CardinalityType DEF AtRanks, AtStream
      <4> HIDE DEF a, b, c
      <4>4. a = c + mergedDropped => b = c + mergedDropped'
        BY <2>1, <4>1, <4>3
      <4> QED
        BY <4>1, <4>2, <4>4 DEF Balanced, a, b, c
    <3>3. Ledger <=> Balanced
      BY LedgerIs DEF Inv, TypeOK, Placed, Each
    <3> QED
      BY <1>2, <1>6, <3>2, <3>3, LedgerNext DEF Inv
  <2>2. CASE streamStopped
    BY <2>2 DEF Ledger, Quiet, HasReceived
  <2> QED
    BY <2>1, <2>2
<1>8. \A q \in Sources : FileCounted(q)' /\ Within(buffer[q], bytes[q])'
  BY DEF FileCounted, Within, Inv, Each, HasReceived
<1> QED
  BY <1>2, <1>6, <1>7, <1>8, MergedStays DEF Kept, Placed, HasReceived

\* The merged stream after eviction and admission.
LEMMA MergedAdded ==
    ASSUME NEW f, NEW T, Maps(f, Entry, T), NEW q \in Seq(Entry), NEW n \in 0..Len(q), NEW e \in Entry
    PROVE  Mapped(f, Append(SubSeq(q, n + 1, Len(q)), e))
              = Append(SubSeq(Mapped(f, q), n + 1, Len(Mapped(f, q))), f[e])
<1> DEFINE late == SubSeq(q, n + 1, Len(q))
<1>1. late \in Seq(Entry)
  BY PartsAre
<1>2. Mapped(f, late) = SubSeq(Mapped(f, q), n + 1, Len(q))
  BY MappedPart
<1>3. Len(Mapped(f, q)) = Len(q)
  <2>1. Image(f, q, T, Mapped(f, q))
    BY MappedIs
  <2> QED
    BY <2>1 DEF Image
<1> HIDE DEF late
<1>4. Mapped(f, Append(late, e)) = Append(Mapped(f, late), f[e])
  BY <1>1, MappedAppend
<1> QED
  BY <1>2, <1>3, <1>4 DEF late

\* The order of what is left and of what is added.
LEMMA OrderOfMerged ==
    ASSUME AtStream, MergedInOrder, NEW n \in 0..Len(merged), NEW e \in Entry, e.order = nextIndex,
           merged' = Append(SubSeq(merged, n + 1, Len(merged)), e), nextIndex' = nextIndex + 1, latest' = latest
    PROVE  MergedInOrder'
<1> DEFINE late == SubSeq(merged, n + 1, Len(merged))
           l == Len(merged)
           r == l - n
           all == Append(late, e)
<1>1. /\ late \in Seq(Entry) /\ Len(late) = r
      /\ \A k \in 1..r : late[k] = merged[k + n] /\ k + n \in 1..l
      /\ merged \in Seq(Entry)
  <2>1. merged \in Seq(Entry)
    BY DEF AtStream
  <2> QED
    BY <2>1, PartsAre
<1>2. /\ l \in Nat /\ n \in Nat /\ n <= l /\ DOMAIN merged = 1..l /\ r \in Nat /\ nextIndex \in Nat /\ latest \in Nat
      /\ \A k \in 1..l : merged[k].order \in Nat
  <2>1. \A k \in 1..l : merged[k] \in Entry
    BY <1>1
  <2>2. \A k \in 1..l : merged[k].order \in Nat
    BY <2>1 DEF Entry
  <2>3. l \in Nat /\ DOMAIN merged = 1..l
    BY <1>1
  <2>4. n \in Nat /\ n <= l
    BY <2>3
  <2>5. nextIndex \in Nat /\ latest \in Nat
    BY DEF AtStream
  <2> HIDE DEF l
  <2>6. r \in Nat
    BY <2>3, <2>4
  <2> QED
    BY <2>2, <2>3, <2>4, <2>5, <2>6
<1> HIDE DEF late, l
<1>3. /\ DOMAIN all = 1..r + 1 /\ all[r + 1] = e
      /\ \A k \in 1..r : all[k] = late[k]
  <2>1. late \in Seq(Entry) /\ Len(late) = r /\ r \in Nat
    BY <1>1, <1>2
  <2> HIDE DEF r
  <2>2. /\ all \in Seq(Entry) /\ Len(all) = r + 1 /\ all[r + 1] = e
        /\ \A k \in 1..r : all[k] = late[k]
    BY <2>1
  <2> HIDE DEF all
  <2> QED
    BY <2>1, <2>2
<1> HIDE DEF all, r
<1>4. /\ \A j, k \in 1..l : j < k => merged[j].order < merged[k].order
      /\ \A k \in 1..l : latest <= merged[k].order /\ merged[k].order < nextIndex
      /\ latest <= nextIndex
  BY <1>2 DEF MergedInOrder
<1>5. \A k \in 1..r : all[k].order = merged[k + n].order /\ k + n \in 1..l
  BY <1>1, <1>3
<1>6. \A k \in 1..r + 1 : k \in 1..r \/ k = r + 1
  BY <1>2
<1>7. ASSUME NEW j \in 1..r + 1, NEW k \in 1..r + 1, j < k PROVE all[j].order < all[k].order
  <2>1. j \in 1..r
    BY <1>2, <1>7
  <2>2. CASE k \in 1..r
    <3>1. j + n < k + n
      BY <1>2, <1>7
    <3> QED
      BY <1>4, <1>5, <2>1, <2>2, <3>1
  <2>3. CASE k = r + 1
    BY <1>3, <1>4, <1>5, <2>1, <2>3
  <2> QED
    BY <1>6, <2>2, <2>3
<1>8. ASSUME NEW k \in 1..r + 1 PROVE latest <= all[k].order /\ all[k].order < nextIndex + 1
  <2>1. CASE k \in 1..r
    <3>1. all[k].order = merged[k + n].order /\ k + n \in 1..l
      BY <1>5, <2>1
    <3>2. merged[k + n].order \in Nat /\ latest <= merged[k + n].order /\ merged[k + n].order < nextIndex
      BY <1>2, <1>4, <3>1
    <3> QED
      BY <1>2, <3>1, <3>2
  <2>2. CASE k = r + 1
    BY <1>2, <1>3, <1>4, <2>2
  <2> QED
    BY <1>6, <2>1, <2>2
<1>9. latest <= nextIndex + 1
  BY <1>2, <1>4
<1>10. merged' = all
  BY DEF all, late
<1> QED
  BY <1>3, <1>7, <1>8, <1>9, <1>10 DEF MergedInOrder

\* What is pushed out, source by source.
PushedOut(n) == [q \in Sources |-> Records(SubSeq(Merged(q), 1, n))]

\* As many records as there were places.
LEMMA PushedOutCount ==
    ASSUME AtStream, \A q \in Sources : InOrder(Station(q), made[q]), NEW n \in 0..Len(merged)
    PROVE  IsFiniteSet(Pairs(PushedOut(n))) /\ Cardinality(Pairs(PushedOut(n))) = n
<1> DEFINE D == Pairs(PushedOut(n))
           f == [k \in 1..n |-> <<merged[k].source, merged[k].index>>]
<1>0. n \in Nat /\ merged \in Seq(Entry) /\ Len(merged) \in Nat
  BY DEF AtStream
<1>1. \A k \in 1..n : /\ k \in 1..Len(merged) /\ merged[k].source \in Sources /\ merged[k].index \in Nat
                      /\ merged[k].index # 0
  <2> TAKE k \in 1..n
  <2>1. k \in 1..Len(merged) /\ merged[k] \in Entry
    BY <1>0
  <2> QED
    BY <2>1, IndexIsNumber DEF Entry
<1>2. \A q : Len(Merged(q)) = Len(merged)
             /\ \A k \in 1..Len(merged) : Merged(q)[k] = IF merged[k].source = q THEN merged[k].index ELSE 0
  BY <1>0 DEF Merged
<1>3. \A q \in Sources : Merged(q) \in Seq(Nat) /\ Increasing(Merged(q))
  BY StationIs, StationsAre DEF InOrder
<1>4. ASSUME NEW q \in Sources
      PROVE  \A x : x \in PushedOut(n)[q] <=> \E k \in 1..n : merged[k].source = q /\ merged[k].index = x
  <2> DEFINE old == SubSeq(Merged(q), 1, n)
  <2>1. old \in Seq(Nat) /\ Len(old) = n /\ \A k \in 1..n : old[k] = Merged(q)[k] /\ k \in 1..Len(Merged(q))
    BY <1>2, <1>3, PartsAre
  <2> HIDE DEF old
  <2>2. \A x : x \in Records(old) <=> x # 0 /\ \E k \in 1..n : old[k] = x
    <3>1. \A x : x \in Records(old) <=> x # 0 /\ \E k \in 1..Len(old) : old[k] = x
      BY <2>1, RecordsAre
    <3> QED
      BY <2>1, <3>1
  <2>3. \A k \in 1..n : old[k] = IF merged[k].source = q THEN merged[k].index ELSE 0
    BY <1>2, <2>1
  <2>4. PushedOut(n)[q] = Records(old)
    BY DEF PushedOut, old
  <2> QED
    BY <1>1, <2>2, <2>3, <2>4
<1>5. \A z : z \in D <=> \E k \in 1..n : z = <<merged[k].source, merged[k].index>>
  <2>1. ASSUME NEW z, z \in D PROVE \E k \in 1..n : z = <<merged[k].source, merged[k].index>>
    <3>1. z \in Sources \X Nat /\ z[2] \in PushedOut(n)[z[1]]
      BY <2>1 DEF Pairs
    <3>2. PICK k \in 1..n : merged[k].source = z[1] /\ merged[k].index = z[2]
      BY <1>4, <3>1
    <3> QED
      BY <3>1, <3>2
  <2>2. ASSUME NEW k \in 1..n PROVE <<merged[k].source, merged[k].index>> \in D
    BY <1>1, <1>4 DEF Pairs
  <2> QED
    BY <2>1, <2>2
<1> HIDE DEF D
<1>6. f \in [1..n -> D] /\ \A z \in D : \E k \in 1..n : f[k] = z
  BY <1>5
<1>7. ASSUME NEW j \in 1..n, NEW k \in 1..n, j < k PROVE f[j] # f[k]
  <2> SUFFICES ASSUME merged[j].source = merged[k].source, merged[j].index = merged[k].index PROVE FALSE
    BY Zenon
  <2> DEFINE q == merged[j].source
  <2>1. q \in Sources /\ Merged(q)[j] = merged[j].index /\ Merged(q)[k] = merged[k].index
        /\ j \in 1..Len(Merged(q)) /\ k \in 1..Len(Merged(q)) /\ merged[j].index # 0 /\ merged[k].index \in Nat
    BY <1>1, <1>2
  <2> HIDE DEF q
  <2>2. \A a, b \in 1..Len(Merged(q)) : a < b /\ Merged(q)[a] # 0 /\ Merged(q)[b] # 0 => Merged(q)[a] < Merged(q)[b]
    <3>1. Merged(q) \in Seq(Nat) /\ Increasing(Merged(q))
      BY <1>3, <2>1
    <3>2. DOMAIN Merged(q) = 1..Len(Merged(q))
      BY <3>1
    <3> QED
      BY <3>1, <3>2 DEF Increasing
  <2> QED
    BY <1>7, <2>1, <2>2
<1> HIDE DEF f
<1> QED
  BY <1>0, <1>6, <1>7, OneEach DEF D

\* The oldest of a station leave.
WithoutOldest(X, Z, at, n, G) ==
    /\ at \in Stations /\ n \in 0..Len(X[at]) /\ Z[at] = SubSeq(X[at], n + 1, Len(X[at]))
    /\ \A m \in Stations \ {at} : Z[m] = X[m]
    /\ G = Records(SubSeq(X[at], 1, n))

\* Order stays, and what has left is nowhere else.
LEMMA OldestLeave ==
    ASSUME NEW X, NEW top \in Nat, InOrder(X, top), NEW at, NEW n, NEW Z, NEW G, WithoutOldest(X, Z, at, n, G)
    PROVE  InOrder(Z, top) /\ Present(X) = Present(Z) \cup G /\ G \cap Present(Z) = {} /\ G \subseteq 1..top
<1> DEFINE late == SubSeq(X[at], n + 1, Len(X[at]))
           old == SubSeq(X[at], 1, n)
<1>1. \A m \in Stations : X[m] \in Seq(Nat) /\ Increasing(X[m])
  BY DEF InOrder
<1>2. /\ late \in Seq(Nat) /\ Increasing(late) /\ Records(X[at]) = Records(old) \cup Records(late)
      /\ Below(Records(old), Records(late)) /\ old \in Seq(Nat)
  BY <1>1, LateRecords DEF WithoutOldest
<1>3. G = Records(old) /\ Z[at] = late /\ at \in Stations /\ \A m \in Stations \ {at} : Z[m] = X[m]
  BY DEF WithoutOldest
<1> HIDE DEF old, late
<1>4. Records(old) \cap Records(late) = {}
  <2>1. \A x : x \in Records(old) => x \in Nat
    BY <1>2, RecordsAre
  <2> QED
    BY <1>2, <2>1 DEF Below
<1>5. Leaves(X, Z, at, G)
  <2>1. \A m \in Stations : Z[m] \in Seq(Nat) /\ Increasing(Z[m])
    <3>1. ASSUME NEW m \in Stations PROVE Z[m] \in Seq(Nat) /\ Increasing(Z[m])
      <4>1. CASE m = at
        BY <1>2, <1>3, <4>1
      <4>2. CASE m # at
        BY <1>1, <1>3, <4>2
      <4> QED
        BY <4>1, <4>2
    <3> QED
      BY <3>1
  <2>2. Records(X[at]) = Records(Z[at]) \cup G /\ G \cap Records(Z[at]) = {}
    BY <1>2, <1>3, <1>4
  <2> QED
    BY <1>3, <2>1, <2>2 DEF Leaves
<1> QED
  BY <1>5, RecordsLeave

\* The stream takes a record in and pushes n places out; it may be that of another source.
Takes(X, Y, n, i, G) ==
    /\ G = Records(SubSeq(X[3], 1, n))
    /\ i # 0 /\ i \in Nat /\ n \in 0..Len(X[3])
    /\ Y[1] = X[1] /\ Y[2] = X[2] /\ Y[5] = X[5] /\ Y[6] = X[6] /\ Y[7] = X[7]
    /\ \/ X[4] = <<i>> /\ Y[4] = << 0 >> /\ Y[3] = Append(SubSeq(X[3], n + 1, Len(X[3])), i)
       \/ Y[4] = X[4] /\ Y[3] = Append(SubSeq(X[3], n + 1, Len(X[3])), 0)

\* Order stays, and what was pushed out is nowhere else.
LEMMA RecordTaken ==
    ASSUME NEW X, NEW Y, NEW top \in Nat, InOrder(X, top), NEW n, NEW i, NEW G, Takes(X, Y, n, i, G)
    PROVE  InOrder(Y, top) /\ Present(X) = Present(Y) \cup G /\ G \cap Present(Y) = {} /\ G \subseteq 1..top
<1> DEFINE late == SubSeq(X[3], n + 1, Len(X[3]))
           Z == <<X[1], X[2], late, X[4], X[5], X[6], X[7]>>
<1>1. /\ 3 \in Stations /\ 4 \in Stations /\ Z[3] = late /\ \A m \in Stations \ {3} : Z[m] = X[m]
  <2>1. Z[3] = late /\ Z[1] = X[1] /\ Z[2] = X[2] /\ Z[4] = X[4] /\ Z[5] = X[5] /\ Z[6] = X[6] /\ Z[7] = X[7]
    <3> HIDE DEF late
    <3> QED
      OBVIOUS
  <2> HIDE DEF Z
  <2> QED
    BY <2>1, StationsAre
<1> HIDE DEF Z
<1>2. InOrder(Z, top) /\ Present(X) = Present(Z) \cup G /\ G \cap Present(Z) = {} /\ G \subseteq 1..top
  <2>1. WithoutOldest(X, Z, 3, n, G)
    BY <1>1 DEF Takes, WithoutOldest
  <2> HIDE DEF late
  <2> QED
    BY <2>1, OldestLeave
<1>3. \A m \in Stations \ {3, 4} : Y[m] = Z[m]
  <2>1. Y[1] = X[1] /\ Y[2] = X[2] /\ Y[5] = X[5] /\ Y[6] = X[6] /\ Y[7] = X[7]
    BY DEF Takes
  <2> HIDE DEF late
  <2> QED
    BY <1>1, <2>1, StationsAre
<1> HIDE DEF late
<1>4. \A m \in Stations : Z[m] \in Seq(Nat) /\ Increasing(Z[m])
  BY <1>2 DEF InOrder
<1>5. late \in Seq(Nat) /\ Increasing(late)
  BY <1>1, <1>4
<1>6. InOrder(Y, top) /\ Present(Y) = Present(Z)
  <2>1. CASE X[4] = <<i>> /\ Y[4] = << 0 >> /\ Y[3] = Append(late, i)
    <3>1. Z[4] = <<i>>
      BY <1>1, <2>1
    <3>2. i # 0 /\ i \in Nat
      BY DEF Takes
    <3>3. Records(Z[4]) = {i}
      BY <3>1, <3>2, OneRecord
    <3>4. Below(Records(Z[3]), Records(Z[4]))
      BY <1>1, <1>2 DEF InOrder
    <3>5. \A y \in Records(late) : y < i
      BY <1>1, <3>3, <3>4 DEF Below
    <3>6. Y[3] \in Seq(Nat) /\ Increasing(Y[3]) /\ Records(Y[3]) = Records(late) \cup {i}
      <4>1. {i} \ {0} = {i}
        BY <3>2
      <4> QED
        BY <1>5, <2>1, <3>2, <3>5, <4>1, AnotherRecord
    <3>7. Y[4] \in Seq(Nat) /\ Increasing(Y[4]) /\ Records(Y[4]) = {}
      BY <2>1, OneRecord
    <3>8. \A m \in Stations : Y[m] \in Seq(Nat) /\ Increasing(Y[m])
      BY <1>3, <1>4, <3>6, <3>7
    <3>9. \A m \in Stations \ {4, 3} : Records(Y[m]) = Records(Z[m])
      BY <1>3
    <3>10. Moves(Z, Y, 4, 3, i)
      BY <1>1, <3>2, <3>3, <3>6, <3>7, <3>8, <3>9 DEF Moves, Stations
    <3> QED
      BY <1>2, <3>10, RecordMoves
  <2>2. CASE Y[4] = X[4] /\ Y[3] = Append(late, 0)
    <3>1. Y[3] \in Seq(Nat) /\ Increasing(Y[3]) /\ Records(Y[3]) = Records(late)
      BY <1>5, <2>2, NothingAdded
    <3>2. Y[4] = Z[4]
      BY <1>1, <2>2
    <3>3. Same(Z, Y)
      BY <1>1, <1>3, <1>4, <3>1, <3>2 DEF Same
    <3> QED
      BY <1>2, <3>3, RecordsStay
  <2> QED
    BY <2>1, <2>2 DEF Takes, late
<1> QED
  BY <1>2, <1>6

TakesIn(s, n) ==
    LET i == reading[s]
    IN  /\ n = Evicted(Indices, mergedBytes, Size[i]) /\ ~Refused(Indices, mergedBytes, Size[i])
        /\ merged' = Append(SubSeq(merged, n + 1, Len(merged)), [order |-> nextIndex, source |-> s, index |-> i])
        /\ mergedBytes' = mergedBytes - SizeOf(SubSeq(Indices, 1, n)) + Size[i]
        /\ mergedDropped' = mergedDropped + n /\ nextIndex' = nextIndex + 1

\* retain, of a record that is admitted: those it pushes out are counted one by one.
LEMMA KeptByRetained ==
    ASSUME Inv, Next, NEW s \in Sources, HasReceived(s), NEW n, TakesIn(s, n) PROVE Kept
<1> DEFINE i == reading[s]
           e == [order |-> nextIndex, source |-> s, index |-> i]
           G == PushedOut(n)
<1>0. AtRanks /\ AtStream /\ MergedInOrder /\ Within(Indices, mergedBytes) /\ \A q \in Sources : Each(q)
  BY DEF Inv, TypeOK
<1>1. i # 0 /\ i \in Index /\ i \in Nat /\ e \in Entry
  BY <1>0, IndexIsNumber DEF HasReceived, Each, Consistent, AtStream, Entry
<1>2. Indices = Mapped(IndexOf, merged) /\ Indices \in Seq(Index) /\ Len(Indices) = Len(merged) /\ merged \in Seq(Entry)
  BY <1>0, MergedNow, IndicesAre DEF Indices, AtStream
<1>3. /\ n \in 0..Len(merged) /\ n \in Nat
      /\ Within(Append(SubSeq(Indices, n + 1, Len(Indices)), i),
                mergedBytes - SizeOf(SubSeq(Indices, 1, n)) + Size[i])
      /\ Append(SubSeq(Indices, n + 1, Len(Indices)), i) \in Seq(Index)
  <2>1. n \in 0..Len(Indices)
        /\ Append(SubSeq(Indices, n + 1, Len(Indices)), i) \in Seq(Index)
        /\ Within(Append(SubSeq(Indices, n + 1, Len(Indices)), i),
                  mergedBytes - SizeOf(SubSeq(Indices, 1, n)) + Size[i])
    BY <1>0, <1>1, <1>2, AdmittedFits DEF TakesIn
  <2> QED
    BY <1>2, <2>1
<1>4. AtRanks' /\ AtStream'
  <2>1. mergedBytes' \in Nat
    BY <1>3, SizeIsNumber DEF Within, TakesIn
  <2>2. merged' \in Seq(Entry)
    <3>1. SubSeq(merged, n + 1, Len(merged)) \in Seq(Entry)
      BY <1>2, <1>3, PartsAre
    <3>2. merged' = Append(SubSeq(merged, n + 1, Len(merged)), e)
      BY DEF TakesIn
    <3> HIDE DEF e
    <3> QED
      BY <1>1, <3>1, <3>2
  <2>3. mergedDropped' \in Nat /\ nextIndex' \in Nat
    BY <1>0, <1>3, SMTT(30) DEF AtStream, TakesIn
  <2>4. reading' \in [Sources -> {0} \cup Index]
    BY <1>0 DEF AtStream, HasReceived
  <2> QED
    BY <1>0, <2>1, <2>2, <2>3, <2>4 DEF AtRanks, AtStream, HasReceived
<1>5. reading'[s] = 0 /\ \A q \in Sources \ {s} : reading'[q] = reading[q]
  BY <1>0 DEF HasReceived, AtStream
<1>6. Within(Indices, mergedBytes)'
  <2>1. Mapped(IndexOf, merged') = Append(SubSeq(Indices, n + 1, Len(Indices)), IndexOf[e])
    BY <1>1, <1>2, <1>3, MapsAre, MergedAdded DEF TakesIn
  <2>2. IndexOf[e] = i
    BY <1>1 DEF IndexOf
  <2>3. Indices' = Append(SubSeq(Indices, n + 1, Len(Indices)), i)
    BY <1>4, <2>1, <2>2, MergedNext
  <2> QED
    BY <1>3, <2>3 DEF TakesIn
<1>7. MergedInOrder'
  BY <1>0, <1>1, <1>3, OrderOfMerged DEF HasReceived, TakesIn
<1>8. ASSUME NEW q \in Sources
      PROVE  /\ InOrder(Station(q)', made[q]) /\ Present(Station(q)) = Present(Station(q)') \cup G[q]
             /\ G[q] \cap Present(Station(q)') = {} /\ G[q] \subseteq 1..made[q]
  <2> DEFINE X == Station(q)
             Y == Station(q)'
  <2>0. InOrder(X, made[q]) /\ made[q] \in Nat
    BY <1>0 DEF Each, AtRanks
  <2>1. /\ X[4] = <<reading[q]>> /\ Y[4] = <<reading'[q]>>
        /\ Y[1] = X[1] /\ Y[2] = X[2] /\ Y[5] = X[5] /\ Y[6] = X[6] /\ Y[7] = X[7]
    <3>1. Frames(q)' = Frames(q)
      BY DEF Frames, HasReceived
    <3> QED
      BY <3>1 DEF Station, HasReceived
  <2>2. X[3] = Mapped(MergedOf(q), merged) /\ Y[3] = Mapped(MergedOf(q), merged')
    BY <1>0, <1>4, MergedNow, MergedNext, StationIs
  <2>3. Y[3] = Append(SubSeq(X[3], n + 1, Len(X[3])), IF s = q THEN i ELSE 0) /\ n \in 0..Len(X[3])
    <3>1. Mapped(MergedOf(q), merged')
             = Append(SubSeq(Mapped(MergedOf(q), merged), n + 1, Len(Mapped(MergedOf(q), merged))), MergedOf(q)[e])
      BY <1>1, <1>2, <1>3, MapsAre, MergedAdded DEF TakesIn
    <3>2. MergedOf(q)[e] = IF s = q THEN i ELSE 0
      BY <1>1 DEF MergedOf
    <3>3. Len(Mapped(MergedOf(q), merged)) = Len(merged)
      BY <1>2, MapsAre, MappedIs DEF Image
    <3> QED
      BY <1>3, <2>2, <3>1, <3>2, <3>3
  <2>4. G[q] = Records(SubSeq(X[3], 1, n))
    BY StationIs DEF PushedOut
  <2>5. \/ X[4] = <<i>> /\ Y[4] = << 0 >> /\ Y[3] = Append(SubSeq(X[3], n + 1, Len(X[3])), i)
        \/ Y[4] = X[4] /\ Y[3] = Append(SubSeq(X[3], n + 1, Len(X[3])), 0)
    <3>1. CASE q = s
      BY <1>5, <2>1, <2>3, <3>1
    <3>2. CASE q # s
      <4>1. Y[4] = X[4]
        BY <1>5, <2>1, <3>2
      <4>2. Y[3] = Append(SubSeq(X[3], n + 1, Len(X[3])), 0)
        BY <2>3, <3>2
      <4> QED
        BY <4>1, <4>2
    <3> QED
      BY <3>1, <3>2
  <2> HIDE DEF X, Y, i, e, G
  <2>6. Takes(X, Y, n, i, G[q])
    BY <1>1, <2>1, <2>3, <2>4, <2>5 DEF Takes
  <2> QED
    BY <2>0, <2>6, RecordTaken DEF X, Y
<1>9. Placed'
  BY <1>8 DEF Placed, HasReceived
<1>10. Ledger'
  <2>1. Cardinality(Absent(made, Here')) = Cardinality(Absent(made, Here)) + n
    <3>1. \A q \in Sources : Here[q] = Present(Station(q)) /\ Here'[q] = Present(Station(q)')
      BY DEF Here
    <3>2. made \in [Sources -> Nat]
      BY <1>0 DEF AtRanks
    <3>3. IsFiniteSet(Pairs(G)) /\ Cardinality(Pairs(G)) = n
      BY <1>0, <1>3, PushedOutCount DEF Each
    <3> HIDE DEF G
    <3>4. \A q \in Sources : Here[q] = Here'[q] \cup G[q] /\ G[q] \cap Here'[q] = {} /\ G[q] \subseteq 1..made[q]
      BY <1>8, <3>1
    <3>5. \A q \in Sources : made[q] <= made[q] /\ \A x \in 1..made[q] : x <= made[q]
      BY <3>2
    <3>6. Gone(made, made, Here, Here', G)
      BY <3>4, <3>5 DEF Gone
    <3>7. Cardinality(Absent(made, Here')) = Cardinality(Absent(made, Here)) + Cardinality(Pairs(G))
      <4> DEFINE P == Here
                 Q == Here'
      <4> HIDE DEF P, Q
      <4>1. Gone(made, made, P, Q, G)
        BY <3>6 DEF P, Q
      <4>2. Cardinality(Absent(made, Q)) = Cardinality(Absent(made, P)) + Cardinality(Pairs(G))
        BY <3>2, <3>3, <4>1, LostGrows
      <4> QED
        BY <4>2 DEF P, Q
    <3> QED
      BY <3>3, <3>7
  <2>2. Balanced => Balanced'
    <3> DEFINE a == Cardinality(Absent(made, Here))
               b == Cardinality(Absent(made', Here'))
               c == Cardinality(Absent(dropped, None))
    <3>1. Cardinality(Absent(dropped', None)) = c /\ b = a + n
      BY <2>1 DEF HasReceived
    <3>2. Quiet' => Quiet
      BY QuietBefore DEF Inv
    <3>3. c \in Nat /\ mergedDropped \in Nat
      BY <1>0, AbsentFinite, FS_CardinalityType DEF AtRanks, AtStream
    <3> HIDE DEF a, b, c
    <3>4. a = c + mergedDropped => b = c + mergedDropped'
      BY <1>3, <3>1, <3>3 DEF TakesIn
    <3> QED
      BY <3>1, <3>2, <3>4 DEF Balanced, a, b, c
  <2>3. Ledger <=> Balanced
    BY LedgerIs DEF Inv, TypeOK, Placed, Each
  <2> QED
    BY <1>4, <1>9, <2>2, <2>3, LedgerNext DEF Inv
<1>11. \A q \in Sources : FileCounted(q)' /\ Within(buffer[q], bytes[q])'
  BY DEF FileCounted, Within, Inv, Each, HasReceived
<1> QED
  BY <1>4, <1>6, <1>7, <1>9, <1>10, <1>11 DEF Kept, Placed

-----------------------------------------------------------------------------
(***************************************************************************)
(* What the solver hands over.                                             *)
(***************************************************************************)
LEMMA PublishedLater ==
    ASSUME NEW X, NEW top \in Nat, InOrder(X, top)
    PROVE  InOrder(X, top + 1) /\ Present(X) \subseteq 1..top
<1>1. ASSUME NEW m \in Stations, NEW x \in Records(X[m]) PROVE x \in 1..top /\ x <= top + 1
  <2>1. X[m] \in Seq(Nat) /\ x <= top
    BY DEF InOrder
  <2>2. x \in Nat \ {0}
    BY <2>1, RecordsAre
  <2> QED
    BY <2>1, <2>2
<1>2. InOrder(X, top + 1)
  BY <1>1 DEF InOrder
<1>3. Present(X) \subseteq 1..top
  BY <1>1 DEF Present
<1> QED
  BY <1>2, <1>3

\* A new record takes the place of the oldest in the buffer.
Enters(X, Y, n, i, G) ==
    /\ n \in 0..Len(X[7]) /\ G = Records(SubSeq(X[7], 1, n))
    /\ Y[7] = Append(SubSeq(X[7], n + 1, Len(X[7])), i)
    /\ Y[1] = X[1] /\ Y[2] = X[2] /\ Y[3] = X[3] /\ Y[4] = X[4] /\ Y[5] = X[5] /\ Y[6] = X[6]

\* Order stays; the new record is there, and what it replaces is not.
LEMMA EntersFull ==
    ASSUME NEW X, NEW Y, NEW top \in Nat, InOrder(X, top), NEW n, NEW G, Enters(X, Y, n, top + 1, G)
    PROVE  /\ InOrder(Y, top + 1) /\ G \subseteq 1..top /\ G \subseteq Present(X)
           /\ \A x : x \in Present(Y) <=> (x \in Present(X) /\ x \notin G) \/ x = top + 1
<1> DEFINE late == SubSeq(X[7], n + 1, Len(X[7]))
           Z == <<X[1], X[2], X[3], X[4], X[5], X[6], late>>
<1>1. 7 \in Stations /\ Z[7] = late /\ \A m \in Stations \ {7} : Z[m] = X[m]
  <2>1. Z[7] = late /\ Z[1] = X[1] /\ Z[2] = X[2] /\ Z[4] = X[4] /\ Z[5] = X[5] /\ Z[6] = X[6] /\ Z[3] = X[3]
    <3> HIDE DEF late
    <3> QED
      OBVIOUS
  <2> HIDE DEF Z
  <2> QED
    BY <2>1, StationsAre
<1> HIDE DEF Z
<1>2. InOrder(Z, top) /\ Present(X) = Present(Z) \cup G /\ G \cap Present(Z) = {} /\ G \subseteq 1..top
  <2>1. WithoutOldest(X, Z, 7, n, G)
    BY <1>1 DEF Enters, WithoutOldest
  <2> HIDE DEF late
  <2> QED
    BY <2>1, OldestLeave
<1>3. \A m \in Stations \ {7} : Y[m] = Z[m]
  <2>1. Y[1] = X[1] /\ Y[2] = X[2] /\ Y[3] = X[3] /\ Y[4] = X[4] /\ Y[5] = X[5] /\ Y[6] = X[6]
    BY DEF Enters
  <2> HIDE DEF late
  <2> QED
    BY <1>1, <2>1, StationsAre
<1>4. \A m \in Stations : Z[m] \in Seq(Nat) /\ Increasing(Z[m]) /\ \A x \in Records(Z[m]) : x <= top
  BY <1>2 DEF InOrder
<1>5. Y[7] = Append(late, top + 1)
  BY DEF Enters
<1> HIDE DEF late
<1>6. late \in Seq(Nat) /\ Increasing(late) /\ \A x \in Records(late) : x \in Nat /\ x < top + 1
  <2>1. late \in Seq(Nat) /\ Increasing(late) /\ \A x \in Records(late) : x <= top
    BY <1>1, <1>4
  <2>2. \A x \in Records(late) : x \in Nat
    BY <2>1, RecordsAre
  <2> QED
    BY <2>1, <2>2
<1>7. Y[7] \in Seq(Nat) /\ Increasing(Y[7]) /\ Records(Y[7]) = Records(Z[7]) \cup {top + 1}
  <2>1. top + 1 \in Nat /\ {top + 1} \ {0} = {top + 1}
    OBVIOUS
  <2> DEFINE i == top + 1
  <2> HIDE DEF i
  <2>2. Append(late, i) \in Seq(Nat) /\ Increasing(Append(late, i)) /\ Records(Append(late, i)) = Records(late) \cup ({i} \ {0})
    BY <1>6, <2>1, AnotherRecord DEF i
  <2> QED
    BY <1>1, <1>5, <2>1, <2>2 DEF i
<1>8. \A m \in Stations : Y[m] \in Seq(Nat) /\ Increasing(Y[m])
  BY <1>3, <1>4, <1>7
<1>9. \A m \in 1..6 : Records(Y[m]) = Records(Z[m])
  <2>1. \A m \in 1..6 : m \in Stations \ {7}
    BY DEF Stations
  <2> QED
    BY <1>3, <2>1
<1>10. InOrder(Y, top + 1) /\ Present(Y) = Present(Z) \cup {top + 1}
  BY <1>2, <1>7, <1>8, <1>9, RecordEnters
<1> QED
  BY <1>2, <1>10

\* As many records as places were evicted.
LEMMA OldestCount ==
    ASSUME NEW q \in Seq(Index), Increasing(q), NEW n \in 0..Len(q), NEW s \in Sources,
           NEW G, G = [r \in Sources |-> IF r = s THEN Records(SubSeq(q, 1, n)) ELSE {}]
    PROVE  IsFiniteSet(Pairs(G)) /\ Cardinality(Pairs(G)) = n
<1> DEFINE old == SubSeq(q, 1, n)
           f == [k \in 1..n |-> <<s, old[k]>>]
<1>1. old \in Seq(Index) /\ Len(old) = n /\ n \in Nat /\ \A k \in 1..n : old[k] = q[k] /\ k \in 1..Len(q)
  BY PartsAre
<1>2. \A r \in Sources : G[r] = IF r = s THEN Records(old) ELSE {}
  OBVIOUS
<1>3. \A j, k \in 1..Len(q) : j < k /\ q[j] # 0 /\ q[k] # 0 => q[j] < q[k]
  <2>1. DOMAIN q = 1..Len(q)
    OBVIOUS
  <2> QED
    BY <2>1 DEF Increasing
<1> HIDE DEF old
<1>4. \A k \in 1..n : old[k] \in Nat /\ old[k] # 0
  <2>1. \A k \in 1..n : old[k] \in Index
    BY <1>1
  <2> QED
    BY <2>1, IndexIsNumber
<1>5. \A x : x \in Records(old) <=> \E k \in 1..n : old[k] = x
  <2>1. old \in Seq(Nat)
    BY <1>1, <1>4
  <2>2. \A x : x \in Records(old) <=> x # 0 /\ \E k \in 1..Len(old) : old[k] = x
    BY <2>1, RecordsAre
  <2> QED
    BY <1>1, <1>4, <2>2
<1>6. f \in [1..n -> Pairs(G)]
  <2>1. \A k \in 1..n : <<s, old[k]>> \in Pairs(G)
    BY <1>2, <1>4, <1>5 DEF Pairs
  <2> QED
    BY <2>1
<1>7. \A z \in Pairs(G) : \E k \in 1..n : f[k] = z
  <2> SUFFICES ASSUME NEW z \in Pairs(G) PROVE \E k \in 1..n : f[k] = z
    OBVIOUS
  <2>1. z \in Sources \X Nat /\ z[2] \in G[z[1]]
    BY DEF Pairs
  <2>2. z[1] = s /\ z[2] \in Records(old)
    BY <1>2, <2>1
  <2>3. PICK k \in 1..n : old[k] = z[2]
    BY <1>5, <2>2
  <2>4. f[k] = z
    BY <2>1, <2>2, <2>3
  <2> QED
    BY <2>4
<1>8. \A j, k \in 1..n : j < k => f[j] # f[k]
  <2> SUFFICES ASSUME NEW j \in 1..n, NEW k \in 1..n, j < k PROVE old[j] # old[k]
    OBVIOUS
  <2>1. q[j] < q[k] /\ q[j] \in Nat
    BY <1>1, <1>3, <1>4
  <2> QED
    BY <1>1, <1>4, <2>1
<1> HIDE DEF f
<1> QED
  BY <1>1, <1>6, <1>7, <1>8, OneEach

\* Where n records more are missing and n more are counted, the ledger stays balanced.
LEMMA LedgerGrows ==
    ASSUME Inv, Next, AtRanks', Placed', mergedDropped' = mergedDropped,
           NEW s \in Sources, NEW n \in Nat, dropped' = [dropped EXCEPT ![s] = @ + n],
           NEW G, Gone(made, made', Here, Here', G), IsFiniteSet(Pairs(G)), Cardinality(Pairs(G)) = n
    PROVE  Ledger'
<1>0. AtRanks /\ AtStream /\ Placed
  BY DEF Inv, TypeOK, Placed, Each
<1>1. made \in [Sources -> Nat] /\ made' \in [Sources -> Nat] /\ dropped \in [Sources -> Nat] /\ mergedDropped \in Nat
  BY <1>0 DEF AtRanks, AtStream
<1> DEFINE a == Cardinality(Absent(made, Here))
           b == Cardinality(Absent(made', Here'))
           c == Cardinality(Absent(dropped, None))
           d == Cardinality(Absent(dropped', None))
<1>2. b = a + n
  BY <1>1, LostGrows
<1>3. d = c + n
  <2> DEFINE e == dropped'
  <2>1. CountsMore(dropped, e, s, n)
    BY DEF CountsMore
  <2> HIDE DEF e
  <2>2. Cardinality(Absent(e, None)) = Cardinality(Absent(dropped, None)) + n
    BY <1>1, <2>1, CountedGrows
  <2> QED
    BY <2>2 DEF e
<1>4. a \in Nat /\ c \in Nat
  BY <1>1, AbsentFinite, FS_CardinalityType
<1>5. Quiet' => Quiet
  BY QuietBefore DEF Inv
<1>6. Balanced => Balanced'
  <2>1. None' = None
    BY DEF None
  <2> HIDE DEF a, b, c, d
  <2>2. a = c + mergedDropped => b = d + mergedDropped'
    BY <1>1, <1>2, <1>3, <1>4
  <2> QED
    BY <1>5, <2>1, <2>2 DEF Balanced, a, b, c, d
<1> QED
  BY <1>0, <1>6, LedgerIs, LedgerNext DEF Inv

\* try_publish, as far as the records go.
HasMade(s) ==
    /\ solver[s] = "run" /\ made[s] < Len(Size) /\ made' = [made EXCEPT ![s] = made[s] + 1]
    /\ UNCHANGED <<kind, healthy, held, file, channel, reading, merged, mergedBytes, mergedDropped, nextIndex,
                   latest, delivered>>
Refuses(s) == dropped' = [dropped EXCEPT ![s] = @ + 1] /\ UNCHANGED <<buffer, bytes>>
Admits(s, n) ==
    LET i == made[s] + 1
    IN  /\ n = Evicted(buffer[s], bytes[s], Size[i]) /\ ~Refused(buffer[s], bytes[s], Size[i])
        /\ buffer' = [buffer EXCEPT ![s] = Append(SubSeq(buffer[s], n + 1, Len(buffer[s])), i)]
        /\ bytes' = [bytes EXCEPT ![s] = bytes[s] - SizeOf(SubSeq(buffer[s], 1, n)) + Size[i]]
        /\ dropped' = [dropped EXCEPT ![s] = @ + n]

\* Publish does one of three things.
LEMMA Published ==
    ASSUME NEW s, Publish(s)
    PROVE  HasMade(s) /\ \/ ~healthy[s] /\ UNCHANGED <<dropped, buffer, bytes>>
                         \/ Refuses(s)
                         \/ \E n : Admits(s, n)
<1>1. HasMade(s)
  BY DEF Publish, HasMade, SolverAt, farEnd, streamVars, mergedVars, fixed
<1>2. CASE ~healthy[s]
  BY <1>1, <1>2 DEF Publish, buffered
<1>3. CASE healthy[s]
  BY <1>1, <1>3 DEF Publish, Refuses, Admits
<1> QED
  BY <1>2, <1>3

\* The rest of the way does not change.
LEMMA MadeStays ==
    ASSUME Inv, NEW s \in Sources, HasMade(s), \A q \in Sources \ {s} : buffer'[q] = buffer[q]
    PROVE  /\ \A q \in Sources \ {s} : made'[q] = made[q] /\ Station(q)' = Station(q)
           /\ made[s] \in Nat /\ made'[s] = made[s] + 1 /\ made[s] + 1 \in Index /\ made' \in [Sources -> Nat]
           /\ \A m \in Stations \ {7} : Station(s)'[m] = Station(s)[m]
           /\ s \in Observed /\ AtStream'
           /\ InOrder(Station(s), made[s])
<1>0. made \in [Sources -> Nat] /\ AtStream /\ Len(Size) \in Nat
  BY RecordsAssumption DEF Inv, TypeOK, AtRanks
<1>1. made[s] \in Nat /\ made'[s] = made[s] + 1 /\ made[s] + 1 \in Index /\ made' \in [Sources -> Nat]
      /\ \A q \in Sources \ {s} : made'[q] = made[q]
  BY <1>0 DEF HasMade, Index
<1>2. \A q \in Sources : Merged(q)' = Merged(q) /\ Frames(q)' = Frames(q)
  BY DEF Merged, Frames, HasMade
<1>3. \A q \in Sources \ {s} : Station(q)' = Station(q)
  BY <1>2 DEF Station, HasMade
<1>4. \A m \in Stations \ {7} : Station(s)'[m] = Station(s)[m]
  <2>1. /\ Station(s)'[1] = Station(s)[1] /\ Station(s)'[2] = Station(s)[2] /\ Station(s)'[3] = Station(s)[3]
        /\ Station(s)'[4] = Station(s)[4] /\ Station(s)'[5] = Station(s)[5] /\ Station(s)'[6] = Station(s)[6]
    BY <1>2 DEF Station, HasMade
  <2> QED
    BY <2>1, StationsAre
<1>5. s \in Observed
  BY DEF Observed, Inv, Each, Consistent, HasMade
<1>6. AtStream'
  BY <1>0 DEF AtStream, HasMade
<1> QED
  BY <1>1, <1>3, <1>4, <1>5, <1>6 DEF Inv, Each

\* try_publish of a record that is dropped itself, or comes too late.
LEMMA KeptByRefused ==
    ASSUME Inv, Next, NEW s \in Sources, HasMade(s), UNCHANGED <<buffer, bytes>>,
           (~healthy[s] /\ dropped' = dropped) \/ Refuses(s)
    PROVE  Kept
<1> DEFINE i == made[s] + 1
           G == [q \in Sources |-> IF q = s THEN {i} ELSE {}]
<1>1. /\ \A q \in Sources \ {s} : made'[q] = made[q] /\ Station(q)' = Station(q)
      /\ made[s] \in Nat /\ made'[s] = i /\ i \in Index /\ made' \in [Sources -> Nat]
      /\ s \in Observed /\ AtStream' /\ InOrder(Station(s), made[s])
  BY MadeStays
<1>2. AtRanks'
  BY <1>1, SMTT(30) DEF Inv, TypeOK, AtRanks, HasMade, Refuses
<1>3. Station(s)' = Station(s)
  <2>1. Merged(s)' = Merged(s) /\ Frames(s)' = Frames(s)
    BY DEF Merged, Frames, HasMade
  <2> QED
    BY <2>1 DEF Station, HasMade
<1>4. InOrder(Station(s), i) /\ Present(Station(s)) \subseteq 1..made[s]
  BY <1>1, PublishedLater
<1>5. \A q \in Sources : InOrder(Station(q), made[q])'
  BY <1>1, <1>3, <1>4 DEF Inv, Each
<1>6. Ledger'
  <2>1. CASE ~healthy[s]
    <3>1. ~Quiet'
      BY <1>1, <2>1 DEF Quiet, Observed, HasMade
    <3> QED
      BY <3>1 DEF Ledger
  <2>2. CASE Refuses(s)
    <3>1. \A q \in Sources : Here[q] = Present(Station(q)) /\ Here'[q] = Present(Station(q)')
      BY DEF Here
    <3>2. Here' = Here
      BY <1>1, <1>3 DEF Here
    <3>3. \A q \in Sources : Here[q] \subseteq 1..made[q]
      <4>1. ASSUME NEW q \in Sources PROVE Here[q] \subseteq 1..made[q]
        <5>1. InOrder(Station(q), made[q]) /\ made[q] \in Nat
          BY DEF Inv, Each, TypeOK, AtRanks
        <5> QED
          BY <3>1, <5>1, PublishedLater
      <4> QED
        BY <4>1
    <3>4. G[s] = {i} /\ \A q \in Sources \ {s} : G[q] = {}
      OBVIOUS
    <3>5. made \in [Sources -> Nat]
      BY DEF Inv, TypeOK, AtRanks
    <3> HIDE DEF G, i
    <3>6. i = made[s] + 1
      BY DEF i
    <3>7. Gone(made, made', Here, Here', G)
      <4>1. ASSUME NEW q \in Sources
            PROVE  /\ made[q] <= made'[q] /\ G[q] \subseteq 1..made'[q]
                   /\ \A x \in G[q] : x \in Here[q] \/ x > made[q]
                   /\ \A x \in 1..made'[q] : x \notin Here[q] <=> x \in G[q] \/ (x <= made[q] /\ x \notin Here[q])
        <5>1. CASE q = s
          BY <1>1, <3>3, <3>4, <3>6, <5>1
        <5>2. CASE q # s
          <6>1. made'[q] = made[q] /\ G[q] = {} /\ made[q] \in Nat
            BY <1>1, <3>4, <3>5, <5>2
          <6> QED
            BY <6>1
        <5> QED
          BY <5>1, <5>2
      <4> QED
        BY <3>2, <4>1 DEF Gone
    <3>8. Pairs(G) = {<<s, i>>}
      <4>1. i \in Nat
        BY <1>1, IndexIsNumber
      <4> QED
        BY <3>4, <4>1 DEF Pairs
    <3>9. IsFiniteSet(Pairs(G)) /\ Cardinality(Pairs(G)) = 1
      BY <3>8, FS_Singleton
    <3>10. Placed' /\ mergedDropped' = mergedDropped /\ dropped' = [dropped EXCEPT ![s] = @ + 1] /\ 1 \in Nat
      BY <1>5, <2>2 DEF Placed, HasMade, Refuses
    <3> QED
      BY <1>2, <3>7, <3>9, <3>10, LedgerGrows
  <2> QED
    BY <2>1, <2>2
<1>7. ASSUME NEW q \in Sources PROVE FileCounted(q)' /\ Within(buffer[q], bytes[q])'
  <2>1. Within(buffer[q], bytes[q])' /\ FileCounted(q)
    BY DEF Within, Inv, Each, HasMade
  <2>2. CASE q # s
    BY <1>1, <2>1, <2>2 DEF FileCounted, HasMade, Refuses, Inv, TypeOK, AtRanks
  <2>3. CASE q = s /\ ~healthy[s]
    BY <2>1, <2>3 DEF FileCounted, HasMade
  <2>4. CASE q = s /\ Refuses(s)
    <3>1. made[s] \in Nat /\ dropped[s] \in Nat /\ dropped'[s] = dropped[s] + 1 /\ Len(file[s]) \in Nat /\ Len(buffer[s]) \in Nat
      BY <2>4 DEF Inv, TypeOK, AtRanks, Refuses
    <3> QED
      <4> DEFINE rest == IF held[s] = 0 THEN 0 ELSE 1
                 l == Len(buffer[s])
                 f == Len(file[s])
      <4>1. made'[s] = made[s] + 1 /\ kind' = kind /\ healthy' = healthy /\ held' = held /\ file' = file /\ buffer' = buffer
        BY <1>1, <2>4 DEF HasMade, Refuses
      <4>2. rest \in Nat /\ l \in Nat /\ f \in Nat
        BY <3>1
      <4>3. kind[s] = "file" /\ healthy[s] => made[s] = dropped[s] + f + l + rest
        BY <2>1, <2>4 DEF FileCounted
      <4>4. (kind[s] = "file" /\ healthy[s] => made'[s] = dropped'[s] + f + l + rest) => FileCounted(s)'
        BY <4>1 DEF FileCounted
      <4> HIDE DEF rest, l, f
      <4>5. made[s] = dropped[s] + f + l + rest => made[s] + 1 = (dropped[s] + 1) + f + l + rest
        BY <3>1, <4>2
      <4> QED
        BY <2>1, <2>4, <3>1, <4>1, <4>3, <4>4, <4>5
  <2> QED
    BY <2>1, <2>2, <2>3, <2>4
<1> QED
  BY <1>1, <1>2, <1>5, <1>6, <1>7, MergedStays DEF Kept, HasMade

\* try_publish of a record that takes the place of the oldest.
LEMMA KeptByAdmitted ==
    ASSUME Inv, Next, NEW s \in Sources, HasMade(s), NEW n, Admits(s, n) PROVE Kept
<1> DEFINE i == made[s] + 1
           late == SubSeq(buffer[s], n + 1, Len(buffer[s]))
           old == SubSeq(buffer[s], 1, n)
           G == [q \in Sources |-> IF q = s THEN Records(old) ELSE {}]
<1>0. AtRanks /\ Within(buffer[s], bytes[s]) /\ FileCounted(s) /\ InOrder(Station(s), made[s])
  BY DEF Inv, TypeOK, Each
<1>1. buffer[s] \in Seq(Index) /\ i \in Index
  <2>1. \A q \in Sources \ {s} : buffer'[q] = buffer[q]
    BY <1>0 DEF Admits, AtRanks
  <2> QED
    BY <1>0, <2>1, MadeStays DEF AtRanks
<1>2. /\ n \in 0..Len(buffer[s]) /\ n \in Nat /\ Append(late, i) \in Seq(Index)
      /\ Within(Append(late, i), bytes[s] - SizeOf(old) + Size[i])
  <2>1. /\ n \in 0..Len(buffer[s]) /\ Append(late, i) \in Seq(Index)
        /\ Within(Append(late, i), bytes[s] - SizeOf(old) + Size[i])
    BY <1>0, <1>1, AdmittedFits DEF Admits
  <2> QED
    BY <1>1, <2>1
<1>3. /\ buffer'[s] = Append(late, i) /\ bytes'[s] = bytes[s] - SizeOf(old) + Size[i] /\ dropped'[s] = dropped[s] + n
      /\ \A q \in Sources \ {s} : buffer'[q] = buffer[q] /\ bytes'[q] = bytes[q] /\ dropped'[q] = dropped[q]
  BY <1>0 DEF Admits, AtRanks
<1>4. /\ \A q \in Sources \ {s} : made'[q] = made[q] /\ Station(q)' = Station(q)
      /\ made[s] \in Nat /\ made'[s] = i /\ made' \in [Sources -> Nat]
      /\ \A m \in Stations \ {7} : Station(s)'[m] = Station(s)[m]
      /\ s \in Observed /\ AtStream'
  BY <1>3, MadeStays
<1>5. AtRanks'
  <2>1. bytes' \in [Sources -> Nat]
    <3>1. bytes[s] - SizeOf(old) + Size[i] \in Nat
      BY <1>2, SizeIsNumber DEF Within
    <3> QED
      BY <1>0, <3>1 DEF Admits, AtRanks
  <2>2. buffer' \in [Sources -> Seq(Index)]
    <3> HIDE DEF late, i
    <3>1. buffer' = [buffer EXCEPT ![s] = Append(late, i)]
      BY DEF Admits, late, i
    <3> QED
      BY <1>0, <1>2, <3>1 DEF AtRanks
  <2>3. dropped' \in [Sources -> Nat]
    BY <1>0, <1>2, SMTT(30) DEF Admits, AtRanks
  <2> QED
    BY <1>0, <1>4, <2>1, <2>2, <2>3 DEF AtRanks, HasMade
<1>6. /\ InOrder(Station(s)', i) /\ Records(old) \subseteq 1..made[s] /\ Records(old) \subseteq Present(Station(s))
      /\ \A x : x \in Present(Station(s)') <=> (x \in Present(Station(s)) /\ x \notin Records(old)) \/ x = i
  <2> DEFINE X == Station(s)
             Y == Station(s)'
  <2>1. X[7] = buffer[s] /\ Y[7] = buffer'[s]
    BY StationIs
  <2> HIDE DEF X, Y
  <2>2. \A m \in Stations \ {7} : Y[m] = X[m]
    BY <1>4 DEF X, Y
  <2>3. Y[1] = X[1] /\ Y[2] = X[2] /\ Y[3] = X[3] /\ Y[4] = X[4] /\ Y[5] = X[5] /\ Y[6] = X[6]
    BY <2>2 DEF Stations
  <2>4. Enters(X, Y, n, made[s] + 1, Records(old))
    BY <1>2, <1>3, <2>1, <2>3 DEF Enters
  <2>5. InOrder(X, made[s])
    BY <1>0 DEF X
  <2> HIDE DEF old
  <2>6. /\ InOrder(Y, made[s] + 1) /\ Records(old) \subseteq 1..made[s] /\ Records(old) \subseteq Present(X)
        /\ \A x : x \in Present(Y) <=> (x \in Present(X) /\ x \notin Records(old)) \/ x = made[s] + 1
    BY <1>4, <2>4, <2>5, EntersFull
  <2> QED
    BY <2>6 DEF X, Y
<1>7. \A q \in Sources : InOrder(Station(q), made[q])'
  BY <1>4, <1>6 DEF Inv, Each
<1>8. Ledger'
  <2>1. \A q \in Sources : Here[q] = Present(Station(q)) /\ Here'[q] = Present(Station(q)')
    BY DEF Here
  <2>2. Here[s] \subseteq 1..made[s]
    BY <1>0, <1>4, <2>1, PublishedLater
  <2>3. \A q \in Sources \ {s} : Here'[q] = Here[q] /\ made'[q] = made[q]
    BY <1>4, <2>1
  <2>4. IsFiniteSet(Pairs(G)) /\ Cardinality(Pairs(G)) = n
    <3>1. Increasing(buffer[s])
      <4>1. 7 \in Stations
        BY StationsAre
      <4>2. Increasing(Station(s)[7])
        BY <1>0, <4>1 DEF InOrder
      <4> QED
        BY <4>2, StationIs
    <3> QED
      BY <1>1, <1>2, <3>1, OldestCount
  <2>5. G[s] = Records(old) /\ \A q \in Sources \ {s} : G[q] = {}
    OBVIOUS
  <2>6. made \in [Sources -> Nat]
    BY <1>0 DEF AtRanks
  <2> HIDE DEF G, i, old
  <2>7. i = made[s] + 1
    BY DEF i
  <2>8. ASSUME NEW q \in Sources
        PROVE  /\ made[q] <= made'[q] /\ G[q] \subseteq 1..made'[q]
               /\ \A x \in G[q] : x \in Here[q] \/ x > made[q]
               /\ \A x \in 1..made'[q] : x \notin Here'[q] <=> x \in G[q] \/ (x <= made[q] /\ x \notin Here[q])
    <3>1. CASE q = s
      <4>1. /\ \A x : x \in Here'[s] <=> (x \in Here[s] /\ x \notin G[s]) \/ x = i
            /\ G[s] \subseteq 1..made[s] /\ G[s] \subseteq Here[s]
        BY <1>6, <2>1, <2>5
      <4>2. \A x \in 1..made'[s] : x <= made[s] \/ x = i
        BY <1>4, <2>7
      <4>3. \A x \in 1..made[s] : x # i /\ x <= made[s]
        BY <1>4, <2>7
      <4>4. made[s] <= made'[s] /\ 1..made[s] \subseteq 1..made'[s] /\ ~(i <= made[s])
        BY <1>4, <2>7
      <4> QED
        BY <2>2, <3>1, <4>1, <4>2, <4>3, <4>4
    <3>2. CASE q # s
      <4>1. made'[q] = made[q] /\ Here'[q] = Here[q] /\ G[q] = {} /\ made[q] \in Nat
        BY <2>3, <2>5, <2>6, <3>2
      <4> QED
        BY <4>1
    <3> QED
      BY <3>1, <3>2
  <2>9. Gone(made, made', Here, Here', G)
    BY <2>8 DEF Gone
  <2>10. Placed' /\ mergedDropped' = mergedDropped /\ dropped' = [dropped EXCEPT ![s] = @ + n]
    BY <1>7 DEF Placed, HasMade, Admits
  <2> QED
    BY <1>2, <1>5, <2>4, <2>9, <2>10, LedgerGrows
<1>9. ASSUME NEW q \in Sources PROVE FileCounted(q)' /\ Within(buffer[q], bytes[q])'
  <2>1. CASE q # s
    <3>1. Within(buffer[q], bytes[q]) /\ FileCounted(q)
      BY DEF Inv, Each
    <3>2. /\ buffer'[q] = buffer[q] /\ bytes'[q] = bytes[q] /\ made'[q] = made[q] /\ dropped'[q] = dropped[q]
          /\ kind' = kind /\ healthy' = healthy /\ held' = held /\ file' = file
      BY <1>3, <1>4, <2>1 DEF HasMade
    <3> QED
      BY <3>1, <3>2 DEF Within, FileCounted
  <2>2. CASE q = s
    <3>1. Within(buffer[s], bytes[s])'
      BY <1>2, <1>3 DEF Within
    <3>2. FileCounted(s)'
      <4> DEFINE rest == IF held[s] = 0 THEN 0 ELSE 1
                 l == Len(buffer[s])
                 f == Len(file[s])
      <4>1. rest \in Nat /\ l \in Nat /\ f \in Nat /\ made[s] \in Nat /\ dropped[s] \in Nat /\ n \in Nat /\ n <= l
        BY <1>0, <1>2 DEF AtRanks
      <4>2. Len(buffer'[s]) = l - n + 1
        <5>1. late \in Seq(Index) /\ Len(late) = l - n
          BY <1>1, <1>2, PartsAre
        <5> HIDE DEF late, i, l
        <5> QED
          BY <1>3, <4>1, <5>1
      <4>3. kind[s] = "file" /\ healthy[s] => made[s] = dropped[s] + f + l + rest
        BY <1>0 DEF FileCounted
      <4>4. (kind[s] = "file" /\ healthy[s] => made'[s] = dropped'[s] + f + Len(buffer'[s]) + rest) => FileCounted(s)'
        BY DEF FileCounted, HasMade
      <4> HIDE DEF rest, l, f, late
      <4>5. made[s] = dropped[s] + f + l + rest => made[s] + 1 = (dropped[s] + n) + f + (l - n + 1) + rest
        BY <4>1
      <4> QED
        BY <1>3, <1>4, <4>2, <4>3, <4>4, <4>5
    <3> QED
      BY <2>2, <3>1, <3>2
  <2> QED
    BY <2>1, <2>2
<1> QED
  BY <1>4, <1>5, <1>7, <1>8, <1>9, MergedStays DEF Kept, HasMade

\* try_publish.
LEMMA KeptByPublish == ASSUME Inv, Next, NEW s \in Sources, Publish(s) PROVE Kept
BY Published, KeptByRefused, KeptByAdmitted DEF Refuses

-----------------------------------------------------------------------------
(***************************************************************************)
(* Every step keeps the invariant.                                         *)
(***************************************************************************)
LEMMA RanksIdle ==
    ASSUME Inv, Next, UNCHANGED records, \A q \in Sources : healthy'[q] => healthy[q] PROVE Kept
<1>1. Quiet' => Quiet
  BY QuietBefore DEF Inv
<1> QED
  BY <1>1, Idle

\* Checks and the steps of stop().
LEMMA SolverKeeps == ASSUME Inv, Next, NEW s \in Sources, Shutdown(s) \/ SolverStops(s) PROVE Kept
<1>1. UNCHANGED records /\ healthy' = healthy
  BY DEF Shutdown, SolverStops, Check, StopCloses, StopInterrupts, StopJoins, records, fixed, buffered, farEnd,
         streamVars, mergedVars
<1> QED
  BY <1>1, RanksIdle

\* The thread of a rank.
LEMMA WorkerKeeps == ASSUME Inv, Next, NEW s \in Sources, WorkerStep(s) PROVE Kept
<1>1. CASE Open(s)
  <2>1. UNCHANGED records /\ healthy' = healthy
    BY <1>1 DEF Open, records, fixed, solverSide, farEnd, streamVars, mergedVars
  <2> QED
    BY <2>1, RanksIdle
<1>2. CASE Pop(s)
  <2>1. CASE buffer[s] # <<>>
    BY <1>2, <2>1, KeptByPop
  <2>2. CASE buffer[s] = <<>>
    <3>1. UNCHANGED records /\ healthy' = healthy
      BY <1>2, <2>2 DEF Pop, records, fixed, solverSide, farEnd, streamVars, mergedVars
    <3> QED
      BY <3>1, RanksIdle
  <2> QED
    BY <2>1, <2>2
<1>3. CASE WriteLine(s)
  <2>1. CASE WorkerTo(s, "write", "pop") /\ file' = [file EXCEPT ![s] = Append(@, held[s])] /\ held' = [held EXCEPT ![s] = 0]
    BY <1>3, <2>1, KeptByLine
  <2>2. CASE UNCHANGED <<file, held>>
    <3>1. UNCHANGED records /\ healthy' = healthy
      BY <1>3, <2>2 DEF WriteLine, records, fixed, solverSide, farEnd, streamVars, mergedVars
    <3> QED
      BY <3>1, RanksIdle
  <2> QED
    BY <1>3, <2>1, <2>2 DEF WriteLine
<1>4. CASE WriteFrame(s)
  <2>0. held \in [Sources -> {0} \cup Index]
    BY DEF Inv, TypeOK, AtRanks
  <2>1. CASE WorkerTo(s, "length", "frame") /\ SendPiece(s, "length") /\ UNCHANGED held
    <3>1. held' = [held EXCEPT ![s] = IF "length" = "frame" THEN 0 ELSE held[s]]
      BY <2>0, <2>1
    <3> QED
      BY <1>4, <2>1, <3>1, KeptByPiece DEF WorkerTo
  <2>2. CASE WorkerTo(s, "frame", "pop") /\ SendPiece(s, "frame") /\ held' = [held EXCEPT ![s] = 0]
    <3>1. held' = [held EXCEPT ![s] = IF "frame" = "frame" THEN 0 ELSE held[s]]
      BY <2>2
    <3> QED
      BY <1>4, <2>2, <3>1, KeptByPiece DEF WorkerTo
  <2>3. CASE UNCHANGED <<channel, held>>
    <3>1. UNCHANGED records /\ healthy' = healthy
      BY <1>4, <2>3 DEF WriteFrame, records, fixed, solverSide, farEnd, streamVars, mergedVars
    <3> QED
      BY <3>1, RanksIdle
  <2> QED
    BY <1>4, <2>1, <2>2, <2>3 DEF WriteFrame
<1>5. CASE WorkerFails(s)
  <2>1. CASE WorkerAt(s, "failed") /\ healthy' = [healthy EXCEPT ![s] = FALSE] /\ held' = [held EXCEPT ![s] = 0]
    BY <1>5, <2>1, KeptByFailure
  <2>2. CASE UNCHANGED <<healthy, held>>
    <3>1. UNCHANGED records /\ healthy' = healthy
      BY <1>5, <2>2 DEF WorkerFails, records, fixed, solverSide, farEnd, streamVars, mergedVars
    <3> QED
      BY <3>1, RanksIdle
  <2> QED
    BY <1>5, <2>1, <2>2 DEF WorkerFails, WorkerTo
<1> QED
  BY <1>1, <1>2, <1>3, <1>4, <1>5 DEF WorkerStep

\* The thread of a source.
LEMMA ReaderKeeps == ASSUME Inv, Next, NEW s \in Sources, ReaderStep(s) PROVE Kept
<1>1. CASE AwaitFrame(s) \/ ReaderThrew(s)
  <2>1. UNCHANGED records /\ healthy' = healthy
    BY <1>1 DEF AwaitFrame, ReaderThrew, records, fixed, nearEnd, rankVars, streamVars, mergedVars
  <2> QED
    BY <2>1, RanksIdle
<1>2. CASE ReadFrame(s)
  <2>0. reading \in [Sources -> {0} \cup Index]
    BY DEF Inv, TypeOK, AtStream
  <2>1. CASE /\ channel[s] # <<>> /\ channel' = [channel EXCEPT ![s] = Tail(@)]
             /\ ReaderTo(s, "length", "frame") /\ UNCHANGED reading
    <3>1. reading' = [reading EXCEPT ![s] = IF "length" = "frame" THEN Head(channel[s]).index ELSE reading[s]]
      BY <2>0, <2>1
    <3>2. ReaderAt(s, "length") /\ channel[s] # <<>> /\ channel' = [channel EXCEPT ![s] = Tail(@)]
      BY <2>1 DEF ReaderTo
    <3> QED
      BY <1>2, <3>1, <3>2, KeptByRead
  <2>2. CASE /\ channel[s] # <<>> /\ channel' = [channel EXCEPT ![s] = Tail(@)]
             /\ ReaderTo(s, "frame", "retain") /\ reading' = [reading EXCEPT ![s] = Head(channel[s]).index]
    <3>1. reading' = [reading EXCEPT ![s] = IF "frame" = "frame" THEN Head(channel[s]).index ELSE reading[s]]
      BY <2>2
    <3>2. ReaderAt(s, "frame") /\ channel[s] # <<>> /\ channel' = [channel EXCEPT ![s] = Tail(@)]
      BY <2>2 DEF ReaderTo
    <3> QED
      BY <1>2, <3>1, <3>2, KeptByRead
  <2>3. CASE UNCHANGED <<channel, reading>>
    <3>1. UNCHANGED records /\ healthy' = healthy
      BY <1>2, <2>3 DEF ReadFrame, records, fixed, nearEnd, rankVars, streamVars, mergedVars
    <3> QED
      BY <3>1, RanksIdle
  <2> QED
    BY <1>2, <2>1, <2>2, <2>3 DEF ReadFrame
<1>3. CASE Retain(s)
  <2>0. HasReceived(s)
    BY <1>3, Received
  <2>1. CASE streamStopped /\ UNCHANGED mergedVars
    BY <2>0, <2>1, KeptByLetGo DEF mergedVars
  <2>2. CASE mergedDropped' = mergedDropped + 1 /\ UNCHANGED <<merged, mergedBytes, nextIndex>>
    BY <2>0, <2>2, KeptByLetGo
  <2>3. CASE \E n : TakesIn(s, n)
    BY <2>0, <2>3, KeptByRetained
  <2>4. Indices = [k \in DOMAIN merged |-> merged[k].index]
    BY DEF Indices
  <2> QED
    BY <1>3, <2>1, <2>2, <2>3, <2>4 DEF Retain, TakesIn
<1> QED
  BY <1>1, <1>2, <1>3 DEF ReaderStep

\* Every step.
LEMMA StepKeeps == Inv /\ Next => Kept
<1> SUFFICES ASSUME Inv, Next PROVE Kept
  OBVIOUS
<1>1. CASE OwnerStops
  <2>1. UNCHANGED records /\ healthy' = healthy
    BY <1>1 DEF OwnerStops, records, fixed, nearEnd, rankVars, mergedVars
  <2> QED
    BY <2>1, RanksIdle
<1> QED
  BY <1>1, KeptByPublish, SolverKeeps, WorkerKeeps, ReaderKeeps, KeptByReceive DEF Next

\* The invariant is inductive.
LEMMA InvStays == Inv /\ [Next]_vars => Inv'
<1>1. ASSUME Inv, Next PROVE Inv'
  <2>1. TypeOK /\ \A s \in Sources : Consistent(s) /\ Alternating(s)
    BY <1>1 DEF Inv, Each
  <2>2. Labels'
    BY <1>1, <2>1, LabelsStay
  <2>3. \A q \in Sources : Consistent(q)'
    BY <1>1, <2>1, ConsistentStays
  <2>4. \A q \in Sources : Alternating(q)'
    BY <1>1, <2>1, AlternatingStays
  <2>5. Kept
    BY <1>1, StepKeeps
  <2> QED
    BY <2>2, <2>3, <2>4, <2>5 DEF Inv, TypeOK, Each, Kept
<1>2. ASSUME Inv, UNCHANGED vars PROVE Inv'
  <2>1. UNCHANGED records /\ UNCHANGED <<kind, policy, solver, closed, healthy, worker, shut, reader, streamStopped>>
    BY <1>2 DEF vars, fixed, rankVars, streamVars, mergedVars, records
  <2>2. Kept
    <3>1. Quiet' => Quiet
      BY <2>1 DEF Quiet, Observed
    <3> QED
      BY <1>2, <2>1, <3>1, Idle
  <2>3. Labels'
    BY <1>2, <2>1 DEF Inv, TypeOK, Labels
  <2>4. ASSUME NEW q \in Sources PROVE Consistent(q)' /\ Alternating(q)'
    <3>1. Consistent(q) /\ Alternating(q)
      BY <1>2 DEF Inv, Each
    <3>2. Consistent(q)'
      BY <2>1, <3>1 DEF Consistent, records
    <3>3. Alternating(q)'
      BY <2>1, <3>1 DEF Alternating, records
    <3> QED
      BY <3>2, <3>3
  <2> QED
    BY <2>2, <2>3, <2>4 DEF Inv, TypeOK, Each, Kept
<1> QED
  BY <1>1, <1>2

\* No record is anywhere yet.
LEMMA InitStations ==
    ASSUME NEW X, X = <<<<>>, <<>>, <<>>, << 0 >>, <<>>, << 0 >>, <<>>>> PROVE InOrder(X, 0) /\ Present(X) = {}
<1>1. X[1] = <<>> /\ X[2] = <<>> /\ X[3] = <<>> /\ X[4] = << 0 >> /\ X[5] = <<>> /\ X[6] = << 0 >> /\ X[7] = <<>>
  OBVIOUS
<1>2. << 0 >> \in Seq(Nat) /\ Increasing(<< 0 >>) /\ Records(<< 0 >>) = {}
  <2>1. 0 \in Nat /\ {0} \ {0} = {}
    OBVIOUS
  <2> QED
    BY <2>1, OneRecord
<1>3. \A m \in Stations : X[m] \in Seq(Nat) /\ Increasing(X[m]) /\ Records(X[m]) = {}
  BY <1>1, <1>2, NoRecord, StationsAre
<1> QED
  BY <1>3 DEF InOrder, Present, Below

\* It holds at first.
LEMMA InvInit == Init => Inv
<1> SUFFICES ASSUME Init PROVE Inv
  OBVIOUS
<1>1. TypeOK
  <2>1. Labels
    BY DEF Init, Labels
  <2>2. AtRanks
    BY DEF Init, AtRanks
  <2>3. AtStream
    BY DEF Init, AtStream
  <2> QED
    BY <2>1, <2>2, <2>3 DEF TypeOK
<1>2. ASSUME NEW s \in Sources PROVE Consistent(s) /\ Alternating(s) /\ FileCounted(s) /\ Within(buffer[s], bytes[s])
  <2>1. Consistent(s)
    BY DEF Init, Consistent
  <2>2. Alternating(s)
    <3>1. channel[s] = <<>> /\ Len(channel[s]) = 0 /\ reader[s] # "frame" /\ worker[s] # "frame"
      BY DEF Init
    <3> QED
      BY <3>1 DEF Alternating
  <2>3. FileCounted(s)
    <3>1. Len(buffer[s]) = 0 /\ Len(file[s]) = 0 /\ made[s] = 0 /\ dropped[s] = 0 /\ held[s] = 0
      BY DEF Init
    <3> QED
      BY <3>1 DEF FileCounted
  <2>4. Within(buffer[s], bytes[s])
    <3>1. buffer[s] = <<>> /\ bytes[s] = 0
      BY DEF Init
    <3> QED
      BY <3>1, SizeOfNone, RetentionAssumption DEF Within
  <2> QED
    BY <2>1, <2>2, <2>3, <2>4
<1>3. merged = <<>> /\ mergedBytes = 0 /\ mergedDropped = 0 /\ nextIndex = 0 /\ latest = 0
  BY DEF Init
<1>4. Within(Indices, mergedBytes) /\ MergedInOrder
  <2>1. Indices = <<>>
    BY <1>3 DEF Indices
  <2>2. Within(Indices, mergedBytes)
    BY <1>3, <2>1, SizeOfNone, RetentionAssumption DEF Within
  <2> QED
    BY <1>3, <2>2 DEF MergedInOrder
<1>5. ASSUME NEW s \in Sources PROVE InOrder(Station(s), made[s]) /\ Present(Station(s)) = {} /\ made[s] = 0 /\ dropped[s] = 0
  <2>1. Merged(s) = <<>> /\ Frames(s) = <<>>
    BY DEF Init, Merged, Frames
  <2>2. Station(s) = <<<<>>, <<>>, <<>>, << 0 >>, <<>>, << 0 >>, <<>>>>
    BY <2>1 DEF Init, Station
  <2>3. made[s] = 0 /\ dropped[s] = 0
    BY DEF Init
  <2> QED
    BY <2>2, <2>3, InitStations
<1>6. Ledger
  <2>1. Absent(made, Here) = {} /\ Absent(dropped, None) = {}
    BY <1>5 DEF Absent
  <2>2. Balanced
    BY <1>3, <2>1, FS_EmptySet DEF Balanced
  <2> QED
    BY <1>1, <1>5, <2>2, LedgerIs DEF TypeOK, Placed
<1> QED
  BY <1>1, <1>2, <1>4, <1>5, <1>6 DEF Inv, Each

\* It holds of every behaviour.
THEOREM Invariance == Spec => []Inv
BY InvInit, InvStays, PTL DEF Spec

\* observation.cpp, observation_stream.cpp: on the way of a source, through buffer, worker,
\* channel, reader and merged stream, no record is repeated or overtaken, for any number of
\* sources, any sizes and limits, whatever is dropped, fails or is stopped; and the stream
\* hands out its indices in order.
THEOREM OrderIsKept == Spec => []OrderKept
<1>1. Inv => OrderKept
  <2> SUFFICES ASSUME Inv PROVE OrderKept
    OBVIOUS
  <2>1. ASSUME NEW s \in Sources PROVE Increasing(Trail(s))
    <3> DEFINE X == Station(s)
    <3>1. X[1] \o X[2] \o X[3] \o X[4] \o X[5] \o X[6] \o X[7] = Trail(s)
      BY DEF Station, Trail
    <3>2. InOrder(X, made[s])
      BY DEF Inv, Each
    <3> HIDE DEF X
    <3> QED
      BY <3>1, <3>2, TrailIs
  <2>2. MergedInOrder /\ merged \in Seq(Entry)
    BY DEF Inv, TypeOK, AtStream
  <2>3. merged # <<>> => 1 \in DOMAIN merged /\ Len(merged) \in DOMAIN merged
    BY <2>2
  <2> QED
    BY <2>1, <2>2, <2>3 DEF OrderKept, MergedInOrder
<1> QED
  BY <1>1, Invariance, PTL

\* ObservationBuffer and retain: neither a buffer nor the merged stream ever exceeds max_records
\* or max_bytes, and the byte counters are those of what is there.
THEOREM RetentionIsBounded == Spec => []RetentionBounded
<1>1. Inv => RetentionBounded
  BY DEF Inv, Each, Within, Indices, RetentionBounded
<1> QED
  BY <1>1, Invariance, PTL

\* Before anything fails or is stopped, the records that are nowhere any more are exactly as
\* many as were counted dropped by their ranks and the stream; and a file that was closed
\* without failure lacks exactly the dropped ones.
THEOREM RecordsAreAccounted == Spec => []RecordsAccounted
<1>1. Inv => RecordsAccounted
  <2> SUFFICES ASSUME Inv PROVE RecordsAccounted
    OBVIOUS
  <2>1. ASSUME NEW s \in Sources, kind[s] = "file", solver[s] = "stopped", healthy[s]
        PROVE  Len(file[s]) = made[s] - dropped[s]
    <3>1. worker[s] = "done" /\ buffer[s] = <<>> /\ held[s] = 0
      BY <2>1 DEF Inv, Each, Consistent
    <3>2. made[s] = dropped[s] + Len(file[s]) + Len(buffer[s]) + (IF held[s] = 0 THEN 0 ELSE 1)
      BY <2>1 DEF Inv, Each, FileCounted
    <3>3. made[s] \in Nat /\ dropped[s] \in Nat /\ Len(file[s]) \in Nat /\ Len(buffer[s]) = 0
      BY <3>1 DEF Inv, TypeOK, AtRanks
    <3> QED
      BY <3>1, <3>2, <3>3
  <2> QED
    BY <2>1 DEF Inv, Ledger, Quiet, Lost, Counted, RecordsAccounted
<1> QED
  BY <1>1, Invariance, PTL
=============================================================================
