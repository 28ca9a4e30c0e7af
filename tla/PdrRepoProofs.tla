--------------------------- MODULE PdrRepoProofs ---------------------------
(***************************************************************************)
(* Proofs about the PDR repository of PdrRepo, and about the names in an   *)
(* Entity Auxiliary Names PDR of AuxNames.                                 *)
(*                                                                         *)
(* Every function that changes the list adds one record, drops some,       *)
(* exchanges one, or keeps some and numbers them anew.  The four kinds of  *)
(* step are defined here, each action is shown to be of one kind, and each *)
(* kind to preserve the invariant and to do what the properties say.       *)
(*                                                                         *)
(* The names of a record are gone through three times, twice in the record *)
(* and once in the memory they were packed into.  That the third time ends *)
(* every string where the others did is shown string by string, from what  *)
(* an end is: the first terminator behind the beginning.                   *)
(***************************************************************************)
EXTENDS PdrRepo, AuxNames, Induction, SequenceTheorems, FiniteSetTheorems, TLAPS

\* A record as the functions of pdr.c leave it.
Sound(r) ==
    /\ r \in RecordType
    /\ r.hdr_handle \in {r.record_handle, 0}
    /\ r.type = "ENTITY_ASSOCIATION" => r.id = 0
    /\ r.type # "ENTITY_ASSOCIATION" => r.children = <<>>

\* The bytes of the records in the list.
ListBytes(recs) == TotalSize(recs, 1 .. Len(recs))

\* The totals cover the list: a removal that loses records between lowers them by
\* less than it takes out, never by more.  record_count bounds the numbers that are
\* given anew.
IInv ==
    /\ records \in Seq(RecordType)
    /\ \A i \in 1 .. Len(records) : Sound(records[i])
    /\ record_count \in 0 .. MaxRecords
    /\ record_count >= Len(records)
    /\ size \in Int
    /\ size >= ListBytes(records)

\* t is s with e after the first p, or without a, ..., i.
IsInserted(t, s, p, e) ==
    /\ Len(t) = Len(s) + 1
    /\ \A k \in 1 .. p : t[k] = s[k]
    /\ t[p + 1] = e
    /\ \A k \in (p + 1) .. Len(s) : t[k + 1] = s[k]

IsCut(t, s, a, i) ==
    /\ Len(t) = Len(s) - (i - a + 1)
    /\ \A k \in 1 .. (a - 1) : t[k] = s[k]
    /\ \A k \in a .. Len(t) : t[k] = s[k + (i - a + 1)]

\* A record r is put after the first p: at the end, or by create_new.
Adds(p, r) ==
    /\ p \in 0 .. Len(records)
    /\ \/ p = Len(records)
       \/ \E entity \in Entities, any \in TerminusHandles :
             CreateNew(r.record_handle - 1, entity, any)
    /\ Sound(r)
    /\ ~Lists(r, Unknown)
    /\ records' \in Seq(RecordType)
    /\ IsInserted(records', records, p, r)
    /\ record_count < MaxRecords
    /\ record_count' = record_count + 1
    /\ size' = size + RecordSize(r)

\* Record i is taken out, and with it those from first on, where first is the
\* earliest of its handle.
Drops(first, i) ==
    /\ i \in 1 .. Len(records)
    /\ first \in 1 .. i
    /\ records[first].record_handle = records[i].record_handle
    /\ records' \in Seq(RecordType)
    /\ IsCut(records', records, first, i)
    /\ record_count' = record_count - 1
    /\ size' = size - RecordSize(records[i])

\* Record i becomes r, which is the same but for validity, entities and terminus.
\* Nobody wrote an entity of r only where that was so before, or one was listed twice.
Exchanges(i, r) ==
    /\ i \in 1 .. Len(records)
    /\ Sound(r)
    /\ SameRecord(records[i], r)
    /\ Lists(r, Unknown) => Lists(records[i], Unknown) \/ ListsTwice(records[i])
    /\ records' \in Seq(RecordType)
    /\ Len(records') = Len(records)
    /\ records'[i] = r
    /\ \A k \in 1 .. Len(records) : k # i => records'[k] = records[k]
    /\ record_count' = record_count
    /\ size' = (size - RecordSize(records[i])) + RecordSize(r)

\* Some records stay, with new handles, and the totals are lower by the others.
Renumbers ==
    /\ records' \in Seq(RecordType)
    /\ \A k \in 1 .. Len(records') : \E i \in 1 .. Len(records) :
          records'[k] = [records[i] EXCEPT !.record_handle = k, !.hdr_handle = k]
    /\ Len(records') <= Len(records)
    /\ record_count' = record_count - (Len(records) - Len(records'))
    /\ size' = size - (ListBytes(records) - ListBytes(records'))

-----------------------------------------------------------------------------
(* Sequences *)

Cut(s, a, i) == SubSeq(s, 1, a - 1) \o SubSeq(s, i + 1, Len(s))

Insert(s, p, e) == SubSeq(s, 1, p) \o <<e>> \o SubSeq(s, p + 1, Len(s))

\* What is left when the elements from f to i are cut out of a sequence
\* (remove_record).
LEMMA CutFacts ==
    ASSUME NEW S, NEW s \in Seq(S), NEW i \in 1 .. Len(s), NEW f \in 1 .. i
    PROVE  Cut(s, f, i) \in Seq(S) /\ IsCut(Cut(s, f, i), s, f, i)
<1> DEFINE a == SubSeq(s, 1, f - 1)
           b == SubSeq(s, i + 1, Len(s))
           t == Cut(s, f, i)
           d == i - f + 1
<1>1. t = a \o b
  BY DEF Cut
<1>2. Len(s) \in Nat /\ \A k \in 1 .. Len(s) : s[k] \in S
  BY LenProperties, ElementOfSeq
<1>3. /\ a \in Seq(S)
      /\ Len(a) = f - 1
      /\ \A k \in 1 .. (f - 1) : a[k] = s[k]
  <2>1. \A k \in 1 .. (f - 1) : s[k] \in S
    BY <1>2
  <2> QED BY <2>1, <1>2, SubSeqProperties
<1>4. /\ b \in Seq(S)
      /\ Len(b) = Len(s) - i
      /\ \A k \in 1 .. (Len(s) - i) : b[k] = s[i + k]
  <2>1. \A k \in (i + 1) .. Len(s) : s[k] \in S
    BY <1>2
  <2> QED BY <2>1, <1>2, SubSeqProperties
<1> HIDE DEF a, b, t
<1>5. /\ t \in Seq(S)
      /\ Len(t) = Len(a) + Len(b)
      /\ \A k \in 1 .. (Len(a) + Len(b)) :
            t[k] = IF k <= Len(a) THEN a[k] ELSE b[k - Len(a)]
  <2>1. /\ a \o b \in Seq(S)
        /\ Len(a \o b) = Len(a) + Len(b)
        /\ \A k \in 1 .. (Len(a) + Len(b)) :
              (a \o b)[k] = IF k <= Len(a) THEN a[k] ELSE b[k - Len(a)]
    BY <1>3, <1>4, ConcatProperties, ZenonT(30)
  <2> QED BY <1>1, <2>1, Zenon
<1>6. \A k \in 1 .. (f - 1) : t[k] = s[k]
  <2> TAKE k \in 1 .. (f - 1)
  <2>1. k \in 1 .. (Len(a) + Len(b)) /\ k <= Len(a)
    BY <1>2, <1>3, <1>4
  <2>2. t[k] = a[k]
    BY <2>1, <1>5, Zenon
  <2> QED BY <2>2, <1>3
<1>7. Len(t) = Len(s) - d
  BY <1>2, <1>3, <1>4, <1>5
<1>8. \A k \in f .. Len(t) : t[k] = s[k + d]
  <2> TAKE k \in f .. Len(t)
  <2>1. k - (f - 1) \in 1 .. (Len(s) - i) /\ i + (k - (f - 1)) = k + d
    BY <1>2, <1>7
  <2>2. k \in 1 .. (Len(a) + Len(b)) /\ ~(k <= Len(a)) /\ k - Len(a) = k - (f - 1)
    BY <1>2, <1>3, <1>4, <1>5
  <2>3. t[k] = b[k - (f - 1)]
    BY <2>2, <1>5, Zenon
  <2> QED BY <2>1, <2>3, <1>4, ZenonT(30)
<1> QED BY <1>5, <1>6, <1>7, <1>8, ZenonT(30) DEF IsCut, t

\* What an insertion after the first p elements makes (insert_record).
LEMMA InsertFacts ==
    ASSUME NEW S, NEW s \in Seq(S), NEW p \in 1 .. Len(s), NEW e \in S
    PROVE  Insert(s, p, e) \in Seq(S) /\ IsInserted(Insert(s, p, e), s, p, e)
<1> DEFINE a == SubSeq(s, 1, p)
           b == SubSeq(s, p + 1, Len(s))
           c == a \o <<e>>
<1>0. Insert(s, p, e) = c \o b
  BY DEF Insert
<1>1. Len(s) \in Nat /\ \A k \in 1 .. Len(s) : s[k] \in S
  BY LenProperties, ElementOfSeq
<1>2. /\ a \in Seq(S)
      /\ Len(a) = p
      /\ \A k \in 1 .. p : a[k] = s[k]
  <2>1. \A k \in 1 .. p : s[k] \in S
    BY <1>1
  <2> QED BY <2>1, <1>1, SubSeqProperties
<1>3. /\ b \in Seq(S)
      /\ Len(b) = Len(s) - p
      /\ \A k \in 1 .. (Len(s) - p) : b[k] = s[p + k]
  <2>1. \A k \in (p + 1) .. Len(s) : s[k] \in S
    BY <1>1
  <2> QED BY <2>1, <1>1, SubSeqProperties
<1> HIDE DEF a, b
<1>4. /\ c \in Seq(S)
      /\ Len(c) = p + 1
      /\ \A k \in 1 .. p : c[k] = s[k]
      /\ c[p + 1] = e
  <2>1. c = Append(a, e)
    BY <1>2, AppendIsConcat
  <2> QED BY <2>1, <1>2, AppendProperties
<1> HIDE DEF c
<1>5. /\ Insert(s, p, e) \in Seq(S)
      /\ Len(Insert(s, p, e)) = Len(c) + Len(b)
      /\ \A k \in 1 .. (Len(c) + Len(b)) :
            Insert(s, p, e)[k] = IF k <= Len(c) THEN c[k] ELSE b[k - Len(c)]
  <2>1. /\ c \o b \in Seq(S)
        /\ Len(c \o b) = Len(c) + Len(b)
        /\ \A k \in 1 .. (Len(c) + Len(b)) :
              (c \o b)[k] = IF k <= Len(c) THEN c[k] ELSE b[k - Len(c)]
    BY <1>3, <1>4, ConcatProperties, ZenonT(30)
  <2> QED BY <1>0, <2>1, Zenon
<1>6. \A k \in 1 .. (p + 1) : Insert(s, p, e)[k] = c[k]
  <2> TAKE k \in 1 .. (p + 1)
  <2>1. k \in 1 .. (Len(c) + Len(b)) /\ k <= Len(c)
    BY <1>1, <1>3, <1>4
  <2> QED BY <2>1, <1>5, Zenon
<1>7. \A k \in (p + 1) .. Len(s) : Insert(s, p, e)[k + 1] = s[k]
  <2> TAKE k \in (p + 1) .. Len(s)
  <2>1. k - p \in 1 .. (Len(s) - p) /\ p + (k - p) = k
    BY <1>1
  <2>2. /\ k + 1 \in 1 .. (Len(c) + Len(b))
        /\ ~(k + 1 <= Len(c))
        /\ (k + 1) - Len(c) = k - p
    BY <1>1, <1>3, <1>4
  <2>3. Insert(s, p, e)[k + 1] = b[k - p]
    BY <2>2, <1>5, Zenon
  <2> QED BY <2>1, <2>3, <1>3
<1>8. Len(Insert(s, p, e)) = Len(s) + 1
  BY <1>1, <1>3, <1>4, <1>5
<1>9. (\A k \in 1 .. p : Insert(s, p, e)[k] = s[k]) /\ Insert(s, p, e)[p + 1] = e
  BY <1>1, <1>4, <1>6
<1> QED BY <1>5, <1>7, <1>8, <1>9 DEF IsInserted

-----------------------------------------------------------------------------
(* Sizes *)

\* A record has some number of bytes.
LEMMA SizeNat ==
    ASSUME NEW r \in RecordType
    PROVE  RecordSize(r) \in Nat
<1>1. Len(r.children) \in Nat
  BY LenProperties DEF RecordType, ChildType
<1> QED
  BY <1>1 DEF RecordSize

Sizes(s) == [i \in DOMAIN s |-> RecordSize(s[i])]

\* The size of a list is a sum of natural numbers.
LEMMA TotalSizeIs ==
    ASSUME NEW s \in Seq(RecordType), NEW I \in SUBSET (1 .. Len(s))
    PROVE  /\ TotalSize(s, I) = SumFunctionOnSet(Sizes(s), I)
           /\ IsFiniteSet(I)
           /\ \A i \in 1 .. Len(s) : Sizes(s)[i] = RecordSize(s[i]) /\ Sizes(s)[i] \in Nat
           /\ TotalSize(s, I) \in Nat
<1>1. TotalSize(s, I) = SumFunctionOnSet(Sizes(s), I)
  BY DEF TotalSize, Sizes
<1>2. Len(s) \in Nat /\ DOMAIN s = 1 .. Len(s) /\ \A i \in 1 .. Len(s) : s[i] \in RecordType
  BY LenProperties, ElementOfSeq
<1>3. IsFiniteSet(I)
  <2>1. IsFiniteSet(1 .. Len(s))
    BY <1>2, FS_Interval
  <2> QED
    BY <2>1, FS_Subset, ZenonT(30)
<1>4. \A i \in 1 .. Len(s) : Sizes(s)[i] = RecordSize(s[i]) /\ Sizes(s)[i] \in Nat
  BY <1>2, SizeNat DEF Sizes
<1>5. SumFunctionOnSet(Sizes(s), I) \in Nat
  BY <1>3, <1>4, SumType, ZenonT(30)
<1> QED
  BY <1>1, <1>3, <1>4, <1>5

\* A list is longer by the record that is inserted.
LEMMA InsertedTotal ==
    ASSUME NEW s \in Seq(RecordType), NEW t \in Seq(RecordType), NEW e,
           NEW p \in 0 .. Len(s), IsInserted(t, s, p, e)
    PROVE  TotalSize(t, 1 .. Len(t)) = TotalSize(s, 1 .. Len(s)) + RecordSize(e)
<1> DEFINE n == Len(s)
           I == 1 .. (n + 1)
           J == 1 .. n
           b == Sizes(s)
           c == Sizes(t)
           at == [k \in J |-> IF k <= p THEN k ELSE k + 1]
<1>1. n \in Nat /\ Len(t) = n + 1 /\ p \in 0 .. n
  BY LenProperties DEF IsInserted
<1>2. /\ TotalSize(t, I) = SumFunctionOnSet(c, I) /\ IsFiniteSet(I)
      /\ \A i \in I : c[i] = RecordSize(t[i]) /\ c[i] \in Nat
  BY <1>1, TotalSizeIs
<1>3. /\ TotalSize(s, J) = SumFunctionOnSet(b, J) /\ IsFiniteSet(J)
      /\ TotalSize(s, J) \in Nat
      /\ \A i \in J : b[i] = RecordSize(s[i]) /\ b[i] \in Nat
  BY TotalSizeIs
<1> HIDE DEF n, b, c
<1>4. \A k \in J : t[at[k]] = s[k] /\ at[k] \in I
  BY <1>1 DEF IsInserted, n
<1>5. \A k \in J : b[k] = c[at[k]]
  BY <1>2, <1>3, <1>4
<1>6. \A x, y \in J : at[x] = at[y] => x = y
  BY <1>1
<1>7. {at[k] : k \in J} = I \ {p + 1}
  <2>1. \A k \in J : at[k] \in I \ {p + 1}
    BY <1>1
  <2>2. ASSUME NEW i \in I \ {p + 1} PROVE \E k \in J : at[k] = i
    <3>1. CASE i <= p
      BY <1>1, <3>1
    <3>2. CASE i > p
      <4>1. i - 1 \in J /\ ~(i - 1 <= p)
        BY <1>1, <3>2
      <4>2. at[i - 1] = i
        BY <1>1, <4>1
      <4> QED
        BY <4>1, <4>2
    <3> QED
      BY <1>1, <3>1, <3>2
  <2> HIDE DEF at, I, J
  <2> QED
    BY <2>1, <2>2
<1> HIDE DEF at
<1>8. SumFunctionOnSet(b, J) = SumFunctionOnSet(c, I \ {p + 1})
  <2> HIDE DEF J
  <2>1. Renumbering(b, J, at, c, I \ {p + 1})
    BY <1>3, <1>5, <1>6, <1>7 DEF Renumbering
  <2> QED
    BY <1>3, <2>1, SumReindex
<1>9. p + 1 \in I
  BY <1>1
<1>10. SumFunctionOnSet(c, I) = c[p + 1] + SumFunctionOnSet(c, I \ {p + 1})
  <2> HIDE DEF I
  <2> QED
    BY <1>2, <1>9, SumRemove
<1>11. c[p + 1] = RecordSize(e) /\ c[p + 1] \in Nat
  BY <1>2, <1>9 DEF IsInserted
<1>12. TotalSize(t, I) = RecordSize(e) + TotalSize(s, J)
  BY <1>2, <1>3, <1>8, <1>10, <1>11
<1> QED
  BY <1>1, <1>3, <1>11, <1>12 DEF n

\* A list with a record exchanged differs by the sizes of the two.
LEMMA ExchangedTotal ==
    ASSUME NEW s \in Seq(RecordType), NEW t \in Seq(RecordType),
           NEW i \in 1 .. Len(s), Len(t) = Len(s),
           \A k \in 1 .. Len(s) : k # i => t[k] = s[k]
    PROVE  TotalSize(t, 1 .. Len(t)) =
               (TotalSize(s, 1 .. Len(s)) - RecordSize(s[i])) + RecordSize(t[i])
<1> DEFINE I == 1 .. Len(s)
           R == I \ {i}
           b == Sizes(s)
           c == Sizes(t)
<1>1. /\ TotalSize(s, I) = SumFunctionOnSet(b, I) /\ IsFiniteSet(I)
      /\ \A k \in I : b[k] = RecordSize(s[k]) /\ b[k] \in Nat
  BY TotalSizeIs, ZenonT(30)
<1>2. /\ TotalSize(t, I) = SumFunctionOnSet(c, I)
      /\ \A k \in I : c[k] = RecordSize(t[k]) /\ c[k] \in Nat
  BY TotalSizeIs
<1> HIDE DEF I, b, c
<1>3. R \in SUBSET I /\ IsFiniteSet(R) /\ i \in I
  BY <1>1, FS_Subset DEF I
<1>4. \A k \in R : b[k] \in Nat /\ c[k] = b[k]
  BY <1>1, <1>2 DEF I
<1>5. /\ SumFunctionOnSet(b, I) = b[i] + SumFunctionOnSet(b, R)
      /\ SumFunctionOnSet(c, I) = c[i] + SumFunctionOnSet(c, R)
  BY <1>1, <1>2, <1>3, SumRemove, ZenonT(30)
<1>6. SumFunctionOnSet(c, R) = SumFunctionOnSet(b, R) /\ SumFunctionOnSet(b, R) \in Nat
  <2> HIDE DEF R
  <2> QED
    BY <1>3, <1>4, SumSame, SumType, ZenonT(30)
<1>7. b[i] = RecordSize(s[i]) /\ c[i] = RecordSize(t[i]) /\ b[i] \in Nat /\ c[i] \in Nat
  BY <1>1, <1>2, <1>3
<1>8. TotalSize(t, I) = (TotalSize(s, I) - RecordSize(s[i])) + RecordSize(t[i])
  <2> DEFINE x == SumFunctionOnSet(b, R)
  <2> HIDE DEF x
  <2>1. TotalSize(s, I) = b[i] + x /\ TotalSize(t, I) = c[i] + x /\ x \in Nat
    BY <1>1, <1>2, <1>5, <1>6 DEF x
  <2> QED
    BY <1>7, <2>1
<1> QED
  BY <1>8 DEF I

\* A list of which some records stay, with whatever handles, is shorter by the
\* others.
LEMMA KeptTotal ==
    ASSUME records \in Seq(RecordType), NEW removed \in SUBSET (1 .. Len(records)),
           NEW m \in Nat, NEW at \in [1 .. m -> 1 .. Len(records)], Kept(m, at, removed),
           NEW t \in Seq(RecordType), Len(t) = m,
           \A k \in 1 .. m : RecordSize(t[k]) = RecordSize(records[at[k]])
    PROVE  TotalSize(t, 1 .. m) =
               TotalSize(records, 1 .. Len(records)) - TotalSize(records, removed)
<1> DEFINE I == 1 .. Len(records)
           J == 1 .. m
           b == Sizes(records)
           c == Sizes(t)
<1>1. /\ TotalSize(records, I) = SumFunctionOnSet(b, I) /\ IsFiniteSet(I)
      /\ \A k \in I : b[k] = RecordSize(records[k]) /\ b[k] \in Nat
  BY TotalSizeIs, ZenonT(30)
<1>2. /\ TotalSize(records, removed) = SumFunctionOnSet(b, removed)
      /\ TotalSize(records, removed) \in Nat
  BY TotalSizeIs
<1>3. /\ TotalSize(t, J) = SumFunctionOnSet(c, J) /\ IsFiniteSet(J)
      /\ TotalSize(t, J) \in Nat
      /\ \A k \in J : c[k] = RecordSize(t[k]) /\ c[k] \in Nat
  BY TotalSizeIs, ZenonT(30)
<1> HIDE DEF b, c
<1>4. DOMAIN records = I
  BY LenProperties
<1>5. \A x, y \in J : at[x] = at[y] => x = y
  <2> SUFFICES ASSUME NEW x \in J, NEW y \in J, at[x] = at[y], x # y PROVE FALSE
    OBVIOUS
  <2>1. x < y \/ y < x
    OBVIOUS
  <2>2. at[x] < at[y] \/ at[y] < at[x]
    BY <2>1 DEF Kept
  <2>3. at[x] \in Int /\ at[y] \in Int
    BY LenProperties
  <2> QED
    BY <2>2, <2>3
<1>6. {at[k] : k \in J} = I \ removed
  <2>1. \A i \in I : i \notin removed <=> \E k \in J : at[k] = i
    BY <1>4, ZenonT(30) DEF Kept
  <2>2. \A k \in J : at[k] \in I
    OBVIOUS
  <2> HIDE DEF I, J
  <2> QED
    BY <2>1, <2>2
<1>7. \A k \in J : c[k] = b[at[k]]
  BY <1>1, <1>3
<1> HIDE DEF I, J
<1>8. SumFunctionOnSet(c, J) = SumFunctionOnSet(b, I \ removed)
  <2>1. Renumbering(c, J, at, b, I \ removed)
    BY <1>3, <1>5, <1>6, <1>7 DEF Renumbering
  <2> QED
    BY <1>3, <2>1, SumReindex
<1>9. SumFunctionOnSet(b, I) = SumFunctionOnSet(b, removed) + SumFunctionOnSet(b, I \ removed)
  BY <1>1, SumSplit, ZenonT(30) DEF I
<1>10. TotalSize(records, I) = TotalSize(records, removed) + TotalSize(t, J)
  BY <1>1, <1>2, <1>3, <1>8, <1>9
<1> QED
  BY <1>2, <1>3, <1>10 DEF I, J

\* Without the records from f to i a list is shorter by them, and so at least by i.
LEMMA CutTotal ==
    ASSUME records \in Seq(RecordType), NEW i \in 1 .. Len(records), NEW f \in 1 .. i,
           NEW t \in Seq(RecordType), IsCut(t, records, f, i)
    PROVE  /\ ListBytes(t) + RecordSize(records[i]) <= ListBytes(records)
           /\ f = i => ListBytes(t) + RecordSize(records[i]) = ListBytes(records)
<1> DEFINE n == Len(records)
           m == Len(t)
           d == i - f + 1
           removed == f .. i
           at == [k \in 1 .. m |-> IF k < f THEN k ELSE k + d]
           b == Sizes(records)
<1>1. /\ n \in Nat /\ m \in Nat /\ m = n - d /\ d \in Nat /\ d >= 1 /\ i <= n
      /\ f \in Nat /\ f >= 1 /\ i \in Nat /\ DOMAIN records = 1 .. n
  BY LenProperties DEF IsCut
<1>2. removed \in SUBSET (1 .. n) /\ i \in removed
  BY <1>1
<1>3. at \in [1 .. m -> 1 .. n]
  BY <1>1
<1>4. Kept(m, at, removed)
  <2>1. \A k, l \in 1 .. m : k < l => at[k] < at[l]
    BY <1>1
  <2>2. ASSUME NEW k \in 1 .. n PROVE k \notin removed <=> \E l \in 1 .. m : at[l] = k
    <3>1. ASSUME NEW l \in 1 .. m PROVE at[l] \notin removed
      BY <1>1, <3>1
    <3>2. CASE k < f
      BY <1>1, <3>2
    <3>3. CASE k > i
      <4>1. k - d \in 1 .. m /\ ~(k - d < f) /\ (k - d) + d = k
        BY <1>1, <3>3
      <4>2. at[k - d] = k
        BY <4>1
      <4>3. k \notin removed
        BY <1>1, <3>3
      <4> QED BY <4>1, <4>2, <4>3, ZenonT(30)
    <3>4. CASE k \in removed
      BY <3>1, <3>4
    <3> QED BY <1>1, <3>2, <3>3, <3>4
  <2> QED BY <1>1, <2>1, <2>2, ZenonT(30) DEF Kept
<1>5. \A k \in 1 .. m : t[k] = records[at[k]]
  BY <1>1 DEF IsCut
<1>6. TotalSize(t, 1 .. m) = TotalSize(records, 1 .. n) - TotalSize(records, removed)
  <2> HIDE DEF at, removed
  <2>1. \A k \in 1 .. m : RecordSize(t[k]) = RecordSize(records[at[k]])
    BY <1>5
  <2> QED BY <1>1, <1>2, <1>3, <1>4, <2>1, KeptTotal, ZenonT(30)
<1>7. /\ TotalSize(records, removed) = SumFunctionOnSet(b, removed)
      /\ IsFiniteSet(removed)
      /\ \A k \in 1 .. n : b[k] = RecordSize(records[k]) /\ b[k] \in Nat
  BY <1>2, TotalSizeIs, ZenonT(30)
<1> HIDE DEF b
<1>8. /\ SumFunctionOnSet(b, removed) = b[i] + SumFunctionOnSet(b, removed \ {i})
      /\ SumFunctionOnSet(b, removed \ {i}) \in Nat
  <2>1. IsFiniteSet(removed \ {i}) /\ \A k \in removed : b[k] \in Nat
    BY <1>2, <1>7, FS_Subset
  <2> HIDE DEF removed
  <2> QED BY <1>2, <1>7, <2>1, SumRemove, SumType, ZenonT(30)
<1>9. f = i => SumFunctionOnSet(b, removed \ {i}) = 0
  <2> SUFFICES ASSUME f = i PROVE removed \ {i} = {}
    BY SumEmpty
  <2> QED BY <1>1
<1>10. TotalSize(t, 1 .. m) \in Nat /\ TotalSize(records, 1 .. n) \in Nat
  BY TotalSizeIs
<1>11. b[i] = RecordSize(records[i]) /\ b[i] \in Nat
  BY <1>7
<1> DEFINE x == SumFunctionOnSet(b, removed \ {i})
<1> HIDE DEF x, n, m, removed
<1>12. /\ TotalSize(t, 1 .. m) = TotalSize(records, 1 .. n) - (RecordSize(records[i]) + x)
       /\ x \in Nat /\ RecordSize(records[i]) \in Nat
       /\ f = i => x = 0
  BY <1>6, <1>7, <1>8, <1>9, <1>11 DEF x
<1> QED BY <1>10, <1>12 DEF ListBytes, n, m

-----------------------------------------------------------------------------
(* What each kind of step does *)

\* The totals change by what the list does, if the handles are apart.
Accounted ==
    ~Clash => /\ record_count' - Len(records') = record_count - Len(records)
              /\ size' - ListBytes(records') = size - ListBytes(records)

\* The record q was there before, with the same entities or some that its
\* association makes unknown.
FromBefore(q) ==
    \E i \in DOMAIN records :
       /\ SameRecord(records[i], q)
       /\ Lists(q, Unknown) => \/ records[i].children = q.children
                               \/ Lists(records[i], Unknown)
                               \/ ListsTwice(records[i])

\* Entities that nobody wrote are explained by the list before.
Explained(q) ==
    Lists(q, Unknown) =>
       \E i \in DOMAIN records :
          \/ records[i].children = q.children
          \/ /\ records[i].record_handle = q.record_handle
             /\ ListsTwice(records[i]) \/ Lists(records[i], Unknown)

Known == \A j \in DOMAIN records' : Explained(records'[j])

Named ==
    \A handle \in Handles, j \in DOMAIN records' :
       /\ FirstWithHandle(j, handle)'
       /\ \E i \in DOMAIN records : records[i].record_handle = handle
       => \/ \E i \in DOMAIN records : SameRecord(records[i], records'[j])
          \/ \E entity \in Entities, any \in TerminusHandles :
                CreateNew(handle - 1, entity, any)

\* Such a record is explained.
LEMMA FromBeforeExplained == ASSUME NEW q, FromBefore(q) PROVE Explained(q)
BY DEF FromBefore, Explained, SameRecord

\* A list of which every record was there before.
LEMMA FromBeforeAll ==
    ASSUME \A j \in DOMAIN records' : FromBefore(records'[j])
    PROVE  Known /\ Named
<1>1. Known
  BY FromBeforeExplained, ZenonT(30) DEF Known
<1>2. Named
  BY ZenonT(30) DEF Named, FromBefore
<1> QED BY <1>1, <1>2

\* A record that is still there is one.
LEMMA SameFromBefore ==
    ASSUME NEW q, NEW i \in DOMAIN records, q = records[i]
    PROVE  FromBefore(q)
BY DEF FromBefore, SameRecord

\* The invariant, after a step.
LEMMA IInvNext ==
    ASSUME records' \in Seq(RecordType),
           \A i \in 1 .. Len(records') : Sound(records'[i]),
           record_count' \in 0 .. MaxRecords, record_count' >= Len(records'),
           size' \in Int, size' >= ListBytes(records')
    PROVE  IInv'
<1>1. (\A i \in 1 .. Len(records) : Sound(records[i]))'
  BY DEF Sound, RecordType, Handles, PlainTypes, ChildType
<1>2. (size >= ListBytes(records))'
  BY DEF ListBytes, TotalSize, RecordSize
<1> QED BY <1>1, <1>2 DEF IInv, RecordType, Handles, PlainTypes, ChildType

\* The numbers in the invariant.
LEMMA Numbers ==
    ASSUME IInv
    PROVE  /\ Len(records) \in Nat /\ DOMAIN records = 1 .. Len(records)
           /\ record_count \in Nat /\ Len(records) <= record_count
           /\ record_count <= MaxRecords /\ MaxRecords \in Nat
           /\ ListBytes(records) \in Nat /\ size \in Int /\ ListBytes(records) <= size
<1>1. ListBytes(records) \in Nat
  BY TotalSizeIs DEF IInv, ListBytes
<1> QED BY <1>1, LenProperties, PdrAssumption DEF IInv

\* Adding a record (pldm_pdr_add, pldm_pdr_insert_record).
LEMMA AddsKeeps ==
    ASSUME IInv, NEW p, NEW r, Adds(p, r)
    PROVE  IInv' /\ Accounted /\ Known /\ Named
<1> DEFINE n == Len(records)
<1>1. /\ n \in Nat /\ DOMAIN records = 1 .. n
      /\ DOMAIN records' = 1 .. Len(records')
      /\ p \in 0 .. n /\ Len(records') = n + 1
      /\ \A k \in 1 .. p : records'[k] = records[k]
      /\ records'[p + 1] = r
      /\ \A k \in (p + 1) .. n : records'[k + 1] = records[k]
  BY LenProperties DEF IInv, Adds, IsInserted
<1> HIDE DEF n
<1>2. ASSUME NEW j \in 1 .. (n + 1), j # p + 1
      PROVE  \E i \in 1 .. n : records'[j] = records[i]
  <2>1. CASE j <= p
    BY <2>1, <1>1
  <2>2. CASE j > p + 1
    <3>1. j - 1 \in (p + 1) .. n /\ (j - 1) + 1 = j /\ j - 1 \in 1 .. n
      BY <2>2, <1>1
    <3>2. records'[j] = records[j - 1]
      BY <1>1, <3>1
    <3> QED BY <3>1, <3>2
  <2> QED BY <2>1, <2>2, <1>1, <1>2
<1>3. \A j \in 1 .. Len(records') : Sound(records'[j])
  <2> TAKE j \in 1 .. Len(records')
  <2>1. CASE j = p + 1
    BY <1>1, <2>1 DEF Adds
  <2>2. CASE j # p + 1
    BY <1>1, <1>2, <2>2 DEF IInv, n
  <2> QED BY <2>1, <2>2
<1>4. /\ records \in Seq(RecordType) /\ records' \in Seq(RecordType)
      /\ IsInserted(records', records, p, r) /\ r \in RecordType
      /\ record_count' = record_count + 1 /\ size' = size + RecordSize(r)
      /\ record_count < MaxRecords
  BY DEF IInv, Adds, Sound
<1>5. ListBytes(records') = ListBytes(records) + RecordSize(r) /\ RecordSize(r) \in Nat
  BY <1>1, <1>4, InsertedTotal, SizeNat DEF ListBytes, n
<1>6. IInv' /\ Accounted
  <2>1. /\ n <= record_count /\ record_count \in Nat /\ MaxRecords \in Nat
        /\ ListBytes(records) \in Nat /\ size \in Int /\ ListBytes(records) <= size
    BY Numbers DEF n
  <2>2. /\ record_count' \in 0 .. MaxRecords /\ record_count' >= Len(records')
        /\ size' \in Int /\ size' >= ListBytes(records')
    BY <1>1, <1>4, <1>5, <2>1
  <2>3. /\ record_count' - Len(records') = record_count - n
        /\ size' - ListBytes(records') = size - ListBytes(records)
    BY <1>1, <1>4, <1>5, <2>1
  <2> QED BY <1>3, <1>4, <2>2, <2>3, IInvNext DEF Accounted, n
<1>7. \A j \in DOMAIN records' : j # p + 1 => FromBefore(records'[j])
  BY <1>1, <1>2, SameFromBefore
<1>8. Known
  <2> SUFFICES ASSUME NEW j \in DOMAIN records' PROVE Explained(records'[j])
    BY DEF Known
  <2>1. CASE j = p + 1
    BY <1>1, <2>1 DEF Explained, Adds
  <2>2. CASE j # p + 1
    BY <1>7, <2>2, FromBeforeExplained
  <2> QED BY <2>1, <2>2
<1>9. Named
  <2> SUFFICES ASSUME NEW handle \in Handles, NEW j \in DOMAIN records',
                      FirstWithHandle(j, handle)',
                      NEW i \in DOMAIN records, records[i].record_handle = handle
               PROVE  \/ \E k \in DOMAIN records : SameRecord(records[k], records'[j])
                      \/ \E entity \in Entities, any \in TerminusHandles :
                            CreateNew(handle - 1, entity, any)
    BY ZenonT(30) DEF Named
  <2>1. CASE j # p + 1
    BY <1>7, <2>1, ZenonT(30) DEF FromBefore
  <2>2. CASE j = p + 1
    <3>1. /\ records'[j].record_handle = handle
          /\ \A k \in 1 .. (j - 1) : records'[k].record_handle # handle
      BY DEF FirstWithHandle
    <3>2. p # n
      BY <1>1, <2>2, <3>1
    <3>3. \E entity \in Entities, any \in TerminusHandles :
             CreateNew(r.record_handle - 1, entity, any)
      BY <3>2 DEF Adds, n
    <3>4. r.record_handle = handle
      BY <1>1, <2>2, <3>1
    <3> QED BY <3>3, <3>4
  <2> QED BY <2>1, <2>2
<1> QED BY <1>6, <1>8, <1>9

\* Taking out one record (pldm_pdr_remove_record), with those before it back to the
\* first of its handle.
LEMMA DropsKeeps ==
    ASSUME IInv, NEW first, NEW i, Drops(first, i)
    PROVE  IInv' /\ Accounted /\ Known /\ Named
<1> DEFINE n == Len(records)
           m == Len(records')
           d == i - first + 1
<1>1. /\ n \in Nat /\ DOMAIN records = 1 .. n
      /\ m \in Nat /\ DOMAIN records' = 1 .. m
      /\ i \in 1 .. n /\ first \in 1 .. i /\ m = n - d /\ d \in Nat /\ d >= 1
      /\ \A k \in 1 .. (first - 1) : records'[k] = records[k]
      /\ \A k \in first .. m : records'[k] = records[k + d]
  BY LenProperties DEF IInv, Drops, IsCut
<1>2. /\ records \in Seq(RecordType) /\ records' \in Seq(RecordType)
      /\ IsCut(records', records, first, i) /\ i \in 1 .. Len(records)
      /\ first \in 1 .. i
      /\ record_count' = record_count - 1 /\ size' = size - RecordSize(records[i])
      /\ records[first].record_handle = records[i].record_handle
  BY DEF IInv, Drops
<1> HIDE DEF n, m, d
<1>3. ASSUME NEW j \in 1 .. m PROVE \E k \in 1 .. n : records'[j] = records[k]
  <2>1. CASE j < first
    BY <2>1, <1>1
  <2>2. CASE j >= first
    <3>1. j \in first .. m /\ j + d \in 1 .. n
      BY <2>2, <1>1
    <3> QED BY <1>1, <3>1
  <2> QED BY <2>1, <2>2, <1>1
<1>4. \A j \in 1 .. Len(records') : Sound(records'[j])
  BY <1>3 DEF IInv, n, m
<1>5. Known /\ Named
  BY <1>1, <1>3, SameFromBefore, FromBeforeAll
<1>6. ~Clash => first = i
  <2>1. first \in DOMAIN records /\ i \in DOMAIN records
    BY <1>1
  <2> QED BY <1>2, <2>1 DEF Clash
<1> DEFINE x == RecordSize(records[i])
<1>7. /\ ListBytes(records') + x <= ListBytes(records)
      /\ first = i => ListBytes(records') + x = ListBytes(records)
  BY <1>2, CutTotal
<1>8. x \in Nat /\ ListBytes(records') \in Nat
  <2>1. records[i] \in RecordType
    BY <1>2, ElementOfSeq
  <2> QED BY <1>2, <2>1, TotalSizeIs, SizeNat DEF ListBytes
<1> HIDE DEF x
<1>9. /\ n <= record_count /\ record_count \in Nat /\ MaxRecords \in Nat
      /\ record_count <= MaxRecords
      /\ ListBytes(records) \in Nat /\ size \in Int /\ ListBytes(records) <= size
  BY Numbers DEF n
<1>10. size' = size - x
  BY <1>2 DEF x
<1>11. IInv'
  <2>1. /\ record_count' \in 0 .. MaxRecords /\ record_count' >= m
        /\ size' \in Int /\ size' >= ListBytes(records')
    BY <1>1, <1>2, <1>7, <1>8, <1>9, <1>10
  <2> QED BY <1>2, <1>4, <2>1, IInvNext DEF m
<1>12. Accounted
  <2> SUFFICES ASSUME first = i
               PROVE  /\ record_count' - m = record_count - n
                      /\ size' - ListBytes(records') = size - ListBytes(records)
    BY <1>6 DEF Accounted, n, m
  <2>1. d = 1
    BY <1>1 DEF d
  <2> QED BY <1>1, <1>2, <1>7, <1>8, <1>9, <1>10, <2>1
<1> QED BY <1>5, <1>11, <1>12

\* Exchanging one record (pldm_pdr_replace_record, pldm_pdr_update_TL_pdr).
LEMMA ExchangesKeeps ==
    ASSUME IInv, NEW i, NEW r, Exchanges(i, r)
    PROVE  IInv' /\ Accounted /\ Known /\ Named
<1>1. /\ DOMAIN records = 1 .. Len(records) /\ i \in 1 .. Len(records)
      /\ DOMAIN records' = 1 .. Len(records') /\ Len(records') = Len(records)
      /\ records'[i] = r
      /\ \A k \in 1 .. Len(records) : k # i => records'[k] = records[k]
  BY LenProperties DEF IInv, Exchanges
<1>2. \A j \in 1 .. Len(records') : Sound(records'[j])
  <2> TAKE j \in 1 .. Len(records')
  <2>1. CASE j = i
    BY <2>1 DEF Exchanges
  <2>2. CASE j # i
    BY <2>2 DEF Exchanges, IInv
  <2> QED BY <2>1, <2>2
<1>3. Known /\ Named
  <2> SUFFICES ASSUME NEW j \in DOMAIN records' PROVE FromBefore(records'[j])
    BY FromBeforeAll, ZenonT(30)
  <2>1. CASE j = i
    BY <1>1, <2>1 DEF Exchanges, FromBefore
  <2>2. CASE j # i
    BY <1>1, <2>2, SameFromBefore
  <2> QED BY <2>1, <2>2
<1> DEFINE n == Len(records)
           x == RecordSize(records[i])
           y == RecordSize(r)
<1>4. /\ records \in Seq(RecordType) /\ records' \in Seq(RecordType)
      /\ record_count' = record_count /\ size' = (size - x) + y
  BY DEF IInv, Exchanges
<1>5. ListBytes(records') = (ListBytes(records) - x) + y
  BY <1>1, <1>4, ExchangedTotal DEF ListBytes
<1>6. x \in Nat /\ y \in Nat
  BY <1>1, <1>4, ElementOfSeq, SizeNat DEF Exchanges, Sound
<1>7. /\ n <= record_count /\ record_count \in 0 .. MaxRecords
      /\ ListBytes(records) \in Nat /\ size \in Int /\ ListBytes(records) <= size
  BY Numbers DEF IInv
<1> HIDE DEF x, y
<1>8. /\ record_count' \in 0 .. MaxRecords /\ record_count' >= Len(records')
      /\ size' \in Int /\ size' >= ListBytes(records')
  BY <1>1, <1>4, <1>5, <1>6, <1>7
<1>9. Accounted
  BY <1>1, <1>4, <1>5, <1>6, <1>7 DEF Accounted
<1>10. IInv'
  BY <1>2, <1>4, <1>8, IInvNext
<1> QED BY <1>3, <1>9, <1>10

\* Removing many and numbering the rest anew.
LEMMA RenumbersKeeps ==
    ASSUME IInv, Renumbers
    PROVE  IInv' /\ Accounted /\ Known
<1>1. ASSUME NEW k \in 1 .. Len(records')
      PROVE  /\ Sound(records'[k])
             /\ \E i \in 1 .. Len(records) : records'[k].children = records[i].children
  <2>1. PICK i \in 1 .. Len(records) :
           records'[k] = [records[i] EXCEPT !.record_handle = k, !.hdr_handle = k]
    BY ZenonT(30) DEF Renumbers
  <2>2. Sound(records[i])
    BY DEF IInv
  <2>3. records'[k] \in RecordType
    BY ElementOfSeq, ZenonT(30) DEF Renumbers
  <2>4. Sound(records'[k])
    BY <2>1, <2>2, <2>3 DEF Sound, RecordType
  <2>5. records'[k].children = records[i].children
    BY <2>1, <2>2 DEF Sound, RecordType
  <2> QED BY <2>4, <2>5
<1>2. /\ DOMAIN records' = 1 .. Len(records') /\ Len(records') \in Nat
      /\ DOMAIN records = 1 .. Len(records) /\ records' \in Seq(RecordType)
  BY LenProperties, ZenonT(30) DEF Renumbers, IInv
<1>3. Known
  <2> SUFFICES ASSUME NEW j \in DOMAIN records' PROVE Explained(records'[j])
    BY DEF Known
  <2> QED BY <1>1, <1>2, ZenonT(30) DEF Explained
<1>4. /\ Len(records) <= record_count /\ record_count \in Nat /\ Len(records) \in Nat
      /\ record_count <= MaxRecords /\ MaxRecords \in Nat
      /\ ListBytes(records) \in Nat /\ size \in Int /\ ListBytes(records) <= size
  BY Numbers
<1>5. /\ Len(records') <= Len(records)
      /\ record_count' = record_count - (Len(records) - Len(records'))
      /\ size' = size - (ListBytes(records) - ListBytes(records'))
  BY ZenonT(30) DEF Renumbers
<1>6. ListBytes(records') \in Nat
  BY <1>2, TotalSizeIs DEF ListBytes
<1>7. /\ record_count' \in 0 .. MaxRecords /\ record_count' >= Len(records')
      /\ size' \in Int /\ size' >= ListBytes(records')
  BY <1>2, <1>4, <1>5, <1>6
<1>8. Accounted
  BY <1>2, <1>4, <1>5, <1>6 DEF Accounted
<1>9. IInv'
  BY <1>1, <1>2, <1>7, IInvNext
<1> QED BY <1>3, <1>8, <1>9

-----------------------------------------------------------------------------
(* Which kind of step each action is *)

\* The records that additions make.
LEMMA NewRecordSound ==
    ASSUME NEW handle \in Handles, NEW header \in {handle, 0}, NEW remote \in {0, 1},
           NEW terminus \in TerminusHandles, NEW data,
           \/ data \in PlainData
           \/ \E e \in Entities : data = AssociationData(<<e>>)
    PROVE  /\ Sound(Record(handle, header, remote, terminus, data))
           /\ ~Lists(Record(handle, header, remote, terminus, data), Unknown)
<1> DEFINE r == Record(handle, header, remote, terminus, data)
<1>1. header \in 0 .. UINT32_MAX
  BY PdrAssumption DEF Handles
<1>2. CASE data \in PlainData
  <2>1. data.children = <<>> /\ <<>> \in Seq(Entities \cup {Unknown})
    BY <1>2, EmptySeq DEF PlainData
  <2>2. r \in RecordType
    BY <1>1, <1>2, <2>1 DEF Record, RecordType, PlainData, ChildType
  <2>3. r.children = <<>> /\ DOMAIN r.children = {}
    BY <2>1 DEF Record
  <2>4. r.type # "ENTITY_ASSOCIATION"
    BY <1>2 DEF PlainData, PlainTypes, Record
  <2> QED BY <2>2, <2>3, <2>4 DEF Sound, Record, Lists
<1>3. CASE \E e \in Entities : data = AssociationData(<<e>>)
  <2>1. PICK e \in Entities : data = AssociationData(<<e>>)
    BY <1>3
  <2>2. /\ r.children = <<e>>
        /\ <<e>> \in Seq(Entities \cup {Unknown})
        /\ \A k \in DOMAIN r.children : r.children[k] = e
    BY <2>1 DEF Record, AssociationData
  <2>3. r \in RecordType
    BY <1>1, <2>1, <2>2 DEF Record, RecordType, AssociationData, ChildType
  <2>4. r.id = 0 /\ r.hdr_handle = header /\ r.record_handle = handle
    BY <2>1 DEF Record, AssociationData
  <2>5. r.type = "ENTITY_ASSOCIATION"
    BY <2>1 DEF Record, AssociationData
  <2> QED BY <2>2, <2>3, <2>4, <2>5, PdrAssumption DEF Sound, Lists
<1> QED BY <1>2, <1>3

\* pldm_pdr_add puts a record at the end.
LEMMA PdrAddAdds ==
    ASSUME IInv, NEW handle \in Handles, NEW header \in {handle, 0},
           NEW terminus \in TerminusHandles, NEW data \in NewData,
           PdrAdd(handle, header, terminus, data)
    PROVE  \E p, r : Adds(p, r)
<1> DEFINE r == Record(handle, header, IsRemote(terminus), terminus, data)
<1>1. data \in PlainData \/ \E e \in Entities : data = AssociationData(<<e>>)
  BY DEF NewData
<1>2. IsRemote(terminus) \in {0, 1}
  BY DEF IsRemote
<1>3. Sound(r) /\ ~Lists(r, Unknown)
  BY <1>1, <1>2, NewRecordSound
<1>4. r \in RecordType
  BY <1>3 DEF Sound
<1>5. /\ records' = Append(records, r) /\ record_count' = record_count + 1
      /\ size' = size + RecordSize(r) /\ record_count < MaxRecords
  BY DEF PdrAdd, Becomes
<1> HIDE DEF r
<1>6. /\ records' \in Seq(RecordType)
      /\ Len(records') = Len(records) + 1
      /\ \A k \in 1 .. Len(records) : records'[k] = records[k]
      /\ records'[Len(records) + 1] = r
  BY <1>4, <1>5, AppendProperties DEF IInv
<1>7. Len(records) \in Nat
  BY LenProperties DEF IInv
<1>8. IsInserted(records', records, Len(records), r)
  BY <1>6, <1>7 DEF IsInserted
<1>9. Adds(Len(records), r)
  BY <1>3, <1>5, <1>6, <1>7, <1>8 DEF Adds
<1> QED BY <1>9

\* The handle computed follows one that is in use, or is 1.
LEMMA NextHandleInRange ==
    ASSUME IInv, NextHandle <= UINT32_MAX
    PROVE  NextHandle \in Handles
<1>1. CASE records = <<>>
  BY <1>1, PdrAssumption DEF NextHandle, Handles
<1>2. CASE records # <<>>
  <2>1. Len(records) \in Nat \ {0}
    BY <1>2, EmptySeq DEF IInv
  <2>2. records[Len(records)] \in RecordType
    BY <2>1, ElementOfSeq DEF IInv
  <2>3. records[Len(records)].record_handle \in Nat
    BY <2>2 DEF RecordType, Handles
  <2> QED BY <1>2, <2>3, PdrAssumption DEF NextHandle, Handles
<1> QED BY <1>1, <1>2

\* pldm_pdr_remove_record takes out the record it is given, and what is between it
\* and the record that precedes the first of its handle.
LEMMA RemoveRecordDrops ==
    ASSUME IInv, NEW i \in DOMAIN records, RemoveRecord(i)
    PROVE  \E first : Drops(first, i)
<1>1. PICK first \in DOMAIN records :
         /\ FirstWithHandle(first, records[i].record_handle)
         /\ records' = SubSeq(records, 1, first - 1) \o SubSeq(records, i + 1, Len(records))
         /\ record_count' = record_count - 1
         /\ size' = size - RecordSize(records[i])
  BY ZenonT(30) DEF RemoveRecord, PrevIndex, Becomes
<1>2. /\ records' = Cut(records, first, i) /\ record_count' = record_count - 1
      /\ size' = size - RecordSize(records[i])
      /\ records[first].record_handle = records[i].record_handle
  BY <1>1 DEF Cut, FirstWithHandle
<1>3. i \in 1 .. Len(records) /\ first \in 1 .. Len(records) /\ Len(records) \in Nat
  BY LenProperties DEF IInv
<1>4. first \in 1 .. i
  <2>1. \A j \in 1 .. (first - 1) : j # i
    BY <1>1 DEF FirstWithHandle
  <2> QED BY <1>3, <2>1
<1>5. /\ Cut(records, first, i) \in Seq(RecordType)
      /\ IsCut(Cut(records, first, i), records, first, i)
  BY <1>3, <1>4, CutFacts DEF IInv
<1>6. Drops(first, i)
  BY <1>2, <1>3, <1>4, <1>5 DEF Drops
<1> QED BY <1>6

\* The deletions by ID and by handle.
LEMMA DeleteDrops ==
    ASSUME IInv, NEW id, NEW remote,
           \/ DeleteBySensorId(id, remote)
           \/ DeleteByEffecterId(id, remote)
           \/ RemoveFruRecordSetByRsi(id, remote)
           \/ DeleteByRecordHandle(id, remote)
    PROVE  \E first, i : Drops(first, i)
<1>1. PICK i \in DOMAIN records : RemoveRecord(i)
  BY ZenonT(30) DEF DeleteBySensorId, DeleteByEffecterId, RemoveFruRecordSetByRsi,
         DeleteByRecordHandle, DeleteById
<1> QED BY <1>1, RemoveRecordDrops

\* An exchange at i, from the record that comes in.
LEMMA ExceptExchanges ==
    ASSUME IInv, NEW i \in DOMAIN records, NEW r, Sound(r), SameRecord(records[i], r),
           Lists(r, Unknown) => Lists(records[i], Unknown) \/ ListsTwice(records[i]),
           records' = [records EXCEPT ![i] = r], record_count' = record_count,
           size' = (size - RecordSize(records[i])) + RecordSize(r)
    PROVE  Exchanges(i, r)
<1>1. i \in 1 .. Len(records) /\ r \in RecordType
  BY LenProperties DEF IInv, Sound
<1>2. /\ records' \in Seq(RecordType)
      /\ Len(records') = Len(records)
      /\ \A j \in 1 .. Len(records) : records'[j] = IF j = i THEN r ELSE records[j]
  BY <1>1, ExceptSeq DEF IInv
<1> QED BY <1>1, <1>2 DEF Exchanges

\* pldm_pdr_update_TL_pdr writes the validity of one record.
LEMMA UpdateTLPdrExchanges ==
    ASSUME IInv, NEW id, NEW validity \in {0, 1}, UpdateTLPdr(id, validity)
    PROVE  \E i, r : Exchanges(i, r)
<1>1. PICK i \in DOMAIN records :
         /\ records[i].type = "TERMINUS_LOCATOR"
         /\ records' = [records EXCEPT ![i].validity = validity]
         /\ record_count' = record_count
         /\ size' = size
  BY ZenonT(30) DEF UpdateTLPdr, Becomes
<1> DEFINE r == [records[i] EXCEPT !.validity = validity]
<1>2. records' = [records EXCEPT ![i] = r]
  BY <1>1
<1>3. Sound(records[i]) /\ i \in 1 .. Len(records)
  BY LenProperties DEF IInv
<1>4. /\ r \in RecordType
      /\ r.record_handle = records[i].record_handle
      /\ r.hdr_handle = records[i].hdr_handle
      /\ r.is_remote = records[i].is_remote
      /\ r.type = records[i].type
      /\ r.id = records[i].id
      /\ r.children = records[i].children
  BY <1>3 DEF Sound, RecordType
<1> HIDE DEF r
<1>5. /\ Sound(r) /\ SameRecord(records[i], r)
      /\ Lists(r, Unknown) => Lists(records[i], Unknown)
  BY <1>3, <1>4 DEF Sound, SameRecord, Lists
<1>6. size' = (size - RecordSize(records[i])) + RecordSize(r)
  <2>1. RecordSize(records[i]) = 19 /\ RecordSize(r) = 19
    BY <1>1, <1>4 DEF RecordSize
  <2>2. size \in Int
    BY DEF IInv
  <2> QED BY <1>1, <2>1, <2>2
<1>7. Exchanges(i, r)
  BY <1>1, <1>2, <1>5, <1>6, ExceptExchanges, ZenonT(30)
<1> QED BY <1>7

\* The copy of an association with other entities.
LEMMA CopySound ==
    ASSUME NEW r, Sound(r), r.type = "ENTITY_ASSOCIATION",
           NEW children \in ChildType, NEW terminus \in TerminusHandles
    PROVE  LET c == Copy(r, children, terminus)
           IN  Sound(c) /\ SameRecord(r, c) /\ c.children = children
<1> DEFINE c == Copy(r, children, terminus)
<1>1. /\ c.record_handle = r.record_handle
      /\ c.hdr_handle = r.hdr_handle
      /\ c.is_remote = r.is_remote
      /\ c.type = "ENTITY_ASSOCIATION"
      /\ c.id = 0
      /\ c.children = children
  BY DEF Copy, Record, AssociationData
<1>2. r.id = 0
  BY DEF Sound
<1>3. c \in RecordType
  BY DEF Copy, Record, AssociationData, Sound, RecordType
<1> HIDE DEF c
<1>4. Sound(c)
  BY <1>1, <1>3 DEF Sound
<1>5. SameRecord(r, c)
  BY <1>1, <1>2 DEF SameRecord
<1> QED BY <1>1, <1>4, <1>5 DEF c

\* The entities of an association that lists nothing unknown are entities.
LEMMA ChildrenEntities ==
    ASSUME NEW r, Sound(r), ~Lists(r, Unknown)
    PROVE  r.children \in Seq(Entities)
<1>1. r.children \in Seq(Entities \cup {Unknown})
  BY DEF Sound, RecordType, ChildType
<1>2. Len(r.children) \in Nat /\ DOMAIN r.children = 1 .. Len(r.children)
        /\ r.children \in [1 .. Len(r.children) -> Entities \cup {Unknown}]
  BY <1>1, LenProperties
<1>3. \A k \in 1 .. Len(r.children) : r.children[k] \in Entities
  BY <1>2 DEF Lists
<1>4. r.children \in [1 .. Len(r.children) -> Entities]
  BY <1>2, <1>3
<1> QED BY <1>2, <1>4

\* Replacing an association by a copy of it.
LEMMA ReplaceExchanges ==
    ASSUME IInv, NEW i \in DOMAIN records, records[i].type = "ENTITY_ASSOCIATION",
           NEW children \in ChildType, NEW terminus \in TerminusHandles,
           (\E k \in DOMAIN children : children[k] = Unknown) =>
              Lists(records[i], Unknown) \/ ListsTwice(records[i]),
           Replace(i, Copy(records[i], children, terminus))
    PROVE  \E r : Exchanges(i, r)
<1> DEFINE c == Copy(records[i], children, terminus)
<1>1. Sound(records[i])
  BY LenProperties DEF IInv
<1>2. Sound(c) /\ SameRecord(records[i], c) /\ c.children = children
  BY <1>1, CopySound
<1>3. /\ records' = [records EXCEPT ![i] = c] /\ record_count' = record_count
      /\ size' = (size - RecordSize(records[i])) + RecordSize(c)
  BY DEF Replace, Becomes
<1> HIDE DEF c
<1>4. Lists(c, Unknown) => Lists(records[i], Unknown) \/ ListsTwice(records[i])
  BY <1>2 DEF Lists
<1>5. Exchanges(i, c)
  BY <1>2, <1>3, <1>4, ExceptExchanges, ZenonT(30)
<1> QED BY <1>5

\* An entity is added to an association.
LEMMA AddContainedExchanges ==
    ASSUME IInv, NEW entity \in Entities, NEW handle, NEW any \in TerminusHandles,
           AddContained(entity, handle, any)
    PROVE  \E i, r : Exchanges(i, r)
<1>1. PICK i \in DOMAIN records :
         /\ records[i].type = "ENTITY_ASSOCIATION"
         /\ Replace(i, Copy(records[i], Append(records[i].children, entity), any))
  BY DEF AddContained
<1> DEFINE c == records[i].children
<1>2. c \in Seq(Entities \cup {Unknown})
  <2>1. Sound(records[i])
    BY Numbers DEF IInv
  <2> QED BY <2>1 DEF Sound, RecordType, ChildType
<1>3. /\ Append(c, entity) \in Seq(Entities \cup {Unknown})
      /\ Len(Append(c, entity)) = Len(c) + 1
      /\ \A k \in 1 .. Len(c) : Append(c, entity)[k] = c[k]
      /\ Append(c, entity)[Len(c) + 1] = entity
  <2> HIDE DEF c
  <2> QED BY <1>2, AppendProperties
<1>4. /\ Len(c) \in Nat /\ DOMAIN c = 1 .. Len(c)
      /\ DOMAIN Append(c, entity) = 1 .. (Len(c) + 1)
  <2> HIDE DEF c
  <2> QED BY <1>2, <1>3, LenProperties
<1>5. (\E k \in DOMAIN Append(c, entity) : Append(c, entity)[k] = Unknown)
         => \E k \in DOMAIN c : c[k] = Unknown
  <2> HIDE DEF c
  <2> SUFFICES ASSUME NEW k \in 1 .. (Len(c) + 1), Append(c, entity)[k] = Unknown
               PROVE  k \in 1 .. Len(c) /\ c[k] = Unknown
    BY <1>4, ZenonT(30)
  <2> QED BY <1>3, <1>4, PdrAssumption
<1>6. (\E k \in DOMAIN Append(c, entity) : Append(c, entity)[k] = Unknown)
         => Lists(records[i], Unknown)
  BY <1>5 DEF Lists
<1> QED BY <1>1, <1>3, <1>6, ReplaceExchanges, ZenonT(30) DEF ChildType

\* A new association is put after the record named.
LEMMA CreateNewAdds ==
    ASSUME IInv, NEW handle \in Handles, NEW entity \in Entities,
           NEW any \in TerminusHandles, CreateNew(handle, entity, any)
    PROVE  \E p, r : Adds(p, r)
<1> DEFINE r == Record(handle + 1, handle + 1, 0, any, AssociationData(<<entity>>))
<1>1. PICK i \in DOMAIN records :
         /\ records' = SubSeq(records, 1, i) \o <<r>> \o SubSeq(records, i + 1, Len(records))
         /\ record_count' = record_count + 1
         /\ size' = size + RecordSize(r)
         /\ record_count < MaxRecords
  BY ZenonT(30) DEF CreateNew, Becomes
<1>2. handle + 1 \in Handles
  BY PdrAssumption DEF CreateNew, Handles
<1>3. Sound(r) /\ ~Lists(r, Unknown)
  BY <1>2, NewRecordSound
<1>4. r.record_handle - 1 = handle
  BY DEF Record, Handles
<1> HIDE DEF r
<1>5. records' = Insert(records, i, r)
  BY <1>1 DEF Insert
<1>6. /\ records \in Seq(RecordType)
      /\ i \in 1 .. Len(records)
      /\ r \in RecordType
      /\ Len(records) \in Nat
  BY <1>3, LenProperties DEF IInv, Sound
<1>7. Insert(records, i, r) \in Seq(RecordType) /\ IsInserted(records', records, i, r)
  BY <1>5, <1>6, InsertFacts
<1>8. /\ record_count' = record_count + 1 /\ i \in 0 .. Len(records)
      /\ size' = size + RecordSize(r)
  BY <1>1, <1>6
<1>9. \E e \in Entities, a \in TerminusHandles : CreateNew(r.record_handle - 1, e, a)
  BY <1>4
<1>10. Adds(i, r)
  BY <1>1, <1>3, <1>5, <1>7, <1>8, <1>9, ZenonT(30) DEF Adds
<1> QED BY <1>10

\* Of different entities all but one are copied: every place of the shorter list is
\* written, and with an entity of the longer one.
LEMMA LeftOutEntities ==
    ASSUME NEW children \in Seq(Entities), NEW entity,
           \A a, b \in DOMAIN children : a # b => children[a] # children[b],
           NEW left \in [1 .. (Len(children) - 1) -> Entities \cup {Unknown}],
           Len(children) > 1, LeftOut(children, entity, left)
    PROVE  left \in Seq(Entities)
<1> DEFINE n == Len(children)
           T == {k \in 1 .. n : children[k] # entity}
<1>1. n \in Nat /\ DOMAIN children = 1 .. n /\ n > 1
  BY LenProperties
<1>2. Len(left) = n - 1
  <2>1. n - 1 \in Nat /\ left \in [1 .. (n - 1) -> Entities \cup {Unknown}]
    BY <1>1
  <2> HIDE DEF n
  <2> QED BY <2>1
<1>3. PICK m \in 0 .. Len(left) : \E at \in [1 .. m -> DOMAIN children] :
         /\ \A k \in DOMAIN children :
               children[k] # entity <=> \E l \in 1 .. m : at[l] = k
         /\ \A k \in 1 .. m : left[k] = children[at[k]]
  BY ZenonT(30) DEF LeftOut
<1>4. PICK at \in [1 .. m -> DOMAIN children] :
         /\ \A k \in DOMAIN children :
               children[k] # entity <=> \E l \in 1 .. m : at[l] = k
         /\ \A k \in 1 .. m : left[k] = children[at[k]]
  BY <1>3, ZenonT(30)
<1>5. /\ m \in 0 .. (n - 1)
      /\ at \in [1 .. m -> 1 .. n]
      /\ \A k \in 1 .. n : children[k] # entity <=> \E l \in 1 .. m : at[l] = k
      /\ \A k \in 1 .. m : left[k] = children[at[k]]
  <2> HIDE DEF n
  <2> QED BY <1>1, <1>2, <1>4, ZenonT(30)
<1>6. at \in Surjection(1 .. m, T)
  BY <1>5 DEF Surjection
<1>7. IsFiniteSet(1 .. m) /\ Cardinality(1 .. m) = m
  BY <1>1, <1>5, FS_Interval
<1>8. IsFiniteSet(T) /\ Cardinality(T) <= m
  BY <1>6, <1>7, FS_Surjection
<1>9. IsFiniteSet(1 .. n) /\ Cardinality(1 .. n) = n
  <2> HIDE DEF n
  <2> QED BY <1>1, FS_Interval
<1>10. Cardinality(T) >= n - 1
  <2>1. CASE \E p \in 1 .. n : children[p] = entity
    <3>1. PICK p \in 1 .. n : children[p] = entity
      BY <2>1
    <3>2. T = (1 .. n) \ {p}
      BY <3>1, <1>1
    <3>3. Cardinality((1 .. n) \ {p}) = Cardinality(1 .. n) - 1
      BY <3>1, <1>9, FS_RemoveElement, ZenonT(30)
    <3> HIDE DEF n, T
    <3> QED BY <3>2, <3>3, <1>1, <1>9
  <2>2. CASE ~ \E p \in 1 .. n : children[p] = entity
    <3>1. T = 1 .. n
      BY <2>2
    <3> HIDE DEF n, T
    <3> QED BY <3>1, <1>1, <1>9
  <2> QED BY <2>1, <2>2
<1>11. Cardinality(T) \in Nat
  BY <1>8, FS_CardinalityType
<1> HIDE DEF n, T
<1>12. m = n - 1
  BY <1>1, <1>5, <1>8, <1>10, <1>11
<1>13. \A k \in 1 .. (n - 1) : left[k] \in Entities
  <2> TAKE k \in 1 .. (n - 1)
  <2>1. at[k] \in 1 .. n /\ left[k] = children[at[k]]
    BY <1>5, <1>12
  <2> QED BY <2>1, ElementOfSeq DEF n
<1>14. left \in [1 .. (n - 1) -> Entities]
  BY <1>13 DEF n
<1> QED BY <1>1, <1>14

\* An entity is taken out of an association, or the association with it.
LEMMA RemoveContainedKind ==
    ASSUME IInv, NEW entity \in Entities, NEW remote, RemoveContained(entity, remote)
    PROVE  (\E first, i : Drops(first, i)) \/ (\E i, r : Exchanges(i, r))
<1>1. PICK i \in DOMAIN records :
         \/ RemoveRecord(i)
         \/ \E left \in [1 .. (Len(records[i].children) - 1) -> Entities \cup {Unknown}] :
               /\ Len(records[i].children) > 1
               /\ LeftOut(records[i].children, entity, left)
               /\ \E any \in TerminusHandles : Replace(i, Copy(records[i], left, any))
  BY ZenonT(30) DEF RemoveContained
<1>2. CASE RemoveRecord(i)
  BY <1>2, RemoveRecordDrops
<1>3. ASSUME NEW left \in [1 .. (Len(records[i].children) - 1) -> Entities \cup {Unknown}],
             Len(records[i].children) > 1,
             LeftOut(records[i].children, entity, left),
             NEW any \in TerminusHandles, Replace(i, Copy(records[i], left, any))
      PROVE  \E j, r : Exchanges(j, r)
  <2>1. Sound(records[i])
    BY LenProperties DEF IInv
  <2>2. records[i].type = "ENTITY_ASSOCIATION"
    <3>1. records[i].children # <<>>
      BY <1>3
    <3> QED BY <2>1, <3>1 DEF Sound
  <2>3. left \in ChildType
    <3>1. Len(records[i].children) - 1 \in Nat
      BY <1>3, <2>1, LenProperties DEF Sound, RecordType, ChildType
    <3> QED BY <3>1 DEF ChildType
  <2>4. (\E k \in DOMAIN left : left[k] = Unknown) =>
           Lists(records[i], Unknown) \/ ListsTwice(records[i])
    <3> SUFFICES ASSUME ~Lists(records[i], Unknown), ~ListsTwice(records[i])
                 PROVE  \A k \in DOMAIN left : left[k] # Unknown
      BY ZenonT(30)
    <3>1. records[i].children \in Seq(Entities)
      BY <2>1, ChildrenEntities
    <3>2. \A a, b \in DOMAIN records[i].children :
             a # b => records[i].children[a] # records[i].children[b]
      BY DEF ListsTwice
    <3>3. left \in Seq(Entities)
      BY <1>3, <3>1, <3>2, LeftOutEntities
    <3> QED BY <3>3, LenProperties, ElementOfSeq, PdrAssumption
  <2> QED BY <1>3, <2>2, <2>3, <2>4, ReplaceExchanges, ZenonT(30)
<1> QED BY <1>1, <1>2, <1>3, ZenonT(30)

\* The removal of a terminus and of all remote records.
LEMMA RemoveAllRenumbers ==
    ASSUME IInv, NEW removed \in SUBSET (DOMAIN records), RemoveAll(removed)
    PROVE  Renumbers
<1> DEFINE kept == DOMAIN records \ removed
           m == Cardinality(kept)
<1>1. PICK at \in [1 .. m -> kept] :
         /\ Kept(m, at, removed)
         /\ records' = Renumbered([k \in 1 .. m |-> records[at[k]]])
         /\ record_count' = record_count - (Len(records) - m)
         /\ size' = size - TotalSize(records, removed)
  BY ZenonT(30) DEF RemoveAll, Becomes
<1> DEFINE N(r, k) == [r EXCEPT !.record_handle = k, !.hdr_handle = k]
<1>2. /\ Kept(m, at, removed)
      /\ at \in [1 .. m -> DOMAIN records]
  <2> HIDE DEF m
  <2> QED BY <1>1
<1>3. /\ records' = [k \in 1 .. m |-> N(records[at[k]], k)]
  BY <1>1, ZenonT(30) DEF Renumbered
<1>4. /\ DOMAIN records = 1 .. Len(records)
      /\ Len(records) \in Nat
      /\ m \in 0 .. UINT32_MAX
      /\ m <= Len(records)
  <2>1. /\ Len(records) \in Nat /\ DOMAIN records = 1 .. Len(records)
        /\ Len(records) <= UINT32_MAX /\ UINT32_MAX \in Nat
    BY Numbers, PdrAssumption
  <2>2. IsFiniteSet(1 .. Len(records)) /\ Cardinality(1 .. Len(records)) = Len(records)
    <3> DEFINE n == Len(records)
    <3>1. n \in Nat
      BY <2>1
    <3> HIDE DEF n
    <3>2. IsFiniteSet(1 .. n) /\ Cardinality(1 .. n) = n
      BY <3>1, FS_Interval
    <3> QED BY <3>2 DEF n
  <2>3. m \in Nat /\ m <= Len(records)
    <3>1. kept \in SUBSET (1 .. Len(records))
      BY <2>1
    <3>2. IsFiniteSet(kept) /\ Cardinality(kept) <= Cardinality(1 .. Len(records))
      <4> HIDE DEF kept
      <4> QED BY <3>1, <2>2, FS_Subset, ZenonT(30)
    <3>3. Cardinality(kept) \in Nat
      <4> HIDE DEF kept
      <4> QED BY <3>2, FS_CardinalityType
    <3> HIDE DEF kept
    <3> QED BY <3>2, <3>3, <2>2
  <2> HIDE DEF m
  <2> QED BY <2>1, <2>3
<1> HIDE DEF m, kept
<1>5. \A k \in 1 .. m : at[k] \in 1 .. Len(records) /\ records'[k] = N(records[at[k]], k)
  BY <1>2, <1>3, <1>4, ZenonT(30)
<1>6. \A k \in 1 .. m : N(records[at[k]], k) \in RecordType
  <2> TAKE k \in 1 .. m
  <2>1. k \in Handles /\ k \in 0 .. UINT32_MAX
    BY <1>4, PdrAssumption DEF Handles
  <2>2. records[at[k]] \in RecordType
    BY <1>5, ZenonT(30) DEF IInv, Sound
  <2> QED BY <2>1, <2>2, ZenonT(30) DEF RecordType
<1> HIDE DEF N
<1>7. records' \in [1 .. m -> RecordType]
  BY <1>3, <1>6
<1>8. records' \in Seq(RecordType) /\ Len(records') = m
  BY <1>4, <1>7
<1>9. size' = size - (ListBytes(records) - ListBytes(records'))
  <2>1. \A k \in 1 .. m : RecordSize(records'[k]) = RecordSize(records[at[k]])
    <3> TAKE k \in 1 .. m
    <3>1. records[at[k]] \in RecordType /\ records'[k] = N(records[at[k]], k)
      BY <1>5 DEF IInv, Sound
    <3>2. records'[k].type = records[at[k]].type /\ records'[k].children = records[at[k]].children
      BY <3>1 DEF N, RecordType
    <3> QED BY <3>2 DEF RecordSize
  <2>2. /\ records \in Seq(RecordType) /\ removed \in SUBSET (1 .. Len(records))
        /\ m \in Nat /\ at \in [1 .. m -> 1 .. Len(records)]
    BY <1>2, <1>4 DEF IInv
  <2>3. TotalSize(records', 1 .. m) =
            TotalSize(records, 1 .. Len(records)) - TotalSize(records, removed)
    BY <1>2, <1>8, <2>1, <2>2, KeptTotal, ZenonT(30)
  <2>4. /\ TotalSize(records', 1 .. m) \in Nat /\ TotalSize(records, 1 .. Len(records)) \in Nat
        /\ TotalSize(records, removed) \in Nat /\ size \in Int
    BY <1>8, <2>2, TotalSizeIs DEF IInv
  <2> QED BY <1>1, <1>8, <2>3, <2>4 DEF ListBytes
<1>10. \A k \in 1 .. Len(records') : \E i \in 1 .. Len(records) :
          records'[k] = [records[i] EXCEPT !.record_handle = k, !.hdr_handle = k]
  BY <1>5, <1>8, ZenonT(30) DEF N
<1> QED BY <1>1, <1>4, <1>8, <1>9, <1>10, ZenonT(30) DEF Renumbers

-----------------------------------------------------------------------------
(* The invariant *)

\* The empty repository (pldm_pdr_init).
LEMMA InitIInv == Init => IInv
<1> SUFFICES ASSUME Init PROVE IInv
  OBVIOUS
<1>1. /\ records = <<>>
      /\ <<>> \in Seq(RecordType)
      /\ Len(records) = 0
      /\ DOMAIN records = {}
      /\ record_count = 0
  BY EmptySeq DEF Init
<1>2. size = 0 /\ ListBytes(records) = 0
  <2>1. 1 .. Len(records) = {}
    BY <1>1
  <2> QED BY <2>1, SumEmpty DEF Init, TotalSize, ListBytes
<1> QED BY <1>1, <1>2, PdrAssumption DEF IInv

\* The two functions that number records anew.
Bulk ==
    \/ \E terminus \in TerminusHandles : RemovePdrsByTerminusHandle(terminus)
    \/ RemoveRemotePdrs

\* Every function of the repository is a step of one of the four kinds.
LEMMA NextKind ==
    ASSUME IInv, Next
    PROVE  \/ \E p, r : Adds(p, r)
           \/ \E first, i : Drops(first, i)
           \/ \E i, r : Exchanges(i, r)
           \/ Renumbers /\ Bulk
<1>1. ASSUME NEW terminus \in TerminusHandles, NEW data \in NewData,
             NEW handle \in Handles, AddGiven(handle, terminus, data)
      PROVE  \E p, r : Adds(p, r)
  BY <1>1, PdrAddAdds DEF AddGiven
<1>2. ASSUME NEW terminus \in TerminusHandles, NEW data \in NewData,
             NEW pointer, AddComputed(terminus, data, pointer)
      PROVE  \E p, r : Adds(p, r)
  <2>1. NextHandle \in Handles
    BY <1>2, NextHandleInRange DEF AddComputed
  <2>2. (IF pointer THEN NextHandle ELSE 0) \in {NextHandle, 0}
    OBVIOUS
  <2> QED BY <1>2, <2>1, <2>2, PdrAddAdds DEF AddComputed
<1>3. ASSUME NEW id \in Ids, NEW validity \in {0, 1}, UpdateTLPdr(id, validity)
      PROVE  \E i, r : Exchanges(i, r)
  BY <1>3, UpdateTLPdrExchanges
<1>4. ASSUME NEW id, NEW remote \in {0, 1},
             \/ DeleteBySensorId(id, remote)
             \/ DeleteByEffecterId(id, remote)
             \/ RemoveFruRecordSetByRsi(id, remote)
             \/ DeleteByRecordHandle(id, remote)
      PROVE  \E first, i : Drops(first, i)
  BY <1>4, DeleteDrops
<1>5. ASSUME NEW terminus \in TerminusHandles, RemovePdrsByTerminusHandle(terminus)
      PROVE  Renumbers
  BY <1>5, RemoveAllRenumbers DEF RemovePdrsByTerminusHandle
<1>6. ASSUME RemoveRemotePdrs
      PROVE  Renumbers
  BY <1>6, RemoveAllRenumbers DEF RemoveRemotePdrs
<1>7. ASSUME NEW entity \in Entities, NEW handle \in Handles, NEW any \in TerminusHandles,
             AddContained(entity, handle, any)
      PROVE  \E i, r : Exchanges(i, r)
  BY <1>7, AddContainedExchanges
<1>8. ASSUME NEW entity \in Entities, NEW handle \in Handles, NEW any \in TerminusHandles,
             CreateNew(handle, entity, any)
      PROVE  \E p, r : Adds(p, r)
  BY <1>8, CreateNewAdds
<1>9. ASSUME NEW entity \in Entities, NEW remote \in {0, 1},
             RemoveContained(entity, remote)
      PROVE  (\E first, i : Drops(first, i)) \/ (\E i, r : Exchanges(i, r))
  BY <1>9, RemoveContainedKind
<1> QED BY <1>1, <1>2, <1>3, <1>4, <1>5, <1>6, <1>7, <1>8, <1>9, ZenonT(30) DEF Next, Bulk

\* What a step does.
LEMMA StepDoes ==
    ASSUME IInv, Next
    PROVE  IInv' /\ Accounted /\ Known /\ (Named \/ Bulk)
BY NextKind, AddsKeeps, DropsKeeps, ExchangesKeeps, RenumbersKeeps, ZenonT(30)

\* The invariant is inductive.
LEMMA IInvStep == IInv /\ [Next]_vars => IInv'
<1> SUFFICES ASSUME IInv, [Next]_vars PROVE IInv'
  OBVIOUS
<1>1. CASE Next
  BY <1>1, StepDoes
<1>2. CASE UNCHANGED vars
  <2>1. records' = records /\ record_count' = record_count /\ size' = size
    BY <1>2 DEF vars
  <2>2. \A i \in 1 .. Len(records') : Sound(records'[i])
    BY <2>1 DEF IInv
  <2>3. /\ records' \in Seq(RecordType)
        /\ record_count' \in 0 .. MaxRecords /\ record_count' >= Len(records')
        /\ size' \in Int /\ size' >= ListBytes(records')
    BY <2>1 DEF IInv
  <2> QED BY <2>2, <2>3, IInvNext
<1> QED BY <1>1, <1>2

\* It holds for ever.
LEMMA Invariance == Spec => []IInv
<1>1. Init => IInv
  BY InitIInv
<1>2. IInv /\ [Next]_vars => IInv'
  BY IInvStep
<1> QED BY <1>1, <1>2, PTL DEF Spec

-----------------------------------------------------------------------------
(* What callers can rely on *)

\* Whatever pdr.c does to the list, every record stays of its type, with a handle
\* that uint32_t holds.
THEOREM TypeCorrect == Spec => []TypeOK
<1>1. IInv => TypeOK
  BY LenProperties DEF IInv, TypeOK
<1> QED BY <1>1, Invariance, PTL

\* The extra count and size, as the lemmas put them.
LEMMA Extras ==
    ASSUME IInv, IInv'
    PROVE  /\ ExtraCount = record_count - Len(records)
           /\ ExtraCount' = record_count' - Len(records')
           /\ ExtraSize = size - ListBytes(records)
           /\ ExtraSize' = size' - ListBytes(records')
           /\ ExtraCount' >= 0 /\ ExtraSize' >= 0
<1>1. DOMAIN records = 1 .. Len(records) /\ DOMAIN records' = 1 .. Len(records')
  BY LenProperties DEF IInv, RecordType, Handles, PlainTypes, ChildType
<1>2. /\ ExtraCount = record_count - Len(records)
      /\ ExtraCount' = record_count' - Len(records')
  BY DEF ExtraCount
<1>3. ExtraSize = size - ListBytes(records)
  BY <1>1 DEF ExtraSize, ListBytes
<1>4. ExtraSize' = size' - ListBytes(records')
  BY <1>1 DEF ExtraSize, ListBytes, TotalSize, RecordSize
<1>5. (size >= ListBytes(records) /\ size \in Int)'
  BY DEF IInv
<1>6. size' >= ListBytes(records') /\ size' \in Int /\ ListBytes(records') \in Nat
  <2>1. records' \in Seq(RecordType)
    BY DEF IInv, RecordType, Handles, PlainTypes, ChildType
  <2>2. ListBytes(records') \in Nat
    BY <2>1, TotalSizeIs DEF ListBytes
  <2> QED BY <1>5, <2>2 DEF ListBytes, TotalSize, RecordSize
<1>7. /\ record_count' \in Nat /\ record_count' >= Len(records') /\ Len(records') \in Nat
  BY LenProperties, PdrAssumption DEF IInv, RecordType, Handles, PlainTypes, ChildType
<1> QED BY <1>2, <1>3, <1>4, <1>6, <1>7

\* pldm_pdr_get_record_count and pldm_pdr_get_repo_size never tell less than is in
\* the list, and every function changes them by what it does to the list unless two
\* records have one handle before: then pldm_pdr_remove_record may unlink more
\* records than the one it accounts for.
THEOREM TotalsCorrect == Spec => TotalsMatch
<1> DEFINE Body == /\ ExtraCount' >= 0 /\ ExtraSize' >= 0
                   /\ ~Clash => ExtraCount' = ExtraCount /\ ExtraSize' = ExtraSize
<1>1. IInv /\ IInv' /\ [Next]_vars => [Body]_vars
  <2> SUFFICES ASSUME IInv, IInv', Next PROVE Body
    BY ZenonT(30)
  <2>1. Accounted
    BY StepDoes
  <2> QED BY <2>1, Extras DEF Accounted
<1>2. Spec => [][Body]_vars
  BY <1>1, Invariance, PTL DEF Spec
<1> QED BY <1>2 DEF TotalsMatch

\* pldm_pdr_add and the removals that renumber leave the handle of a record in its
\* header, or 0 where the caller gave no place for it.
THEOREM HeadersCorrect == Spec => []HeadersAgree
<1>1. IInv => HeadersAgree
  BY LenProperties DEF IInv, HeadersAgree, Sound, RecordType
<1> QED BY <1>1, Invariance, PTL

\* pldm_entity_association_pdr_add_contained_entity_to_remote_pdr and
\* ..._remove_contained_entity copy every entity they keep into the new record, and
\* leave no entity of it unwritten unless the old one listed an entity twice.
THEOREM ChildrenCorrect == Spec => ChildrenKnown
<1>1. IInv /\ [Next]_vars => [Known]_vars
  BY StepDoes, ZenonT(30)
<1>2. Spec => [][Known]_vars
  BY <1>1, Invariance, PTL DEF Spec
<1> QED BY <1>2 DEF ChildrenKnown, Known, Explained

\* Under a handle that was in use pldm_pdr_find_record finds a record that had it
\* before, unless create_new gave it to the record it put in front, or a terminus or
\* the remote records were removed and the others numbered anew.
THEOREM HandlesCorrect == Spec => HandlesKeepRecords
<1>1. IInv /\ [Next]_vars => [Named \/ Bulk]_vars
  BY StepDoes, ZenonT(30)
<1>2. Spec => [][Named \/ Bulk]_vars
  BY <1>1, Invariance, PTL DEF Spec
<1> QED BY <1>2, PTL DEF HandlesKeepRecords, Named, Bulk

-----------------------------------------------------------------------------
(* The names of an Entity Auxiliary Names PDR. *)

\* The least of a set.
LEMMA MinIs ==
  ASSUME NEW S, S \subseteq Int, NEW x \in S, \A y \in S : x <= y
  PROVE  Min(S) = x
<1>1. \A z \in S : (\A y \in S : z =< y) => z = x
  OBVIOUS
<1> QED
  BY <1>1, ZenonT(30) DEF Min

NameBytes == {NUL, CHAR}

\* Two NULs that end a UTF-16 string from c at k.
Ends16(s, c, k) == s[k - 1] = NUL /\ s[k] = NUL /\ (k - c) % 2 = 0

\* A span of an ASCII string from c to e, and of a UTF-16 string.
AsciiAt(s, c, e) ==
    /\ e \in (c + 1)..Len(s) /\ s[e] = NUL
    /\ \A k \in (c + 1)..(e - 1) : s[k] # NUL

Utf16At(s, c, e) ==
    /\ e \in (c + 2)..Len(s) /\ Ends16(s, c, e)
    /\ \A k \in (c + 2)..(e - 1) : ~Ends16(s, c, k)

\* What a span of an ASCII string gives.
LEMMA SpanAsciiIs ==
  ASSUME NEW s \in Seq(NameBytes), NEW c \in -1..Len(s)
  PROVE  /\ SpanAscii(s, c) \in -1..Len(s)
         /\ SpanAscii(s, c) # INVALID => c # INVALID /\ AsciiAt(s, c, SpanAscii(s, c))
<1> DEFINE ends == {k \in (c + 1)..Len(s) : s[k] = NUL}
<1>1. Len(s) \in Nat /\ INVALID = -1
  BY DEF INVALID
<1>2. CASE c = INVALID \/ ends = {}
  BY <1>1, <1>2 DEF SpanAscii
<1>3. CASE ~(c = INVALID \/ ends = {})
  <2>1. c \in Nat /\ ends \subseteq Nat /\ ends \subseteq Int
    BY <1>1, <1>3
  <2>2. PICK x \in ends : \A y \in ends : x <= y
    BY <1>3, <2>1, Least, ZenonT(30)
  <2>3. Min(ends) = x
    <3> HIDE DEF ends
    <3> QED
      BY <2>1, <2>2, MinIs, ZenonT(30)
  <2>4. SpanAscii(s, c) = x
    BY <1>3, <2>3 DEF SpanAscii
  <2>5. x \in (c + 1)..Len(s) /\ s[x] = NUL
    BY <2>2
  <2>6. ASSUME NEW k \in (c + 1)..(x - 1) PROVE s[k] # NUL
    <3>1. k \in (c + 1)..Len(s) /\ ~(x <= k)
      BY <1>1, <2>1, <2>5
    <3> QED
      BY <2>2, <3>1
  <2>7. AsciiAt(s, c, x)
    BY <2>5, <2>6 DEF AsciiAt
  <2> QED
    BY <1>1, <1>3, <2>1, <2>4, <2>5, <2>7
<1> QED
  BY <1>2, <1>3

\* What a span of a UTF-16 string gives.
LEMMA SpanUtf16Is ==
  ASSUME NEW s \in Seq(NameBytes), NEW c \in -1..Len(s)
  PROVE  /\ SpanUtf16(s, c) \in -1..Len(s)
         /\ SpanUtf16(s, c) # INVALID => c # INVALID /\ Utf16At(s, c, SpanUtf16(s, c))
<1> DEFINE ends == {k \in (c + 2)..Len(s) : Ends16(s, c, k)}
<1>1. Len(s) \in Nat /\ INVALID = -1
  BY DEF INVALID
<1>0. SpanUtf16(s, c) = IF c = INVALID \/ ends = {} THEN INVALID ELSE Min(ends)
  BY ZenonT(30) DEF SpanUtf16, Ends16
<1>2. CASE c = INVALID \/ ends = {}
  BY <1>0, <1>1, <1>2
<1>3. CASE ~(c = INVALID \/ ends = {})
  <2>1. c \in Nat /\ ends \subseteq Nat /\ ends \subseteq Int
    BY <1>1, <1>3
  <2>2. PICK x \in ends : \A y \in ends : x <= y
    BY <1>3, <2>1, Least, ZenonT(30)
  <2>3. Min(ends) = x
    <3> HIDE DEF ends
    <3> QED
      BY <2>1, <2>2, MinIs, ZenonT(30)
  <2>4. SpanUtf16(s, c) = x
    BY <1>0, <1>3, <2>3
  <2>5. x \in (c + 2)..Len(s) /\ Ends16(s, c, x)
    BY <2>2
  <2>6. ASSUME NEW k \in (c + 2)..(x - 1) PROVE ~Ends16(s, c, k)
    <3>1. k \in (c + 2)..Len(s) /\ ~(x <= k)
      BY <1>1, <2>1, <2>5
    <3> QED
      BY <2>2, <3>1
  <2>7. Utf16At(s, c, x)
    BY <2>5, <2>6 DEF Utf16At
  <2> QED
    BY <1>1, <1>3, <2>1, <2>4, <2>5, <2>7
<1> QED
  BY <1>2, <1>3

\* A copy of an ASCII string is spanned as the string is.
LEMMA SpanAsciiCopy ==
  ASSUME NEW s \in Seq(NameBytes), NEW c \in Nat, NEW e \in Int, AsciiAt(s, c, e),
         NEW t \in Seq(NameBytes), NEW d \in Nat, d + (e - c) <= Len(t),
         \A k \in 1..(e - c) : t[d + k] = s[c + k]
  PROVE  SpanAscii(t, d) = d + (e - c)
<1> DEFINE ends == {k \in (d + 1)..Len(t) : t[k] = NUL}
           x == d + (e - c)
<1>1. Len(t) \in Nat /\ INVALID = -1 /\ e - c \in 1..(e - c) /\ c + (e - c) = e
  BY DEF INVALID, AsciiAt
<1>2. x \in ends
  <2>1. t[d + (e - c)] = s[c + (e - c)]
    BY <1>1, ZenonT(30)
  <2> QED
    BY <1>1, <2>1 DEF AsciiAt
<1>3. ASSUME NEW k \in ends PROVE x <= k
  <2>1. SUFFICES ASSUME ~(x <= k) PROVE FALSE
    OBVIOUS
  <2>2. k - d \in 1..(e - c) /\ d + (k - d) = k /\ c + (k - d) \in (c + 1)..(e - 1)
    BY <1>1, <2>1
  <2>3. t[k] = s[c + (k - d)]
    BY <2>2, ZenonT(30)
  <2>4. s[c + (k - d)] # NUL
    BY <2>2 DEF AsciiAt
  <2> QED
    BY <2>3, <2>4
<1>4. ends \subseteq Int
  BY <1>1
<1>5. Min(ends) = x
  <2> HIDE DEF ends, x
  <2> QED
    BY <1>2, <1>3, <1>4, MinIs, ZenonT(30)
<1>6. ~(d = INVALID \/ ends = {})
  <2>1. d # INVALID
    BY <1>1
  <2>2. ends # {}
    <3> HIDE DEF ends
    <3> QED
      BY <1>2
  <2> QED
    BY <2>1, <2>2
<1> QED
  BY <1>5, <1>6 DEF SpanAscii

\* A copy of a UTF-16 string is spanned as the string is.
LEMMA SpanUtf16Copy ==
  ASSUME NEW s \in Seq(NameBytes), NEW c \in Nat, NEW e \in Int, Utf16At(s, c, e),
         NEW t \in Seq(NameBytes), NEW d \in Nat, d + (e - c) <= Len(t),
         \A k \in 1..(e - c) : t[d + k] = s[c + k]
  PROVE  SpanUtf16(t, d) = d + (e - c)
<1> DEFINE ends == {k \in (d + 2)..Len(t) : Ends16(t, d, k)}
           x == d + (e - c)
<1>1. Len(t) \in Nat /\ INVALID = -1 /\ e - c \in 2..(e - c) /\ e \in Int
  BY DEF INVALID, Utf16At
<1>0. SpanUtf16(t, d) = IF d = INVALID \/ ends = {} THEN INVALID ELSE Min(ends)
  BY ZenonT(30) DEF SpanUtf16, Ends16
<1>2. ASSUME NEW k \in (d + 2)..x PROVE Ends16(t, d, k) <=> Ends16(s, c, c + (k - d))
  <2> DEFINE j == k - d
  <2>1. j \in 1..(e - c) /\ j - 1 \in 1..(e - c) /\ d + j = k /\ d + (j - 1) = k - 1
        /\ c + (j - 1) = (c + j) - 1 /\ (c + j) - c = j
    BY <1>1
  <2>2. t[k] = s[c + j] /\ t[k - 1] = s[(c + j) - 1]
    <3> HIDE DEF j
    <3> QED
      BY <2>1, ZenonT(30)
  <2>3. (k - d) % 2 = ((c + j) - c) % 2
    BY <2>1
  <2> QED
    BY <2>2, <2>3 DEF Ends16
<1>3. x \in ends
  <2>1. x \in (d + 2)..x /\ c + (x - d) = e
    BY <1>1
  <2>2. Ends16(t, d, x)
    BY <1>2, <2>1 DEF Utf16At
  <2> QED
    BY <1>1, <2>1, <2>2
<1>4. ASSUME NEW k \in ends PROVE x <= k
  <2>1. SUFFICES ASSUME ~(x <= k) PROVE FALSE
    OBVIOUS
  <2>2. k \in (d + 2)..x /\ c + (k - d) \in (c + 2)..(e - 1)
    BY <1>1, <2>1
  <2>3. Ends16(s, c, c + (k - d))
    BY <1>2, <2>2
  <2> QED
    BY <2>2, <2>3 DEF Utf16At
<1>5. ends \subseteq Int
  BY <1>1
<1>6. Min(ends) = x
  <2> HIDE DEF ends, x
  <2> QED
    BY <1>3, <1>4, <1>5, MinIs, ZenonT(30)
<1>7. ~(d = INVALID \/ ends = {})
  BY <1>1, <1>3
<1> QED
  BY <1>0, <1>6, <1>7


\* The cursors of a pass over n pairs.
Cursors == -1..Len(names)
Cursor == [tag : Cursors, name : Cursors, end : Cursors]

Pairs(n, p) ==
    /\ p \in [1..n -> Cursor]
    /\ \A i \in 1..n :
          /\ p[i].tag = IF i = 1 THEN 0 ELSE p[i - 1].end
          /\ p[i].name = SpanAscii(names, p[i].tag)
          /\ p[i].end = SpanUtf16(names, p[i].name)

\* The cursors of the pair at a tag.
PairAt(tag) ==
    [tag |-> tag, name |-> SpanAscii(names, tag),
     end |-> SpanUtf16(names, SpanAscii(names, tag))]

\* What a pass gives.
LEMMA PassIs ==
  ASSUME names \in Seq(NameBytes), NEW n \in Nat
  PROVE  Pairs(n, Pass(n))
<1> DEFINE Body(f) == [i \in 0..n |-> PairAt(IF i = 0 THEN 0 ELSE f[i - 1].end)]
           at == CHOOSE f : f = Body(f)
           g == [i \in 1..n |-> [x \in Cursor |-> PairAt(x.end)]]
<1>1. \A t \in Cursors : PairAt(t) \in Cursor
  BY SpanAsciiIs, SpanUtf16Is DEF Cursors, Cursor, PairAt
<1>2. \A x \in Cursor : x.end \in Cursors
  BY DEF Cursor
<1>3. 0 \in Cursors
  BY DEF Cursors
<1> DEFINE a == PairAt(0)
<1>4. a \in Cursor /\ g \in [1..n -> [Cursor -> Cursor]]
  BY <1>1, <1>2, <1>3
<1> HIDE DEF a, g
<1>5. Iterates(n, Cursor, a, g)
  BY <1>4, Iteration
<1>6. PICK f \in [0..n -> Cursor] : f[0] = a /\ \A i \in 1..n : f[i] = g[i][f[i - 1]]
  BY <1>5, ZenonT(30) DEF Iterates
<1>7. ASSUME NEW i \in 1..n
      PROVE  i - 1 \in 0..n /\ f[i - 1] \in Cursor /\ f[i] = PairAt(f[i - 1].end)
  <2>1. i - 1 \in 0..n
    OBVIOUS
  <2>2. f[i - 1] \in Cursor
    BY <1>6, <2>1
  <2>3. f[i] = g[i][f[i - 1]]
    BY <1>6
  <2>4. g[i][f[i - 1]] = PairAt(f[i - 1].end)
    BY <2>2 DEF g
  <2> QED
    BY <2>1, <2>2, <2>3, <2>4
<1>8. f = Body(f)
  <2>1. ASSUME NEW i \in 0..n PROVE f[i] = PairAt(IF i = 0 THEN 0 ELSE f[i - 1].end)
    <3>1. CASE i = 0
      BY <1>6, <3>1 DEF a
    <3>2. CASE i # 0
      <4>1. i \in 1..n
        BY <3>2
      <4> QED
        BY <1>7, <3>2, <4>1
    <3> QED
      BY <3>1, <3>2
  <2> QED
    BY <1>6, <2>1
<1>9. at = Body(at)
  BY <1>8, ZenonT(30)
<1>10. Pass(n) = [i \in 1..n |-> at[i - 1]]
  BY ZenonT(30) DEF Pass, PairAt
<1> HIDE DEF at
<1>11. /\ at[0] = PairAt(0)
       /\ \A i \in 1..n : at[i] = PairAt(at[i - 1].end)
  <2>1. \A i \in 0..n : at[i] = PairAt(IF i = 0 THEN 0 ELSE at[i - 1].end)
    BY <1>9, ZenonT(30)
  <2>2. 0 \in 0..n /\ \A i \in 1..n : i \in 0..n /\ i # 0
    OBVIOUS
  <2> QED
    BY <2>1, <2>2, ZenonT(30)
<1>12. \A i \in 0..n : at[i] = f[i]
  <2>1. at[0] = f[0]
    BY <1>6, <1>11 DEF a
  <2>2. \A i \in 1..n : at[i - 1] = f[i - 1] => at[i] = f[i]
    BY <1>7, <1>11
  <2> HIDE DEF Body
  <2>3. GoAlike(n, at, f)
    BY <2>1, <2>2, ZenonT(30) DEF GoAlike
  <2>4. Agree(n, at, f)
    BY <2>3, SameSteps
  <2> QED
    BY <2>4, ZenonT(30) DEF Agree
<1> DEFINE p == [i \in 1..n |-> at[i - 1]]
<1>13. ASSUME NEW i \in 1..n
       PROVE  /\ p[i] = at[i - 1] /\ p[i] \in Cursor
              /\ p[i] = PairAt(IF i = 1 THEN 0 ELSE p[i - 1].end)
  <2>1. p[i] = at[i - 1] /\ i - 1 \in 0..n
    OBVIOUS
  <2>2. p[i] \in Cursor
    BY <1>6, <1>12, <2>1
  <2>3. CASE i = 1
    BY <1>11, <2>1, <2>2, <2>3
  <2>4. CASE i # 1
    <3>1. i - 1 \in 1..n /\ p[i - 1] = at[(i - 1) - 1]
      BY <2>4
    <3>2. at[i - 1] = PairAt(at[(i - 1) - 1].end)
      BY <1>11, <3>1
    <3> HIDE DEF p
    <3> QED
      BY <2>1, <2>2, <2>4, <3>1, <3>2
  <2> QED
    BY <2>3, <2>4
<1>14. p \in [1..n -> Cursor]
  BY <1>13
<1> HIDE DEF p
<1>15. ASSUME NEW i \in 1..n
       PROVE  /\ p[i].tag = IF i = 1 THEN 0 ELSE p[i - 1].end
              /\ p[i].name = SpanAscii(names, p[i].tag)
              /\ p[i].end = SpanUtf16(names, p[i].name)
  <2>1. ASSUME NEW t
        PROVE  /\ PairAt(t).tag = t /\ PairAt(t).name = SpanAscii(names, t)
               /\ PairAt(t).end = SpanUtf16(names, SpanAscii(names, t))
    BY DEF PairAt
  <2> QED
    BY <1>13, <2>1
<1>16. Pairs(n, p)
  BY <1>14, <1>15, ZenonT(30) DEF Pairs
<1> QED
  BY <1>10, <1>16 DEF p

\* The bytes s of a record are n pairs of strings: the i-th tag is from e[i - 1] to m[i], and its
\* name from there to e[i].
Split(s, n, e, m) ==
    /\ e \in [0..n -> Nat] /\ m \in [1..n -> Nat]
    /\ e[0] = 0 /\ e[n] = Len(s)
    /\ \A i \in 1..n : AsciiAt(s, e[i - 1], m[i]) /\ Utf16At(s, m[i], e[i])

PairEnds(n, p) == [i \in 0..n |-> IF i = 0 THEN 0 ELSE p[i].end]
PairMiddles(n, p) == [i \in 1..n |-> p[i].name]

\* A pass that is complete has split the record.
LEMMA PassSplits ==
  ASSUME names \in Seq(NameBytes), NEW n \in Nat, NEW p, Pairs(n, p), PassComplete(p)
  PROVE  Split(names, n, PairEnds(n, p), PairMiddles(n, p))
<1> DEFINE e == PairEnds(n, p)
           m == PairMiddles(n, p)
<1>1. Len(names) \in Nat /\ INVALID = -1
  BY DEF INVALID
<1>2. /\ p \in [1..n -> Cursor] /\ p \in Seq(Cursor) /\ Len(p) = n
      /\ (p = <<>> <=> n = 0)
  BY DEF Pairs
<1>3. \A i \in 1..n : p[i].tag \in Cursors /\ p[i].name \in Cursors /\ p[i].end \in Cursors
  BY <1>2 DEF Cursor
<1>4. n # 0 => p[n].end = Len(names)
  BY <1>2 DEF PassComplete
<1>5. n = 0 => Len(names) = 0
  BY <1>2 DEF PassComplete
<1>6. ASSUME NEW i \in 1..n
      PROVE  /\ p[i].name # INVALID =>
                    p[i].tag # INVALID /\ AsciiAt(names, p[i].tag, p[i].name)
             /\ p[i].end # INVALID =>
                    p[i].name # INVALID /\ Utf16At(names, p[i].name, p[i].end)
  <2>1. p[i].name = SpanAscii(names, p[i].tag) /\ p[i].end = SpanUtf16(names, p[i].name)
    BY ZenonT(30) DEF Pairs
  <2>2. p[i].tag \in -1..Len(names) /\ p[i].name \in -1..Len(names)
    BY <1>3 DEF Cursors
  <2> QED
    BY <2>1, <2>2, SpanAsciiIs, SpanUtf16Is, ZenonT(30)
<1>7. \A i \in 1..n : p[i].end # INVALID
  <2> DEFINE Bad == {i \in 1..n : p[i].end = INVALID}
  <2>1. SUFFICES ASSUME Bad # {} PROVE FALSE
    OBVIOUS
  <2>2. Bad \subseteq Nat /\ \A i \in Bad : i <= n
    OBVIOUS
  <2>3. PICK i \in Bad : \A j \in Bad : j <= i
    <3> HIDE DEF Bad
    <3> QED
      BY <2>1, <2>2, Greatest, ZenonT(30)
  <2>4. i # n
    BY <1>1, <1>4, <2>3
  <2>5. i + 1 \in 1..n /\ (i + 1) - 1 = i /\ i + 1 # 1 /\ i \in 1..n
    BY <2>3, <2>4
  <2>6. p[i + 1].tag = INVALID
    <3>1. p[i + 1].tag = IF i + 1 = 1 THEN 0 ELSE p[(i + 1) - 1].end
      BY <2>5, ZenonT(30) DEF Pairs
    <3> QED
      BY <2>3, <2>5, <3>1
  <2>7. p[i + 1].end = INVALID
    BY <1>6, <2>5, <2>6
  <2>8. i + 1 \in Bad
    BY <2>5, <2>7
  <2> QED
    BY <2>3, <2>5, <2>8
<1>8. ASSUME NEW i \in 1..n
      PROVE  /\ p[i].tag = e[i - 1] /\ p[i].name = m[i] /\ p[i].end = e[i]
             /\ m[i] \in Nat /\ e[i] \in Nat
             /\ AsciiAt(names, e[i - 1], m[i]) /\ Utf16At(names, m[i], e[i])
  <2>1. p[i].tag = e[i - 1] /\ p[i].name = m[i] /\ p[i].end = e[i]
    <3>1. i - 1 \in 0..n /\ i \in 0..n /\ i # 0 /\ (i = 1 <=> i - 1 = 0)
      OBVIOUS
    <3>2. p[i].tag = IF i = 1 THEN 0 ELSE p[i - 1].end
      BY ZenonT(30) DEF Pairs
    <3> QED
      BY <3>1, <3>2 DEF PairEnds, PairMiddles
  <2> HIDE DEF e, m
  <2>2. m[i] \in Nat /\ e[i] \in Nat
    BY <1>1, <1>3, <1>6, <1>7, <2>1 DEF Cursors
  <2> QED
    BY <1>6, <1>7, <2>1, <2>2
<1>9. e \in [0..n -> Nat] /\ m \in [1..n -> Nat]
  <2>1. \A i \in 0..n : (IF i = 0 THEN 0 ELSE p[i].end) \in Nat
    BY <1>8
  <2>2. \A i \in 1..n : p[i].name \in Nat
    BY <1>8
  <2> QED
    BY <2>1, <2>2 DEF PairEnds, PairMiddles
<1>10. e[0] = 0 /\ e[n] = Len(names)
  BY <1>1, <1>4, <1>5 DEF PairEnds
<1> HIDE DEF e, m
<1>11. Split(names, n, e, m)
  BY <1>8, <1>9, <1>10 DEF Split
<1> QED
  BY <1>11 DEF e, m

\* The names and the tags of s are in d, the names first: the i-th name ends at no[i]
\* and the i-th tag at to[i].
PackedAs(s, d, n, e, m, no, to) ==
    /\ no \in [0..n -> Nat] /\ to \in [0..n -> Nat]
    /\ no[0] = 0 /\ to[0] = no[n] /\ to[n] <= Len(d)
    /\ \A i \in 1..n : /\ no[i] = no[i - 1] + (e[i] - m[i])
                       /\ to[i] = to[i - 1] + (m[i] - e[i - 1])
    /\ \A i \in 1..n : \A k \in 1..(e[i] - m[i]) : d[no[i - 1] + k] = s[m[i] + k]
    /\ \A i \in 1..n : \A k \in 1..(m[i] - e[i - 1]) : d[to[i - 1] + k] = s[e[i - 1] + k]

IsPacked(s, d, n) ==
    /\ d \in Seq(NameBytes)
    /\ \E e, m, no, to : Split(s, n, e, m) /\ PackedAs(s, d, n, e, m, no, to)

\* What is between two places of a sequence.
IsPart(r, s, a, b) ==
    /\ r \in Seq(NameBytes) /\ Len(r) = b - a
    /\ \A k \in 1..(b - a) : r[k] = s[a + k]

\* A part of a sequence.
LEMMA PartIs ==
  ASSUME NEW s \in Seq(NameBytes), NEW a \in Nat, NEW b \in Nat, a <= b, b <= Len(s)
  PROVE  IsPart(SubSeq(s, a + 1, b), s, a, b)
<1>1. SubSeq(s, a + 1, b) = [i \in 1..(b - a) |-> s[a + i]]
  OBVIOUS
<1>2. \A i \in 1..(b - a) : s[a + i] \in NameBytes
  OBVIOUS
<1> QED
  BY <1>1, <1>2 DEF IsPart

\* The places of a split are in order.
LEMMA SplitOrder ==
  ASSUME NEW s \in Seq(NameBytes), NEW n \in Nat, NEW e, NEW m, Split(s, n, e, m), NEW i \in 1..n
  PROVE  /\ i - 1 \in 0..n /\ i \in 0..n
         /\ e[i - 1] \in Nat /\ m[i] \in Nat /\ e[i] \in Nat
         /\ e[i - 1] < m[i] /\ m[i] + 2 <= e[i] /\ m[i] <= Len(s) /\ e[i] <= Len(s)
         /\ (e[i] - m[i]) % 2 = 0
         /\ AsciiAt(s, e[i - 1], m[i]) /\ Utf16At(s, m[i], e[i])
<1>1. i - 1 \in 0..n /\ i \in 0..n
  OBVIOUS
<1>2. e[i - 1] \in Nat /\ m[i] \in Nat /\ e[i] \in Nat
  BY <1>1 DEF Split
<1>3. AsciiAt(s, e[i - 1], m[i]) /\ Utf16At(s, m[i], e[i])
  BY DEF Split
<1>4. m[i] \in (e[i - 1] + 1)..Len(s) /\ e[i] \in (m[i] + 2)..Len(s) /\ (e[i] - m[i]) % 2 = 0
  BY <1>3 DEF AsciiAt, Utf16At, Ends16
<1> QED
  BY <1>1, <1>2, <1>3, <1>4

\* What the decoder packs, whatever is behind it in the memory.
LEMMA PackedIs ==
  ASSUME names \in Seq(NameBytes), NEW n \in Nat, NEW p, Pairs(n, p), PassComplete(p)
  PROVE  /\ Packed(p) \in Seq(NameBytes)
         /\ \A rest \in Seq(NameBytes) : IsPacked(names, Packed(p) \o rest, n)
<1> DEFINE e == PairEnds(n, p)
           m == PairMiddles(n, p)
           ns == [i \in 1..n |-> SubSeq(names, p[i].name + 1, p[i].end)]
           ts == [i \in 1..n |-> SubSeq(names, p[i].tag + 1, p[i].name)]
<1>1. Split(names, n, e, m)
  BY PassSplits
<1>2. DOMAIN p = 1..n
  BY DEF Pairs
<1>3. Packed(p) = Joined(ns) \o Joined(ts)
  BY <1>2, ZenonT(30) DEF Packed
<1>4. ASSUME NEW i \in 1..n PROVE p[i].tag = e[i - 1] /\ p[i].name = m[i] /\ p[i].end = e[i]
  <2>1. i - 1 \in 0..n /\ i \in 0..n /\ i # 0 /\ (i = 1 <=> i - 1 = 0)
    OBVIOUS
  <2>2. p[i].tag = IF i = 1 THEN 0 ELSE p[i - 1].end
    BY ZenonT(30) DEF Pairs
  <2> QED
    BY <2>1, <2>2 DEF PairEnds, PairMiddles
<1> HIDE DEF e, m
<1>5. ASSUME NEW i \in 1..n
      PROVE  /\ ns[i] \in Seq(NameBytes) /\ Len(ns[i]) = e[i] - m[i]
             /\ \A k \in 1..(e[i] - m[i]) : ns[i][k] = names[m[i] + k]
             /\ ts[i] \in Seq(NameBytes) /\ Len(ts[i]) = m[i] - e[i - 1]
             /\ \A k \in 1..(m[i] - e[i - 1]) : ts[i][k] = names[e[i - 1] + k]
  <2>1. /\ e[i - 1] \in Nat /\ m[i] \in Nat /\ e[i] \in Nat
        /\ e[i - 1] < m[i] /\ m[i] + 2 <= e[i] /\ m[i] <= Len(names) /\ e[i] <= Len(names)
    BY <1>1, SplitOrder
  <2>2. e[i - 1] <= m[i] /\ m[i] <= e[i]
    BY <2>1
  <2>3. /\ ns[i] = SubSeq(names, m[i] + 1, e[i])
        /\ ts[i] = SubSeq(names, e[i - 1] + 1, m[i])
    BY <1>4, ZenonT(30)
  <2> HIDE DEF ns, ts
  <2>4. IsPart(ns[i], names, m[i], e[i])
    BY <2>1, <2>2, <2>3, PartIs, ZenonT(30)
  <2>5. IsPart(ts[i], names, e[i - 1], m[i])
    BY <2>1, <2>2, <2>3, PartIs, ZenonT(30)
  <2> QED
    BY <2>4, <2>5, ZenonT(30) DEF IsPart
<1>6. ns \in [1..n -> Seq(NameBytes)] /\ ts \in [1..n -> Seq(NameBytes)]
  BY <1>5
<1> HIDE DEF ns, ts
<1> DEFINE N == Joined(ns)
           T == Joined(ts)
<1>7. IsJoined(NameBytes, N, n, ns) /\ IsJoined(NameBytes, T, n, ts)
  BY <1>6, JoinedIs
<1> HIDE DEF N, T
<1>8. N \in Seq(NameBytes) /\ T \in Seq(NameBytes)
  BY <1>7 DEF IsJoined
<1>9. PICK no : JoinedAt(N, n, ns, no)
  BY <1>7 DEF IsJoined
<1>10. PICK off : JoinedAt(T, n, ts, off)
  BY <1>7 DEF IsJoined
<1> DEFINE to == [i \in 0..n |-> no[n] + off[i]]
<1>11. /\ no \in [0..n -> Nat] /\ no[0] = 0 /\ no[n] = Len(N) /\ no[n] \in Nat
       /\ off \in [0..n -> Nat] /\ off[0] = 0 /\ off[n] = Len(T) /\ off[n] \in Nat
  <2>1. n \in 0..n
    OBVIOUS
  <2> QED
    BY <1>9, <1>10, <2>1 DEF JoinedAt
<1>12. to \in [0..n -> Nat] /\ to[0] = no[n] /\ to[n] = no[n] + off[n]
  <2>1. \A i \in 0..n : no[n] + off[i] \in Nat
    BY <1>11
  <2>2. 0 \in 0..n /\ n \in 0..n /\ no[n] + off[0] = no[n]
    BY <1>11
  <2> QED
    BY <2>1, <2>2, ZenonT(30)
<1>13. Packed(p) \in Seq(NameBytes) /\ Len(Packed(p)) = no[n] + off[n]
  BY <1>3, <1>8, <1>11 DEF N, T
<1>14. ASSUME NEW rest \in Seq(NameBytes) PROVE IsPacked(names, Packed(p) \o rest, n)
  <2> DEFINE d == Packed(p) \o rest
  <2>1. d \in Seq(NameBytes) /\ to[n] <= Len(d)
    BY <1>12, <1>13
  <2>2. \A i \in 1..no[n] : d[i] = N[i]
    <3>1. \A i \in 1..no[n] : i \in 1..Len(Packed(p))
      BY <1>11, <1>13
    <3>2. \A i \in 1..Len(Packed(p)) : d[i] = Packed(p)[i]
      BY <1>13
    <3>3. \A i \in 1..Len(N) : (N \o T)[i] = N[i]
      BY <1>8
    <3> QED
      BY <1>3, <1>11, <3>1, <3>2, <3>3 DEF N, T
  <2>3. \A i \in 1..off[n] : d[no[n] + i] = T[i]
    <3>1. \A i \in 1..off[n] : no[n] + i \in 1..Len(Packed(p))
      BY <1>11, <1>13
    <3>2. \A i \in 1..Len(Packed(p)) : d[i] = Packed(p)[i]
      BY <1>13
    <3>3. \A i \in 1..Len(T) : (N \o T)[Len(N) + i] = T[i]
      BY <1>8
    <3> QED
      BY <1>3, <1>11, <3>1, <3>2, <3>3 DEF N, T
  <2> HIDE DEF d
  <2>4. ASSUME NEW i \in 1..n
        PROVE  /\ no[i] = no[i - 1] + (e[i] - m[i])
               /\ to[i] = to[i - 1] + (m[i] - e[i - 1])
               /\ \A k \in 1..(e[i] - m[i]) : d[no[i - 1] + k] = names[m[i] + k]
               /\ \A k \in 1..(m[i] - e[i - 1]) : d[to[i - 1] + k] = names[e[i - 1] + k]
    <3>1. i - 1 \in 0..n /\ i \in 0..n
      OBVIOUS
    <3>2. no[i - 1] \in Nat /\ off[i - 1] \in Nat /\ off[i] \in Nat
      BY <1>11, <3>1
    <3>3. to[i] = no[n] + off[i] /\ to[i - 1] = no[n] + off[i - 1]
      BY <3>1
    <3> HIDE DEF to
    <3>4. /\ no[i] = no[i - 1] + Len(ns[i])
          /\ \A k \in 1..Len(ns[i]) : no[i - 1] + k <= no[n] /\ N[no[i - 1] + k] = ns[i][k]
      BY <1>9, ZenonT(30) DEF JoinedAt
    <3>5. /\ off[i] = off[i - 1] + Len(ts[i])
          /\ \A k \in 1..Len(ts[i]) : off[i - 1] + k <= off[n] /\ T[off[i - 1] + k] = ts[i][k]
      BY <1>10, ZenonT(30) DEF JoinedAt
    <3>6. Len(ns[i]) = e[i] - m[i] /\ Len(ts[i]) = m[i] - e[i - 1]
          /\ Len(ns[i]) \in Nat /\ Len(ts[i]) \in Nat
      BY <1>5
    <3>7. ASSUME NEW k \in 1..(e[i] - m[i]) PROVE d[no[i - 1] + k] = names[m[i] + k]
      <4>1. no[i - 1] + k \in 1..no[n] /\ N[no[i - 1] + k] = ns[i][k]
        <5>1. k \in 1..Len(ns[i]) /\ k \in Nat /\ k >= 1
          BY <3>6
        <5>2. no[i - 1] + k <= no[n] /\ N[no[i - 1] + k] = ns[i][k]
          BY <3>4, <5>1, ZenonT(30)
        <5>3. \A x, y, z \in Nat : z >= 1 /\ x + z <= y => x + z \in 1..y
          OBVIOUS
        <5> QED
          BY <1>11, <3>2, <5>1, <5>2, <5>3, ZenonT(30)
      <4>2. ns[i][k] = names[m[i] + k]
        BY <1>5
      <4> QED
        BY <2>2, <4>1, <4>2
    <3>8. ASSUME NEW k \in 1..(m[i] - e[i - 1]) PROVE d[to[i - 1] + k] = names[e[i - 1] + k]
      <4>1. off[i - 1] + k \in 1..off[n] /\ T[off[i - 1] + k] = ts[i][k]
        <5>1. k \in 1..Len(ts[i]) /\ k \in Nat /\ k >= 1
          BY <3>6
        <5>2. off[i - 1] + k <= off[n] /\ T[off[i - 1] + k] = ts[i][k]
          BY <3>5, <5>1, ZenonT(30)
        <5>3. \A x, y, z \in Nat : z >= 1 /\ x + z <= y => x + z \in 1..y
          OBVIOUS
        <5> QED
          BY <1>11, <3>2, <5>1, <5>2, <5>3, ZenonT(30)
      <4>2. ts[i][k] = names[e[i - 1] + k]
        BY <1>5, ZenonT(30)
      <4>3. d[no[n] + (off[i - 1] + k)] = T[off[i - 1] + k]
        BY <2>3, <4>1
      <4>4. to[i - 1] + k = no[n] + (off[i - 1] + k)
        BY <1>11, <3>2, <3>3
      <4> QED
        BY <4>1, <4>2, <4>3, <4>4
    <3>9. to[i] = to[i - 1] + (m[i] - e[i - 1])
      <4>1. off[i] = off[i - 1] + Len(ts[i]) /\ Len(ts[i]) = m[i] - e[i - 1]
        BY <3>5, <3>6, ZenonT(30)
      <4>2. to[i] = to[i - 1] + Len(ts[i])
        BY <1>11, <3>2, <3>3, <3>6, <4>1
      <4> QED
        BY <4>1, <4>2, ZenonT(30)
    <3> QED
      BY <3>4, <3>6, <3>7, <3>8, <3>9
  <2> HIDE DEF to
  <2>5. PackedAs(names, d, n, e, m, no, to)
    BY <1>11, <1>12, <2>1, <2>4, ZenonT(30) DEF PackedAs
  <2> QED
    BY <1>1, <2>1, <2>5, ZenonT(30) DEF IsPacked, d
<1> QED
  BY <1>13, <1>14

\* The index that is found in packed memory.
FoundIndex(n, no, to) ==
    [name |-> [i \in 1..n |-> no[i - 1]], tag |-> [i \in 1..n |-> to[i - 1]], end |-> to[n]]

\* Where the strings are is found anew from the packed memory.
LEMMA IndexIs ==
  ASSUME NEW s \in Seq(NameBytes), NEW n \in Nat, NEW e, NEW m, NEW no, NEW to,
         name_data \in Seq(NameBytes), Split(s, n, e, m), PackedAs(s, name_data, n, e, m, no, to)
  PROVE  IndexFrom(n) = FoundIndex(n, no, to)
<1> DEFINE NameBody(f) == [i \in 0..n |-> IF i = 0 THEN 0 ELSE SpanUtf16(name_data, f[i - 1])]
           name == CHOOSE f : f = NameBody(f)
           TagBody(f) ==
               [i \in 0..n |-> IF i = 0 THEN name[n] ELSE SpanAscii(name_data, f[i - 1])]
           tag == CHOOSE f : f = TagBody(f)
<1>1. /\ no \in [0..n -> Nat] /\ to \in [0..n -> Nat]
      /\ no[0] = 0 /\ to[0] = no[n] /\ to[n] <= Len(name_data)
  BY DEF PackedAs
<1>2. ASSUME NEW i \in 1..n
      PROVE  /\ e[i - 1] \in Nat /\ m[i] \in Nat /\ e[i] \in Nat
             /\ e[i - 1] < m[i] /\ m[i] + 2 <= e[i]
             /\ AsciiAt(s, e[i - 1], m[i]) /\ Utf16At(s, m[i], e[i])
  BY SplitOrder
<1>3. ASSUME NEW i \in 1..n
      PROVE  /\ no[i] = no[i - 1] + (e[i] - m[i]) /\ to[i] = to[i - 1] + (m[i] - e[i - 1])
             /\ no[i - 1] \in Nat /\ no[i] \in Nat /\ to[i - 1] \in Nat /\ to[i] \in Nat
             /\ no[i - 1] <= no[i] /\ to[i - 1] <= to[i]
  <2>1. no[i] = no[i - 1] + (e[i] - m[i]) /\ to[i] = to[i - 1] + (m[i] - e[i - 1])
    BY ZenonT(30) DEF PackedAs
  <2>2. i - 1 \in 0..n /\ i \in 0..n
    OBVIOUS
  <2>3. no[i - 1] \in Nat /\ no[i] \in Nat /\ to[i - 1] \in Nat /\ to[i] \in Nat
    BY <1>1, <2>2
  <2>4. e[i] - m[i] \in Nat /\ m[i] - e[i - 1] \in Nat
    BY <1>2
  <2>5. \A x, z \in Nat : x <= x + z
    OBVIOUS
  <2>6. no[i - 1] <= no[i] /\ to[i - 1] <= to[i]
    BY <2>1, <2>3, <2>4, <2>5, ZenonT(30)
  <2> QED
    BY <2>1, <2>3, <2>6
<1>4. \A i \in 0..n : no[i] <= no[n] /\ to[i] <= to[n]
  <2>1. (\A i \in 1..n : no[i - 1] <= no[i]) /\ (\A i \in 1..n : to[i - 1] <= to[i])
    BY <1>3
  <2> QED
    BY <1>1, <2>1, Rising, ZenonT(30)
<1>5. ASSUME NEW i \in 1..n PROVE SpanUtf16(name_data, no[i - 1]) = no[i]
  <2>1. no[i - 1] \in Nat /\ m[i] \in Nat /\ e[i] \in Int /\ Utf16At(s, m[i], e[i])
    BY <1>2, <1>3
  <2>2. \A k \in 1..(e[i] - m[i]) : name_data[no[i - 1] + k] = s[m[i] + k]
    BY ZenonT(30) DEF PackedAs
  <2>3. no[i - 1] + (e[i] - m[i]) <= Len(name_data)
    <3>1. no[i] = no[i - 1] + (e[i] - m[i]) /\ no[i] \in Nat /\ i \in 0..n
      BY <1>3
    <3>2. no[i] <= no[n] /\ no[n] \in Nat /\ to[n] \in Nat /\ no[n] <= to[n]
      BY <1>1, <1>4, <3>1
    <3>3. Len(name_data) \in Nat
      OBVIOUS
    <3> QED
      BY <1>1, <3>1, <3>2, <3>3
  <2>4. SpanUtf16(name_data, no[i - 1]) = no[i - 1] + (e[i] - m[i])
    BY <2>1, <2>2, <2>3, SpanUtf16Copy, ZenonT(30)
  <2> QED
    BY <1>3, <2>4
<1>6. ASSUME NEW i \in 1..n PROVE SpanAscii(name_data, to[i - 1]) = to[i]
  <2>1. to[i - 1] \in Nat /\ e[i - 1] \in Nat /\ m[i] \in Int /\ AsciiAt(s, e[i - 1], m[i])
    BY <1>2, <1>3
  <2>2. \A k \in 1..(m[i] - e[i - 1]) : name_data[to[i - 1] + k] = s[e[i - 1] + k]
    BY ZenonT(30) DEF PackedAs
  <2>3. to[i - 1] + (m[i] - e[i - 1]) <= Len(name_data)
    <3>1. to[i] = to[i - 1] + (m[i] - e[i - 1]) /\ to[i] \in Nat /\ i \in 0..n
      BY <1>3
    <3>2. to[i] <= to[n] /\ to[n] \in Nat /\ to[n] \in Nat /\ no[n] <= to[n]
      BY <1>1, <1>4, <3>1
    <3>3. Len(name_data) \in Nat
      OBVIOUS
    <3> QED
      BY <1>1, <3>1, <3>2, <3>3
  <2>4. SpanAscii(name_data, to[i - 1]) = to[i - 1] + (m[i] - e[i - 1])
    BY <2>1, <2>2, <2>3, SpanAsciiCopy, ZenonT(30)
  <2> QED
    BY <1>3, <2>4
<1>7. name = NameBody(name)
  <2>1. no = NameBody(no)
    <3>1. ASSUME NEW i \in 0..n
          PROVE  no[i] = IF i = 0 THEN 0 ELSE SpanUtf16(name_data, no[i - 1])
      <4>1. i # 0 => i \in 1..n
        OBVIOUS
      <4> QED
        BY <1>1, <1>5, <4>1
    <3> QED
      BY <1>1, <3>1
  <2> QED
    BY <2>1, ZenonT(30)
<1>8. IndexFrom(n) = [name |-> [i \in 1..n |-> name[i - 1]],
                      tag |-> [i \in 1..n |-> tag[i - 1]], end |-> tag[n]]
  BY ZenonT(30) DEF IndexFrom
<1> HIDE DEF name
<1>9. \A i \in 0..n : name[i] = no[i]
  <2>1. \A i \in 0..n : name[i] = IF i = 0 THEN 0 ELSE SpanUtf16(name_data, name[i - 1])
    BY <1>7, ZenonT(30)
  <2>2. 0 \in 0..n /\ \A i \in 1..n : i \in 0..n /\ i # 0
    OBVIOUS
  <2>3. name[0] = no[0]
    BY <1>1, <2>1, <2>2
  <2>4. \A i \in 1..n : name[i - 1] = no[i - 1] => name[i] = no[i]
    BY <1>5, <2>1, <2>2
  <2> HIDE DEF NameBody
  <2>5. GoAlike(n, name, no)
    BY <2>3, <2>4, ZenonT(30) DEF GoAlike
  <2>6. Agree(n, name, no)
    BY <2>5, SameSteps
  <2> QED
    BY <2>6, ZenonT(30) DEF Agree
<1>10. name[n] = to[0]
  BY <1>1, <1>9
<1>11. tag = TagBody(tag)
  <2>1. to = TagBody(to)
    <3>1. ASSUME NEW i \in 0..n
          PROVE  to[i] = IF i = 0 THEN name[n] ELSE SpanAscii(name_data, to[i - 1])
      <4>1. i # 0 => i \in 1..n
        OBVIOUS
      <4> QED
        BY <1>6, <1>10, <4>1
    <3> QED
      BY <1>1, <3>1
  <2> QED
    BY <2>1, ZenonT(30)
<1> HIDE DEF tag
<1>12. \A i \in 0..n : tag[i] = to[i]
  <2>1. \A i \in 0..n : tag[i] = IF i = 0 THEN name[n] ELSE SpanAscii(name_data, tag[i - 1])
    BY <1>11, ZenonT(30)
  <2>2. 0 \in 0..n /\ \A i \in 1..n : i \in 0..n /\ i # 0
    OBVIOUS
  <2>3. tag[0] = to[0]
    BY <1>10, <2>1, <2>2
  <2>4. \A i \in 1..n : tag[i - 1] = to[i - 1] => tag[i] = to[i]
    BY <1>6, <2>1, <2>2
  <2> HIDE DEF TagBody
  <2>5. GoAlike(n, tag, to)
    BY <2>3, <2>4, ZenonT(30) DEF GoAlike
  <2>6. Agree(n, tag, to)
    BY <2>5, SameSteps
  <2> QED
    BY <2>6, ZenonT(30) DEF Agree
<1>13. \A i \in 1..n : name[i - 1] = no[i - 1] /\ tag[i - 1] = to[i - 1]
  BY <1>9, <1>12
<1>14. [i \in 1..n |-> name[i - 1]] = [i \in 1..n |-> no[i - 1]]
       /\ [i \in 1..n |-> tag[i - 1]] = [i \in 1..n |-> to[i - 1]]
  BY <1>13, ZenonT(30)
<1>15. tag[n] = to[n]
  BY <1>12
<1> QED
  BY <1>8, <1>14, <1>15, ZenonT(30) DEF FoundIndex

\* The packed strings are as long as the record, no pair is shorter than three bytes,
\* and names begin at even offsets.
LEMMA PackedSizes ==
  ASSUME NEW s \in Seq(NameBytes), NEW n \in Nat, NEW e, NEW m, NEW no, NEW to, NEW d,
         Split(s, n, e, m), PackedAs(s, d, n, e, m, no, to)
  PROVE  /\ to[n] = Len(s) /\ 3 * n <= Len(s)
         /\ \A i \in 0..n : no[i] % 2 = 0
<1>1. /\ no \in [0..n -> Nat] /\ to \in [0..n -> Nat] /\ no[0] = 0 /\ to[0] = no[n]
  BY DEF PackedAs
<1>2. e \in [0..n -> Nat] /\ e[0] = 0 /\ e[n] = Len(s)
  BY DEF Split
<1>3. ASSUME NEW i \in 1..n
      PROVE  /\ no[i] = no[i - 1] + (e[i] - m[i]) /\ to[i] = to[i - 1] + (m[i] - e[i - 1])
             /\ no[i - 1] \in Nat /\ no[i] \in Nat /\ to[i - 1] \in Nat /\ to[i] \in Nat
             /\ m[i] \in Nat /\ e[i - 1] \in Nat /\ e[i] \in Nat
             /\ e[i - 1] < m[i] /\ m[i] + 2 <= e[i] /\ (e[i] - m[i]) % 2 = 0
  <2>1. no[i] = no[i - 1] + (e[i] - m[i]) /\ to[i] = to[i - 1] + (m[i] - e[i - 1])
    BY ZenonT(30) DEF PackedAs
  <2>2. i - 1 \in 0..n /\ i \in 0..n
    OBVIOUS
  <2>3. no[i - 1] \in Nat /\ no[i] \in Nat /\ to[i - 1] \in Nat /\ to[i] \in Nat
    BY <1>1, <2>2
  <2>4. /\ m[i] \in Nat /\ e[i - 1] \in Nat /\ e[i] \in Nat
        /\ e[i - 1] < m[i] /\ m[i] + 2 <= e[i] /\ (e[i] - m[i]) % 2 = 0
    BY SplitOrder, ZenonT(30)
  <2> QED
    BY <2>1, <2>3, <2>4
<1>4. to[n] = Len(s)
  <2> DEFINE p == [i \in 0..n |-> no[i] + (to[i] - to[0])]
  <2>1. 0 \in 0..n /\ n \in 0..n
    OBVIOUS
  <2>2. to[0] \in Nat /\ no[n] \in Nat /\ to[n] \in Nat
    BY <1>1, <2>1
  <2>3. p[0] = e[0]
    BY <1>1, <1>2, <2>1, <2>2
  <2>4. ASSUME NEW i \in 1..n, p[i - 1] = e[i - 1] PROVE p[i] = e[i]
    <3>1. p[i - 1] = no[i - 1] + (to[i - 1] - to[0]) /\ p[i] = no[i] + (to[i] - to[0])
      OBVIOUS
    <3> HIDE DEF p
    <3>2. /\ no[i] = no[i - 1] + (e[i] - m[i]) /\ to[i] = to[i - 1] + (m[i] - e[i - 1])
          /\ no[i - 1] \in Nat /\ to[i - 1] \in Nat
          /\ m[i] \in Nat /\ e[i - 1] \in Nat /\ e[i] \in Nat
      BY <1>3, ZenonT(30)
    <3> QED
      <4>1. p[i] = (no[i - 1] + (e[i] - m[i])) + ((to[i - 1] + (m[i] - e[i - 1])) - to[0])
        BY <3>1, <3>2, ZenonT(30)
      <4>2. no[i - 1] + (to[i - 1] - to[0]) = e[i - 1]
        BY <2>4, <3>1, ZenonT(30)
      <4> DEFINE u == e[i - 1]
                 v == m[i]
                 w == e[i]
                 x == no[i - 1]
                 y == to[i - 1]
                 z == to[0]
      <4>3. /\ u \in Nat /\ v \in Nat /\ w \in Nat /\ x \in Nat /\ y \in Nat /\ z \in Nat
            /\ p[i] = (x + (w - v)) + ((y + (v - u)) - z) /\ x + (y - z) = u
        BY <2>2, <3>2, <4>1, <4>2, ZenonT(30)
      <4> HIDE DEF u, v, w, x, y, z
      <4>4. p[i] = w
        BY <4>3
      <4> QED
        BY <4>4 DEF w
  <2>5. p[n] = no[n] + (to[n] - to[0])
    BY <2>1
  <2> HIDE DEF p
  <2>6. p[n] = e[n]
    <3>1. GoAlike(n, p, e)
      BY <2>3, <2>4, ZenonT(30) DEF GoAlike
    <3>2. Agree(n, p, e)
      BY <3>1, SameSteps
    <3> QED
      BY <2>1, <3>2, ZenonT(30) DEF Agree
  <2> QED
    BY <1>1, <1>2, <2>2, <2>5, <2>6
<1>5. \A i \in 0..n : no[i] % 2 = 0 /\ 3 * i <= e[i]
  <2> DEFINE S == {i \in Nat : i <= n => no[i] % 2 = 0 /\ 3 * i <= e[i]}
  <2>1. 0 \in S
    BY <1>1, <1>2
  <2>2. ASSUME NEW i \in Nat, i \in S PROVE i + 1 \in S
    <3>1. SUFFICES ASSUME i + 1 <= n PROVE no[i + 1] % 2 = 0 /\ 3 * (i + 1) <= e[i + 1]
      BY <2>2
    <3>2. i + 1 \in 1..n /\ (i + 1) - 1 = i /\ no[i] % 2 = 0 /\ 3 * i <= e[i]
      BY <2>2, <3>1
    <3>3. /\ no[i + 1] = no[i] + (e[i + 1] - m[i + 1])
          /\ no[i] \in Nat /\ m[i + 1] \in Nat /\ e[i] \in Nat /\ e[i + 1] \in Nat
          /\ e[i] < m[i + 1] /\ m[i + 1] + 2 <= e[i + 1] /\ (e[i + 1] - m[i + 1]) % 2 = 0
      BY <1>3, <3>2
    <3>4. 3 * (i + 1) <= e[i + 1]
      BY <3>2, <3>3
    <3>5. \A x, y \in Int : x % 2 = 0 /\ y % 2 = 0 => (x + y) % 2 = 0
      OBVIOUS
    <3>6. no[i] \in Int /\ e[i + 1] - m[i + 1] \in Int
      BY <3>3
    <3>7. no[i + 1] % 2 = 0
      BY <3>2, <3>3, <3>5, <3>6, ZenonT(30)
    <3> QED
      BY <3>4, <3>7
  <2>3. Nat \subseteq S
    <3> HIDE DEF S
    <3> QED
      BY <2>1, <2>2, SetInduction
  <2> QED
    BY <2>3
<1>6. n \in 0..n
  OBVIOUS
<1> QED
  BY <1>2, <1>4, <1>5, <1>6

\* A sequence of two parts.
IsTwo(r, x, y) ==
    /\ r \in Seq(NameBytes) /\ Len(r) = Len(x) + Len(y)
    /\ \A k \in 1..Len(x) : r[k] = x[k]
    /\ \A k \in 1..Len(y) : r[Len(x) + k] = y[k]

\* What a concatenation gives.
LEMMA TwoIs ==
  ASSUME NEW x \in Seq(NameBytes), NEW y \in Seq(NameBytes)
  PROVE  IsTwo(x \o y, x, y)
BY DEF IsTwo

\* The strings that an index leads to, put together in their old order.
Restored(s, d, n, ix) ==
    LET part(from, to) == SubSeq(d, from + 1, to)
        tag(i) == part(ix.tag[i], NextStart(ix.tag, i, ix.end))
        name(i) == part(ix.name[i], NextStart(ix.name, i, ix.tag[1]))
    IN  s = Joined([i \in 1..n |-> tag(i) \o name(i)])

\* The index of packed strings leads to those of the record.
LEMMA IndexRestores ==
  ASSUME NEW s \in Seq(NameBytes), NEW n \in Nat, n > 0, NEW e, NEW m, NEW no, NEW to,
         NEW d \in Seq(NameBytes), Split(s, n, e, m), PackedAs(s, d, n, e, m, no, to)
  PROVE  Restored(s, d, n, FoundIndex(n, no, to))
<1> DEFINE ix == FoundIndex(n, no, to)
           ts == [i \in 1..n |-> SubSeq(d, to[i - 1] + 1, to[i])]
           ns == [i \in 1..n |-> SubSeq(d, no[i - 1] + 1, no[i])]
           ps == [i \in 1..n |-> ts[i] \o ns[i]]
<1>1. /\ no \in [0..n -> Nat] /\ to \in [0..n -> Nat] /\ no[0] = 0 /\ to[0] = no[n]
      /\ to[n] <= Len(d)
  BY DEF PackedAs
<1>2. e \in [0..n -> Nat] /\ e[0] = 0 /\ e[n] = Len(s)
  BY DEF Split
<1>3. ASSUME NEW i \in 1..n
      PROVE  /\ no[i] = no[i - 1] + (e[i] - m[i]) /\ to[i] = to[i - 1] + (m[i] - e[i - 1])
             /\ no[i - 1] \in Nat /\ no[i] \in Nat /\ to[i - 1] \in Nat /\ to[i] \in Nat
             /\ m[i] \in Nat /\ e[i - 1] \in Nat /\ e[i] \in Nat
             /\ e[i - 1] < m[i] /\ m[i] + 2 <= e[i]
             /\ no[i - 1] <= no[i] /\ to[i - 1] <= to[i]
  <2>1. no[i] = no[i - 1] + (e[i] - m[i]) /\ to[i] = to[i - 1] + (m[i] - e[i - 1])
    BY ZenonT(30) DEF PackedAs
  <2>2. i - 1 \in 0..n /\ i \in 0..n
    OBVIOUS
  <2>3. no[i - 1] \in Nat /\ no[i] \in Nat /\ to[i - 1] \in Nat /\ to[i] \in Nat
    BY <1>1, <2>2
  <2>4. /\ m[i] \in Nat /\ e[i - 1] \in Nat /\ e[i] \in Nat
        /\ e[i - 1] < m[i] /\ m[i] + 2 <= e[i]
    BY SplitOrder, ZenonT(30)
  <2>5. e[i] - m[i] \in Nat /\ m[i] - e[i - 1] \in Nat
    BY <2>4
  <2>6. \A x, z \in Nat : x <= x + z
    OBVIOUS
  <2>7. no[i - 1] <= no[i] /\ to[i - 1] <= to[i]
    BY <2>1, <2>3, <2>5, <2>6, ZenonT(30)
  <2> QED
    BY <2>1, <2>3, <2>4, <2>7
<1>4. \A i \in 0..n : no[i] <= no[n] /\ to[i] <= to[n]
  <2>1. (\A i \in 1..n : no[i - 1] <= no[i]) /\ (\A i \in 1..n : to[i - 1] <= to[i])
    BY <1>3
  <2> QED
    BY <1>1, <2>1, Rising, ZenonT(30)
<1>5. \A i \in 0..n : no[i] <= Len(d) /\ to[i] <= Len(d)
  <2>1. 0 \in 0..n /\ n \in 0..n /\ Len(d) \in Nat
    OBVIOUS
  <2>2. no[n] <= to[n] /\ to[n] \in Nat /\ no[n] \in Nat
    BY <1>1, <1>4, <2>1
  <2>3. \A i \in 0..n : no[i] \in Nat /\ to[i] \in Nat
    BY <1>1
  <2> QED
    BY <1>1, <1>4, <2>1, <2>2, <2>3
<1>6. ASSUME NEW i \in 1..n
      PROVE  /\ ix.tag[i] = to[i - 1] /\ NextStart(ix.tag, i, ix.end) = to[i]
             /\ ix.name[i] = no[i - 1] /\ NextStart(ix.name, i, ix.tag[1]) = no[i]
  <2>1. /\ ix.tag = [j \in 1..n |-> to[j - 1]] /\ ix.name = [j \in 1..n |-> no[j - 1]]
        /\ ix.end = to[n]
    BY DEF FoundIndex
  <2>2. Len(ix.tag) = n /\ Len(ix.name) = n
    BY <2>1
  <2>3. ix.tag[1] = to[0]
    BY <2>1
  <2> HIDE DEF ix
  <2>4. i < n => i + 1 \in 1..n /\ (i + 1) - 1 = i
    OBVIOUS
  <2>5. ~(i < n) => i = n
    OBVIOUS
  <2> QED
    BY <1>1, <2>1, <2>2, <2>3, <2>4, <2>5 DEF NextStart
<1>7. Restored(s, d, n, ix) <=> s = Joined(ps)
  <2> DEFINE part(from, upto) == SubSeq(d, from + 1, upto)
             tag(i) == part(ix.tag[i], NextStart(ix.tag, i, ix.end))
             name(i) == part(ix.name[i], NextStart(ix.name, i, ix.tag[1]))
  <2>1. Restored(s, d, n, ix) <=> s = Joined([i \in 1..n |-> tag(i) \o name(i)])
    <3> HIDE DEF ix
    <3> QED
      BY ZenonT(30) DEF Restored
  <2>2. ASSUME NEW i \in 1..n PROVE tag(i) = ts[i] /\ name(i) = ns[i]
    <3> HIDE DEF ix
    <3> QED
      BY <1>6, ZenonT(30)
  <2> HIDE DEF tag, name, ts, ns
  <2>3. [i \in 1..n |-> tag(i) \o name(i)] = ps
    BY <2>2, ZenonT(30)
  <2> QED
    BY <2>1, <2>3, ZenonT(30)
<1> HIDE DEF ix
<1>8. ASSUME NEW i \in 1..n
      PROVE  /\ ps[i] \in Seq(NameBytes) /\ Len(ps[i]) = e[i] - e[i - 1]
             /\ \A k \in 1..(e[i] - e[i - 1]) : ps[i][k] = s[e[i - 1] + k]
  <2> DEFINE a == m[i] - e[i - 1]
             b == e[i] - m[i]
  <2>1. a \in Nat /\ b \in Nat /\ to[i] - to[i - 1] = a /\ no[i] - no[i - 1] = b
        /\ a + b = e[i] - e[i - 1] /\ e[i - 1] + a = m[i]
    <3>1. /\ no[i] = no[i - 1] + (e[i] - m[i]) /\ to[i] = to[i - 1] + (m[i] - e[i - 1])
          /\ no[i - 1] \in Nat /\ to[i - 1] \in Nat
          /\ m[i] \in Nat /\ e[i - 1] \in Nat /\ e[i] \in Nat
          /\ e[i - 1] < m[i] /\ m[i] + 2 <= e[i]
      BY <1>3, ZenonT(30)
    <3> DEFINE u == e[i - 1]
               v == m[i]
               w == e[i]
               x == to[i - 1]
               y == no[i - 1]
    <3>2. /\ u \in Nat /\ v \in Nat /\ w \in Nat /\ x \in Nat /\ y \in Nat
          /\ u < v /\ v + 2 <= w /\ a = v - u /\ b = w - v
          /\ to[i] = x + a /\ no[i] = y + b
      BY <3>1, ZenonT(30)
    <3> HIDE DEF a, b, u, v, w, x, y
    <3>3. /\ a \in Nat /\ b \in Nat /\ to[i] - x = a /\ no[i] - y = b
          /\ a + b = w - u /\ u + a = v
      BY <3>2
    <3> QED
      BY <3>3, ZenonT(30) DEF u, v, w, x, y
  <2>2. to[i] <= Len(d) /\ no[i] <= Len(d)
    BY <1>5
  <2>3. IsPart(ts[i], d, to[i - 1], to[i])
    <3>1. ts[i] = SubSeq(d, to[i - 1] + 1, to[i])
      BY ZenonT(30)
    <3> HIDE DEF ts, ns, ps
    <3> QED
      BY <1>3, <2>2, <3>1, PartIs, ZenonT(30)
  <2>4. IsPart(ns[i], d, no[i - 1], no[i])
    <3>1. ns[i] = SubSeq(d, no[i - 1] + 1, no[i])
      BY ZenonT(30)
    <3> HIDE DEF ts, ns, ps
    <3> QED
      BY <1>3, <2>2, <3>1, PartIs, ZenonT(30)
  <2>5. ps[i] = ts[i] \o ns[i]
    BY ZenonT(30)
  <2> HIDE DEF ps, ts, ns, a, b
  <2>6. /\ ts[i] \in Seq(NameBytes) /\ Len(ts[i]) = a
        /\ \A k \in 1..a : ts[i][k] = d[to[i - 1] + k]
        /\ ns[i] \in Seq(NameBytes) /\ Len(ns[i]) = b
        /\ \A k \in 1..b : ns[i][k] = d[no[i - 1] + k]
    BY <2>1, <2>3, <2>4, ZenonT(30) DEF IsPart
  <2>7. /\ ps[i] \in Seq(NameBytes) /\ Len(ps[i]) = a + b
        /\ \A k \in 1..a : ps[i][k] = ts[i][k]
        /\ \A k \in 1..b : ps[i][a + k] = ns[i][k]
    <3>1. IsTwo(ps[i], ts[i], ns[i])
      BY <2>5, <2>6, TwoIs, ZenonT(30)
    <3> QED
      BY <2>6, <3>1, ZenonT(30) DEF IsTwo
  <2>8. /\ \A k \in 1..a : d[to[i - 1] + k] = s[e[i - 1] + k]
        /\ \A k \in 1..b : d[no[i - 1] + k] = s[m[i] + k]
    BY ZenonT(30) DEF PackedAs, a, b
  <2>9. ASSUME NEW k \in 1..(e[i] - e[i - 1]) PROVE ps[i][k] = s[e[i - 1] + k]
    <3>1. k \in 1..(a + b)
      BY <2>1
    <3>2. CASE k <= a
      <4>1. k \in 1..a
        BY <2>1, <3>1, <3>2
      <4>2. ps[i][k] = ts[i][k]
        BY <2>7, <4>1, ZenonT(30)
      <4> QED
        BY <2>6, <2>8, <4>1, <4>2
    <3>3. CASE ~(k <= a)
      <4>1. k - a \in 1..b /\ k = a + (k - a) /\ m[i] + (k - a) = e[i - 1] + k
        BY <1>3, <2>1, <3>1, <3>3
      <4>2. ps[i][k] = ns[i][k - a]
        <5>1. ps[i][a + (k - a)] = ns[i][k - a]
          BY <2>7, <4>1, ZenonT(30)
        <5> QED
          BY <4>1, <5>1, ZenonT(30)
      <4> QED
        BY <2>6, <2>8, <4>1, <4>2
    <3> QED
      BY <3>2, <3>3
  <2> QED
    BY <2>1, <2>7, <2>9
<1>9. ps \in [1..n -> Seq(NameBytes)]
  BY <1>8
<1> HIDE DEF ps
<1> DEFINE t == Joined(ps)
<1>10. IsJoined(NameBytes, t, n, ps)
  BY <1>9, JoinedIs
<1> HIDE DEF t
<1>11. PICK off : t \in Seq(NameBytes) /\ JoinedAt(t, n, ps, off)
  BY <1>10 DEF IsJoined
<1>12. off \in [0..n -> Nat] /\ off[0] = 0 /\ off[n] = Len(t)
  BY <1>11 DEF JoinedAt
<1>13. \A i \in 0..n : off[i] = e[i]
  <2>1. ASSUME NEW i \in 1..n, off[i - 1] = e[i - 1] PROVE off[i] = e[i]
    <3>1. off[i] = off[i - 1] + Len(ps[i])
      BY <1>11, ZenonT(30) DEF JoinedAt
    <3>2. Len(ps[i]) = e[i] - e[i - 1] /\ e[i - 1] \in Nat /\ e[i] \in Nat
      BY <1>3, <1>8, ZenonT(30)
    <3> QED
      BY ONLY <2>1, <3>1, <3>2
  <2>2. off[0] = e[0]
    BY <1>2, <1>12
  <2>3. GoAlike(n, off, e)
    BY <2>1, <2>2, ZenonT(30) DEF GoAlike
  <2>4. Agree(n, off, e)
    BY <2>3, SameSteps
  <2> QED
    BY <2>4, ZenonT(30) DEF Agree
<1>14. Len(t) = Len(s)
  <2>1. n \in 0..n
    OBVIOUS
  <2> QED
    BY <1>2, <1>12, <1>13, <2>1
<1>15. ASSUME NEW x \in 1..Len(s) PROVE t[x] = s[x]
  <2>1. x \in 1..e[n]
    BY <1>2
  <2>2. PICK i \in 1..n : e[i - 1] < x /\ x <= e[i]
    BY <1>2, <2>1, Covered, ZenonT(30)
  <2> DEFINE k == x - e[i - 1]
  <2>3. k \in 1..(e[i] - e[i - 1]) /\ e[i - 1] + k = x /\ i - 1 \in 0..n
    BY <1>3, <2>2
  <2> HIDE DEF k
  <2>4. k \in 1..Len(ps[i]) /\ ps[i][k] = s[e[i - 1] + k]
    BY <1>8, <2>3
  <2>5. t[off[i - 1] + k] = ps[i][k]
    BY <1>11, <2>4, ZenonT(30) DEF JoinedAt
  <2> QED
    BY <1>13, <2>3, <2>4, <2>5
<1>16. s = t
  BY <1>11, <1>14, <1>15
<1> QED
  BY <1>7, <1>16 DEF t, ix

\* The memory of the caller as the decoder leaves it, and what holds of the index that
\* is then made.
AuxInv ==
    /\ names \in Seq(NameBytes) /\ name_string_count \in Nat
    /\ decoded = "data" => IsPacked(names, name_data, name_string_count)
    /\ AuxNamesKept

\* An index that is made from packed memory keeps the names.
LEMMA IndexKeeps ==
  ASSUME names \in Seq(NameBytes), NEW n \in Nat, n > 0, IsPacked(names, name_data, n),
         NEW ix, ix = IndexFrom(n)
  PROVE  /\ Restored(names, name_data, n, ix)
         /\ \A i \in 1..n : ix.name[i] % 2 = 0
         /\ n * 3 <= Len(name_data)
         /\ ix.end # Len(name_data) => Len(name_data) > Len(names)
<1>1. name_data \in Seq(NameBytes)
  BY DEF IsPacked
<1>2. PICK e, m, no, to : /\ Split(names, n, e, m)
                          /\ PackedAs(names, name_data, n, e, m, no, to)
  BY DEF IsPacked
<1>3. ix = FoundIndex(n, no, to)
  BY <1>1, <1>2, IndexIs, ZenonT(30)
<1>4. Restored(names, name_data, n, ix)
  BY <1>1, <1>2, <1>3, IndexRestores, ZenonT(30)
<1>5. /\ to[n] = Len(names) /\ 3 * n <= Len(names)
      /\ \A i \in 0..n : no[i] % 2 = 0
  BY <1>2, PackedSizes, ZenonT(30)
<1>6. to[n] <= Len(name_data)
  BY <1>2 DEF PackedAs
<1>7. ix.end = to[n] /\ ix.name = [i \in 1..n |-> no[i - 1]]
  BY <1>3 DEF FoundIndex
<1>8. \A i \in 1..n : ix.name[i] % 2 = 0
  BY <1>5, <1>7
<1>9. Len(name_data) \in Nat /\ Len(names) \in Nat
  BY <1>1
<1> QED
  BY <1>4, <1>5, <1>6, <1>7, <1>8, <1>9

\* A step keeps the invariant.
LEMMA AuxSteps ==
  ASSUME AuxInv, [AuxNext]_auxVars
  PROVE  AuxInv'
<1> USE DEF NameBytes
<1>1. names \in Seq(NameBytes) /\ name_string_count \in Nat
  BY DEF AuxInv
<1>2. CASE UNCHANGED auxVars
  BY <1>2, ZenonT(30) DEF AuxInv, auxVars, AuxNamesKept, AuxString
<1>3. ASSUME NEW bytes \in Memory(MaxNameBytes), NEW count \in 0..MaxNames,
             RecordCame(bytes, count)
      PROVE  AuxInv'
  <2>1. bytes \in Seq(NameBytes)
    BY DEF Memory
  <2>2. names' = bytes /\ name_string_count' = count /\ decoded' = "no"
    BY <1>3 DEF RecordCame
  <2>3. count \in Nat
    BY AuxAssumption
  <2>4. AuxNamesKept'
    BY <2>2 DEF AuxNamesKept
  <2> QED
    BY <2>1, <2>2, <2>3, <2>4 DEF AuxInv
<1>4. ASSUME NEW names_size, NEW rest \in Memory(Slack),
             decode_entity_auxiliary_names_pdr(names_size, rest)
      PROVE  AuxInv'
  <2> DEFINE n == name_string_count
             p == Pass(n)
  <2>1. /\ PassComplete(p) /\ name_data' = Packed(p) \o rest /\ decoded' = "data"
        /\ names' = names /\ name_string_count' = name_string_count
    BY <1>4, ZenonT(30) DEF decode_entity_auxiliary_names_pdr
  <2>2. rest \in Seq(NameBytes)
    BY DEF Memory
  <2>3. Pairs(n, p)
    BY <1>1, PassIs
  <2>4. IsPacked(names, name_data', n)
    <3> HIDE DEF p
    <3> QED
      BY <1>1, <2>1, <2>2, <2>3, PackedIs, ZenonT(30)
  <2>5. AuxNamesKept'
    BY <2>1 DEF AuxNamesKept
  <2>6. IsPacked(names, name_data, n)'
    BY <2>1, <2>4, ZenonT(30)
  <2> QED
    BY <1>1, <2>1, <2>5, <2>6, ZenonT(30) DEF AuxInv
<1>5. ASSUME decode_pldm_entity_auxiliary_names_pdr_index PROVE AuxInv'
  <2> DEFINE n == name_string_count
             found == IndexFrom(n)
  <2>1. /\ decoded = "data"
        /\ names' = names /\ name_string_count' = name_string_count /\ name_data' = name_data
    BY <1>5, ZenonT(30) DEF decode_pldm_entity_auxiliary_names_pdr_index
  <2>2. IsPacked(names, name_data, n)
    BY <2>1 DEF AuxInv
  <2>3. CASE n = 0
    <3>1. decoded' = "index"
      BY <1>5, <2>3 DEF decode_pldm_entity_auxiliary_names_pdr_index
    <3>2. AuxNamesKept'
      BY <2>1, <2>3, <3>1 DEF AuxNamesKept
    <3> QED
      BY <1>1, <2>1, <3>1, <3>2 DEF AuxInv
  <2>4. CASE n # 0
    <3>1. n \in Nat /\ n > 0
      BY <1>1, <2>4
    <3>2. /\ index' = found
          /\ decoded' = IF /\ n * 3 <= Len(name_data)
                           /\ found.end = Len(name_data)
                        THEN "index" ELSE "refused"
      BY <1>5, <2>4, ZenonT(30) DEF decode_pldm_entity_auxiliary_names_pdr_index
    <3>3. /\ Restored(names, name_data, n, index')
          /\ \A i \in 1..n : index'.name[i] % 2 = 0
          /\ n * 3 <= Len(name_data)
          /\ index'.end # Len(name_data) => Len(name_data) > Len(names)
      <4> HIDE DEF n
      <4> QED
        BY <1>1, <2>2, <3>1, <3>2, IndexKeeps, ZenonT(30)
    <3> HIDE DEF found
    <3>4. decoded' = "index" \/ (decoded' = "refused" /\ Len(name_data) > Len(names))
      BY <3>2, <3>3
    <3>5. AuxNamesKept'
      <4>1. Restored(names, name_data, name_string_count, index)'
        BY <2>1, <3>3, ZenonT(30)
      <4> QED
        BY <2>1, <3>3, <3>4, <4>1, ZenonT(30) DEF AuxNamesKept, Restored, AuxString
    <3> QED
      BY <1>1, <2>1, <3>4, <3>5 DEF AuxInv
  <2> QED
    BY <2>3, <2>4
<1>6. CASE RecordDone
  <2>1. names' = <<>> /\ name_string_count' = 0 /\ decoded' = "none"
    BY <1>6 DEF RecordDone
  <2>2. AuxNamesKept'
    BY <2>1 DEF AuxNamesKept
  <2> QED
    BY <2>1, <2>2 DEF AuxInv
<1> QED
  BY <1>2, <1>3, <1>4, <1>5, <1>6 DEF AuxNext

\* AuxNamesKept holds for records of every size and with any number of names, and for
\* memory of every size: the names and the tags that were packed apart are the record's
\* when they are found anew.
THEOREM AuxNamesAreKept == AuxSpec => []AuxNamesKept
<1>1. AuxInit => AuxInv
  <2>1. <<>> \in Seq(NameBytes)
    OBVIOUS
  <2> QED
    BY <2>1 DEF AuxInit, AuxInv, AuxNamesKept
<1>2. AuxInv /\ [AuxNext]_auxVars => AuxInv'
  BY AuxSteps
<1>3. AuxInv => AuxNamesKept
  BY DEF AuxInv
<1> QED
  BY <1>1, <1>2, <1>3, PTL DEF AuxSpec

=============================================================================
