------------------------- MODULE SettingsFormProofs --------------------------
(***************************************************************************)
(* Proofs about the Settings window: the form, the rows and the Save button *)
(* agree in every reachable state, and the window implements the editor of *)
(* SettingsEditor.  The invariant says what the form relies on: the row it *)
(* writes to is in the list, once.                                         *)
(***************************************************************************)
EXTENDS SettingsFormProps, FiniteSetTheorems, SequenceTheorems, TLAPS

Rows(cs) == [id : Ids(cs), data : Data]

ListGood(cs) == IsList(cs) /\ Distinct(cs)

\* What _store_form makes of list cs when d is in the form of row id.
Written(cs, id, d) ==
  [i \in DOMAIN cs |-> IF cs[i].id = id THEN [cs[i] EXCEPT !.data = d] ELSE cs[i]]

-----------------------------------------------------------------------------
(* Lists of rows. *)

LEMMA ListParts ==
  ASSUME NEW cs, IsList(cs)
  PROVE  /\ Len(cs) \in Nat /\ DOMAIN cs = 1..Len(cs)
         /\ \A i \in 1..Len(cs) : cs[i] \in Rows(cs)
<1>1. cs \in Seq(Rows(cs))
  BY DEF IsList, Rows
<1>2. QED BY <1>1, LenProperties, ElementOfSeq

LEMMA ListIntro ==
  ASSUME NEW I, NEW cs \in Seq([id : I, data : Data])
  PROVE  IsList(cs)
<1>1. \A i \in 1..Len(cs) : cs[i] \in Rows(cs)
  <2>1. SUFFICES ASSUME NEW i \in 1..Len(cs) PROVE cs[i] \in Rows(cs)
    OBVIOUS
  <2>2. cs[i] \in [id : I, data : Data] /\ DOMAIN cs = 1..Len(cs)
    BY LenProperties, ElementOfSeq
  <2>3. cs[i].id \in Ids(cs)
    BY <2>2 DEF Ids
  <2>4. QED BY <2>2, <2>3 DEF Rows
<1>2. cs \in Seq(Rows(cs))
  BY <1>1, LenProperties
<1>3. QED BY <1>2 DEF IsList, Rows

LEMMA EmptyGood == ListGood(<<>>) /\ Ids(<<>>) = {}
<1>1. <<>> \in Seq([id : {}, data : Data])
  OBVIOUS
<1>2. DOMAIN <<>> = {}
  OBVIOUS
<1>3. Ids(<<>>) = {}
  BY <1>2 DEF Ids
<1>4. QED BY <1>1, <1>2, <1>3, ListIntro DEF ListGood, Distinct

LEMMA IndexFound ==
  ASSUME NEW cs, ListGood(cs), NEW id \in Ids(cs)
  PROVE  /\ Index(cs, id) \in DOMAIN cs /\ cs[Index(cs, id)].id = id
         /\ DataOf(cs, id) \in Data
<1>1. \E i \in DOMAIN cs : cs[i].id = id
  BY DEF Ids
<1>2. Index(cs, id) \in DOMAIN cs /\ cs[Index(cs, id)].id = id
  BY <1>1 DEF Index
<1>3. QED BY <1>2, ListParts DEF ListGood, DataOf, Rows

LEMMA FirstFound ==
  ASSUME NEW cs, ListGood(cs)
  PROVE  /\ First(cs) \in Ids(cs) \cup {NoId}
         /\ cs # <<>> => /\ First(cs) = cs[1].id /\ First(cs) # NoId
                         /\ DataOf(cs, First(cs)) = cs[1].data /\ cs[1].data \in Data
<1>1. CASE cs = <<>>
  BY <1>1 DEF First
<1>2. CASE cs # <<>>
  <2>1. 1 \in DOMAIN cs /\ 1 \in 1..Len(cs)
    BY <1>2, EmptySeq, ListParts DEF ListGood, IsList
  <2>2. cs[1].id \in Ids(cs) /\ First(cs) = cs[1].id /\ cs[1].data \in Data
    BY <1>2, <2>1, ListParts DEF First, Ids, ListGood, Rows
  <2>3. Index(cs, First(cs)) = 1
    BY <2>1, <2>2, IndexFound DEF ListGood, Distinct
  <2>4. QED BY <2>2, <2>3 DEF DataOf, ListGood, Distinct
<1>3. QED BY <1>1, <1>2

LEMMA WrittenGood ==
  ASSUME NEW cs, ListGood(cs), NEW id, NEW d \in Data
  PROVE  /\ ListGood(Written(cs, id, d)) /\ Ids(Written(cs, id, d)) = Ids(cs)
         /\ DOMAIN Written(cs, id, d) = DOMAIN cs
<1> DEFINE W == Written(cs, id, d)
<1>1. DOMAIN W = DOMAIN cs /\ DOMAIN cs = 1..Len(cs) /\ Len(cs) \in Nat
  BY ListParts DEF Written, ListGood
<1>2. \A i \in 1..Len(cs) : W[i].id = cs[i].id /\ W[i] \in Rows(cs)
  BY <1>1, ListParts DEF Written, ListGood, Rows
<1>3. Ids(W) = Ids(cs)
  BY <1>1, <1>2 DEF Ids
<1>4. W \in Seq(Rows(cs))
  BY <1>1, <1>2 DEF Written
<1>5. IsList(W)
  BY <1>4, ListIntro DEF Rows
<1>6. Distinct(W)
  BY <1>1, <1>2, <1>3 DEF Distinct, ListGood
<1>7. QED BY <1>1, <1>3, <1>5, <1>6 DEF ListGood

\* A row that is written back as it is shown stays as it is.
LEMMA WriteBack ==
  ASSUME NEW cs, ListGood(cs), NEW id \in Ids(cs) \cup {NoId}, NEW d,
         id # NoId => d = DataOf(cs, id)
  PROVE  Written(cs, id, d) = cs
<1> DEFINE W == Written(cs, id, d)
<1>1. \A i \in DOMAIN cs : W[i] = cs[i]
  <2>1. SUFFICES ASSUME NEW i \in DOMAIN cs, cs[i].id = id
                 PROVE  [cs[i] EXCEPT !.data = d] = cs[i]
    BY DEF Written
  <2>2. cs[i].id \in Ids(cs) /\ id # NoId
    BY <2>1 DEF Ids, ListGood, Distinct
  <2>3. Index(cs, id) = i
    BY <2>1, <2>2, IndexFound DEF ListGood, Distinct
  <2>4. d = cs[i].data
    BY <2>2, <2>3 DEF DataOf
  <2>5. QED BY <2>4, ListParts DEF ListGood, Rows
<1>2. cs \in Seq(Rows(cs)) /\ DOMAIN W = DOMAIN cs
  BY DEF ListGood, IsList, Rows, Written
<1>3. QED BY <1>1, <1>2 DEF Written

LEMMA AppendGood ==
  ASSUME NEW cs, ListGood(cs), NEW x, x \notin Ids(cs), x # NoId, NEW d \in Data
  PROVE  LET r == [id |-> x, data |-> d]
         IN  /\ ListGood(Append(cs, r)) /\ Ids(Append(cs, r)) = Ids(cs) \cup {x}
             /\ Append(cs, r)[Len(Append(cs, r))] = r
<1> DEFINE r == [id |-> x, data |-> d]
           I == Ids(cs) \cup {x}
           R == [id : I, data : Data]
           A == Append(cs, r)
<1>1. cs \in Seq(R) /\ r \in R /\ Len(cs) \in Nat
  <2>1. cs \in Seq(Rows(cs)) /\ Rows(cs) \subseteq R
    BY DEF ListGood, IsList, Rows
  <2>2. cs \in Seq(R)
    BY <2>1, SeqMonotonic
  <2>3. QED BY <2>2, ListParts DEF ListGood
<1>2. /\ A \in Seq(R) /\ Len(A) = Len(cs) + 1
      /\ \A i \in 1..Len(cs) : A[i] = cs[i]
      /\ A[Len(cs) + 1] = r
  BY <1>1, AppendProperties
<1>3. IsList(A)
  BY <1>2, ListIntro
<1>4. DOMAIN A = 1..(Len(cs) + 1) /\ DOMAIN cs = 1..Len(cs)
  BY <1>1, <1>2
<1>5. Ids(A) = I
  <2>1. \A i \in 1..(Len(cs) + 1) : i \in 1..Len(cs) \/ i = Len(cs) + 1
    BY <1>1
  <2>2. 1..Len(cs) \subseteq 1..(Len(cs) + 1) /\ Len(cs) + 1 \in 1..(Len(cs) + 1)
    BY <1>1
  <2>3. QED BY <1>2, <1>4, <2>1, <2>2 DEF Ids
<1>6. \A i \in 1..Len(cs) : cs[i].id \in Ids(cs)
  BY <1>4 DEF Ids
<1>7. Distinct(A)
  BY <1>1, <1>2, <1>4, <1>5, <1>6 DEF Distinct, ListGood
<1>8. QED BY <1>1, <1>2, <1>3, <1>5, <1>7 DEF ListGood

LEMMA RemoveGood ==
  ASSUME NEW cs, ListGood(cs), NEW k \in DOMAIN cs
  PROVE  ListGood(RemoveAt(cs, k)) /\ Ids(RemoveAt(cs, k)) = Ids(cs) \ {cs[k].id}
<1> DEFINE n == Len(cs)
           A == SubSeq(cs, 1, k - 1)
           B == SubSeq(cs, k + 1, n)
           S == RemoveAt(cs, k)
<1>1. n \in Nat /\ k \in 1..n /\ DOMAIN cs = 1..n /\ \A i \in 1..n : cs[i] \in Rows(cs)
  BY ListParts DEF ListGood
<1>2. /\ A \in Seq(Rows(cs)) /\ Len(A) = k - 1
      /\ \A i \in 1..(k - 1) : A[i] = cs[i]
  <2>1. \A i \in 1..(k - 1) : cs[i] \in Rows(cs)
    BY <1>1
  <2>2. QED BY <1>1, <2>1, SubSeqProperties
<1>3. /\ B \in Seq(Rows(cs)) /\ Len(B) = n - k
      /\ \A i \in 1..(n - k) : B[i] = cs[k + i]
  <2>1. \A i \in (k + 1)..n : cs[i] \in Rows(cs)
    BY <1>1
  <2>2. /\ B \in Seq(Rows(cs))
        /\ Len(B) = IF k + 1 <= n THEN n - (k + 1) + 1 ELSE 0
        /\ \A i \in 1..(n - (k + 1) + 1) : B[i] = cs[k + 1 + i - 1]
    BY <1>1, <2>1, SubSeqProperties
  <2>3. QED BY <1>1, <2>2
<1>4. /\ S \in Seq(Rows(cs)) /\ Len(S) = n - 1
      /\ \A i \in 1..(n - 1) : S[i] = IF i < k THEN cs[i] ELSE cs[i + 1]
  <2>1. /\ S \in Seq(Rows(cs)) /\ Len(S) = (k - 1) + (n - k)
        /\ \A i \in 1..((k - 1) + (n - k)) : S[i] = IF i <= k - 1 THEN A[i] ELSE B[i - (k - 1)]
    BY <1>2, <1>3, ConcatProperties DEF RemoveAt
  <2>2. ASSUME NEW i \in 1..(n - 1)
        PROVE  S[i] = IF i < k THEN cs[i] ELSE cs[i + 1]
    <3>1. CASE i < k
      BY <1>1, <1>2, <2>1, <3>1
    <3>2. CASE ~(i < k)
      <4>1. i - (k - 1) \in 1..(n - k) /\ k + (i - (k - 1)) = i + 1
        BY <1>1, <3>2
      <4>2. S[i] = B[i - (k - 1)]
        BY <1>1, <2>1, <3>2
      <4>3. QED BY <1>3, <3>2, <4>1, <4>2
    <3>3. QED BY <3>1, <3>2
  <2>3. QED BY <1>1, <2>1, <2>2
<1>5. IsList(S)
  BY <1>4, ListIntro DEF Rows
<1>6. DOMAIN S = 1..(n - 1)
  BY <1>4
<1>7. \A i, j \in 1..n : cs[i].id = cs[j].id => i = j
  BY <1>1 DEF ListGood, Distinct
<1>8. Ids(S) = Ids(cs) \ {cs[k].id}
  <2>1. ASSUME NEW i \in 1..(n - 1)
        PROVE  S[i].id \in Ids(cs) \ {cs[k].id}
    <3>1. PICK j \in 1..n : S[i] = cs[j] /\ j # k
      BY <1>1, <1>4
    <3>2. QED BY <1>1, <1>7, <3>1 DEF Ids
  <2>2. ASSUME NEW j \in 1..n, j # k
        PROVE  \E i \in 1..(n - 1) : S[i] = cs[j]
    <3>1. CASE j < k
      BY <1>1, <1>4, <3>1
    <3>2. CASE j > k
      <4>1. j - 1 \in 1..(n - 1) /\ ~(j - 1 < k) /\ (j - 1) + 1 = j
        BY <1>1, <3>2
      <4>2. QED BY <1>4, <4>1
    <3>3. QED BY <1>1, <2>2, <3>1, <3>2
  <2>3. Ids(S) \subseteq Ids(cs) \ {cs[k].id}
    BY <1>6, <2>1 DEF Ids
  <2>4. ASSUME NEW x \in Ids(cs) \ {cs[k].id}
        PROVE  x \in Ids(S)
    <3>1. PICK j \in 1..n : x = cs[j].id /\ j # k
      BY <1>1, <2>4 DEF Ids
    <3>2. PICK i \in 1..(n - 1) : S[i] = cs[j]
      BY <2>2, <3>1
    <3>3. QED BY <1>6, <3>1, <3>2 DEF Ids
  <2>5. QED BY <2>3, <2>4
<1>9. Distinct(S)
  <2>1. NoId \notin Ids(S)
    BY <1>8 DEF ListGood, Distinct
  <2>2. ASSUME NEW i \in 1..(n - 1), NEW j \in 1..(n - 1), S[i].id = S[j].id
        PROVE  i = j
    <3> DEFINE at(x) == IF x < k THEN x ELSE x + 1
    <3>1. at(i) \in 1..n /\ at(j) \in 1..n /\ (at(i) = at(j) => i = j)
      BY <1>1
    <3>2. S[i] = cs[at(i)] /\ S[j] = cs[at(j)]
      BY <1>4
    <3>3. at(i) = at(j)
      BY <1>7, <2>2, <3>1, <3>2
    <3>4. QED BY <3>1, <3>3
  <2>3. QED BY <1>6, <2>1, <2>2 DEF Distinct
<1>10. QED BY <1>5, <1>8, <1>9 DEF ListGood

\* What is removed does not matter for what is left.
LEMMA SameRemoved ==
  ASSUME NEW cs, NEW ds, IsList(cs), IsList(ds), DOMAIN ds = DOMAIN cs,
         NEW k \in DOMAIN cs, \A j \in DOMAIN cs : j # k => ds[j] = cs[j]
  PROVE  RemoveAt(ds, k) = RemoveAt(cs, k)
<1> DEFINE n == Len(cs)
<1>1. /\ n \in Nat /\ Len(ds) = n /\ k \in 1..n /\ DOMAIN cs = 1..n
      /\ \A i \in 1..n : cs[i] \in Rows(cs) /\ ds[i] \in Rows(ds)
  BY ListParts
<1> DEFINE U == Rows(cs) \cup Rows(ds)
<1>2. ASSUME NEW m \in Int, NEW l \in Int, 1 <= m, l <= n, k \notin m..l
      PROVE  SubSeq(ds, m, l) = SubSeq(cs, m, l)
  <2>1. \A i \in m..l : cs[i] \in U /\ ds[i] \in U /\ ds[i] = cs[i]
    BY <1>1, <1>2
  <2>2. /\ SubSeq(cs, m, l) \in Seq(U)
        /\ Len(SubSeq(cs, m, l)) = IF m <= l THEN l - m + 1 ELSE 0
        /\ \A i \in 1..(l - m + 1) : SubSeq(cs, m, l)[i] = cs[m + i - 1]
    BY <2>1, SubSeqProperties
  <2>3. /\ SubSeq(ds, m, l) \in Seq(U)
        /\ Len(SubSeq(ds, m, l)) = IF m <= l THEN l - m + 1 ELSE 0
        /\ \A i \in 1..(l - m + 1) : SubSeq(ds, m, l)[i] = ds[m + i - 1]
    BY <2>1, SubSeqProperties
  <2>4. \A i \in 1..(l - m + 1) : m + i - 1 \in m..l
    BY <1>2
  <2>5. Len(SubSeq(ds, m, l)) = Len(SubSeq(cs, m, l))
    BY <2>2, <2>3
  <2>6. \A i \in 1..Len(SubSeq(ds, m, l)) : SubSeq(ds, m, l)[i] = SubSeq(cs, m, l)[i]
    BY <1>2, <2>1, <2>2, <2>3, <2>4
  <2>7. QED BY <2>2, <2>3, <2>5, <2>6, SeqEqual
<1>3. /\ SubSeq(ds, 1, k - 1) = SubSeq(cs, 1, k - 1)
      /\ SubSeq(ds, k + 1, n) = SubSeq(cs, k + 1, n)
  <2>1. k - 1 \in Int /\ k - 1 <= n /\ k \notin 1..(k - 1)
    BY <1>1
  <2>2. k + 1 \in Int /\ 1 <= k + 1 /\ n \in Int /\ k \notin (k + 1)..n
    BY <1>1
  <2>3. SubSeq(ds, 1, k - 1) = SubSeq(cs, 1, k - 1)
    BY <1>2, <2>1
  <2>4. SubSeq(ds, k + 1, n) = SubSeq(cs, k + 1, n)
    BY <1>2, <2>2
  <2>5. QED BY <2>3, <2>4
<1>4. QED BY <1>1, <1>3 DEF RemoveAt

-----------------------------------------------------------------------------
(* Names that are not taken. *)

LEMMA NamesDiffer ==
  ASSUME NEW base, NEW n, NEW m
  PROVE  Named(base, n) # NoId /\ (Named(base, n) = Named(base, m) => n = m)
BY DEF Named, NoId

LEMMA IdsFinite ==
  ASSUME NEW cs, IsList(cs)
  PROVE  IsFiniteSet(Ids(cs)) /\ Cardinality(Ids(cs)) \in Nat
<1> DEFINE f == [i \in 1..Len(cs) |-> cs[i].id]
<1>1. Len(cs) \in Nat /\ DOMAIN cs = 1..Len(cs)
  BY ListParts
<1>2. f \in Surjection(1..Len(cs), Ids(cs))
  BY <1>1 DEF Surjection, Ids
<1>3. IsFiniteSet(1..Len(cs))
  BY <1>1, FS_Interval
<1>4. QED BY <1>2, <1>3, FS_Surjection, FS_CardinalityType

-----------------------------------------------------------------------------
(* Loading: every row of a file's list gets an identity of its own, and the    *)
(* rows that bring one keep it unless an earlier row has it.                   *)

LEMMA EveryNumber ==
  ASSUME NEW S, 0 \in S, \A n \in Nat : n \in S => n + 1 \in S
  PROVE  Nat \subseteq S
<1>1. SUFFICES ASSUME Nat \ S # {} PROVE FALSE
  OBVIOUS
<1>2. \E n \in Nat \ S : \A m \in Nat \ S : ~(<<m, n>> \in OpToRel(<, Nat))
  BY <1>1, NatLessThanWellFounded, WFMin
<1>3. PICK n \in Nat \ S : \A m \in Nat \ S : ~(m < n)
  BY <1>2 DEF OpToRel
<1>4. n # 0 /\ n - 1 \in Nat /\ n - 1 < n
  BY <1>3
<1>5. n - 1 \in S
  BY <1>3, <1>4
<1>6. QED BY <1>3, <1>4, <1>5

\* The function that ReadTo chooses, up to n.
Reads(f, raw, n) ==
  f = [k \in 0..n |-> IF k = 0 THEN [rows |-> <<>>, used |-> {}, next |-> 1]
                      ELSE Take(f[k - 1], raw[k], Ids(raw) \ {NoId})]

LEMMA ReadsExist ==
  ASSUME NEW raw, NEW n \in Nat
  PROVE  \E f : Reads(f, raw, n)
<1> DEFINE S == {j \in Nat : \E f : Reads(f, raw, j)}
           first == [rows |-> <<>>, used |-> {}, next |-> 1]
           step(acc, k) == Take(acc, raw[k], Ids(raw) \ {NoId})
<1>1. 0 \in S
  <2>1. Reads([k \in 0..0 |-> first], raw, 0)
    BY DEF Reads
  <2>2. QED BY <2>1
<1>2. ASSUME NEW j \in Nat, j \in S
      PROVE  j + 1 \in S
  <2>1. PICK f : Reads(f, raw, j)
    BY <1>2
  <2> DEFINE g == [k \in 0..(j + 1) |-> IF k = j + 1 THEN step(f[j], j + 1) ELSE f[k]]
  <2>2. \A k \in 0..j : f[k] = IF k = 0 THEN first ELSE step(f[k - 1], k)
    BY <2>1 DEF Reads
  <2> HIDE DEF first, step
  <2>3. ASSUME NEW k \in 0..(j + 1)
        PROVE  g[k] = IF k = 0 THEN first ELSE step(g[k - 1], k)
    <3>1. CASE k = j + 1
      BY <3>1
    <3>2. CASE k \in 0..j
      <4>1. g[k] = f[k] /\ (k # 0 => g[k - 1] = f[k - 1])
        BY <3>2
      <4>2. QED BY <2>2, <3>2, <4>1
    <3>3. QED BY <3>1, <3>2
  <2>4. g = [k \in 0..(j + 1) |-> IF k = 0 THEN first ELSE step(g[k - 1], k)]
    BY <2>3
  <2>5. Reads(g, raw, j + 1)
    BY <2>4 DEF Reads, first, step
  <2>6. QED BY <2>5
<1> HIDE DEF S
<1>3. n \in S
  BY <1>1, <1>2, EveryNumber
<1>4. QED BY <1>3 DEF S

LEMMA ReadToIs ==
  ASSUME NEW raw, NEW n \in Nat
  PROVE  \E f : ReadTo(raw, n) = f[n] /\ Reads(f, raw, n)
<1> DEFINE f == CHOOSE f : Reads(f, raw, n)
<1>1. Reads(f, raw, n)
  BY ReadsExist
<1>2. ReadTo(raw, n) = f[n]
  BY DEF ReadTo, Reads
<1>3. QED BY <1>1, <1>2

LEMMA FreshNumberIsFree ==
  ASSUME NEW taken, IsFiniteSet(taken), NEW base, NEW from \in Nat
  PROVE  /\ FreshNumber(base, from, taken) \in Nat
         /\ Named(base, FreshNumber(base, from, taken)) \notin taken
<1> DEFINE c == Cardinality(taken)
           free == {n \in from..(from + c) : Named(base, n) \notin taken}
<1>1. c \in Nat
  BY FS_CardinalityType
<1>2. free # {}
  <2>1. SUFFICES ASSUME \A n \in from..(from + c) : Named(base, n) \in taken PROVE FALSE
    OBVIOUS
  <2>2. IsFiniteSet(from..(from + c)) /\ Cardinality(from..(from + c)) = 1 + c
    BY <1>1, FS_Interval
  <2> DEFINE f == [n \in from..(from + c) |-> Named(base, n)]
  <2>3. f \in [from..(from + c) -> taken]
    BY <2>1
  <2>4. Cardinality(taken) < Cardinality(from..(from + c))
    BY <1>1, <2>2
  <2>5. \E x, y \in from..(from + c) : x # y /\ f[x] = f[y]
    <3> HIDE DEF f
    <3>1. QED BY <2>2, <2>3, <2>4, FS_PigeonHole
  <2>6. QED BY <2>5, NamesDiffer
<1>3. PICK n \in free : \A m \in free : ~(m < n)
  <2>1. free \subseteq Nat
    BY <1>1
  <2>2. PICK n \in free : \A m \in free : <<m, n>> \notin OpToRel(<, Nat)
    BY <1>2, <2>1, NatLessThanWellFounded, WFMin
  <2>3. QED BY <2>1, <2>2 DEF OpToRel
<1>4. /\ n \in from..(from + c) /\ Named(base, n) \notin taken
      /\ \A m \in from..(n - 1) : Named(base, m) \in taken
  BY <1>1, <1>3
<1>5. /\ FreshNumber(base, from, taken) \in from..(from + c)
      /\ Named(base, FreshNumber(base, from, taken)) \notin taken
  BY <1>4 DEF FreshNumber
<1>6. QED BY <1>1, <1>5

LEMMA FreshIsFree ==
  ASSUME NEW taken, IsFiniteSet(taken), NEW base
  PROVE  Fresh(base, taken) \notin taken /\ Fresh(base, taken) # NoId
BY FreshNumberIsFree, NamesDiffer DEF Fresh

\* What the loop knows after n rows.
SoFar(acc, raw, n) ==
  /\ ListGood(acc.rows) /\ Len(acc.rows) = n /\ acc.used = Ids(acc.rows) /\ acc.next \in Nat
  /\ DOMAIN acc = {"rows", "used", "next"}
  /\ \A i \in 1..n : raw[i].id \in acc.used \cup {NoId}
  /\ \A i \in 1..n : /\ acc.rows[i].data = raw[i].data
                     /\ IF raw[i].id \in {NoId} \cup {raw[j].id : j \in 1..(i - 1)}
                          THEN acc.rows[i].id \notin Ids(raw)
                          ELSE acc.rows[i].id = raw[i].id

LEMMA TakeGood ==
  ASSUME NEW raw, IsList(raw), NEW n \in Nat, n + 1 <= Len(raw), NEW acc, SoFar(acc, raw, n)
  PROVE  SoFar(Take(acc, raw[n + 1], Ids(raw) \ {NoId}), raw, n + 1)
<1> DEFINE row == raw[n + 1]
           reserved == Ids(raw) \ {NoId}
           k == FreshNumber(NoId, acc.next, reserved \cup acc.used)
           own == row.id # NoId /\ row.id \notin acc.used
           x == IF own THEN row.id ELSE Named(NoId, k)
           r == [id |-> x, data |-> row.data]
           new == Take(acc, row, reserved)
<1>1. /\ n + 1 \in DOMAIN raw /\ row \in Rows(raw) /\ \A i \in 1..n : raw[i].id \in Ids(raw)
      /\ DOMAIN raw = 1..Len(raw) /\ Len(raw) \in Nat
  BY ListParts DEF Ids
<1>2. /\ k \in Nat /\ Named(NoId, k) \notin reserved \cup acc.used
  <2>1. IsFiniteSet(Ids(raw)) /\ IsFiniteSet(acc.used)
    BY IdsFinite DEF SoFar, ListGood
  <2>2. IsFiniteSet(reserved \cup acc.used)
    BY <2>1, FS_Subset, FS_Union
  <2>3. QED BY <2>2, FreshNumberIsFree DEF SoFar
<1>3. x \notin acc.used /\ x # NoId /\ row.data \in Data /\ (~own => x \notin Ids(raw))
  BY <1>1, <1>2, NamesDiffer DEF Rows
<1>4. /\ new.rows = Append(acc.rows, r) /\ new.used = acc.used \cup {x} /\ new.next \in Nat
      /\ DOMAIN new = {"rows", "used", "next"}
  <2>1. CASE own
    <3>1. r = row
      BY <1>1, <2>1 DEF Rows
    <3>2. new = Keep(acc, row)
      BY <2>1 DEF Take
    <3>3. acc.next \in Nat /\ DOMAIN acc = {"rows", "used", "next"} /\ x = row.id
      BY <2>1 DEF SoFar
    <3> HIDE DEF new, row, x
    <3>4. QED BY <3>1, <3>2, <3>3 DEF Keep
  <2>2. CASE ~own
    <3>1. r = [row EXCEPT !.id = Named(NoId, k)] /\ r.id = x
      BY <1>1, <2>2 DEF Rows
    <3>2. new = [Keep(acc, r) EXCEPT !.next = k + 1]
      BY <2>2, <3>1 DEF Take, Rename
    <3>3. acc.next \in Nat /\ DOMAIN acc = {"rows", "used", "next"} /\ k + 1 \in Nat
      BY <1>2 DEF SoFar
    <3> HIDE DEF new, r, k, x
    <3>4. QED BY <3>1, <3>2, <3>3 DEF Keep
  <2>3. QED BY <2>1, <2>2
<1> HIDE DEF x
<1>5. /\ ListGood(new.rows) /\ Ids(new.rows) = new.used
      /\ Len(new.rows) = n + 1 /\ new.rows[n + 1] = r
      /\ \A i \in 1..n : new.rows[i] = acc.rows[i]
  <2>1. ListGood(acc.rows) /\ acc.used = Ids(acc.rows) /\ Len(acc.rows) = n
    BY DEF SoFar
  <2>2. acc.rows \in Seq(Rows(acc.rows) \cup {r})
    <3>1. acc.rows \in Seq(Rows(acc.rows))
      BY <2>1 DEF ListGood, IsList, Rows
    <3>2. QED BY <3>1, SeqMonotonic
  <2>3. /\ Len(Append(acc.rows, r)) = n + 1
        /\ \A i \in 1..n : Append(acc.rows, r)[i] = acc.rows[i]
    BY <2>1, <2>2, AppendProperties
  <2>4. /\ ListGood(Append(acc.rows, r)) /\ Ids(Append(acc.rows, r)) = acc.used \cup {x}
        /\ Append(acc.rows, r)[n + 1] = r
    BY <1>3, <2>1, <2>3, AppendGood
  <2> HIDE DEF new, r
  <2>5. QED BY <1>4, <2>3, <2>4
<1>6. own <=> row.id \notin {NoId} \cup {raw[j].id : j \in 1..n}
  <2>1. ASSUME row.id \in acc.used, row.id # NoId
        PROVE  row.id \in {raw[j].id : j \in 1..n}
    <3>1. PICK i \in 1..n : acc.rows[i].id = row.id
      <4>1. IsList(acc.rows) /\ Len(acc.rows) = n /\ row.id \in Ids(acc.rows)
        BY <2>1 DEF SoFar, ListGood
      <4>2. QED BY <4>1, ListParts DEF Ids
    <3>2. row.id \in Ids(raw)
      BY <1>1 DEF Ids
    <3>3. QED BY <3>1, <3>2 DEF SoFar
  <2>2. ASSUME NEW j \in 1..n, row.id = raw[j].id, row.id # NoId
        PROVE  row.id \in acc.used
    BY <2>2 DEF SoFar
  <2>3. QED BY <2>1, <2>2
<1>7. ASSUME NEW i \in 1..(n + 1)
      PROVE  /\ new.rows[i].data = raw[i].data
             /\ IF raw[i].id \in {NoId} \cup {raw[j].id : j \in 1..(i - 1)}
                  THEN new.rows[i].id \notin Ids(raw)
                  ELSE new.rows[i].id = raw[i].id
  <2>1. CASE i \in 1..n
    <3>1. new.rows[i] = acc.rows[i]
      BY <1>5, <2>1
    <3> HIDE DEF new
    <3>2. QED BY <2>1, <3>1 DEF SoFar
  <2>2. CASE i = n + 1
    <3>1. new.rows[i] = r /\ i - 1 = n /\ raw[i] = row
      BY <1>5, <2>2
    <3>2. own => x = row.id
      BY DEF x
    <3>3. QED BY <1>3, <1>6, <3>1, <3>2
  <2>3. QED BY <2>1, <2>2
<1>8. ASSUME NEW i \in 1..(n + 1)
      PROVE  raw[i].id \in new.used \cup {NoId}
  <2>1. CASE i \in 1..n
    BY <1>4, <2>1 DEF SoFar
  <2>2. CASE i = n + 1
    BY <1>4, <2>2 DEF x
  <2>3. QED BY <2>1, <2>2
<1>9. QED BY <1>4, <1>5, <1>7, <1>8 DEF SoFar

LEMMA ReadGood ==
  ASSUME NEW raw, IsList(raw)
  PROVE  SoFar(ReadTo(raw, Len(raw)), raw, Len(raw))
<1> DEFINE N == Len(raw)
<1>1. N \in Nat
  BY ListParts
<1>2. PICK f : ReadTo(raw, N) = f[N] /\ Reads(f, raw, N)
  BY <1>1, ReadToIs
<1> DEFINE S == {j \in Nat : j <= N => SoFar(f[j], raw, j)}
<1>3. 0 \in S
  <2>1. f[0] = [rows |-> <<>>, used |-> {}, next |-> 1]
    BY <1>1, <1>2 DEF Reads
  <2>2. SoFar(f[0], raw, 0)
    BY <2>1, EmptyGood DEF SoFar
  <2>3. QED BY <2>2
<1>4. ASSUME NEW j \in Nat, j \in S
      PROVE  j + 1 \in S
  <2>1. SUFFICES ASSUME j + 1 <= N PROVE SoFar(f[j + 1], raw, j + 1)
    OBVIOUS
  <2>2. f[j + 1] = Take(f[j], raw[j + 1], Ids(raw) \ {NoId})
    <3>1. j + 1 \in 0..N /\ j + 1 # 0 /\ (j + 1) - 1 = j
      BY <1>1, <2>1
    <3>2. f[j + 1] = Take(f[(j + 1) - 1], raw[j + 1], Ids(raw) \ {NoId})
      BY <1>2, <3>1 DEF Reads
    <3>3. QED BY <3>1, <3>2
  <2>3. SoFar(f[j], raw, j)
    BY <1>1, <1>4, <2>1
  <2>4. QED BY <2>1, <2>2, <2>3, TakeGood
<1> HIDE DEF S
<1>5. N \in S
  BY <1>1, <1>3, <1>4, EveryNumber
<1>6. QED BY <1>1, <1>2, <1>5 DEF S

\* "Keep the first explicit ID and give every missing/duplicate one a safe ID"
\* (tcconfig._assign_connection_ids), for every list of a file.
THEOREM LoadKeepsFirst == \A raw \in RawLists : WellAssigned(raw)
<1>1. SUFFICES ASSUME NEW raw \in RawLists PROVE WellAssigned(raw)
  OBVIOUS
<1> DEFINE got == Assigned(raw)
<1>2. IsList(raw)
  BY RawAssumption DEF RawAssumption, IsList
<1>3. SoFar(ReadTo(raw, Len(raw)), raw, Len(raw)) /\ got = ReadTo(raw, Len(raw)).rows
  BY <1>2, ReadGood DEF Assigned
<1>4. ListGood(got) /\ DOMAIN got = DOMAIN raw /\ DOMAIN raw = 1..Len(raw)
  BY <1>2, <1>3, ListParts DEF SoFar, ListGood
<1>5. ASSUME NEW i \in DOMAIN raw
      PROVE  IF raw[i].id \in {NoId} \cup {raw[j].id : j \in 1..(i - 1)}
               THEN got[i].data = raw[i].data /\ got[i].id \notin Ids(raw)
               ELSE got[i] = raw[i]
  <2>1. raw[i] \in Rows(raw) /\ got[i] \in Rows(got)
    BY <1>2, <1>4, ListParts DEF ListGood
  <2>2. got[i].data = raw[i].data
    BY <1>3, <1>4 DEF SoFar
  <2>3. ASSUME got[i].id = raw[i].id PROVE got[i] = raw[i]
    BY <2>1, <2>2, <2>3 DEF Rows
  <2>4. QED BY <1>3, <1>4, <2>2, <2>3 DEF SoFar
<1>6. QED BY <1>4, <1>5 DEF WellAssigned, ListGood

LEMMA LoadedGood ==
  ASSUME NEW c \in Loaded
  PROVE  ListGood(c.conns) /\ c.auto \in Ids(c.conns) \cup {NoId}
<1>1. PICK raw \in RawLists : c.conns = Assigned(raw)
  BY DEF Loaded
<1>2. IsList(raw)
  BY RawAssumption DEF RawAssumption, IsList
<1>3. ListGood(c.conns)
  BY <1>1, <1>2, ReadGood DEF Assigned, SoFar
<1>4. QED BY <1>3 DEF Loaded

-----------------------------------------------------------------------------
(* The invariant. *)

FormInv ==
  /\ ListGood(conns) /\ ListGood(cfg.conns)
  /\ auto \in Ids(conns) \cup {NoId} /\ cfg.auto \in Ids(cfg.conns) \cup {NoId}
  /\ current \in Ids(conns) \cup {NoId} /\ form \in Data
  /\ open \in BOOLEAN /\ (~open => Closed)
  /\ SaveTellsTruth

\* What relates the form, the list and the Save button of an open window.
Agree ==
  /\ ListGood(conns) /\ current \in Ids(conns) \cup {NoId} /\ form \in Data
  /\ saveable <=> \A i \in DOMAIN conns : Valid(Stored[i].data)

LEMMA StoredIsWritten ==
  /\ Stored = Written(conns, current, form)
  /\ \A f : StoredWith(f) = Written(conns, current, f)
BY DEF Stored, StoredWith, Written

LEMMA StoredGood ==
  ASSUME ListGood(conns), form \in Data
  PROVE  ListGood(Stored) /\ Ids(Stored) = Ids(conns) /\ DOMAIN Stored = DOMAIN conns
BY StoredIsWritten, WrittenGood

LEMMA NewIsData == New \in Data
BY RestsAssumption DEF New, Data, Hosts, Gateways, Protocols, Ports

\* A row that is shown is stored as it was.
LEMMA ShowAgrees ==
  ASSUME NEW cs, ListGood(cs), NEW id \in Ids(cs) \cup {NoId}, form \in Data, Show(cs, id)
  PROVE  conns' = cs /\ current' = id /\ Stored' = cs /\ Agree'
<1>1. conns' = cs /\ current' = id
  BY DEF Show
<1>2. form' \in Data /\ (id # NoId => form' = DataOf(cs, id))
  BY IndexFound DEF Show, Populated
<1>3. Stored' = Written(conns', current', form')
  BY DEF Stored, StoredWith, Written
<1>4. Stored' = cs
  BY <1>1, <1>2, <1>3, WriteBack
<1>5. saveable' <=> \A i \in DOMAIN conns' : Valid(Stored'[i].data)
  BY <1>1, <1>4 DEF Show, AllValid
<1>6. QED BY <1>1, <1>2, <1>4, <1>5 DEF Agree

\* The window opens on the manager's list.
LEMMA OpenAgrees ==
  ASSUME ListGood(cfg.conns), OpenSettings
  PROVE  conns' = cfg.conns /\ current' = First(cfg.conns) /\ Stored' = cfg.conns /\ Agree'
<1>1. conns' = cfg.conns /\ current' = First(cfg.conns)
  BY DEF OpenSettings
<1>2. current' \in Ids(conns') \cup {NoId}
  BY <1>1, FirstFound
<1>3. form' \in Data /\ (current' # NoId => form' = DataOf(conns', current'))
  BY <1>1, FirstFound, NewIsData DEF OpenSettings, Populated, First
<1>4. Stored' = Written(conns', current', form')
  BY DEF Stored, StoredWith, Written
<1>5. Stored' = cfg.conns
  BY <1>1, <1>2, <1>3, <1>4, WriteBack
<1>6. saveable' <=> \A i \in DOMAIN conns' : Valid(Stored'[i].data)
  BY <1>1, <1>5 DEF OpenSettings, AllValid
<1>7. QED BY <1>1, <1>2, <1>3, <1>5, <1>6 DEF Agree

\* A checked field is stored at once.
LEMMA ChangedAgrees ==
  ASSUME Agree, NEW f \in Data, Changed(f)
  PROVE  Stored' = StoredWith(f) /\ Ids(conns') = Ids(conns) /\ Agree'
<1>1. conns' = Written(conns, current, f) /\ current' = current /\ form' = f
  BY StoredIsWritten DEF Changed
<1>2. /\ ListGood(conns') /\ Ids(conns') = Ids(conns) /\ DOMAIN conns' = DOMAIN conns
  BY <1>1, WrittenGood DEF Agree
<1>3. Stored' = Written(conns', current, f)
  BY <1>1 DEF Stored, StoredWith, Written
<1>4. Stored' = conns'
  BY <1>1, <1>3 DEF Written
<1>5. saveable' <=> \A i \in DOMAIN conns' : Valid(Stored'[i].data)
  BY <1>4 DEF Changed, AllValid
<1>6. QED BY <1>1, <1>2, <1>4, <1>5, StoredIsWritten DEF Agree

\* An unchecked field cannot make a row valid or invalid.
LEMMA OtherAgrees ==
  ASSUME Agree, NEW r \in Rests, EditOther(r)
  PROVE  Stored' = StoredWith(form') /\ conns' = conns /\ current' = current /\ Agree'
<1>1. conns' = conns /\ current' = current /\ saveable' = saveable
  BY DEF EditOther
<1>2. form' = [form EXCEPT !.rest = r] /\ form' \in Data
  BY DEF EditOther, Agree, Data
<1>3. Valid(form') <=> Valid(form)
  BY <1>2 DEF Valid, Agree, Data
<1>4. Stored' = StoredWith(form')
  BY <1>1 DEF Stored, StoredWith
<1>5. \A i \in DOMAIN conns : Valid(Stored'[i].data) <=> Valid(Stored[i].data)
  <2>1. \A i \in DOMAIN conns : conns[i] \in Rows(conns)
    BY ListParts DEF Agree, ListGood
  <2>2. ASSUME NEW i \in DOMAIN conns
        PROVE  Valid(Stored'[i].data) <=> Valid(Stored[i].data)
    <3>1. CASE conns[i].id = current
      <4>1. Stored[i].data = form /\ Stored'[i].data = form'
        BY <1>4, <2>1, <3>1 DEF Stored, StoredWith, Rows
      <4>2. QED BY <1>3, <4>1
    <3>2. CASE conns[i].id # current
      BY <1>4, <3>2 DEF Stored, StoredWith
    <3>3. QED BY <3>1, <3>2
  <2>3. QED BY <2>2
<1>6. QED BY <1>1, <1>2, <1>4, <1>5 DEF Agree

\* What a signal may change at once: one field, or the protocol and its port.
LEMMA CheckedEdits ==
  ASSUME form \in Data, EditChecked \/ \E p \in Protocols : ChooseProtocol(p)
  PROVE  \E f \in Data : Changed(f) /\ Editor!Edited(form, f)
<1>1. CASE EditChecked
  <2>1. ASSUME NEW n \in {"given", "blank"}, Changed([form EXCEPT !.name = n])
        PROVE  \E f \in Data : Changed(f) /\ Editor!Edited(form, f)
    <3> DEFINE f == [form EXCEPT !.name = n]
    <3>1. f \in Data /\ f.name = n
      BY DEF Data
    <3>2. Editor!Edited(form, f)
      BY <3>1 DEF Editor!Edited
    <3> HIDE DEF f
    <3>3. QED BY <2>1, <3>1, <3>2 DEF f
  <2>2. ASSUME NEW h \in Hosts, Changed([form EXCEPT !.host = h])
        PROVE  \E f \in Data : Changed(f) /\ Editor!Edited(form, f)
    <3> DEFINE f == [form EXCEPT !.host = h]
    <3>1. f \in Data /\ f.host = h
      BY DEF Data
    <3>2. Editor!Edited(form, f)
      BY <3>1 DEF Editor!Edited
    <3> HIDE DEF f
    <3>3. QED BY <2>2, <3>1, <3>2 DEF f
  <2>3. ASSUME NEW p \in Ports, Changed([form EXCEPT !.port = p])
        PROVE  \E f \in Data : Changed(f) /\ Editor!Edited(form, f)
    <3> DEFINE f == [form EXCEPT !.port = p]
    <3>1. f \in Data /\ f.port = p
      BY DEF Data
    <3>2. Editor!Edited(form, f)
      BY <3>1 DEF Editor!Edited
    <3> HIDE DEF f
    <3>3. QED BY <2>3, <3>1, <3>2 DEF f
  <2>4. ASSUME NEW g \in Gateways, Changed([form EXCEPT !.gateway = g])
        PROVE  \E f \in Data : Changed(f) /\ Editor!Edited(form, f)
    <3> DEFINE f == [form EXCEPT !.gateway = g]
    <3>1. f \in Data /\ f.gateway = g
      BY DEF Data
    <3>2. Editor!Edited(form, f)
      BY <3>1 DEF Editor!Edited
    <3> HIDE DEF f
    <3>3. QED BY <2>4, <3>1, <3>2 DEF f
  <2>5. QED BY <1>1, <2>1, <2>2, <2>3, <2>4 DEF EditChecked
<1>2. ASSUME NEW p \in Protocols, ChooseProtocol(p)
      PROVE  \E f \in Data : Changed(f) /\ Editor!Edited(form, f)
  <2> DEFINE q == PortFor(p, form.port)
             f == [form EXCEPT !.protocol = p, !.port = q]
  <2>1. /\ q \in Ports
        /\ q # form.port => <<form.port, q>> \in {<<3389, 5900>>, <<5900, 3389>>}
    BY DEF PortFor, Data, Ports, Protocols
  <2>2. f \in Data /\ f.protocol = p /\ f.port = q
    <3> DEFINE g == [form EXCEPT !.protocol = p]
    <3>1. g \in Data /\ g.protocol = p
      BY DEF Data
    <3>2. f = [g EXCEPT !.port = q]
      OBVIOUS
    <3> HIDE DEF q, g, f
    <3>3. QED BY <2>1, <3>1, <3>2 DEF Data
  <2>3. Editor!Edited(form, f)
    BY <2>1, <2>2 DEF Editor!Edited
  <2>4. QED BY <1>2, <2>2, <2>3 DEF ChooseProtocol
<1>3. QED BY <1>1, <1>2

\* A row is added behind the draft as it is shown, under a name of its own.
LEMMA AddAgrees ==
  ASSUME Agree, NEW base, NEW d \in Data,
         AddShown([id |-> Fresh(base, Ids(conns)), data |-> d])
  PROVE  LET row == [id |-> Fresh(base, Ids(conns)), data |-> d]
         IN  /\ Stored' = Append(Stored, row) /\ Stored' # <<>>
             /\ Stored'[Len(Stored')] = row
             /\ row.id \notin Ids(Stored) \cup {NoId}
             /\ conns' = Append(Stored, row) /\ Ids(conns') = Ids(conns) \cup {row.id}
             /\ current' = row.id /\ Agree'
<1> DEFINE x == Fresh(base, Ids(conns))
           row == [id |-> x, data |-> d]
           cs == Append(Stored, row)
<1>1. ListGood(Stored) /\ Ids(Stored) = Ids(conns)
  BY StoredGood DEF Agree
<1>2. x \notin Ids(Stored) /\ x # NoId
  BY <1>1, IdsFinite, FreshIsFree DEF ListGood
<1>3. ListGood(cs) /\ Ids(cs) = Ids(Stored) \cup {x} /\ cs[Len(cs)] = row
  BY <1>1, <1>2, AppendGood
<1>4. cs # <<>>
  BY <1>3, EmptyGood
<1>5. Show(cs, x)
  BY DEF AddShown
<1>6. conns' = cs /\ current' = x /\ Stored' = cs /\ Agree'
  BY <1>3, <1>5, ShowAgrees DEF Agree
<1>7. row.id = x
  OBVIOUS
<1> HIDE DEF cs, row
<1>8. QED BY <1>1, <1>2, <1>3, <1>4, <1>6, <1>7 DEF cs, row

\* The chosen row goes and the first one left is shown.
LEMMA RemoveAgrees ==
  ASSUME Agree, RemoveRow
  PROVE  \E i \in DOMAIN conns :
           /\ conns[i].id = current /\ conns' = RemoveAt(conns, i) /\ Stored' = conns'
           /\ Ids(conns') = Ids(conns) \ {current}
           /\ current' = First(conns') /\ Agree'
<1> DEFINE i == Index(conns, current)
           left == RemoveAt(conns, i)
<1>1. i \in DOMAIN conns /\ conns[i].id = current
  BY IndexFound DEF Agree, RemoveRow
<1>2. ListGood(left) /\ Ids(left) = Ids(conns) \ {current}
  BY <1>1, RemoveGood DEF Agree
<1>3. Show(left, First(left)) /\ First(left) \in Ids(left) \cup {NoId}
  BY <1>2, FirstFound DEF RemoveRow
<1>4. conns' = left /\ current' = First(left) /\ Stored' = left /\ Agree'
  BY <1>2, <1>3, ShowAgrees DEF Agree
<1>5. QED BY <1>1, <1>2, <1>4

-----------------------------------------------------------------------------
(* The window keeps the invariant and implements the editor. *)

LEMMA FormInit == Init => FormInv /\ Editor!Init
<1>1. SUFFICES ASSUME Init PROVE FormInv /\ Editor!Init
  OBVIOUS
<1>2. conns = <<>> /\ current = NoId /\ auto = NoId /\ open = FALSE /\ form = New
  BY <1>1 DEF Init, Closed
<1>3. ListGood(cfg.conns) /\ cfg.auto \in Ids(cfg.conns) \cup {NoId}
  BY <1>1, LoadedGood DEF Init
<1>4. Stored = <<>>
  BY <1>2, StoredIsWritten, WriteBack, EmptyGood
<1>5. FormInv
  BY <1>1, <1>2, <1>3, EmptyGood, NewIsData DEF FormInv, Init, SaveTellsTruth
<1>6. Editor!Init
  BY <1>2, <1>3, <1>4 DEF Editor!Init, Editor!Closed, Editor!Ids, Editor!NoId, Ids, NoId
<1>7. QED BY <1>5, <1>6

LEMMA CloseClears ==
  ASSUME Close
  PROVE  /\ open' = FALSE /\ Closed' /\ Stored' = <<>> /\ Editor!End
         /\ ListGood(conns') /\ auto' \in Ids(conns') \cup {NoId}
         /\ current' \in Ids(conns') \cup {NoId} /\ form' \in Data
<1>1. conns' = <<>> /\ current' = NoId /\ auto' = NoId /\ open' = FALSE /\ form' = New
  BY DEF Close
<1>2. Stored' = Written(conns', current', form')
  BY DEF Stored, StoredWith, Written
<1>3. Stored' = <<>>
  BY <1>1, <1>2, WriteBack, EmptyGood
<1>4. Closed'
  BY <1>1 DEF Close, Closed
<1>5. Editor!End
  BY <1>1, <1>3 DEF Editor!End, Editor!Closed, Editor!NoId, NoId
<1>6. QED BY <1>1, <1>3, <1>4, <1>5, EmptyGood, NewIsData

\* Outside opening and closing, a step of the window that agrees keeps the invariant.
LEMMA KeepsInvariant ==
  ASSUME FormInv, Agree', open' = open, open, UNCHANGED cfg,
         auto' \in Ids(conns') \cup {NoId}
  PROVE  FormInv'
BY DEF FormInv, Agree, SaveTellsTruth

LEMMA InvariantAgrees ==
  ASSUME FormInv, open
  PROVE  Agree
BY DEF FormInv, Agree, SaveTellsTruth

LEMMA IdsAgree == \A cs : Editor!Ids(cs) = Ids(cs) /\ Editor!First(cs) = First(cs)
BY DEF Editor!Ids, Ids, Editor!First, First, Editor!NoId, NoId

\* Every step keeps the invariant and is a step of the editor, or changes nothing
\* that the administrator sees.
LEMMA FormStep ==
  FormInv /\ [Next]_vars => FormInv' /\ [Editor!Next]_(Editor!vars)
<1>1. SUFFICES ASSUME FormInv, [Next]_vars
               PROVE  FormInv' /\ [Editor!Next]_(Editor!vars)
  OBVIOUS
<1>2. ASSUME OpenSettings
      PROVE  FormInv' /\ Editor!Begin
  <2>1. /\ conns' = cfg.conns /\ current' = First(cfg.conns) /\ Stored' = cfg.conns
        /\ Agree'
    BY <1>1, <1>2, OpenAgrees DEF FormInv
  <2>2. FormInv'
    BY <1>1, <1>2, <2>1 DEF FormInv, Agree, SaveTellsTruth, OpenSettings
  <2>3. Editor!Begin
    BY <1>2, <2>1, IdsAgree DEF OpenSettings, Editor!Begin
  <2>4. QED BY <2>2, <2>3
<1>3. ASSUME Accept
      PROVE  FormInv' /\ Editor!Save
  <2>1. Agree
    BY <1>1, <1>3, InvariantAgrees DEF Accept
  <2>2. ListGood(Stored) /\ Ids(Stored) = Ids(conns) /\ DOMAIN Stored = DOMAIN conns
    BY <2>1, StoredGood DEF Agree
  <2>3. Close /\ cfg'.conns = Stored /\ cfg'.auto = auto
    BY <1>3 DEF Accept
  <2>4. FormInv'
    BY <1>1, <2>2, <2>3, CloseClears DEF FormInv, SaveTellsTruth
  <2>5. \A i \in DOMAIN Stored : Editor!Valid(Stored[i].data)
    BY <1>3, <2>1, <2>2 DEF Accept, Agree, Valid, Editor!Valid
  <2>6. QED BY <1>3, <2>3, <2>4, <2>5, CloseClears DEF Accept, Editor!Save
<1>4. ASSUME Cancel
      PROVE  FormInv' /\ Editor!Cancel
  BY <1>1, <1>4, CloseClears DEF Cancel, Editor!Cancel, FormInv, SaveTellsTruth
<1>5. ASSUME NEW id \in Ids(conns) \cup {NoId}, SelectRow(id)
      PROVE  FormInv' /\ Editor!Choose
  <2>1. Agree
    BY <1>1, <1>5, InvariantAgrees DEF SelectRow
  <2>2. ListGood(Stored) /\ Ids(Stored) = Ids(conns)
    BY <2>1, StoredGood DEF Agree
  <2>3. conns' = Stored /\ current' = id /\ Stored' = Stored /\ Agree'
    BY <1>5, <2>1, <2>2, ShowAgrees DEF SelectRow, Agree
  <2>4. FormInv'
    BY <1>1, <1>5, <2>2, <2>3, KeepsInvariant DEF SelectRow, FormInv
  <2>5. Editor!Choose
    BY <1>5, <2>2, <2>3, IdsAgree DEF SelectRow, Editor!Choose, Editor!NoId, NoId
  <2>6. QED BY <2>4, <2>5
<1>6. ASSUME EditChecked \/ \E p \in Protocols : ChooseProtocol(p)
      PROVE  FormInv' /\ Editor!Edit
  <2>1. PICK f \in Data : Changed(f) /\ Editor!Edited(form, f)
    BY <1>1, <1>6, CheckedEdits DEF FormInv
  <2>2. Agree
    BY <1>1, <2>1, InvariantAgrees DEF Changed
  <2>3. Stored' = StoredWith(f) /\ Ids(conns') = Ids(conns) /\ Agree'
    BY <2>1, <2>2, ChangedAgrees
  <2>4. FormInv'
    BY <1>1, <2>1, <2>3, KeepsInvariant DEF Changed, FormInv
  <2>5. Editor!Edit
    <3>1. \A i \in DOMAIN conns : conns[i] \in Rows(conns)
      BY <2>2, ListParts DEF Agree, ListGood
    <3>2. DOMAIN Stored' = DOMAIN Stored /\ DOMAIN Stored = DOMAIN conns
      BY <2>3 DEF Stored, StoredWith
    <3>3. ASSUME NEW i \in DOMAIN conns
          PROVE  IF Stored[i].id = current
                   THEN /\ Stored'[i].id = current
                        /\ Editor!Edited(Stored[i].data, Stored'[i].data)
                   ELSE Stored'[i] = Stored[i]
      <4>1. CASE conns[i].id = current
        <5>1. /\ Stored[i].data = form /\ Stored'[i].data = f
              /\ Stored[i].id = current /\ Stored'[i].id = current
          BY <2>3, <3>1, <4>1 DEF Stored, StoredWith, Rows
        <5>2. QED BY <2>1, <5>1
      <4>2. CASE conns[i].id # current
        BY <2>3, <4>2 DEF Stored, StoredWith
      <4>3. QED BY <4>1, <4>2
    <3>4. QED BY <2>1, <3>2, <3>3 DEF Editor!Edit, Changed
  <2>6. QED BY <2>4, <2>5
<1>7. ASSUME NEW r \in Rests, EditOther(r)
      PROVE  FormInv' /\ Editor!Edit
  <2>1. Agree
    BY <1>1, <1>7, InvariantAgrees DEF EditOther
  <2>2. Stored' = StoredWith(form') /\ conns' = conns /\ current' = current /\ Agree'
    BY <1>7, <2>1, OtherAgrees
  <2>3. FormInv'
    BY <1>1, <1>7, <2>2, KeepsInvariant DEF EditOther, FormInv
  <2>4. Editor!Edited(form, form')
    <3>1. form' = [form EXCEPT !.rest = r] /\ form'.rest = r
      BY <1>7, <2>1 DEF EditOther, Agree, Data
    <3>2. QED BY <3>1 DEF Editor!Edited
  <2>5. Editor!Edit
    <3>1. \A i \in DOMAIN conns : conns[i] \in Rows(conns)
      BY <2>1, ListParts DEF Agree, ListGood
    <3>2. DOMAIN Stored' = DOMAIN Stored /\ DOMAIN Stored = DOMAIN conns
      BY <2>2 DEF Stored, StoredWith
    <3>3. ASSUME NEW i \in DOMAIN conns
          PROVE  IF Stored[i].id = current
                   THEN /\ Stored'[i].id = current
                        /\ Editor!Edited(Stored[i].data, Stored'[i].data)
                   ELSE Stored'[i] = Stored[i]
      <4>1. CASE conns[i].id = current
        <5>1. /\ Stored[i].data = form /\ Stored'[i].data = form'
              /\ Stored[i].id = current /\ Stored'[i].id = current
          BY <2>2, <3>1, <4>1 DEF Stored, StoredWith, Rows
        <5>2. QED BY <2>4, <5>1
      <4>2. CASE conns[i].id # current
        BY <2>2, <4>2 DEF Stored, StoredWith
      <4>3. QED BY <4>1, <4>2
    <3>4. QED BY <1>7, <3>2, <3>3 DEF Editor!Edit, EditOther
  <2>6. QED BY <2>3, <2>5
<1>8. ASSUME AddRow
      PROVE  FormInv' /\ Editor!Add
  <2> DEFINE row == [id |-> Fresh(NoId, Ids(conns)), data |-> New]
  <2>1. Agree
    BY <1>1, <1>8, InvariantAgrees DEF AddRow, AddShown
  <2>2. /\ Stored' = Append(Stored, row) /\ Stored' # <<>> /\ Stored'[Len(Stored')] = row
        /\ row.id \notin Ids(Stored) \cup {NoId}
        /\ Ids(conns') = Ids(conns) \cup {row.id} /\ current' = row.id /\ Agree'
    BY <1>8, <2>1, AddAgrees, NewIsData DEF AddRow
  <2>3. UNCHANGED <<cfg, open, auto>> /\ open
    BY <1>8 DEF AddRow, AddShown
  <2>4. FormInv'
    BY <1>1, <2>2, <2>3, KeepsInvariant DEF FormInv
  <2>5. ~Editor!Valid(row.data)
    BY DEF New, Editor!Valid
  <2> HIDE DEF row
  <2>6. Editor!Add
    BY <2>2, <2>3, <2>5, IdsAgree
       DEF Editor!Add, Editor!Appended, Editor!NoId, NoId
  <2>7. QED BY <2>4, <2>6
<1>9. ASSUME CopyRow
      PROVE  FormInv' /\ Editor!Copy
  <2> DEFINE d == [form EXCEPT !.name = "given"]
             row == [id |-> Fresh(current, Ids(conns)), data |-> d]
  <2>1. Agree
    BY <1>1, <1>9, InvariantAgrees DEF CopyRow, AddShown
  <2>2. d \in Data
    BY <2>1 DEF Agree, Data
  <2>3. /\ Stored' = Append(Stored, row) /\ Stored' # <<>> /\ Stored'[Len(Stored')] = row
        /\ row.id \notin Ids(Stored) \cup {NoId}
        /\ Ids(conns') = Ids(conns) \cup {row.id} /\ current' = row.id /\ Agree'
    BY <1>9, <2>1, <2>2, AddAgrees DEF CopyRow
  <2>4. UNCHANGED <<cfg, open, auto>> /\ open /\ current # NoId
    BY <1>9 DEF CopyRow, AddShown
  <2>5. FormInv'
    BY <1>1, <2>3, <2>4, KeepsInvariant DEF FormInv
  <2>6. row.data = d
    OBVIOUS
  <2>7. PICK i \in DOMAIN Stored : Stored[i].id = current /\ Stored[i].data = form
    <3>1. PICK i \in DOMAIN conns : conns[i].id = current
      BY <2>1, <2>4 DEF Agree, Ids
    <3>2. conns[i] \in Rows(conns)
      BY <2>1, ListParts DEF Agree, ListGood
    <3>3. QED BY <3>1, <3>2 DEF Stored, StoredWith, Rows
  <2> HIDE DEF row
  <2>8. Editor!Appended
    BY <2>3, <2>4, IdsAgree DEF Editor!Appended, Editor!NoId, NoId
  <2>9. QED BY <2>3, <2>5, <2>6, <2>7, <2>8 DEF Editor!Copy
<1>10. ASSUME RemoveRow
       PROVE  FormInv' /\ Editor!RemoveRow
  <2>1. Agree
    BY <1>1, <1>10, InvariantAgrees DEF RemoveRow
  <2>2. PICK i \in DOMAIN conns :
          /\ conns[i].id = current /\ conns' = RemoveAt(conns, i) /\ Stored' = conns'
          /\ Ids(conns') = Ids(conns) \ {current}
          /\ current' = First(conns') /\ Agree'
    BY <1>10, <2>1, RemoveAgrees
  <2>3. /\ auto' = IF auto = current THEN NoId ELSE auto
        /\ UNCHANGED <<cfg, open>> /\ open
    BY <1>10 DEF RemoveRow
  <2>4. FormInv'
    BY <1>1, <2>2, <2>3, KeepsInvariant DEF FormInv
  <2>5. RemoveAt(Stored, i) = RemoveAt(conns, i)
    <3>1. DOMAIN Stored = DOMAIN conns /\ \A j \in DOMAIN conns : j # i => Stored[j] = conns[j]
      BY <2>1, <2>2 DEF Stored, StoredWith, Agree, ListGood, Distinct
    <3>2. QED BY <2>1, <3>1, SameRemoved, StoredGood DEF Agree, ListGood
  <2>6. i \in DOMAIN Stored /\ Stored[i].id = current
    BY <2>1, <2>2, ListParts DEF Stored, StoredWith, Agree, ListGood, Rows
  <2>7. QED BY <2>2, <2>3, <2>4, <2>5, <2>6, IdsAgree
             DEF Editor!RemoveRow, Editor!RemoveAt, RemoveAt, Editor!NoId, NoId
<1>11. ASSUME NEW id \in Ids(conns) \cup {NoId}, ChooseAuto(id)
       PROVE  FormInv' /\ Editor!ChooseAuto
  <2>1. /\ UNCHANGED <<cfg, open, conns, current, form, sensitive, saveable>>
        /\ auto' = id /\ open
    BY <1>11 DEF ChooseAuto
  <2>2. Stored' = Stored /\ Ids(Stored) = Ids(conns)
    BY <1>1, <2>1, StoredGood DEF Stored, StoredWith, FormInv
  <2>3. FormInv'
    BY <1>1, <2>1, <2>2 DEF FormInv, SaveTellsTruth
  <2>4. QED BY <2>1, <2>2, <2>3, IdsAgree DEF Editor!ChooseAuto, Editor!NoId, NoId
<1>12. ASSUME NEW c \in Loaded, Reload(c)
       PROVE  FormInv' /\ Editor!Reload
  <2>1. /\ UNCHANGED <<open, conns, current, form, sensitive, saveable, auto>>
        /\ cfg' = c
    BY <1>12 DEF Reload
  <2>2. ListGood(c.conns) /\ c.auto \in Ids(c.conns) \cup {NoId}
    BY LoadedGood
  <2>3. Stored' = Stored
    BY <2>1 DEF Stored, StoredWith
  <2>4. FormInv'
    BY <1>1, <2>1, <2>2, <2>3 DEF FormInv, SaveTellsTruth, Closed
  <2>5. QED BY <2>1, <2>2, <2>3, <2>4, IdsAgree DEF Editor!Reload, Editor!NoId, NoId
<1>13. CASE UNCHANGED vars
  <2>1. UNCHANGED <<cfg, open, conns, current, form, sensitive, saveable, auto>>
    BY <1>13 DEF vars
  <2>2. Stored' = Stored
    BY <2>1 DEF Stored, StoredWith
  <2>3. QED BY <1>1, <2>1, <2>2 DEF FormInv, SaveTellsTruth, Closed, Editor!vars
<1>14. QED
  BY <1>1, <1>2, <1>3, <1>4, <1>5, <1>6, <1>7, <1>8, <1>9, <1>10, <1>11, <1>12, <1>13
     DEF Next, Editor!Next

\* However rows are selected, edited, added, copied and removed, every row keeps an
\* identity of its own and both start-up choices name rows: RowsAreSound.
THEOREM RowsSound == Spec => []RowsAreSound
<1>1. Init => FormInv
  BY FormInit
<1>2. FormInv /\ [Next]_vars => FormInv'
  BY FormStep
<1>3. FormInv => RowsAreSound
  BY DEF FormInv, RowsAreSound, ListGood
<1>4. QED BY <1>1, <1>2, <1>3, PTL DEF Spec

\* Save can be pressed exactly when every row, as stored or as the form shows it,
\* could be connected to: the button of _validate_form.
THEOREM SaveIsTruthful == Spec => []SaveTellsTruth
<1>1. Init => FormInv
  BY FormInit
<1>2. FormInv /\ [Next]_vars => FormInv'
  BY FormStep
<1>3. FormInv => SaveTellsTruth
  BY DEF FormInv
<1>4. QED BY <1>1, <1>2, <1>3, PTL DEF Spec

\* The window with its one form, its signals and its write-backs does to the
\* configuration and the draft nothing but what the editor allows.
THEOREM FormImplementsEditor == Spec => ImplementsEditor
<1>1. Init => FormInv /\ Editor!Init
  BY FormInit
<1>2. FormInv /\ [Next]_vars => FormInv' /\ [Editor!Next]_(Editor!vars)
  BY FormStep
<1>3. QED BY <1>1, <1>2, PTL DEF Spec, ImplementsEditor, Editor!Spec
=============================================================================
