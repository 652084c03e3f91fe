------------------------ MODULE LlcaPersistenceProofs ------------------------
(***************************************************************************)
(* Proofs about LlcaPersistence, for every list of integers, every count   *)
(* and any number of saves, crashes and restarts.                          *)
(*                                                                         *)
(* Two facts carry over a crash only through the file: that its values     *)
(* ascend, so that llca_rdb_load, which inserts them one by one, puts each *)
(* at the end; and by how much its count exceeds them, which is what is    *)
(* left to load beyond what is left to read.  ImageInv and LoadInv say so, *)
(* and the first part of the module gives the lemmas about sequences.      *)
(***************************************************************************)
EXTENDS LlcaPersistence, SequenceTheorems, FiniteSetTheorems, WellFoundedInduction,
        TLAPS

-----------------------------------------------------------------------------
(* Facts about the sequence operators.                                     *)

\* A set of positions that is not empty has a least one: the smallest of the
\* intervals that end in it.
LEMMA LeastPosition ==
    ASSUME NEW N \in Nat, NEW S \in SUBSET (1..N), S # {}
    PROVE  \E i \in S : \A j \in S : i <= j
<1> DEFINE T == {1..i : i \in S}
           R == StrictSubsetOrdering(1..N)
<1>1. IsFiniteSet(1..N)
  BY FS_Interval
<1>2. IsWellFoundedOn(R, SUBSET (1..N))
  BY <1>1, FS_StrictSubsetOrderingWellFounded, FS_FiniteSubsetsOfFinite
<1>3. T \subseteq SUBSET (1..N) /\ T # {}
  <2>1. \A i \in S : 1..i \in SUBSET (1..N)
    OBVIOUS
  <2>2. QED
    BY <2>1, Zenon
<1> HIDE DEF R, T
<1>4. PICK x \in T : \A y \in T : ~(<<y, x>> \in R)
  BY <1>2, <1>3, WFMin
<1>5. PICK i \in S : x = 1..i
  BY DEF T
<1>6. ASSUME NEW j \in S, j < i PROVE FALSE
  <2>1. 1..j \in T /\ 1..j \subseteq x /\ 1..j # x
    BY <1>5, <1>6 DEF T
  <2>2. <<1..j, x>> \in R
    BY <1>3, <2>1 DEF R, StrictSubsetOrdering
  <2>3. QED
    BY <1>4, <2>1, <2>2
<1>7. QED
  BY <1>6

\* llca_insert finds a place for every value.
LEMMA PlaceFound ==
    ASSUME NEW s \in Seq(Int), NEW val \in Int
    PROVE  /\ Place(s, val) \in 1..Len(s) + 1
           /\ \A j \in 1..Place(s, val) - 1 : s[j] < val
           /\ Place(s, val) <= Len(s) => s[Place(s, val)] >= val
<1> DEFINE Stops(i) == i <= Len(s) => s[i] >= val
           Ends == {i \in 1..Len(s) + 1 : Stops(i)}
<1>1. Len(s) + 1 \in Ends
  OBVIOUS
<1>2. PICK p \in Ends : \A j \in Ends : p <= j
  <2>1. Len(s) + 1 \in Nat /\ Ends \in SUBSET (1..Len(s) + 1) /\ Ends # {}
    BY <1>1
  <2> HIDE DEF Ends
  <2>2. QED
    BY <2>1, LeastPosition
<1>3. \A j \in 1..p - 1 : s[j] < val
  <2> SUFFICES ASSUME NEW j \in 1..p - 1 PROVE s[j] < val
    OBVIOUS
  <2>1. j \in 1..Len(s) /\ j \notin Ends
    BY <1>2
  <2>2. s[j] \in Int
    BY <2>1, ElementOfSeq
  <2>3. QED
    BY <2>1, <2>2
<1>4. \E i \in 1..Len(s) + 1 : /\ \A j \in 1..i - 1 : s[j] < val
                               /\ i <= Len(s) => s[i] >= val
  BY <1>2, <1>3
<1>5. QED
  BY <1>4 DEF Place

\* A piece of a sequence.
LEMMA Piece ==
    ASSUME NEW S, NEW s \in Seq(S), NEW a \in 1..Len(s) + 1, NEW b \in a - 1..Len(s)
    PROVE  /\ SubSeq(s, a, b) \in Seq(S)
           /\ Len(SubSeq(s, a, b)) = b - a + 1
           /\ \A i \in 1..b - a + 1 : SubSeq(s, a, b)[i] = s[a + i - 1]
<1>1. /\ Len(s) \in Nat /\ a \in Nat /\ b \in Int /\ b >= a - 1
      /\ \A i \in a..b : s[i] \in S
  BY ElementOfSeq, LenProperties
<1>2. /\ SubSeq(s, a, b) \in Seq(S)
      /\ Len(SubSeq(s, a, b)) = IF a <= b THEN b - a + 1 ELSE 0
      /\ \A i \in 1..b - a + 1 : SubSeq(s, a, b)[i] = s[a + i - 1]
  BY <1>1, SubSeqProperties
<1>3. QED
  BY <1>1, <1>2

\* InsertAt moves what follows one place on.
LEMMA InsertAtIsInsertion ==
    ASSUME NEW S, NEW s \in Seq(S), NEW e \in S, NEW p \in 1..Len(s) + 1
    PROVE  /\ InsertAt(s, p, e) \in Seq(S)
           /\ Len(InsertAt(s, p, e)) = Len(s) + 1
           /\ \A i \in 1..Len(s) + 1 :
                 InsertAt(s, p, e)[i] = IF i < p THEN s[i]
                                        ELSE IF i = p THEN e ELSE s[i - 1]
<1> DEFINE front == SubSeq(s, 1, p - 1)
           back == SubSeq(s, p, Len(s))
           head == front \o <<e>>
<1>0. Len(s) \in Nat /\ p \in Nat /\ p >= 1 /\ p <= Len(s) + 1
  BY LenProperties
<1>1. /\ front \in Seq(S) /\ Len(front) = p - 1
      /\ \A i \in 1..p - 1 : front[i] = s[i]
  <2>1. 1 \in 1..Len(s) + 1 /\ p - 1 \in 1 - 1..Len(s)
    BY <1>0
  <2>2. QED
    BY <1>0, <2>1, Piece
<1>2. /\ back \in Seq(S) /\ Len(back) = Len(s) - p + 1
      /\ \A i \in 1..Len(s) - p + 1 : back[i] = s[p + i - 1]
  <2>1. Len(s) \in p - 1..Len(s)
    BY <1>0
  <2>2. QED
    BY <2>1, Piece
<1>3. <<e>> \in Seq(S) /\ Len(<<e>>) = 1 /\ <<e>>[1] = e
  OBVIOUS
<1>4. InsertAt(s, p, e) = (front \o <<e>>) \o back
  BY DEF InsertAt
<1> HIDE DEF front, back
<1>5. /\ head \in Seq(S) /\ Len(head) = p
      /\ \A i \in 1..p : head[i] = IF i <= p - 1 THEN front[i] ELSE <<e>>[i - (p - 1)]
  BY <1>0, <1>1, <1>3, ConcatProperties
<1> HIDE DEF head
<1>6. /\ head \o back \in Seq(S) /\ Len(head \o back) = Len(s) + 1
      /\ \A i \in 1..Len(s) + 1 :
            (head \o back)[i] = IF i <= p THEN head[i] ELSE back[i - p]
  <2>1. Len(head) + Len(back) = Len(s) + 1
    BY <1>0, <1>2, <1>5
  <2>2. /\ head \o back \in Seq(S) /\ Len(head \o back) = Len(head) + Len(back)
        /\ \A i \in 1..Len(head) + Len(back) :
              (head \o back)[i] = IF i <= Len(head) THEN head[i] ELSE back[i - Len(head)]
    BY <1>2, <1>5, ConcatProperties
  <2>3. QED
    BY <1>5, <2>1, <2>2
<1>7. \A i \in 1..Len(s) + 1 : i <= p => head[i] = IF i < p THEN s[i] ELSE e
  BY <1>0, <1>1, <1>3, <1>5
<1>8. \A i \in 1..Len(s) + 1 : ~(i <= p) => back[i - p] = s[i - 1]
  <2> SUFFICES ASSUME NEW i \in 1..Len(s) + 1, ~(i <= p) PROVE back[i - p] = s[i - 1]
    OBVIOUS
  <2>1. i - p \in 1..Len(s) - p + 1 /\ p + (i - p) - 1 = i - 1
    BY <1>0
  <2>2. QED
    BY <1>2, <2>1
<1>9. \A i \in 1..Len(s) + 1 :
         (head \o back)[i] = IF i < p THEN s[i] ELSE IF i = p THEN e ELSE s[i - 1]
  BY <1>0, <1>6, <1>7, <1>8
<1>10. InsertAt(s, p, e) = head \o back
  BY <1>4 DEF head
<1>11. QED
  BY <1>6, <1>9, <1>10

\* RemoveAt moves what follows one place back.
LEMMA RemoveAtIsRemoval ==
    ASSUME NEW S, NEW s \in Seq(S), NEW p \in 1..Len(s)
    PROVE  /\ RemoveAt(s, p) \in Seq(S)
           /\ Len(RemoveAt(s, p)) = Len(s) - 1
           /\ \A i \in 1..Len(s) - 1 :
                 RemoveAt(s, p)[i] = IF i < p THEN s[i] ELSE s[i + 1]
<1> DEFINE front == SubSeq(s, 1, p - 1)
           back == SubSeq(s, p + 1, Len(s))
<1>0. Len(s) \in Nat /\ p \in Nat /\ p >= 1 /\ p <= Len(s)
  BY LenProperties
<1>1. /\ front \in Seq(S) /\ Len(front) = p - 1
      /\ \A i \in 1..p - 1 : front[i] = s[i]
  <2>1. 1 \in 1..Len(s) + 1 /\ p - 1 \in 1 - 1..Len(s)
    BY <1>0
  <2>2. QED
    BY <1>0, <2>1, Piece
<1>2. /\ back \in Seq(S) /\ Len(back) = Len(s) - p
      /\ \A i \in 1..Len(s) - p : back[i] = s[p + i]
  <2>1. p + 1 \in 1..Len(s) + 1 /\ Len(s) \in (p + 1) - 1..Len(s)
    BY <1>0
  <2>2. /\ back \in Seq(S) /\ Len(back) = Len(s) - (p + 1) + 1
        /\ \A i \in 1..Len(s) - (p + 1) + 1 : back[i] = s[(p + 1) + i - 1]
    BY <2>1, Piece
  <2>3. QED
    BY <1>0, <2>2
<1> HIDE DEF front, back
<1>3. /\ front \o back \in Seq(S) /\ Len(front \o back) = Len(s) - 1
      /\ \A i \in 1..Len(s) - 1 :
            (front \o back)[i] = IF i <= p - 1 THEN front[i] ELSE back[i - (p - 1)]
  <2>1. Len(front) + Len(back) = Len(s) - 1
    BY <1>0, <1>1, <1>2
  <2>2. /\ front \o back \in Seq(S) /\ Len(front \o back) = Len(front) + Len(back)
        /\ \A i \in 1..Len(front) + Len(back) :
              (front \o back)[i] = IF i <= Len(front) THEN front[i] ELSE back[i - Len(front)]
    BY <1>1, <1>2, ConcatProperties
  <2>3. QED
    BY <1>1, <2>1, <2>2
<1>4. \A i \in 1..Len(s) - 1 : ~(i <= p - 1) => back[i - (p - 1)] = s[i + 1]
  <2> SUFFICES ASSUME NEW i \in 1..Len(s) - 1, ~(i <= p - 1)
               PROVE  back[i - (p - 1)] = s[i + 1]
    OBVIOUS
  <2>1. i - (p - 1) \in 1..Len(s) - p /\ p + (i - (p - 1)) = i + 1
    BY <1>0
  <2>2. QED
    BY <1>2, <2>1
<1>5. \A i \in 1..Len(s) - 1 :
         (front \o back)[i] = IF i < p THEN s[i] ELSE s[i + 1]
  BY <1>0, <1>1, <1>3, <1>4
<1>6. RemoveAt(s, p) = front \o back
  BY DEF RemoveAt, front, back
<1>7. QED
  BY <1>3, <1>5, <1>6

\* RemoveFirst takes one occurrence of its value out.
LEMMA RemoveFirstIsRemoval ==
    ASSUME NEW S, NEW s \in Seq(S), NEW e \in S, Contains(s, e)
    PROVE  \E p \in 1..Len(s) : RemoveFirst(s, e) = RemoveAt(s, p)
<1> DEFINE Found == {i \in 1..Len(s) : s[i] = e}
<1>1. Len(s) \in Nat /\ Found \in SUBSET (1..Len(s)) /\ Found # {}
  BY LenProperties DEF Contains
<1>2. RemoveFirst(s, e) = RemoveAt(s, Min(Found))
  BY <1>1 DEF RemoveFirst, SelectInSeq
<1> HIDE DEF Found
<1>3. \E i \in Found : \A j \in Found : i <= j
  BY <1>1, LeastPosition
<1>4. Min(Found) \in Found
  BY <1>3 DEF Min
<1>5. QED
  BY <1>1, <1>2, <1>4

-----------------------------------------------------------------------------
(* What the list operations do to an ascending list.                       *)

Ascending(s) == \A i, j \in 1..Len(s) : i < j => s[i] <= s[j]

\* llca_insert adds one value and keeps the order.
LEMMA InsertedAscends ==
    ASSUME NEW s \in Seq(Values), NEW val \in Values, Ascending(s)
    PROVE  /\ Inserted(s, val) \in Seq(Values)
           /\ Len(Inserted(s, val)) = Len(s) + 1
           /\ Ascending(Inserted(s, val))
<1> DEFINE p == Place(s, val)
           t == InsertAt(s, p, val)
<1>1. Len(s) \in Nat /\ s \in Seq(Int) /\ val \in Int /\ \A i \in 1..Len(s) : s[i] \in Int
  BY ValuesAssumption, ElementOfSeq, LenProperties, SeqMonotonic
<1>2. /\ p \in 1..Len(s) + 1
      /\ \A j \in 1..p - 1 : s[j] < val
      /\ p <= Len(s) => s[p] >= val
  BY <1>1, PlaceFound
<1> HIDE DEF p
<1>3. /\ t \in Seq(Values) /\ Len(t) = Len(s) + 1
      /\ \A i \in 1..Len(s) + 1 : t[i] = IF i < p THEN s[i]
                                         ELSE IF i = p THEN val ELSE s[i - 1]
  BY <1>2, InsertAtIsInsertion
<1> HIDE DEF t
<1>4. \A i \in 1..Len(s) : i >= p => s[i] >= val
  <2> SUFFICES ASSUME NEW i \in 1..Len(s), i >= p PROVE s[i] >= val
    OBVIOUS
  <2>1. p \in 1..Len(s) /\ s[p] >= val /\ s[p] \in Int /\ s[i] \in Int
    BY <1>1, <1>2
  <2>2. s[p] <= s[i]
    BY <2>1 DEF Ascending
  <2>3. QED
    BY <1>1, <2>1, <2>2
<1>5. Ascending(t)
  <2> SUFFICES ASSUME NEW i \in 1..Len(s) + 1, NEW j \in 1..Len(s) + 1, i < j
               PROVE  t[i] <= t[j]
    BY <1>3 DEF Ascending
  <2>1. CASE j < p
    <3>1. i \in 1..Len(s) /\ j \in 1..Len(s) /\ t[i] = s[i] /\ t[j] = s[j]
      BY <1>1, <1>2, <1>3, <2>1
    <3>2. QED
      BY <3>1 DEF Ascending
  <2>2. CASE j = p
    <3>1. i \in 1..p - 1 /\ t[i] = s[i] /\ t[j] = val /\ s[i] < val
      BY <1>1, <1>2, <1>3, <2>2
    <3>2. s[i] \in Int
      BY <1>1, <1>2, <3>1
    <3>3. QED
      BY <1>1, <3>1, <3>2
  <2>3. CASE j > p /\ i < p
    <3>1. i \in 1..Len(s) /\ j - 1 \in 1..Len(s) /\ i < j - 1
      BY <1>1, <1>2, <2>3
    <3>2. i \in 1..Len(s) /\ j - 1 \in 1..Len(s) /\ t[i] = s[i] /\ t[j] = s[j - 1]
      BY <1>1, <1>2, <1>3, <2>3
    <3>3. s[i] <= s[j - 1]
      BY <1>1, <3>1, <3>2 DEF Ascending
    <3>4. QED
      BY <3>2, <3>3
  <2>4. CASE j > p /\ i = p
    <3>1. j - 1 \in 1..Len(s) /\ j - 1 >= p /\ t[i] = val /\ t[j] = s[j - 1]
      BY <1>1, <1>2, <1>3, <2>4
    <3>2. s[j - 1] >= val /\ s[j - 1] \in Int
      BY <1>1, <1>4, <3>1
    <3>3. QED
      BY <1>1, <3>1, <3>2
  <2>5. CASE j > p /\ i > p
    <3>1. /\ i - 1 \in 1..Len(s) /\ j - 1 \in 1..Len(s) /\ i - 1 < j - 1
          /\ t[i] = s[i - 1] /\ t[j] = s[j - 1]
      BY <1>1, <1>2, <1>3, <2>5
    <3>2. QED
      BY <3>1 DEF Ascending
  <2>6. QED
    BY <1>2, <2>1, <2>2, <2>3, <2>4, <2>5
<1>6. Inserted(s, val) = t
  BY DEF Inserted, p, t
<1>7. QED
  BY <1>3, <1>5, <1>6

\* llca_remove takes one value away and keeps the order.
LEMMA RemovedAscends ==
    ASSUME NEW s \in Seq(Values), NEW val \in Values, Ascending(s), Contains(s, val)
    PROVE  /\ RemoveFirst(s, val) \in Seq(Values)
           /\ Len(RemoveFirst(s, val)) = Len(s) - 1
           /\ Ascending(RemoveFirst(s, val))
<1>1. PICK p \in 1..Len(s) : RemoveFirst(s, val) = RemoveAt(s, p)
  BY RemoveFirstIsRemoval
<1> DEFINE t == RemoveAt(s, p)
<1>2. /\ t \in Seq(Values) /\ Len(t) = Len(s) - 1
      /\ \A i \in 1..Len(s) - 1 : t[i] = IF i < p THEN s[i] ELSE s[i + 1]
  BY RemoveAtIsRemoval
<1> HIDE DEF t
<1>3. Len(s) \in Nat
  BY LenProperties
<1>4. Ascending(t)
  <2> SUFFICES ASSUME NEW i \in 1..Len(s) - 1, NEW j \in 1..Len(s) - 1, i < j
               PROVE  t[i] <= t[j]
    BY <1>2 DEF Ascending
  <2> DEFINE a == IF i < p THEN i ELSE i + 1
             b == IF j < p THEN j ELSE j + 1
  <2>1. a \in 1..Len(s) /\ b \in 1..Len(s) /\ a < b
    BY <1>3
  <2>2. t[i] = s[a] /\ t[j] = s[b]
    BY <1>2
  <2> HIDE DEF a, b
  <2>3. QED
    BY <2>1, <2>2 DEF Ascending
<1>5. QED
  BY <1>1, <1>2, <1>4 DEF t

\* A value that is not smaller than any other goes to the end, as if it did.
LEMMA InsertedLast ==
    ASSUME NEW s \in Seq(Values), NEW val \in Values, \A i \in 1..Len(s) : s[i] <= val
    PROVE  Ascending(s) => Inserted(s, val) = Append(s, val)
<1> SUFFICES ASSUME Ascending(s) PROVE Inserted(s, val) = Append(s, val)
  OBVIOUS
<1> DEFINE p == Place(s, val)
           t == InsertAt(s, p, val)
           u == Append(s, val)
<1>1. Len(s) \in Nat /\ s \in Seq(Int) /\ val \in Int /\ \A i \in 1..Len(s) : s[i] \in Int
  BY ValuesAssumption, ElementOfSeq, LenProperties, SeqMonotonic
<1>2. /\ p \in 1..Len(s) + 1
      /\ p <= Len(s) => s[p] >= val
  BY <1>1, PlaceFound
<1> HIDE DEF p
<1>3. /\ t \in Seq(Values) /\ Len(t) = Len(s) + 1
      /\ \A i \in 1..Len(s) + 1 : t[i] = IF i < p THEN s[i]
                                         ELSE IF i = p THEN val ELSE s[i - 1]
  BY <1>2, InsertAtIsInsertion
<1>4. /\ u \in Seq(Values) /\ Len(u) = Len(s) + 1 /\ u[Len(s) + 1] = val
      /\ \A i \in 1..Len(s) : u[i] = s[i]
  BY AppendProperties
<1> HIDE DEF t, u
<1>5. \A i \in 1..Len(s) : i >= p => s[i] = val
  <2> SUFFICES ASSUME NEW i \in 1..Len(s), i >= p PROVE s[i] = val
    OBVIOUS
  <2>1. p \in 1..Len(s) /\ s[p] >= val /\ s[p] \in Int /\ s[i] \in Int /\ s[i] <= val
    BY <1>1, <1>2
  <2>2. s[p] <= s[i]
    BY <2>1 DEF Ascending
  <2>3. QED
    BY <1>1, <2>1, <2>2
<1>6. \A i \in 1..Len(s) + 1 : t[i] = u[i]
  <2> SUFFICES ASSUME NEW i \in 1..Len(s) + 1 PROVE t[i] = u[i]
    OBVIOUS
  <2>1. CASE i < p
    <3>1. i \in 1..Len(s)
      BY <1>1, <1>2, <2>1
    <3>2. QED
      BY <1>3, <1>4, <2>1, <3>1
  <2>2. CASE i >= p /\ i <= Len(s)
    <3>1. u[i] = val
      BY <1>1, <1>4, <1>5, <2>2
    <3>2. i = p \/ (i - 1 \in 1..Len(s) /\ i - 1 >= p)
      BY <1>1, <1>2, <2>2
    <3>3. t[i] = val
      BY <1>2, <1>3, <1>5, <2>2, <3>2
    <3>4. QED
      BY <3>1, <3>3
  <2>3. CASE i = Len(s) + 1
    <3>1. u[i] = val
      BY <1>4, <2>3
    <3>2. i = p \/ (i > p /\ i - 1 \in 1..Len(s) /\ i - 1 >= p)
      BY <1>1, <1>2, <2>3
    <3>3. t[i] = val
      BY <1>2, <1>3, <1>5, <3>2
    <3>4. QED
      BY <3>1, <3>3
  <2>4. QED
    BY <1>1, <1>2, <2>1, <2>2, <2>3
<1>7. t = u
  BY <1>3, <1>4, <1>6, SeqEqual
<1>8. QED
  BY <1>7 DEF Inserted, p, t, u

-----------------------------------------------------------------------------
(* The invariant.                                                          *)

\* len at any step: Counted values are in the list or were removed.
Counted == len + (IF counting THEN 1 ELSE 0) = Len(list) + removed

\* The file holds an ascending list, and a clean one is counted right.
ImageInv ==
    image # NoImage =>
        /\ image \in Images
        /\ Ascending(image.values)
        /\ image.clean => image.count = Len(image.values) /\ ~image.skip

\* While the file is read, what is left to load differs from what is left to
\* read as much as the count in the file does from its values.
LoadInv ==
    /\ up = "down" => list = <<>> /\ len = 0 /\ removed = 0 /\ ~counting
    /\ up \in {"loading", "refused"} => image # NoImage
    /\ up = "loading" =>
        /\ list \o input = image.values
        /\ elements - Len(input) = image.count - Len(image.values)
    /\ up = "refused" => ~image.clean

Inv == TypeOK /\ Counted /\ Ascending(list) /\ ImageInv /\ LoadInv

LEMMA InvInit == Init => Inv
<1> SUFFICES ASSUME Init PROVE Inv
  OBVIOUS
<1>1. <<>> \in Seq(Values) /\ Len(<<>>) = 0
  BY EmptySeq
<1>2. TypeOK
  BY <1>1 DEF Init, TypeOK
<1>3. Ascending(list)
  BY <1>1 DEF Init, Ascending
<1>4. Counted
  BY <1>1 DEF Init, Counted
<1>5. ImageInv /\ LoadInv
  BY DEF Init, ImageInv, LoadInv
<1>6. QED
  BY <1>2, <1>3, <1>4, <1>5 DEF Inv

\* The worker's steps, with the server up.
LEMMA WorkerStep ==
    ASSUME Inv, \/ \E val \in Values : InsertLink(val) \/ RemoveValue(val)
                \/ InsertCount \/ SkipListChange
    PROVE  Inv'
<1> USE DEF Inv, TypeOK, Counted, ImageInv, LoadInv, loading
<1>1. ASSUME NEW val \in Values, InsertLink(val) PROVE Inv'
  <2>1. list' \in Seq(Values) /\ Len(list') = Len(list) + 1 /\ Ascending(list')
    BY <1>1, InsertedAscends DEF InsertLink
  <2>2. Len(list) \in Nat
    BY LenProperties
  <2>3. QED
    BY <1>1, <2>1, <2>2 DEF InsertLink
<1>2. ASSUME NEW val \in Values, RemoveValue(val) PROVE Inv'
  <2>1. list' \in Seq(Values) /\ Len(list') = Len(list) - 1 /\ Ascending(list')
    BY <1>2, RemovedAscends DEF RemoveValue
  <2>2. Len(list) \in Nat
    BY LenProperties
  <2>3. QED
    BY <1>2, <2>1, <2>2 DEF RemoveValue
<1>3. CASE InsertCount
  <2>1. /\ up = "up" /\ counting = TRUE /\ counting' = FALSE /\ len' = len + 1
        /\ UNCHANGED <<list, up, image, elements, input, removed, skip>>
    BY <1>3 DEF InsertCount
  <2>2. Counted'
    BY <2>1, LenProperties
  <2>3. TypeOK'
    <3>1. len' \in Nat
      BY <2>1
    <3>2. counting' \in BOOLEAN
      BY <2>1, Zenon
    <3>3. QED
      BY <2>1, <3>1, <3>2, Zenon
  <2>4. ImageInv' /\ Ascending(list)'
    BY <2>1 DEF Ascending
  <2>5. LoadInv'
    BY <2>1
  <2>6. QED
    BY <2>2, <2>3, <2>4, <2>5
<1>4. CASE SkipListChange
  BY <1>4 DEF SkipListChange, Ascending
<1>5. QED
  BY <1>1, <1>2, <1>3, <1>4

\* What is saved is the list, which the count fits when nothing has been removed.
LEMMA SaveStep == ASSUME Inv, Save PROVE Inv'
<1> USE DEF Inv, TypeOK, Counted, ImageInv, LoadInv, Save, loading
<1>1. image' \in Images
  BY DEF Images
<1>2. Ascending(list)' /\ Ascending(image.values)'
  BY DEF Ascending
<1>3. image'.clean => image'.count = Len(image'.values) /\ ~image'.skip
  <2>1. image'.clean = (~counting /\ removed = 0 /\ ~skip)
    OBVIOUS
  <2>2. image'.count = len /\ image'.values = list /\ image'.skip = skip
    OBVIOUS
  <2>3. SUFFICES ASSUME ~counting, removed = 0, ~skip PROVE len = Len(list)
    BY <2>1, <2>2, Zenon
  <2>4. len + 0 = Len(list) + 0 /\ Len(list) \in Nat
    BY <2>3, LenProperties
  <2>5. QED
    BY <2>4
<1>4. QED
  BY <1>1, <1>2, <1>3

LEMMA CrashStep == ASSUME Inv, Crash PROVE Inv'
<1>1. <<>> \in Seq(Values) /\ Len(<<>>) = 0
  BY EmptySeq
<1> USE DEF Crash, Inv
<1>2. TypeOK'
  BY <1>1 DEF TypeOK
<1>3. Ascending(list)'
  BY <1>1 DEF Ascending
<1>4. Counted'
  BY <1>1 DEF Counted
<1>5. ImageInv' /\ LoadInv'
  BY DEF ImageInv, LoadInv, Ascending
<1>6. QED
  BY <1>2, <1>3, <1>4, <1>5

\* Each value that is loaded goes to the end of the list, because the file is
\* ascending; so the list and the rest of the file stay what was saved.
LEMMA LoadElementStep == ASSUME Inv, LoadElement PROVE Inv'
<1> DEFINE h == Head(input)
           v == image.values
<1>1. /\ up = "loading" /\ up' = "loading" /\ image # NoImage /\ image' = image
      /\ image \in Images /\ v \in Seq(Values) /\ Ascending(v)
      /\ list \in Seq(Values) /\ input \in Seq(Values) /\ input # <<>>
      /\ list \o input = v
      /\ list' = Inserted(list, h) /\ input' = Tail(input)
  BY DEF LoadElement, Inv, TypeOK, ImageInv, LoadInv, Images
<1>2. /\ h \in Values /\ h = input[1] /\ input' \in Seq(Values)
      /\ Len(input') = Len(input) - 1 /\ Len(input) \in Nat \ {0}
  BY <1>1, HeadTailProperties, EmptySeq
<1>3. \A i \in 1..Len(list) : list[i] <= h
  <2> SUFFICES ASSUME NEW i \in 1..Len(list) PROVE list[i] <= h
    OBVIOUS
  <2>1. /\ Len(v) = Len(list) + Len(input)
        /\ \A j \in 1..Len(list) + Len(input) :
              v[j] = IF j <= Len(list) THEN list[j] ELSE input[j - Len(list)]
    <3>1. /\ Len(list \o input) = Len(list) + Len(input)
          /\ \A j \in 1..Len(list) + Len(input) :
                (list \o input)[j] = IF j <= Len(list) THEN list[j]
                                     ELSE input[j - Len(list)]
      BY <1>1, ConcatProperties
    <3> HIDE DEF v
    <3>2. QED
      BY <1>1, <3>1
  <2>2. Len(list) \in Nat
    BY <1>1, LenProperties
  <2> HIDE DEF h, v
  <2>3. /\ i \in 1..Len(v) /\ Len(list) + 1 \in 1..Len(v)
        /\ i <= Len(list) /\ ~(Len(list) + 1 <= Len(list)) /\ Len(list) + 1 - Len(list) = 1
    BY <1>2, <2>1, <2>2
  <2>4. v[i] = list[i] /\ v[Len(list) + 1] = input[1]
    BY <2>1, <2>3
  <2>5. v[i] <= v[Len(list) + 1]
    BY <1>1, <2>2, <2>3 DEF Ascending
  <2>6. QED
    BY <1>2, <2>4, <2>5
<1>4. list' = Append(list, h) /\ Ascending(list)
  BY <1>1, <1>2, <1>3, InsertedLast DEF Inv
<1>5. list' \in Seq(Values) /\ Len(list') = Len(list) + 1 /\ Ascending(list)'
  BY <1>1, <1>2, <1>4, InsertedAscends
<1>6. list' \o input' = v
  <2>1. <<h>> \in Seq(Values) /\ <<h>> \o Tail(input) = input
    BY <1>1, <1>2
  <2>2. Append(list, h) = list \o <<h>>
    BY <1>1, <1>2, AppendIsConcat
  <2>3. (list \o <<h>>) \o Tail(input) = list \o (<<h>> \o Tail(input))
    BY <1>1, <1>2, <2>1, ConcatAssociative
  <2>4. QED
    BY <1>1, <1>4, <2>1, <2>2, <2>3
<1> HIDE DEF h, v
<1>7. Ascending(image.values)'
  BY <1>1 DEF v
<1>8. TypeOK'
  BY <1>1, <1>2, <1>5, LenProperties DEF LoadElement, Inv, TypeOK
<1>9. Counted'
  <2>1. len' = len + 1 /\ counting' = counting /\ removed' = removed
    BY DEF LoadElement
  <2>2. len \in Nat /\ removed \in Nat /\ counting \in BOOLEAN /\ Len(list) \in Nat
    BY <1>1, LenProperties DEF Inv, TypeOK
  <2>3. QED
    BY <1>5, <2>1, <2>2 DEF Inv, Counted
<1>10. ImageInv'
  BY <1>1, <1>7 DEF Inv, ImageInv, v
<1>11. LoadInv'
  <2>1. elements' = elements - 1 /\ elements \in Nat
    BY DEF LoadElement, Inv, TypeOK
  <2>2. elements - Len(input) = image.count - Len(v)
    BY <1>1 DEF Inv, LoadInv, v
  <2>3. elements' - Len(input') = elements - Len(input)
    BY <1>2, <2>1
  <2>4. QED
    BY <1>1, <1>6, <2>2, <2>3 DEF LoadInv, v
<1>12. QED
  BY <1>5, <1>8, <1>9, <1>10, <1>11 DEF Inv

\* The other steps of a start.
LEMMA StartStep ==
    ASSUME Inv, LoadCount \/ LoadDone \/ LoadSkipList \/ LoadRefused
    PROVE  Inv'
<1> USE DEF Inv, TypeOK, Counted, ImageInv, LoadInv, loading, Images
<1>1. CASE LoadCount
  <2>1. CASE image = NoImage
    BY <1>1, <2>1 DEF LoadCount, Ascending
  <2>2. CASE image # NoImage
    <3>1. <<>> \o image.values = image.values
      BY <2>2, ConcatEmptySeq
    <3>2. QED
      BY <1>1, <2>2, <3>1 DEF LoadCount, Ascending
  <2>3. QED
    BY <2>1, <2>2
<1>2. CASE LoadDone
  BY <1>2 DEF LoadDone, Ascending
<1>3. CASE LoadSkipList
  BY <1>3 DEF LoadSkipList, Ascending
<1>4. CASE LoadRefused
  <2>1. elements # Len(input)
    BY <1>4, EmptySeq DEF LoadRefused
  <2>2. ~image.clean
    BY <1>4, <2>1, LenProperties DEF LoadRefused
  <2>3. QED
    BY <1>4, <2>2 DEF LoadRefused, Ascending
<1>5. QED
  BY <1>1, <1>2, <1>3, <1>4

\* Inv is an invariant.
LEMMA Invariant == Spec => []Inv
<1>1. Inv /\ [Next]_vars => Inv'
  <2> SUFFICES ASSUME Inv, [Next]_vars PROVE Inv'
    OBVIOUS
  <2>1. CASE UNCHANGED vars
    BY <2>1 DEF vars, Inv, TypeOK, Counted, Ascending, ImageInv, LoadInv
  <2>2. QED
    BY <2>1, WorkerStep, SaveStep, CrashStep, LoadElementStep, StartStep DEF Next
<1>2. QED
  BY <1>1, InvInit, PTL DEF Spec

-----------------------------------------------------------------------------
(* The theorems.                                                           *)

\* Type correctness, of the file as well.
THEOREM TypeOKTheorem == Spec => []TypeOK
<1>1. Inv => TypeOK
  BY DEF Inv
<1>2. QED
  BY <1>1, Invariant, PTL

\* For lists of any length: len is off by exactly what llca_remove has taken
\* out since the server started, and by the insert that is under way.
THEOREM CountDriftTheorem == Spec => []CountDrift
<1>1. Inv => CountDrift
  BY DEF Inv, Counted, CountDrift
<1>2. QED
  BY <1>1, Invariant, PTL

\* For every list that was saved: a reload rebuilds it, value by value.
THEOREM LoadRebuildsTheorem == Spec => []LoadRebuilds
<1>1. Inv => LoadRebuilds
  BY DEF Inv, LoadInv, LoadRebuilds
<1>2. QED
  BY <1>1, Invariant, PTL

\* After any number of saves, crashes and reloads: the server refuses no file
\* that was written between two inserts, with nothing removed and no skip list.
THEOREM CleanSaveRestartsTheorem == Spec => []CleanSaveRestarts
<1>1. Inv => CleanSaveRestarts
  BY DEF Inv, LoadInv, CleanSaveRestarts
<1>2. QED
  BY <1>1, Invariant, PTL

=============================================================================
