--------------------------- MODULE InventoryProofs ---------------------------
(***************************************************************************)
(* Theorems about the two algorithms by which package avi reads an         *)
(* inventory: the walks of Paging, for any collection, page size and limit *)
(* of pages and any changes during a walk, and the records of SEAddresses, *)
(* for any addresses, labels and interfaces, in any order.  The two share  *)
(* nothing but the file.                                                   *)
(***************************************************************************)
EXTENDS Paging, SEAddresses, SequenceTheorems, FiniteSetTheorems, TLAPS

(***************************************************************************)
(* Paging                                                                  *)
(***************************************************************************)

\* How far into the collection the pages read so far reach, and the next one.
Read == (page - 1) * PageSize
UpTo == IF HasNext(page) THEN page * PageSize ELSE Len(collection)

(* During a walk: what was read is what is there or was there, and without  *)
(* a deletion nothing that was there at the beginning lies behind the page  *)
(* to ask for that has not been read.                                       *)
Walking ==
  walk # "idle" =>
    /\ Len(all) = Read
    /\ Range(all) \subseteq present
    /\ Range(collection) \subseteq present
    /\ initial \subseteq present
    /\ ~deleted =>
         /\ Read <= Len(collection)
         /\ initial \subseteq Range(collection)
         /\ \A i \in 1 .. Read : collection[i] \in initial => collection[i] \in Range(all)
         /\ present = initial => all = SubSeq(collection, 1, Read)

PagingInv == TypeOK /\ Walking /\ NothingLost /\ GivesUpHonestly

-----------------------------------------------------------------------------
(* A collection as the controller changes it, and its pages. *)

LEMMA Inserted ==
  ASSUME NEW S, NEW s \in Seq(S), NEW i \in 1 .. Len(s) + 1, NEW e \in S
  PROVE  /\ InsertAt(s, i, e) \in Seq(S)
         /\ Len(InsertAt(s, i, e)) = Len(s) + 1
         /\ \A j \in 1 .. Len(s) + 1 :
              InsertAt(s, i, e)[j] = IF j < i THEN s[j] ELSE IF j = i THEN e ELSE s[j - 1]
<1> DEFINE front == SubSeq(s, 1, i - 1)
           mid == <<e>>
           back == SubSeq(s, i, Len(s))
<1>1. front \in Seq(S) /\ Len(front) = i - 1 /\ \A j \in 1 .. i - 1 : front[j] = s[j]
  BY SubSeqProperties, LenProperties, ElementOfSeq
<1>2. /\ back \in Seq(S) /\ Len(back) = Len(s) - i + 1
      /\ \A j \in 1 .. Len(s) - i + 1 : back[j] = s[i + j - 1]
  BY SubSeqProperties, LenProperties, ElementOfSeq
<1>3. mid \in Seq(S) /\ Len(mid) = 1 /\ mid[1] = e
  OBVIOUS
<1>4. Len(s) \in Nat
  BY LenProperties
<1> HIDE DEF front, mid, back
<1>5. /\ front \o mid \in Seq(S) /\ Len(front \o mid) = i
      /\ \A j \in 1 .. i : (front \o mid)[j] = IF j < i THEN s[j] ELSE e
  <2>1. front \o mid \in Seq(S) /\ Len(front \o mid) = Len(front) + Len(mid)
    BY <1>1, <1>3, ConcatProperties
  <2>2. \A j \in 1 .. Len(front) + Len(mid) : (front \o mid)[j] =
          IF j <= Len(front) THEN front[j] ELSE mid[j - Len(front)]
    BY <1>1, <1>3, ConcatProperties
  <2> QED BY <1>1, <1>3, <1>4, <2>1, <2>2
<1>6. /\ (front \o mid) \o back \in Seq(S)
      /\ Len((front \o mid) \o back) = Len(s) + 1
      /\ \A j \in 1 .. Len(s) + 1 : ((front \o mid) \o back)[j] =
           IF j <= i THEN (front \o mid)[j] ELSE back[j - i]
  <2> DEFINE both == front \o mid
  <2>1. both \in Seq(S) /\ Len(both) = i
    BY <1>5
  <2> HIDE DEF both
  <2>2. both \o back \in Seq(S) /\ Len(both \o back) = Len(both) + Len(back)
    BY <1>2, <2>1, ConcatProperties
  <2>3. \A j \in 1 .. Len(both) + Len(back) : (both \o back)[j] =
          IF j <= Len(both) THEN both[j] ELSE back[j - Len(both)]
    BY <1>2, <2>1, ConcatProperties
  <2>4. Len(both) + Len(back) = Len(s) + 1
    BY <1>2, <1>4, <2>1
  <2> QED BY <2>1, <2>2, <2>3, <2>4 DEF both
<1>7. ASSUME NEW j \in 1 .. Len(s) + 1, i < j PROVE back[j - i] = s[j - 1]
  BY <1>2, <1>7, LenProperties
<1>8. InsertAt(s, i, e) = (front \o mid) \o back
  BY DEF InsertAt, front, mid, back
<1> QED BY <1>4, <1>5, <1>6, <1>7, <1>8

LEMMA Removed ==
  ASSUME NEW S, NEW s \in Seq(S), NEW i \in 1 .. Len(s)
  PROVE  /\ RemoveAt(s, i) \in Seq(S)
         /\ Len(RemoveAt(s, i)) = Len(s) - 1
         /\ \A j \in 1 .. Len(s) - 1 :
              RemoveAt(s, i)[j] = IF j < i THEN s[j] ELSE s[j + 1]
<1> DEFINE front == SubSeq(s, 1, i - 1)
           back == SubSeq(s, i + 1, Len(s))
<1>1. front \in Seq(S) /\ Len(front) = i - 1 /\ \A j \in 1 .. i - 1 : front[j] = s[j]
  BY SubSeqProperties, LenProperties, ElementOfSeq
<1>2. /\ back \in Seq(S) /\ Len(back) = Len(s) - i
      /\ \A j \in 1 .. Len(s) - i : back[j] = s[i + j]
  BY SubSeqProperties, LenProperties, ElementOfSeq
<1> HIDE DEF front, back
<1>3. /\ front \o back \in Seq(S) /\ Len(front \o back) = Len(s) - 1
      /\ \A j \in 1 .. Len(s) - 1 : (front \o back)[j] =
           IF j <= i - 1 THEN front[j] ELSE back[j - (i - 1)]
  BY <1>1, <1>2, ConcatProperties, LenProperties
<1>4. RemoveAt(s, i) = front \o back
  BY DEF RemoveAt, front, back
<1>5. ASSUME NEW j \in 1 .. Len(s) - 1, ~(j <= i - 1) PROVE back[j - (i - 1)] = s[j + 1]
  BY <1>2, <1>5, LenProperties
<1> QED BY <1>1, <1>3, <1>4, <1>5, LenProperties

LEMMA PageAfter ==
  ASSUME NEW n \in Nat \ {0}
  PROVE  n * PageSize = (n - 1) * PageSize + PageSize /\ (n - 1) * PageSize \in Nat
         /\ PageSize \in Nat \ {0}
BY PagingAssumption

LEMMA PageLength ==
  ASSUME NEW from \in Nat, NEW size \in Nat \ {0}, NEW len \in Nat, from <= len,
         NEW to, to = IF from + size <= len THEN from + size ELSE len
  PROVE  (IF from + 1 <= to THEN to - from ELSE 0) =
           IF from + size <= len THEN size ELSE len - from
OBVIOUS

(* A page of a collection that reaches so far, and one beyond its end. *)
LEMMA PageHolds ==
  ASSUME NEW n \in Nat \ {0}, collection \in Seq(Items),
         NEW b, b = (n - 1) * PageSize
  PROVE  /\ Results(n) \in Seq(Items)
         /\ HasNext(n) <=> b + PageSize < Len(collection)
         /\ b <= Len(collection) =>
              Len(Results(n)) = IF b + PageSize <= Len(collection)
                                  THEN PageSize ELSE Len(collection) - b
         /\ b > Len(collection) => Results(n) = <<>>
         /\ \A i \in 1 .. Len(Results(n)) :
              b + i \in 1 .. Len(collection) /\ Results(n)[i] = collection[b + i]
<1> DEFINE to == IF b + PageSize <= Len(collection) THEN b + PageSize ELSE Len(collection)
<1>0. b \in Nat /\ PageSize \in Nat \ {0}
  <2>1. (n - 1) * PageSize \in Nat /\ PageSize \in Nat \ {0}
    BY PageAfter
  <2> QED BY <2>1
<1>1. b \in Nat /\ PageSize \in Nat \ {0} /\ Len(collection) \in Nat /\ to \in Nat
  BY <1>0, LenProperties
<1>2. Results(n) = SubSeq(collection, b + 1, to) /\ (HasNext(n) <=> b + PageSize < Len(collection))
  BY PageAfter DEF Results, HasNext
<1>3. to <= Len(collection)
  BY <1>1
<1>4. \A i \in b + 1 .. to : collection[i] \in Items
  BY <1>1, <1>3, ElementOfSeq
<1>5. /\ Results(n) \in Seq(Items)
      /\ Len(Results(n)) = IF b + 1 <= to THEN to - b ELSE 0
      /\ \A i \in 1 .. to - b : Results(n)[i] = collection[b + i]
  <2> HIDE DEF to
  <2>1. b + 1 \in Int /\ to \in Int /\ to - (b + 1) + 1 = to - b
    BY <1>1
  <2>2. /\ SubSeq(collection, b + 1, to) \in Seq(Items)
        /\ Len(SubSeq(collection, b + 1, to)) = IF b + 1 <= to THEN to - (b + 1) + 1 ELSE 0
        /\ \A i \in 1 .. to - (b + 1) + 1 :
             SubSeq(collection, b + 1, to)[i] = collection[(b + 1) + i - 1]
    BY <1>4, <2>1, SubSeqProperties
  <2>3. \A i \in 1 .. to - b : (b + 1) + i - 1 = b + i
    BY <1>1
  <2> QED BY <1>2, <2>1, <2>2, <2>3
<1>6. b > Len(collection) => Results(n) = <<>>
  <2> HIDE DEF to
  <2> QED BY <1>1, <1>2, <1>3, SubSeqEmpty
<1>7. b <= Len(collection) =>
        Len(Results(n)) = IF b + PageSize <= Len(collection)
                            THEN PageSize ELSE Len(collection) - b
  BY <1>1, <1>5, PageLength
<1>8. ASSUME NEW i \in 1 .. Len(Results(n))
      PROVE  b + i \in 1 .. Len(collection) /\ Results(n)[i] = collection[b + i]
  <2>1. b + 1 <= to /\ i \in 1 .. to - b
    BY <1>1, <1>5
  <2> QED BY <1>1, <1>3, <1>5, <2>1
<1> QED BY <1>2, <1>5, <1>6, <1>7, <1>8

LEMMA InRange ==
  ASSUME NEW S, NEW s \in Seq(S), NEW x
  PROVE  x \in Range(s) <=> \E i \in 1 .. Len(s) : s[i] = x
BY LenProperties DEF Range

LEMMA RangeOfConcat ==
  ASSUME NEW S, NEW s \in Seq(S), NEW t \in Seq(S)
  PROVE  Range(s \o t) = Range(s) \union Range(t)
<1>1. s \o t \in Seq(S) /\ Len(s \o t) = Len(s) + Len(t) /\ Len(s) \in Nat /\ Len(t) \in Nat
  BY ConcatProperties, LenProperties
<1>2. \A i \in 1 .. Len(s) + Len(t) :
        (s \o t)[i] = IF i <= Len(s) THEN s[i] ELSE t[i - Len(s)]
  BY ConcatProperties
<1>3. ASSUME NEW x \in Range(s) PROVE x \in Range(s \o t)
  <2>1. PICK i \in 1 .. Len(s) : s[i] = x
    BY <1>3, InRange
  <2>2. i \in 1 .. Len(s) + Len(t) /\ (s \o t)[i] = x
    BY <1>1, <1>2, <2>1
  <2> QED BY <1>1, <2>2, InRange
<1>4. ASSUME NEW x \in Range(t) PROVE x \in Range(s \o t)
  <2>1. PICK i \in 1 .. Len(t) : t[i] = x
    BY <1>4, InRange
  <2>2. Len(s) + i \in 1 .. Len(s) + Len(t) /\ (s \o t)[Len(s) + i] = x
    BY <1>1, <1>2, <2>1
  <2> QED BY <1>1, <2>2, InRange
<1>5. ASSUME NEW x \in Range(s \o t) PROVE x \in Range(s) \union Range(t)
  <2>1. PICK i \in 1 .. Len(s) + Len(t) : (s \o t)[i] = x
    BY <1>1, <1>5, InRange
  <2>2. CASE i <= Len(s)
    <3>1. i \in 1 .. Len(s) /\ s[i] = x
      BY <1>1, <1>2, <2>1, <2>2
    <3> QED BY <3>1, InRange
  <2>3. CASE ~(i <= Len(s))
    <3>1. i - Len(s) \in 1 .. Len(t) /\ t[i - Len(s)] = x
      BY <1>1, <1>2, <2>1, <2>3
    <3> QED BY <3>1, InRange
  <2> QED BY <2>2, <2>3
<1> QED BY <1>3, <1>4, <1>5

-----------------------------------------------------------------------------
(* Typing. *)

LEMMA PagingInit == Init => TypeOK
<1> SUFFICES ASSUME Init PROVE TypeOK
  OBVIOUS
<1>1. PICK n \in 0 .. MaxItems : collection \in [1 .. n -> Items] /\ IsInjective(collection)
  BY DEF Init
<1>2. collection \in Seq(Items) /\ Len(collection) = n /\ n \in Nat /\ n <= MaxItems
  BY <1>1, PagingAssumption
<1> QED BY <1>1, <1>2, PagingAssumption DEF Init, TypeOK

LEMMA PageType ==
  ASSUME TypeOK, walk # "idle"
  PROVE  /\ Results(page) \in Seq(Items)
         /\ all \o Results(page) \in Seq(Items)
         /\ HasNext(page) => page + 1 \in 1 .. MaxItems + 1
<1>1. page \in Nat \ {0} /\ collection \in Seq(Items) /\ all \in Seq(Items)
      /\ Len(collection) \in Nat /\ Len(collection) <= MaxItems /\ MaxItems \in Nat
  BY PagingAssumption, LenProperties DEF TypeOK
<1>2. Results(page) \in Seq(Items)
  BY <1>1, PageHolds
<1>3. page * PageSize \in Nat /\ page <= page * PageSize
  <2>1. \A m \in Nat \ {0} : \A p \in Nat \ {0} : m * p \in Nat /\ m <= m * p
    OBVIOUS
  <2> QED BY <1>1, <2>1, PagingAssumption
<1> QED BY <1>1, <1>2, <1>3, ConcatProperties DEF HasNext

LEMMA InsertEffect ==
  ASSUME TypeOK, NEW item \in Items, NEW i \in 1 .. Len(collection) + 1, Insert(item, i)
  PROVE  /\ collection' \in Seq(Items) /\ Len(collection') = Len(collection) + 1
         /\ \A j \in 1 .. Len(collection) + 1 : collection'[j] =
              IF j < i THEN collection[j] ELSE IF j = i THEN item ELSE collection[j - 1]
<1>1. /\ InsertAt(collection, i, item) \in Seq(Items)
      /\ Len(InsertAt(collection, i, item)) = Len(collection) + 1
      /\ \A j \in 1 .. Len(collection) + 1 : InsertAt(collection, i, item)[j] =
           IF j < i THEN collection[j] ELSE IF j = i THEN item ELSE collection[j - 1]
  BY Inserted DEF TypeOK
<1>2. collection' = InsertAt(collection, i, item)
  BY DEF Insert
<1> QED BY <1>1, <1>2

LEMMA InsertType ==
  ASSUME TypeOK, NEW item \in Items, NEW i \in 1 .. Len(collection) + 1, Insert(item, i)
  PROVE  /\ collection' \in Seq(Items) /\ IsInjective(collection')
         /\ Len(collection') <= MaxItems
<1>1. collection \in Seq(Items) /\ Len(collection) \in Nat /\ item \notin Range(collection)
  BY LenProperties DEF TypeOK, Insert
<1>2. /\ collection' \in Seq(Items) /\ Len(collection') = Len(collection) + 1
      /\ \A j \in 1 .. Len(collection) + 1 : collection'[j] =
           IF j < i THEN collection[j] ELSE IF j = i THEN item ELSE collection[j - 1]
  BY InsertEffect
<1>3. DOMAIN collection' = 1 .. Len(collection) + 1 /\ DOMAIN collection = 1 .. Len(collection)
  BY <1>1, <1>2, LenProperties
<1>4. \A j \in 1 .. Len(collection) : collection[j] # item
  BY <1>1, InRange
<1>5. \A j, k \in 1 .. Len(collection) : collection[j] = collection[k] => j = k
  BY <1>3 DEF TypeOK, IsInjective
<1>6. IsInjective(collection')
  <2> SUFFICES ASSUME NEW j \in 1 .. Len(collection) + 1, NEW k \in 1 .. Len(collection) + 1,
                      collection'[j] = collection'[k], j # k
               PROVE  FALSE
    BY <1>3 DEF IsInjective
  <2> DEFINE From(n) == IF n < i THEN n ELSE n - 1
  <2>1. \A n \in 1 .. Len(collection) + 1 :
          n # i => From(n) \in 1 .. Len(collection) /\ collection'[n] = collection[From(n)]
    BY <1>1, <1>2
  <2>2. collection'[i] = item
    BY <1>1, <1>2
  <2>3. j # i /\ k # i
    BY <1>4, <2>1, <2>2
  <2>4. From(j) # From(k)
    BY <1>1, <2>3
  <2> HIDE DEF From
  <2> QED BY <1>5, <2>1, <2>3, <2>4
<1> QED BY <1>1, <1>2, <1>6, PagingAssumption DEF Insert

LEMMA DeleteType ==
  ASSUME TypeOK, NEW i \in 1 .. Len(collection), Delete(i)
  PROVE  /\ collection' \in Seq(Items) /\ IsInjective(collection')
         /\ Len(collection') <= MaxItems
         /\ Range(collection') \subseteq Range(collection)
<1>1. collection \in Seq(Items) /\ Len(collection) \in Nat
  BY LenProperties DEF TypeOK
<1>2. /\ collection' \in Seq(Items) /\ Len(collection') = Len(collection) - 1
      /\ \A j \in 1 .. Len(collection) - 1 : collection'[j] =
           IF j < i THEN collection[j] ELSE collection[j + 1]
  BY <1>1, Removed DEF Delete
<1>3. DOMAIN collection' = 1 .. Len(collection) - 1 /\ DOMAIN collection = 1 .. Len(collection)
  BY <1>1, <1>2, LenProperties
<1>4. \A j, k \in 1 .. Len(collection) : collection[j] = collection[k] => j = k
  BY <1>3 DEF TypeOK, IsInjective
<1>5. IsInjective(collection')
  BY <1>1, <1>2, <1>3, <1>4 DEF IsInjective
<1>6. Range(collection') \subseteq Range(collection)
  BY <1>1, <1>2, <1>3 DEF Range
<1> QED BY <1>1, <1>2, <1>5, <1>6, PagingAssumption DEF TypeOK

LEMMA PagingNext == TypeOK /\ [Next]_vars => TypeOK'
<1> SUFFICES ASSUME TypeOK, [Next]_vars PROVE TypeOK'
  OBVIOUS
<1> USE PagingAssumption
<1>1. ASSUME NEW kind \in {"list", "detail"}, Begin(kind) PROVE TypeOK'
  BY <1>1 DEF TypeOK, Begin
<1>2. CASE FetchFails
  BY <1>2 DEF TypeOK, FetchFails, End
<1>3. CASE FetchList
  BY <1>3, PageType DEF TypeOK, FetchList, Answered, End
<1>4. CASE FetchWhole
  BY <1>4 DEF TypeOK, FetchWhole, End
<1>5. ASSUME NEW count, FetchDetail(count) PROVE TypeOK'
  <2>1. all' \in Seq(Items)
    BY <1>5, PageType DEF FetchDetail, Answered
  <2>2. CASE DetailDone(count) \/ page = MaxPages
    BY <1>5, <2>1, <2>2 DEF TypeOK, FetchDetail, End
  <2>3. CASE ~DetailDone(count) /\ page # MaxPages
    <3>1. page' = page + 1 /\ HasNext(page) /\ page <= MaxPages /\ walk' = walk
      BY <1>5, <2>3 DEF FetchDetail, DetailDone, TypeOK
    <3>2. page + 1 \in 1 .. MaxItems + 1 /\ page + 1 <= MaxPages
      BY <1>5, <2>3, <3>1, PageType DEF FetchDetail, TypeOK
    <3> QED BY <1>5, <2>1, <2>3, <3>1, <3>2 DEF TypeOK, FetchDetail
  <2> QED BY <2>2, <2>3
<1>6. ASSUME NEW item \in Items, NEW i \in 1 .. Len(collection) + 1, Insert(item, i)
      PROVE  TypeOK'
  BY <1>6, InsertType DEF TypeOK, Insert
<1>7. ASSUME NEW i \in 1 .. Len(collection), Delete(i) PROVE TypeOK'
  BY <1>7, DeleteType DEF TypeOK, Delete
<1>8. CASE UNCHANGED vars
  BY <1>8 DEF vars, TypeOK
<1> QED BY <1>1, <1>2, <1>3, <1>4, <1>5, <1>6, <1>7, <1>8 DEF Next

(* The page to ask for stays within the limit, whatever comes and goes.     *)
THEOREM PagingTypeCorrect == Spec => []TypeOK
<1>1. TypeOK /\ [Next]_vars => TypeOK'
  BY PagingNext
<1> QED BY PagingInit, <1>1, PTL DEF Spec

-----------------------------------------------------------------------------
(* What a page adds to a walk. *)

(* When a page is the last one, the walk has come to the end: the count of  *)
(* what was read says so only then, unless something was deleted.           *)
LEMMA LastPage ==
  ASSUME TypeOK, Walking, walk = "detail", ~deleted,
         NEW count \in {0, Len(collection)}, DetailDone(count)
  PROVE  ~HasNext(page)
<1> DEFINE b == Read
<1>1. /\ b = Len(all) /\ b <= Len(collection) /\ b \in Nat /\ PageSize \in Nat \ {0}
      /\ Len(collection) \in Nat /\ page \in Nat \ {0} /\ collection \in Seq(Items)
  BY PageAfter, LenProperties, PagingAssumption DEF TypeOK, Walking, Read
<1>2. /\ HasNext(page) <=> b + PageSize < Len(collection)
      /\ Len(Results(page)) = IF b + PageSize <= Len(collection)
                                THEN PageSize ELSE Len(collection) - b
  BY <1>1, PageHolds DEF Read
<1>3. \/ count > 0 /\ b + Len(Results(page)) >= count
      \/ Len(Results(page)) < PageSize
      \/ ~HasNext(page)
  BY <1>1 DEF DetailDone
<1> HIDE DEF b
<1> QED BY <1>1, <1>2, <1>3

LEMMA PageAdds ==
  ASSUME TypeOK, Walking, walk # "idle", Answered
  PROVE  /\ Range(all') \subseteq present
         /\ HasNext(page) => Len(all') = UpTo
         /\ ~deleted =>
              /\ UpTo <= Len(collection)
              /\ \A i \in 1 .. UpTo : collection[i] \in initial => collection[i] \in Range(all')
              /\ present = initial => all' = SubSeq(collection, 1, UpTo)
<1> DEFINE b == Read
           r == Results(page)
<1>1. /\ b = Len(all) /\ b \in Nat /\ PageSize \in Nat \ {0}
      /\ Len(collection) \in Nat /\ page \in Nat \ {0}
      /\ collection \in Seq(Items) /\ all \in Seq(Items)
  BY PageAfter, LenProperties, PagingAssumption DEF TypeOK, Walking, Read
<1>2. /\ r \in Seq(Items)
      /\ HasNext(page) <=> b + PageSize < Len(collection)
      /\ b <= Len(collection) =>
           Len(r) = IF b + PageSize <= Len(collection) THEN PageSize ELSE Len(collection) - b
      /\ \A i \in 1 .. Len(r) : b + i \in 1 .. Len(collection) /\ r[i] = collection[b + i]
  BY <1>1, PageHolds DEF Read
<1>3. UpTo = IF b + PageSize < Len(collection) THEN b + PageSize ELSE Len(collection)
  BY <1>1, <1>2, PageAfter DEF UpTo, Read
<1>4. all' = all \o r
  BY DEF Answered
<1> HIDE DEF b, r
<1>5. Range(all') = Range(all) \union Range(r)
  BY <1>1, <1>2, <1>4, RangeOfConcat
<1>6. Range(r) \subseteq Range(collection)
  <2> SUFFICES ASSUME NEW x \in Range(r) PROVE x \in Range(collection)
    OBVIOUS
  <2>1. PICK i \in 1 .. Len(r) : r[i] = x
    BY <1>2, InRange
  <2> QED BY <1>1, <1>2, <2>1, InRange
<1>7. Range(all') \subseteq present
  BY <1>5, <1>6 DEF Walking
<1>8. Len(all') = b + Len(r)
  BY <1>1, <1>2, <1>4, ConcatProperties
<1>9. HasNext(page) => Len(all') = UpTo
  <2> SUFFICES ASSUME HasNext(page) PROVE Len(all') = UpTo
    OBVIOUS
  <2>1. b + PageSize < Len(collection)
    BY <1>2
  <2>2. b <= Len(collection) /\ b + PageSize <= Len(collection)
    BY <1>1, <2>1
  <2>3. Len(r) = PageSize
    BY <1>2, <2>2
  <2> QED BY <1>3, <1>8, <2>1, <2>3
<1>10. ASSUME ~deleted
       PROVE  /\ UpTo <= Len(collection)
              /\ \A i \in 1 .. UpTo : collection[i] \in initial => collection[i] \in Range(all')
              /\ present = initial => all' = SubSeq(collection, 1, UpTo)
  <2>1. b <= Len(collection) /\ Len(r) \in Nat
    BY <1>2, <1>10, LenProperties DEF Walking, b
  <2>2. b + Len(r) = UpTo /\ UpTo \in Nat /\ UpTo <= Len(collection)
    <3>1. Len(r) = IF b + PageSize <= Len(collection) THEN PageSize ELSE Len(collection) - b
      BY <1>2, <2>1
    <3>2. CASE b + PageSize < Len(collection)
      <4>1. UpTo = b + PageSize /\ Len(r) = PageSize
        BY <1>1, <1>3, <3>1, <3>2
      <4> QED BY <1>1, <3>2, <4>1
    <3>3. CASE ~(b + PageSize < Len(collection))
      <4>1. UpTo = Len(collection) /\ Len(r) = Len(collection) - b
        BY <1>1, <1>3, <3>1, <3>3
      <4> QED BY <1>1, <2>1, <4>1
    <3> QED BY <3>2, <3>3
  <2>3. ASSUME NEW i \in 1 .. UpTo, collection[i] \in initial
        PROVE  collection[i] \in Range(all')
    <3>1. CASE i <= b
      BY <1>1, <1>5, <1>10, <2>2, <2>3, <3>1 DEF Walking, b
    <3>2. CASE ~(i <= b)
      <4>1. i - b \in 1 .. Len(r) /\ b + (i - b) = i
        BY <1>1, <2>1, <2>2, <3>2
      <4>2. r[i - b] = collection[i]
        BY <1>2, <4>1
      <4> QED BY <1>2, <1>5, <4>1, <4>2, InRange
    <3> QED BY <3>1, <3>2
  <2>4. ASSUME present = initial PROVE all' = SubSeq(collection, 1, UpTo)
    <3>1. all = SubSeq(collection, 1, b)
      BY <1>10, <2>4 DEF Walking, b
    <3>2. r = SubSeq(collection, b + 1, UpTo)
      <4>1. r = SubSeq(collection, (page - 1) * PageSize + 1,
                       IF page * PageSize <= Len(collection) THEN page * PageSize
                       ELSE Len(collection))
        BY DEF Results, r
      <4>2. page * PageSize = b + PageSize /\ (page - 1) * PageSize = b
        BY <1>1, PageAfter DEF b, Read
      <4>3. UpTo = IF b + PageSize <= Len(collection) THEN b + PageSize ELSE Len(collection)
        BY <1>1, <1>3
      <4> QED BY <4>1, <4>2, <4>3
    <3>3. SubSeq(collection, 1, b) \o SubSeq(collection, b + 1, UpTo)
            = SubSeq(collection, 1, UpTo)
      <4>1. b \in 1 - 1 .. Len(collection) /\ UpTo \in b .. Len(collection)
            /\ 1 \in 1 .. Len(collection) + 1
        BY <1>1, <2>1, <2>2
      <4> QED BY <1>1, <4>1, ConcatAdjacentSubSeq
    <3> QED BY <1>4, <3>1, <3>2, <3>3
  <2> QED BY <2>2, <2>3, <2>4
<1> QED BY <1>7, <1>9, <1>10

(* A walk that ends after a page that has no next one.                      *)
LEMMA EndsWhole ==
  ASSUME TypeOK, Walking, walk # "idle", Answered, ~deleted => ~HasNext(page),
         UNCHANGED <<collection, initial, present, deleted>>
  PROVE  NothingLost'
<1>1. Range(all') \subseteq present
  BY PageAdds
<1>2. ASSUME ~deleted PROVE initial \subseteq Range(all')
  <2>1. UpTo = Len(collection) /\ collection \in Seq(Items)
    BY <1>2 DEF UpTo, TypeOK
  <2>2. initial \subseteq Range(collection)
    BY <1>2 DEF Walking
  <2>3. \A i \in 1 .. Len(collection) : collection[i] \in initial => collection[i] \in Range(all')
    BY <1>2, <2>1, PageAdds
  <2> QED BY <2>1, <2>2, <2>3, InRange
<1>3. ASSUME ~deleted, present = initial PROVE all' = collection
  <2>1. UpTo = Len(collection) /\ collection \in Seq(Items)
    BY <1>3 DEF UpTo, TypeOK
  <2>2. all' = SubSeq(collection, 1, Len(collection))
    BY <1>3, <2>1, PageAdds
  <2> QED BY <2>1, <2>2, SubSeqFull
<1> QED BY <1>1, <1>2, <1>3 DEF NothingLost, Done

(* A walk that asks for the next page. *)
LEMMA WalksOn ==
  ASSUME TypeOK, Walking, walk # "idle", Answered, HasNext(page), page' = page + 1,
         UNCHANGED <<collection, walk, initial, present, deleted>>
  PROVE  Walking'
<1>1. Read' = UpTo
  BY PagingAssumption DEF Read, UpTo, TypeOK
<1> QED BY <1>1, PageAdds DEF Walking

(* An object that comes in the middle of a walk was not there at its start. *)
LEMMA InsertWalking ==
  ASSUME TypeOK, Walking, walk # "idle",
         NEW item \in Items, NEW i \in 1 .. Len(collection) + 1, Insert(item, i)
  PROVE  Walking'
<1> DEFINE b == Read
<1>1. /\ b = Len(all) /\ b \in Nat /\ Len(collection) \in Nat
      /\ collection \in Seq(Items) /\ all \in Seq(Items) /\ initial \subseteq present
  BY LenProperties DEF TypeOK, Walking
<1>2. /\ item \notin present /\ present' = present \union {item} /\ item \notin Range(collection)
      /\ UNCHANGED <<walk, page, all, initial, deleted>> /\ Read' = Read
      /\ collection' = InsertAt(collection, i, item)
  BY DEF Insert, Read
<1>3. /\ collection' \in Seq(Items) /\ Len(collection') = Len(collection) + 1
      /\ \A j \in 1 .. Len(collection) + 1 : collection'[j] =
           IF j < i THEN collection[j] ELSE IF j = i THEN item ELSE collection[j - 1]
  BY InsertEffect
<1> HIDE DEF b
<1>4. Range(collection') = Range(collection) \union {item}
  <2>1. ASSUME NEW x \in Range(collection') PROVE x \in Range(collection) \union {item}
    <3>1. PICK j \in 1 .. Len(collection) + 1 : collection'[j] = x
      BY <1>3, <2>1, InRange
    <3>2. CASE j < i
      <4>1. j \in 1 .. Len(collection) /\ collection[j] = x
        BY <1>1, <1>3, <3>1, <3>2
      <4> QED BY <1>1, <4>1, InRange
    <3>3. CASE j = i
      BY <1>3, <3>1, <3>3
    <3>4. CASE ~(j < i) /\ j # i
      <4>1. j - 1 \in 1 .. Len(collection) /\ collection[j - 1] = x
        BY <1>1, <1>3, <3>1, <3>4
      <4> QED BY <1>1, <4>1, InRange
    <3> QED BY <3>2, <3>3, <3>4
  <2>2. ASSUME NEW x \in Range(collection) PROVE x \in Range(collection')
    <3>1. PICK j \in 1 .. Len(collection) : collection[j] = x
      BY <1>1, <2>2, InRange
    <3>2. CASE j < i
      <4>1. j \in 1 .. Len(collection) + 1 /\ collection'[j] = x
        BY <1>1, <1>3, <3>1, <3>2
      <4> QED BY <1>3, <4>1, InRange
    <3>3. CASE ~(j < i)
      <4>1. j + 1 \in 1 .. Len(collection) + 1 /\ collection'[j + 1] = x
        BY <1>1, <1>3, <3>1, <3>3
      <4> QED BY <1>3, <4>1, InRange
    <3> QED BY <3>2, <3>3
  <2>3. item \in Range(collection')
    <3>1. collection'[i] = item
      BY <1>1, <1>3
    <3> QED BY <1>3, <3>1, InRange
  <2> QED BY <2>1, <2>2, <2>3
<1>5. ASSUME ~deleted, NEW j \in 1 .. b, collection'[j] \in initial
      PROVE  collection'[j] \in Range(all)
  <2>1. b <= Len(collection)
        /\ \A k \in 1 .. b : collection[k] \in initial => collection[k] \in Range(all)
    BY <1>5 DEF Walking, b
  <2>2. j # i
    BY <1>1, <1>2, <1>3, <1>5
  <2>3. CASE j < i
    BY <1>1, <1>3, <1>5, <2>1, <2>3
  <2>4. CASE ~(j < i)
    <3>1. j - 1 \in 1 .. b /\ collection'[j] = collection[j - 1]
      BY <1>1, <1>3, <2>1, <2>2, <2>4
    <3> QED BY <1>5, <2>1, <3>1
  <2> QED BY <2>3, <2>4
<1>6. present' # initial'
  BY <1>1, <1>2
<1>7. ~deleted => b <= Len(collection) + 1 /\ initial \subseteq Range(collection)
  BY <1>1 DEF Walking, b
<1>8. Len(all) = b /\ Range(all) \subseteq present /\ Range(collection) \subseteq present
  BY DEF Walking, b
<1>9. /\ Len(all') = Read' /\ Range(all') \subseteq present'
      /\ Range(collection') \subseteq present' /\ initial' \subseteq present'
  BY <1>1, <1>2, <1>4, <1>8 DEF b
<1>10. ASSUME ~deleted'
       PROVE  /\ Read' <= Len(collection') /\ initial' \subseteq Range(collection')
              /\ \A j \in 1 .. Read' : collection'[j] \in initial' => collection'[j] \in Range(all')
  BY <1>2, <1>3, <1>4, <1>5, <1>7, <1>10 DEF b
<1> QED BY <1>6, <1>9, <1>10 DEF Walking

LEMMA DeleteWalking ==
  ASSUME TypeOK, Walking, NEW i \in 1 .. Len(collection), Delete(i)
  PROVE  Walking'
<1>1. Range(collection') \subseteq Range(collection)
  BY DeleteType
<1> QED BY <1>1 DEF Walking, Delete, Read

LEMMA BeginWalking ==
  ASSUME TypeOK, NEW kind \in {"list", "detail"}, Begin(kind)
  PROVE  Walking'
<1>1. /\ all' = <<>> /\ page' = 1 /\ collection' = collection
      /\ initial' = Range(collection) /\ present' = Range(collection)
  BY DEF Begin
<1>2. collection \in Seq(Items) /\ Len(collection) \in Nat
  BY LenProperties DEF TypeOK
<1>3. Read' = 0
  BY <1>1, PagingAssumption DEF Read
<1>4. Len(all') = 0 /\ Range(all') = {}
  BY <1>1 DEF Range
<1>5. SubSeq(collection, 1, 0) = <<>>
  BY <1>2, SubSeqEmpty
<1> QED BY <1>1, <1>2, <1>3, <1>4, <1>5 DEF Walking

LEMMA PagingInvNext == PagingInv /\ [Next]_vars => PagingInv'
<1> SUFFICES ASSUME PagingInv, [Next]_vars PROVE Walking' /\ NothingLost' /\ GivesUpHonestly'
  BY PagingNext DEF PagingInv
<1> USE DEF PagingInv
<1>1. ASSUME NEW kind \in {"list", "detail"}, Begin(kind)
      PROVE  Walking' /\ NothingLost' /\ GivesUpHonestly'
  BY <1>1, BeginWalking DEF Begin, NothingLost, Done, GivesUpHonestly
<1>2. CASE FetchFails
  BY <1>2 DEF FetchFails, End, Walking, NothingLost, Done, GivesUpHonestly
<1>3. CASE FetchList
  <2>1. walk # "idle" /\ Answered /\ UNCHANGED <<collection, initial, present, deleted>>
    BY <1>3 DEF FetchList
  <2>2. CASE HasNext(page)
    <3>1. page' = page + 1 /\ UNCHANGED <<walk, outcome>>
      BY <1>3, <2>2 DEF FetchList
    <3> QED BY <2>1, <2>2, <3>1, WalksOn DEF NothingLost, Done, GivesUpHonestly
  <2>3. CASE ~HasNext(page)
    <3>1. End("ok")
      BY <1>3, <2>3 DEF FetchList
    <3> QED BY <2>1, <2>3, <3>1, EndsWhole DEF End, Walking, GivesUpHonestly
  <2> QED BY <2>2, <2>3
<1>4. CASE FetchWhole
  BY <1>4 DEF FetchWhole, End, Walking, NothingLost, Done, GivesUpHonestly
<1>5. ASSUME NEW count \in {0, Len(collection)}, FetchDetail(count)
      PROVE  Walking' /\ NothingLost' /\ GivesUpHonestly'
  <2>1. walk = "detail" /\ Answered /\ UNCHANGED <<collection, initial, present, deleted>>
    BY <1>5 DEF FetchDetail
  <2>2. CASE DetailDone(count)
    <3>1. End("ok")
      BY <1>5, <2>2 DEF FetchDetail
    <3>2. ~deleted => ~HasNext(page)
      BY <2>1, <2>2, LastPage
    <3> QED BY <2>1, <3>1, <3>2, EndsWhole DEF End, Walking, GivesUpHonestly
  <2>3. CASE ~DetailDone(count) /\ page = MaxPages
    <3>1. End("exceeded") /\ HasNext(page)
      BY <1>5, <2>3 DEF FetchDetail, DetailDone
    <3>2. Len(collection) > MaxPages * PageSize
      <4>1. MaxPages * PageSize < Len(collection)
        BY <2>3, <3>1 DEF HasNext
      <4>2. MaxPages * PageSize \in Nat /\ Len(collection) \in Nat
        BY PagingAssumption, LenProperties DEF TypeOK
      <4> QED BY <4>1, <4>2
    <3> QED BY <2>1, <3>1, <3>2 DEF End, Walking, NothingLost, Done, GivesUpHonestly
  <2>4. CASE ~DetailDone(count) /\ page # MaxPages
    <3>1. page' = page + 1 /\ UNCHANGED <<walk, outcome>> /\ HasNext(page)
      BY <1>5, <2>4 DEF FetchDetail, DetailDone
    <3> QED BY <2>1, <3>1, WalksOn DEF NothingLost, Done, GivesUpHonestly
  <2> QED BY <2>2, <2>3, <2>4
<1>6. ASSUME walk # "idle", NEW item \in Items, NEW i \in 1 .. Len(collection) + 1,
             Insert(item, i)
      PROVE  Walking' /\ NothingLost' /\ GivesUpHonestly'
  BY <1>6, InsertWalking DEF Insert, NothingLost, Done, GivesUpHonestly
<1>7. ASSUME walk # "idle", NEW i \in 1 .. Len(collection), Delete(i)
      PROVE  Walking' /\ NothingLost' /\ GivesUpHonestly'
  BY <1>7, DeleteWalking DEF Delete, NothingLost, Done, GivesUpHonestly
<1>8. CASE UNCHANGED vars
  BY <1>8 DEF vars, Walking, Read, NothingLost, Done, GivesUpHonestly
<1> QED BY <1>1, <1>2, <1>3, <1>4, <1>5, <1>6, <1>7, <1>8 DEF Next

LEMMA PagingInvariance == Spec => []PagingInv
<1>1. Init => PagingInv
  BY PagingInit DEF Init, PagingInv, Walking, NothingLost, Done, GivesUpHonestly
<1>2. PagingInv /\ [Next]_vars => PagingInv'
  BY PagingInvNext
<1> QED BY <1>1, <1>2, PTL DEF Spec

(* listAll and GetPoolRuntimeDetail return all that was there while they    *)
(* walked, unless something was deleted meanwhile, whatever came in.        *)
THEOREM WalksLoseNothing == Spec => []NothingLost
<1>1. PagingInv => NothingLost
  BY DEF PagingInv
<1> QED BY PagingInvariance, <1>1, PTL

(* GetPoolRuntimeDetail gives up only on collections beyond its limit.      *)
THEOREM WalksGiveUpHonestly == Spec => []GivesUpHonestly
<1>1. PagingInv => GivesUpHonestly
  BY DEF PagingInv
<1> QED BY PagingInvariance, <1>1, PTL

-----------------------------------------------------------------------------
(***************************************************************************)
(* SEAddresses                                                             *)
(***************************************************************************)

(* A score is of its role: four labels are never worth a management role. *)
LEMMA ScoreRange ==
  ASSUME NEW r \in Record
  PROVE  /\ r.role = "management" => AddressScore(r) \in 100 .. 104
         /\ r.role = "data" => AddressScore(r) \in 0 .. 4
<1> DEFINE filled == { f \in Fields : r.label[f] # 0 }
<1>1. IsFiniteSet(Fields) /\ Cardinality(Fields) = 4
  <2>1. IsFiniteSet(1 .. 4) /\ Cardinality(1 .. 4) = IF 1 > 4 THEN 0 ELSE 4 - 1 + 1
    <3>1. \A a, b \in Int :
            IsFiniteSet(a .. b) /\ Cardinality(a .. b) = IF a > b THEN 0 ELSE b - a + 1
      BY FS_Interval
    <3>2. 1 \in Int /\ 4 \in Int
      OBVIOUS
    <3> QED BY <3>1, <3>2, Zenon
  <2>2. ~(1 > 4) /\ 4 - 1 + 1 = 4
    OBVIOUS
  <2> QED BY <2>1, <2>2 DEF Fields
<1>2. IsFiniteSet(filled) /\ Cardinality(filled) \in Nat /\ Cardinality(filled) <= 4
  BY <1>1, FS_Subset, FS_CardinalityType
<1> HIDE DEF filled
<1>3. AddressScore(r) = (IF r.role = "management" THEN 100 ELSE 0) + Cardinality(filled)
  BY DEF AddressScore, filled
<1> QED BY <1>2, <1>3

LEMMA Filled ==
  ASSUME NEW a \in Record, NEW b \in Record
  PROVE  /\ FillGaps(a, b) \in Record /\ FillGaps(a, b).role = a.role
         /\ \A f \in Fields :
              FillGaps(a, b).label[f] = IF a.label[f] # 0 THEN a.label[f] ELSE b.label[f]
BY DEF FillGaps, Record

LEMMA BeatsType ==
  ASSUME NEW a \in Record, NEW b \in Record, a.role # b.role
  PROVE  Beats(b, a) <=> b.role = "management"
<1>1. a.role \in {"data", "management"} /\ b.role \in {"data", "management"}
  BY DEF Record, Roles
<1>2. CASE a.role = "data" /\ b.role = "management"
  <2>1. AddressScore(a) \in 0 .. 4 /\ AddressScore(b) \in 100 .. 104
    BY <1>2, ScoreRange
  <2> QED BY <1>2, <2>1 DEF Beats
<1>3. CASE b.role = "data" /\ a.role = "management"
  <2>1. AddressScore(b) \in 0 .. 4 /\ AddressScore(a) \in 100 .. 104
    BY <1>3, ScoreRange
  <2> QED BY <1>3, <2>1 DEF Beats
<1> QED BY <1>1, <1>2, <1>3

(* What one report leaves of another. *)
LEMMA Preferred ==
  ASSUME NEW a \in Record, NEW b \in Record
  PROVE  /\ Prefer(a, b) \in Record
         /\ a.role # b.role =>
              Prefer(a, b) = IF b.role = "management" THEN b ELSE a
         /\ a.role = b.role =>
              /\ Prefer(a, b).role = a.role
              /\ \A f \in Fields :
                   /\ Prefer(a, b).label[f] \in {a.label[f], b.label[f]}
                   /\ Prefer(a, b).label[f] = 0 => a.label[f] = 0 /\ b.label[f] = 0
<1>1. CASE a.role # b.role
  BY <1>1, BeatsType DEF Prefer
<1>2. CASE a.role = b.role
  <2>1. Prefer(a, b) = IF Beats(b, a) THEN FillGaps(b, a) ELSE FillGaps(a, b)
    BY <1>2 DEF Prefer
  <2>2. CASE Beats(b, a)
    <3>1. Prefer(a, b) = FillGaps(b, a)
      BY <2>1, <2>2
    <3> QED BY <1>2, <3>1, Filled
  <2>3. CASE ~Beats(b, a)
    <3>1. Prefer(a, b) = FillGaps(a, b)
      BY <2>1, <2>3
    <3> QED BY <1>2, <3>1, Filled
  <2> QED BY <2>2, <2>3
<1> QED BY <1>1, <1>2

(* Keys are compared place by place. *)
LEMMA Consed ==
  ASSUME NEW x \in Nat, NEW n \in Nat, NEW t \in [1 .. n -> Nat]
  PROVE  /\ Len(<<x>> \o t) = 1 + n /\ (<<x>> \o t)[1] = x
         /\ \A i \in 2 .. 1 + n : (<<x>> \o t)[i] = t[i - 1]
<1> DEFINE first == <<x>>
<1>1. first \in Seq(Nat) /\ Len(first) = 1 /\ first[1] = x
  OBVIOUS
<1>2. t \in Seq(Nat) /\ Len(t) = n
  OBVIOUS
<1> HIDE DEF first
<1>3. Len(first \o t) = Len(first) + Len(t)
  BY <1>1, <1>2, ConcatProperties
<1>4. \A i \in 1 .. Len(first) + Len(t) : (first \o t)[i] =
        IF i <= Len(first) THEN first[i] ELSE t[i - Len(first)]
  BY <1>1, <1>2, ConcatProperties
<1> QED BY <1>1, <1>2, <1>3, <1>4 DEF first

LEMMA KeyOf ==
  ASSUME NEW r \in Record
  PROVE  /\ Len(AddressKey(r)) = 5
         /\ AddressKey(r)[1] = IF r.role = "data" THEN 0 ELSE 1
         /\ \A i \in 2 .. 5 : AddressKey(r)[i] = r.label[i - 1]
         /\ \A i \in 1 .. 5 : AddressKey(r)[i] \in Nat
<1> DEFINE x == IF r.role = "data" THEN 0 ELSE 1
           t == r.label
<1>1. x \in Nat /\ t \in [1 .. 4 -> Nat] /\ 4 \in Nat
  BY AddressAssumption DEF Record, Fields
<1>2. AddressKey(r) = <<x>> \o t
  BY DEF AddressKey
<1> HIDE DEF x, t
<1>3. /\ Len(<<x>> \o t) = 1 + 4 /\ (<<x>> \o t)[1] = x
      /\ \A i \in 2 .. 1 + 4 : (<<x>> \o t)[i] = t[i - 1]
  BY <1>1, Consed
<1>4. /\ Len(AddressKey(r)) = 5 /\ AddressKey(r)[1] = x
      /\ \A i \in 2 .. 5 : AddressKey(r)[i] = t[i - 1]
  BY <1>2, <1>3
<1>5. \A i \in 2 .. 5 : t[i - 1] \in Nat
  BY <1>1
<1> QED BY <1>1, <1>4, <1>5 DEF x, t

LEMMA LessOneWay ==
  ASSUME NEW k, NEW l, Len(k) = 5, Len(l) = 5,
         \A i \in 1 .. 5 : k[i] \in Nat /\ l[i] \in Nat,
         Less(k, l)
  PROVE  ~Less(l, k)
<1> SUFFICES ASSUME Less(l, k) PROVE FALSE
  OBVIOUS
<1>1. PICK i \in 1 .. 5 : k[i] < l[i] /\ \A j \in 1 .. i - 1 : k[j] = l[j]
  BY DEF Less
<1>2. PICK j \in 1 .. 5 : l[j] < k[j] /\ \A n \in 1 .. j - 1 : l[n] = k[n]
  BY DEF Less
<1>3. CASE i < j
  <2>1. i \in 1 .. j - 1
    BY <1>3
  <2> QED BY <1>1, <1>2, <2>1
<1>4. CASE j < i
  <2>1. j \in 1 .. i - 1
    BY <1>4
  <2> QED BY <1>1, <1>2, <2>1
<1>5. CASE i = j
  BY <1>1, <1>2, <1>5
<1> QED BY <1>3, <1>4, <1>5

LEMMA LessDecides ==
  ASSUME NEW k, NEW l, Len(k) = 5, Len(l) = 5,
         \A i \in 1 .. 5 : k[i] \in Nat /\ l[i] \in Nat,
         ~Less(k, l), ~Less(l, k)
  PROVE  \A i \in 1 .. 5 : k[i] = l[i]
<1>1. \A i \in 1 .. 5 : (\A j \in 1 .. i - 1 : k[j] = l[j]) => ~(k[i] < l[i])
  BY DEF Less
<1>2. \A i \in 1 .. 5 : (\A j \in 1 .. i - 1 : l[j] = k[j]) => ~(l[i] < k[i])
  BY DEF Less
<1>3. \A i \in 1 .. 5 : (\A j \in 1 .. i - 1 : k[j] = l[j]) => k[i] = l[i]
  BY <1>1, <1>2
<1>4. k[1] = l[1]
  BY <1>3
<1>5. k[2] = l[2]
  BY <1>3, <1>4
<1>6. k[3] = l[3]
  BY <1>3, <1>4, <1>5
<1>7. k[4] = l[4]
  BY <1>3, <1>4, <1>5, <1>6
<1>8. k[5] = l[5]
  BY <1>3, <1>4, <1>5, <1>6, <1>7
<1> QED BY <1>4, <1>5, <1>6, <1>7, <1>8

LEMMA SameKey ==
  ASSUME NEW a \in Record, NEW b \in Record,
         \A i \in 1 .. 5 : AddressKey(a)[i] = AddressKey(b)[i]
  PROVE  a = b
<1>1. a.role = b.role
  BY KeyOf DEF Record, Roles
<1>2. ASSUME NEW f \in Fields PROVE a.label[f] = b.label[f]
  <2>1. f + 1 \in 2 .. 5 /\ (f + 1) - 1 = f
    BY DEF Fields
  <2>2. AddressKey(a)[f + 1] = a.label[f] /\ AddressKey(b)[f + 1] = b.label[f]
    BY <2>1, KeyOf
  <2> QED BY <2>1, <2>2
<1>3. a.label = b.label
  BY <1>2 DEF Record
<1> QED BY <1>1, <1>3 DEF Record

LEMMA OneBeats ==
  ASSUME NEW a \in Record, NEW b \in Record
  PROVE  ~(Beats(a, b) /\ Beats(b, a)) /\ (a # b => Beats(a, b) \/ Beats(b, a))
<1> DEFINE k == AddressKey(a)
           l == AddressKey(b)
<1>1. AddressScore(a) \in Nat /\ AddressScore(b) \in Nat
  BY ScoreRange DEF Record, Roles
<1>2. Len(k) = 5 /\ Len(l) = 5 /\ \A i \in 1 .. 5 : k[i] \in Nat /\ l[i] \in Nat
  BY KeyOf
<1> HIDE DEF k, l
<1>3. ~(Less(k, l) /\ Less(l, k))
  BY <1>2, LessOneWay
<1>4. ASSUME ~Less(k, l), ~Less(l, k) PROVE a = b
  <2>1. \A i \in 1 .. 5 : k[i] = l[i]
    BY <1>2, <1>4, LessDecides
  <2> QED BY <2>1, SameKey DEF k, l
<1>5. /\ Beats(a, b) <=> \/ AddressScore(a) > AddressScore(b)
                         \/ AddressScore(a) = AddressScore(b) /\ Less(k, l)
      /\ Beats(b, a) <=> \/ AddressScore(b) > AddressScore(a)
                         \/ AddressScore(b) = AddressScore(a) /\ Less(l, k)
  BY DEF Beats, k, l
<1> QED BY <1>1, <1>3, <1>4, <1>5

(* Two reports give the same record in either order, whatever they say.     *)
THEOREM PreferEitherOrder ==
  ASSUME NEW a \in Record, NEW b \in Record
  PROVE  Prefer(a, b) = Prefer(b, a)
<1>1. CASE a = b
  BY <1>1
<1>2. CASE a # b /\ Beats(a, b)
  <2>1. ~Beats(b, a)
    BY <1>2, OneBeats
  <2> QED BY <1>2, <2>1 DEF Prefer
<1>3. CASE a # b /\ ~Beats(a, b)
  <2>1. Beats(b, a)
    BY <1>3, OneBeats
  <2> QED BY <1>3, <2>1 DEF Prefer
<1> QED BY <1>1, <1>2, <1>3

-----------------------------------------------------------------------------
(* A report changes the record of its own address only. *)

\* The labels that candidates of a role offer for a field.
Offered(C, role, f) == { c.label[f] : c \in { d \in C : d.role = role } }

(* What the record of an address has to do with its candidates.             *)
Represents(r, C) ==
  /\ C = {} <=> r = NoRecord
  /\ C # {} =>
       /\ r.role = "management" <=> \E c \in C : c.role = "management"
       /\ \A f \in Fields :
            /\ r.label[f] \in Offered(C, r.role, f)
            /\ r.label[f] = 0 => Offered(C, r.role, f) = {0}

AddressInv ==
  AddressTypeOK /\ \A ip \in IPs : Represents(byIP[ip], CandidatesOf(ip))

LEMMA NoRecordIsNone == NoRecord \notin Record
BY DEF NoRecord, Record, Roles

(* What a walk step does: it only moves on, or it adds a candidate. *)
LEMMA AddressStep ==
  ASSUME AddressTypeOK, AddressNext
  PROVE  \/ part' \in {"address", "mgmtVNIC", "dataVNICs"} /\ UNCHANGED <<byIP, added, adds>>
         \/ part' = part /\ \E raw \in Raw, c \in Record : Add(raw, c)
<1>1. CASE NextPart
  BY <1>1 DEF NextPart, AddressTypeOK
<1>2. ASSUME NEW raw \in Raw, ManagementAddress(raw)
      PROVE  part' = part /\ \E c \in Record : Add(raw, c)
  <2>1. Candidate(TRUE, 0, 0, 0, 0) \in Record
    BY AddressAssumption DEF Candidate, Record, Roles, Fields
  <2> QED BY <1>2, <2>1 DEF ManagementAddress
<1>3. ASSUME NEW raw \in Raw, NEW mask \in Masks
      PROVE  NormalizedCIDR(raw, mask) \in Labels
  BY AddressAssumption DEF NormalizedCIDR
<1>4. ASSUME NEW mgmt \in BOOLEAN, NEW i \in Labels, NEW n \in Labels, NEW v \in Labels,
             NEW c \in Labels
      PROVE  Candidate(mgmt, i, n, v, c) \in Record
  BY DEF Candidate, Record, Roles, Fields
<1>5. ASSUME NEW raw \in Raw, NEW mask \in Masks, NEW vnic \in VNICs,
             VNICNetwork(vnic, raw, mask)
      PROVE  part' = part /\ \E c \in Record : Add(raw, c)
  <2>1. vnic \in [isMgmt : BOOLEAN, interface : Labels, network : Labels, vrf : Labels]
    BY AddressAssumption
  <2>2. Candidate(part = "mgmtVNIC" \/ vnic.isMgmt, vnic.interface,
                  vnic.network, vnic.vrf, NormalizedCIDR(raw, mask)) \in Record
    <3>1. (part = "mgmtVNIC" \/ vnic.isMgmt) \in BOOLEAN
      OBVIOUS
    <3> QED BY <1>3, <1>4, <2>1, <3>1
  <2> QED BY <1>5, <2>2 DEF VNICNetwork
<1>6. ASSUME NEW raw \in Raw, NEW mask \in Masks, NEW vnic \in VNICs, NEW vlan \in VLANs,
             VLANNetwork(vnic, vlan, raw, mask)
      PROVE  part' = part /\ \E c \in Record : Add(raw, c)
  <2>1. vnic \in [isMgmt : BOOLEAN, interface : Labels, network : Labels, vrf : Labels]
        /\ vlan \in [isMgmt : BOOLEAN, interface : Labels, vrf : Labels]
    BY AddressAssumption
  <2> DEFINE mgmt == part = "mgmtVNIC" \/ vnic.isMgmt \/ vlan.isMgmt
             interface == IF vlan.interface = 0 THEN vnic.interface ELSE vlan.interface
             vrf == IF vlan.vrf = 0 THEN vnic.vrf ELSE vlan.vrf
             cidr == NormalizedCIDR(raw, mask)
  <2>2. mgmt \in BOOLEAN /\ interface \in Labels /\ vrf \in Labels /\ cidr \in Labels
        /\ vnic.network \in Labels
    BY <1>3, <2>1
  <2>3. Candidate(mgmt, interface, vnic.network, vrf, cidr) \in Record
    <3> HIDE DEF mgmt, interface, vrf, cidr
    <3> QED BY <1>4, <2>2
  <2> QED BY <1>6, <2>3 DEF VLANNetwork
<1> QED BY <1>1, <1>2, <1>5, <1>6 DEF AddressNext

(* What a candidate does to the record of its address. *)
LEMMA AddEffect ==
  ASSUME AddressTypeOK, NEW raw \in Raw, NEW c \in Record, Add(raw, c)
  PROVE  \/ Canonical[raw] = NoIP /\ UNCHANGED <<byIP, added>>
         \/ /\ Canonical[raw] \in IPs
            /\ \A ip \in IPs \ {Canonical[raw]} :
                 byIP'[ip] = byIP[ip] /\ CandidatesOf(ip)' = CandidatesOf(ip)
            /\ byIP'[Canonical[raw]] = IF byIP[Canonical[raw]] = NoRecord THEN c
                                       ELSE Prefer(byIP[Canonical[raw]], c)
            /\ CandidatesOf(Canonical[raw])' = CandidatesOf(Canonical[raw]) \union {c}
            /\ byIP' \in [IPs -> Record \union {NoRecord}]
            /\ added' \subseteq IPs \X Record
<1>1. CASE Canonical[raw] = NoIP
  BY <1>1 DEF Add
<1>2. CASE Canonical[raw] # NoIP
  <2> DEFINE at == Canonical[raw]
  <2>1. at \in IPs
    BY <1>2, AddressAssumption
  <2>2. /\ byIP' = [byIP EXCEPT ![at] = IF byIP[at] = NoRecord THEN c ELSE Prefer(byIP[at], c)]
        /\ added' = added \union {<<at, c>>}
    BY <1>2 DEF Add
  <2> HIDE DEF at
  <2>3. byIP[at] # NoRecord => byIP[at] \in Record
    BY <2>1 DEF AddressTypeOK
  <2>4. (IF byIP[at] = NoRecord THEN c ELSE Prefer(byIP[at], c)) \in Record
    BY <2>3, Preferred
  <2>5. \A ip \in IPs \ {at} : CandidatesOf(ip)' = CandidatesOf(ip)
    BY <2>2 DEF CandidatesOf
  <2>6. CandidatesOf(at)' = CandidatesOf(at) \union {c}
    <3>1. \A x : x \in CandidatesOf(at) <=> \E d \in added : d[1] = at /\ d[2] = x
      BY DEF CandidatesOf
    <3>2. \A x : x \in CandidatesOf(at)' <=> \E d \in added' : d[1] = at /\ d[2] = x
      BY DEF CandidatesOf
    <3>3. <<at, c>>[1] = at /\ <<at, c>>[2] = c
      OBVIOUS
    <3>4. \A d : d \in added' <=> d \in added \/ d = <<at, c>>
      BY <2>2
    <3>5. \A x : x \in CandidatesOf(at)' <=> x \in CandidatesOf(at) \/ x = c
      BY <3>1, <3>2, <3>3, <3>4
    <3> QED BY <3>5
  <2>7. added' \subseteq IPs \X Record
    BY <2>1, <2>2 DEF AddressTypeOK
  <2>8. /\ \A ip \in IPs \ {at} : byIP'[ip] = byIP[ip]
        /\ byIP'[at] = IF byIP[at] = NoRecord THEN c ELSE Prefer(byIP[at], c)
        /\ byIP' \in [IPs -> Record \union {NoRecord}]
    BY <2>1, <2>2, <2>4 DEF AddressTypeOK
  <2> QED BY <2>1, <2>5, <2>6, <2>7, <2>8 DEF at
<1> QED BY <1>1, <1>2

LEMMA FirstRepresents ==
  ASSUME NEW c \in Record
  PROVE  Represents(c, {c})
<1>1. c # NoRecord
  BY NoRecordIsNone
<1>2. \A f \in Fields : Offered({c}, c.role, f) = {c.label[f]}
  BY DEF Offered
<1> QED BY <1>1, <1>2 DEF Represents

LEMMA NextRepresents ==
  ASSUME NEW r \in Record, NEW C \in SUBSET Record, Represents(r, C), NEW c \in Record
  PROVE  Represents(Prefer(r, c), C \union {c})
<1> DEFINE n == Prefer(r, c)
           D == C \union {c}
<1>1. C # {} /\ r # NoRecord
  BY NoRecordIsNone DEF Represents
<1>2. /\ r.role = "management" <=> \E d \in C : d.role = "management"
      /\ \A f \in Fields :
           /\ r.label[f] \in Offered(C, r.role, f)
           /\ r.label[f] = 0 => Offered(C, r.role, f) = {0}
  BY <1>1 DEF Represents
<1>3. n \in Record /\ n # NoRecord /\ D # {}
  BY Preferred, NoRecordIsNone
<1>4. r.role \in Roles /\ c.role \in Roles /\ \A d \in C : d.role \in Roles
  BY DEF Record
<1> SUFFICES /\ n.role = "management" <=> \E d \in D : d.role = "management"
             /\ \A f \in Fields :
                  /\ n.label[f] \in Offered(D, n.role, f)
                  /\ n.label[f] = 0 => Offered(D, n.role, f) = {0}
  BY <1>3 DEF Represents
<1>5. CASE r.role = c.role
  <2>1. n.role = r.role
    BY <1>5, Preferred
  <2>2. \A f \in Fields : /\ n.label[f] \in {r.label[f], c.label[f]}
                          /\ n.label[f] = 0 => r.label[f] = 0 /\ c.label[f] = 0
    BY <1>5, Preferred
  <2>3. \A f \in Fields : Offered(D, n.role, f) = Offered(C, r.role, f) \union {c.label[f]}
    BY <1>5, <2>1 DEF Offered
  <2> HIDE DEF n
  <2>4. n.role = "management" <=> \E d \in D : d.role = "management"
    BY <1>2, <1>5, <2>1
  <2> HIDE DEF D
  <2>5. \A f \in Fields : /\ n.label[f] \in Offered(D, n.role, f)
                          /\ n.label[f] = 0 => Offered(D, n.role, f) = {0}
    BY <1>2, <2>2, <2>3
  <2> QED BY <2>4, <2>5
<1>6. CASE r.role = "data" /\ c.role = "management"
  <2>1. n = c
    BY <1>6, Preferred
  <2>2. \A d \in C : d.role # "management"
    BY <1>2, <1>6
  <2>3. \A f \in Fields : Offered(D, c.role, f) = {c.label[f]}
    <3>1. { d \in D : d.role = c.role } = {c}
      BY <1>6, <2>2
    <3> QED BY <3>1 DEF Offered
  <2> QED BY <1>6, <2>1, <2>3
<1>7. CASE r.role = "management" /\ c.role = "data"
  <2>1. n = r
    BY <1>7, Preferred
  <2>2. \A f \in Fields : Offered(D, r.role, f) = Offered(C, r.role, f)
    <3>1. { d \in D : d.role = r.role } = { d \in C : d.role = r.role }
      BY <1>7
    <3> QED BY <3>1 DEF Offered
  <2>3. \E d \in D : d.role = "management"
    BY <1>2, <1>7
  <2> QED BY <1>2, <1>7, <2>1, <2>2, <2>3
<1> QED BY <1>4, <1>5, <1>6, <1>7 DEF Roles

LEMMA InitAddressInv == AddressInit => AddressInv
<1> SUFFICES ASSUME AddressInit PROVE AddressInv
  OBVIOUS
<1>1. AddressTypeOK
  BY AddressAssumption DEF AddressInit, AddressTypeOK
<1>2. \A ip \in IPs : byIP[ip] = NoRecord /\ CandidatesOf(ip) = {}
  BY DEF AddressInit, CandidatesOf
<1> QED BY <1>1, <1>2 DEF AddressInv, Represents

LEMMA CandidateType == AddressTypeOK => \A ip \in IPs : CandidatesOf(ip) \subseteq Record
BY DEF AddressTypeOK, CandidatesOf

LEMMA AddressInvNext == AddressInv /\ [AddressNext]_addressVars => AddressInv'
<1> SUFFICES ASSUME AddressInv, [AddressNext]_addressVars PROVE AddressInv'
  OBVIOUS
<1>0. AddressTypeOK /\ \A ip \in IPs : Represents(byIP[ip], CandidatesOf(ip))
  BY DEF AddressInv
<1>1. CASE /\ part' \in {"address", "mgmtVNIC", "dataVNICs"}
           /\ UNCHANGED <<byIP, added, adds>>
  <2>1. \A ip \in IPs : CandidatesOf(ip)' = CandidatesOf(ip)
    BY <1>1 DEF CandidatesOf
  <2>2. AddressTypeOK'
    BY <1>0, <1>1 DEF AddressTypeOK
  <2> QED BY <1>0, <1>1, <2>1, <2>2 DEF AddressInv
<1>2. ASSUME part' = part, NEW raw \in Raw, NEW c \in Record, Add(raw, c) PROVE AddressInv'
  <2> DEFINE at == Canonical[raw]
  <2>1. adds' \in 0 .. MaxAdds
    BY <1>0, <1>2, AddressAssumption DEF Add, AddressTypeOK
  <2>2. CASE at = NoIP /\ UNCHANGED <<byIP, added>>
    <3>1. \A ip \in IPs : CandidatesOf(ip)' = CandidatesOf(ip)
      BY <2>2 DEF CandidatesOf
    <3>2. AddressTypeOK'
      BY <1>0, <1>2, <2>1, <2>2 DEF AddressTypeOK
    <3> QED BY <1>0, <2>2, <3>1, <3>2 DEF AddressInv
  <2>3. CASE ~(at = NoIP /\ UNCHANGED <<byIP, added>>)
    <3>1. /\ at \in IPs
          /\ \A ip \in IPs \ {at} :
               byIP'[ip] = byIP[ip] /\ CandidatesOf(ip)' = CandidatesOf(ip)
          /\ byIP'[at] = IF byIP[at] = NoRecord THEN c ELSE Prefer(byIP[at], c)
          /\ CandidatesOf(at)' = CandidatesOf(at) \union {c}
          /\ byIP' \in [IPs -> Record \union {NoRecord}] /\ added' \subseteq IPs \X Record
      BY <1>0, <1>2, <2>3, AddEffect
    <3> HIDE DEF at
    <3>2. AddressTypeOK'
      BY <1>0, <1>2, <2>1, <3>1 DEF AddressTypeOK
    <3>3. Represents(byIP[at], CandidatesOf(at)) /\ CandidatesOf(at) \in SUBSET Record
          /\ byIP[at] \in Record \union {NoRecord}
      BY <1>0, <3>1, CandidateType DEF AddressTypeOK
    <3>4. Represents(byIP'[at], CandidatesOf(at)')
      <4>1. CASE byIP[at] = NoRecord
        <5>1. CandidatesOf(at)' = {c} /\ byIP'[at] = c
          BY <3>1, <3>3, <4>1 DEF Represents
        <5> QED BY <5>1, FirstRepresents
      <4>2. CASE byIP[at] # NoRecord
        <5>1. byIP[at] \in Record /\ byIP'[at] = Prefer(byIP[at], c)
          BY <3>1, <3>3, <4>2
        <5>2. Represents(Prefer(byIP[at], c), CandidatesOf(at) \union {c})
          BY <3>3, <5>1, NextRepresents
        <5> QED BY <3>1, <5>1, <5>2
      <4> QED BY <4>1, <4>2
    <3>5. ASSUME NEW ip \in IPs PROVE Represents(byIP'[ip], CandidatesOf(ip)')
      <4>1. CASE ip = at
        BY <3>4, <4>1
      <4>2. CASE ip # at
        <5>1. byIP'[ip] = byIP[ip] /\ CandidatesOf(ip)' = CandidatesOf(ip)
          BY <3>1, <4>2
        <5>2. Represents(byIP[ip], CandidatesOf(ip))
          BY <1>0
        <5> QED BY <5>1, <5>2
      <4> QED BY <4>1, <4>2
    <3> QED BY <3>2, <3>5 DEF AddressInv
  <2> QED BY <2>2, <2>3
<1>3. CASE UNCHANGED addressVars
  <2>1. part' \in {"address", "mgmtVNIC", "dataVNICs"} /\ UNCHANGED <<byIP, added, adds>>
    BY <1>0, <1>3 DEF addressVars, AddressTypeOK
  <2> QED BY <1>1, <2>1
<1> QED BY <1>0, <1>1, <1>2, <1>3, AddressStep

LEMMA AddressInvariance == AddressSpec => []AddressInv
<1> QED BY InitAddressInv, AddressInvNext, PTL DEF AddressSpec

(* Every record is one of a role, with a label or none for each field.      *)
THEOREM AddressTypeCorrect == AddressSpec => []AddressTypeOK
<1>1. AddressInv => AddressTypeOK
  BY DEF AddressInv
<1> QED BY AddressInvariance, <1>1, PTL

(* However rich the data records are, and in whatever order they come, an   *)
(* address a management interface reports is shown as one.  Its record has  *)
(* the labels of its role, as far as any report has them, and none of the   *)
(* other role.                                                              *)
THEOREM AlwaysRichestOfItsRole == AddressSpec => []RichestOfItsRole
<1>1. AddressInv => RichestOfItsRole
  BY DEF AddressInv, Represents, RichestOfItsRole, Offered
<1> QED BY AddressInvariance, <1>1, PTL

(* What two reports of an address give does not depend on their order.      *)
THEOREM AlwaysEitherOrder == AddressSpec => []EitherOrder
<1>1. AddressTypeOK => EitherOrder
  BY CandidateType, PreferEitherOrder DEF EitherOrder
<1> QED BY AddressTypeCorrect, <1>1, PTL
=============================================================================
