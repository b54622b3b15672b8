-------------------------------- MODULE Paging --------------------------------
(***************************************************************************)
(* The two ways of avi/inventory.go to read a collection page by page      *)
(* while it changes: listAll follows "next" to the end, and                *)
(* GetPoolRuntimeDetail stops by the answer's count, a short page or a     *)
(* missing "next", and gives up after so many pages.                       *)
(*                                                                         *)
(* The controller is external: it numbers pages from 1, cuts them from     *)
(* what the collection holds at the time, and may leave the count out.     *)
(***************************************************************************)
EXTENDS Integers, FiniteSets, SequencesExt

CONSTANTS
  Items,        \* objects; one that was deleted does not come back in a walk
  PageSize,     \* defaultPageSize
  MaxPages,     \* maxPoolRuntimeDetailPages
  MaxItems      \* bound: size of the collection

ASSUME PagingAssumption ==
  {PageSize, MaxPages, MaxItems} \subseteq Nat \ {0}

VARIABLES
  collection,   \* controller: the objects in order
  walk,         \* "idle", "list" or "detail"
  page,         \* number of the page to ask for
  all,          \* what the pages so far held
  outcome,      \* of the last walk: "none", "ok", "error" or "exceeded"
  initial,      \* history: objects present when the walk began
  present,      \* history: objects present at some moment of the walk
  deleted       \* history: an object was deleted during the walk

vars == <<collection, walk, page, all, outcome, initial, present, deleted>>

Init ==
  /\ collection \in UNION { { s \in [1 .. n -> Items] : IsInjective(s) } : n \in 0 .. MaxItems }
  /\ walk = "idle" /\ page = 1 /\ all = <<>> /\ outcome = "none"
  /\ initial = {} /\ present = {} /\ deleted = FALSE

\* Page n, and whether it names a next one.
Results(n) ==
  SubSeq(collection, (n - 1) * PageSize + 1,
         IF n * PageSize <= Len(collection) THEN n * PageSize ELSE Len(collection))
HasNext(n) == n * PageSize < Len(collection)

Begin(kind) ==
  /\ walk = "idle"
  /\ walk' = kind /\ page' = 1 /\ all' = <<>> /\ outcome' = "none"
  /\ initial' = Range(collection) /\ present' = initial' /\ deleted' = FALSE
  /\ UNCHANGED collection

End(result) == walk' = "idle" /\ outcome' = result /\ UNCHANGED page

Answered == all' = all \o Results(page)

FetchFails ==
  /\ walk # "idle"
  /\ End("error") /\ all' = <<>>
  /\ UNCHANGED <<collection, initial, present, deleted>>

\* listAll
FetchList ==
  /\ walk = "list"
  /\ Answered
  /\ IF HasNext(page)
       THEN page' = page + 1 /\ UNCHANGED <<walk, outcome>>
       ELSE End("ok")
  /\ UNCHANGED <<collection, initial, present, deleted>>

\* Mutant: the count is compared with the pages asked for.
DetailDoneByPages(count) ==
  \/ count > 0 /\ (page + 1) * PageSize >= count
  \/ Len(Results(page)) < PageSize
  \/ ~HasNext(page)

\* poolRuntimeDetailDone, on everything read so far
DetailDone(count) ==
  \/ count > 0 /\ Len(all) + Len(Results(page)) >= count
  \/ Len(Results(page)) < PageSize
  \/ ~HasNext(page)

\* Mutant: the first page is counted as the second.
FetchDetailOneLess(count) ==
  /\ walk = "detail"
  /\ Answered
  /\ IF DetailDone(count) THEN End("ok")
     ELSE IF page + 1 >= MaxPages THEN End("exceeded")
     ELSE page' = page + 1 /\ UNCHANGED <<walk, outcome>>
  /\ UNCHANGED <<collection, initial, present, deleted>>

\* Mutant: there is no limit of pages.
FetchDetailUnlimited(count) ==
  /\ walk = "detail"
  /\ Answered
  /\ IF DetailDone(count) THEN End("ok")
     ELSE page' = page + 1 /\ UNCHANGED <<walk, outcome>>
  /\ UNCHANGED <<collection, initial, present, deleted>>

\* GetPoolRuntimeDetail: the first page and listPoolRuntimeDetailPages.
FetchDetail(count) ==
  /\ walk = "detail"
  /\ Answered
  /\ IF DetailDone(count) THEN End("ok")
     ELSE IF page = MaxPages THEN End("exceeded")
     ELSE page' = page + 1 /\ UNCHANGED <<walk, outcome>>
  /\ UNCHANGED <<collection, initial, present, deleted>>

\* Some versions answer with the whole array, bare or under "server".
FetchWhole ==
  /\ walk = "detail" /\ page = 1
  /\ all' = collection /\ End("ok")
  /\ UNCHANGED <<collection, initial, present, deleted>>

-----------------------------------------------------------------------------
(* The controller *)
Insert(item, i) ==
  /\ Len(collection) < MaxItems
  /\ item \notin Range(collection) \union present
  /\ collection' = InsertAt(collection, i, item)
  /\ present' = present \union {item}
  /\ UNCHANGED <<walk, page, all, outcome, initial, deleted>>

Delete(i) ==
  /\ collection' = RemoveAt(collection, i)
  /\ deleted' = TRUE
  /\ UNCHANGED <<walk, page, all, outcome, initial, present>>

Next ==
  \/ \E kind \in {"list", "detail"} : Begin(kind)
  \/ FetchFails \/ FetchList \/ FetchWhole
  \/ \E count \in {0, Len(collection)} : FetchDetail(count)
  \/ walk # "idle" /\ \E item \in Items, i \in 1 .. Len(collection) + 1 : Insert(item, i)
  \/ walk # "idle" /\ \E i \in 1 .. Len(collection) : Delete(i)

Spec == Init /\ [][Next]_vars

-----------------------------------------------------------------------------
TypeOK ==
  /\ collection \in Seq(Items) /\ IsInjective(collection)
  /\ Len(collection) <= MaxItems
  /\ walk \in {"idle", "list", "detail"}
  /\ page \in 1 .. MaxItems + 1
  /\ walk = "detail" => page <= MaxPages
  /\ all \in Seq(Items)
  /\ outcome \in {"none", "ok", "error", "exceeded"}

Done == walk = "idle" /\ outcome = "ok"

(* A walk that ends without an error holds every object that was there all  *)
(* along, and none that never was; only a deletion, which moves the objects *)
(* behind it up, can hide one.  An undisturbed walk returns the collection, *)
(* each object once and in order.                                           *)
NothingLost ==
  Done => /\ ~deleted => initial \subseteq Range(all)
          /\ Range(all) \subseteq present
          /\ ~deleted /\ present = initial => all = collection

(* Giving up is an error, never a shorter answer, and happens only when     *)
(* there is more than the limit's pages hold.                               *)
GivesUpHonestly ==
  outcome = "exceeded" /\ walk = "idle" /\ ~deleted =>
    Len(collection) > MaxPages * PageSize
=============================================================================
