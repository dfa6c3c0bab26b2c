---------------------------- MODULE PagedDownload ----------------------------
(***************************************************************************)
(* fetchData of DownloadService reads what the server lists page by page.  *)
(* The server pages by position, so what is added or removed meanwhile     *)
(* moves the rest to other pages; the number of pages is taken from the    *)
(* page that came last.                                                    *)
(*                                                                         *)
(* src/core/cumulocity/download.service.ts, and the two services that      *)
(* extend it, measurement-download.service.ts and object-sync.service.ts.  *)
(*                                                                         *)
(* The server and its client are external: list answers with a page of the *)
(* present listing, paging.next() with the page behind the last one, or    *)
(* with nothing.                                                           *)
(***************************************************************************)
EXTENDS Integers, Sequences, FiniteSets, SequencesExt

CONSTANTS Items,      \* measurements or managed objects
          Listing,    \* what the server lists at first, in its order
          PageSize,   \* items per page of the query
          MaxPages,   \* the option of that name; its default is never reached
          None,
          MaxAdded,   \* bound: items added while a download is going on
          MaxRemoved, \* bound: items removed while a download is going on
          MaxFaults,  \* bound: pages that fail or come back undefined
          MaxKills    \* bound: runs that are killed and begun anew

ASSUME ListingAssumption ==
  Listing \in Seq(Items) /\ \A i, j \in DOMAIN Listing : Listing[i] = Listing[j] => i = j
ASSUME SizeAssumption == PageSize \in Nat \ {0} /\ MaxPages \in Nat \ {0}
ASSUME BoundsAssumption == /\ MaxAdded \in Nat
                           /\ MaxRemoved \in Nat
                           /\ MaxFaults \in Nat
                           /\ MaxKills \in Nat

VARIABLES
  listing,     \* what the server lists
  gone,        \* items that were removed
  pc,          \* where fetchData is: "loop", "handle", "close", "done", "failed"
  page,        \* the page that came last, None before the first
  pageCounter, \* pages handled
  handled,     \* the items handed to the file writer or the page handler
  first,       \* what was listed when the first page was read
  shifted,     \* how many items were added and removed since then
  truncated,   \* the client gave no page where there was to be one
  budget       \* how much of each bound is left

vars == <<listing, gone, pc, page, pageCounter, handled, first, shifted, truncated,
          budget>>

server == <<listing, gone, shifted>>

Page == [number : Nat \ {0}, totalPages : Nat, data : Seq(Items)]

ASSUME NoneAssumption == None \notin Items \union Page

NoShift == [added |-> 0, removed |-> 0]

Spend(what) ==
  /\ budget[what] > 0
  /\ budget' = [budget EXCEPT ![what] = @ - 1]

Init ==
  /\ listing = Listing
  /\ gone = {}
  /\ pc = "loop"
  /\ page = None
  /\ pageCounter = 0
  /\ handled = <<>>
  /\ first = {}
  /\ shifted = NoShift
  /\ truncated = FALSE
  /\ budget = [added |-> MaxAdded, removed |-> MaxRemoved, faults |-> MaxFaults,
               kills |-> MaxKills]
------------------------------------------------------------------------------
(*                           The listing                                   *)

(* An item that was not listed before comes in at any place.               *)
ItemAdded ==
  /\ pc \in {"loop", "handle"}
  /\ Spend("added")
  /\ \E x \in Items \ (ToSet(listing) \union gone), i \in 1..Len(listing) + 1 :
       listing' = InsertAt(listing, i, x)
  /\ shifted' = [shifted EXCEPT !.added = @ + 1]
  /\ UNCHANGED <<gone, pc, page, pageCounter, handled, first, truncated>>

ItemRemoved ==
  /\ pc \in {"loop", "handle"}
  /\ Spend("removed")
  /\ \E i \in DOMAIN listing :
       /\ listing' = RemoveAt(listing, i)
       /\ gone' = gone \union {listing[i]}
  /\ shifted' = [shifted EXCEPT !.removed = @ + 1]
  /\ UNCHANGED <<pc, page, pageCounter, handled, first, truncated>>
------------------------------------------------------------------------------
(*                           fetchData                                     *)

(* The page of a given number, as the server lists it now.                 *)
PageAt(number) ==
  LET last == number * PageSize
  IN  [number     |-> number,
       totalPages |-> (Len(listing) + PageSize - 1) \div PageSize,
       data       |-> SubSeq(listing, last - PageSize + 1,
                             IF last < Len(listing) THEN last ELSE Len(listing))]

(* Mutant: the last page is left out.                                      *)
HasNextPageEarly == page # None /\ page.number + 1 < page.totalPages

HasNextPage == page # None /\ page.number < page.totalPages

(* The condition of the loop.                                              *)
HasMore == (page = None \/ HasNextPage) /\ pageCounter < MaxPages

(* Mutant: every page is asked for by the query of the first.              *)
NextNumberFirst == 1

(* list for the first page, paging.next() for each further one.            *)
NextNumber == IF page = None THEN 1 ELSE page.number + 1

FetchPage ==
  /\ pc = "loop" /\ HasMore
  /\ page' = PageAt(NextNumber)
  /\ pc' = "handle"
  /\ IF page = None
     THEN first' = ToSet(listing) /\ shifted' = NoShift
     ELSE UNCHANGED <<first, shifted>>
  /\ UNCHANGED <<listing, gone, pageCounter, handled, truncated, budget>>

(* Mutant: an undefined page is not looked for.                            *)
UndefinedPageHandled ==
  /\ pc = "loop" /\ HasMore
  /\ Spend("faults")
  /\ page' = None
  /\ pc' = "handle"
  /\ truncated' = TRUE
  /\ UNCHANGED <<server, pageCounter, handled, first>>

(* An undefined page, the first or a later one, only ends the loop: a      *)
(* warning is logged and the download goes on as if it were complete.      *)
UndefinedPage ==
  /\ pc = "loop" /\ HasMore
  /\ Spend("faults")
  /\ page' = None
  /\ pc' = "close"
  /\ truncated' = TRUE
  /\ UNCHANGED <<server, pageCounter, handled, first>>

FetchFails ==
  /\ pc = "loop" /\ HasMore
  /\ Spend("faults")
  /\ pc' = "failed"
  /\ UNCHANGED <<server, page, pageCounter, handled, first, truncated>>

(* The page goes to the file writer and the page handler.                  *)
HandlePage ==
  /\ pc = "handle"
  /\ handled' = handled \o page.data
  /\ pageCounter' = pageCounter + 1
  /\ pc' = "loop"
  /\ UNCHANGED <<server, page, first, truncated, budget>>

(* The writer or the handler throws, and with it fetchData.                *)
HandleFails ==
  /\ pc = "handle"
  /\ pc' = "failed"
  /\ UNCHANGED <<server, page, pageCounter, handled, first, truncated, budget>>

LoopOver == (pc = "loop" /\ ~HasMore) \/ pc = "close"

(* The file, if there is one, is closed and the download is complete.      *)
Close ==
  /\ LoopOver
  /\ pc' = "done"
  /\ UNCHANGED <<server, page, pageCounter, handled, first, truncated, budget>>

CloseFails ==
  /\ LoopOver
  /\ pc' = "failed"
  /\ UNCHANGED <<server, page, pageCounter, handled, first, truncated, budget>>

(* The run is killed; the next one begins at the first page.               *)
Kill ==
  /\ Spend("kills")
  /\ pc' = "loop"
  /\ page' = None
  /\ pageCounter' = 0
  /\ handled' = <<>>
  /\ first' = {}
  /\ shifted' = NoShift
  /\ truncated' = FALSE
  /\ UNCHANGED <<listing, gone>>
------------------------------------------------------------------------------
Next == \/ ItemAdded \/ ItemRemoved
        \/ FetchPage \/ UndefinedPage \/ FetchFails
        \/ HandlePage \/ HandleFails \/ Close \/ CloseFails \/ Kill

Spec == Init /\ [][Next]_vars
------------------------------------------------------------------------------
(*                             Properties                                  *)

(* The types of the state, and that there is a page while one is handled.  *)
TypeOK ==
  /\ listing \in Seq(Items)
  /\ gone \subseteq Items
  /\ pc \in {"loop", "handle", "close", "done", "failed"}
  /\ page \in Page \union {None}
  /\ pageCounter \in Nat
  /\ handled \in Seq(Items)
  /\ first \subseteq Items
  /\ shifted \in [added : Nat, removed : Nat]
  /\ truncated \in BOOLEAN
  /\ budget \in [added : Nat, removed : Nat, faults : Nat, kills : Nat]
  /\ pc = "handle" => page # None

(* A download that completes misses at most as many of the items listed    *)
(* when it began as were removed meanwhile, wherever items were added and  *)
(* removed: one that is added pushes others to a later page, one that is   *)
(* removed pulls at most one to a page that was read already, and the      *)
(* number of pages is read anew with every page.  An undefined page cuts   *)
(* the download short.                                                     *)
MissedAreRemovals ==
  pc = "done" /\ ~truncated /\ pageCounter < MaxPages
    => Cardinality(first \ ToSet(handled)) =< shifted.removed

(* Items are handed on again at most as often as items were added.         *)
RepeatsAreAdditions ==
  Len(handled) - Cardinality(ToSet(handled)) =< shifted.added
=============================================================================
