--------------------------- MODULE FullListProofs ---------------------------
(***************************************************************************)
(* What an answer of GET /lists/full is worth, for any number of users,    *)
(* sections and items and any writers in between.                          *)
(*                                                                         *)
(* Both promises look ahead to the sections not read yet.  An item alive   *)
(* in one of them was on the list during the request (Ahead), because      *)
(* CreateItem demands an active section: whoever appears in a section      *)
(* after it was deleted was there before.  An item on the list all the     *)
(* time is in the answer or in a section still to be read (Owed).          *)
(***************************************************************************)
EXTENDS FullList, ListRepoProofs

Ahead ==
  \A s \in read.todo :
    /\ secOwner[s] = read.user
    /\ \A i \in itemLive : itemSec[i] = s => i \in seen

Owed ==
  /\ \A i \in steady : i \in read.items \/ itemSec[i] \in read.todo
  /\ read.pc = "items" => steady \subseteq OnList(read.user)

FullInv == FullTypeOK /\ read.items \subseteq seen /\ Ahead /\ Owed

----------------------------------------------------------------------------
(* The statements of the writers                                           *)

LEMMA WriterStep ==
  ASSUME ListTypeOK, gone \subseteq UserIds, WritersNext
  PROVE  ListTypeOK' /\ gone' \subseteq UserIds /\ RowsAreFinal
<1>1. PICK u \in UserIds : DeleteAccount(u) \/ Request(u) \/ Cleanup(u)
  BY DEF WritersNext
<1>2. CASE DeleteAccount(u)
  BY <1>2 DEF DeleteAccount, listVars, secVars, itemVars, ListTypeOK, RowsAreFinal
<1>3. CASE Request(u)
  BY <1>3, RequestStep DEF Request
<1>4. CASE Cleanup(u)
  BY <1>4
  DEF Cleanup, SoftDeleteItemsOf, SoftDeleteSectionsOf, secVars, itemVars, ListTypeOK,
      RowsAreFinal
<1> QED
  BY <1>1, <1>2, <1>3, <1>4

----------------------------------------------------------------------------
(* The steps of a read                                                     *)

LEMMA ReadSectionsStep ==
  ASSUME FullInv, NEW u \in UserIds, ReadSections(u)
  PROVE  FullInv'
<1>1. FullTypeOK'
  BY NoUserAssumption
  DEF FullInv, FullTypeOK, ReadSections, Reads, GetSections, SectionsOf, OnList, writerVars,
      listVars, secVars, itemVars, ListTypeOK
<1>2. read'.items \subseteq seen' /\ Ahead' /\ Owed'
  BY DEF FullInv, FullTypeOK, ListTypeOK, ReadSections, GetSections, SectionsOf, OnList,
         writerVars, listVars, secVars, itemVars, Ahead, Owed
<1> QED
  BY <1>1, <1>2 DEF FullInv

LEMMA ReadItemsStep ==
  ASSUME FullInv, NEW s \in SectionIds, ReadItems(s)
  PROVE  FullInv'
<1> DEFINE got == GetItems(s, read.user)
<1>1. /\ read.pc = "items" /\ s \in read.todo /\ read.user \in UserIds
      /\ read'.pc = (IF read.todo \ {s} = {} THEN "answered" ELSE "items")
      /\ read'.user = read.user
      /\ read'.todo = read.todo \ {s}
      /\ read'.items = read.items \cup got
      /\ read' \in Reads
      /\ UNCHANGED <<secOwner, secRow, secLive, itemSec, itemRow, itemLive, gone, seen, steady>>
  BY DEF FullInv, FullTypeOK, Reads, ReadItems, Answered, GetItems, ItemsOf, writerVars,
         listVars, secVars, itemVars
<1>2. FullTypeOK'
  BY <1>1 DEF FullInv, FullTypeOK, ListTypeOK
<1>3. got \subseteq seen
  BY <1>1 DEF FullInv, Ahead, GetItems
<1>4. \A i \in steady : itemSec[i] = s => i \in got
  BY <1>1 DEF FullInv, FullTypeOK, Owed, OnList, GetItems, ItemsOf, GetSections
<1>5. Ahead'
  BY <1>1 DEF FullInv, Ahead
<1>6. Owed'
  BY <1>1, <1>4 DEF FullInv, Owed, OnList, GetSections, SectionsOf
<1> QED
  BY <1>1, <1>2, <1>3, <1>5, <1>6 DEF FullInv

LEMMA WriteStep ==
  ASSUME FullInv, Write
  PROVE  FullInv'
<1>1. ListTypeOK' /\ gone' \subseteq UserIds /\ RowsAreFinal /\ UNCHANGED read
  BY WriterStep DEF FullInv, FullTypeOK, Write
<1>2. CASE read.pc = "items"
  <2>1. /\ seen' = seen \cup OnList(read.user)'
        /\ steady' = steady \cap OnList(read.user)'
        /\ read.user \in UserIds
    BY <1>2 DEF Write, FullInv, FullTypeOK
  <2>2. OnList(read.user)' \subseteq ItemIds
    BY <1>1 DEF ListTypeOK, OnList
  <2>3. FullTypeOK'
    BY <1>1, <2>1, <2>2 DEF FullInv, FullTypeOK
  <2>4. ASSUME NEW s \in read.todo
        PROVE  /\ secOwner'[s] = read.user
               /\ \A i \in itemLive' : itemSec'[i] = s => i \in seen'
    <3>1. secOwner'[s] = read.user /\ s \in SectionIds
      BY <1>1, <2>1, <2>4, NoUserAssumption DEF FullInv, FullTypeOK, Reads, Ahead, RowsAreFinal
    <3>2. ASSUME NEW i \in itemLive, itemSec'[i] = s PROVE i \in seen'
      BY <1>1, <2>1, <2>4, <3>2 DEF FullInv, FullTypeOK, ListTypeOK, Ahead, RowsAreFinal
    <3>3. ASSUME NEW i \in itemLive' \ itemLive, itemSec'[i] = s PROVE i \in seen'
      BY <1>1, <2>1, <3>1, <3>3 DEF RowsAreFinal, OnList, GetSections, SectionsOf
    <3> QED
      BY <3>1, <3>2, <3>3
  <2>5. Ahead'
    BY <1>1, <2>4 DEF Ahead
  <2>6. \A i \in steady : itemSec'[i] = itemSec[i]
    BY <1>1, <1>2 DEF FullInv, FullTypeOK, ListTypeOK, Owed, OnList, RowsAreFinal
  <2>7. Owed'
    BY <1>1, <2>1, <2>6 DEF FullInv, Owed
  <2> QED
    BY <1>1, <2>1, <2>3, <2>5, <2>7 DEF FullInv
<1>3. CASE read.pc # "items"
  <2>1. UNCHANGED <<seen, steady>> /\ read.todo = {}
    BY <1>3 DEF Write, FullInv, FullTypeOK
  <2> QED
    BY <1>1, <1>3, <2>1 DEF FullInv, FullTypeOK, Ahead, Owed
<1> QED
  BY <1>2, <1>3

----------------------------------------------------------------------------
(* The theorems                                                            *)

LEMMA FullInitInv == FullInit => FullInv
BY NoUserAssumption, ListIdsAssumption
DEF FullInit, WritersInit, ListInit, NoRead, FullInv, FullTypeOK, ListTypeOK, Reads, Ahead,
    Owed, SectionRows, ItemRows

LEMMA FullInvStep == FullInv /\ [FullNext]_fullVars => FullInv'
<1> SUFFICES ASSUME FullInv, [FullNext]_fullVars PROVE FullInv'
  OBVIOUS
<1>1. ASSUME NEW u \in UserIds, ReadSections(u) PROVE FullInv'
  BY <1>1, ReadSectionsStep
<1>2. ASSUME NEW s \in SectionIds, ReadItems(s) PROVE FullInv'
  BY <1>2, ReadItemsStep
<1>3. CASE ReadFails
  BY <1>3
  DEF FullInv, FullTypeOK, ReadFails, NoRead, Reads, Ahead, Owed, writerVars, listVars,
      secVars, itemVars, ListTypeOK
<1>4. CASE Write
  BY <1>4, WriteStep
<1>5. CASE UNCHANGED fullVars
  BY <1>5
  DEF fullVars, readVars, FullInv, FullTypeOK, Ahead, Owed, OnList, GetSections, SectionsOf,
      writerVars, listVars, secVars, itemVars, ListTypeOK
<1> QED
  BY <1>1, <1>2, <1>3, <1>4, <1>5 DEF FullNext

LEMMA FullInvariant == FullSpec => []FullInv
BY FullInitInv, FullInvStep, PTL DEF FullSpec

(* The tables and the request keep their types, and a request that waits   *)
(* has a section to wait for.                                              *)
THEOREM FullTypesHold == FullSpec => []FullTypeOK
<1>1. FullInv => FullTypeOK
  BY DEF FullInv
<1> QED
  BY <1>1, FullInvariant, PTL

(* GET /lists/full never shows an item that was not on the user's list     *)
(* during the request.                                                     *)
THEOREM AnswersAreReal == FullSpec => []AnswerIsReal
<1>1. FullInv => AnswerIsReal
  BY DEF FullInv, AnswerIsReal
<1> QED
  BY <1>1, FullInvariant, PTL

(* GET /lists/full never misses an item that was on the user's list        *)
(* throughout the request.                                                 *)
THEOREM AnswersAreComplete == FullSpec => []AnswerIsComplete
<1>1. FullInv => AnswerIsComplete
  BY DEF FullInv, FullTypeOK, Owed, AnswerIsComplete
<1> QED
  BY <1>1, FullInvariant, PTL

(* Only a cleanup takes several rows in one statement, and only rows of    *)
(* users that are gone.                                                    *)
THEOREM OthersRowsAreKept == FullSpec => OthersRowsKept
<1>1. ASSUME NEW u \in UserIds, HandlerStatement(u) PROVE GoesAlone
  BY <1>1
  DEF HandlerStatement, CreateSection, UpdateSection, DeleteSection, CreateItem, UpdateItem,
      DeleteItem, secVars, itemVars, GoesAlone
<1>2. ASSUME ListTypeOK, NEW u \in UserIds, Cleanup(u) PROVE GoesAlone
  BY <1>2
  DEF Cleanup, SoftDeleteItemsOf, SoftDeleteSectionsOf, ItemsOf, SectionsOf, secVars, itemVars,
      ListTypeOK, GoesAlone
<1>3. ASSUME UNCHANGED listVars PROVE GoesAlone
  BY <1>3 DEF listVars, secVars, itemVars, GoesAlone
<1>4. FullInv /\ [FullNext]_fullVars => [GoesAlone]_writerVars
  BY <1>1, <1>2, <1>3
  DEF FullInv, FullTypeOK, FullNext, Write, WritersNext, DeleteAccount, Request, ReadSections,
      ReadItems, ReadFails, fullVars, writerVars
<1> QED
  BY <1>4, FullInvariant, PTL DEF FullSpec, OthersRowsKept
=============================================================================
