--------------------------- MODULE ListRepoProofs ---------------------------
(***************************************************************************)
(* What the statements of the handlers keep, for any rows: the types of    *)
(* the tables, and that a row stays where it was inserted.                 *)
(***************************************************************************)
EXTENDS ListRepo, TLAPS

(* A row keeps its owner and its section, and an item appears only in an   *)
(* active section.                                                         *)
RowsAreFinal ==
  /\ \A s \in SectionIds : secOwner[s] # NoUser => secOwner'[s] = secOwner[s]
  /\ \A i \in ItemIds : itemSec[i] # NoSection => itemSec'[i] = itemSec[i]
  /\ \A i \in itemLive' \ itemLive : itemSec'[i] \in secLive'

LEMMA CreateSectionStep ==
  ASSUME ListTypeOK, NEW u \in UserIds, NEW s \in SectionIds, NEW n \in Names, NEW p \in Int,
         CreateSection(u, s, n, p)
  PROVE  ListTypeOK' /\ RowsAreFinal
BY NoUserAssumption DEF CreateSection, SectionRows, itemVars, ListTypeOK, RowsAreFinal

LEMMA UpdateSectionStep ==
  ASSUME ListTypeOK, NEW u \in UserIds, NEW s \in SectionIds, UpdateSection(u, s)
  PROVE  ListTypeOK' /\ RowsAreFinal
<1>1. PICK n \in Names \cup {secRow[s].name}, p \in Positions \cup {secRow[s].pos} :
        secRow' = [secRow EXCEPT ![s] = [name |-> n, pos |-> p]]
  BY DEF UpdateSection
<1>2. n \in Names /\ p \in Int
  BY <1>1, ListIdsAssumption DEF ListTypeOK, SectionRows
<1> QED
  BY <1>1, <1>2 DEF UpdateSection, SectionRows, itemVars, ListTypeOK, RowsAreFinal

LEMMA CreateItemStep ==
  ASSUME ListTypeOK, NEW u \in UserIds, NEW s \in SectionIds, NEW i \in ItemIds, NEW n \in Names,
         NEW t \in Translations \cup {NoTranslation}, NEW q \in Int, CreateItem(u, s, i, n, t, q)
  PROVE  ListTypeOK' /\ RowsAreFinal
BY ListIdsAssumption DEF CreateItem, GetSections, ItemRows, secVars, ListTypeOK, RowsAreFinal

LEMMA UpdateItemStep ==
  ASSUME ListTypeOK, NEW u \in UserIds, NEW i \in ItemIds, UpdateItem(u, i)
  PROVE  ListTypeOK' /\ RowsAreFinal
<1>1. PICK n \in Names \cup {itemRow[i].name}, t \in Translations \cup {itemRow[i].second},
           q \in Quantities \cup {itemRow[i].qty}, c \in BOOLEAN :
        itemRow' = [itemRow EXCEPT ![i] = [name |-> n, second |-> t, qty |-> q, checked |-> c]]
  BY DEF UpdateItem
<1>2. n \in Names /\ t \in Translations \cup {NoTranslation} /\ q \in Int
  BY <1>1, ListIdsAssumption DEF ListTypeOK, ItemRows
<1> QED
  BY <1>1, <1>2 DEF UpdateItem, ItemRows, secVars, ListTypeOK, RowsAreFinal

LEMMA DeleteStep ==
  ASSUME ListTypeOK, NEW u \in UserIds,
         \/ \E s \in SectionIds : DeleteSection(u, s)
         \/ \E i \in ItemIds : DeleteItem(u, i)
  PROVE  ListTypeOK' /\ RowsAreFinal
BY DEF DeleteSection, DeleteItem, itemVars, secVars, ListTypeOK, RowsAreFinal

(* Together: the one statement of a request.                               *)
LEMMA RequestStep ==
  ASSUME ListTypeOK, NEW u \in UserIds, HandlerStatement(u)
  PROVE  ListTypeOK' /\ RowsAreFinal
<1>1. ASSUME NEW s \in SectionIds, NEW n \in Names, NEW p \in Positions,
             CreateSection(u, s, n, p)
      PROVE  ListTypeOK' /\ RowsAreFinal
  BY <1>1, CreateSectionStep, ListIdsAssumption
<1>2. ASSUME NEW s \in SectionIds, NEW i \in ItemIds, NEW n \in Names,
             NEW t \in Translations \cup {NoTranslation}, NEW q \in Quantities,
             CreateItem(u, s, i, n, t, q)
      PROVE  ListTypeOK' /\ RowsAreFinal
  BY <1>2, CreateItemStep, ListIdsAssumption
<1> QED
  BY <1>1, <1>2, UpdateSectionStep, UpdateItemStep, DeleteStep DEF HandlerStatement
=============================================================================
