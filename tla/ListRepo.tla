------------------------------ MODULE ListRepo ------------------------------
(***************************************************************************)
(* list_db and the statements list_repo.go runs on it.  A row id names one *)
(* row ever; deleted_at is set once and never cleared, so the rows of a    *)
(* table with deleted_at IS NULL are a set.  Each action is one statement, *)
(* which Postgres runs atomically; a statement that matches no row changes *)
(* nothing and its handler answers with an error.                          *)
(*                                                                         *)
(* The two cleanup statements are actions of their own because no          *)
(* transaction holds them together, neither in SoftDeleteAllByUser nor in  *)
(* the orphan job's cleanupUser.                                           *)
(***************************************************************************)
EXTENDS Users, Integers

CONSTANTS
  SectionIds, ItemIds,
  Names,         \* section and item names
  Positions,     \* section positions a client sends
  Quantities,    \* quantities a client sends, in a create or an update
  Translations,  \* secondary names of items
  NoSection, NoTranslation

ASSUME ListIdsAssumption ==
  /\ NoSection \notin SectionIds
  /\ Names # {}
  /\ Positions \subseteq Int
  /\ Quantities \subseteq Int

VARIABLES
  secOwner,  \* the user of a sections row, NoUser: not inserted
  secRow,    \* its name and position
  secLive,   \* sections with deleted_at IS NULL
  itemSec,   \* the section of an items row, NoSection: not inserted
  itemRow,   \* its name, secondary name, quantity and tick
  itemLive   \* items with deleted_at IS NULL

secVars == <<secOwner, secRow, secLive>>
itemVars == <<itemSec, itemRow, itemLive>>
listVars == <<secVars, itemVars>>

SectionRows == [name : Names, pos : Int]
ItemRows ==
  [name : Names, second : Translations \cup {NoTranslation}, qty : Int, checked : BOOLEAN]

ListTypeOK ==
  /\ secOwner \in [SectionIds -> UserIds \cup {NoUser}]
  /\ secRow \in [SectionIds -> SectionRows]
  /\ secLive \subseteq {s \in SectionIds : secOwner[s] # NoUser}
  /\ itemSec \in [ItemIds -> SectionIds \cup {NoSection}]
  /\ itemRow \in [ItemIds -> ItemRows]
  /\ itemLive \subseteq {i \in ItemIds : itemSec[i] # NoSection}

ListInit ==
  /\ secOwner = [s \in SectionIds |-> NoUser]
  /\ secRow = [s \in SectionIds |-> [name |-> CHOOSE n \in Names : TRUE, pos |-> 0]]
  /\ secLive = {}
  /\ itemSec = [i \in ItemIds |-> NoSection]
  /\ itemRow = [i \in ItemIds |->
                 [name |-> CHOOSE n \in Names : TRUE, second |-> NoTranslation,
                  qty |-> 1, checked |-> FALSE]]
  /\ itemLive = {}

SectionsOf(u) == {s \in SectionIds : secOwner[s] = u}

(* The join items.section_id = sections.id AND sections.user_id = u, with  *)
(* no condition on the section's deleted_at.                               *)
ItemsOf(u) == {i \in ItemIds : itemSec[i] \in SectionsOf(u)}

----------------------------------------------------------------------------
(* Queries                                                                 *)

GetSections(u) == SectionsOf(u) \cap secLive

GetItems(s, u) == {i \in itemLive \cap ItemsOf(u) : itemSec[i] = s}

----------------------------------------------------------------------------
(* Handler statements                                                      *)

CreateSection(u, s, n, p) ==
  /\ secOwner[s] = NoUser
  /\ secOwner' = [secOwner EXCEPT ![s] = u]
  /\ secRow' = [secRow EXCEPT ![s] = [name |-> n, pos |-> p]]
  /\ secLive' = secLive \cup {s}
  /\ UNCHANGED itemVars

(* An absent name or position keeps the stored one. *)
UpdateSection(u, s) ==
  /\ s \in GetSections(u)
  /\ \E n \in Names \cup {secRow[s].name}, p \in Positions \cup {secRow[s].pos} :
       secRow' = [secRow EXCEPT ![s] = [name |-> n, pos |-> p]]
  /\ UNCHANGED <<secOwner, secLive, itemVars>>

(* Only the section is deleted: its items keep deleted_at IS NULL. *)
DeleteSection(u, s) ==
  /\ s \in GetSections(u)
  /\ secLive' = secLive \ {s}
  /\ UNCHANGED <<secOwner, secRow, itemVars>>

(* INSERT ... WHERE EXISTS (an active section of this user). *)
CreateItem(u, s, i, n, t, q) ==
  /\ itemSec[i] = NoSection
  /\ s \in GetSections(u)
  /\ itemSec' = [itemSec EXCEPT ![i] = s]
  /\ itemRow' = [itemRow EXCEPT ![i] =
                  [name |-> n, second |-> t, qty |-> IF q > 0 THEN q ELSE 1, checked |-> FALSE]]
  /\ itemLive' = itemLive \cup {i}
  /\ UNCHANGED secVars

(* The section may be deleted; a quantity is stored as it comes, and what  *)
(* is absent stays.                                                        *)
UpdateItem(u, i) ==
  /\ i \in itemLive \cap ItemsOf(u)
  /\ \E n \in Names \cup {itemRow[i].name}, t \in Translations \cup {itemRow[i].second},
        q \in Quantities \cup {itemRow[i].qty}, c \in BOOLEAN :
       itemRow' = [itemRow EXCEPT ![i] = [name |-> n, second |-> t, qty |-> q, checked |-> c]]
  /\ UNCHANGED <<secVars, itemSec, itemLive>>

DeleteItem(u, i) ==
  /\ i \in itemLive \cap ItemsOf(u)
  /\ itemLive' = itemLive \ {i}
  /\ UNCHANGED <<secVars, itemSec, itemRow>>

(* The one statement of an authenticated request that changes a list. *)
HandlerStatement(u) ==
  \/ \E s \in SectionIds :
       \/ \E n \in Names, p \in Positions : CreateSection(u, s, n, p)
       \/ UpdateSection(u, s)
       \/ DeleteSection(u, s)
       \/ \E i \in ItemIds, n \in Names, t \in Translations \cup {NoTranslation},
             q \in Quantities : CreateItem(u, s, i, n, t, q)
  \/ \E i \in ItemIds : UpdateItem(u, i) \/ DeleteItem(u, i)

----------------------------------------------------------------------------
(* The cleanup statements                                                  *)

SoftDeleteItemsOf(u) ==
  /\ itemLive' = itemLive \ ItemsOf(u)
  /\ UNCHANGED <<secVars, itemSec, itemRow>>

(* The statement loses its condition on user_id. *)
SoftDeleteSectionsOfAll(u) ==
  /\ secLive' = {s \in secLive : u = NoUser}
  /\ UNCHANGED <<secOwner, secRow, itemVars>>

SoftDeleteSectionsOf(u) ==
  /\ secLive' = secLive \ SectionsOf(u)
  /\ UNCHANGED <<secOwner, secRow, itemVars>>
=============================================================================
