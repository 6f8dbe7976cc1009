---------------------------- MODULE ListPageProofs ----------------------------
(***************************************************************************)
(* The page's copy is true for any rows, names and number of requests      *)
(* under way.  The invariant follows each row (Sound) from the request     *)
(* that is sent for it, through the statement, to the answer that is       *)
(* shown: at each stage it says where the row the user wants is to be      *)
(* found.  Of a row that two requests met, or whose answer was lost,       *)
(* nothing is said but LoneFits: its next change, if it meets no other     *)
(* request, is answered with the row as it is stored, and shown.           *)
(***************************************************************************)
EXTENDS ListPage, ListRepoProofs, FiniteSetTheorems

(* The row was inserted, whether or not it is still active. *)
Inserted(x) == IF x \in SectionIds THEN secOwner[x] # NoUser ELSE itemSec[x] # NoSection

Row(x) == IF x \in SectionIds THEN SectionRows ELSE ItemRows

(* The page, the table and the user have the same row. *)
Agreed(x) == x \in DOMAIN page /\ Shown(x) = Stored(x) /\ want[x] = Stored(x)

(* What the page can send, and what an answer to it can be. *)
WellFormed(r) ==
  /\ r \in Reqs
  /\ r.row \in Row(r.id)
  /\ r.op = "rename" => r.id \in SectionIds
  /\ r.op \in Background \cup {"edit", "tick"} => r.id \in ItemIds
  /\ r.op = "create" =>
       /\ r.id \in SectionIds => r.sec = r.id
       /\ r.id \in ItemIds =>
            r.row.qty > 0 /\ ~r.row.checked /\ r.row.second = NoTranslation
       /\ r.at \in {"ok", "lost"} => Inserted(r.id)

Pending(r) == r.at \in {"sent", "refused"}

(* The one request under way for a row that is not in doubt. *)
Follows(r) ==
  LET x == r.id
  IN  /\ r.heard
      /\ r.op = "create" =>
           IF Pending(r) THEN ~Inserted(x) /\ want[x] = r.row
           ELSE x \in Listed => r.row = Stored(x) /\ want[x] = Stored(x)
      /\ r.op \in {"rename", "edit", "tick"} /\ x \in Listed =>
           /\ x \in DOMAIN page
           /\ want[x] = r.row
           /\ IF Pending(r) THEN Shown(x) = Stored(x) /\ r.row = Sets(r, Stored(x))
              ELSE r.row = Stored(x)
      /\ r.op = "delete" /\ x \in Listed => Pending(r) /\ Agreed(x)
      /\ r.op \in Background /\ x \in Listed => Agreed(x) /\ r.row = Stored(x)

For(p, x) == req[p] # NoReq /\ req[p].id = x

Sound(x) ==
  /\ \A p, q \in Slots : For(p, x) /\ For(q, x) => p = q
  /\ \A p \in Slots : For(p, x) => Follows(req[p])
  /\ x \in Listed /\ (\A p \in Slots : ~For(p, x)) => Agreed(x)

Kept(x) == x \in doubt \/ Sound(x)

(* No request sends a translation. *)
TablesFit ==
  /\ \A i \in ItemIds : itemRow[i].second = NoTranslation
  /\ \A i \in ItemIds : itemSec[i] # NoSection => secOwner[itemSec[i]] # NoUser
  /\ \A x \in DOMAIN page : Inserted(x)

ReqsFit == \A p \in Slots : req[p] # NoReq => WellFormed(req[p])

Changes == {"rename", "edit", "tick"}

(* A change is for a row of the page, and its answer is the row as stored. *)
Carries(r) ==
  r.op \in Changes =>
    /\ r.id \in DOMAIN page
    /\ r.at = "ok" /\ r.id \in Listed => r.row = Stored(r.id)

Lone(p) == Carries(req[p]) /\ \A q \in Slots : For(q, req[p].id) => q = p

LoneFits ==
  /\ loading => alone = {}
  /\ \A p \in Slots : req[p] # NoReq /\ req[p].id \in alone => Lone(p)

PageInv ==
  /\ PageTypeOK
  /\ TablesFit
  /\ ReqsFit
  /\ LoneFits
  /\ ~loading => \A x \in Rows : Kept(x)

----------------------------------------------------------------------------
(* Rows and statements                                                     *)

LEMMA StoredFits ==
  ASSUME ListTypeOK, NEW x \in Rows
  PROVE  /\ Stored(x) \in Row(x)
         /\ Row(x) \subseteq AnyRow
         /\ x \notin SectionIds => x \in ItemIds
BY DEF ListTypeOK, Stored, Row, AnyRow, Rows

(* A row shown with a translation is, that set aside, the row itself. *)
LEMMA PlainRow ==
  ASSUME NEW row \in ItemRows, row.second = NoTranslation,
         NEW t \in Translations \cup {NoTranslation}
  PROVE  /\ [row EXCEPT !.second = t] \in ItemRows
         /\ [[row EXCEPT !.second = t] EXCEPT !.second = NoTranslation] = row
         /\ [row EXCEPT !.second = NoTranslation] = row
BY DEF ItemRows

LEMMA ShownFits ==
  ASSUME PageTypeOK, NEW x \in DOMAIN page
  PROVE  /\ x \in Rows /\ Shown(x) \in Row(x)
         /\ x \in ItemIds => Shown(x) \in ItemRows /\ Shown(x).second = NoTranslation
         /\ x \notin ItemIds => Shown(x) = page[x] /\ x \in SectionIds
<1>1. x \in Rows /\ page[x] \in IF x \in SectionIds THEN SectionRows ELSE ItemRows
  BY DEF PageTypeOK
<1>2. CASE x \in SectionIds
  BY <1>1, <1>2, PageAssumption DEF Shown, Row
<1>3. CASE x \in ItemIds
  <2>1. page[x] \in ItemRows /\ x \notin SectionIds
    BY <1>1, <1>3, PageAssumption
  <2>2. ASSUME NEW row \in ItemRows
        PROVE  /\ [row EXCEPT !.second = NoTranslation] \in ItemRows
               /\ [row EXCEPT !.second = NoTranslation].second = NoTranslation
    BY DEF ItemRows
  <2>3. Shown(x) = [page[x] EXCEPT !.second = NoTranslation]
    BY <1>3 DEF Shown
  <2> QED
    BY <1>1, <1>3, <2>1, <2>2, <2>3 DEF Row
<1> QED
  BY <1>1, <1>2, <1>3 DEF Rows

(* What is stored is shown as it is. *)
LEMMA StoredIsPlain ==
  ASSUME ListTypeOK, TablesFit, NEW x \in Rows
  PROVE  x \in ItemIds =>
           /\ Stored(x) \in ItemRows /\ Stored(x).second = NoTranslation
           /\ [Stored(x) EXCEPT !.second = NoTranslation] = Stored(x)
<1>1. x \in ItemIds => Stored(x) = itemRow[x] /\ itemRow[x] \in ItemRows
  BY PageAssumption DEF ListTypeOK, Stored
<1>2. SUFFICES ASSUME x \in ItemIds
               PROVE  /\ Stored(x) \in ItemRows /\ Stored(x).second = NoTranslation
                      /\ [Stored(x) EXCEPT !.second = NoTranslation] = Stored(x)
  OBVIOUS
<1>3. Stored(x) \in ItemRows /\ Stored(x).second = NoTranslation
  BY <1>1, <1>2 DEF TablesFit
<1>4. PICK row : row = Stored(x)
  OBVIOUS
<1>5. [row EXCEPT !.second = NoTranslation] = row
  BY ONLY <1>3, <1>4 DEF ItemRows
<1> QED
  BY <1>3, <1>4, <1>5

(* What a row of the list is, without the queries. *)
LEMMA ListedMeans ==
  ASSUME ListTypeOK, NEW x \in Rows
  PROVE  x \in Listed <=>
           IF x \in SectionIds THEN x \in secLive /\ secOwner[x] = Me
           ELSE /\ x \in itemLive
                /\ itemSec[x] \in secLive
                /\ itemSec[x] \in SectionIds
                /\ secOwner[itemSec[x]] = Me
BY PageAssumption DEF ListTypeOK, Listed, GetSections, SectionsOf, Rows

LEMMA ListedMeansNext ==
  ASSUME ListTypeOK', NEW x \in Rows
  PROVE  x \in Listed' <=>
           IF x \in SectionIds THEN x \in secLive' /\ secOwner'[x] = Me
           ELSE /\ x \in itemLive'
                /\ itemSec'[x] \in secLive'
                /\ itemSec'[x] \in SectionIds
                /\ secOwner'[itemSec'[x]] = Me
BY PageAssumption DEF ListTypeOK, Listed, GetSections, SectionsOf, Rows

LEMMA ListedIsInserted ==
  ASSUME ListTypeOK, NEW x \in Listed
  PROVE  x \in Rows /\ Inserted(x)
BY ListIdsAssumption, PageAssumption, NoUserAssumption
DEF ListTypeOK, Listed, GetSections, SectionsOf, Rows, Inserted

LEMMA WellFormedRow ==
  ASSUME NEW r, WellFormed(r)
  PROVE  /\ r.id \in Rows /\ r.sec \in SectionIds
         /\ r.id \in SectionIds => r.id \notin ItemIds /\ r.row \in SectionRows
         /\ r.id \notin SectionIds => r.id \in ItemIds /\ r.row \in ItemRows
         /\ r.op \in UserOps \cup Background
BY PageAssumption DEF WellFormed, Reqs, Row, Rows

LEMMA StatementTypes ==
  ASSUME ListTypeOK, NEW r, WellFormed(r), Statement(r)
  PROVE  ListTypeOK' /\ RowsAreFinal
<1> USE PageAssumption, WellFormedRow
<1>1. CASE r.op = "create" /\ r.id \in SectionIds /\ CreateSection(Me, r.id, r.row.name, r.row.pos)
  BY <1>1, CreateSectionStep DEF SectionRows
<1>2. CASE r.op = "create" /\ r.id \in ItemIds /\ CreateItem(Me, r.sec, r.id, r.row.name, NoTranslation, r.row.qty)
  BY <1>2, CreateItemStep DEF ItemRows
<1>3. CASE \/ r.id \in SectionIds /\ DeleteSection(Me, r.id)
           \/ r.id \in ItemIds /\ DeleteItem(Me, r.id)
  BY <1>3, DeleteStep
<1>4. CASE r.op = "rename" /\ UpdateSection(Me, r.id)
  BY <1>4, UpdateSectionStep DEF WellFormed
<1>5. CASE r.op \in {"edit", "tick", "name"} /\ UpdateItem(Me, r.id)
  BY <1>5, UpdateItemStep DEF WellFormed, Background
<1>6. CASE UNCHANGED listVars
  BY <1>6 DEF listVars, secVars, itemVars, ListTypeOK, RowsAreFinal
<1> QED
  BY <1>1, <1>2, <1>3, <1>4, <1>5, <1>6 DEF Statement

(* No statement touches another row, and none but its own creation puts a  *)
(* row on the list.                                                        *)
LEMMA OtherRows ==
  ASSUME ListTypeOK, TablesFit, NEW r, WellFormed(r), Statement(r), NEW y \in Rows, y # r.id
  PROVE  /\ Stored(y)' = Stored(y)
         /\ Inserted(y)' = Inserted(y)
         /\ y \in Listed' => y \in Listed
<1>0. ListTypeOK'
  BY StatementTypes
<1>1. r.op = "rename" => r.id \in SectionIds
  BY DEF WellFormed
<1>2. r.op \in {"edit", "tick", "name"} => r.id \in ItemIds
  BY DEF WellFormed, Background
<1> USE PageAssumption, NoUserAssumption, WellFormedRow, ListedMeans, ListedMeansNext, <1>0
    DEF Stored, Inserted, Rows
<1>3. CASE r.id \in SectionIds /\ CreateSection(Me, r.id, r.row.name, r.row.pos)
  BY <1>3 DEF CreateSection, itemVars, ListTypeOK, TablesFit
<1>4. CASE r.id \in ItemIds /\ CreateItem(Me, r.sec, r.id, r.row.name, NoTranslation, r.row.qty)
  BY <1>4 DEF CreateItem, secVars, ListTypeOK
<1>5. CASE r.id \in SectionIds /\ DeleteSection(Me, r.id)
  BY <1>5 DEF DeleteSection, itemVars, ListTypeOK
<1>6. CASE r.id \in ItemIds /\ DeleteItem(Me, r.id)
  BY <1>6 DEF DeleteItem, secVars, ListTypeOK
<1>7. CASE /\ r.id \in SectionIds
           /\ UpdateSection(Me, r.id) /\ secRow'[r.id] = Sets(r, secRow[r.id])
  BY <1>7 DEF UpdateSection, itemVars, ListTypeOK
<1>8. CASE /\ r.id \in ItemIds
           /\ UpdateItem(Me, r.id) /\ itemRow'[r.id] = Sets(r, itemRow[r.id])
  BY <1>8 DEF UpdateItem, secVars, ListTypeOK
<1>9. CASE UNCHANGED listVars
  BY <1>9 DEF listVars, secVars, itemVars
<1> QED
  BY <1>1, <1>2, <1>3, <1>4, <1>5, <1>6, <1>7, <1>8, <1>9 DEF Statement
(* What a statement leaves in its own row.                                 *)
LEMMA OwnRow ==
  ASSUME ListTypeOK, TablesFit, NEW r, WellFormed(r), Statement(r)
  PROVE  /\ r.op = "create" => Inserted(r.id)' /\ (Pending(r) => Stored(r.id)' = r.row)
         /\ r.op = "delete" => r.id \notin Listed'
         /\ r.op = "translate" => Stored(r.id)' = Stored(r.id)
         /\ r.op \in {"rename", "edit", "tick", "name"} => Stored(r.id)' = Sets(r, Stored(r.id))
         /\ r.op # "create" => (r.id \in Listed' => r.id \in Listed)
         /\ Inserted(r.id) => Inserted(r.id)'
<1>0. ListTypeOK'
  BY StatementTypes
<1>a. /\ r.op = "rename" => r.id \in SectionIds
      /\ r.op \in {"edit", "tick", "name", "translate"} => r.id \in ItemIds
  BY DEF WellFormed, Background
<1> USE PageAssumption, ListIdsAssumption, NoUserAssumption, WellFormedRow, ListedMeans,
        ListedMeansNext, <1>0, <1>a
    DEF Stored, Inserted, Rows
<1>1. CASE /\ r.op = "create" /\ r.id \in SectionIds
           /\ CreateSection(Me, r.id, r.row.name, r.row.pos)
  BY <1>1 DEF CreateSection, SectionRows, ListTypeOK
<1>2. CASE /\ r.op = "create" /\ r.id \in ItemIds
           /\ CreateItem(Me, r.sec, r.id, r.row.name, NoTranslation, r.row.qty)
  <2>1. Pending(r) => itemRow'[r.id] = r.row
    <3>1. /\ r.row \in ItemRows
          /\ r.row.qty > 0 /\ ~r.row.checked /\ r.row.second = NoTranslation
      BY <1>2 DEF WellFormed, Row
    <3>2. r.row = [name |-> r.row.name, second |-> NoTranslation,
                   qty |-> r.row.qty, checked |-> FALSE]
      BY ONLY <3>1 DEF ItemRows
    <3>3. itemRow'[r.id] = [name |-> r.row.name, second |-> NoTranslation,
                            qty |-> r.row.qty, checked |-> FALSE]
      BY ONLY <1>2, <3>1, ListTypeOK DEF CreateItem, ListTypeOK, ItemRows
    <3> QED
      BY ONLY <3>2, <3>3
  <2>2. itemSec'[r.id] # NoSection /\ r.id \notin SectionIds
    BY <1>2 DEF CreateItem, ListTypeOK
  <2> QED
    BY ONLY <1>2, <2>1, <2>2 DEF Stored, Inserted
<1>3. CASE r.op = "delete" /\ r.id \in SectionIds /\ DeleteSection(Me, r.id)
  BY <1>3 DEF DeleteSection, itemVars
<1>4. CASE r.op = "delete" /\ r.id \in ItemIds /\ DeleteItem(Me, r.id)
  BY <1>4 DEF DeleteItem, secVars
<1>5. CASE r.op = "rename" /\ UpdateSection(Me, r.id) /\ secRow'[r.id] = Sets(r, secRow[r.id])
  BY <1>5 DEF UpdateSection, itemVars
<1>6. CASE /\ r.op \in {"edit", "tick", "name"}
           /\ UpdateItem(Me, r.id) /\ itemRow'[r.id] = Sets(r, itemRow[r.id])
  BY <1>6 DEF UpdateItem, secVars
<1>7. CASE r.op = "translate" /\ UNCHANGED listVars
  BY <1>7 DEF listVars, secVars, itemVars
<1> QED
  BY <1>1, <1>2, <1>3, <1>4, <1>5, <1>6, <1>7 DEF Statement

(* An item's section stays inserted, and what the page shows as well.      *)
LEMMA TablesStayFit ==
  ASSUME ListTypeOK, TablesFit, NEW r, WellFormed(r), Statement(r)
  PROVE  /\ \A i \in ItemIds : itemSec'[i] # NoSection => secOwner'[itemSec'[i]] # NoUser
         /\ \A i \in ItemIds : itemRow'[i].second = NoTranslation
         /\ \A x \in Rows : Inserted(x) => Inserted(x)'
<1>1. \A x \in Rows : Inserted(x) => Inserted(x)'
  BY OtherRows, OwnRow
<1>6. \A i \in ItemIds : itemRow'[i].second = NoTranslation
  <2>0. itemRow \in [ItemIds -> ItemRows] /\ \A i \in ItemIds : itemRow[i].second = NoTranslation
    BY DEF ListTypeOK, TablesFit
  <2>1. CASE r.id \in ItemIds /\ CreateItem(Me, r.sec, r.id, r.row.name, NoTranslation, r.row.qty)
    BY <2>0, <2>1 DEF CreateItem
  <2>2. CASE /\ r.op \in {"edit", "tick", "name"} /\ r.id \in ItemIds
             /\ UpdateItem(Me, r.id) /\ itemRow'[r.id] = Sets(r, itemRow[r.id])
    <3>1. Sets(r, itemRow[r.id]).second = NoTranslation
      BY <2>0, <2>2 DEF Sets, ItemRows
    <3> QED
      BY <2>0, <2>2, <3>1 DEF UpdateItem
  <2>3. CASE itemRow' = itemRow
    BY <2>0, <2>3
  <2>4. r.op \in {"edit", "tick", "name"} => r.id \in ItemIds
    BY DEF WellFormed, Background
  <2> QED
    BY <2>1, <2>2, <2>3, <2>4
    DEF Statement, CreateSection, DeleteSection, UpdateSection, DeleteItem, itemVars, listVars
<1> SUFFICES \A i \in ItemIds : itemSec'[i] # NoSection => secOwner'[itemSec'[i]] # NoUser
  BY <1>1, <1>6
<1>2. ListTypeOK' /\ RowsAreFinal
  BY StatementTypes
<1>3. CASE r.id \in ItemIds /\ CreateItem(Me, r.sec, r.id, r.row.name, NoTranslation, r.row.qty)
  BY <1>2, <1>3, PageAssumption, NoUserAssumption
  DEF CreateItem, secVars, GetSections, SectionsOf, TablesFit, ListTypeOK
<1>4. CASE itemSec' = itemSec
  BY <1>2, <1>4 DEF RowsAreFinal, TablesFit, ListTypeOK
<1>5. itemSec' = itemSec \/ (r.id \in ItemIds /\ CreateItem(Me, r.sec, r.id, r.row.name, NoTranslation, r.row.qty))
  BY DEF Statement, CreateSection, DeleteSection, UpdateSection, UpdateItem, DeleteItem,
         itemVars, listVars
<1> QED
  BY <1>3, <1>4, <1>5

----------------------------------------------------------------------------
(* Rows a step does not concern                                            *)

(* y is stored, shown and wanted as before. *)
SameRow(y) ==
  /\ Stored(y)' = Stored(y)
  /\ Inserted(y)' = Inserted(y)
  /\ y \in Listed' => y \in Listed
  /\ y \in DOMAIN page' <=> y \in DOMAIN page
  /\ y \in DOMAIN page => page'[y] = page[y]
  /\ want'[y] = want[y]
  /\ y \in doubt => y \in doubt'

(* And no request for y comes, goes or moves. *)
Same(y) ==
  /\ SameRow(y)
  /\ \A p \in Slots : /\ For(p, y)' <=> For(p, y)
                      /\ For(p, y) => req'[p] = req[p]

LEMMA SameIsKept ==
  ASSUME NEW y \in Rows, Kept(y), Same(y)
  PROVE  Kept(y)'
<1>1. SUFFICES ASSUME y \notin doubt, y \notin doubt', Sound(y)
               PROVE  Sound(y)'
  BY DEF Kept, Same, SameRow
<1>2. ASSUME NEW p \in Slots, For(p, y)'
      PROVE  Follows(req[p])'
  <2>1. req'[p] = req[p] /\ req[p].id = y /\ Follows(req[p])
    BY <1>1, <1>2 DEF Same, SameRow, Sound, For
  <2> QED
    BY <2>1 DEF Same, SameRow, Follows, Agreed, Pending, Shown
<1>3. y \in Listed' /\ (\A p \in Slots : ~For(p, y)') => Agreed(y)'
  BY <1>1 DEF Same, SameRow, Sound, Agreed, Shown
<1>4. \A p, q \in Slots : For(p, y)' /\ For(q, y)' => p = q
  BY <1>1 DEF Same, SameRow, Sound
<1> QED
  BY <1>2, <1>3, <1>4 DEF Sound

LEMMA SameIsLone ==
  ASSUME NEW p \in Slots, Lone(p), For(p, req[p].id), Same(req[p].id)
  PROVE  req'[p] = req[p] /\ Lone(p)'
<1>1. req'[p] = req[p]
  BY DEF Same
<1> QED
  BY <1>1 DEF Same, SameRow, Lone, Carries

----------------------------------------------------------------------------
(* A request is sent                                                       *)

(* Sending r for a row: what the page knew of it is what r starts from.    *)
Starts(r) ==
  LET x == r.id
  IN  /\ WellFormed(r)
      /\ r.heard /\ r.at = "sent" /\ r.op \in UserOps
      /\ r.op = "create" => ~Inserted(x)
      /\ r.op # "create" => x \in DOMAIN page
      /\ r.op \in {"rename", "edit", "tick"} => r.row = Sets(r, Shown(x))
      /\ r.op = "delete" => r.row = Shown(x)

LEMMA SendStep ==
  ASSUME PageInv, NEW p \in Slots, NEW r, Starts(r), Send(p, r)
  PROVE  PageInv'
<1> DEFINE x == r.id
<1>1. x \in Rows /\ r \in Reqs /\ r # NoReq /\ r.row \in AnyRow
  BY WellFormedRow, NoReqAssumption DEF Starts, WellFormed, Reqs
<1>2. /\ req' = [req EXCEPT ![p] = r] /\ want' = [want EXCEPT ![x] = r.row]
      /\ req[p] = NoReq /\ ~loading /\ page' = page
      /\ UNCHANGED <<loading, listVars>>
      /\ alone' = IF Busy(x) THEN alone \ {x} ELSE alone \cup {x}
      /\ doubt' = IF Busy(x) THEN doubt \cup {x} ELSE doubt
  BY DEF Send, Meets
<1>3. PageTypeOK'
  BY <1>1, <1>2 DEF PageInv, PageTypeOK, ListTypeOK, listVars, secVars, itemVars
<1>4. TablesFit'
  BY <1>2 DEF PageInv, TablesFit, Inserted, listVars, secVars, itemVars
<1>5. \A y \in Rows : Stored(y)' = Stored(y) /\ Inserted(y)' = Inserted(y)
  BY <1>2 DEF Stored, Inserted, listVars, secVars, itemVars
<1>6. Listed' = Listed
  BY <1>2 DEF Listed, GetSections, SectionsOf, listVars, secVars, itemVars
<1>7. ReqsFit'
  <2>1. ASSUME NEW q, WellFormed(q)
        PROVE  WellFormed(q)'
    BY <2>1, <1>5, WellFormedRow DEF WellFormed
  <2> QED
    BY <2>1, <1>2 DEF PageInv, PageTypeOK, ReqsFit, Starts
<1>8. ASSUME NEW y \in Rows
      PROVE  Kept(y)'
  <2>0. Kept(y)
    BY <1>2 DEF PageInv
  <2>1. CASE y # x
    <3>1. Same(y)
      BY <2>1, <1>1, <1>2, <1>5, <1>6 DEF Same, SameRow, For, PageInv, PageTypeOK
    <3> QED
      BY <3>1, <2>0, SameIsKept
  <2>2. CASE y = x /\ (y \in doubt \/ Busy(y))
    BY <2>2, <1>2 DEF Kept
  <2>3. CASE y = x /\ y \notin doubt /\ ~Busy(y)
    <3>1. \A q \in Slots : ~For(q, y)
      BY <2>3 DEF Busy, UnderWay, For
    <3>2. y \in Listed => Agreed(y)
      BY <3>1, <2>0, <2>3 DEF Kept, Sound
    <3>3. \A q \in Slots : For(q, y)' => q = p
      BY <3>1, <1>2 DEF For, PageInv, PageTypeOK
    <3>4. req'[p] = r /\ want'[y] = r.row /\ page' = page
      BY <2>3, <1>1, <1>2 DEF PageInv, PageTypeOK
    <3>5. Follows(r)'
      <4>1. r.op = "create" => ~Inserted(x)' /\ want'[x] = r.row
        BY <1>1, <1>5, <2>3, <3>4 DEF Starts
      <4>2. r.op # "create" /\ y \in Listed' =>
              /\ y \in DOMAIN page' /\ Shown(y)' = Stored(y)'
              /\ r.op \in {"rename", "edit", "tick"} => r.row = Sets(r, Stored(y)')
              /\ r.op = "delete" => r.row = Stored(y)'
        BY <1>5, <1>6, <2>3, <3>2, <3>4 DEF Starts, Agreed, Shown
      <4>3. r.op \in UserOps /\ r.op \notin Background /\ Pending(r) /\ r.heard
        BY DEF Starts, UserOps, Background, Pending
      <4> QED
        BY <4>1, <4>2, <4>3, <2>3, <3>4 DEF Follows, Agreed, UserOps
    <3>6. For(p, y)'
      BY <3>4, <2>3, <1>1 DEF For
    <3> QED
      BY <3>3, <3>4, <3>5, <3>6 DEF Kept, Sound
  <2> QED
    BY <2>1, <2>2, <2>3
<1>9. ASSUME NEW q \in Slots, req'[q] # NoReq, req'[q].id \in alone'
      PROVE  Lone(q)'
  <2>1. CASE req'[q].id = x
    <3>1. ~Busy(x)
      BY <1>2, <1>9, <2>1
    <3>2. \A a \in Slots : For(a, x)' => a = p
      BY <3>1, <1>2 DEF Busy, UnderWay, For, PageInv, PageTypeOK
    <3>3. q = p /\ req'[q] = r
      BY <3>2, <2>1, <1>2, <1>9 DEF For, PageInv, PageTypeOK
    <3> QED
      BY <3>2, <3>3, <1>2 DEF Lone, Carries, Starts, Changes
  <2>2. CASE req'[q].id # x
    <3>1. q # p /\ req'[q] = req[q] /\ req[q].id \in alone /\ req[q].id \in Rows
      BY <2>2, <1>2, <1>9 DEF PageInv, PageTypeOK
    <3>2. Lone(q)
      BY <3>1, <1>9 DEF PageInv, LoneFits
    <3>3. PICK y \in Rows : y = req[q].id
      BY <3>1
    <3>4. Same(y)
      BY <2>2, <3>1, <3>3, <1>1, <1>2, <1>5, <1>6 DEF Same, SameRow, For, PageInv, PageTypeOK
    <3>5. For(q, req[q].id)
      BY <3>1, <1>9 DEF For
    <3> QED
      BY <3>2, <3>3, <3>4, <3>5, SameIsLone
  <2> QED
    BY <2>1, <2>2
<1>10. LoneFits'
  BY <1>2, <1>9 DEF LoneFits
<1> QED
  BY <1>3, <1>4, <1>7, <1>8, <1>10 DEF PageInv

LEMMA SentAsBuilt ==
  ASSUME NEW op \in UserOps, NEW x \in Rows, NEW s \in SectionIds, NEW row \in Row(x)
  PROVE  Request(op, x, s, row) \in Reqs
BY DEF Request, Reqs, AnyRow, Row

(* Every act of the user sends a request that starts from the page.        *)
LEMMA UserStep ==
  ASSUME IsFiniteSet(SectionIds), PageInv, NEW p \in Slots, UserActs(p)
  PROVE  PageInv'
<1> USE PageAssumption DEF UserOps, Background
<1>0. /\ ListTypeOK
      /\ \A x \in DOMAIN page :
           /\ x \in Rows /\ Shown(x) \in Row(x) /\ Inserted(x)
           /\ x \in SectionIds => Shown(x) = page[x]
  BY ShownFits DEF PageInv, PageTypeOK, TablesFit, Rows
<1>a. \A i \in ItemIds : i \in DOMAIN page => itemSec[i] \in SectionIds
  BY <1>0 DEF Inserted, ListTypeOK
<1>1. ASSUME NEW s \in SectionIds, NEW n \in Names, AddSection(p, s, n)
      PROVE  PageInv'
  <2> DEFINE row == [name |-> n, pos |-> Cardinality(DOMAIN page \cap SectionIds)]
  <2>1. row \in Row(s)
    <3>1. IsFiniteSet(DOMAIN page \cap SectionIds)
      BY FS_Subset
    <3>2. Cardinality(DOMAIN page \cap SectionIds) \in Int
      BY <3>1, FS_CardinalityType
    <3> QED
      BY <3>2 DEF Row, SectionRows
  <2> HIDE DEF row
  <2>2. Request("create", s, s, row) \in Reqs
    BY <2>1, SentAsBuilt DEF Rows
  <2>3. Starts(Request("create", s, s, row))
    BY <2>1, <2>2, <1>1 DEF AddSection, Starts, WellFormed, Request, Fresh, Inserted
  <2> QED
    BY <2>3, <1>1, SendStep DEF AddSection, row
<1>2. ASSUME NEW s \in SectionIds, NEW n \in Names, SaveSectionName(p, s, n)
      PROVE  PageInv'
  <2> DEFINE row == [page[s] EXCEPT !.name = n]
  <2>1. s \in DOMAIN page /\ Shown(s) = page[s] /\ row \in Row(s)
    BY <1>0, <1>2 DEF SaveSectionName, Row, SectionRows
  <2>2. Request("rename", s, s, row) \in Reqs
    BY <2>1, SentAsBuilt DEF Rows
  <2>3. row = Sets(Request("rename", s, s, row), page[s])
    BY DEF Sets, Request
  <2> HIDE DEF row
  <2>4. Starts(Request("rename", s, s, row))
    BY <2>1, <2>2, <2>3 DEF Starts, WellFormed, Request
  <2> QED
    BY <2>4, <1>2, SendStep DEF SaveSectionName, row
<1>3. ASSUME NEW s \in SectionIds, NEW i \in ItemIds, NEW n \in Names, AddItem(p, s, i, n)
      PROVE  PageInv'
  <2> DEFINE row == [name |-> n, second |-> NoTranslation, qty |-> 1, checked |-> FALSE]
  <2>1. row \in Row(i) /\ row.qty > 0 /\ ~row.checked /\ row.second = NoTranslation
    <3>1. row \in ItemRows
      BY DEF ItemRows
    <3>2. row.qty = 1 /\ row.checked = FALSE /\ row.second = NoTranslation
      OBVIOUS
    <3> HIDE DEF row
    <3>3. row.qty > 0 /\ ~row.checked /\ row.second = NoTranslation
      BY <3>2
    <3> QED
      BY <3>1, <3>3 DEF Row
  <2> HIDE DEF row
  <2>2. Request("create", i, s, row) \in Reqs
    BY <2>1, SentAsBuilt DEF Rows
  <2>3. Starts(Request("create", i, s, row))
    BY <2>1, <2>2, <1>3 DEF AddItem, Starts, WellFormed, Request, Fresh, Inserted
  <2> QED
    BY <2>3, <1>3, SendStep DEF AddItem, row
<1>4. ASSUME NEW i \in ItemIds, Toggle(p, i)
      PROVE  PageInv'
  <2> DEFINE row == [Shown(i) EXCEPT !.checked = ~@]
  <2>1. i \in DOMAIN page /\ row \in Row(i)
    BY <1>0, <1>4 DEF Toggle, Row, ItemRows
  <2>2. Request("tick", i, itemSec[i], row) \in Reqs
    BY <2>1, <1>a, SentAsBuilt DEF Rows
  <2>3. row = Sets(Request("tick", i, itemSec[i], row), Shown(i))
    BY <1>0, <2>1 DEF Sets, Request, Row, ItemRows
  <2> HIDE DEF row
  <2>4. Starts(Request("tick", i, itemSec[i], row))
    BY <2>1, <2>2, <2>3 DEF Starts, WellFormed, Request
  <2> QED
    BY <2>4, <1>4, SendStep DEF Toggle, row
<1>5. ASSUME NEW i \in ItemIds, NEW n \in Names, NEW q \in Quantities, SaveEdit(p, i, n, q)
      PROVE  PageInv'
  <2> DEFINE row == [Shown(i) EXCEPT !.name = n, !.qty = q]
  <2>1. i \in DOMAIN page /\ row \in Row(i)
    BY <1>0, <1>5, ListIdsAssumption DEF SaveEdit, Row, ItemRows
  <2>2. Request("edit", i, itemSec[i], row) \in Reqs
    BY <2>1, <1>a, SentAsBuilt DEF Rows
  <2>3. row = Sets(Request("edit", i, itemSec[i], row), Shown(i))
    BY <1>0, <2>1 DEF Sets, Request, Row, ItemRows
  <2> HIDE DEF row
  <2>4. Starts(Request("edit", i, itemSec[i], row))
    BY <2>1, <2>2, <2>3 DEF Starts, WellFormed, Request
  <2> QED
    BY <2>4, <1>5, SendStep DEF SaveEdit, row
<1>6. ASSUME NEW x \in Rows, HandleDelete(p, x)
      PROVE  PageInv'
  <2> DEFINE s == IF x \in SectionIds THEN x ELSE itemSec[x]
  <2>1. x \in DOMAIN page /\ Shown(x) \in Row(x) /\ s \in SectionIds
    BY <1>0, <1>a, <1>6 DEF HandleDelete, Rows
  <2> HIDE DEF s
  <2>2. Request("delete", x, s, Shown(x)) \in Reqs
    BY <2>1, SentAsBuilt
  <2>3. Starts(Request("delete", x, s, Shown(x)))
    BY <2>1, <2>2 DEF Starts, WellFormed, Request
  <2> QED
    BY <2>3, <1>6, SendStep DEF HandleDelete, s
<1> QED
  BY <1>1, <1>2, <1>3, <1>4, <1>5, <1>6 DEF UserActs

----------------------------------------------------------------------------
(* A request moves on                                                      *)

LEMMA SameTables ==
  ASSUME UNCHANGED listVars
  PROVE  /\ \A y : Stored(y)' = Stored(y) /\ Inserted(y)' = Inserted(y)
         /\ Listed' = Listed
         /\ ListTypeOK => ListTypeOK'
BY DEF listVars, secVars, itemVars, Stored, Inserted, Listed, GetSections, SectionsOf, ListTypeOK

(* The request r of a slot becomes r2, or ends: only its own row needs a   *)
(* look.                                                                   *)
LEMMA RequestMoves ==
  ASSUME PageInv, NEW p \in Slots, NEW r, r = req[p], r # NoReq,
         NEW r2, r2 # NoReq => r2.id = r.id,
         req' = [req EXCEPT ![p] = r2],
         loading' = loading, alone' = alone,
         r.id \in doubt \ doubt' =>
           r2 = NoReq /\ r.id \in alone /\ (r.id \in Listed' => Agreed(r.id)'),
         r2 # NoReq /\ Carries(r) => Carries(r2)',
         \A y \in Rows : y # r.id => SameRow(y),
         ~loading /\ r.id \notin doubt' /\ Follows(r) =>
           IF r2 = NoReq THEN r.id \in Listed' => Agreed(r.id)' ELSE Follows(r2)'
  PROVE  LoneFits' /\ (~loading' => \A y \in Rows : Kept(y)')
<1>3. /\ req'[p] = r2
      /\ \A q \in Slots : q # p => req'[q] = req[q]
  BY DEF PageInv, PageTypeOK
<1>7. ASSUME NEW q \in Slots, req'[q] # NoReq, req'[q].id \in alone'
      PROVE  Lone(q)'
  <2>1. CASE q = p
    <3>1. Lone(p) /\ r2 # NoReq
      BY <1>3, <1>7, <2>1 DEF PageInv, LoneFits
    <3> QED
      BY <3>1, <2>1, <1>3 DEF Lone, For
  <2>2. CASE q # p
    <3>1. req'[q] = req[q] /\ req[q] # NoReq /\ Lone(q) /\ req[q].id \in Rows
      BY <2>2, <1>3, <1>7 DEF PageInv, PageTypeOK, LoneFits
    <3>2. req[q].id # r.id
      BY <3>1, <2>2 DEF Lone, For
    <3>3. PICK y \in Rows : y = req[q].id
      BY <3>1
    <3>4. Same(y)
      BY <3>2, <3>3, <1>3 DEF Same, For
    <3>5. For(q, req[q].id)
      BY <3>1 DEF For
    <3> QED
      BY <3>1, <3>3, <3>4, <3>5, SameIsLone
  <2> QED
    BY <2>1, <2>2
<1>8. LoneFits'
  BY <1>7 DEF PageInv, LoneFits
<1>1. SUFFICES ASSUME ~loading, NEW y \in Rows
               PROVE  Kept(y)'
  BY <1>8
<1>2. Kept(y)
  BY <1>1 DEF PageInv
<1>4. CASE y # r.id
  <2>1. Same(y)
    BY <1>3, <1>4 DEF Same, For
  <2> QED
    BY <2>1, <1>2, SameIsKept
<1>5. CASE y = r.id /\ y \in doubt'
  BY <1>5 DEF Kept
<1>9. CASE y = r.id /\ y \in doubt /\ y \notin doubt'
  <2>1. Lone(p)
    BY <1>9 DEF PageInv, LoneFits
  <2>2. \A q \in Slots : ~For(q, y)'
    BY <2>1, <1>3, <1>9 DEF Lone, For
  <2> QED
    BY <2>2, <1>9 DEF Kept, Sound
<1>6. CASE y = r.id /\ y \notin doubt' /\ y \notin doubt
  <2>1. Sound(y) /\ For(p, y)
    BY <1>2, <1>6 DEF Kept, For
  <2>2. Follows(r) /\ \A q \in Slots : For(q, y) => q = p
    BY <2>1 DEF Sound
  <2>3. \A q \in Slots : For(q, y)' => q = p
    BY <2>2, <1>3 DEF For
  <2>4. r2 # NoReq => For(p, y)' /\ Follows(r2)'
    BY <2>2, <1>1, <1>3, <1>6 DEF For
  <2>5. r2 = NoReq => ~For(p, y)' /\ (y \in Listed' => Agreed(y)')
    BY <2>2, <1>1, <1>3, <1>6 DEF For
  <2> QED
    BY <2>3, <2>4, <2>5, <1>3 DEF Kept, Sound
<1> QED
  BY <1>4, <1>5, <1>6, <1>9

LEMMA ReqsStayFit ==
  ASSUME PageInv, NEW p \in Slots, NEW r2, r2 # NoReq => WellFormed(r2)',
         req' = [req EXCEPT ![p] = r2],
         \A x \in Rows : Inserted(x) => Inserted(x)'
  PROVE  ReqsFit' /\ req' \in [Slots -> Reqs \cup {NoReq}]
<1>1. ASSUME NEW r, WellFormed(r)
      PROVE  WellFormed(r)'
  BY <1>1, WellFormedRow DEF WellFormed
<1>2. r2 \in Reqs \cup {NoReq}
  BY DEF WellFormed
<1> QED
  BY <1>1, <1>2 DEF PageInv, PageTypeOK, ReqsFit

(* The same while the tables rest: an answer comes, or is lost.            *)
LEMMA AnswerMoves ==
  ASSUME PageInv, NEW p \in Slots, NEW r, r = req[p], r # NoReq,
         NEW r2, r2 # NoReq => r2.id = r.id /\ WellFormed(r2),
         req' = [req EXCEPT ![p] = r2],
         UNCHANGED <<loading, alone, listVars>>,
         doubt' \subseteq Rows,
         r.id \in doubt \ doubt' =>
           r2 = NoReq /\ r.id \in alone /\ (r.id \in Listed' => Agreed(r.id)'),
         r2 # NoReq /\ Carries(r) => Carries(r2)',
         want' \in [Rows -> AnyRow],
         DOMAIN page' \subseteq DOMAIN page \cup {r.id},
         r.id \in DOMAIN page' => page'[r.id] \in Row(r.id) /\ Inserted(r.id),
         \A y \in Rows : y # r.id =>
           /\ want'[y] = want[y]
           /\ y \in doubt => y \in doubt'
           /\ y \in DOMAIN page => y \in DOMAIN page' /\ page'[y] = page[y],
         ~loading /\ r.id \notin doubt' /\ Follows(r) =>
           IF r2 = NoReq THEN r.id \in Listed' => Agreed(r.id)' ELSE Follows(r2)'
  PROVE  PageInv'
<1>1. /\ \A y : Stored(y)' = Stored(y) /\ Inserted(y)' = Inserted(y)
      /\ Listed' = Listed /\ ListTypeOK'
  BY SameTables DEF PageInv, PageTypeOK
<1>2. r \in Reqs /\ r.id \in Rows
  BY WellFormedRow DEF PageInv, ReqsFit, WellFormed
<1>3. ReqsFit' /\ req' \in [Slots -> Reqs \cup {NoReq}]
  <2>1. r2 # NoReq => WellFormed(r2)'
    BY <1>1 DEF WellFormed
  <2> QED
    BY <2>1, <1>1, ReqsStayFit
<1>4. PageTypeOK'
  <2>1. ASSUME NEW y \in DOMAIN page'
        PROVE  y \in Rows /\ page'[y] \in IF y \in SectionIds THEN SectionRows ELSE ItemRows
    <3>1. CASE y = r.id
      BY <3>1, <1>2 DEF Row
    <3>2. CASE y # r.id
      BY <3>2 DEF PageInv, PageTypeOK
    <3> QED
      BY <3>1, <3>2
  <2>2. loading' \in BOOLEAN /\ alone' \subseteq Rows
    BY DEF PageInv, PageTypeOK
  <2> QED
    BY <2>1, <2>2, <1>1, <1>3 DEF PageTypeOK
<1>5. TablesFit'
  <2>1. /\ \A i \in ItemIds : itemSec'[i] # NoSection => secOwner'[itemSec'[i]] # NoUser
        /\ \A i \in ItemIds : itemRow'[i].second = NoTranslation
    BY DEF PageInv, TablesFit, listVars, secVars, itemVars
  <2>2. \A x \in DOMAIN page' : Inserted(x)'
    BY <1>1 DEF PageInv, TablesFit
  <2> QED
    BY <2>1, <2>2 DEF TablesFit
<1>6. \A y \in Rows : y # r.id => SameRow(y)
  BY <1>1 DEF SameRow
<1>7. LoneFits' /\ (~loading' => \A y \in Rows : Kept(y)')
  BY <1>6, RequestMoves
<1> QED
  BY <1>3, <1>4, <1>5, <1>7 DEF PageInv

----------------------------------------------------------------------------
(* The steps of a request                                                  *)

(* What an answer is made from: the fields a request names, of a row.      *)
LEMMA SetsRow ==
  ASSUME NEW r, WellFormed(r), r.op \in {"rename", "edit", "tick", "name"},
         NEW row \in Row(r.id), r.row = row
  PROVE  Sets(r, row) = row
<1>1. /\ r.op = "rename" => row \in SectionRows
      /\ r.op \in {"edit", "tick", "name"} => row \in ItemRows
  BY PageAssumption DEF WellFormed, Row, Background
<1>2. CASE r.op = "rename"
  BY <1>1, <1>2 DEF Sets, SectionRows
<1>3. CASE r.op = "edit"
  BY <1>1, <1>3 DEF Sets, ItemRows
<1>4. CASE r.op = "tick"
  BY <1>1, <1>4 DEF Sets, ItemRows
<1>5. CASE r.op = "name"
  BY <1>1, <1>5 DEF Sets, ItemRows
<1> QED
  BY <1>2, <1>3, <1>4, <1>5

LEMMA ServedStep ==
  ASSUME PageInv, NEW p \in Slots, Served(p)
  PROVE  PageInv'
<1>1. PICK r : r = req[p]
  OBVIOUS
<1>2. PICK r2 : r2 = [r EXCEPT !.at = "ok",
                               !.row = IF r.op = "translate" THEN @ ELSE Returned(r.id)]
  OBVIOUS
<1>3. /\ r # NoReq /\ r.at = "sent" /\ Statement(r)
      /\ req' = [req EXCEPT ![p] = r2]
      /\ UNCHANGED <<loading, page, want, alone, doubt>>
  BY <1>1, <1>2 DEF Served
<1>4. WellFormed(r) /\ r \in Reqs
  BY <1>1, <1>3 DEF PageInv, ReqsFit, WellFormed
<1>5. ListTypeOK /\ TablesFit /\ ListTypeOK'
  BY <1>3, <1>4, StatementTypes DEF PageInv, PageTypeOK
<1>6. /\ r2.op = r.op /\ r2.id = r.id /\ r2.sec = r.sec /\ r2.heard = r.heard /\ r2.at = "ok"
      /\ r2.row = IF r.op = "translate" THEN r.row ELSE Stored(r.id)'
  BY <1>2, <1>4 DEF Reqs, Returned, Stored
<1>7. Stored(r.id)' \in Row(r.id) /\ Row(r.id) \subseteq AnyRow
  BY <1>5, WellFormedRow, <1>4 DEF ListTypeOK, Stored, Row, AnyRow
<1>8. /\ r.op = "create" => Inserted(r.id)' /\ Stored(r.id)' = r.row
      /\ r.op = "delete" => r.id \notin Listed'
      /\ r.op = "translate" => Stored(r.id)' = Stored(r.id)
      /\ r.op \in {"rename", "edit", "tick", "name"} => Stored(r.id)' = Sets(r, Stored(r.id))
      /\ r.op # "create" => (r.id \in Listed' => r.id \in Listed)
  BY <1>3, <1>4, <1>5, OwnRow DEF Pending
<1>9. WellFormed(r2)'
  <2>1. r2 \in Reqs
    BY <1>2, <1>4, <1>7 DEF Reqs, Returned, Stored
  <2>2. r2.row \in Row(r2.id)
    BY <1>4, <1>6, <1>7 DEF WellFormed
  <2>3. r.op = "create" => r2.row = r.row /\ Inserted(r.id)'
    BY <1>6, <1>8
  <2> QED
    BY <2>1, <2>2, <2>3, <1>4, <1>6 DEF WellFormed
<1>10. ReqsFit' /\ req' \in [Slots -> Reqs \cup {NoReq}]
  BY <1>3, <1>4, <1>5, <1>9, ReqsStayFit, TablesStayFit
<1>11. PageTypeOK'
  BY <1>3, <1>5, <1>10 DEF PageInv, PageTypeOK
<1>12. TablesFit'
  <2>1. /\ \A i \in ItemIds : itemSec'[i] # NoSection => secOwner'[itemSec'[i]] # NoUser
        /\ \A i \in ItemIds : itemRow'[i].second = NoTranslation
    BY <1>3, <1>4, <1>5, TablesStayFit
  <2>2. \A x \in DOMAIN page' : Inserted(x)'
    BY <1>3, <1>4, <1>5, TablesStayFit DEF PageInv, PageTypeOK, TablesFit
  <2> QED
    BY <2>1, <2>2 DEF TablesFit
<1>13. \A y \in Rows : y # r.id => SameRow(y)
  BY <1>3, <1>4, <1>5, OtherRows DEF SameRow
<1>14. ASSUME Follows(r)
       PROVE  Follows(r2)'
  <2> DEFINE x == r.id
  <2>1. r2.heard /\ r2.id = x /\ ~Pending(r2) /\ r2.op = r.op
    BY <1>6, <1>14 DEF Follows, Pending
  <2>2. CASE r.op = "create"
    <3>1. want[x] = r.row
      BY <1>3, <1>14, <2>2 DEF Follows, Pending
    <3> QED
      BY <3>1, <2>1, <2>2, <1>3, <1>6, <1>8 DEF Follows, Background
  <2>3. CASE r.op \in {"rename", "edit", "tick"}
    <3>1. x \in Listed' => /\ x \in DOMAIN page' /\ want'[x] = r2.row
                           /\ r2.row = Stored(x)'
      BY <1>3, <1>6, <1>8, <1>14, <2>3 DEF Follows, Pending
    <3> QED
      BY <3>1, <2>1, <2>3 DEF Follows, Background
  <2>4. CASE r.op = "delete"
    BY <2>1, <2>4, <1>8 DEF Follows, Background
  <2>5. CASE r.op \in Background
    <3>1. r.id \in Listed => Agreed(x) /\ r.row = Stored(x)
      BY <1>14, <2>5 DEF Follows
    <3>2. r.id \in Listed => Stored(x)' = Stored(x)
      <4>1. CASE r.op = "name" /\ r.id \in Listed
        <5>1. Stored(x) \in Row(x)
          BY <1>4, <1>5, StoredFits, WellFormedRow
        <5> QED
          BY <5>1, <4>1, <3>1, <1>4, <1>8, SetsRow
      <4> QED
        BY <4>1, <1>8, <2>5 DEF Background
    <3>3. x \in Listed' => Agreed(x)' /\ r2.row = Stored(x)'
      BY <3>1, <3>2, <1>3, <1>6, <1>8, <2>5 DEF Agreed, Shown, Background
    <3> QED
      BY <3>3, <2>1, <2>5 DEF Follows, Background
  <2>6. r.op \in UserOps \cup Background
    BY <1>4, WellFormedRow
  <2> QED
    BY <2>2, <2>3, <2>4, <2>5, <2>6 DEF UserOps
<1>15. r2 # NoReq
  BY <1>9, NoReqAssumption DEF WellFormed
<1>17. Carries(r) => Carries(r2)'
  BY <1>3, <1>6 DEF Carries, Changes
<1>16. LoneFits' /\ (~loading' => \A y \in Rows : Kept(y)')
  <2>1. ~loading /\ r.id \notin doubt' /\ Follows(r) =>
          IF r2 = NoReq THEN r.id \in Listed' => Agreed(r.id)' ELSE Follows(r2)'
    BY <1>14, <1>15
  <2>2. r.id \notin doubt \ doubt'
    BY <1>3
  <2> QED
    BY <2>1, <2>2, <1>1, <1>3, <1>6, <1>13, <1>17, RequestMoves
<1> QED
  BY <1>10, <1>11, <1>12, <1>16 DEF PageInv

LEMMA RefusedStep ==
  ASSUME PageInv, NEW p \in Slots, Refused(p) \/ AnswerLost(p)
  PROVE  PageInv'
<1>1. PICK r : r = req[p]
  OBVIOUS
<1>2. PICK at \in {"refused", "lost"} :
        /\ r # NoReq /\ r.at = IF at = "lost" THEN "ok" ELSE "sent"
        /\ req' = [req EXCEPT ![p].at = at]
        /\ UNCHANGED <<loading, page, want, alone, doubt, listVars>>
  BY <1>1 DEF Refused, AnswerLost
<1>3. PICK r2 : r2 = [r EXCEPT !.at = at]
  OBVIOUS
<1>4. req' = [req EXCEPT ![p] = r2]
  BY <1>1, <1>2, <1>3
<1>5. WellFormed(r) /\ r \in Reqs
  BY <1>1, <1>2 DEF PageInv, ReqsFit, WellFormed
<1>6. /\ r2.op = r.op /\ r2.id = r.id /\ r2.sec = r.sec /\ r2.heard = r.heard
      /\ r2.row = r.row /\ r2.at = at /\ r2 \in Reqs
  BY <1>3, <1>5 DEF Reqs
<1>7. WellFormed(r2)
  BY <1>2, <1>5, <1>6 DEF WellFormed
<1>8. Pending(r2) <=> Pending(r)
  BY <1>2, <1>6 DEF Pending
<1>9. Follows(r) => Follows(r2)'
  <2>1. \A y : Stored(y)' = Stored(y) /\ Inserted(y)' = Inserted(y)
    BY <1>2, SameTables
  <2>2. Listed' = Listed
    BY <1>2, SameTables
  <2>3. Sets(r2, Stored(r.id)) = Sets(r, Stored(r.id))
    BY <1>6 DEF Sets
  <2> QED
    BY <1>2, <1>6, <1>8, <2>1, <2>2, <2>3 DEF Follows, Agreed, Pending, Shown
<1>10. r2 # NoReq
  BY <1>6, NoReqAssumption
<1>11. /\ doubt' \subseteq Rows /\ want' \in [Rows -> AnyRow]
       /\ r.id \in DOMAIN page' => page'[r.id] \in Row(r.id) /\ Inserted(r.id)
  BY <1>2 DEF PageInv, PageTypeOK, TablesFit, Row
<1>12. Carries(r) => Carries(r2)'
  BY <1>2, <1>6 DEF Carries
<1>13. r.id \notin doubt \ doubt'
  BY <1>2
<1>14. UNCHANGED <<loading, page, want, alone, doubt, listVars>>
  BY <1>2
<1>15. r # NoReq /\ r2.id = r.id
  BY <1>2, <1>6
<1>16. IF r2 = NoReq THEN r.id \in Listed' => Agreed(r.id)' ELSE Follows(r) => Follows(r2)'
  BY <1>9, <1>10
<1> QED
  BY <1>1, <1>4, <1>7, <1>11, <1>12, <1>13, <1>14, <1>15, <1>16, <1>10, AnswerMoves

LEMMA CreatedStep ==
  ASSUME PageInv, NEW p \in Slots, Answered(p), Created(p)
  PROVE  PageInv'
<1>1. PICK r : r = req[p]
  OBVIOUS
<1>2. PICK r2 : r2 = IF req' = [req EXCEPT ![p] = NoReq] THEN NoReq
                     ELSE [r EXCEPT !.op = "translate", !.at = "sent"]
  OBVIOUS
<1>3. /\ r # NoReq /\ r.at = "ok" /\ r.op = "create"
      /\ r2 # NoReq => r.id \in ItemIds
      /\ req' = [req EXCEPT ![p] = r2]
      /\ page' = [y \in DOMAIN page \cup {r.id} |-> IF y = r.id THEN r.row ELSE page[y]]
      /\ UNCHANGED <<loading, want, alone, doubt, listVars>>
  BY <1>1, <1>2 DEF Answered, Created, GoesOn, Free
<1>4. WellFormed(r) /\ r \in Reqs
  BY <1>1, <1>3 DEF PageInv, ReqsFit, WellFormed
<1>5. r2 # NoReq =>
        /\ r2.op = "translate" /\ r2.id = r.id /\ r2.heard = r.heard /\ r2.row = r.row
        /\ r2 \in Reqs
  BY <1>2, <1>4 DEF Reqs, Background
<1>6. r2 # NoReq => r2.id = r.id /\ WellFormed(r2)
  BY <1>3, <1>4, <1>5 DEF WellFormed
<1>7. r.id \in DOMAIN page' => page'[r.id] \in Row(r.id) /\ Inserted(r.id)
  BY <1>3, <1>4 DEF WellFormed
<1>8. ASSUME Follows(r)
      PROVE  IF r2 = NoReq THEN r.id \in Listed' => Agreed(r.id)' ELSE Follows(r2)'
  <2>1. Listed' = Listed /\ Stored(r.id)' = Stored(r.id)
    BY <1>3, SameTables
  <2>2. r.id \in Listed => r.row = Stored(r.id) /\ want[r.id] = Stored(r.id)
    BY <1>3, <1>8 DEF Follows, Pending
  <2>3. r.id \in ItemIds => [Stored(r.id) EXCEPT !.second = NoTranslation] = Stored(r.id)
    BY <1>4, WellFormedRow, StoredIsPlain DEF PageInv, PageTypeOK
  <2>4. r.id \in DOMAIN page' /\ page'[r.id] = r.row
    BY <1>3
  <2>5. r.id \in Listed' => Agreed(r.id)' /\ r.row = Stored(r.id)'
    BY <1>3, <2>1, <2>2, <2>3, <2>4 DEF Agreed, Shown
  <2> QED
    BY <1>5, <1>8, <2>5 DEF Follows, Background
<1>9. doubt' \subseteq Rows /\ want' \in [Rows -> AnyRow] /\ r.id \notin doubt \ doubt'
  BY <1>3 DEF PageInv, PageTypeOK
<1>10. r2 # NoReq => Carries(r2)'
  BY <1>5 DEF Carries, Changes
<1> QED
  BY <1>1, <1>3, <1>6, <1>7, <1>8, <1>9, <1>10, AnswerMoves

(* The answer to a change is the row as it is stored: of one that met no   *)
(* other request, whatever the page showed before.                         *)
LEMMA UpdatedStep ==
  ASSUME PageInv, NEW p \in Slots, Answered(p), Updated(p)
  PROVE  PageInv'
<1>1. PICK r : r = req[p]
  OBVIOUS
<1>2. PICK r2 : r2 = NoReq
  OBVIOUS
<1>3. /\ r # NoReq /\ r.at = "ok" /\ r.op \in Changes
      /\ req' = [req EXCEPT ![p] = r2]
      /\ page' = [y \in DOMAIN page |-> IF y = r.id THEN r.row ELSE page[y]]
      /\ want' = IF r.id \in alone THEN [want EXCEPT ![r.id] = r.row] ELSE want
      /\ doubt' = IF r.id \in alone THEN doubt \ {r.id} ELSE doubt
      /\ UNCHANGED <<loading, alone, listVars>>
  BY <1>1, <1>2 DEF Answered, Updated, Settles, Free, Show, Changes
<1>4. WellFormed(r) /\ r \in Reqs /\ r.id \in Rows /\ r.row \in AnyRow
  BY <1>1, <1>3, WellFormedRow DEF PageInv, ReqsFit, WellFormed, AnyRow
<1>5. r.id \in DOMAIN page' => page'[r.id] \in Row(r.id) /\ Inserted(r.id)
  BY <1>3, <1>4 DEF WellFormed, PageInv, TablesFit
<1>6. /\ doubt' \subseteq Rows /\ want' \in [Rows -> AnyRow]
      /\ \A y \in Rows : y # r.id => want'[y] = want[y] /\ (y \in doubt => y \in doubt')
  BY <1>3, <1>4 DEF PageInv, PageTypeOK
<1>7. ASSUME r.id \in DOMAIN page, r.id \in Listed' => r.row = Stored(r.id), want'[r.id] = r.row
      PROVE  r.id \in Listed' => Agreed(r.id)'
  <2>1. Stored(r.id)' = Stored(r.id)
    BY <1>3, SameTables
  <2>2. r.id \in ItemIds => [Stored(r.id) EXCEPT !.second = NoTranslation] = Stored(r.id)
    BY <1>4, StoredIsPlain DEF PageInv, PageTypeOK
  <2>3. r.id \in DOMAIN page' /\ page'[r.id] = r.row
    BY <1>3, <1>7
  <2> QED
    BY <1>7, <2>1, <2>2, <2>3 DEF Agreed, Shown
<1>8. Listed' = Listed
  BY <1>3, SameTables
<1>9. ASSUME r.id \in alone
      PROVE  r.id \in Listed' => Agreed(r.id)'
  <2>1. Carries(r)
    BY <1>1, <1>3, <1>9 DEF PageInv, LoneFits, Lone
  <2>2. r.id \in DOMAIN page /\ (r.id \in Listed' => r.row = Stored(r.id))
    BY <2>1, <1>3, <1>8 DEF Carries
  <2>3. want'[r.id] = r.row
    BY <1>3, <1>4, <1>9 DEF PageInv, PageTypeOK
  <2> QED
    BY <2>2, <2>3, <1>7
<1>10. ASSUME r.id \notin alone, Follows(r)
       PROVE  r.id \in Listed' => Agreed(r.id)'
  <2>1. r.id \in Listed' => /\ r.id \in DOMAIN page /\ r.row = Stored(r.id)
                            /\ want[r.id] = r.row
    BY <1>3, <1>8, <1>10 DEF Follows, Pending, Changes
  <2> QED
    BY <2>1, <1>3, <1>7, <1>10
<1>11. r.id \in doubt \ doubt' => r.id \in alone
  BY <1>3
<1> QED
  BY <1>1, <1>2, <1>3, <1>5, <1>6, <1>9, <1>10, <1>11, AnswerMoves

(* A translation is shown with the row as it was created.                  *)
LEMMA TranslatedStep ==
  ASSUME PageInv, NEW p \in Slots, Answered(p), Translated(p)
  PROVE  PageInv'
<1>1. PICK r : r = req[p]
  OBVIOUS
<1>2. PICK r2 : r2 = [r EXCEPT !.op = "name", !.at = "sent"]
  OBVIOUS
<1>a. PICK t \in Translations : Show(r.id, [r.row EXCEPT !.second = t])
  BY <1>1 DEF Translated
<1>b. PICK row : row = [r.row EXCEPT !.second = t]
  OBVIOUS
<1>3. /\ r # NoReq /\ r.at = "ok" /\ r.op = "translate"
      /\ req' = [req EXCEPT ![p] = r2]
      /\ page' = [y \in DOMAIN page |-> IF y = r.id THEN row ELSE page[y]]
      /\ UNCHANGED <<loading, want, alone, doubt, listVars>>
  BY <1>1, <1>2, <1>a, <1>b DEF Answered, Translated, GoesOn, Show
<1>4. WellFormed(r) /\ r \in Reqs /\ r.id \in ItemIds /\ r.row \in ItemRows
  <2>1. WellFormed(r)
    BY <1>1, <1>3 DEF PageInv, ReqsFit
  <2> QED
    BY <2>1, <1>3, WellFormedRow, PageAssumption DEF WellFormed, Background
<1>5. r2.op = "name" /\ r2.id = r.id /\ r2.heard = r.heard /\ r2.row = r.row /\ r2 \in Reqs
  BY <1>2, <1>4 DEF Reqs, Background
<1>6. WellFormed(r2) /\ r2 # NoReq
  BY <1>4, <1>5, NoReqAssumption DEF WellFormed, Background
<1>7. r.id \in DOMAIN page' => page'[r.id] \in Row(r.id) /\ Inserted(r.id)
  <2>1. row \in ItemRows
    BY ONLY <1>b, <1>4 DEF ItemRows
  <2> QED
    BY <2>1, <1>3, <1>4, PageAssumption DEF Row, PageInv, TablesFit
<1>8. ASSUME Follows(r)
      PROVE  Follows(r2)'
  <2>1. Listed' = Listed /\ Stored(r.id)' = Stored(r.id)
    BY <1>3, SameTables
  <2>2. r.id \in Listed => Agreed(r.id) /\ r.row = Stored(r.id)
    BY <1>3, <1>8 DEF Follows, Background
  <2>3. Stored(r.id).second = NoTranslation
    BY <1>4, StoredIsPlain DEF PageInv, PageTypeOK, Rows
  <2>4. ASSUME r.id \in Listed
        PROVE  [row EXCEPT !.second = NoTranslation] = Stored(r.id)
    <3>1. r.row.second = NoTranslation
      BY <2>2, <2>3, <2>4
    <3>2. [row EXCEPT !.second = NoTranslation] = r.row
      BY ONLY <3>1, <1>b, <1>4 DEF ItemRows
    <3> QED
      BY <3>2, <2>2, <2>4
  <2>5. r.id \in Listed' => Agreed(r.id)' /\ r2.row = Stored(r.id)'
    BY <1>3, <1>4, <1>5, <2>1, <2>2, <2>4 DEF Agreed, Shown
  <2> QED
    BY <1>5, <1>8, <2>5 DEF Follows, Background
<1>9. /\ doubt' \subseteq Rows /\ want' \in [Rows -> AnyRow] /\ r.id \notin doubt \ doubt'
      /\ Carries(r2)'
  BY <1>3, <1>5 DEF PageInv, PageTypeOK, Carries, Changes
<1> QED
  BY <1>1, <1>3, <1>5, <1>6, <1>7, <1>8, <1>9, AnswerMoves

(* The end of a request that shows nothing: a deletion, the name of a      *)
(* translation, a failure.                                                 *)
LEMMA EndStep ==
  ASSUME PageInv, NEW p \in Slots,
         \/ Answered(p) /\ (Deleted(p) \/ Ignored(p))
         \/ Failed(p)
  PROVE  PageInv'
<1>1. PICK r : r = req[p]
  OBVIOUS
<1>2. /\ r # NoReq /\ req' = [req EXCEPT ![p] = NoReq]
      /\ UNCHANGED <<loading, page, alone, listVars>>
  BY <1>1 DEF Answered, Deleted, Ignored, Failed, Free
<1>3. WellFormed(r) /\ r \in Reqs /\ r.id \in Rows /\ r.op \in UserOps \cup Background
  BY <1>1, <1>2, WellFormedRow DEF PageInv, ReqsFit, WellFormed
<1>4. /\ doubt \subseteq doubt' /\ doubt' \subseteq Rows
      /\ want' \in [Rows -> AnyRow]
      /\ \A y \in Rows : y # r.id => want'[y] = want[y]
  <2>1. CASE Failed(p)
    <3>1. r.id \in DOMAIN page => Shown(r.id) \in AnyRow
      BY ShownFits DEF PageInv, Row, AnyRow
    <3> QED
      BY <2>1, <3>1, <1>1, <1>3 DEF Failed, PageInv, PageTypeOK
  <2>2. CASE UNCHANGED <<want, doubt>>
    BY <2>2 DEF PageInv, PageTypeOK
  <2> QED
    BY <2>1, <2>2 DEF Deleted, Ignored
<1>5. ASSUME r.id \notin doubt', Follows(r), r.id \in Listed'
      PROVE  Agreed(r.id)'
  <2>1. /\ r.id \in Listed /\ Stored(r.id)' = Stored(r.id) /\ Inserted(r.id)' = Inserted(r.id)
    BY <1>2, <1>5, SameTables
  <2>2. Inserted(r.id)
    BY <2>1, ListedIsInserted DEF PageInv, PageTypeOK
  <2>3. CASE Answered(p) /\ (Deleted(p) \/ Ignored(p))
    BY <2>1, <2>3, <1>1, <1>2, <1>5
    DEF Answered, Deleted, Ignored, Follows, Pending, Agreed, Shown, Background
  <2>4. CASE Failed(p) /\ r.op \in Background
    BY <2>1, <2>4, <1>1, <1>2, <1>5 DEF Failed, Follows, Agreed, Shown, Background, UserOps
  <2>5. CASE Failed(p) /\ r.op \in UserOps
    <3>1. r.at = "refused"
      BY <2>5, <1>1, <1>5 DEF Failed
    <3>2. r.id \in DOMAIN page /\ Shown(r.id) = Stored(r.id)
      BY <2>1, <2>2, <2>5, <3>1, <1>5 DEF Follows, Pending, Agreed, UserOps
    <3>3. want' = [want EXCEPT ![r.id] = Shown(r.id)]
      BY <2>5, <3>2, <1>1 DEF Failed
    <3>4. want'[r.id] = Stored(r.id)'
      BY <3>2, <3>3, <2>1, <1>3 DEF PageInv, PageTypeOK
    <3> QED
      BY <3>2, <3>4, <2>1, <1>2 DEF Agreed, Shown
  <2> QED
    BY <2>3, <2>4, <2>5, <1>3
<1>6. r.id \in DOMAIN page' => page'[r.id] \in Row(r.id) /\ Inserted(r.id)
  BY <1>2 DEF PageInv, PageTypeOK, TablesFit, Row
<1>7. PICK r2 : r2 = NoReq
  OBVIOUS
<1> QED
  BY <1>1, <1>2, <1>4, <1>5, <1>6, <1>7, AnswerMoves

(* An answer nobody hears shows nothing, and may be followed by the next   *)
(* request of a new item.                                                  *)
LEMMA UnheardStep ==
  ASSUME PageInv, NEW p \in Slots, Unheard(p)
  PROVE  PageInv'
<1>1. PICK r : r = req[p]
  OBVIOUS
<1>2. PICK r2 : r2 = IF req' = [req EXCEPT ![p] = NoReq] THEN NoReq
                     ELSE [r EXCEPT !.op = IF @ = "create" THEN "translate" ELSE "name",
                                    !.at = "sent"]
  OBVIOUS
<1>3. /\ r # NoReq /\ ~r.heard
      /\ r2 # NoReq => (r.op = "create" /\ r.id \in ItemIds) \/ r.op = "translate"
      /\ req' = [req EXCEPT ![p] = r2]
      /\ UNCHANGED <<loading, page, want, alone, doubt, listVars>>
  BY <1>1, <1>2 DEF Unheard, GoesOn, Free
<1>4. WellFormed(r) /\ r \in Reqs
  BY <1>1, <1>3 DEF PageInv, ReqsFit, WellFormed
<1>5. r2 # NoReq => /\ r2.op \in Background /\ r2.op # "create" /\ r2.id = r.id
                    /\ r2.row = r.row /\ r2 \in Reqs /\ r.id \in ItemIds
  BY <1>2, <1>3, <1>4 DEF Reqs, Background, WellFormed
<1>6. r2 # NoReq => r2.id = r.id /\ WellFormed(r2) /\ Carries(r2)'
  BY <1>4, <1>5 DEF WellFormed, Carries, Changes, Background
<1>7. /\ doubt' \subseteq Rows /\ want' \in [Rows -> AnyRow] /\ r.id \notin doubt \ doubt'
      /\ r.id \in DOMAIN page' => page'[r.id] \in Row(r.id) /\ Inserted(r.id)
  BY <1>3 DEF PageInv, PageTypeOK, TablesFit, Row
<1>8. ~Follows(r)
  BY <1>3 DEF Follows
<1> QED
  BY <1>1, <1>3, <1>6, <1>7, <1>8, AnswerMoves

----------------------------------------------------------------------------
(* The page is opened                                                      *)

LEMMA OpenStep ==
  ASSUME PageInv, Loaded \/ LoadFails \/ Reload
  PROVE  PageInv'
<1>1. /\ \A y : Stored(y)' = Stored(y) /\ Inserted(y)' = Inserted(y)
      /\ Listed' = Listed /\ ListTypeOK' /\ ListTypeOK
  BY SameTables DEF Loaded, LoadFails, Reload, PageInv, PageTypeOK
<1>2. \A x \in Rows : Stored(x) \in Row(x) /\ Stored(x) \in AnyRow
  BY <1>1, StoredFits
<1>3. \A x \in Listed : x \in Rows /\ Inserted(x)
  BY <1>1, ListedIsInserted
<1>4. /\ \A i \in ItemIds : itemSec'[i] # NoSection => secOwner'[itemSec'[i]] # NoUser
      /\ \A i \in ItemIds : itemRow'[i].second = NoTranslation
  BY DEF Loaded, LoadFails, Reload, PageInv, TablesFit, listVars, secVars, itemVars
<1>8. LoneFits'
  <2>1. alone' = {}
    BY DEF Loaded, LoadFails, Reload, PageInv, LoneFits
  <2> QED
    BY <2>1 DEF LoneFits
<1>5. CASE Loaded
  <2>1. PageTypeOK'
    BY <1>1, <1>2, <1>3, <1>5 DEF Loaded, PageInv, PageTypeOK, Row
  <2>2. TablesFit'
    BY <1>1, <1>3, <1>4, <1>5 DEF Loaded, TablesFit
  <2>3. ReqsFit'
    BY <1>1, <1>5, WellFormedRow DEF Loaded, PageInv, ReqsFit, WellFormed
  <2>4. ASSUME NEW y \in Rows
        PROVE  Kept(y)'
    <3>1. CASE Busy(y)
      BY <3>1, <1>5 DEF Loaded, Kept
    <3>2. CASE ~Busy(y)
      <4>1. \A p \in Slots : ~For(p, y)'
        BY <3>2, <1>5 DEF Loaded, For, Busy, UnderWay
      <4>2. y \in ItemIds => [Stored(y) EXCEPT !.second = NoTranslation] = Stored(y)
        BY StoredIsPlain DEF PageInv, PageTypeOK
      <4>3. y \in Listed' => y \in DOMAIN page' /\ page'[y] = Stored(y)
        BY <1>1, <1>5 DEF Loaded
      <4>4. want'[y] = Stored(y)
        BY <3>2, <1>5 DEF Loaded
      <4>5. y \in Listed' => Agreed(y)'
        BY <4>2, <4>3, <4>4, <1>1 DEF Agreed, Shown
      <4> QED
        BY <4>1, <4>5 DEF Kept, Sound
    <3> QED
      BY <3>1, <3>2
  <2> QED
    BY <2>1, <2>2, <2>3, <2>4, <1>8 DEF PageInv
<1>6. CASE LoadFails
  <2>1. PageTypeOK' /\ TablesFit'
    BY <1>1, <1>4, <1>6 DEF LoadFails, PageInv, PageTypeOK, TablesFit
  <2>2. ReqsFit'
    BY <1>1, <1>6, WellFormedRow DEF LoadFails, PageInv, ReqsFit, WellFormed
  <2>3. \A y \in Rows : Kept(y)'
    BY <1>6 DEF LoadFails, Kept
  <2> QED
    BY <2>1, <2>2, <2>3, <1>8 DEF PageInv
<1>7. CASE Reload
  <2>1. ASSUME NEW p \in Slots, req[p] # NoReq
        PROVE  req'[p] # NoReq /\ WellFormed(req'[p]) /\ req'[p] \in Reqs
    <3>1. PICK r : r = req[p]
      OBVIOUS
    <3>2. PICK r2 : r2 = [r EXCEPT !.heard = FALSE]
      OBVIOUS
    <3>3. WellFormed(r) /\ r \in Reqs
      BY <2>1, <3>1 DEF PageInv, ReqsFit, WellFormed
    <3>4. /\ r2 \in Reqs /\ r2.op = r.op /\ r2.id = r.id /\ r2.sec = r.sec /\ r2.row = r.row
          /\ r2.at = r.at
      BY <3>2, <3>3 DEF Reqs
    <3>5. WellFormed(r2)
      BY <3>3, <3>4 DEF WellFormed
    <3>6. req'[p] = r2
      BY <2>1, <3>1, <3>2, <1>7 DEF Reload
    <3> QED
      BY <3>4, <3>5, <3>6, NoReqAssumption
  <2>2. \A p \in Slots : req[p] = NoReq => req'[p] = NoReq
    BY <1>7 DEF Reload
  <2>3. req' \in [Slots -> Reqs \cup {NoReq}]
    BY <2>1, <2>2, <1>7 DEF Reload
  <2>4. PageTypeOK' /\ TablesFit'
    BY <2>3, <1>1, <1>4, <1>7 DEF Reload, PageInv, PageTypeOK, TablesFit
  <2>5. ReqsFit'
    <3>1. ASSUME NEW r, WellFormed(r)
          PROVE  WellFormed(r)'
      BY <3>1, <1>1, WellFormedRow DEF WellFormed
    <3> QED
      BY <3>1, <2>1, <2>2 DEF ReqsFit
  <2>6. loading'
    BY <1>7 DEF Reload
  <2> QED
    BY <2>4, <2>5, <2>6, <1>8 DEF PageInv
<1> QED
  BY <1>5, <1>6, <1>7

LEMMA PageStep ==
  ASSUME IsFiniteSet(SectionIds), PageInv, [PageNext]_pageVars
  PROVE  PageInv'
<1>1. CASE Loaded \/ LoadFails \/ Reload
  BY <1>1, OpenStep
<1>2. ASSUME NEW p \in Slots, UserActs(p)
      PROVE  PageInv'
  BY <1>2, UserStep
<1>3. ASSUME NEW p \in Slots, Served(p)
      PROVE  PageInv'
  BY <1>3, ServedStep
<1>4. ASSUME NEW p \in Slots, Refused(p) \/ AnswerLost(p)
      PROVE  PageInv'
  BY <1>4, RefusedStep
<1>5. ASSUME NEW p \in Slots, Answered(p)
      PROVE  PageInv'
  BY <1>5, CreatedStep, UpdatedStep, TranslatedStep, EndStep DEF Answered
<1>6. ASSUME NEW p \in Slots, Failed(p) \/ Unheard(p)
      PROVE  PageInv'
  BY <1>6, EndStep, UnheardStep
<1>7. CASE UNCHANGED pageVars
  <2>1. /\ \A y : Stored(y)' = Stored(y) /\ Inserted(y)' = Inserted(y)
        /\ Listed' = Listed /\ (ListTypeOK => ListTypeOK')
    BY <1>7, SameTables DEF pageVars
  <2>2. UNCHANGED <<loading, page, req, want, alone, doubt, listVars>>
    BY <1>7 DEF pageVars, uiVars
  <2>3. PageTypeOK'
    BY <2>1, <2>2 DEF PageInv, PageTypeOK
  <2>4. TablesFit'
    BY <2>1, <2>2 DEF PageInv, TablesFit, listVars, secVars, itemVars
  <2>5. ReqsFit'
    BY <2>1, <2>2, WellFormedRow DEF PageInv, ReqsFit, WellFormed
  <2>6. \A y \in Rows : Same(y)
    BY <2>1, <2>2 DEF Same, SameRow, For
  <2>7. ~loading' => \A y \in Rows : Kept(y)'
    BY <2>2, <2>6, SameIsKept DEF PageInv
  <2>8. LoneFits'
    BY <2>1, <2>2 DEF PageInv, LoneFits, Lone, Carries, For
  <2> QED
    BY <2>3, <2>4, <2>5, <2>7, <2>8 DEF PageInv
<1> QED
  BY <1>1, <1>2, <1>3, <1>4, <1>5, <1>6, <1>7 DEF PageNext

LEMMA PageStart ==
  ASSUME PageInit
  PROVE  PageInv
<1> USE ListIdsAssumption, NoUserAssumption
<1>1. ListTypeOK
  <2>1. (CHOOSE n \in Names : TRUE) \in Names
    BY ListIdsAssumption
  <2> QED
    BY <2>1 DEF PageInit, ListInit, ListTypeOK, SectionRows, ItemRows
<1>2. \A x \in Rows : Stored(x) \in AnyRow
  BY <1>1, StoredFits
<1>3. PageTypeOK
  BY <1>1, <1>2 DEF PageInit, PageTypeOK
<1>4. TablesFit /\ ReqsFit /\ LoneFits /\ loading
  BY DEF PageInit, ListInit, TablesFit, ReqsFit, LoneFits
<1> QED
  BY <1>3, <1>4 DEF PageInv

LEMMA PageInvariant == ASSUME IsFiniteSet(SectionIds) PROVE PageSpec => []PageInv
<1>1. PageInit => PageInv
  BY PageStart
<1>2. PageInv /\ [PageNext]_pageVars => PageInv'
  BY PageStep
<1> QED
  BY <1>1, <1>2, PTL DEF PageSpec

(* Every row of the page, of a request and of the history has the type of  *)
(* the table it stands for (page.tsx, list_repo.go), also after any number *)
(* of overlapping requests and lost answers.                               *)
THEOREM PageTypesHold == ASSUME IsFiniteSet(SectionIds) PROVE PageSpec => []PageTypeOK
<1>1. PageInv => PageTypeOK
  BY DEF PageInv
<1> QED
  BY <1>1, PageInvariant, PTL

(* Whatever requests the page sends, and in whatever order they are served *)
(* and answered: a row that no two requests met and whose answers came, or *)
(* that a change which met no other has put right since, is shown, its     *)
(* translation aside, as it is stored and as the user left it (page.tsx,   *)
(* SectionCard.tsx, ItemRow.tsx).                                          *)
THEOREM QuietPagesAreTrue == ASSUME IsFiniteSet(SectionIds) PROVE PageSpec => []QuietPageIsTrue
<1>1. PageInv => QuietPageIsTrue
  <2>1. SUFFICES ASSUME PageInv, ~loading, NEW x \in Listed \ doubt, ~Busy(x)
                 PROVE  Agreed(x)
    BY DEF QuietPageIsTrue, Agreed
  <2>2. x \in Rows
    BY <2>1, ListedIsInserted DEF PageInv, PageTypeOK
  <2>3. \A p \in Slots : ~For(p, x)
    BY <2>1 DEF Busy, UnderWay, For
  <2> QED
    BY <2>1, <2>2, <2>3 DEF PageInv, Kept, Sound
<1> QED
  BY <1>1, PageInvariant, PTL
=============================================================================
