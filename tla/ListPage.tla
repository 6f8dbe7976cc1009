------------------------------ MODULE ListPage ------------------------------
(***************************************************************************)
(* The list page of the web app against list-service: what the page shows  *)
(* is a copy that the answers to its own requests keep up to date.  The    *)
(* page does not wait for one answer before it sends the next request, and *)
(* answers arrive in any order.                                            *)
(*                                                                         *)
(* One user at one browser, the only writer of the list.  A page that is   *)
(* opened again forgets the requests under way, which the service may      *)
(* still serve.  GET /lists/full is one step here, since while it runs the *)
(* page sends nothing.                                                     *)
(***************************************************************************)
EXTENDS ListRepo, FiniteSets, Faults

CONSTANTS
  Me,       \* the user
  Slots,    \* bound: requests under way at a time
  NoReq

ASSUME PageAssumption ==
  /\ Me \in UserIds
  /\ SectionIds \cap ItemIds = {}

VARIABLES
  loading,   \* loadingList: GET /lists/full is under way
  page,      \* sections and itemsMap: the rows shown, by id
  req,       \* requests under way
  want,      \* history: the row as the user last left it
  alone,     \* history: ids whose latest request has met no other so far
  doubt      \* history: ids that requests met for, or whose answer was lost, and no
             \* change that was alone has put right since

uiVars == <<loading, page, req, want, alone, doubt>>
pageVars == <<listVars, uiVars, faults>>

Rows == SectionIds \cup ItemIds
AnyRow == SectionRows \cup ItemRows
Stored(x) == IF x \in SectionIds THEN secRow[x] ELSE itemRow[x]
Listed == GetSections(Me) \cup {i \in itemLive : itemSec[i] \in GetSections(Me)}

UserOps == {"create", "rename", "edit", "tick", "delete"}
Background == {"translate", "name"}   \* sent by the page itself

Reqs == [op : UserOps \cup Background, id : Rows, sec : SectionIds, row : AnyRow,
         heard : BOOLEAN, at : {"sent", "ok", "refused", "lost"}]

ASSUME NoReqAssumption == NoReq \notin Reqs

PageTypeOK ==
  /\ ListTypeOK
  /\ loading \in BOOLEAN
  /\ DOMAIN page \subseteq Rows
  /\ \A x \in DOMAIN page : page[x] \in IF x \in SectionIds THEN SectionRows ELSE ItemRows
  /\ req \in [Slots -> Reqs \cup {NoReq}]
  /\ want \in [Rows -> AnyRow]
  /\ alone \subseteq Rows
  /\ doubt \subseteq Rows

PageInit ==
  /\ FaultsInit
  /\ ListInit
  /\ loading = TRUE
  /\ page = [x \in {} |-> x]
  /\ req = [p \in Slots |-> NoReq]
  /\ want = [x \in Rows |-> Stored(x)]
  /\ alone = {} /\ doubt = {}

(* The row the page shows, its translation aside: no request ever sends    *)
(* that, and list_db never gets it.                                        *)
Shown(x) == IF x \in ItemIds THEN [page[x] EXCEPT !.second = NoTranslation] ELSE page[x]

UnderWay == {req[p] : p \in Slots} \ {NoReq}
Busy(x) == \E r \in UnderWay : r.id = x

----------------------------------------------------------------------------
(* The page is opened                                                      *)

Loaded ==
  /\ loading
  /\ page' = [x \in Listed |-> Stored(x)]
  /\ loading' = FALSE
  /\ want' = [x \in Rows |-> IF Busy(x) THEN want[x] ELSE Stored(x)]
  /\ doubt' = {x \in Rows : Busy(x)}
  /\ NoFault
  /\ UNCHANGED <<req, alone, listVars>>

(* The rejection is not caught: the page stays empty, and says so.         *)
LoadFails ==
  /\ loading
  /\ Fault("net")
  /\ loading' = FALSE
  /\ doubt' = Rows
  /\ UNCHANGED <<page, req, want, alone, listVars>>

Reload ==
  /\ Fault("reload")
  /\ loading' = TRUE
  /\ page' = [x \in {} |-> x]
  /\ req' = [p \in Slots |-> IF req[p] = NoReq THEN NoReq ELSE [req[p] EXCEPT !.heard = FALSE]]
  /\ alone' = {}
  /\ UNCHANGED <<want, doubt, listVars>>

----------------------------------------------------------------------------
(* A request is sent                                                       *)

Fresh(x) == ~Busy(x) /\ IF x \in SectionIds THEN secOwner[x] = NoUser ELSE itemSec[x] = NoSection

Request(op, x, s, row) ==
  [op |-> op, id |-> x, sec |-> s, row |-> row, heard |-> TRUE, at |-> "sent"]

(* Nobody puts a request in line behind another for the same row. *)
Meets(x) ==
  IF Busy(x) THEN alone' = alone \ {x} /\ doubt' = doubt \cup {x}
             ELSE alone' = alone \cup {x} /\ UNCHANGED doubt

(* The page shows a change at once, whatever becomes of it. *)
SendOptimistic(p, r) ==
  /\ ~loading
  /\ req[p] = NoReq
  /\ req' = [req EXCEPT ![p] = r]
  /\ page' = [x \in DOMAIN page |-> IF x = r.id THEN r.row ELSE page[x]]
  /\ want' = [want EXCEPT ![r.id] = r.row]
  /\ Meets(r.id)
  /\ NoFault
  /\ UNCHANGED <<loading, listVars>>

(* Nothing is shown before the answer. *)
Send(p, r) ==
  /\ ~loading
  /\ req[p] = NoReq
  /\ req' = [req EXCEPT ![p] = r]
  /\ want' = [want EXCEPT ![r.id] = r.row]
  /\ Meets(r.id)
  /\ NoFault
  /\ UNCHANGED <<loading, page, listVars>>

(* The service picks the id of a new row; the request names it already. *)
AddSection(p, s, n) ==
  /\ Fresh(s)
  /\ Send(p, Request("create", s, s,
                     [name |-> n, pos |-> Cardinality(DOMAIN page \cap SectionIds)]))

AddItem(p, s, i, n) ==
  /\ s \in DOMAIN page
  /\ Fresh(i)
  /\ Send(p, Request("create", i, s, [name |-> n, second |-> NoTranslation,
                                      qty |-> 1, checked |-> FALSE]))

SaveSectionName(p, s, n) ==
  /\ s \in DOMAIN page
  /\ n # page[s].name
  /\ Send(p, Request("rename", s, s, [page[s] EXCEPT !.name = n]))

(* The form sends name and quantity. *)
SaveEdit(p, i, n, q) ==
  /\ i \in DOMAIN page
  /\ Send(p, Request("edit", i, itemSec[i], [Shown(i) EXCEPT !.name = n, !.qty = q]))

(* The tick is the opposite of the one shown, also while the answer to an  *)
(* earlier click is missing.                                               *)
Toggle(p, i) ==
  /\ i \in DOMAIN page
  /\ Send(p, Request("tick", i, itemSec[i], [Shown(i) EXCEPT !.checked = ~@]))

HandleDelete(p, x) ==
  /\ x \in DOMAIN page
  /\ Send(p, Request("delete", x, IF x \in SectionIds THEN x ELSE itemSec[x], Shown(x)))

----------------------------------------------------------------------------
(* It is served                                                            *)

Matches(r) ==
  \/ r.op = "create" /\ (r.id = r.sec \/ r.sec \in GetSections(Me))
  \/ r.op = "translate"
  \/ /\ r.op \notin {"create", "translate"}
     /\ r.id \in GetSections(Me) \cup (itemLive \cap ItemsOf(Me))

(* The fields an operation sends. *)
Sets(r, row) ==
  CASE r.op = "rename" -> [row EXCEPT !.name = r.row.name]
    [] r.op = "edit"   -> [row EXCEPT !.name = r.row.name, !.qty = r.row.qty]
    [] r.op = "tick"   -> [row EXCEPT !.checked = r.row.checked]
    [] r.op = "name"   -> [row EXCEPT !.name = r.row.name]

Statement(r) ==
  \/ /\ r.op = "create" /\ r.id \in SectionIds
     /\ CreateSection(Me, r.id, r.row.name, r.row.pos)
  \/ /\ r.op = "create" /\ r.id \in ItemIds
     /\ CreateItem(Me, r.sec, r.id, r.row.name, NoTranslation, r.row.qty)
  \/ r.op = "delete" /\ r.id \in SectionIds /\ DeleteSection(Me, r.id)
  \/ r.op = "delete" /\ r.id \in ItemIds /\ DeleteItem(Me, r.id)
  \/ r.op = "rename" /\ UpdateSection(Me, r.id) /\ secRow'[r.id] = Sets(r, secRow[r.id])
  \/ r.op = "translate" /\ UNCHANGED listVars
  \/ /\ r.op \in {"edit", "tick", "name"}
     /\ UpdateItem(Me, r.id)
     /\ itemRow'[r.id] = Sets(r, itemRow[r.id])

(* The answer carries the row as the statement left it. *)
Returned(x) == IF x \in SectionIds THEN secRow'[x] ELSE itemRow'[x]

Served(p) ==
  LET r == req[p]
  IN  /\ r # NoReq /\ r.at = "sent"
      /\ Matches(r)
      /\ Statement(r)
      /\ req' = [req EXCEPT ![p].at = "ok",
                            ![p].row = IF r.op = "translate" THEN @ ELSE Returned(r.id)]
      /\ NoFault
      /\ UNCHANGED <<loading, page, want, alone, doubt>>

(* No row, no translation, or a service or a network that is down. *)
Refused(p) ==
  /\ req[p] # NoReq /\ req[p].at = "sent"
  /\ IF Matches(req[p]) THEN Fault("net") ELSE NoFault
  /\ req' = [req EXCEPT ![p].at = "refused"]
  /\ UNCHANGED <<loading, page, want, alone, doubt, listVars>>

(* The statement ran, and the page hears of an error. *)
AnswerLost(p) ==
  /\ req[p] # NoReq /\ req[p].at = "ok"
  /\ Fault("net")
  /\ req' = [req EXCEPT ![p].at = "lost"]
  /\ UNCHANGED <<loading, page, want, alone, doubt, listVars>>

----------------------------------------------------------------------------
(* Its answer arrives                                                      *)

Free(p) == req' = [req EXCEPT ![p] = NoReq]

(* The row that was sent is shown, not the one that was answered. *)
ShowSent(x, row) ==
  page' = [y \in DOMAIN page |-> IF y = x THEN [name |-> row.name] ELSE page[y]]

(* handleSectionUpdated and handleItemUpdated map the rows that are there. *)
Show(x, row) ==
  page' = [y \in DOMAIN page |-> IF y = x THEN row ELSE page[y]]

(* A new item is translated in the background, unless the user reads       *)
(* English, and its name is sent once more; the chain keeps the row as it  *)
(* was created.                                                            *)
GoesOn(p) ==
  \/ /\ req[p].op = "create" /\ req[p].id \in ItemIds
     /\ req' = [req EXCEPT ![p].op = "translate", ![p].at = "sent"]
  \/ /\ req[p].op = "translate"
     /\ req' = [req EXCEPT ![p].op = "name", ![p].at = "sent"]

Created(p) ==
  LET r == req[p]
  IN  /\ r.op = "create"
      /\ page' = [y \in DOMAIN page \cup {r.id} |-> IF y = r.id THEN r.row ELSE page[y]]
      /\ GoesOn(p) \/ Free(p)
      /\ UNCHANGED <<want, doubt>>

(* The whole row is in the answer: of a change that was alone it is what   *)
(* is stored, whatever the page showed before.                             *)
Settles(x, row) ==
  IF x \in alone THEN doubt' = doubt \ {x} /\ want' = [want EXCEPT ![x] = row]
                 ELSE UNCHANGED <<want, doubt>>

Updated(p) ==
  /\ req[p].op \in {"rename", "edit", "tick"}
  /\ Show(req[p].id, req[p].row)
  /\ Settles(req[p].id, req[p].row)
  /\ Free(p)

(* The translation is shown with the row as it was created and is stored   *)
(* nowhere: the request that follows sends the name alone.                 *)
Translated(p) ==
  /\ req[p].op = "translate"
  /\ \E t \in Translations : Show(req[p].id, [req[p].row EXCEPT !.second = t])
  /\ GoesOn(p)
  /\ UNCHANGED <<want, doubt>>

(* The answer 204 has no body, and request's res.json() rejects: nothing   *)
(* that follows the await runs.                                            *)
Deleted(p) ==
  /\ req[p].op = "delete"
  /\ Free(p)
  /\ UNCHANGED <<page, want, doubt>>

Ignored(p) == req[p].op = "name" /\ Free(p) /\ UNCHANGED <<page, want, doubt>>

Answered(p) ==
  /\ req[p] # NoReq /\ req[p].heard /\ req[p].at = "ok"
  /\ Created(p) \/ Updated(p) \/ Translated(p) \/ Deleted(p) \/ Ignored(p)
  /\ NoFault
  /\ UNCHANGED <<loading, alone, listVars>>

(* The page is left as it is, and the user sees that nothing happened. *)
Failed(p) ==
  LET r == req[p]
  IN  /\ r # NoReq /\ r.heard /\ r.at \in {"refused", "lost"}
      /\ Free(p)
      /\ want' = IF r.op \in UserOps /\ r.id \in DOMAIN page
                 THEN [want EXCEPT ![r.id] = Shown(r.id)] ELSE want
      /\ doubt' = IF r.op \in UserOps /\ r.at = "lost" THEN doubt \cup {r.id} ELSE doubt
      /\ NoFault
      /\ UNCHANGED <<loading, page, alone, listVars>>

(* Nobody shows it any more; the chain of a new item ends with the window  *)
(* but goes on when the user only went to another page of the app.         *)
Unheard(p) ==
  /\ req[p] # NoReq /\ ~req[p].heard /\ req[p].at # "sent"
  /\ Free(p) \/ (req[p].at = "ok" /\ GoesOn(p))
  /\ NoFault
  /\ UNCHANGED <<loading, page, want, alone, doubt, listVars>>

----------------------------------------------------------------------------

UserActs(p) ==
  \/ \E s \in SectionIds, n \in Names :
       \/ AddSection(p, s, n)
       \/ SaveSectionName(p, s, n)
       \/ \E i \in ItemIds : AddItem(p, s, i, n)
  \/ \E i \in ItemIds :
       \/ Toggle(p, i)
       \/ \E n \in Names, q \in Quantities : SaveEdit(p, i, n, q)
  \/ \E x \in Rows : HandleDelete(p, x)

PageNext ==
  \/ Loaded \/ LoadFails \/ Reload
  \/ \E p \in Slots :
       \/ UserActs(p)
       \/ Served(p) \/ Refused(p) \/ AnswerLost(p)
       \/ Answered(p) \/ Failed(p) \/ Unheard(p)

PageSpec == PageInit /\ [][PageNext]_pageVars

----------------------------------------------------------------------------
(* Properties                                                              *)

(* The copy is true but for the translations: what is on the list is on    *)
(* the page as the user left it, and, the translation set aside, which is  *)
(* on the page alone, as it is stored, unless requests for one row         *)
(* overlapped or an answer was lost, until the row is changed once more by *)
(* a request that meets no other (page.tsx, SectionCard.tsx, ItemRow.tsx:  *)
(* no request orders itself after another, and nothing is asked for        *)
(* again).                                                                 *)
QuietPageIsTrue ==
  ~loading =>
    \A x \in Listed \ doubt :
      ~Busy(x) => /\ x \in DOMAIN page
                  /\ Shown(x) = Stored(x)
                  /\ want[x] = Stored(x)

(* "To Delete" is "not.toBeVisible()" once its deletion was answered:      *)
(* every row of a quiet page is alive (page.tsx handleDeleteSection,       *)
(* ItemRow.tsx handleDelete).                                              *)
DeletedLeaves ==
  ~loading =>
    \A x \in DOMAIN page \ doubt : Busy(x) \/ x \in secLive \cup itemLive
=============================================================================
