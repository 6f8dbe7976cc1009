------------------------------ MODULE FullList ------------------------------
(***************************************************************************)
(* GET /lists/full: one statement for the sections of the user and then    *)
(* one per section for its items, with no transaction around them.         *)
(* Everything that writes list_db runs in between.                         *)
(*                                                                         *)
(* Reads do not disturb each other, so one of them is modelled, of any     *)
(* user.  A row is read whole by one statement: what an answer holds is    *)
(* therefore told by ids, and the order of its rows is abstracted.         *)
(***************************************************************************)
EXTENDS ListWriters

VARIABLES
  read,    \* the request: its user, the sections still to be read, the answer so far
  seen,    \* history: items on the user's list at some moment of the request
  steady   \* history: items on it all the time

readVars == <<read, seen, steady>>
fullVars == <<writerVars, readVars>>

NoRead == [pc |-> "idle", user |-> NoUser, todo |-> {}, sections |-> {}, items |-> {}]

Reads == [pc : {"idle", "items", "answered"}, user : UserIds \cup {NoUser},
          todo : SUBSET SectionIds, sections : SUBSET SectionIds, items : SUBSET ItemIds]

FullTypeOK ==
  /\ ListTypeOK
  /\ gone \subseteq UserIds
  /\ read \in Reads
  /\ read.pc = "items" => read.user \in UserIds /\ read.todo # {}
  /\ read.pc # "items" => read.todo = {}
  /\ seen \subseteq ItemIds /\ steady \subseteq ItemIds

FullInit == WritersInit /\ read = NoRead /\ seen = {} /\ steady = {}

(* On u's list: active, in an active section of u. *)
OnList(u) == {i \in itemLive : itemSec[i] \in GetSections(u)}

----------------------------------------------------------------------------

(* A list without sections waits for the items of none. *)
ReadSectionsLooping(u) ==
  /\ read.pc # "items"
  /\ read' = [pc |-> "items",
              user |-> u, todo |-> GetSections(u), sections |-> GetSections(u), items |-> {}]
  /\ seen' = OnList(u) /\ steady' = OnList(u)
  /\ UNCHANGED writerVars

(* The first statement of GetFullList; an error is answered 500. *)
ReadSections(u) ==
  /\ read.pc # "items"
  /\ read' = [pc |-> IF GetSections(u) = {} THEN "answered" ELSE "items",
              user |-> u, todo |-> GetSections(u), sections |-> GetSections(u), items |-> {}]
  /\ seen' = OnList(u) /\ steady' = OnList(u)
  /\ UNCHANGED writerVars

Answered(r) == IF r.todo = {} THEN [r EXCEPT !.pc = "answered"] ELSE r

(* Deleted items are read along. *)
ReadItemsDeletedToo(s) ==
  /\ read.pc = "items"
  /\ s \in read.todo
  /\ read' = Answered([read EXCEPT !.todo = @ \ {s},
                                   !.items = @ \cup {i \in ItemIds : itemSec[i] = s}])
  /\ UNCHANGED <<writerVars, seen, steady>>

(* A section whose items cannot be read is shown without them. *)
ReadItemsSkipping(s) ==
  /\ read.pc = "items"
  /\ s \in read.todo
  /\ read' = Answered([read EXCEPT !.todo = @ \ {s},
                                   !.items = @ \cup GetItems(s, read.user)])
     \/ read' = Answered([read EXCEPT !.todo = @ \ {s}])
  /\ UNCHANGED <<writerVars, seen, steady>>

(* The items of one section. *)
ReadItems(s) ==
  /\ read.pc = "items"
  /\ s \in read.todo
  /\ read' = Answered([read EXCEPT !.todo = @ \ {s},
                                   !.items = @ \cup GetItems(s, read.user)])
  /\ UNCHANGED <<writerVars, seen, steady>>

(* Any of its statements fails: the request is answered 500 and shows      *)
(* nothing of what was read.                                               *)
ReadFails ==
  /\ read.pc = "items"
  /\ read' = NoRead /\ seen' = {} /\ steady' = {}
  /\ UNCHANGED writerVars

(* A statement of somebody else, and what the request might have seen. *)
Write ==
  /\ WritersNext
  /\ UNCHANGED read
  /\ IF read.pc = "items"
     THEN /\ seen' = seen \cup OnList(read.user)'
          /\ steady' = steady \cap OnList(read.user)'
     ELSE UNCHANGED <<seen, steady>>

FullNext ==
  \/ \E u \in UserIds : ReadSections(u)
  \/ \E s \in SectionIds : ReadItems(s)
  \/ ReadFails
  \/ Write

FullSpec == FullInit /\ [][FullNext]_fullVars

----------------------------------------------------------------------------
(* Properties                                                              *)

(* Every item of an answer was on the user's list at some moment of the    *)
(* request, alive in a section that was alive too, although its section    *)
(* was read before it, by a statement that looks at the item alone         *)
(* (list_repo.go GetItems has no condition on the section's deleted_at).   *)
AnswerIsReal ==
  read.pc = "answered" => read.items \subseteq seen

(* What was on the list throughout the request is in the answer, whatever  *)
(* was created, deleted or purged around it, and a statement that fails    *)
(* never costs an item of an answer (list_repo.go GetFullList).            *)
AnswerIsComplete ==
  read.pc = "answered" => steady \subseteq read.items
=============================================================================
