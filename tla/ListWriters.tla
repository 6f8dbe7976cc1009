----------------------------- MODULE ListWriters -----------------------------
(***************************************************************************)
(* Everything that changes list_db, one statement at a time: the requests  *)
(* of the users, and the statements that the consumer of user.deleted and  *)
(* the orphan job run for users whose account is gone, in any order and    *)
(* any number, since no transaction joins them and both may work for one   *)
(* user.  It is what the stack looks like to a reader of list_db.          *)
(***************************************************************************)
EXTENDS ListRepo

VARIABLE gone   \* users whose account was deleted

writerVars == <<listVars, gone>>

WritersInit == ListInit /\ gone = {}

DeleteAccount(u) ==
  /\ gone' = gone \cup {u}
  /\ UNCHANGED listVars

(* A token outlives its account, so a deleted user may go on writing. *)
Request(u) == HandlerStatement(u) /\ UNCHANGED gone

Cleanup(u) ==
  /\ u \in gone
  /\ SoftDeleteItemsOf(u) \/ SoftDeleteSectionsOf(u)
  /\ UNCHANGED gone

WritersNext == \E u \in UserIds : DeleteAccount(u) \/ Request(u) \/ Cleanup(u)

WritersSpec == WritersInit /\ [][WritersNext]_writerVars

----------------------------------------------------------------------------
(* Properties                                                              *)

(* Rows of a user who was not deleted go one at a time, by a request of    *)
(* that user: a cleanup, which takes many rows in one statement, takes     *)
(* none of another user's (the joins on sections.user_id in                *)
(* SoftDeleteAllByUser and cleanupUser).                                   *)
GoesAlone ==
  /\ \A s \in secLive \ secLive' : secOwner[s] \in gone \/ secLive' = secLive \ {s}
  /\ \A i \in itemLive \ itemLive' :
       secOwner[itemSec[i]] \in gone \/ itemLive' = itemLive \ {i}

OthersRowsKept == [][GoesAlone]_writerVars
=============================================================================
