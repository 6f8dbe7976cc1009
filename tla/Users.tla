-------------------------------- MODULE Users --------------------------------
(* The user ids both databases know: the primary key of user_db's users, the *)
(* user_id column of list_db's sections, the subject of a token and the      *)
(* user_id of a user.deleted event.                                          *)

CONSTANTS
  UserIds,
  NoUser

ASSUME NoUserAssumption == NoUser \notin UserIds
=============================================================================
