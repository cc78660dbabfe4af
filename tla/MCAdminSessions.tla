-------------------------- MODULE MCAdminSessions --------------------------
(* Instances of AdminSessions: two sources compete for a table of one.     *)
EXTENDS AdminSessions
=============================================================================
