----------------------------- MODULE MCAccounts -----------------------------
(***************************************************************************)
(* Two sessions of a user, and a request from one of them to end his other *)
(* sessions.                                                               *)
(***************************************************************************)
EXTENDS Accounts

CONSTANTS here, there, others, user

TheRequests == {here, there, others}
TheKind     == [r \in TheRequests |-> IF r = others THEN "others" ELSE "login"]
TheUser     == [r \in TheRequests |-> user]
=============================================================================
