------------------------------ MODULE Accounts ------------------------------
(***************************************************************************)
(* Login with a confirmed address and a second factor, recovery of a       *)
(* password, confirmation of an address, and the sessions of a user.  A    *)
(* request is a process; its queries share one pool of connections with    *)
(* those of the others, and whoever runs a transaction keeps a connection. *)
(***************************************************************************)
EXTENDS Naturals, FiniteSets

CONSTANTS
  Requests,   \* requests; one that logs in gives its name to the session
  Kind,       \* Kind[r]: "login", "forgot", "recover", "confirm", "others" or "logout"
  Who,        \* Who[r]: the user it is about
  Users,
  TwoFactor,  \* users with a second factor
  Conns,      \* connections of the pool
  MaxTokens,  \* bound on tokens and codes made: a request makes one at most
  Nobody      \* no row, no session

AccountsAssumption ==
  /\ Kind \in [Requests -> {"login", "forgot", "recover", "confirm", "others", "logout"}]
  /\ Who \in [Requests -> Users] /\ TwoFactor \subseteq Users
  /\ Conns \in Nat \ {0} /\ Nobody \notin Requests
  /\ MaxTokens \in Nat /\ IsFiniteSet(Requests)
  /\ Cardinality({r \in Requests : Kind[r] \in {"login", "forgot"}}) <= MaxTokens

VARIABLES
  at,         \* at[r]: where the request stands
  holds,      \* requests that keep a connection
  seen,       \* seen[r]: the token r has read
  scanned,    \* scanned[r]: the sessions r has found
  from,       \* from[r]: the session r comes with
  row,        \* usr_token: row[u][type], its id and its token
  issued,     \* tokens made so far
  mailed,     \* tokens that went out, by type
  stale,      \* tokens past their time
  verified,   \* users whose address is confirmed
  password,   \* password[u]: how often it was changed
  live        \* sessions in Redis

vars == <<at, holds, seen, scanned, from, row, issued, mailed, stale, verified, password, live>>

Types == {"code", "confirm", "reset"}
NoRow == [id |-> 0, token |-> 0]

Init ==
  /\ at = [r \in Requests |-> "start"] /\ holds = {} /\ seen = [r \in Requests |-> 0]
  /\ scanned = [r \in Requests |-> {}] /\ from = [r \in Requests |-> Nobody]
  /\ row = [u \in Users |-> [t \in Types |-> NoRow]]
  /\ issued = 0 /\ mailed = [t \in Types |-> {}] /\ stale = {}
  /\ verified \in SUBSET Users
  /\ password = [u \in Users |-> 0] /\ live = {}

Free == Cardinality(holds) < Conns

\* r stands at p and goes on to q.
Goes(r, p, q) == at[r] = p /\ at' = [at EXCEPT ![r] = q]

Keeps(r, k)   == seen' = [seen EXCEPT ![r] = k]
Deletes(u, t) == row' = [row EXCEPT ![u][t] = NoRow]

\* A new token is stored under the given id (0: its own) and mailed.
Stores(u, t, id) ==
  /\ issued' = issued + 1
  /\ row' = [row EXCEPT ![u][t] = [id |-> IF id = 0 THEN issued + 1 ELSE id, token |-> issued + 1]]
  /\ mailed' = [mailed EXCEPT ![t] = @ \cup {issued + 1}]

SessionsUnchanged == UNCHANGED <<scanned, from, live>>
TokensUnchanged   == UNCHANGED <<row, issued, mailed>>
UsersUnchanged    == UNCHANGED <<verified, password, stale>>

-----------------------------------------------------------------------------
(* login: each query takes a connection for as long as it lasts *)

CheckPassword(r) ==
  /\ Kind[r] = "login" /\ Free
  /\ Goes(r, "start", "profile") \/ Goes(r, "start", "ended")
  /\ UNCHANGED <<holds, seen>> /\ TokensUnchanged /\ UsersUnchanged /\ SessionsUnchanged

\* An address that is not confirmed gets a new mail; a second factor asks for the
\* code, or sends one when none came with the request.
Profile(r) ==
  /\ Free
  /\ \/ Who[r] \notin verified /\ Goes(r, "profile", "send confirm")
     \/ /\ Who[r] \in verified \cap TwoFactor
        /\ Goes(r, "profile", "clear code") \/ Goes(r, "profile", "read code")
     \/ Who[r] \in verified \ TwoFactor /\ Goes(r, "profile", "session")
  /\ UNCHANGED <<holds, seen>> /\ TokensUnchanged /\ UsersUnchanged /\ SessionsUnchanged

\* One statement inserts the token or puts a new one into the row that is there.
SendConfirm(r) ==
  /\ Free /\ Goes(r, "send confirm", "ended")
  /\ Stores(Who[r], "confirm", row[Who[r]]["confirm"].id)
  /\ UNCHANGED <<holds, seen>> /\ UsersUnchanged /\ SessionsUnchanged

ClearCode(r) ==
  /\ Free /\ Goes(r, "clear code", "new code")
  /\ Deletes(Who[r], "code")
  /\ UNCHANGED <<holds, seen, issued, mailed>> /\ UsersUnchanged /\ SessionsUnchanged

\* The insert fails when another request has put its code there meanwhile.
NewCode(r) ==
  /\ Free /\ Goes(r, "new code", "ended")
  /\ IF row[Who[r]]["code"] = NoRow THEN Stores(Who[r], "code", 0) ELSE TokensUnchanged
  /\ UNCHANGED <<holds, seen>> /\ UsersUnchanged /\ SessionsUnchanged

\* The user types one of the codes he was sent; it is compared with the row.
ReadCode(r) ==
  /\ Free
  /\ \/ /\ row[Who[r]]["code"].token \in mailed["code"] \ stale
        /\ Goes(r, "read code", "use code") /\ Keeps(r, row[Who[r]]["code"].id)
     \/ Goes(r, "read code", "ended") /\ UNCHANGED seen
  /\ UNCHANGED holds /\ TokensUnchanged /\ UsersUnchanged /\ SessionsUnchanged

UseCode(r) ==
  /\ Free /\ Goes(r, "use code", "session")
  /\ IF row[Who[r]]["code"].id = seen[r] THEN Deletes(Who[r], "code") ELSE UNCHANGED row
  /\ UNCHANGED <<holds, seen, issued, mailed>> /\ UsersUnchanged /\ SessionsUnchanged

SaveSession(r) ==
  /\ Goes(r, "session", "ended")
  /\ live' = live \cup {r}
  /\ UNCHANGED <<holds, seen, scanned, from>> /\ TokensUnchanged /\ UsersUnchanged

-----------------------------------------------------------------------------
(* resetPassword and newPassword *)

FindForgotten(r) ==
  /\ Kind[r] = "forgot" /\ Free /\ Goes(r, "start", "connect")
  /\ UNCHANGED <<holds, seen>> /\ TokensUnchanged /\ UsersUnchanged /\ SessionsUnchanged

\* A transaction deletes the token that is there ...
DeleteReset(r) ==
  /\ Free /\ Goes(r, "connect", "insert")
  /\ holds' = holds \cup {r} /\ Keeps(r, row[Who[r]]["reset"].id)
  /\ TokensUnchanged /\ UsersUnchanged /\ SessionsUnchanged

\* ... and inserts a new one; both become visible together, unless another request has
\* replaced the token meanwhile, and then it is rolled back.
InsertReset(r) ==
  /\ Goes(r, "insert", "ended")
  /\ holds' = holds \ {r}
  /\ IF row[Who[r]]["reset"].id \in {0, seen[r]} THEN Stores(Who[r], "reset", 0) ELSE TokensUnchanged
  /\ UNCHANGED seen /\ UsersUnchanged /\ SessionsUnchanged

\* newPassword opens its transaction first.
OpenRecovery(r) ==
  /\ Kind[r] = "recover" /\ Free /\ Goes(r, "start", "select")
  /\ holds' = holds \cup {r}
  /\ UNCHANGED seen /\ TokensUnchanged /\ UsersUnchanged /\ SessionsUnchanged

\* The token is found, whatever its age: the column is called expires_in, and the test
\* of expiresIn is never true.
SelectReset(r) ==
  /\ \/ /\ row[Who[r]]["reset"].token \in mailed["reset"]
        /\ Goes(r, "select", "find") /\ Keeps(r, row[Who[r]]["reset"].id)
        /\ UNCHANGED holds
     \/ Goes(r, "select", "ended") /\ holds' = holds \ {r} /\ UNCHANGED seen
  /\ TokensUnchanged /\ UsersUnchanged /\ SessionsUnchanged

\* findByEmail asks the pool for a second connection while the first is kept.
FindRecovered(r) ==
  /\ Free /\ Goes(r, "find", "lock")
  /\ UNCHANGED <<holds, seen>> /\ TokensUnchanged /\ UsersUnchanged /\ SessionsUnchanged

\* The UPDATE of the user waits for a transaction that has updated him.
Lock(r) ==
  /\ \A q \in Requests : Who[q] = Who[r] => at[q] # "commit"
  /\ Goes(r, "lock", "commit")
  /\ UNCHANGED <<holds, seen>> /\ TokensUnchanged /\ UsersUnchanged /\ SessionsUnchanged

\* The new password or the confirmation becomes visible with the loss of the token.
\* saveSession fails after a confirmation, for the row it is given has no role.
Commit(r) ==
  LET u == Who[r]
      t == IF Kind[r] = "recover" THEN "reset" ELSE "confirm"
  IN /\ Goes(r, "commit", "ended")
     /\ holds' = holds \ {r}
     /\ password' = IF Kind[r] = "recover" THEN [password EXCEPT ![u] = @ + 1] ELSE password
     /\ verified' = IF Kind[r] = "confirm" THEN verified \cup {u} ELSE verified
     /\ IF row[u][t].id = seen[r] THEN Deletes(u, t) ELSE UNCHANGED row
     /\ UNCHANGED <<seen, issued, mailed, stale>> /\ SessionsUnchanged

-----------------------------------------------------------------------------
(* newVerification *)

\* The token is read outside the transaction, ...
ReadConfirm(r) ==
  /\ Kind[r] = "confirm" /\ Free
  /\ \/ /\ row[Who[r]]["confirm"].token \in mailed["confirm"] \ stale
        /\ Goes(r, "start", "user") /\ Keeps(r, row[Who[r]]["confirm"].id)
     \/ Goes(r, "start", "ended") /\ UNCHANGED seen
  /\ UNCHANGED holds /\ TokensUnchanged /\ UsersUnchanged /\ SessionsUnchanged

\* Mutant: the user is looked up when the transaction is open already.
FindUserInside(r) ==
  /\ Free
  /\ \/ r \notin holds /\ at[r] = "user" /\ holds' = holds \cup {r} /\ UNCHANGED at
     \/ r \in holds /\ Goes(r, "user", "lock") /\ UNCHANGED holds
  /\ UNCHANGED seen /\ TokensUnchanged /\ UsersUnchanged /\ SessionsUnchanged

\* ... and so is the user.
FindUser(r) ==
  /\ Free /\ Goes(r, "user", "begin")
  /\ UNCHANGED <<holds, seen>> /\ TokensUnchanged /\ UsersUnchanged /\ SessionsUnchanged

Begin(r) ==
  /\ Free /\ Goes(r, "begin", "lock")
  /\ holds' = holds \cup {r}
  /\ UNCHANGED seen /\ TokensUnchanged /\ UsersUnchanged /\ SessionsUnchanged

-----------------------------------------------------------------------------
(* Sessions *)

\* logout and sessions/current end the session the request comes with.  (The id logout
\* looks for to close the user's sockets is stored by nobody.)
Logout(r) ==
  /\ Kind[r] = "logout" /\ Goes(r, "start", "ended")
  /\ \E s \in live : from' = [from EXCEPT ![r] = s] /\ live' = live \ {s}
  /\ UNCHANGED <<holds, seen, scanned>> /\ TokensUnchanged /\ UsersUnchanged

\* logout-others collects the sessions of the user.  It means to leave out its own, but
\* what is stored has no id, and no session is left out.
ScanSessions(r) ==
  /\ Kind[r] = "others" /\ Goes(r, "start", "delete")
  /\ \E s \in live :
       /\ Who[s] = Who[r]
       /\ from' = [from EXCEPT ![r] = s]
       /\ scanned' = [scanned EXCEPT ![r] = {q \in live : Who[q] = Who[r]}]
  /\ UNCHANGED <<holds, seen, live>> /\ TokensUnchanged /\ UsersUnchanged

DeleteSessions(r) ==
  /\ Goes(r, "delete", "ended")
  /\ live' = live \ scanned[r]
  /\ UNCHANGED <<holds, seen, scanned, from>> /\ TokensUnchanged /\ UsersUnchanged

\* The time of a token passes.
Expire(k) ==
  /\ k \in 1..issued \ stale
  /\ stale' = stale \cup {k}
  /\ UNCHANGED <<at, holds, seen, verified, password>> /\ TokensUnchanged /\ SessionsUnchanged

Step(r) ==
  \/ CheckPassword(r) \/ Profile(r) \/ SendConfirm(r) \/ ClearCode(r) \/ NewCode(r)
  \/ ReadCode(r) \/ UseCode(r) \/ SaveSession(r)
  \/ FindForgotten(r) \/ DeleteReset(r) \/ InsertReset(r)
  \/ OpenRecovery(r) \/ SelectReset(r) \/ FindRecovered(r) \/ Lock(r) \/ Commit(r)
  \/ ReadConfirm(r) \/ FindUser(r) \/ Begin(r)
  \/ Logout(r) \/ ScanSessions(r) \/ DeleteSessions(r)

Next == (\E r \in Requests : Step(r)) \/ (\E k \in 1..MaxTokens : Expire(k))

\* A request that can go on does.
Spec == Init /\ [][Next]_vars /\ \A r \in Requests : WF_vars(Step(r))

-----------------------------------------------------------------------------

TypeOK ==
  /\ at \in [Requests -> {"start", "profile", "send confirm", "clear code", "new code", "read code",
                          "use code", "session", "connect", "insert", "select", "find", "lock",
                          "commit", "user", "begin", "delete", "ended"}]
  /\ holds \subseteq Requests /\ Cardinality(holds) <= Conns
  /\ seen \in [Requests -> 0..MaxTokens] /\ scanned \in [Requests -> SUBSET Requests]
  /\ from \in [Requests -> Requests \cup {Nobody}]
  /\ row \in [Users -> [Types -> [id : 0..MaxTokens, token : 0..MaxTokens]]]
  /\ issued \in 0..MaxTokens /\ mailed \in [Types -> SUBSET (1..MaxTokens)]
  /\ stale \subseteq 1..MaxTokens /\ verified \subseteq Users
  /\ password \in [Users -> Nat] /\ live \subseteq Requests

\* In the end no request is under way: nobody waits forever for a connection.
\* newPassword asks for a second one while it keeps its own, so this holds only when
\* fewer of them run at once than the pool has connections.
Idle(r) == at[r] \in {"start", "ended"}

\* "logout-others" leaves the session it was asked from: the comment of
\* auth.controller.ts:176 says "except the current one".
CurrentStays == [][\A r \in Requests :
                     DeleteSessions(r) /\ from[r] \in live => from[r] \in live']_vars
=============================================================================
