------------------------------ MODULE MCPortal ------------------------------
(* An instance of Portal for TLC.  The values that are functions, records or *)
(* relations are defined here, the others in the configuration.              *)
EXTENDS Portal, TLC

CONSTANTS
  r1, r2, orders, accounts, drivers, x1, x2, u1, s1, s2, s3, n1, n2,
  up, k1, k2, p1, p2, p3, l1, l2, forgot, recover, confirm, endOthers, bye,
  look, statement, apply, c1

\* The table of users is denied, the one of drivers not described.
LinksOfOrders == {<<orders, accounts>>, <<orders, drivers>>}
Query(ts, plain, limit, inner) == [tables |-> ts, plain |-> plain, limit |-> limit, inner |-> inner]
Written == {Query({orders}, TRUE, None, FALSE), Query({orders}, TRUE, 1, TRUE),
            Query({orders}, TRUE, 1, FALSE), Query({accounts}, TRUE, None, FALSE),
            Query({drivers}, TRUE, None, FALSE), Query({orders}, FALSE, None, FALSE)}
FixedTexts == [getOrders       |-> Query({orders}, TRUE, 2, FALSE),
               generateReport  |-> Query({orders}, TRUE, 2, FALSE),
               searchDocuments |-> Query({orders}, TRUE, 2, FALSE)]

\* Two sockets of a user, one with the cookie of his session, and one of nobody.
Handshake == [s \in Sockets |-> IF s = s3 THEN NoUser ELSE u1]
OneCookie == [s \in Sockets |-> IF s = s1 THEN u1 ELSE NoUser]
AllGateways == {"user", "load", "tender", "chat"}

TwoDeep == {<<>>, <<n1>>, <<n1, n1>>}
OneDeep == {<<>>, <<n1>>}

\* One video of two chunks, the second of which is sent twice.
OneUpload == [r \in Sends |-> up]
SentTwice == [r \in Sends |-> IF r = p1 THEN k1 ELSE k2]

\* Two logins, a recovery and a confirmation of one user over two connections, with
\* both ways to end sessions.
Kinds == (l1 :> "login") @@ (l2 :> "login") @@ (forgot :> "forgot") @@ (recover :> "recover")
         @@ (confirm :> "confirm") @@ (endOthers :> "others") @@ (bye :> "logout")
OneUser == [r \in AccountRequests |-> u1]

\* A question whose look-up and statement share a session of Oracle with a block that
\* applies plates.
JobKinds == (look :> "query") @@ (statement :> "readonly") @@ (apply :> "plsql")
LooksUp  == x1 :> look
Runs     == x1 :> statement

\* Four mails of two senders.
Verdict(importance, spam, suspicious) ==
  [importance |-> importance, spam |-> spam, suspicious |-> suspicious]
TwoSenders == <<u1, NoUser, u1, NoUser>>
FourVerdicts == {Verdict("high", FALSE, FALSE), Verdict("low", FALSE, FALSE),
                 Verdict("low", TRUE, FALSE), Verdict("medium", FALSE, TRUE)}

\* Questions at the ends of months and years, in a leap year and after it.
Args(period, since, until) == [period |-> period, from |-> since, to |-> until]
LeapYears == 2023..2025
Ends == {<<2024, 1, 1>>, <<2024, 1, 31>>, <<2024, 2, 29>>, <<2024, 3, 1>>, <<2024, 3, 31>>,
         <<2024, 12, 31>>, <<2025, 1, 29>>, <<2025, 3, 1>>}
Periods == {Args(period, None, None) :
              period \in {"today", "yesterday", "last_7_days", "last_30_days", "this_month",
                         "last_month", "this_year", "unknown"}}
           \cup {Args("today", <<2024, 2, 28>>, <<2024, 3, 1>>),
                 Args("last_month", <<2024, 2, 29>>, None), Args("unknown", None, <<2024, 12, 31>>)}
LastTrips == [getTruckLocation |-> 1, getDriverStatus |-> 2]

NewFiles == (r1 :> {n1}) @@ (r2 :> {n2})

\* A user of the company whose rows were written for none, and one whose rows were
\* written for it.
OneCompany  == (u1 :> c1) @@ (s1 :> None)
Mismatched  == (u1 :> None) @@ (s1 :> c1)
=============================================================================
