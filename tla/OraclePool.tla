----------------------------- MODULE OraclePool -----------------------------
(***************************************************************************)
(* The pool of Oracle sessions that the backend works through, under one   *)
(* technical account: plain queries, calls of functions, PL/SQL blocks     *)
(* that mark the session with the person they act for, and the statements  *)
(* of the language model, which run in a read-only transaction.            *)
(*                                                                         *)
(* A session outlives the request that used it.  What is set on the client *)
(* reaches the session with the next round trip; a session that is closed  *)
(* goes back to the pool, rolled back, and one that died is replaced.      *)
(***************************************************************************)
EXTENDS Naturals, FiniteSets

CONSTANTS
  Jobs,      \* calls of DatabaseOracleService
  Kind,      \* Kind[j]: "query", "procedure", "plsql" or "readonly"
  Conns,     \* poolMax sessions
  None,
  MaxDeaths  \* bound: sessions that die

OraclePoolAssumption ==
  /\ Kind \in [Jobs -> {"query", "procedure", "plsql", "readonly"}]
  /\ None \notin Jobs /\ MaxDeaths \in Nat

VARIABLES
  conn,   \* conn[c]: [holder, alive, tag, mark, txn]; mark is the tag set on the client
  job,    \* job[j]: [pc, writes, failed]
  deaths,
  (* history *)
  ranAs,  \* ranAs[j]: {} or the one tag of the session when the statement ran
  changed \* jobs whose statement changed data

poolVars == <<conn, job, deaths, ranAs, changed>>

Fresh == [holder |-> None, alive |-> TRUE, tag |-> None, mark |-> None, txn |-> "none"]

TypeOK ==
  /\ conn \in [Conns -> [holder : Jobs \cup {None}, alive : BOOLEAN, tag : Jobs \cup {None},
                         mark : Jobs \cup {None}, txn : {"none", "readonly", "open"}]]
  /\ job \in [Jobs -> [pc : {"idle", "queued", "alter", "mode", "execute", "untag", "rollback",
                             "close", "ended"}, writes : BOOLEAN, failed : BOOLEAN]]
  /\ deaths \in 0..MaxDeaths
  /\ ranAs \in [Jobs -> SUBSET (Jobs \cup {None})] /\ changed \subseteq Jobs

Init ==
  /\ conn = [c \in Conns |-> Fresh]
  /\ job = [j \in Jobs |-> [pc |-> "idle", writes |-> FALSE, failed |-> FALSE]]
  /\ deaths = 0 /\ ranAs = [j \in Jobs |-> {}] /\ changed = {}

\* The session a job holds.
Held(j) == CHOOSE c \in Conns : conn[c].holder = j
Alive(j) == conn[Held(j)].alive

\* Where a job goes when its statement is through, or failed: its finally.
Finally(j) == CASE Kind[j] = "plsql"    -> "untag"
                [] Kind[j] = "readonly" -> "rollback"
                [] OTHER                -> "close"

Goes(j, pc)  == job' = [job EXCEPT ![j].pc = pc]
Fails(j)     == job' = [job EXCEPT ![j] = [@ EXCEPT !.pc = Finally(j), !.failed = TRUE]]
HistoryUnchanged == UNCHANGED <<deaths, ranAs, changed>>

\* A caller asks for a statement that changes data or does not.
Call(j, w) ==
  /\ job[j].pc = "idle"
  /\ job' = [job EXCEPT ![j] = [@ EXCEPT !.pc = "queued", !.writes = w]]
  /\ UNCHANGED conn /\ HistoryUnchanged

\* pool.getConnection: any free session, a dead one included.  The tag of a
\* PL/SQL block is set on the client at once.
GetConnection(j, c) ==
  /\ job[j].pc = "queued" /\ conn[c].holder = None
  /\ conn' = [conn EXCEPT ![c] = [@ EXCEPT !.holder = j,
                                        !.mark = IF Kind[j] = "plsql" THEN j ELSE conn[c].mark]]
  /\ Goes(j, "alter")
  /\ HistoryUnchanged

\* The queue of the pool times out; nothing was taken, the finally does nothing.
QueueTimeout(j) ==
  /\ job[j].pc = "queued"
  /\ job' = [job EXCEPT ![j] = [@ EXCEPT !.pc = "ended", !.failed = TRUE]]
  /\ UNCHANGED conn /\ HistoryUnchanged

\* ALTER SESSION SET CURRENT_SCHEMA: the first round trip, it carries the tag.
Alter(j) ==
  /\ job[j].pc = "alter"
  /\ IF Alive(j)
     THEN /\ conn' = [conn EXCEPT ![Held(j)].tag = conn[Held(j)].mark]
          /\ Goes(j, IF Kind[j] = "readonly" THEN "mode" ELSE "execute")
     ELSE Fails(j) /\ UNCHANGED conn
  /\ HistoryUnchanged

\* SET TRANSACTION READ ONLY must be the first statement of a transaction.
SetReadOnly(j) ==
  /\ job[j].pc = "mode"
  /\ IF Alive(j) /\ conn[Held(j)].txn = "none"
     THEN conn' = [conn EXCEPT ![Held(j)].txn = "readonly"] /\ Goes(j, "execute")
     ELSE Fails(j) /\ UNCHANGED conn
  /\ HistoryUnchanged

\* The statement.  A read-only transaction refuses to change data; outside of
\* one the change is committed by the procedure itself or left open.
Execute(j) ==
  /\ job[j].pc = "execute"
  /\ \/ /\ Alive(j)
        /\ job[j].writes => conn[Held(j)].txn # "readonly"
        /\ \E t \in IF job[j].writes THEN {"none", "open"} ELSE {conn[Held(j)].txn} :
             conn' = [conn EXCEPT ![Held(j)].txn = t]
        /\ changed' = IF job[j].writes THEN changed \cup {j} ELSE changed
        /\ ranAs' = [ranAs EXCEPT ![j] = {conn[Held(j)].tag}]
        /\ Goes(j, Finally(j))
     \/ Fails(j) /\ UNCHANGED <<conn, ranAs, changed>>
  /\ UNCHANGED deaths

\* Mutant: the tag is taken off on the client and nothing carries that to the session.
UntagOnClient(j) ==
  /\ job[j].pc = "untag"
  /\ conn' = [conn EXCEPT ![Held(j)].mark = None]
  /\ Goes(j, "close")
  /\ HistoryUnchanged

\* executePlsql, finally: the tag is taken off, and the ping carries that over.
Untag(j) ==
  /\ job[j].pc = "untag"
  /\ conn' = [conn EXCEPT ![Held(j)] = [@ EXCEPT !.mark = None,
                                              !.tag = IF Alive(j) THEN None ELSE conn[Held(j)].tag]]
  /\ Goes(j, "close")
  /\ HistoryUnchanged

\* executeReadOnlyQuery, finally.
Rollback(j) ==
  /\ job[j].pc = "rollback"
  /\ conn' = [conn EXCEPT ![Held(j)].txn = IF Alive(j) THEN "none" ELSE @]
  /\ Goes(j, "close")
  /\ HistoryUnchanged

\* connection.close: what is not committed is rolled back; a dead session goes.
Close(j) ==
  /\ job[j].pc = "close"
  /\ conn' = [conn EXCEPT ![Held(j)] = IF Alive(j) THEN [@ EXCEPT !.holder = None, !.txn = "none"]
                                                   ELSE Fresh]
  /\ Goes(j, "ended")
  /\ HistoryUnchanged

\* The database or the network ends a session.
Die(c) ==
  /\ conn[c].alive /\ deaths < MaxDeaths
  /\ conn' = [conn EXCEPT ![c].alive = FALSE]
  /\ deaths' = deaths + 1
  /\ UNCHANGED <<job, ranAs, changed>>

Work(j) ==
  \/ \E c \in Conns : GetConnection(j, c)
  \/ QueueTimeout(j) \/ Alter(j) \/ SetReadOnly(j) \/ Execute(j)
  \/ Untag(j) \/ Rollback(j) \/ Close(j)

(***************************************************************************)
(* Properties                                                              *)
(***************************************************************************)
\* What one request leaves on a session is never another's: a session that waits
\* in the pool has no tag, on the client or in the database, and no transaction;
\* a statement ran under the tag of its own request or under none
\* (executePlsql, "мітку не лишаємо наступним запитам"); and no statement of the
\* language model changed data, whatever else shares the pool.
SessionsClean ==
  /\ \A c \in Conns : conn[c].holder = None
        => conn[c].tag = None /\ conn[c].mark = None /\ conn[c].txn = "none"
  /\ \A j \in Jobs : ranAs[j] \subseteq {IF Kind[j] = "plsql" THEN j ELSE None}
  /\ \A j \in changed : Kind[j] # "readonly"
=============================================================================
