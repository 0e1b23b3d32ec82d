----------------------------- MODULE SchemaDocs -----------------------------
(***************************************************************************)
(* The documentation of the Oracle schema: an administrator's refresh      *)
(* reads the schema with several queries at once, compares it with the     *)
(* snapshot on disk, and writes the new snapshot, encrypted, and a small   *)
(* file beside it with the fingerprint.  Others change the schema in the   *)
(* meantime; writes fail, and the backend restarts, with another key or    *)
(* with none.                                                              *)
(***************************************************************************)
EXTENDS Naturals, Sequences, FiniteSets, FiniteSetsExt

CONSTANTS
  Objects,      \* tables of the schema
  Refreshes,    \* requests POST oracle/docs/refresh
  Keys,         \* values of ORACLE_DOCS_SECRET
  None,
  HistoryLimit,
  MaxDDL, MaxTicks, MaxRestarts  \* bounds: changes of the schema, seconds, restarts

SchemaDocsAssumption ==
  /\ None \notin Keys /\ IsFiniteSet(Objects) /\ HistoryLimit \in Nat \ {0}
  /\ {MaxDDL, MaxTicks, MaxRestarts} \subseteq Nat

VARIABLES
  schema,    \* schema[o]: 0 or the number of the change that made it what it is
  changedAt, \* changedAt[o]: LAST_DDL_TIME, in seconds
  ddl,       \* changes so far
  tick,
  secret,
  file,      \* schema-snapshot.enc: {} or a snapshot with its key
  meta,      \* snapshot-meta.json: {}, when there is none to read, or its fingerprint
  cached,    \* the snapshot in memory, {} or one
  running,   \* isRunning
  req,       \* req[r]: [pc, asked, fingerprint, previous, tables, columns, read, got]
  restarts

schemaVars == <<schema, changedAt, ddl, tick>>
diskVars   == <<file, meta>>
vars == <<schemaVars, secret, diskVars, cached, running, req, restarts>>

Queries == {"tables", "columns"}  \* two of the seven that run side by side
Forced  == <<>>  \* 'force-refresh', no fingerprint

Change   == [added : SUBSET Objects, removed : SUBSET Objects, altered : SUBSET Objects]
Snapshot == [key : Keys, tables : SUBSET Objects, columns : [Objects -> 0..MaxDDL],
             seen : 0..MaxDDL, history : UNION {[1..n -> Change] : n \in 1..HistoryLimit}]
NewRequest == [pc |-> "new", asked |-> 0, fingerprint |-> Forced, previous |-> {},
               tables |-> {}, columns |-> [o \in Objects |-> 0],
               read |-> [q \in {} |-> 0], got |-> None]

IsFingerprint(f) == f = Forced \/ f \in (0..Cardinality(Objects)) \X (0..MaxTicks)
IsOne(S, Member(_)) == Cardinality(S) <= 1 /\ \A x \in S : Member(x)

TypeOK ==
  LET InSnapshot(s) == s \in Snapshot
  IN
  /\ schema \in [Objects -> 0..MaxDDL] /\ changedAt \in [Objects -> 0..MaxTicks]
  /\ ddl \in 0..MaxDDL /\ tick \in 0..MaxTicks /\ restarts \in 0..MaxRestarts
  /\ secret \in Keys \cup {None} /\ running \in BOOLEAN
  /\ IsOne(file, InSnapshot) /\ IsOne(cached, InSnapshot) /\ IsOne(meta, IsFingerprint)
  /\ \A r \in Refreshes :
       /\ req[r].pc \in {"new", "fingerprint", "harvest", "meta", "done"}
       /\ req[r].asked \in 0..MaxDDL /\ IsFingerprint(req[r].fingerprint)
       /\ IsOne(req[r].previous, InSnapshot) /\ req[r].tables \subseteq Objects
       /\ req[r].columns \in [Objects -> 0..MaxDDL]
       /\ DOMAIN req[r].read \subseteq Queries
       /\ \A q \in DOMAIN req[r].read : req[r].read[q] \in 0..MaxDDL
       /\ req[r].got \in (0..MaxDDL) \cup {None}

Init ==
  /\ schema = [o \in Objects |-> 0] /\ changedAt = [o \in Objects |-> 0]
  /\ ddl = 0 /\ tick = 0 /\ secret \in Keys \cup {None}
  /\ file = {} /\ meta = {} /\ cached = {} /\ running = FALSE
  /\ req = [r \in Refreshes |-> NewRequest]
  /\ restarts = 0

Live == {o \in Objects : schema[o] # 0}

\* computeFingerprint: how many objects there are and the latest change, to the
\* second.  An object that was altered twice within a second looks the same.
Fingerprint == <<Cardinality(Live), Max({0} \cup {changedAt[o] : o \in Live})>>

\* loadSnapshotSafe: nothing without the key that it was written with.
Load == {s \in file : s.key = secret}

\* From the write of the snapshot to that of the other file nothing else is served.
Serving == \A r \in Refreshes : req[r].pc # "meta"

Ends(r, got) ==
  /\ req' = [req EXCEPT ![r] = [NewRequest EXCEPT !.pc = "done", !.asked = req[r].asked,
                                                  !.got = got]]

\* A check that throws is logged and answered with null; isRunning is given back.
Throws(r) == Ends(r, None) /\ running' = FALSE

(***************************************************************************)
(* A refresh                                                               *)
(***************************************************************************)
\* Mutant: the fingerprint is left as it is.
ForceRefreshByFingerprint(r) ==
  /\ req[r].pc = "new" /\ Serving /\ secret # None /\ ~running
  /\ running' = TRUE
  /\ req' = [req EXCEPT ![r] = [@ EXCEPT !.pc = "fingerprint", !.asked = ddl]]
  /\ UNCHANGED <<schemaVars, secret, diskVars, cached, restarts>>

\* forceRefresh makes the stored fingerprint one that never matches, also when a
\* check is running already, and then is refused by isRunning.
ForceRefresh(r) ==
  /\ req[r].pc = "new" /\ Serving
  /\ IF secret = None
     THEN Ends(r, None) /\ UNCHANGED <<meta, running>>
     ELSE /\ meta' = IF meta = {} THEN {} ELSE {Forced}
          /\ running' = TRUE
          /\ IF running THEN Ends(r, None)
             ELSE req' = [req EXCEPT ![r] = [@ EXCEPT !.pc = "fingerprint", !.asked = ddl]]
  /\ UNCHANGED <<schemaVars, secret, file, cached, restarts>>

\* The write of the other file fails, and may leave a part of it.
ForceRefreshFails(r) ==
  /\ req[r].pc = "new" /\ Serving /\ secret # None /\ meta # {}
  /\ meta' \in {meta, {}}
  /\ Ends(r, None)
  /\ UNCHANGED <<schemaVars, secret, file, cached, running, restarts>>

\* checkAndUpdate up to the harvest.  With the stored fingerprint the check is over;
\* no caller of today gets there, they all come through forceRefresh.
Check(r) ==
  /\ req[r].pc = "fingerprint"
  /\ IF meta = {Fingerprint} /\ file # {}
     THEN Ends(r, (CHOOSE s \in file : TRUE).seen) /\ running' = FALSE
     ELSE /\ req' = [req EXCEPT ![r] = [@ EXCEPT !.pc = "harvest", !.fingerprint = Fingerprint,
                                            !.previous = Load]]
          /\ UNCHANGED running
  /\ UNCHANGED <<schemaVars, secret, diskVars, cached, restarts>>

\* harvestSchema: the queries run on sessions of their own, each at its time.
Harvest(r, q) ==
  /\ req[r].pc = "harvest" /\ q \notin DOMAIN req[r].read
  /\ req' = [req EXCEPT ![r] = [@ EXCEPT
        !.tables = IF q = "tables" THEN Live ELSE req[r].tables,
        !.columns = IF q = "columns" THEN schema ELSE req[r].columns,
        !.read = [p \in DOMAIN req[r].read \cup {q} |-> IF p = q THEN ddl ELSE req[r].read[p]]]]
  /\ UNCHANGED <<schemaVars, secret, diskVars, cached, running, restarts>>

\* A query fails, or the write of the snapshot.
CheckFails(r) ==
  /\ req[r].pc \in {"fingerprint", "harvest"}
  /\ Throws(r)
  /\ UNCHANGED <<schemaVars, secret, diskVars, cached, restarts>>

\* diffSnapshots: new tables, dropped ones, and those with other columns.
Diff(old, new) ==
  [added   |-> new.tables \ old.tables,
   removed |-> old.tables \ new.tables,
   altered |-> {t \in old.tables \cap new.tables : old.columns[t] # new.columns[t]}]
NoChange == [added |-> {}, removed |-> {}, altered |-> {}]

\* The snapshot of what was read: the columns of the tables that were listed, with
\* what changed since the previous one before what had changed until then.
Taken(r) ==
  LET columns == [o \in Objects |-> IF o \in req[r].tables THEN req[r].columns[o] ELSE 0]
      story == IF req[r].previous = {} THEN <<NoChange>>
               ELSE LET old == CHOOSE s \in req[r].previous : TRUE
                        new == [tables |-> req[r].tables, columns |-> columns]
                    IN <<Diff(old, new)>> \o old.history
  IN [key     |-> secret, tables |-> req[r].tables, columns |-> columns,
      seen    |-> Min({req[r].read[q] : q \in Queries}),
      history |-> SubSeq(story, 1, Min({HistoryLimit, Len(story)}))]

\* persistSnapshot: a temporary file, renamed.
Persist(r) ==
  /\ req[r].pc = "harvest" /\ DOMAIN req[r].read = Queries
  /\ file' = {Taken(r)}
  /\ req' = [req EXCEPT ![r].pc = "meta"]
  /\ UNCHANGED <<schemaVars, secret, meta, cached, running, restarts>>

\* writeMeta, and what is served from now on.
WriteMeta(r) ==
  /\ req[r].pc = "meta"
  /\ meta' = {req[r].fingerprint} /\ cached' = file
  /\ Ends(r, (CHOOSE s \in file : TRUE).seen) /\ running' = FALSE
  /\ UNCHANGED <<schemaVars, secret, file, restarts>>

WriteMetaFails(r) ==
  /\ req[r].pc = "meta"
  /\ meta' \in {meta, {}}
  /\ Throws(r)
  /\ UNCHANGED <<schemaVars, secret, file, cached, restarts>>

(***************************************************************************)
(* The others                                                              *)
(***************************************************************************)
\* getDocs reads the file once and keeps it.
GetDocs ==
  /\ Serving /\ cached = {} /\ Load # {}
  /\ cached' = Load
  /\ UNCHANGED <<schemaVars, secret, diskVars, running, req, restarts>>

\* pm2 restarts the backend, perhaps with another secret, perhaps in the middle of
\* a write.
Restart ==
  /\ restarts < MaxRestarts
  /\ restarts' = restarts + 1
  /\ secret' \in Keys \cup {None}
  /\ meta' \in IF Serving THEN {meta} ELSE {meta, {}}
  /\ cached' = {} /\ running' = FALSE
  /\ req' = [r \in Refreshes |-> IF req[r].pc = "new" THEN req[r]
                                 ELSE [NewRequest EXCEPT !.pc = "done", !.asked = req[r].asked,
                                                         !.got = req[r].got]]
  /\ UNCHANGED <<schemaVars, file>>

\* Somebody creates, alters or drops a table.
DDL(o) ==
  /\ ddl < MaxDDL /\ ddl' = ddl + 1
  /\ \/ schema' = [schema EXCEPT ![o] = ddl + 1]
     \/ schema[o] # 0 /\ schema' = [schema EXCEPT ![o] = 0]
  /\ changedAt' = [changedAt EXCEPT ![o] = IF schema'[o] = 0 THEN 0 ELSE tick]
  /\ UNCHANGED <<tick, secret, diskVars, cached, running, req, restarts>>

Tick ==
  /\ tick < MaxTicks /\ tick' = tick + 1
  /\ UNCHANGED <<schema, changedAt, ddl, secret, diskVars, cached, running, req, restarts>>

Progress(r) ==
  \/ ForceRefresh(r) \/ ForceRefreshFails(r) \/ Check(r) \/ CheckFails(r)
  \/ \E q \in Queries : Harvest(r, q)
  \/ Persist(r) \/ WriteMeta(r) \/ WriteMetaFails(r)

Next ==
  \/ \E r \in Refreshes : Progress(r)
  \/ GetDocs \/ Restart \/ Tick
  \/ \E o \in Objects : DDL(o)

(***************************************************************************)
(* Properties                                                              *)
(***************************************************************************)
\* A refresh that is answered with the new state has read every change that was
\* made before it was asked for, also one in the second of the last fingerprint.
RefreshSees ==
  \A r \in Refreshes : req[r].got # None => req[r].got >= req[r].asked

\* A snapshot that takes the place of another under the same key tells how they
\* differ, and keeps what that one told, up to the limit.
HistoryKept ==
  \A old \in file, new \in file' :
    old # new /\ old.key = new.key =>
      /\ Head(new.history) = Diff(old, new)
      /\ Tail(new.history) = SubSeq(old.history, 1, Len(new.history) - 1)

DocsTrue == [][HistoryKept /\ RefreshSees']_vars
=============================================================================
