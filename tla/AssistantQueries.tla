-------------------------- MODULE AssistantQueries --------------------------
(***************************************************************************)
(* What the assistant does to answer with data: the catalogue of tables    *)
(* it shows to the language model, the queries the model writes, the guard *)
(* they pass, and the read-only transaction they run in on a connection of *)
(* the common pool.  Several questions are worked on at once, and a        *)
(* refresh of the catalogue may fall between any two of their steps.       *)
(*                                                                         *)
(* A query is a record: the tables it names, whether it is one plain       *)
(* SELECT, its LIMIT (None without one), and whether that LIMIT belongs to *)
(* a subquery.  Oracle is switched off, as it is by default.               *)
(***************************************************************************)
EXTENDS Naturals, FiniteSets

CONSTANTS
  Tables,       \* names a table of the database may have
  Denied,       \* those of logins and sessions
  Curated,      \* those described in postgres.catalog.ts
  Links,        \* pairs of tables with a column that refers from one to the other
  Generated,    \* queries the language model may write
  FixedQuery,   \* the query of each tool whose text is fixed
  Questions,    \* questions worked on at once
  Refreshers,   \* refreshes of the catalogue at once
  Conns,        \* connections of PG_POOL
  None,         \* no value: no LIMIT, no connection, nothing cached
  MaxRows,      \* LOCAL_AI_MAX_ROWS
  MaxSize,      \* bound: rows that match a query
  MaxMigrations \* bound: tables created or dropped

Query == [tables : SUBSET Tables, plain : BOOLEAN, limit : Nat \cup {None}, inner : BOOLEAN]

AssistantQueriesAssumption ==
  /\ Denied \subseteq Tables /\ Curated \subseteq Tables \ Denied
  /\ MaxRows \in Nat \ {0} /\ MaxSize \in Nat /\ MaxMigrations \in Nat
  /\ Generated # {} /\ Generated \subseteq Query
  /\ \A tool \in DOMAIN FixedQuery : FixedQuery[tool] \in Query
  /\ "searchDocuments" \in DOMAIN FixedQuery
  /\ None \notin Conns \cup Nat

VARIABLES
  public,     \* tables of the database now
  migrations, \* how often they changed
  catalog,    \* what the service knows of them
  prompt,     \* promptCache
  refresh,    \* a refresh: None, or the tables it has read
  question,   \* a question and how far its tool is
  pool        \* a connection: 'idle', 'clean' in somebody's hands, or inside a 'tx'
vars == <<public, migrations, catalog, prompt, refresh, question, pool>>

Tools   == DOMAIN FixedQuery \cup {"runSqlQuery"}
Guarded == {"runSqlQuery", "generateReport"} \* roles: ['ict', 'admin']
Steps   == {"idle", "generate", "model", "run", "connect", "begin", "select", "rollback",
            "answered", "failed"}
NoQuery == CHOOSE q \in Generated : TRUE

TypeOK ==
  /\ public \subseteq Tables /\ migrations \in 0..MaxMigrations
  /\ catalog \in [tables: SUBSET Tables, relations: SUBSET Links]
  /\ prompt \in {None} \cup [tables: SUBSET Tables, relations: SUBSET Links]
  /\ refresh \in [Refreshers -> {None} \cup SUBSET Tables]
  /\ question \in [Questions -> [step: Steps, tool: Tools, attempt: 1..2,
                                 sql: Generated \cup {FixedQuery[t] : t \in DOMAIN FixedQuery},
                                 conn: Conns \cup {None}, size: 0..MaxSize,
                                 rows: 0..MaxSize, ok: BOOLEAN, told: BOOLEAN]]
  /\ pool \in [Conns -> {"idle", "clean", "tx"}]

Among(ts) == {l \in Links : l[1] \in ts /\ l[2] \in ts}

\* Until the first refresh the catalogue is the file.
Init ==
  /\ public \in SUBSET Tables /\ migrations = 0
  /\ catalog = [tables |-> Curated, relations |-> {}]
  /\ prompt = None
  /\ refresh = [x \in Refreshers |-> None]
  /\ question = [x \in Questions |-> [step |-> "idle", tool |-> "runSqlQuery", sql |-> NoQuery,
                                      attempt |-> 1, conn |-> None, size |-> 0, rows |-> 0,
                                      ok |-> FALSE, told |-> FALSE]]
  /\ pool = [c \in Conns |-> "idle"]

----------------------------------------------------------------------------
(* The catalogue. *)

\* refresh: the tables, by a query of their own.
ReadTables(x) ==
  /\ refresh[x] = None
  /\ refresh' = [refresh EXCEPT ![x] = public]
  /\ UNCHANGED <<public, migrations, catalog, prompt, question, pool>>

\* fetchRelations: foreign keys of the database as it is now, and columns id_<table>
\* of a table that was there when the tables were read.
Relations(seen) == {l \in Among(Tables) : l[1] \in public /\ (l[2] \in public \/ l[2] \in seen)}

\* refresh: the rest is read, and the catalogue replaced in one go.
Publish(x) ==
  LET visible == refresh[x] \ Denied IN
  /\ refresh[x] # None
  /\ catalog' = [tables |-> visible,
                 relations |-> Relations(refresh[x]) \cap Among(visible)]
  /\ prompt' = None
  /\ refresh' = [refresh EXCEPT ![x] = None]
  /\ UNCHANGED <<public, migrations, question, pool>>

\* Either query fails: the catalogue stays.
RefreshFails(x) ==
  /\ refresh[x] # None
  /\ refresh' = [refresh EXCEPT ![x] = None]
  /\ UNCHANGED <<public, migrations, catalog, prompt, question, pool>>

\* A table is created or dropped.
Migrate(t) ==
  /\ migrations < MaxMigrations
  /\ public' = IF t \in public THEN public \ {t} ELSE public \cup {t}
  /\ migrations' = migrations + 1
  /\ UNCHANGED <<catalog, prompt, refresh, question, pool>>

----------------------------------------------------------------------------
(* A question. *)

Goes(x, step) == question' = [question EXCEPT ![x].step = step]
others == <<public, migrations, catalog, refresh>>

\* The router picked a tool; the registry lets nobody but ICT and administrators use
\* some of them.  A search without words is answered at once.
Execute(x, tool, ict) ==
  /\ question[x].step = "idle"
  /\ question' = [question EXCEPT ![x] = [@ EXCEPT
       !.tool = tool,
       !.step = IF tool \in Guarded /\ ~ict THEN "failed"
                ELSE IF tool = "runSqlQuery" THEN "generate" ELSE "run",
       !.sql  = IF tool = "runSqlQuery" THEN question[x].sql ELSE FixedQuery[tool]]]
  /\ UNCHANGED <<others, prompt, pool>>

SearchesNothing(x) ==
  /\ question[x].step = "idle"
  /\ question' = [question EXCEPT ![x] = [@ EXCEPT !.tool = "searchDocuments",
                                            !.step = "answered", !.ok = TRUE]]
  /\ UNCHANGED <<others, prompt, pool>>

\* buildPromptSchema: the text is built when there is none.
BuildPrompt(x) ==
  /\ question[x].step = "generate"
  /\ prompt' = IF prompt = None THEN catalog ELSE prompt
  /\ Goes(x, "model")
  /\ UNCHANGED <<others, pool>>

\* The model writes a query, or says that the tables hold no answer.
Generate(x, q) ==
  /\ question[x].step = "model"
  /\ question' = [question EXCEPT ![x] = [@ EXCEPT !.step = "run", !.sql = q]]
  /\ UNCHANGED <<others, prompt, pool>>

NothingToQuery(x) ==
  /\ question[x].step = "model"
  /\ question' = [question EXCEPT ![x] = [@ EXCEPT !.step = "answered", !.ok = TRUE]]
  /\ UNCHANGED <<others, prompt, pool>>

\* It cannot be reached, takes too long, or its answer is no JSON: the tool fails.
ModelFails(x) ==
  /\ question[x].step = "model"
  /\ Goes(x, "failed")
  /\ UNCHANGED <<others, prompt, pool>>

\* validate: one plain SELECT over tables of the catalogue and none of the denied.
Accepts(q) ==
  /\ q.plain
  /\ q.tables # {}
  /\ q.tables \cap Denied = {}
  /\ q.tables \subseteq catalog.tables

\* enforceRowLimit: the first LIMIT of the text, wherever it stands, is taken for the
\* query's own; the largest number of rows the query may then return.
AtMost(m, n) == IF m < n THEN m ELSE n
RowLimit(q) ==
  CASE q.limit = None -> MaxRows
    [] q.inner        -> MaxSize
    [] OTHER          -> AtMost(q.limit, MaxRows)

\* Mutant: the model is asked twice more.
RetryTwice(q) ==
  IF q.tool = "runSqlQuery" /\ q.attempt <= 2
  THEN [q EXCEPT !.step = "generate", !.attempt = @ + 1]
  ELSE [q EXCEPT !.step = "failed"]

\* runSqlQuery asks the model once more, with the error; other tools give up.
Retry(q) ==
  IF q.tool = "runSqlQuery" /\ q.attempt = 1
  THEN [q EXCEPT !.step = "generate", !.attempt = 2]
  ELSE [q EXCEPT !.step = "failed"]

Validate(x) ==
  /\ question[x].step = "run"
  /\ question' = [question EXCEPT ![x] = IF Accepts(@.sql) THEN [@ EXCEPT !.step = "connect"]
                                         ELSE Retry(@)]
  /\ UNCHANGED <<others, prompt, pool>>

Connect(x, c) ==
  /\ question[x].step = "connect" /\ pool[c] = "idle"
  /\ pool' = [pool EXCEPT ![c] = "clean"]
  /\ question' = [question EXCEPT ![x] = [@ EXCEPT !.step = "begin", !.conn = c]]
  /\ UNCHANGED <<others, prompt>>

\* BEGIN TRANSACTION READ ONLY and SET LOCAL statement_timeout.
Begin(x) ==
  /\ question[x].step = "begin"
  /\ pool' = [pool EXCEPT ![question[x].conn] = "tx"]
  /\ Goes(x, "select")
  /\ UNCHANGED <<others, prompt>>

BeginFails(x) ==
  /\ question[x].step = "begin"
  /\ question' = [question EXCEPT ![x] = [@ EXCEPT !.step = "rollback", !.ok = FALSE]]
  /\ UNCHANGED <<others, prompt, pool>>

\* The query matches size rows and returns what its limit allows.  runSqlQuery, getOrders
\* and searchDocuments pass `truncated` on, generateReport does not.
Select(x, size) ==
  LET q == question[x]
      rows == AtMost(size, RowLimit(q.sql)) IN
  /\ q.step = "select"
  /\ q.sql.tables \subseteq public
  /\ question' = [question EXCEPT ![x] = [@ EXCEPT
       !.step = "rollback", !.ok = TRUE, !.size = size, !.rows = rows,
       !.told = (rows >= MaxRows /\ q.tool # "generateReport")]]
  /\ UNCHANGED <<others, prompt, pool>>

\* The statement times out, or the database refuses it: a table is gone, a column invented.
SelectFails(x) ==
  /\ question[x].step = "select"
  /\ question' = [question EXCEPT ![x] = [@ EXCEPT !.step = "rollback", !.ok = FALSE]]
  /\ UNCHANGED <<others, prompt, pool>>

\* finally: ROLLBACK and release.  When the ROLLBACK fails the connection is broken, and
\* the pool replaces a broken connection by a new one.
Release(x) ==
  LET q == [question[x] EXCEPT !.conn = None] IN
  /\ q.step = "rollback"
  /\ pool' = [pool EXCEPT ![question[x].conn] = "idle"]
  /\ question' = [question EXCEPT ![x] = IF q.ok THEN [q EXCEPT !.step = "answered"]
                                         ELSE Retry(q)]
  /\ UNCHANGED <<others, prompt>>

----------------------------------------------------------------------------
\* The steps a question takes of itself: the model answers or times out, and so does the
\* database.
Progress(x) ==
  \/ BuildPrompt(x)
  \/ \E q \in Generated : Generate(x, q)
  \/ NothingToQuery(x) \/ ModelFails(x) \/ Validate(x)
  \/ \E c \in Conns : Connect(x, c)
  \/ Begin(x) \/ BeginFails(x)
  \/ \E n \in 0..MaxSize : Select(x, n)
  \/ SelectFails(x) \/ Release(x)

Next ==
  \/ \E x \in Questions :
       \/ \E tool \in Tools, ict \in BOOLEAN : Execute(x, tool, ict)
       \/ SearchesNothing(x)
       \/ Progress(x)
  \/ \E x \in Refreshers : ReadTables(x) \/ Publish(x) \/ RefreshFails(x)
  \/ \E t \in Tables : Migrate(t)

Spec == Init /\ [][Next]_vars /\ \A x \in Questions : WF_vars(Progress(x))

----------------------------------------------------------------------------
(* Properties *)

\* What the model is shown is the catalogue the guard goes by, whatever refreshes overlap,
\* and nothing in it points to a table that is not there or is hidden.
PromptTrue ==
  /\ prompt \in {None, catalog}
  /\ catalog.tables \cap Denied = {}
  /\ catalog.relations \subseteq Among(catalog.tables)

\* Whoever is given fewer rows than there are because of the limit is told so
\* (ReadOnlyQueryResult.truncated); the reports are the exception.
TruncatedTold ==
  \A x \in Questions : LET q == question[x] IN
    q.step = "answered" /\ q.rows < q.size /\ q.tool # "generateReport" =>
      \/ q.told
      \/ q.sql.limit # None /\ q.rows = q.sql.limit \* the question asked for no more

\* A connection nobody holds is outside every transaction, and a question that is over
\* holds none.
PoolClean ==
  /\ \A c \in Conns : (\A x \in Questions : question[x].conn # c) => pool[c] = "idle"
  /\ \A x \in Questions : question[x].step \in {"answered", "failed"} => question[x].conn = None

\* In the end every question a tool was picked for is answered or given up, with the pool
\* at its limit and the model wrong each time.
Idle(x) == question[x].step \in {"idle", "answered", "failed"}
=============================================================================
