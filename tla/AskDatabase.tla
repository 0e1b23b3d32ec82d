----------------------------- MODULE AskDatabase ----------------------------
(***************************************************************************)
(* A question to the language model in the bot, from the message to its    *)
(* answer: the voice is written down, the model picks tables and writes a  *)
(* statement, the statement is looked over and run, the rows are put into  *)
(* words.  Statements for Oracle go through the pool that the plates and   *)
(* the reports of the portal use at the same time.                         *)
(*                                                                         *)
(* Nothing here throws to its caller: every failure has an answer of its   *)
(* own.  Texts are left out; a statement is told apart by whether it       *)
(* changes data, and how.                                                  *)
(***************************************************************************)
EXTENDS OraclePool

CONSTANTS
  Questions,
  LookUp,    \* LookUp[q]: the job that reads the columns of the chosen tables
  Run,       \* Run[q]: the job of its statement
  Callers,   \* jobs of the rest of the backend
  Tables     \* table names the model may answer

AskDatabaseAssumption ==
  /\ OraclePoolAssumption
  /\ LookUp \in [Questions -> Jobs] /\ Run \in [Questions -> Jobs]
  /\ \A q \in Questions : Kind[LookUp[q]] = "query" /\ Kind[Run[q]] = "readonly"
  /\ Callers = Jobs \ {r[q] : q \in Questions, r \in {LookUp, Run}}

VARIABLES
  known,    \* the table names the service read when it started
  question  \* question[q]: [pc, voice, text, base, report, schema, statement, answer]

askVars == <<known, question>>

Statements == {"select", "write", "hidden"}  \* hidden: a function that changes data
NewQuestion == [pc |-> "new", voice |-> FALSE, text |-> TRUE, base |-> "postgres",
                report |-> FALSE, schema |-> "static", statement |-> "select", answer |-> "none"]

AskTypeOK ==
  /\ TypeOK
  /\ known \subseteq Tables
  /\ question \in [Questions ->
       [pc : {"new", "roles", "voice", "choose", "columns", "pgColumns", "generate", "validate", "run",
              "running", "format", "answered"},
        voice : BOOLEAN, text : BOOLEAN, base : {"postgres", "oracle"}, report : BOOLEAN,
        schema : {"static", "chosen"}, statement : Statements,
        answer : {"none", "denied", "noVoice", "reply", "unclear", "rejected", "dbError",
                  "words", "raw"}]]

\* The list of tables is read once, when the service starts, or not at all.
AskInit ==
  /\ Init
  /\ known \in SUBSET Tables
  /\ question = [q \in Questions |-> NewQuestion]

At(q, pc) == question[q].pc = pc
Moves(q, pc) == question' = [question EXCEPT ![q].pc = pc] /\ UNCHANGED known
Answers(q, a) ==
  question' = [question EXCEPT ![q] = [@ EXCEPT !.pc = "answered", !.answer = a]] /\ UNCHANGED known

\* A message in a scene: the AI scene has a database picked by its buttons, the
\* scene of reports is Postgres.
Ask(q) ==
  /\ At(q, "new")
  /\ \E base \in {"postgres", "oracle"}, report, voice \in BOOLEAN :
       /\ report => base = "postgres"
       /\ question' = [question EXCEPT ![q] = [@ EXCEPT
                !.pc = "roles", !.base = base, !.report = report, !.voice = voice, !.text = ~voice]]
  /\ UNCHANGED <<known, poolVars>>

\* handleAiQuery looks at the roles itself.
CheckRoles(q) ==
  /\ At(q, "roles")
  /\ \/ Answers(q, "denied")
     \/ Moves(q, IF question[q].voice THEN "voice" ELSE "choose")
  /\ UNCHANGED poolVars

\* transcribeVoice: without its words the recording itself goes to the model.
Transcribe(q) ==
  /\ At(q, "voice")
  /\ \/ Answers(q, "noVoice")
     \/ \E text \in BOOLEAN :
          /\ question' = [question EXCEPT ![q] = [@ EXCEPT !.pc = "choose", !.text = text]]
          /\ UNCHANGED known
  /\ UNCHANGED poolVars

\* findOracleTables: what the model names, nothing when it fails.  Names that the
\* service does not know are dropped, and with none left nothing is read.
ChooseOracleTables(q) ==
  /\ At(q, "choose") /\ question[q].base = "oracle"
  /\ \E chosen \in SUBSET Tables :
       IF chosen \cap known = {}
       THEN Moves(q, "generate") /\ UNCHANGED poolVars
       ELSE Moves(q, "columns") /\ Call(LookUp[q], FALSE)

\* getTableColumns: no columns when the query fails or the tables are gone, and then
\* the schema that the source holds is used.
ReadColumns(q) ==
  /\ At(q, "columns") /\ job[LookUp[q]].pc = "ended"
  /\ \E schema \in IF job[LookUp[q]].failed THEN {"static"} ELSE {"static", "chosen"} :
       question' = [question EXCEPT ![q] = [@ EXCEPT !.pc = "generate", !.schema = schema]]
  /\ UNCHANGED <<known, poolVars>>

\* findPostgresTables; a report skips it.
ChoosePostgresTables(q) ==
  /\ At(q, "choose") /\ question[q].base = "postgres"
  /\ Moves(q, "generate") \/ (~question[q].report /\ Moves(q, "pgColumns"))
  /\ UNCHANGED poolVars

\* getTableColumns: for Postgres the columns are looked up as well, but the prompt has no
\* place for them.
ReadPostgresColumns(q) ==
  /\ At(q, "pgColumns")
  /\ Moves(q, "generate")
  /\ UNCHANGED poolVars

\* generateDbQuery: the model answers with words, as it does when it fails; with
\* nothing to run; or with a statement for the database that it names.
Generate(q) ==
  /\ At(q, "generate")
  /\ \/ Answers(q, "reply")
     \/ Answers(q, "unclear")
     \/ \E base \in {"postgres", "oracle"}, s \in Statements :
          /\ question' = [question EXCEPT ![q] = [@ EXCEPT !.pc = "validate", !.base = base,
                                                    !.statement = s]]
          /\ UNCHANGED known
  /\ UNCHANGED poolVars

\* validateReadOnlySql knows the words of statements, not what a function does.
Validate(q) ==
  /\ At(q, "validate")
  /\ IF question[q].statement = "write" THEN Answers(q, "rejected") ELSE Moves(q, "run")
  /\ UNCHANGED poolVars

\* executeReadOnlyQuery.
RunOracle(q) ==
  /\ At(q, "run") /\ question[q].base = "oracle"
  /\ Moves(q, "running")
  /\ Call(Run[q], question[q].statement # "select")

OracleRan(q) ==
  /\ At(q, "running") /\ job[Run[q]].pc = "ended"
  /\ IF job[Run[q]].failed THEN Answers(q, "dbError") ELSE Moves(q, "format")
  /\ UNCHANGED poolVars

\* runReadOnlyQuery: a transaction of its own, BEGIN TRANSACTION READ ONLY to
\* ROLLBACK, with a timeout; Postgres refuses what changes data.
RunPostgres(q) ==
  /\ At(q, "run") /\ question[q].base = "postgres"
  /\ Answers(q, "dbError") \/ (question[q].statement = "select" /\ Moves(q, "format"))
  /\ UNCHANGED poolVars

\* formatAnswer: the rows as they are when the model fails.
FormatAnswer(q) ==
  /\ At(q, "format")
  /\ \E a \in {"words", "raw"} : Answers(q, a)
  /\ UNCHANGED poolVars

\* The bot's part of a question.
Handle(q) ==
  \/ CheckRoles(q) \/ Transcribe(q) \/ ChooseOracleTables(q) \/ ReadColumns(q)
  \/ ChoosePostgresTables(q) \/ ReadPostgresColumns(q) \/ Generate(q) \/ Validate(q) \/ RunOracle(q) \/ OracleRan(q)
  \/ RunPostgres(q) \/ FormatAnswer(q)

\* The pool's part.
Serve(j) == Work(j) /\ UNCHANGED askVars

Next ==
  \/ \E q \in Questions : Ask(q) \/ Handle(q)
  \/ \E j \in Callers, w \in BOOLEAN :
       (w => Kind[j] \in {"plsql", "procedure"}) /\ Call(j, w) /\ UNCHANGED askVars
  \/ \E j \in Jobs : Serve(j)
  \/ \E c \in Conns : Die(c) /\ UNCHANGED askVars

\* Steps that the question itself is waiting for.
Progress(q) == Handle(q) \/ \E j \in {LookUp[q], Run[q]} : Serve(j)

(***************************************************************************)
(* Properties                                                              *)
(***************************************************************************)
\* Rows are shown only of a statement that was run as one that cannot change
\* anything, and a question whose statement would change data shows none.
RowsAreRead ==
  \A q \in Questions : question[q].answer \in {"words", "raw"} =>
    /\ question[q].statement = "select"
    /\ question[q].base = "oracle" => ~job[Run[q]].failed

\* A question that was asked is answered, whatever fails (RequestsEnd of the
\* composition asks it of every one).
Idle(q) == question[q].pc \in {"new", "answered"}
=============================================================================
