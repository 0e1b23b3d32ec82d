------------------------------- MODULE Portal -------------------------------
(***************************************************************************)
(* The backend of the portal: the assistant, its queries and its reports,  *)
(* presence, the libraries of documents and videos, the files of tenders   *)
(* and campaigns, the reader and the digest of the mailbox, login and      *)
(* recovery, the log of activities, the questions of the bot to the        *)
(* databases, the documentation of Oracle.  They share no state that these *)
(* models tell apart, so a behaviour follows one of them, the one in       *)
(* focus, and the state space is the sum of theirs and not the product.    *)
(***************************************************************************)
EXTENDS Naturals, Sequences, FiniteSets

CONSTANTS
  None, Nobody,
  \* conversations with the assistant
  Sessions, Old, ChatRequests, MaxSessions, MaxMessages, MaxExpiries,
  \* questions beside each other, and questions beside refreshes of the catalogue
  Tables, Denied, Curated, Links, FirstPublic, Generated, FixedQuery, Conns, QueryRows, MaxSize,
  QueryQuestions, CatalogQuestions, CatalogRefreshers, MaxMigrations,
  \* presence
  Users, NoUser, Sockets, Claim, Cookie, Gateways, OnlineFaults,
  \* the tree of folders; the files in them
  Root, FolderNames, TreeFolders, TreeFiles, TreePaths, TreeDepth,
  LibraryFolders, LibraryFiles, LibraryPaths, LibraryDepth, DocumentCrashes,
  \* training videos
  Uploads, Chunks, Sends, UploadOf, Chunk, Completes, VideoCrashes,
  \* the mailbox and its digest
  MaxUid, MaxValidity, MailCrashes, DigestUid, Sender, Verdicts, DigestLimit,
  \* login, recovery, sessions
  AccountRequests, AccountKind, Who, TwoFactor, Connections, MaxTokens,
  \* questions to Oracle, and the documentation of its schema
  Jobs, JobKind, OracleConns, MaxDeaths, AskQuestions, LookUp, Run, Callers, AskTables,
  Objects, Refreshes, Keys, HistoryLimit, MaxDDL, MaxTicks, MaxRestarts,
  \* fixed reports
  Years, Todays, Asked, Firms, MaxDocs, ReportRows, Latest,
  \* attachments of a campaign; files of a tender
  Addresses, FileNames, Starts, MaxPauses, CampaignFaults,
  TenderUploads, Saves, SaveUploads, TenderFaults,
  \* the log of activities
  LogUsers, Companies, CompanyOf, WrittenFor, External, Grain, MaxTime, LogRows, PageLimit

VARIABLES
  focus,
  meta, msgs, index, req, expiries, chats, gone, quiet,
  public, migrations, catalog, prompt, refresh, question, pool,
  gateway, open, closed, joined, left, key, sets, tracked, said, faults, astray,
  folders, files, disk, pending, trash, listed, docCrashes,
  part, written, session, tmp, send, complete, video, saving, records, doomed, seenVideos,
  videoCrashes, overdue,
  validity, uidNext, cursor, base, job, hand, told, lost, repeat, booting, mailCrashes,
  at, holds, seen, scanned, from, row, issued, mailed, stale, verified, password, live,
  conn, dbJob, deaths, ranAs, changed, known, ask,
  schema, changedAt, ddl, tick, secret, file, snapMeta, cached, running, check, restarts,
  unread, present, step, uids, mails, given, byIndex, items, screen,
  oracle, today, call, acts, payments, read, answer,
  attached, status, queued, campaign, held, start, worker, deleting, spent, saves, past, mail,
  rows, bucket, save, broken, halves, loaded,
  now, log, visible, list, pages, began

assistantVars == <<meta, msgs, index, req, expiries, chats, gone, quiet>>
queryVars     == <<public, migrations, catalog, prompt, refresh, question, pool>>
presenceVars  == <<gateway, open, closed, joined, left, key, sets, tracked, said, faults, astray>>
documentVars  == <<folders, files, disk, pending, trash, listed, docCrashes>>
videoVars     == <<part, written, session, tmp, send, complete, video, saving, records, doomed,
                   seenVideos, videoCrashes, overdue>>
mailVars      == <<validity, uidNext, cursor, base, job, hand, told, lost, repeat, booting,
                   mailCrashes>>
accountVars   == <<at, holds, seen, scanned, from, row, issued, mailed, stale, verified, password,
                   live>>
askVars       == <<conn, dbJob, deaths, ranAs, changed, known, ask>>
docsVars      == <<schema, changedAt, ddl, tick, secret, file, snapMeta, cached, running, check,
                   restarts>>
digestVars    == <<unread, present, step, uids, mails, given, byIndex, items, screen>>
reportVars    == <<oracle, today, call, acts, payments, read, answer>>
campaignVars  == <<attached, status, queued, campaign, held, start, worker, deleting, spent, saves,
                   past, mail>>
tenderVars    == <<rows, bucket, save, broken, halves, loaded>>
activityVars  == <<now, log, visible, list, pages, began>>
vars == <<focus, assistantVars, queryVars, presenceVars, documentVars, videoVars, mailVars,
          accountVars, askVars, docsVars, digestVars, reportVars, campaignVars, tenderVars,
          activityVars>>

Chats == INSTANCE Assistant WITH Requests <- ChatRequests, known <- chats

Queries == INSTANCE AssistantQueries WITH
  Questions <- QueryQuestions, Refreshers <- {}, MaxRows <- QueryRows, MaxMigrations <- 0
Catalog == INSTANCE AssistantQueries WITH
  Questions <- CatalogQuestions, Refreshers <- CatalogRefreshers, MaxRows <- QueryRows

Online == INSTANCE Presence WITH MaxFaults <- OnlineFaults

Tree == INSTANCE Documents WITH
  Folders <- TreeFolders, Files <- TreeFiles, Names <- FolderNames, Paths <- TreePaths,
  MaxDepth <- TreeDepth, MaxCrashes <- DocumentCrashes, known <- listed, crashes <- docCrashes
Library == INSTANCE Documents WITH
  Folders <- LibraryFolders, Files <- LibraryFiles, Names <- FolderNames, Paths <- LibraryPaths,
  MaxDepth <- LibraryDepth, MaxCrashes <- DocumentCrashes, known <- listed, crashes <- docCrashes

Training == INSTANCE Videos WITH
  Upload <- UploadOf, MaxCrashes <- VideoCrashes,
  meta <- session, known <- seenVideos, crashes <- videoCrashes

Mailbox == INSTANCE MailReader WITH MaxCrashes <- MailCrashes, crashes <- mailCrashes
Digest  == INSTANCE MailDigest WITH MaxUid <- DigestUid, Limit <- DigestLimit, pc <- step

Logins == INSTANCE Accounts WITH
  Requests <- AccountRequests, Kind <- AccountKind, Conns <- Connections

Ask == INSTANCE AskDatabase WITH
  Kind <- JobKind, Conns <- OracleConns, Questions <- AskQuestions, Tables <- AskTables,
  job <- dbJob, question <- ask
Docs == INSTANCE SchemaDocs WITH meta <- snapMeta, req <- check

Reports == INSTANCE LogisticsReports WITH MaxRows <- ReportRows

Campaign == INSTANCE Attachments WITH
  Rows <- Addresses, Names <- FileNames, MaxFaults <- CampaignFaults,
  disk <- attached, job <- queued, running <- campaign
Tender == INSTANCE TenderFiles WITH
  Files <- TenderUploads, Uploads <- SaveUploads, Nothing <- None, MaxFaults <- TenderFaults,
  faults <- broken

Activity == INSTANCE ActivityLog WITH
  Users <- LogUsers, MaxRows <- LogRows, Limit <- PageLimit, base <- began

\* What the components assume of their constants.
ASSUME ComponentsAssumption ==
  /\ Chats!AssistantAssumption /\ Queries!AssistantQueriesAssumption
  /\ Catalog!AssistantQueriesAssumption /\ Online!PresenceAssumption
  /\ Tree!DocumentsAssumption /\ Library!DocumentsAssumption /\ Training!VideosAssumption
  /\ Mailbox!MailReaderAssumption /\ Logins!AccountsAssumption
  /\ Ask!AskDatabaseAssumption /\ Docs!SchemaDocsAssumption
  /\ Digest!MailDigestAssumption /\ Reports!LogisticsReportsAssumption
  /\ Campaign!AttachmentsAssumption /\ Tender!TenderFilesAssumption
  /\ Activity!ActivityLogAssumption /\ FirstPublic \subseteq Tables /\ Todays # {}

FirstToday == CHOOSE t \in Todays : TRUE

\* A component that is not in focus has one initial state, and keeps it.
Init ==
  /\ focus \in {"chats", "queries", "catalog", "online", "tree", "library", "training",
               "mailbox", "logins", "ask", "docs", "digest", "reports", "campaign", "tender",
               "activity"}
  /\ Chats!Init
  /\ public = FirstPublic
  /\ IF focus = "queries" THEN Queries!Init ELSE Catalog!Init
  /\ Online!Init /\ (focus # "online" => gateway = "user")
  /\ IF focus = "tree" THEN Tree!Init ELSE Library!Init
  /\ Training!Init /\ Mailbox!Init
  /\ Logins!Init /\ (focus # "logins" => verified = {})
  /\ Ask!AskInit /\ (focus # "ask" => known = {})
  /\ Docs!Init /\ (focus # "docs" => secret = None)
  /\ Digest!Init /\ (focus # "digest" => unread = {})
  /\ Reports!Init /\ (focus # "reports" => today = FirstToday /\ ~oracle)
  /\ Campaign!Init /\ Activity!Init
  /\ Tender!Init /\ (focus # "tender" => rows = {})

Keep(components, component) == IF focus \in components THEN TRUE ELSE UNCHANGED component
Rest ==
  /\ UNCHANGED focus
  /\ Keep({"chats"}, assistantVars) /\ Keep({"queries", "catalog"}, queryVars)
  /\ Keep({"online"}, presenceVars) /\ Keep({"tree", "library"}, documentVars)
  /\ Keep({"training"}, videoVars) /\ Keep({"mailbox"}, mailVars)
  /\ Keep({"logins"}, accountVars) /\ Keep({"ask"}, askVars) /\ Keep({"docs"}, docsVars)
  /\ Keep({"digest"}, digestVars) /\ Keep({"reports"}, reportVars)
  /\ Keep({"campaign"}, campaignVars) /\ Keep({"tender"}, tenderVars)
  /\ Keep({"activity"}, activityVars)

Next ==
  /\ Rest
  /\ \/ focus = "chats" /\ Chats!Next
     \/ focus = "queries" /\ Queries!Next
     \/ focus = "catalog" /\ Catalog!Next
     \/ focus = "online" /\ Online!Next
     \/ focus = "tree" /\ Tree!Next
     \/ focus = "library" /\ Library!Next
     \/ focus = "training" /\ Training!Next
     \/ focus = "mailbox" /\ Mailbox!Next
     \/ focus = "logins" /\ Logins!Next
     \/ focus = "ask" /\ Ask!Next
     \/ focus = "docs" /\ Docs!Next
     \/ focus = "digest" /\ Digest!Next
     \/ focus = "reports" /\ Reports!Next
     \/ focus = "campaign" /\ Campaign!Next
     \/ focus = "tender" /\ Tender!Next
     \/ focus = "activity" /\ Activity!Next

\* The fairness of the components whose requests must end.
Fairness ==
  /\ \A r \in ChatRequests : WF_vars(focus = "chats" /\ Rest /\ Chats!Progress(r))
  /\ \A x \in QueryQuestions : WF_vars(focus = "queries" /\ Rest /\ Queries!Progress(x))
  /\ \A r \in AccountRequests : WF_vars(focus = "logins" /\ Rest /\ Logins!Step(r))
  /\ \A x \in AskQuestions : WF_vars(focus = "ask" /\ Rest /\ Ask!Progress(x))

Spec == Init /\ [][Next]_vars /\ Fairness

\* The types of the component in focus.
TypeOK ==
  CASE focus = "chats"    -> Chats!TypeOK
    [] focus = "queries"  -> Queries!TypeOK
    [] focus = "catalog"  -> Catalog!TypeOK
    [] focus = "online"   -> Online!TypeOK
    [] focus = "tree"     -> Tree!TypeOK
    [] focus = "library"  -> Library!TypeOK
    [] focus = "training" -> Training!TypeOK
    [] focus = "mailbox"  -> Mailbox!TypeOK
    [] focus = "logins"   -> Logins!TypeOK
    [] focus = "ask"      -> Ask!AskTypeOK
    [] focus = "docs"     -> Docs!TypeOK
    [] focus = "digest"   -> Digest!TypeOK
    [] focus = "reports"  -> Reports!TypeOK
    [] focus = "campaign" -> Campaign!TypeOK
    [] focus = "tender"   -> Tender!TypeOK
    [] focus = "activity" -> Activity!TypeOK

(* The properties of the components, each on the instance that is in focus. *)

\* A conversation that was deleted or cleared stays so, and an answer follows its
\* question (redis-chat-history.store.ts).
ErasedStaysErased == focus = "chats" => Chats!ErasedStaysErased /\ Chats!AnswerFollows

\* What is shown is true: the prompt names what may be read, a list that was cut is called
\* so, no connection keeps a transaction or the mark of a person, rows come of statements
\* that only read; the debts told are those of the books, and the pages of the log of
\* activities show every row of it once (sql-guard.service.ts, tool-registry.service.ts,
\* database-oracle.service.ts, logistics-tools.service.ts, user-activity.repository.ts).
AnswersSound ==
  /\ focus = "queries" => Queries!PromptTrue /\ Queries!TruncatedTold /\ Queries!PoolClean
  /\ focus = "catalog" => Catalog!PromptTrue
  /\ focus = "ask" => Ask!SessionsClean /\ Ask!RowsAreRead
  /\ focus = "reports" => Reports!DebtsTrue
  /\ focus = "activity" => Activity!PagesSound

\* What is computed is right: a report has the days its period means, the totals of the
\* logins are those of the log, and the digest is true of the mailbox (period.util.ts,
\* user-activity.repository.ts, mail-reader.service.ts).
ReportsTrue ==
  /\ focus = "reports" => Reports!PeriodsTrue
  /\ focus = "activity" => Activity!ReportAddsUp
  /\ focus = "digest" => Digest!DigestSound

\* What a list names is there: the folders of documents form a tree of bounded depth, the
\* file of a document is in one of them and on the disk, a listed video has every chunk,
\* rows of files and objects of S3 belong together, and a save leaves what its form said
\* (documents.service.ts, training.service.ts, files.service.ts).
LibrarySound ==
  /\ focus = "tree" => Tree!TreeSound /\ Tree!NoDangling
  /\ focus = "library" => Library!TreeSound /\ Library!NoDangling
  /\ focus = "training" => Training!WholeVideos
  /\ focus = "tender" => Tender!RowsHaveObjects /\ Tender!SaveExact

\* Who is to be told is told: a user whose last socket is gone is announced to be offline
\* (user.gateway.ts), every mail that comes in is told, skipped or lost in a way that is
\* accounted for (mail-reader.service.ts), and one of a campaign carries the attachments
\* of one start (mailing.service.ts).
NewsTold ==
  /\ focus = "online" => Online!OfflineTold
  /\ focus = "mailbox" => Mailbox!Accounted
  /\ focus = "campaign" => Campaign!MailCarriesFiles

\* A refresh has read what was changed before it was asked for, and the history of a
\* snapshot continues that of the one before (oracle-schema-docs.service.ts).
DocsTrue == Docs!DocsTrue

\* Requests to the assistant, to the tools, of accounts and of the bot come to an end.
RequestsEnd ==
  <>[](/\ focus = "chats" => \A r \in ChatRequests : Chats!Idle(r)
       /\ focus = "queries" => \A x \in QueryQuestions : Queries!Idle(x)
       /\ focus = "logins" => \A r \in AccountRequests : Logins!Idle(r)
       /\ focus = "ask" => \A x \in AskQuestions : Ask!Idle(x))
=============================================================================
