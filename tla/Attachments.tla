---------------------------- MODULE Attachments ----------------------------
(***************************************************************************)
(* The attachments of one campaign: startMailing leaves the files of its   *)
(* form in uploads/mailings/<id>, the worker reads the directory when it   *)
(* sends a mail, the nightly cleanup of uploads/ removes what the table    *)
(* files does not name, and it names none of these.  Title and text travel *)
(* in the job, the attachments do not.  What Mailing tells apart of the    *)
(* queue and of the worker's bookkeeping is one step here.                 *)
(***************************************************************************)
EXTENDS Naturals, Sequences, FiniteSets, Functions

CONSTANTS
  Rows,       \* addresses of the campaign
  Names,      \* names of attachments
  Starts,     \* requests to start or to resume the campaign
  Nobody,     \* no start: no file, no job
  MaxPauses, MaxFaults  \* bounds: pauses; cleanups and restarts

AttachmentsAssumption ==
  /\ Nobody \notin Starts
  /\ MaxPauses \in Nat /\ MaxFaults \in Nat

VARIABLES
  disk,     \* disk[n]: the start that wrote attachment n
  status,   \* status[r]: ids_status
  job,      \* job[r]: the start whose title and text the queued job carries
  running,  \* the campaign in runningJobs: "none", "RUNNING" or "PAUSED"
  held,     \* the queue is paused
  start,    \* start[g]: [at, files, rows]: next step, files of the form, rows SELECTed
  worker,   \* [at, row, names, read]: next step, names to read, what was read
  deleting, \* deleteMailing: "no", "rows" gone, or "done"
  spent,    \* [pauses, faults]
  saves,    \* history: the starts that wrote files, in order
  past,     \* history: [taken, changed]: files were taken away since the last of them; the
            \* directory has changed since the worker read its names
  mail      \* history: the mails that were sent, row -> [text, files, saves, past]

vars == <<disk, status, job, running, held, start, worker, deleting, spent, saves, past, mail>>

Idle == [at |-> "idle", row |-> Nobody, names |-> {}, read |-> {}]
Form(at, files, rows) == [at |-> at, files |-> files, rows |-> rows]

Init ==
  /\ disk = [n \in Names |-> Nobody]
  /\ status = [r \in Rows |-> "PENDING"] /\ job = [r \in Rows |-> Nobody]
  /\ running = "none" /\ held = FALSE
  /\ start = [g \in Starts |-> Form("new", {}, {})]
  /\ worker = Idle /\ deleting = "no"
  /\ spent = [pauses |-> 0, faults |-> 0]
  /\ saves = <<>> /\ past = [taken |-> FALSE, changed |-> FALSE] /\ mail = <<>>

Stored == {n \in Names : disk[n] # Nobody}
Spend(what, bound) == spent[what] < bound /\ spent' = [spent EXCEPT ![what] = @ + 1]
Step(g, from, to) == start[g].at = from /\ start' = [start EXCEPT ![g].at = to]

-----------------------------------------------------------------------------
(* startMailing *)

\* What the panel knows of the campaign allows it; the files of the form come along.
StartMailing(g) ==
  /\ start[g].at = "new" /\ deleting = "no"
  /\ running # "RUNNING"
  /\ \E r \in Rows : status[r] \in {"PENDING", "PROCESSING"}
  /\ \E F \in SUBSET Names : start' = [start EXCEPT ![g] = Form("save", F, {})]
  /\ UNCHANGED <<disk, status, job, running, held, worker, deleting, spent, saves, past, mail>>

\* A start without files keeps those that are there.
SaveFiles(g) ==
  /\ Step(g, "save", "reset")
  /\ IF start[g].files = {} THEN UNCHANGED <<disk, saves, past>>
     ELSE /\ disk' = [n \in Names |-> IF n \in start[g].files THEN g ELSE Nobody]
          /\ saves' = Append(saves, g)
          /\ past' = [taken |-> FALSE, changed |-> worker.at = "send"]
  /\ UNCHANGED <<status, job, running, held, worker, deleting, spent, mail>>

ResetStuck(g) ==
  /\ Step(g, "reset", "select")
  /\ status' = [r \in Rows |-> IF status[r] = "PROCESSING" THEN "PENDING" ELSE status[r]]
  /\ UNCHANGED <<disk, job, running, held, worker, deleting, spent, saves, past, mail>>

\* The rows that are left, and the campaign is registered.
Register(g) ==
  /\ start[g].at = "select"
  /\ start' = [start EXCEPT ![g] = [@ EXCEPT !.at = "add",
                                             !.rows = {r \in Rows : status[r] = "PENDING"}]]
  /\ running' = "RUNNING"
  /\ UNCHANGED <<disk, status, job, held, worker, deleting, spent, saves, past, mail>>

\* The queue goes on; a row whose job is still there keeps it, with the text it carries.
Enqueue(g) ==
  /\ start[g].at = "add" /\ start' = [start EXCEPT ![g] = [@ EXCEPT !.at = "done", !.rows = {}]]
  /\ held' = FALSE
  /\ job' = [r \in Rows |-> IF r \in start[g].rows /\ job[r] = Nobody THEN g ELSE job[r]]
  /\ UNCHANGED <<disk, status, running, worker, deleting, spent, saves, past, mail>>

(* pauseMailing, deleteMailing *)

Pause ==
  /\ running = "RUNNING" /\ running' = "PAUSED"
  /\ Spend("pauses", MaxPauses)
  /\ held' = TRUE
  /\ UNCHANGED <<disk, status, job, start, worker, deleting, saves, past, mail>>

DeleteMailing ==
  /\ running # "RUNNING" /\ deleting = "no" /\ deleting' = "rows"
  /\ status' = [r \in Rows |-> "GONE"]
  /\ UNCHANGED <<disk, job, running, held, start, worker, spent, saves, past, mail>>

\* rmSync, and the campaign is forgotten.
RemoveDirectory ==
  /\ deleting = "rows" /\ deleting' = "done"
  /\ disk' = [n \in Names |-> Nobody]
  /\ running' = "none"
  /\ past' = [taken |-> TRUE, changed |-> worker.at = "send"]
  /\ UNCHANGED <<status, job, held, start, worker, spent, saves, mail>>

-----------------------------------------------------------------------------
(* MailingProcessor.process *)

\* A job of a campaign that does not run is skipped, and gone from the queue.
Pick(r) ==
  /\ worker.at = "idle" /\ ~held /\ job[r] # Nobody
  /\ IF running = "RUNNING"
       THEN worker' = [Idle EXCEPT !.at = "read", !.row = r] /\ UNCHANGED job
       ELSE UNCHANGED worker /\ job' = [job EXCEPT ![r] = Nobody]
  /\ UNCHANGED <<disk, status, running, held, start, deleting, spent, saves, past, mail>>

Exists(r) == status[r] # "GONE"
SetStatus(r, s) == status' = IF Exists(r) THEN [status EXCEPT ![r] = s] ELSE status

\* The row is PROCESSING, and the names of the directory are read.
ReadDirectory ==
  /\ worker.at = "read"
  /\ SetStatus(worker.row, "PROCESSING")
  /\ worker' = [worker EXCEPT !.at = "send", !.names = Stored]
  /\ past' = [past EXCEPT !.changed = FALSE]
  /\ UNCHANGED <<disk, job, running, held, start, deleting, spent, saves, mail>>

\* Nodemailer opens the files one after the other, while the mail is sent.
ReadFile(n) ==
  /\ worker.at = "send" /\ n \in worker.names /\ n \in Stored
  /\ worker' = [worker EXCEPT !.names = @ \ {n}, !.read = @ \cup {<<n, disk[n]>>}]
  /\ UNCHANGED <<disk, status, job, running, held, start, deleting, spent, saves, past, mail>>

\* The last row takes the campaign out of runningJobs.
Finish(s) ==
  LET left == {r \in Rows \ {worker.row} : status[r] \in {"PENDING", "PROCESSING"}}
  IN  /\ SetStatus(worker.row, s)
      /\ job' = [job EXCEPT ![worker.row] = Nobody]
      /\ running' = IF left = {} THEN "none" ELSE running
      /\ worker' = Idle
      /\ UNCHANGED <<disk, held, start, deleting, spent, saves, past>>

Send ==
  /\ worker.at = "send" /\ worker.names = {}
  /\ mail' = [r \in DOMAIN mail \cup {worker.row} |->
                IF r # worker.row THEN mail[r]
                ELSE [text |-> job[r], files |-> worker.read, saves |-> Len(saves), past |-> past]]
  /\ Finish("DONE")

\* A file that is no longer there fails the mail, and so does the mail server.
SendFails ==
  /\ worker.at = "send"
  /\ Finish("FAILED")
  /\ UNCHANGED mail

(* FileCleanupService.handleFileCleanup: the walk over uploads/ has no await; *)
(* the attachments of one start have one age, more than ten seconds or not.   *)

HandleFileCleanup ==
  /\ Stored # {}
  /\ Spend("faults", MaxFaults)
  /\ disk' = [n \in Names |-> Nobody]
  /\ past' = [taken |-> TRUE, changed |-> worker.at = "send"]
  /\ UNCHANGED <<status, job, running, held, start, worker, deleting, saves, mail>>

\* A restart: the job the worker held stalls and is run again, later.
Crash ==
  /\ Spend("faults", MaxFaults)
  /\ running' = "none" /\ worker' = Idle
  /\ start' = [g \in Starts |-> IF start[g].at = "new" THEN start[g] ELSE [start[g] EXCEPT !.at = "done"]]
  /\ deleting' = IF deleting = "rows" THEN "done" ELSE deleting
  /\ UNCHANGED <<disk, status, job, held, saves, past, mail>>

Next ==
  \/ \E g \in Starts : StartMailing(g) \/ SaveFiles(g) \/ ResetStuck(g) \/ Register(g) \/ Enqueue(g)
  \/ Pause \/ DeleteMailing \/ RemoveDirectory
  \/ \E r \in Rows : Pick(r)
  \/ ReadDirectory \/ Send \/ SendFails
  \/ \E n \in Names : ReadFile(n)
  \/ HandleFileCleanup \/ Crash
-----------------------------------------------------------------------------
(* Properties *)

\* The steps, files and rows are what the code can make of them.
TypeOK ==
  /\ disk \in [Names -> Starts \cup {Nobody}]
  /\ status \in [Rows -> {"PENDING", "PROCESSING", "DONE", "FAILED", "GONE"}]
  /\ job \in [Rows -> Starts \cup {Nobody}]
  /\ running \in {"none", "RUNNING", "PAUSED"} /\ held \in BOOLEAN
  /\ \A g \in Starts : /\ start[g].at \in {"new", "save", "reset", "select", "add", "done"}
                      /\ start[g].files \subseteq Names /\ start[g].rows \subseteq Rows
  /\ worker.at \in {"idle", "read", "send"} /\ worker.row \in Rows \cup {Nobody}
  /\ deleting \in {"no", "rows", "done"}

\* A mail carries the attachments of one start and all of them, those of the last start
\* before it that brought any; only a cleanup, a deletion or a start while the mail is sent
\* makes it otherwise.  In no case does it carry what was there before the start its
\* text is of brought its own (startMailing, MailingProcessor.process).
MailCarriesFiles ==
  \A r \in DOMAIN mail :
    LET m == mail[r]
        Position(g) == CHOOSE i \in DOMAIN saves : saves[i] = g
    IN  /\ \/ m.past.taken \/ m.past.changed
           \/ m.saves = 0 /\ m.files = {}
           \/ m.saves # 0 /\ m.files = start[saves[m.saves]].files \X {saves[m.saves]}
        /\ m.text \in Range(saves) =>
             \A f \in m.files : Position(f[2]) >= Position(m.text)
=============================================================================
