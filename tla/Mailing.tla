------------------------------ MODULE Mailing ------------------------------
(***************************************************************************)
(* The e-mail campaigns of the admin panel: MailingService (the HTTP       *)
(* handlers and the in-memory registry runningJobs), the table             *)
(* mailing_address, the BullMQ queue 'email-mailing' and the worker        *)
(* MailingProcessor.                                                       *)
(*                                                                         *)
(* Handlers and worker are asynchronous functions of one Node process: the *)
(* code between two awaits is one step, and so is the effect of each       *)
(* awaited query or queue command.  A handler's program counter names what *)
(* it does next.                                                           *)
(***************************************************************************)
EXTENDS Naturals, FiniteSets

CONSTANTS
  Mailings,     \* ids of mailing_content
  Rows,         \* ids of mailing_address (serial: an id is used once)
  HomeOf,       \* HomeOf[r] is the id_content of row r
  Admins,       \* admin requests that can be in flight at once
  NoRow,        \* the worker holds no job
  MaxAttempts,  \* attempts of a job (admin.module.ts: 3)
  MaxStarts,    \* bound: campaign objects startMailing registers
  MaxPauses,    \* bound: pauseMailing calls
  MaxFaults,    \* bound: queries and queue commands that reject
  MaxCrashes    \* bound: restarts of the process

ASSUME MailingAssumption ==
  /\ HomeOf \in [Rows -> Mailings]
  /\ NoRow \notin Rows
  /\ MaxAttempts \in Nat \ {0}
  /\ MaxStarts \in Nat /\ MaxPauses \in Nat /\ MaxFaults \in Nat /\ MaxCrashes \in Nat

VARIABLES
  (* Postgres *)
  live,      \* live[m]: "unborn", "live" or "deleted" row of mailing_content
  status,    \* status[r]: ids_status, "FRESH" before INSERT, "GONE" after DELETE
  (* the process's memory *)
  current,   \* current[m]: the object runningJobs holds for m, 0 when none
  objects,   \* objects[g]: MailingJobState.status of the g-th object
  starts,    \* number of objects registered
  (* Redis: the queue; the job id of row r is a function of r *)
  job,       \* job[r]: the state BullMQ keeps for the job of row r
  attempts,  \* attempts[r]: attemptsMade of that job
  paused,    \* the queue is paused
  (* the worker, concurrency 1 *)
  wpc, wrow, wcamp,  \* next step, row of the job, campaign object it read
  (* admin requests *)
  pc, target, snap, some,  \* next step, mailings, SELECTed rows, stats seen
  (* bounds *)
  pauses, faults, crashes,
  (* history *)
  sent,      \* sent[r]: mails handed to SMTP for row r
  enq,       \* enq[r]: times a job was added for row r
  retries,   \* retries[r]: times BullMQ put r's job back to run again
  runs,      \* runs[m]: objects registered for m
  late       \* late[m]: mails sent while m was not running, since it last was

dbVars     == <<live, status>>
memVars    == <<current, objects, starts>>
queueVars  == <<job, attempts, paused>>
workerVars == <<wpc, wrow, wcamp>>
reqVars    == <<pc, target, snap, some>>
boundVars  == <<pauses, faults, crashes>>
histVars   == <<sent, enq, retries, runs, late>>
vars == <<dbVars, memVars, queueVars, workerVars, reqVars, boundVars, histVars>>

-----------------------------------------------------------------------------
Generations == 1..MaxStarts
RowStates   == {"FRESH", "PENDING", "PROCESSING", "DONE", "FAILED", "GONE"}
JobStates   == {"none", "waiting", "active", "delayed", "stalled", "failed"}
WorkerSteps == {"idle", "check", "mark", "send", "done", "failed", "count",
                "complete", "remove", "finish"}
StartSteps  == {"startCheck", "startReset", "startSelect", "startRegister",
                "startResume", "startAdd"}
AdminSteps  == {"idle", "pauseQueue", "createRows", "addContent", "addInsert",
                "removeRow", "uploadReplace", "uploadInsert",
                "deleteRows", "deleteContent", "deleteForget"} \cup StartSteps

RowsOf(m)     == {r \in Rows : HomeOf[r] = m}
Unfinished(m) == {r \in RowsOf(m) : status[r] \in {"PENDING", "PROCESSING"}}

Fresh(m)      == {r \in RowsOf(m) : status[r] = "FRESH"}  \* ids to INSERT

\* getRunningJob(m)?.status = 'RUNNING', the guard of every handler.
Running(m) == current[m] # 0 /\ objects[current[m]] = "RUNNING"

\* Rows whose job BullMQ still holds in some state, so that a job added under
\* the same id is ignored.
HasJob(r) == job[r] # "none"

Init ==
  /\ live = [m \in Mailings |-> "unborn"]
  /\ status = [r \in Rows |-> "FRESH"]
  /\ current = [m \in Mailings |-> 0]
  /\ objects = [g \in Generations |-> "UNUSED"]
  /\ starts = 0
  /\ job = [r \in Rows |-> "none"]
  /\ attempts = [r \in Rows |-> 0]
  /\ paused = FALSE
  /\ wpc = "idle" /\ wrow = NoRow /\ wcamp = 0
  /\ pc = [a \in Admins |-> "idle"]
  /\ target = [a \in Admins |-> {}]
  /\ snap = [a \in Admins |-> {}]
  /\ some = [a \in Admins |-> FALSE]
  /\ pauses = 0 /\ faults = 0 /\ crashes = 0
  /\ sent = [r \in Rows |-> 0]
  /\ enq = [r \in Rows |-> 0]
  /\ retries = [r \in Rows |-> 0]
  /\ runs = [m \in Mailings |-> 0]
  /\ late = [m \in Mailings |-> 0]

-----------------------------------------------------------------------------
(* Requests.  A slot a that is idle takes a request; an awaited query or     *)
(* queue command may reject, which ends the request where it stands.         *)

Exists(r)  == status[r] \notin {"FRESH", "GONE"}
At(a, step, m) == pc[a] = step /\ target[a] = {m}
Goto(a, step)  == pc' = [pc EXCEPT ![a] = step] /\ UNCHANGED <<target, snap, some>>
Accept(a, step, ms) ==
  /\ pc[a] = "idle"
  /\ pc' = [pc EXCEPT ![a] = step]
  /\ target' = [target EXCEPT ![a] = ms]
  /\ UNCHANGED <<snap, some>>
Respond(a) ==
  /\ pc' = [pc EXCEPT ![a] = "idle"]
  /\ target' = [target EXCEPT ![a] = {}]
  /\ snap' = [snap EXCEPT ![a] = {}]
  /\ some' = [some EXCEPT ![a] = FALSE]

Fault == faults < MaxFaults /\ faults' = faults + 1 /\ UNCHANGED <<pauses, crashes>>

\* Rows in S get status s; the others keep theirs.
SetStatus(S, s) == status' = [r \in Rows |-> IF r \in S THEN s ELSE status[r]]

\* A rejected await: no handler undoes what it did before (the ROLLBACK of
\* deletes and uploads goes to a connection of the pool, see README).
Abort(a) ==
  /\ pc[a] # "idle"
  /\ Fault
  /\ Respond(a)
  /\ UNCHANGED <<dbVars, memVars, queueVars, workerVars, histVars>>

(* startMailing *)

\* getMailingDetails reads mailing_content and the counts ...
StartRead(a, m) ==
  /\ live[m] = "live"
  /\ pc[a] = "idle"
  /\ pc' = [pc EXCEPT ![a] = "startCheck"]
  /\ target' = [target EXCEPT ![a] = {m}]
  /\ some' = [some EXCEPT ![a] = Unfinished(m) # {}]
  /\ UNCHANGED <<snap, dbVars, memVars, queueVars, workerVars, boundVars, histVars>>

\* ... two queries later it reads runningJobs, and startMailing decides.  (A
\* start beyond the bound MaxStarts is not followed.)
StartCheck(a, m) ==
  /\ At(a, "startCheck", m)
  /\ IF Running(m) \/ ~some[a] \/ starts = MaxStarts
       THEN Respond(a)
       ELSE Goto(a, "startReset")
  /\ UNCHANGED <<dbVars, memVars, queueVars, workerVars, boundVars, histVars>>

StartReset(a, m) ==
  /\ At(a, "startReset", m)
  /\ SetStatus({r \in RowsOf(m) : status[r] = "PROCESSING"}, "PENDING")
  /\ Goto(a, "startSelect")
  /\ UNCHANGED <<live, memVars, queueVars, workerVars, boundVars, histVars>>

StartSelect(a, m) ==
  /\ At(a, "startSelect", m)
  /\ snap' = [snap EXCEPT ![a] = {r \in RowsOf(m) : status[r] = "PENDING"}]
  /\ pc' = [pc EXCEPT ![a] = "startRegister"]
  /\ UNCHANGED <<target, some, dbVars, memVars, queueVars, workerVars, boundVars,
                 histVars>>

StartRegister(a, m) ==
  /\ At(a, "startRegister", m)
  /\ starts < MaxStarts
  /\ starts' = starts + 1
  /\ current' = [current EXCEPT ![m] = starts + 1]
  /\ objects' = [objects EXCEPT ![starts + 1] = "RUNNING"]
  /\ runs' = [runs EXCEPT ![m] = @ + 1]
  /\ late' = [late EXCEPT ![m] = 0]
  /\ Goto(a, "startResume")
  /\ UNCHANGED <<dbVars, queueVars, workerVars, boundVars, sent, enq, retries>>

StartResume(a, m) ==
  /\ At(a, "startResume", m)
  /\ paused' = FALSE
  /\ Goto(a, "startAdd")
  /\ UNCHANGED <<job, attempts, dbVars, memVars, workerVars, boundVars, histVars>>

\* Mutant: addBulk is tried again although it went through.
StartAddAgain(a, m) ==
  LET added == {r \in snap[a] : ~HasJob(r)}
  IN  /\ At(a, "startAdd", m)
      /\ job' = [r \in Rows |-> IF r \in added THEN "waiting" ELSE job[r]]
      /\ enq' = [r \in Rows |-> IF r \in added THEN enq[r] + 1 ELSE enq[r]]
      /\ UNCHANGED <<attempts, paused, reqVars, dbVars, memVars, workerVars,
                     boundVars, sent, retries, runs, late>>

\* addBulk ignores a job whose id the queue still holds, in whatever state.
StartAdd(a, m) ==
  LET added == {r \in snap[a] : ~HasJob(r)}
  IN  /\ At(a, "startAdd", m)
      /\ job' = [r \in Rows |-> IF r \in added THEN "waiting" ELSE job[r]]
      /\ attempts' = [r \in Rows |-> IF r \in added THEN 0 ELSE attempts[r]]
      /\ enq' = [r \in Rows |-> IF r \in added THEN enq[r] + 1 ELSE enq[r]]
      /\ Respond(a)
      /\ UNCHANGED <<paused, dbVars, memVars, workerVars, boundVars, sent, retries,
                     runs, late>>

(* pauseMailing *)

Pause(a, m) ==
  /\ Running(m)
  /\ pauses < MaxPauses /\ pauses' = pauses + 1
  /\ objects' = [objects EXCEPT ![current[m]] = "PAUSED"]
  /\ Accept(a, "pauseQueue", {m})
  /\ UNCHANGED <<current, starts, faults, crashes, dbVars, queueVars, workerVars,
                 histVars>>

\* The one queue of all campaigns.
PauseQueue(a, m) ==
  /\ At(a, "pauseQueue", m)
  /\ paused' = TRUE
  /\ Respond(a)
  /\ UNCHANGED <<job, attempts, dbVars, memVars, workerVars, boundVars, histVars>>

(* createMailing *)

Create(a, m) ==
  /\ live[m] = "unborn"
  /\ live' = [live EXCEPT ![m] = "live"]
  /\ Accept(a, "createRows", {m})
  /\ UNCHANGED <<status, memVars, queueVars, workerVars, boundVars, histVars>>

\* One client, one transaction: all the addresses of the file or none.
CreateRows(a, m) ==
  /\ At(a, "createRows", m)
  /\ \E R \in SUBSET Fresh(m) : SetStatus(R, "PENDING")
  /\ Respond(a)
  /\ UNCHANGED <<live, memVars, queueVars, workerVars, boundVars, histVars>>

(* addAddress, removeAddress *)

\* Mutant: no look at runningJobs.
AddAnyTime(a, m) ==
  /\ live[m] # "unborn" /\ Fresh(m) # {}
  /\ Accept(a, "addContent", {m})
  /\ UNCHANGED <<dbVars, memVars, queueVars, workerVars, boundVars, histVars>>

Add(a, m) ==
  /\ live[m] # "unborn" /\ ~Running(m) /\ Fresh(m) # {}
  /\ Accept(a, "addContent", {m})
  /\ UNCHANGED <<dbVars, memVars, queueVars, workerVars, boundVars, histVars>>

AddContent(a, m) ==
  /\ At(a, "addContent", m)
  /\ \/ live[m] = "live" /\ Goto(a, "addInsert")
     \/ Respond(a)  \* no such mailing, or it has that address already
  /\ UNCHANGED <<dbVars, memVars, queueVars, workerVars, boundVars, histVars>>

AddInsert(a, m) ==
  /\ At(a, "addInsert", m)
  /\ \E r \in Fresh(m) : SetStatus({r}, "PENDING")
  /\ Respond(a)
  /\ UNCHANGED <<live, memVars, queueVars, workerVars, boundVars, histVars>>

Remove(a, m) ==
  /\ live[m] # "unborn" /\ ~Running(m)
  /\ Accept(a, "removeRow", {m})
  /\ UNCHANGED <<dbVars, memVars, queueVars, workerVars, boundVars, histVars>>

RemoveRow(a, m) ==
  /\ At(a, "removeRow", m)
  /\ \E r \in RowsOf(m) : SetStatus({r} \cap {q \in Rows : Exists(q)}, "GONE")
  /\ Respond(a)
  /\ UNCHANGED <<live, memVars, queueVars, workerVars, boundVars, histVars>>

(* uploadAddressesFromExcel: "replace" starts by deleting, "append" does not *)

Upload(a, m) ==
  /\ live[m] # "unborn" /\ ~Running(m) /\ Fresh(m) # {}
  /\ \E step \in {"uploadReplace", "uploadInsert"} : Accept(a, step, {m})
  /\ UNCHANGED <<dbVars, memVars, queueVars, workerVars, boundVars, histVars>>

UploadReplace(a, m) ==
  /\ At(a, "uploadReplace", m)
  /\ SetStatus({r \in RowsOf(m) : status[r] = "PENDING"}, "GONE")
  /\ Goto(a, "uploadInsert")
  /\ UNCHANGED <<live, memVars, queueVars, workerVars, boundVars, histVars>>

\* A file without addresses is rejected; nothing checks that m still exists.
UploadInsert(a, m) ==
  /\ At(a, "uploadInsert", m)
  /\ \E R \in SUBSET Fresh(m) :
       R # {} /\ SetStatus(R, "PENDING")
  /\ Respond(a)
  /\ UNCHANGED <<live, memVars, queueVars, workerVars, boundVars, histVars>>

(* deleteMailing, deleteMailingsBulk *)

Delete(a, ms) ==
  /\ ms # {} /\ \A m \in ms : ~Running(m) /\ live[m] # "unborn"
  /\ Accept(a, "deleteRows", ms)
  /\ UNCHANGED <<dbVars, memVars, queueVars, workerVars, boundVars, histVars>>

DeleteRows(a) ==
  /\ pc[a] = "deleteRows"
  /\ SetStatus({r \in Rows : HomeOf[r] \in target[a] /\ Exists(r)}, "GONE")
  /\ Goto(a, "deleteContent")
  /\ UNCHANGED <<live, memVars, queueVars, workerVars, boundVars, histVars>>

DeleteContent(a) ==
  /\ pc[a] = "deleteContent"
  /\ live' = [m \in Mailings |-> IF m \in target[a] THEN "deleted" ELSE live[m]]
  /\ Goto(a, "deleteForget")
  /\ UNCHANGED <<status, memVars, queueVars, workerVars, boundVars, histVars>>

\* After COMMIT, whatever runningJobs holds by now.
DeleteForget(a) ==
  /\ pc[a] = "deleteForget"
  /\ current' = [m \in Mailings |-> IF m \in target[a] THEN 0 ELSE current[m]]
  /\ Respond(a)
  /\ UNCHANGED <<objects, starts, dbVars, queueVars, workerVars, boundVars, histVars>>

-----------------------------------------------------------------------------
(* The worker: MailingProcessor.process for one job at a time. *)

Camp == HomeOf[wrow]
WGoto(step) == wpc' = step /\ UNCHANGED <<wrow, wcamp>>
WIdle       == wpc' = "idle" /\ wrow' = NoRow /\ wcamp' = 0

Pick(r) ==
  /\ wpc = "idle" /\ ~paused /\ job[r] = "waiting"
  /\ job' = [job EXCEPT ![r] = "active"]
  /\ wpc' = "check" /\ wrow' = r /\ UNCHANGED wcamp
  /\ UNCHANGED <<attempts, paused, dbVars, memVars, reqVars, boundVars, histVars>>

\* Mutant: the campaign is there, whatever its status.
CheckPresence ==
  /\ wpc = "check"
  /\ IF current[Camp] # 0
       THEN wpc' = "mark" /\ wcamp' = current[Camp] /\ UNCHANGED wrow
       ELSE WGoto("finish")
  /\ UNCHANGED <<dbVars, memVars, queueVars, reqVars, boundVars, histVars>>

Check ==
  /\ wpc = "check"
  /\ IF Running(Camp)
       THEN wpc' = "mark" /\ wcamp' = current[Camp] /\ UNCHANGED wrow
       ELSE WGoto("finish")
  /\ UNCHANGED <<dbVars, memVars, queueVars, reqVars, boundVars, histVars>>

\* UPDATE ... WHERE id: a row that is no longer there is no error.
Mark(s, from, to) ==
  /\ wpc = from
  /\ SetStatus({r \in {wrow} : Exists(r)}, s)
  /\ WGoto(to)
  /\ UNCHANGED <<live, memVars, queueVars, reqVars, boundVars, histVars>>

\* Mutants: a status no reader knows; DONE before the mail is sent; the row
\* left as it was.
MarkSent      == Mark("SENT", "done", "count")
MarkDoneFirst == Mark("DONE", "mark", "send")
MarkNothing   == Mark("PROCESSING", "done", "count")

MarkProcessing == Mark("PROCESSING", "mark", "send")
MarkDone       == Mark("DONE", "done", "count")
MarkFailed     == Mark("FAILED", "failed", "count")

Send ==
  /\ wpc = "send"
  /\ sent' = [sent EXCEPT ![wrow] = @ + 1]
  /\ late' = IF Running(Camp) THEN late ELSE [late EXCEPT ![Camp] = @ + 1]
  /\ WGoto("done")
  /\ UNCHANGED <<dbVars, memVars, queueVars, reqVars, boundVars, enq, retries, runs>>

\* SMTP refuses the mail, or the UPDATE to DONE rejects: the catch block.
SendFails ==
  /\ wpc \in {"send", "done"}
  /\ Fault
  /\ WGoto("failed")
  /\ UNCHANGED <<dbVars, memVars, queueVars, reqVars, histVars>>

Count ==
  /\ wpc = "count"
  /\ WGoto(IF Unfinished(Camp) = {} THEN "complete" ELSE "finish")
  /\ UNCHANGED <<dbVars, memVars, queueVars, reqVars, boundVars, histVars>>

\* The object read in Check, which runningJobs may no longer hold.
Complete ==
  /\ wpc = "complete"
  /\ objects' = [objects EXCEPT ![wcamp] = "COMPLETED"]
  /\ WGoto("remove")
  /\ UNCHANGED <<current, starts, dbVars, queueVars, reqVars, boundVars, histVars>>

\* removeRunningJob(mailingId), after the broadcast of the completion.
RemoveCampaign ==
  /\ wpc = "remove"
  /\ current' = [current EXCEPT ![Camp] = 0]
  /\ WGoto("finish")
  /\ UNCHANGED <<objects, starts, dbVars, queueVars, reqVars, boundVars, histVars>>

\* Mutant: the finished job goes back to the queue.
FinishPutsBack ==
  /\ wpc = "finish"
  /\ job' = [job EXCEPT ![wrow] = "waiting"]
  /\ attempts' = [attempts EXCEPT ![wrow] = 0]
  /\ WIdle
  /\ UNCHANGED <<paused, dbVars, memVars, reqVars, boundVars, histVars>>

\* process() returned: removeOnComplete.
Finish ==
  /\ wpc = "finish"
  /\ job' = [job EXCEPT ![wrow] = "none"]
  /\ attempts' = [attempts EXCEPT ![wrow] = 0]
  /\ WIdle
  /\ UNCHANGED <<paused, dbVars, memVars, reqVars, boundVars, histVars>>

\* A query outside the try block rejects: process() throws.
Throw ==
  /\ wpc \in {"mark", "failed", "count"}
  /\ Fault
  /\ attempts' = [attempts EXCEPT ![wrow] = @ + 1]
  /\ job' = [job EXCEPT ![wrow] = IF attempts[wrow] + 1 < MaxAttempts
                                    THEN "delayed" ELSE "failed"]
  /\ WIdle
  /\ UNCHANGED <<paused, dbVars, memVars, reqVars, histVars>>

-----------------------------------------------------------------------------
(* BullMQ on its own, and restarts. *)

Requeue(r) ==
  /\ job' = [job EXCEPT ![r] = "waiting"]
  /\ retries' = [retries EXCEPT ![r] = @ + 1]
  /\ UNCHANGED <<attempts, paused, dbVars, memVars, workerVars, reqVars, boundVars,
                 sent, enq, runs, late>>

Promote(r)      == job[r] = "delayed" /\ Requeue(r)  \* the backoff is over
StalledRetry(r) == job[r] = "stalled" /\ Requeue(r)  \* its lock expired

\* A job that stalled more than once fails; failed jobs are kept, up to 100 of
\* them and for three days.
StalledFail(r) ==
  /\ job[r] = "stalled" /\ crashes > 1
  /\ job' = [job EXCEPT ![r] = "failed"]
  /\ UNCHANGED <<attempts, paused, dbVars, memVars, workerVars, reqVars, boundVars,
                 histVars>>

CleanFailed(r) ==
  /\ job[r] = "failed"
  /\ job' = [job EXCEPT ![r] = "none"]
  /\ attempts' = [attempts EXCEPT ![r] = 0]
  /\ UNCHANGED <<paused, dbVars, memVars, workerVars, reqVars, boundVars, histVars>>

\* The process dies and starts again: memory is lost, the queue and the
\* database stay, and the job that was running keeps its lock for a while.
Crash ==
  /\ crashes < MaxCrashes /\ crashes' = crashes + 1
  /\ current' = [m \in Mailings |-> 0]
  /\ job' = [r \in Rows |-> IF job[r] = "active" THEN "stalled" ELSE job[r]]
  /\ WIdle
  /\ pc' = [a \in Admins |-> "idle"]
  /\ target' = [a \in Admins |-> {}]
  /\ snap' = [a \in Admins |-> {}]
  /\ some' = [a \in Admins |-> FALSE]
  /\ UNCHANGED <<objects, starts, attempts, paused, pauses, faults, dbVars, histVars>>

-----------------------------------------------------------------------------
StartStep(a, m) ==
  \/ StartCheck(a, m) \/ StartReset(a, m) \/ StartSelect(a, m)
  \/ StartRegister(a, m) \/ StartResume(a, m) \/ StartAdd(a, m)

EditStep(a, m) ==
  \/ Create(a, m) \/ CreateRows(a, m)
  \/ Add(a, m) \/ AddContent(a, m) \/ AddInsert(a, m)
  \/ Remove(a, m) \/ RemoveRow(a, m)
  \/ Upload(a, m) \/ UploadReplace(a, m) \/ UploadInsert(a, m)

Admin(a) ==
  \/ \E m \in Mailings : \/ StartRead(a, m) \/ StartStep(a, m)
                         \/ Pause(a, m) \/ PauseQueue(a, m)
                         \/ EditStep(a, m)
  \/ \E ms \in SUBSET Mailings : Delete(a, ms)
  \/ DeleteRows(a) \/ DeleteContent(a) \/ DeleteForget(a)
  \/ Abort(a)

WorkerStep ==
  \/ Check \/ MarkProcessing \/ Send \/ MarkDone \/ MarkFailed \/ Count
  \/ Complete \/ RemoveCampaign \/ Finish

Worker == (\E r \in Rows : Pick(r)) \/ WorkerStep \/ SendFails \/ Throw

QueueStep(r) == Promote(r) \/ StalledRetry(r) \/ StalledFail(r) \/ CleanFailed(r)

Next == (\E a \in Admins : Admin(a)) \/ Worker \/ (\E r \in Rows : QueueStep(r)) \/ Crash

Spec == Init /\ [][Next]_vars

\* What runs without anyone asking: awaited queries and queue commands answer,
\* the worker takes jobs in order, BullMQ promotes delayed and stalled ones.
\* No administrator has to do anything.
FairSpec ==
  /\ Spec
  /\ WF_vars(WorkerStep)
  /\ \A r \in Rows : WF_vars(Pick(r)) /\ WF_vars(Promote(r) \/ StalledRetry(r))
  /\ \A a \in Admins, m \in Mailings : WF_vars(StartStep(a, m) \/ PauseQueue(a, m))

-----------------------------------------------------------------------------
(* Properties. *)

TypeOK ==
  /\ live \in [Mailings -> {"unborn", "live", "deleted"}]
  /\ status \in [Rows -> RowStates]
  /\ current \in [Mailings -> 0..MaxStarts]
  /\ objects \in [Generations -> {"UNUSED", "RUNNING", "PAUSED", "COMPLETED"}]
  /\ starts \in 0..MaxStarts
  /\ job \in [Rows -> JobStates]
  /\ attempts \in [Rows -> Nat]
  /\ paused \in BOOLEAN
  /\ wpc \in WorkerSteps /\ wrow \in Rows \cup {NoRow} /\ wcamp \in 0..MaxStarts
  /\ wpc # "idle" => wrow \in Rows
  /\ pc \in [Admins -> AdminSteps]
  /\ target \in [Admins -> SUBSET Mailings]
  /\ snap \in [Admins -> SUBSET Rows]
  /\ some \in [Admins -> BOOLEAN]
  /\ pauses \in 0..MaxPauses /\ faults \in 0..MaxFaults /\ crashes \in 0..MaxCrashes
  /\ sent \in [Rows -> Nat] /\ enq \in [Rows -> Nat] /\ retries \in [Rows -> Nat]
  /\ runs \in [Mailings -> Nat] /\ late \in [Mailings -> Nat]

\* A recipient gets no more mails than jobs were added for the row and BullMQ
\* ran again after a throw or a stall: every further copy has such a cause,
\* whatever pauses, resumes, restarts and concurrent requests do.
MailBudget == \A r \in Rows : sent[r] <= enq[r] + retries[r]

\* Runs of r's job: granted by an enqueue or a repetition, open as long as the
\* run may still mail.
Granted  == [r \in Rows |-> enq[r] + retries[r]]
InRun(r) == \/ job[r] = "waiting"
            \/ job[r] = "active" /\ wpc \in {"check", "mark", "send"}
Open     == [r \in Rows |-> IF InRun(r) THEN 1 ELSE 0]

Ledger == INSTANCE DeliveryLedger WITH
  Items <- Rows, granted <- Granted, open <- Open, out <- sent

\* The campaigns keep the ledger of deliveries: every mail uses up a run that
\* was granted for it.
KeepsLedger == Ledger!Spec

\* A campaign that is paused, deleted, completed or forgotten mails at most the
\* one message the worker was already busy with (the check at the start of
\* process() against the status that pauseMailing writes).
PauseQuiet == \A m \in Mailings : late[m] <= 1

\* A row is DONE only when a mail for it was handed to SMTP, although UPDATEs
\* of retried jobs, restarts of the campaign and resets interleave.
DoneMeansMailed == \A r \in Rows : status[r] = "DONE" => sent[r] > 0

\* A row is queued at most once per object startMailing registered: two starts
\* that overlap may each queue it, one start never queues it twice.
EnqueueBound == \A r \in Rows : enq[r] <= runs[HomeOf[r]]

\* When the worker declares a campaign complete that is still running, no
\* address is left to mail: edits are shut out between its count and its
\* verdict.  (With one administrator at a time.)
CompletionSound ==
  wpc = "complete" /\ current[Camp] = wcamp /\ Running(Camp) => Unfinished(Camp) = {}

\* Without pauses, faults and restarts a running campaign with addresses left
\* ends: each of its jobs is taken, and the last one ends it.
CampaignEnds ==
  \A m \in Mailings : Running(m) /\ Unfinished(m) # {} ~> ~Running(m)

(* What the sources say and the code does not keep (see the README). *)

\* jobId "De-duplication": pausing and resuming a campaign, with no fault and
\* no restart, mails nobody twice.
AtMostOnce == \A r \in Rows : sent[r] <= 1

\* "Enqueue jobs to BullMQ in bulk": once startMailing is through, each PENDING
\* address it selected has a job that will run.
StartedRowsQueued ==
  [][\A a \in Admins, m \in Mailings :
       StartAdd(a, m) => \A r \in snap[a] : job'[r] \in JobStates \ {"none", "failed"}]_vars

=============================================================================
