--------------------------- MODULE Mailing_proofs ---------------------------
(* What TLAPS proves about Mailing, for any campaigns, rows, administrators  *)
(* and bounds.                                                               *)
EXTENDS Mailing, FiniteSetTheorems, TLAPS

USE DEF MailingAssumption, dbVars, memVars, queueVars, workerVars, reqVars, boundVars, histVars

(* Typing. *)

\* Initial states are typed.
LEMMA TypeInit == Init => TypeOK
<1> SUFFICES ASSUME Init PROVE TypeOK
  OBVIOUS
<1>1. paused \in BOOLEAN /\ some \in [Admins -> BOOLEAN]
  BY Zenon DEF Init
<1>2. /\ live \in [Mailings -> {"unborn", "live", "deleted"}]
      /\ status \in [Rows -> RowStates] /\ job \in [Rows -> JobStates]
      /\ pc \in [Admins -> AdminSteps]
  BY DEF Init, RowStates, JobStates, AdminSteps
<1>3. objects \in [Generations -> {"UNUSED", "RUNNING", "PAUSED", "COMPLETED"}]
  BY DEF Init
<1>4. /\ current \in [Mailings -> 0..MaxStarts] /\ starts \in 0..MaxStarts
      /\ wcamp \in 0..MaxStarts
      /\ pauses \in 0..MaxPauses /\ faults \in 0..MaxFaults /\ crashes \in 0..MaxCrashes
  BY MailingAssumption DEF Init
<1> QED
  BY <1>1, <1>2, <1>3, <1>4 DEF Init, TypeOK, WorkerSteps

\* No step of a request breaks a type: each handler writes only the values it
\* may write.
LEMMA TypeAdmin ==
  ASSUME TypeOK, NEW a \in Admins, Admin(a) PROVE TypeOK'
<1> USE MailingAssumption DEF TypeOK, RowStates, AdminSteps, StartSteps
<1>1. ASSUME NEW m \in Mailings, StartRead(a, m) PROVE TypeOK'
  BY <1>1 DEF StartRead
<1>2. ASSUME NEW m \in Mailings, StartCheck(a, m) PROVE TypeOK'
  <2>1. Respond(a) \/ Goto(a, "startReset")
    BY <1>2 DEF StartCheck
  <2>2. UNCHANGED <<dbVars, memVars, queueVars, workerVars, boundVars, histVars>>
    BY <1>2 DEF StartCheck
  <2>3. CASE Respond(a)
    BY <2>2, <2>3 DEF Respond
  <2>4. CASE Goto(a, "startReset")
    BY <2>2, <2>4 DEF Goto
  <2> QED
    BY <2>1, <2>3, <2>4
<1>3. ASSUME NEW m \in Mailings, StartReset(a, m) PROVE TypeOK'
  BY <1>3 DEF StartReset, At, Goto, SetStatus
<1>4. ASSUME NEW m \in Mailings, StartSelect(a, m) PROVE TypeOK'
  BY <1>4 DEF StartSelect, At, RowsOf
<1>5. ASSUME NEW m \in Mailings, StartRegister(a, m) PROVE TypeOK'
  <2>1. starts' \in 0..MaxStarts /\ starts + 1 \in Generations
    BY <1>5 DEF StartRegister, Generations
  <2>2. current' \in [Mailings -> 0..MaxStarts]
    BY <1>5, <2>1 DEF StartRegister
  <2>3. objects' \in [Generations -> {"UNUSED", "RUNNING", "PAUSED", "COMPLETED"}]
    BY <1>5, <2>1 DEF StartRegister
  <2>4. runs' \in [Mailings -> Nat] /\ late' \in [Mailings -> Nat]
    BY <1>5 DEF StartRegister
  <2>5. pc' \in [Admins -> AdminSteps]
    BY <1>5 DEF StartRegister, Goto
  <2> QED
    BY <1>5, <2>1, <2>2, <2>3, <2>4, <2>5 DEF StartRegister, Goto
<1>6. ASSUME NEW m \in Mailings, StartResume(a, m) PROVE TypeOK'
  BY <1>6 DEF StartResume, At, Goto
<1>7. ASSUME NEW m \in Mailings, StartAdd(a, m) PROVE TypeOK'
  BY <1>7 DEF StartAdd, At, Respond, JobStates
<1>8. ASSUME NEW m \in Mailings, Pause(a, m) PROVE TypeOK'
  BY <1>8 DEF Pause, Accept, Running, Generations
<1>9. ASSUME NEW m \in Mailings, PauseQueue(a, m) PROVE TypeOK'
  BY <1>9 DEF PauseQueue, At, Respond
<1>10. ASSUME NEW m \in Mailings, EditStep(a, m) PROVE TypeOK'
  <2>1. CASE Create(a, m)
    BY <2>1 DEF Create, Accept
  <2>2. CASE CreateRows(a, m)
    BY <2>2 DEF CreateRows, At, Respond, SetStatus
  <2>3. CASE Add(a, m)
    BY <2>3 DEF Add, Accept
  <2>4. CASE AddContent(a, m)
    BY <2>4 DEF AddContent, At, Goto, Respond
  <2>5. CASE AddInsert(a, m)
    BY <2>5 DEF AddInsert, At, Respond, SetStatus
  <2>6. CASE Remove(a, m)
    BY <2>6 DEF Remove, Accept
  <2>7. CASE RemoveRow(a, m)
    BY <2>7 DEF RemoveRow, At, Respond, SetStatus
  <2>8. CASE Upload(a, m)
    BY <2>8 DEF Upload, Accept
  <2>9. CASE UploadReplace(a, m)
    BY <2>9 DEF UploadReplace, At, Goto, SetStatus
  <2>10. CASE UploadInsert(a, m)
    BY <2>10 DEF UploadInsert, At, Respond, SetStatus
  <2> QED
    BY <1>10, <2>1, <2>2, <2>3, <2>4, <2>5, <2>6, <2>7, <2>8, <2>9, <2>10 DEF EditStep
<1>11. ASSUME NEW ms \in SUBSET Mailings, Delete(a, ms) PROVE TypeOK'
  BY <1>11 DEF Delete, Accept
<1>12. CASE DeleteRows(a)
  BY <1>12 DEF DeleteRows, Goto, SetStatus
<1>13. CASE DeleteContent(a)
  BY <1>13 DEF DeleteContent, Goto
<1>14. CASE DeleteForget(a)
  BY <1>14 DEF DeleteForget, Respond
<1>15. CASE Abort(a)
  BY <1>15 DEF Abort, Fault, Respond
<1> QED
  BY <1>1, <1>2, <1>3, <1>4, <1>5, <1>6, <1>7, <1>8, <1>9, <1>10, <1>11, <1>12,
     <1>13, <1>14, <1>15 DEF Admin, StartStep

\* No step of the mailing processor breaks a type.
LEMMA TypeWorker ==
  ASSUME TypeOK, Worker PROVE TypeOK'
<1> USE MailingAssumption DEF TypeOK, RowStates, WorkerSteps, JobStates
<1>1. ASSUME NEW r \in Rows, Pick(r) PROVE TypeOK'
  BY <1>1 DEF Pick
<1>2. CASE Check
  BY <1>2 DEF Check, WGoto, Camp, Running
<1>3. CASE MarkProcessing
  BY <1>3 DEF MarkProcessing, Mark, SetStatus, WGoto
<1>4. CASE Send
  BY <1>4 DEF Send, WGoto, Camp
<1>5. CASE MarkDone
  BY <1>5 DEF MarkDone, Mark, SetStatus, WGoto
<1>6. CASE MarkFailed
  BY <1>6 DEF MarkFailed, Mark, SetStatus, WGoto
<1>7. CASE Count
  BY <1>7 DEF Count, WGoto
<1>8. CASE Complete
  BY <1>8 DEF Complete, WGoto
<1>9. CASE RemoveCampaign
  <2>1. Camp \in Mailings
    BY <1>9 DEF RemoveCampaign, Camp
  <2>2. current' \in [Mailings -> 0..MaxStarts]
    BY <1>9, <2>1 DEF RemoveCampaign
  <2> QED
    BY <1>9, <2>2 DEF RemoveCampaign, WGoto
<1>10. CASE Finish
  BY <1>10 DEF Finish, WIdle
<1>11. CASE SendFails
  BY <1>11 DEF SendFails, Fault, WGoto
<1>12. CASE Throw
  BY <1>12 DEF Throw, Fault, WIdle
<1> QED
  BY <1>1, <1>2, <1>3, <1>4, <1>5, <1>6, <1>7, <1>8, <1>9, <1>10, <1>11, <1>12
  DEF Worker, WorkerStep

\* The next-state relation keeps the types.
LEMMA TypeNext == TypeOK /\ [Next]_vars => TypeOK'
<1> SUFFICES ASSUME TypeOK, [Next]_vars PROVE TypeOK'
  OBVIOUS
<1>1. ASSUME NEW a \in Admins, Admin(a) PROVE TypeOK'
  BY <1>1, TypeAdmin
<1>2. CASE Worker
  BY <1>2, TypeWorker
<1>3. ASSUME NEW r \in Rows, QueueStep(r) PROVE TypeOK'
  BY <1>3
  DEF QueueStep, Promote, StalledRetry, StalledFail, CleanFailed, Requeue, TypeOK, JobStates
<1>4. CASE Crash
  BY <1>4, MailingAssumption DEF Crash, WIdle, TypeOK, JobStates, WorkerSteps, AdminSteps
<1>5. CASE UNCHANGED vars
  BY <1>5 DEF vars, TypeOK
<1> QED
  BY <1>1, <1>2, <1>3, <1>4, <1>5 DEF Next

\* Every variable keeps its type.
THEOREM TypeCorrect == Spec => []TypeOK
<1>1. Init => TypeOK
  BY TypeInit
<1>2. TypeOK /\ [Next]_vars => TypeOK'
  BY TypeNext
<1> QED
  BY <1>1, <1>2, PTL DEF Spec

-----------------------------------------------------------------------------
(* The inductive invariant behind the safety properties. *)

\* Exactly the job the worker holds is active.
WorkerJob ==
  /\ wpc # "idle" => job[wrow] = "active"
  /\ \A r \in Rows : job[r] = "active" => wpc # "idle" /\ wrow = r

\* The run of r's job that is open has been paid for by an enqueue or a retry.
Paid ==
  \A r \in Rows : sent[r] + (IF InRun(r) THEN 1 ELSE 0) <= enq[r] + retries[r]

Mailed == wpc = "done" => sent[wrow] > 0

\* Registered objects are numbered up to starts, and no two campaigns share
\* the one that is registered next.
Numbered == \A m \in Mailings : current[m] <= starts

\* A running campaign has mailed nothing late, nor has the one whose job has
\* passed the check and not been sent.
Quiet ==
  /\ \A m \in Mailings : Running(m) => late[m] = 0
  /\ wpc \in {"mark", "send"} => late[Camp] = 0

Inv == /\ TypeOK /\ WorkerJob /\ Paid
       /\ Mailed /\ DoneMeansMailed
       /\ Numbered /\ Quiet /\ PauseQuiet

(* What administrators leave alone. *)

\* Only the addBulk of startMailing touches the jobs, and nothing an
\* administrator does touches the worker or the mails sent.
LEMMA AdminFrame ==
  ASSUME NEW a \in Admins, Admin(a)
  PROVE  \/ \E m \in Mailings : StartAdd(a, m)
         \/ UNCHANGED <<job, workerVars, sent, enq, retries>>
<1>1. ASSUME NEW m \in Mailings, StartStep(a, m), ~StartAdd(a, m)
      PROVE  UNCHANGED <<job, workerVars, sent, enq, retries>>
  BY <1>1 DEF StartStep, StartCheck, StartReset, StartSelect, StartRegister, StartResume
<1>2. ASSUME NEW m \in Mailings, EditStep(a, m)
      PROVE  UNCHANGED <<job, workerVars, sent, enq, retries>>
  BY <1>2 DEF EditStep, Create, CreateRows, Add, AddContent, AddInsert, Remove,
              RemoveRow, Upload, UploadReplace, UploadInsert
<1>3. ASSUME NEW m \in Mailings, StartRead(a, m) \/ Pause(a, m) \/ PauseQueue(a, m)
      PROVE  UNCHANGED <<job, workerVars, sent, enq, retries>>
  BY <1>3 DEF StartRead, Pause, PauseQueue
<1>4. ASSUME NEW ms \in SUBSET Mailings, Delete(a, ms)
      PROVE  UNCHANGED <<job, workerVars, sent, enq, retries>>
  BY <1>4 DEF Delete
<1>5. DeleteRows(a) \/ DeleteContent(a) \/ DeleteForget(a) \/ Abort(a)
        => UNCHANGED <<job, workerVars, sent, enq, retries>>
  BY DEF DeleteRows, DeleteContent, DeleteForget, Abort
<1> QED
  BY <1>1, <1>2, <1>3, <1>4, <1>5 DEF Admin

\* No request makes a row DONE.
LEMMA AdminNeverDone ==
  ASSUME TypeOK, NEW a \in Admins, Admin(a), NEW r \in Rows, status'[r] = "DONE"
  PROVE  status[r] = "DONE"
<1>1. ASSUME NEW m \in Mailings, StartStep(a, m) PROVE status[r] = "DONE"
  BY <1>1 DEF StartStep, StartCheck, StartReset, StartSelect, StartRegister,
              StartResume, StartAdd, SetStatus
<1>2. ASSUME NEW m \in Mailings, EditStep(a, m) PROVE status[r] = "DONE"
  BY <1>2 DEF EditStep, Create, CreateRows, Add, AddContent, AddInsert, Remove,
              RemoveRow, Upload, UploadReplace, UploadInsert, SetStatus
<1>3. ASSUME NEW m \in Mailings, StartRead(a, m) \/ Pause(a, m) \/ PauseQueue(a, m)
      PROVE  status[r] = "DONE"
  BY <1>3 DEF StartRead, Pause, PauseQueue
<1>4. ASSUME NEW ms \in SUBSET Mailings, Delete(a, ms) PROVE status[r] = "DONE"
  BY <1>4 DEF Delete
<1>5. DeleteRows(a) \/ DeleteContent(a) \/ DeleteForget(a) \/ Abort(a)
        => status[r] = "DONE"
  BY DEF DeleteRows, DeleteContent, DeleteForget, Abort, SetStatus
<1> QED
  BY <1>1, <1>2, <1>3, <1>4, <1>5 DEF Admin

-----------------------------------------------------------------------------
(* Mails against enqueues and retries. *)

\* What touches neither jobs, worker, mails nor grants keeps the ledger paid.
LEMMA PaidFrame ==
  ASSUME WorkerJob, Paid, UNCHANGED <<job, workerVars, sent, enq, retries>>
  PROVE  WorkerJob' /\ Paid'
  BY DEF WorkerJob, Paid, InRun

\* addBulk pays for the jobs it adds and skips the ids that exist.
LEMMA PaidStartAdd ==
  ASSUME TypeOK, WorkerJob, Paid, NEW a \in Admins, NEW m \in Mailings, StartAdd(a, m)
  PROVE  WorkerJob' /\ Paid'
<1> USE DEF TypeOK, StartAdd, HasJob
<1>1. WorkerJob'
  BY DEF WorkerJob
<1>2. ASSUME NEW r \in Rows
      PROVE sent'[r] + (IF InRun(r)' THEN 1 ELSE 0) <= enq'[r] + retries'[r]
  <2>1. /\ sent[r] \in Nat /\ enq[r] \in Nat /\ retries[r] \in Nat
        /\ sent'[r] = sent[r] /\ retries'[r] = retries[r]
    OBVIOUS
  <2>2. sent[r] + (IF InRun(r) THEN 1 ELSE 0) <= enq[r] + retries[r]
    BY DEF Paid
  <2>3. CASE r \in snap[a] /\ ~HasJob(r)
    <3>1. enq'[r] = enq[r] + 1
      BY <2>3
    <3> QED
      BY <2>1, <2>2, <2>3, <3>1 DEF InRun
  <2>4. CASE ~(r \in snap[a] /\ ~HasJob(r))
    <3>1. enq'[r] = enq[r] /\ job'[r] = job[r] /\ wpc' = wpc
      BY <2>4
    <3> QED
      BY <2>1, <2>2, <3>1 DEF InRun
  <2> QED
    BY <2>3, <2>4
<1> QED
  BY <1>1, <1>2 DEF Paid

\* The worker sends only in a run that was paid for, and only once in it.
LEMMA PaidWorker ==
  ASSUME TypeOK, WorkerJob, Paid, Worker
  PROVE  WorkerJob' /\ Paid'
<1> USE DEF TypeOK, WorkerJob, InRun
<1>1. ASSUME NEW r \in Rows, Pick(r) PROVE WorkerJob' /\ Paid'
  <2>1. WorkerJob'
    BY <1>1 DEF Pick
  <2>2. Paid'
    BY <1>1 DEF Pick, Paid
  <2> QED
    BY <2>1, <2>2
<1>2. CASE Check \/ Count
  BY <1>2 DEF Check, Count, WGoto, Paid
<1>3. CASE MarkProcessing \/ MarkDone \/ MarkFailed
  BY <1>3 DEF MarkProcessing, MarkDone, MarkFailed, Mark, WGoto, Paid
<1>4. CASE Send
  <2>1. WorkerJob'
    BY <1>4 DEF Send, WGoto
  <2>2. ASSUME NEW r \in Rows
        PROVE  sent'[r] + (IF InRun(r)' THEN 1 ELSE 0) <= enq'[r] + retries'[r]
    <3>1. /\ sent[r] \in Nat /\ enq[r] \in Nat /\ retries[r] \in Nat
          /\ enq'[r] = enq[r] /\ retries'[r] = retries[r] /\ job'[r] = job[r]
          /\ sent[r] + (IF InRun(r) THEN 1 ELSE 0) <= enq[r] + retries[r]
      BY <1>4 DEF Send, Paid
    <3>2. CASE r = wrow
      <4>1. sent'[r] = sent[r] + 1 /\ InRun(r) /\ ~InRun(r)'
        BY <1>4, <3>1, <3>2 DEF Send, WGoto
      <4> QED
        BY <3>1, <4>1
    <3>3. CASE r # wrow
      <4>1. sent'[r] = sent[r] /\ (InRun(r)' => InRun(r))
        BY <1>4, <3>1, <3>3 DEF Send, WGoto
      <4> QED
        BY <3>1, <4>1
    <3> QED
      BY <3>2, <3>3
  <2> QED
    BY <2>1, <2>2 DEF Paid
<1>5. CASE SendFails
  BY <1>5 DEF SendFails, WGoto, Paid
<1>6. CASE Complete \/ RemoveCampaign
  BY <1>6 DEF Complete, RemoveCampaign, WGoto, Paid
<1>7. CASE Finish \/ Throw
  <2>1. /\ wpc # "idle" /\ wpc' = "idle" /\ UNCHANGED <<sent, enq, retries>>
        /\ \A r \in Rows : job'[r] = job[r] \/ job'[r] \in {"none", "delayed", "failed"}
        /\ job'[wrow] # "active"
    BY <1>7 DEF Finish, Throw, WIdle
  <2>2. ASSUME NEW r \in Rows PROVE job'[r] # "active" /\ (InRun(r)' => InRun(r))
    BY <2>1
  <2>3. WorkerJob'
    BY <2>1, <2>2
  <2>4. Paid'
    BY <2>1, <2>2 DEF Paid
  <2> QED
    BY <2>3, <2>4
<1> QED
  BY <1>1, <1>2, <1>3, <1>4, <1>5, <1>6, <1>7 DEF Worker, WorkerStep

\* A job BullMQ runs again has been paid for by the retry.
LEMMA PaidQueue ==
  ASSUME TypeOK, WorkerJob, Paid, NEW q \in Rows, QueueStep(q)
  PROVE  WorkerJob' /\ Paid'
<1> USE DEF TypeOK, WorkerJob, InRun
<1>1. CASE Promote(q) \/ StalledRetry(q)
  <2>1. /\ job[q] \in {"delayed", "stalled"}
        /\ job' = [job EXCEPT ![q] = "waiting"]
        /\ retries' = [retries EXCEPT ![q] = @ + 1]
        /\ UNCHANGED <<sent, enq, wpc, wrow>>
    BY <1>1 DEF Promote, StalledRetry, Requeue
  <2>2. WorkerJob'
    BY <2>1
  <2>3. ASSUME NEW r \in Rows
        PROVE  sent'[r] + (IF InRun(r)' THEN 1 ELSE 0) <= enq'[r] + retries'[r]
    <3>1. /\ sent[r] \in Nat /\ enq[r] \in Nat /\ retries[r] \in Nat
          /\ sent[r] + (IF InRun(r) THEN 1 ELSE 0) <= enq[r] + retries[r]
      BY DEF Paid
    <3>2. CASE r = q
      <4>1. retries'[r] = retries[r] + 1
        BY <2>1, <3>2
      <4> QED
        BY <2>1, <3>1, <3>2, <4>1
    <3>3. CASE r # q
      BY <2>1, <3>1, <3>3
    <3> QED
      BY <3>2, <3>3
  <2> QED
    BY <2>2, <2>3 DEF Paid
<1>2. CASE StalledFail(q) \/ CleanFailed(q)
  <2>1. /\ job[q] \in {"stalled", "failed"}
        /\ \E s \in {"failed", "none"} : job' = [job EXCEPT ![q] = s]
        /\ UNCHANGED <<sent, enq, retries, wpc, wrow>>
    BY <1>2 DEF StalledFail, CleanFailed
  <2>2. ASSUME NEW r \in Rows
        PROVE (job'[r] = "active" <=> job[r] = "active") /\ (InRun(r)' => InRun(r))
    BY <2>1
  <2>3. WorkerJob'
    BY <2>1, <2>2
  <2>4. Paid'
    BY <2>1, <2>2 DEF Paid
  <2> QED
    BY <2>3, <2>4
<1> QED
  BY <1>1, <1>2 DEF QueueStep

\* A restart ends the run of the active job without a mail.
LEMMA PaidCrash ==
  ASSUME TypeOK, WorkerJob, Paid, Crash PROVE WorkerJob' /\ Paid'
<1>1. /\ \A r \in Rows : job'[r] # "active" /\ (job'[r] = "waiting" => job[r] = "waiting")
      /\ wpc' = "idle" /\ UNCHANGED <<sent, enq, retries>>
  BY DEF Crash, WIdle, TypeOK
<1>2. WorkerJob'
  BY <1>1 DEF WorkerJob
<1>3. \A r \in Rows : InRun(r)' => InRun(r)
  BY <1>1 DEF InRun
<1> QED
  BY <1>1, <1>2, <1>3 DEF Paid, TypeOK

\* Every step keeps the ledger paid.
LEMMA PaidNext ==
  ASSUME TypeOK, WorkerJob, Paid, [Next]_vars PROVE WorkerJob' /\ Paid'
<1>1. ASSUME NEW a \in Admins, Admin(a) PROVE WorkerJob' /\ Paid'
  BY <1>1, AdminFrame, PaidFrame, PaidStartAdd
<1>2. CASE UNCHANGED vars
  BY <1>2, PaidFrame DEF vars
<1> QED
  BY <1>1, <1>2, PaidWorker, PaidQueue, PaidCrash DEF Next

-----------------------------------------------------------------------------
(* DONE means mailed. *)

\* The worker writes DONE only for a row it has mailed.
LEMMA DoneWorker ==
  ASSUME TypeOK, Mailed, DoneMeansMailed, Worker
  PROVE  Mailed' /\ DoneMeansMailed'
<1> USE DEF TypeOK, Mailed, DoneMeansMailed
<1>1. CASE \E r \in Rows : Pick(r)
  BY <1>1 DEF Pick
<1>2. CASE Check \/ Count \/ SendFails \/ Complete \/ RemoveCampaign
  BY <1>2 DEF Check, Count, SendFails, Complete, RemoveCampaign, WGoto
<1>3. CASE MarkProcessing \/ MarkFailed
  BY <1>3 DEF MarkProcessing, MarkFailed, Mark, SetStatus, WGoto
<1>4. CASE MarkDone
  BY <1>4 DEF MarkDone, Mark, SetStatus, WGoto
<1>5. CASE Send
  BY <1>5 DEF Send, WGoto
<1>6. CASE Finish \/ Throw
  BY <1>6 DEF Finish, Throw, WIdle
<1> QED
  BY <1>1, <1>2, <1>3, <1>4, <1>5, <1>6 DEF Worker, WorkerStep

\* Every step keeps DONE rows mailed.
LEMMA DoneNext ==
  ASSUME TypeOK, WorkerJob, Mailed, DoneMeansMailed, [Next]_vars
  PROVE  Mailed' /\ DoneMeansMailed'
<1>1. ASSUME NEW a \in Admins, Admin(a) PROVE Mailed' /\ DoneMeansMailed'
  <2>1. UNCHANGED <<workerVars, sent>>
    BY <1>1, AdminFrame DEF StartAdd
  <2>2. \A r \in Rows : status'[r] = "DONE" => status[r] = "DONE"
    BY <1>1, AdminNeverDone
  <2> QED
    BY <2>1, <2>2 DEF Mailed, DoneMeansMailed
<1>2. ASSUME NEW r \in Rows, QueueStep(r) PROVE Mailed' /\ DoneMeansMailed'
  BY <1>2 DEF QueueStep, Promote, StalledRetry, Requeue, StalledFail, CleanFailed,
              Mailed, DoneMeansMailed
<1>3. CASE Crash
  BY <1>3 DEF Crash, WIdle, Mailed, DoneMeansMailed
<1>4. CASE UNCHANGED vars
  BY <1>4 DEF vars, Mailed, DoneMeansMailed
<1> QED
  BY <1>1, <1>2, <1>3, <1>4, DoneWorker DEF Next

-----------------------------------------------------------------------------
(* Nobody is mailed long after a pause. *)

LateInv == Numbered /\ Quiet /\ PauseQuiet

\* Steps that leave campaigns, worker and late mails alone keep the pause quiet.
LEMMA LateFrame ==
  ASSUME LateInv, UNCHANGED <<memVars, workerVars, late>>
  PROVE  LateInv'
  BY DEF LateInv, Numbered, Quiet, PauseQuiet, Running, Camp

\* Requests keep the pause quiet: a start begins with nothing mailed late, and
\* a pause can only stop campaigns.
LEMMA LateAdmin ==
  ASSUME TypeOK, LateInv, NEW a \in Admins, Admin(a)
  PROVE  LateInv'
<1> USE DEF TypeOK, LateInv, Numbered, Quiet, PauseQuiet, Running, Camp, Generations
<1>1. ASSUME NEW m \in Mailings, StartRegister(a, m) PROVE LateInv'
  <2>1. /\ starts' = starts + 1 /\ current' = [current EXCEPT ![m] = starts + 1]
        /\ late' = [late EXCEPT ![m] = 0] /\ UNCHANGED <<wpc, wrow>>
    BY <1>1 DEF StartRegister
  <2>2. Numbered' /\ PauseQuiet'
    <3>1. /\ starts \in Nat /\ current \in [Mailings -> 0..MaxStarts]
          /\ late \in [Mailings -> Nat]
      OBVIOUS
    <3>2. \A n \in Mailings : current[n] <= starts /\ late[n] <= 1
      OBVIOUS
    <3> HIDE DEF TypeOK, LateInv, Numbered, Quiet, PauseQuiet, Running, Camp
    <3>3. Numbered'
      BY <2>1, <3>1, <3>2 DEF Numbered
    <3>4. PauseQuiet'
      BY <2>1, <3>1, <3>2 DEF PauseQuiet
    <3> QED
      BY <3>3, <3>4
  <2>3. ASSUME NEW n \in Mailings, Running(n)', n # m PROVE Running(n)
    <3>1. current'[n] = current[n] /\ current[n] # starts + 1
      BY <2>1, <2>3
    <3> QED
      BY <1>1, <2>3, <3>1 DEF StartRegister
  <2>4. Quiet'
    BY <2>1, <2>3, MailingAssumption
  <2> QED
    BY <2>2, <2>4
<1>2. ASSUME NEW m \in Mailings, Pause(a, m) PROVE LateInv'
  BY <1>2 DEF Pause
<1>3. CASE DeleteForget(a)
  BY <1>3 DEF DeleteForget
<1>4. ASSUME NEW m \in Mailings, StartStep(a, m), ~StartRegister(a, m)
      PROVE  UNCHANGED <<memVars, workerVars, late>>
  BY <1>4 DEF StartStep, StartCheck, StartReset, StartSelect, StartResume, StartAdd
<1>5. ASSUME NEW m \in Mailings, EditStep(a, m)
      PROVE  UNCHANGED <<memVars, workerVars, late>>
  BY <1>5 DEF EditStep, Create, CreateRows, Add, AddContent, AddInsert, Remove,
              RemoveRow, Upload, UploadReplace, UploadInsert
<1>6. ASSUME NEW m \in Mailings, StartRead(a, m) \/ PauseQueue(a, m)
      PROVE  UNCHANGED <<memVars, workerVars, late>>
  BY <1>6 DEF StartRead, PauseQueue
<1>7. (\E ms \in SUBSET Mailings : Delete(a, ms)) \/ DeleteRows(a) \/ DeleteContent(a)
         \/ Abort(a)
        => UNCHANGED <<memVars, workerVars, late>>
  BY DEF Delete, DeleteRows, DeleteContent, Abort
<1> HIDE DEF TypeOK, LateInv, Numbered, Quiet, PauseQuiet, Running, Camp
<1> QED
  BY <1>1, <1>2, <1>3, <1>4, <1>5, <1>6, <1>7, LateFrame DEF Admin

\* The worker mails late at most the job that had passed the check.
LEMMA LateWorker ==
  ASSUME TypeOK, LateInv, Worker
  PROVE  LateInv'
<1> USE MailingAssumption
    DEF TypeOK, LateInv, Numbered, Quiet, PauseQuiet, Running, Camp, Generations
<1>1. CASE \E r \in Rows : Pick(r)
  BY <1>1 DEF Pick
<1>2. CASE Check
  BY <1>2 DEF Check, WGoto
<1>3. CASE MarkProcessing \/ MarkDone \/ MarkFailed
  <2>1. CASE MarkProcessing
    BY <2>1 DEF MarkProcessing, Mark, WGoto
  <2>2. CASE MarkDone
    BY <2>2 DEF MarkDone, Mark, WGoto
  <2>3. CASE MarkFailed
    BY <2>3 DEF MarkFailed, Mark, WGoto
  <2> QED
    BY <1>3, <2>1, <2>2, <2>3
<1>4. CASE Send
  BY <1>4 DEF Send, WGoto
<1>5. CASE Count \/ SendFails
  BY <1>5 DEF Count, SendFails, WGoto
<1>6. CASE Complete
  BY <1>6 DEF Complete, WGoto
<1>7. CASE RemoveCampaign
  BY <1>7 DEF RemoveCampaign, WGoto
<1>8. CASE Finish \/ Throw
  <2>1. wpc' = "idle" /\ UNCHANGED <<current, objects, starts, late>>
    BY <1>8 DEF Finish, Throw, WIdle
  <2> QED
    BY <2>1
<1> QED
  BY <1>1, <1>2, <1>3, <1>4, <1>5, <1>6, <1>7, <1>8 DEF Worker, WorkerStep

\* Every step keeps the pause quiet.
LEMMA LateNext ==
  ASSUME TypeOK, LateInv, [Next]_vars PROVE LateInv'
<1>1. ASSUME NEW r \in Rows, QueueStep(r) PROVE LateInv'
  BY <1>1, LateFrame DEF QueueStep, Promote, StalledRetry, Requeue, StalledFail, CleanFailed
<1>2. CASE Crash
  BY <1>2 DEF Crash, WIdle, LateInv, Numbered, Quiet, PauseQuiet, Running, TypeOK
<1>3. CASE UNCHANGED vars
  BY <1>3, LateFrame DEF vars
<1> QED
  BY <1>1, <1>2, <1>3, LateAdmin, LateWorker DEF Next

-----------------------------------------------------------------------------
\* The inductive invariant holds at the start.
LEMMA InvInit == Init => Inv
<1> SUFFICES ASSUME Init PROVE Inv
  OBVIOUS
<1>1. TypeOK
  BY TypeInit
<1> QED
  BY <1>1 DEF Init, Inv, WorkerJob, Paid, InRun, Mailed, DoneMeansMailed, Numbered,
              Quiet, PauseQuiet, Running

\* Every step keeps the inductive invariant.
LEMMA InvNext == Inv /\ [Next]_vars => Inv'
  BY TypeNext, PaidNext, DoneNext, LateNext DEF Inv, LateInv

\* The inductive invariant implies the budget of mails.
LEMMA InvImplies == Inv => MailBudget
<1> SUFFICES ASSUME Inv, NEW r \in Rows PROVE sent[r] <= enq[r] + retries[r]
  BY DEF MailBudget
<1>1. /\ sent[r] \in Nat /\ enq[r] \in Nat /\ retries[r] \in Nat
      /\ sent[r] + (IF InRun(r) THEN 1 ELSE 0) <= enq[r] + retries[r]
  BY DEF Inv, TypeOK, Paid
<1> QED
  BY <1>1

\* The inductive invariant holds in every reachable state.
LEMMA Invariance == Spec => []Inv
  BY InvInit, InvNext, PTL DEF Spec

\* A row is mailed at most once per enqueued job and per run BullMQ repeated,
\* for every number of administrators, faults and restarts.
THEOREM Budget == Spec => []MailBudget
  BY Invariance, InvImplies, PTL

\* A row the database calls DONE was handed to SMTP.
THEOREM DoneIsMailed == Spec => []DoneMeansMailed
<1>1. Inv => DoneMeansMailed
  BY DEF Inv
<1> QED
  BY <1>1, Invariance, PTL

\* A campaign that is not running mails at most the message in flight.
THEOREM PauseIsQuiet == Spec => []PauseQuiet
<1>1. Inv => PauseQuiet
  BY DEF Inv
<1> QED
  BY <1>1, Invariance, PTL

-----------------------------------------------------------------------------
(* No row is queued more often than its campaign was started. *)

\* Starts that have registered an object and will yet queue r.
Adding(r) == {a \in Admins : pc[a] \in {"startResume", "startAdd"} /\ r \in snap[a]}

\* Every enqueue, done or still to come, belongs to an object of the campaign.
Owed ==
  \A r \in Rows : /\ IsFiniteSet(Adding(r))
                  /\ enq[r] + Cardinality(Adding(r)) <= runs[HomeOf[r]]

\* A start about to register has selected rows of its own campaign.
SelectsOwn ==
  \A a \in Admins : pc[a] = "startRegister" =>
    \E m \in Mailings : target[a] = {m} /\ snap[a] \subseteq RowsOf(m)

\* Only request a moves.
Alone(a) ==
  \A b \in Admins \ {a} : pc'[b] = pc[b] /\ target'[b] = target[b] /\ snap'[b] = snap[b]

\* Each step of a request is one request's, and only four of them take part in
\* the account of enqueues.
LEMMA AdminMoves ==
  ASSUME TypeOK, NEW a \in Admins, Admin(a)
  PROVE  /\ Alone(a)
         /\ \/ \E m \in Mailings : \/ StartSelect(a, m) \/ StartRegister(a, m)
                                   \/ StartResume(a, m) \/ StartAdd(a, m)
            \/ /\ pc'[a] \notin {"startRegister", "startResume", "startAdd"}
               /\ UNCHANGED <<enq, runs>>
<1> USE DEF TypeOK, Alone, Goto, Respond, Accept
<1>1. ASSUME NEW m \in Mailings, StartSelect(a, m) \/ StartRegister(a, m)
                                   \/ StartResume(a, m) \/ StartAdd(a, m)
      PROVE  Alone(a)
  BY <1>1 DEF StartSelect, StartRegister, StartResume, StartAdd
<1> DEFINE Rest == /\ Alone(a) /\ UNCHANGED <<enq, runs>>
                   /\ pc'[a] \notin {"startRegister", "startResume", "startAdd"}
<1>2. ASSUME NEW m \in Mailings,
             StartRead(a, m) \/ StartCheck(a, m) \/ StartReset(a, m)
               \/ Pause(a, m) \/ PauseQueue(a, m)
      PROVE  Rest
  BY <1>2 DEF StartRead, StartCheck, StartReset, Pause, PauseQueue
<1>3. ASSUME NEW m \in Mailings, EditStep(a, m) PROVE Rest
  BY <1>3 DEF EditStep, Create, CreateRows, Add, AddContent, AddInsert, Remove,
              RemoveRow, Upload, UploadReplace, UploadInsert
<1>4. ASSUME NEW ms \in SUBSET Mailings, Delete(a, ms) PROVE Rest
  BY <1>4 DEF Delete
<1>5. CASE DeleteRows(a) \/ DeleteContent(a) \/ DeleteForget(a) \/ Abort(a)
  <2>1. Rest
    BY <1>5 DEF DeleteRows, DeleteContent, DeleteForget, Abort
  <2> QED
    BY <2>1
<1> QED
  BY <1>1, <1>2, <1>3, <1>4, <1>5 DEF Admin, StartStep

\* A request that leaves the account, or never was in it, owes nothing.
LEMMA OwedLeave ==
  ASSUME TypeOK, Owed, SelectsOwn, NEW a \in Admins, Alone(a),
         pc'[a] \notin {"startRegister", "startResume", "startAdd"},
         UNCHANGED <<enq, runs>>
  PROVE  Owed' /\ SelectsOwn'
<1>1. ASSUME NEW r \in Rows
      PROVE  (IsFiniteSet(Adding(r)) /\ enq[r] + Cardinality(Adding(r)) <= runs[HomeOf[r]])'
  <2>1. Adding(r)' = Adding(r) \ {a}
    BY DEF Adding, Alone
  <2>2. /\ IsFiniteSet(Adding(r)) /\ enq[r] + Cardinality(Adding(r)) <= runs[HomeOf[r]]
        /\ Cardinality(Adding(r)) \in Nat /\ enq[r] \in Nat /\ runs[HomeOf[r]] \in Nat
    BY FS_CardinalityType, MailingAssumption DEF Owed, TypeOK
  <2>3. IsFiniteSet(Adding(r)') /\ Cardinality(Adding(r)') <= Cardinality(Adding(r))
        /\ Cardinality(Adding(r)') \in Nat
    <3>1. /\ IsFiniteSet(Adding(r) \ {a})
          /\ Cardinality(Adding(r) \ {a}) <= Cardinality(Adding(r))
      BY <2>2, FS_Subset, Adding(r) \ {a} \in SUBSET Adding(r)
    <3>2. Cardinality(Adding(r) \ {a}) \in Nat
      BY <3>1, FS_CardinalityType
    <3> QED
      BY <2>1, <3>1, <3>2
  <2> QED
    BY <2>2, <2>3
<1>2. SelectsOwn'
  BY DEF SelectsOwn, Alone, RowsOf
<1> QED
  BY <1>1, <1>2 DEF Owed

\* StartSelect takes the rows of its campaign.
LEMMA OwedSelect ==
  ASSUME TypeOK, Owed, SelectsOwn, NEW a \in Admins, NEW m \in Mailings,
         StartSelect(a, m)
  PROVE  Owed' /\ SelectsOwn'
<1>1. /\ pc[a] = "startSelect" /\ pc' = [pc EXCEPT ![a] = "startRegister"]
      /\ target[a] = {m} /\ snap'[a] \subseteq RowsOf(m)
      /\ snap' = [snap EXCEPT ![a] = snap'[a]]
      /\ UNCHANGED <<target, enq, runs>>
  BY DEF StartSelect, At, TypeOK, RowsOf
<1>2. \A r \in Rows : Adding(r)' = Adding(r)
  BY <1>1 DEF Adding, TypeOK
<1>3. Owed'
  BY <1>1, <1>2 DEF Owed
<1>4. SelectsOwn'
  BY <1>1 DEF SelectsOwn, RowsOf, TypeOK
<1> QED
  BY <1>3, <1>4

\* An object is registered before the rows selected for it are queued.
LEMMA OwedRegister ==
  ASSUME TypeOK, Owed, SelectsOwn, NEW a \in Admins, NEW m \in Mailings,
         StartRegister(a, m)
  PROVE  Owed' /\ SelectsOwn'
<1>1. /\ pc[a] = "startRegister" /\ pc' = [pc EXCEPT ![a] = "startResume"]
      /\ runs' = [runs EXCEPT ![m] = @ + 1]
      /\ UNCHANGED <<target, snap, enq>>
  BY DEF StartRegister, At, Goto
<1>2. snap[a] \subseteq RowsOf(m)
  BY DEF SelectsOwn, StartRegister, At
<1>3. ASSUME NEW r \in Rows
      PROVE  (IsFiniteSet(Adding(r)) /\ enq[r] + Cardinality(Adding(r)) <= runs[HomeOf[r]])'
  <2>1. /\ IsFiniteSet(Adding(r)) /\ enq[r] + Cardinality(Adding(r)) <= runs[HomeOf[r]]
        /\ Cardinality(Adding(r)) \in Nat /\ enq[r] \in Nat /\ runs[HomeOf[r]] \in Nat
    BY FS_CardinalityType, MailingAssumption DEF Owed, TypeOK
  <2>2. HomeOf[r] \in Mailings /\ (r \in RowsOf(m) <=> HomeOf[r] = m)
    BY MailingAssumption DEF RowsOf
  <2>3. CASE r \in snap[a]
    <3>1. Adding(r)' = Adding(r) \cup {a}
      BY <1>1, <2>3 DEF Adding, TypeOK
    <3>2. /\ IsFiniteSet(Adding(r)') /\ Cardinality(Adding(r)') \in Nat
          /\ Cardinality(Adding(r)') <= Cardinality(Adding(r)) + 1
      <4>1. /\ IsFiniteSet(Adding(r) \cup {a})
            /\ Cardinality(Adding(r) \cup {a}) \in {Cardinality(Adding(r)),
                                                    Cardinality(Adding(r)) + 1}
        BY <2>1, FS_AddElement
      <4> QED
        BY <2>1, <3>1, <4>1
    <3>3. runs'[HomeOf[r]] = runs[HomeOf[r]] + 1
      BY <1>1, <1>2, <2>2, <2>3 DEF TypeOK
    <3> QED
      BY <1>1, <2>1, <3>2, <3>3
  <2>4. CASE r \notin snap[a]
    <3>1. Adding(r)' = Adding(r)
      BY <1>1, <2>4 DEF Adding, TypeOK
    <3>2. runs'[HomeOf[r]] \in {runs[HomeOf[r]], runs[HomeOf[r]] + 1}
      BY <1>1, <2>2 DEF TypeOK
    <3> QED
      BY <1>1, <2>1, <3>1, <3>2
  <2> QED
    BY <2>3, <2>4
<1>4. SelectsOwn'
  BY <1>1 DEF SelectsOwn, RowsOf, TypeOK
<1> QED
  BY <1>3, <1>4 DEF Owed

\* Waking the queue changes nothing in the account.
LEMMA OwedResume ==
  ASSUME TypeOK, Owed, SelectsOwn, NEW a \in Admins, NEW m \in Mailings,
         StartResume(a, m)
  PROVE  Owed' /\ SelectsOwn'
<1>1. /\ pc[a] = "startResume" /\ pc' = [pc EXCEPT ![a] = "startAdd"]
      /\ UNCHANGED <<target, snap, enq, runs>>
  BY DEF StartResume, At, Goto
<1>2. \A r \in Rows : Adding(r)' = Adding(r)
  BY <1>1 DEF Adding, TypeOK
<1>3. SelectsOwn'
  BY <1>1 DEF SelectsOwn, RowsOf, TypeOK
<1> QED
  BY <1>1, <1>2, <1>3 DEF Owed

\* addBulk turns the promise of a start into enqueues, one for a row at most.
LEMMA OwedAdd ==
  ASSUME TypeOK, Owed, SelectsOwn, NEW a \in Admins, NEW m \in Mailings,
         StartAdd(a, m)
  PROVE  Owed' /\ SelectsOwn'
<1>1. /\ pc[a] = "startAdd" /\ pc' = [pc EXCEPT ![a] = "idle"]
      /\ snap' = [snap EXCEPT ![a] = {}] /\ target' = [target EXCEPT ![a] = {}]
      /\ \A r \in Rows : enq'[r] = IF r \in snap[a] /\ ~HasJob(r) THEN enq[r] + 1
                                                                   ELSE enq[r]
      /\ UNCHANGED runs
  BY DEF StartAdd, At, Respond
<1>2. ASSUME NEW r \in Rows
      PROVE  (IsFiniteSet(Adding(r)) /\ enq[r] + Cardinality(Adding(r)) <= runs[HomeOf[r]])'
  <2>1. /\ IsFiniteSet(Adding(r)) /\ enq[r] + Cardinality(Adding(r)) <= runs[HomeOf[r]]
        /\ Cardinality(Adding(r)) \in Nat /\ enq[r] \in Nat /\ runs[HomeOf[r]] \in Nat
    BY FS_CardinalityType, MailingAssumption DEF Owed, TypeOK
  <2>2. Adding(r)' = Adding(r) \ {a} /\ (r \in snap[a] <=> a \in Adding(r))
    BY <1>1 DEF Adding, TypeOK
  <2>3. /\ IsFiniteSet(Adding(r)') /\ Cardinality(Adding(r)') \in Nat
        /\ Cardinality(Adding(r)') = IF a \in Adding(r) THEN Cardinality(Adding(r)) - 1
                                                         ELSE Cardinality(Adding(r))
    BY <2>1, <2>2, FS_RemoveElement, FS_CardinalityType
  <2>4. enq'[r] = enq[r] \/ (enq'[r] = enq[r] + 1 /\ a \in Adding(r))
    BY <1>1, <2>2
  <2> QED
    BY <1>1, <2>1, <2>3, <2>4
<1>3. SelectsOwn'
  BY <1>1 DEF SelectsOwn, RowsOf, TypeOK
<1> QED
  BY <1>2, <1>3 DEF Owed

\* Every step keeps the account of enqueues.
LEMMA OwedNext ==
  ASSUME TypeOK, Owed, SelectsOwn, [Next]_vars PROVE Owed' /\ SelectsOwn'
<1>1. ASSUME NEW a \in Admins, Admin(a) PROVE Owed' /\ SelectsOwn'
  BY <1>1, AdminMoves, OwedSelect, OwedRegister, OwedResume, OwedAdd, OwedLeave
<1>2. ASSUME UNCHANGED <<pc, target, snap, enq, runs>> PROVE Owed' /\ SelectsOwn'
  BY <1>2 DEF Owed, SelectsOwn, Adding, RowsOf
<1>3. CASE Worker
  BY <1>2, <1>3 DEF Worker, WorkerStep, Pick, Check, MarkProcessing, MarkDone,
     MarkFailed, Mark, Send, SendFails, Count, Complete, RemoveCampaign, Finish, Throw
<1>4. ASSUME NEW r \in Rows, QueueStep(r) PROVE Owed' /\ SelectsOwn'
  BY <1>2, <1>4 DEF QueueStep, Promote, StalledRetry, Requeue, StalledFail, CleanFailed
<1>5. CASE Crash
  <2>1. (\A a \in Admins : pc'[a] = "idle") /\ UNCHANGED <<enq, runs>>
    BY <1>5 DEF Crash
  <2>2. \A r \in Rows : Adding(r)' = {}
    BY <2>1 DEF Adding
  <2>3. ASSUME NEW r \in Rows
        PROVE  (IsFiniteSet(Adding(r)) /\ enq[r] + Cardinality(Adding(r)) <= runs[HomeOf[r]])'
    <3>1. /\ enq[r] + Cardinality(Adding(r)) <= runs[HomeOf[r]]
          /\ Cardinality(Adding(r)) \in Nat /\ enq[r] \in Nat /\ runs[HomeOf[r]] \in Nat
      BY FS_CardinalityType, MailingAssumption DEF Owed, TypeOK
    <3> QED
      BY <2>1, <2>2, <3>1, FS_EmptySet
  <2> QED
    BY <2>1, <2>3 DEF Owed, SelectsOwn
<1>6. CASE UNCHANGED vars
  BY <1>2, <1>6 DEF vars
<1> QED
  BY <1>1, <1>3, <1>4, <1>5, <1>6 DEF Next

\* A row is queued at most once per object startMailing registered for its
\* campaign, however many starts overlap.
THEOREM EnqueuesBounded == Spec => []EnqueueBound
<1>1. Init => Owed /\ SelectsOwn
  <2> SUFFICES ASSUME Init PROVE Owed /\ SelectsOwn
    OBVIOUS
  <2>1. \A r \in Rows : Adding(r) = {} /\ enq[r] = 0 /\ runs[HomeOf[r]] = 0
    BY MailingAssumption DEF Init, Adding
  <2>2. Owed
    <3>1. ASSUME NEW r \in Rows
          PROVE  IsFiniteSet(Adding(r)) /\ enq[r] + Cardinality(Adding(r)) <= runs[HomeOf[r]]
      BY <2>1, FS_EmptySet
    <3> QED
      BY <3>1 DEF Owed
  <2>3. SelectsOwn
    BY DEF Init, SelectsOwn
  <2> QED
    BY <2>2, <2>3
<1>2. TypeOK /\ Owed /\ SelectsOwn /\ [Next]_vars => (Owed /\ SelectsOwn)'
  BY OwedNext
<1>3. TypeOK /\ Owed => EnqueueBound
  <2> SUFFICES ASSUME TypeOK, Owed, NEW r \in Rows PROVE enq[r] <= runs[HomeOf[r]]
    BY DEF EnqueueBound
  <2>1. /\ enq[r] + Cardinality(Adding(r)) <= runs[HomeOf[r]]
        /\ Cardinality(Adding(r)) \in Nat /\ enq[r] \in Nat /\ runs[HomeOf[r]] \in Nat
    BY FS_CardinalityType, MailingAssumption DEF Owed, TypeOK
  <2> QED
    BY <2>1
<1> QED
  BY <1>1, <1>2, <1>3, TypeCorrect, PTL DEF Spec

-----------------------------------------------------------------------------
(* A campaign declared complete has no address left, as long as requests do  *)
(* not overlap: an edit that passed the look at runningJobs before a start    *)
(* could insert rows after the worker's last count.                           *)

OneRequest == \A a, b \in Admins : a = b

Inserting == {"createRows", "addContent", "addInsert", "uploadReplace", "uploadInsert"}

\* A campaign has an object only once it was created.
Born ==
  /\ \A m \in Mailings : live[m] = "unborn" => current[m] = 0
  /\ \A a \in Admins : pc[a] \in StartSteps => \A m \in target[a] : live[m] # "unborn"

\* A request that goes on to insert rows has found its campaign not running.
ShutOut ==
  \A a \in Admins : pc[a] \in Inserting => \A m \in target[a] : ~Running(m)

CompInv == Born /\ ShutOut /\ Numbered /\ wcamp <= starts /\ CompletionSound

\* A step that leaves the worker alone, starts nothing and adds no work to the
\* campaign being completed keeps the verdict sound.
LEMMA SoundFrame ==
  ASSUME CompletionSound, UNCHANGED workerVars,
         wpc = "complete" /\ current'[Camp] = wcamp /\ Running(Camp)' =>
           /\ current[Camp] = wcamp /\ Running(Camp)
           /\ Unfinished(Camp)' \subseteq Unfinished(Camp)
  PROVE  CompletionSound'
  BY DEF CompletionSound, Camp

\* Requests that leave campaigns and rows alone.
LEMMA CompFrame ==
  ASSUME CompInv, UNCHANGED <<live, status, memVars, workerVars>>,
         \A a \in Admins :
           /\ pc'[a] \in StartSteps =>
                \A m \in target'[a] : live[m] # "unborn"
           /\ pc'[a] \in Inserting => \A m \in target'[a] : ~Running(m)
  PROVE  CompInv'
<1>1. \A m \in Mailings : Running(m)' <=> Running(m)
  BY DEF Running
<1>2. ShutOut'
  BY DEF Running, ShutOut
<1>3. CompletionSound'
  BY SoundFrame DEF CompInv, Running, Unfinished, RowsOf, Camp
<1> QED
  BY <1>2, <1>3 DEF CompInv, Born, Numbered

\* The steps of startMailing.
LEMMA CompStart ==
  ASSUME TypeOK, CompInv, OneRequest, NEW a \in Admins, NEW m \in Mailings,
         StartRead(a, m) \/ StartStep(a, m)
  PROVE  CompInv'
<1>0. \A b \in Admins : b = a
  BY DEF OneRequest
<1>1. CASE \/ StartRead(a, m) \/ StartCheck(a, m) \/ StartSelect(a, m)
           \/ StartResume(a, m) \/ StartAdd(a, m)
  <2>1. /\ UNCHANGED <<live, status, memVars, workerVars>>
        /\ pc'[a] \notin Inserting
        /\ \A n \in target'[a] : live[n] # "unborn"
    BY <1>0, <1>1 DEF StartRead, StartCheck, StartSelect, StartResume, StartAdd, At,
       Goto, Respond, TypeOK, CompInv, Born, StartSteps, Inserting
  <2> QED
    BY <1>0, <2>1, CompFrame
<1>2. CASE StartReset(a, m)
  <2>1. /\ UNCHANGED <<live, memVars, workerVars, target>>
        /\ pc[a] \in StartSteps /\ pc'[a] = "startSelect"
        /\ \A r \in Rows : status'[r] \in {"PENDING", "PROCESSING"} =>
                             status[r] \in {"PENDING", "PROCESSING"}
    BY <1>2 DEF StartReset, At, Goto, SetStatus, TypeOK, StartSteps
  <2>2. CompletionSound'
    BY <2>1, SoundFrame DEF CompInv, Running, Unfinished, RowsOf, Camp
  <2>3. Born' /\ ShutOut' /\ Numbered' /\ (wcamp <= starts)'
    BY <1>0, <2>1 DEF CompInv, Born, ShutOut, Numbered, Inserting
  <2> QED
    BY <2>2, <2>3 DEF CompInv
<1>3. CASE StartRegister(a, m)
  <2>1. /\ UNCHANGED <<live, status, workerVars, target>>
        /\ pc[a] \in StartSteps /\ target[a] = {m}
        /\ pc' = [pc EXCEPT ![a] = "startResume"]
        /\ starts \in Nat /\ starts' = starts + 1
        /\ current' = [current EXCEPT ![m] = starts + 1]
        /\ objects' = [objects EXCEPT ![starts + 1] = "RUNNING"]
    BY <1>3 DEF StartRegister, At, Goto, StartSteps, TypeOK
  <2>2. Numbered' /\ (wcamp <= starts)'
    BY <2>1 DEF CompInv, Numbered, TypeOK
  <2>3. Born' /\ ShutOut'
    BY <1>0, <2>1 DEF CompInv, Born, ShutOut, Inserting, TypeOK
  <2>4. wpc = "complete" => Camp \in Mailings
    BY MailingAssumption DEF Camp, TypeOK
  <2>5. ASSUME wpc = "complete", current'[Camp] = wcamp, Running(Camp)'
        PROVE  current[Camp] = wcamp /\ Running(Camp)
    <3>1. Camp # m /\ Camp' = Camp
      BY <2>1, <2>4, <2>5 DEF CompInv, TypeOK, Camp
    <3>2. current'[Camp] = current[Camp] /\ current[Camp] # starts + 1
      BY <2>1, <2>4, <2>5, <3>1 DEF CompInv, Numbered, TypeOK
    <3> QED
      BY <2>1, <2>4, <2>5, <3>1, <3>2 DEF Running, TypeOK
  <2>6. Unfinished(Camp)' = Unfinished(Camp)
    BY <2>1 DEF Unfinished, RowsOf, Camp
  <2>7. CompletionSound'
    BY <2>1, <2>5, <2>6, SoundFrame DEF CompInv
  <2> QED
    BY <2>2, <2>3, <2>7 DEF CompInv
<1> QED
  BY <1>1, <1>2, <1>3 DEF StartStep

\* Rows appear or change only in campaigns that are not running.
LEMMA CompEdit ==
  ASSUME TypeOK, CompInv, OneRequest, NEW a \in Admins, NEW m \in Mailings,
         EditStep(a, m)
  PROVE  CompInv'
<1>0. \A b \in Admins : b = a
  BY DEF OneRequest
<1>1. CASE Add(a, m) \/ Upload(a, m) \/ Remove(a, m) \/ AddContent(a, m)
  <2>1. /\ UNCHANGED <<live, status, memVars, workerVars>>
        /\ pc'[a] \notin StartSteps
        /\ \A n \in target'[a] : pc'[a] \in Inserting => ~Running(n)
    BY <1>1 DEF Add, Upload, Remove, AddContent, Accept, At, Goto, Respond, TypeOK,
       CompInv, ShutOut, Inserting, StartSteps
  <2> QED
    BY <1>0, <2>1, CompFrame
<1>2. CASE Create(a, m)
  <2>1. /\ live[m] = "unborn" /\ live' = [live EXCEPT ![m] = "live"]
        /\ UNCHANGED <<status, memVars, workerVars>>
        /\ pc'[a] = "createRows" /\ target'[a] = {m}
    BY <1>2 DEF Create, Accept, TypeOK
  <2>2. current[m] = 0
    BY <2>1 DEF CompInv, Born
  <2>3. \A n \in Mailings : Running(n)' <=> Running(n)
    BY <2>1 DEF Running
  <2>4. Born' /\ ShutOut' /\ Numbered' /\ (wcamp <= starts)'
    BY <1>0, <2>1, <2>2 DEF CompInv, Born, ShutOut, Numbered, StartSteps, Running, TypeOK
  <2>5. CompletionSound'
    BY <2>1, SoundFrame DEF CompInv, Running, Unfinished, RowsOf, Camp
  <2> QED
    BY <2>4, <2>5 DEF CompInv
<1>3. ASSUME UNCHANGED <<live, memVars, workerVars>>,
             pc'[a] \in {"idle", "uploadInsert"}, target'[a] \subseteq target[a],
             \A r \in Rows : status'[r] \in {"PENDING", "PROCESSING"} =>
               status[r] \in {"PENDING", "PROCESSING"} \/ ~Running(HomeOf[r]),
             pc'[a] = "uploadInsert" => pc[a] \in Inserting
      PROVE  CompInv'
  <2>1. Born' /\ Numbered' /\ (wcamp <= starts)'
    BY <1>0, <1>3 DEF CompInv, Born, Numbered, StartSteps, TypeOK
  <2>2. ShutOut'
    BY <1>0, <1>3 DEF CompInv, ShutOut, Inserting, Running
  <2>3. Running(Camp)' => Running(Camp) /\ Unfinished(Camp)' \subseteq Unfinished(Camp)
    BY <1>3 DEF Unfinished, RowsOf, Camp, Running
  <2>4. CompletionSound'
    BY <1>3, <2>3, SoundFrame DEF CompInv, Camp
  <2> QED
    BY <2>1, <2>2, <2>4 DEF CompInv
<1>4. CASE CreateRows(a, m) \/ AddInsert(a, m) \/ UploadInsert(a, m)
  <2>1. ~Running(m)
    BY <1>4 DEF CreateRows, AddInsert, UploadInsert, At, CompInv, ShutOut, Inserting
  <2>2. PICK R \in SUBSET Fresh(m) : SetStatus(R, "PENDING")
    BY <1>4 DEF CreateRows, AddInsert, UploadInsert, Fresh
  <2>3. \A r \in Rows : status'[r] = status[r] \/ HomeOf[r] = m
    BY <2>2 DEF SetStatus, Fresh, RowsOf
  <2>4. /\ UNCHANGED <<live, memVars, workerVars>>
        /\ pc'[a] = "idle" /\ target'[a] = {}
    BY <1>4 DEF CreateRows, AddInsert, UploadInsert, At, Respond, TypeOK
  <2> QED
    BY <1>3, <2>1, <2>3, <2>4
<1>5. CASE RemoveRow(a, m) \/ UploadReplace(a, m)
  <2>1. PICK R \in SUBSET Rows : SetStatus(R, "GONE")
    BY <1>5 DEF RemoveRow, UploadReplace, RowsOf
  <2>2. \A r \in Rows : status'[r] \in {"PENDING", "PROCESSING"} =>
          status[r] \in {"PENDING", "PROCESSING"}
    BY <2>1 DEF SetStatus
  <2>3. /\ UNCHANGED <<live, memVars, workerVars>>
        /\ pc'[a] \in {"idle", "uploadInsert"} /\ target'[a] \subseteq target[a]
        /\ pc'[a] = "uploadInsert" => pc[a] \in Inserting
    BY <1>5 DEF RemoveRow, UploadReplace, At, Goto, Respond, TypeOK, Inserting
  <2> QED
    BY <1>3, <2>2, <2>3
<1> QED
  BY <1>1, <1>2, <1>4, <1>5 DEF EditStep

\* Pausing and deleting start nothing and add no work.
LEMMA CompOther ==
  ASSUME TypeOK, CompInv, OneRequest, NEW a \in Admins,
         \/ \E m \in Mailings : Pause(a, m) \/ PauseQueue(a, m)
         \/ \E ms \in SUBSET Mailings : Delete(a, ms)
         \/ DeleteRows(a) \/ DeleteContent(a) \/ DeleteForget(a) \/ Abort(a)
  PROVE  CompInv'
<1>0. \A b \in Admins : b = a
  BY DEF OneRequest
<1>1. /\ UNCHANGED workerVars /\ UNCHANGED starts
      /\ pc'[a] \notin StartSteps \cup Inserting
  BY DEF Pause, PauseQueue, Delete, DeleteRows, DeleteContent, DeleteForget, Abort,
     Accept, Goto, Respond, TypeOK, StartSteps, Inserting
<1>2. \A r \in Rows : status'[r] \in {"PENDING", "PROCESSING"} =>
                        status[r] \in {"PENDING", "PROCESSING"}
  BY DEF Pause, PauseQueue, Delete, DeleteRows, DeleteContent, DeleteForget, Abort,
     SetStatus
<1>3. ASSUME NEW m \in Mailings
      PROVE  /\ current'[m] \in {current[m], 0}
             /\ live'[m] = "unborn" => live[m] = "unborn"
  BY DEF Pause, PauseQueue, Delete, DeleteRows, DeleteContent, DeleteForget, Abort, TypeOK
<1>4. \A g \in Generations : objects'[g] = "RUNNING" => objects[g] = "RUNNING"
  BY DEF Pause, PauseQueue, Delete, DeleteRows, DeleteContent, DeleteForget, Abort, TypeOK
<1>5. ASSUME NEW m \in Mailings, Running(m)'
      PROVE  Running(m) /\ current'[m] = current[m]
  <2>1. current'[m] = current[m] /\ current[m] \in Generations
    BY <1>3, <1>5 DEF Running, TypeOK, Generations
  <2> QED
    BY <1>4, <1>5, <2>1 DEF Running
<1>6. Born' /\ ShutOut' /\ Numbered' /\ (wcamp <= starts)'
  BY <1>0, <1>1, <1>3 DEF CompInv, Born, ShutOut, Numbered, TypeOK
<1>7. wpc = "complete" => Camp \in Mailings
  BY MailingAssumption DEF Camp, TypeOK
<1>8. Unfinished(Camp)' \subseteq Unfinished(Camp)
  BY <1>1, <1>2 DEF Unfinished, RowsOf, Camp
<1>9. CompletionSound'
  BY <1>1, <1>5, <1>7, <1>8, SoundFrame DEF CompInv, Camp, Running
<1> QED
  BY <1>6, <1>9 DEF CompInv

\* The worker counts before its verdict and nothing happens in between.
LEMMA CompWorker ==
  ASSUME TypeOK, CompInv, Worker PROVE CompInv'
<1>1. /\ UNCHANGED <<live, pc, target, starts>>
      /\ \A m \in Mailings : current'[m] \in {current[m], 0}
      /\ \A g \in Generations : objects'[g] = "RUNNING" => objects[g] = "RUNNING"
  BY DEF Worker, WorkerStep, Pick, Check, MarkProcessing, MarkDone, MarkFailed, Mark,
     Send, SendFails, Count, Complete, RemoveCampaign, Finish, Throw, Fault, TypeOK
<1>2. ASSUME NEW m \in Mailings, Running(m)' PROVE Running(m)
  <2>1. current'[m] = current[m] /\ current[m] \in Generations
    BY <1>1, <1>2 DEF Running, Generations, TypeOK
  <2> QED
    BY <1>1, <1>2, <2>1 DEF Running
<1>3. Born' /\ ShutOut' /\ Numbered'
  BY <1>1, <1>2, MailingAssumption DEF CompInv, Born, ShutOut, Numbered, TypeOK
<1>4. wcamp' \in {wcamp, 0} \/ (wcamp' = current[Camp] /\ wpc = "check")
  BY DEF Worker, WorkerStep, Pick, Check, MarkProcessing, MarkDone, MarkFailed, Mark,
     Send, SendFails, Count, Complete, RemoveCampaign, Finish, Throw, WGoto, WIdle
<1>5. (wcamp <= starts)'
  <2>1. wpc = "check" => Camp \in Mailings
    BY MailingAssumption DEF Camp, TypeOK
  <2> QED
    BY <1>1, <1>4, <2>1, MailingAssumption DEF CompInv, Numbered, TypeOK
<1>6. CASE Count
  <2>1. /\ UNCHANGED <<status, wrow, wcamp>>
        /\ wpc' = "complete" => Unfinished(Camp) = {}
    BY <1>6 DEF Count, WGoto
  <2>2. CompletionSound'
    BY <2>1 DEF CompletionSound, Unfinished, RowsOf, Camp
  <2> QED
    BY <1>3, <1>5, <2>2 DEF CompInv
<1>7. CASE ~Count
  <2>1. wpc' # "complete"
    BY <1>7 DEF Worker, WorkerStep, Pick, Check, MarkProcessing, MarkDone, MarkFailed,
       Mark, Send, SendFails, Complete, RemoveCampaign, Finish, Throw, WGoto, WIdle
  <2> QED
    BY <1>3, <1>5, <2>1 DEF CompInv, CompletionSound
<1> QED
  BY <1>6, <1>7

\* Every step keeps the verdict sound.
LEMMA CompNext ==
  ASSUME TypeOK, CompInv, OneRequest, [Next]_vars PROVE CompInv'
<1>1. ASSUME NEW a \in Admins, Admin(a) PROVE CompInv'
  BY <1>1, CompStart, CompEdit, CompOther DEF Admin
<1>2. ASSUME UNCHANGED <<live, status, memVars, workerVars, pc, target>> PROVE CompInv'
  BY <1>2, CompFrame DEF CompInv, Born, ShutOut
<1>3. ASSUME NEW r \in Rows, QueueStep(r) PROVE CompInv'
  BY <1>2, <1>3 DEF QueueStep, Promote, StalledRetry, Requeue, StalledFail, CleanFailed
<1>4. CASE Crash
  BY <1>4 DEF Crash, WIdle, CompInv, Born, ShutOut, Numbered, CompletionSound, Running,
     TypeOK, StartSteps, Inserting
<1>5. CASE UNCHANGED vars
  BY <1>2, <1>5 DEF vars
<1> QED
  BY <1>1, <1>3, <1>4, <1>5, CompWorker DEF Next

\* With one request at a time, a running campaign the worker is about to declare
\* complete has no address left to mail.
THEOREM CompletesSoundly == ASSUME OneRequest PROVE Spec => []CompletionSound
<1>1. Init => CompInv
  BY DEF Init, CompInv, Born, ShutOut, Numbered, CompletionSound, StartSteps, Inserting
<1>2. TypeOK /\ CompInv /\ [Next]_vars => CompInv'
  BY CompNext, OneRequest
<1>3. CompInv => CompletionSound
  BY DEF CompInv
<1> QED
  BY <1>1, <1>2, <1>3, TypeCorrect, PTL DEF Spec

-----------------------------------------------------------------------------
(* Mailing implements DeliveryLedger. *)

\* A run is granted to each row of S.
LEMMA GrantStep ==
  ASSUME NEW S \in SUBSET Rows, UNCHANGED sent,
         Granted' = [r \in Rows |-> IF r \in S THEN Granted[r] + 1 ELSE Granted[r]],
         Open' = [r \in Rows |-> IF r \in S THEN Open[r] + 1 ELSE Open[r]]
  PROVE  Ledger!Next
<1>1. Ledger!Grant(S)
  BY DEF Ledger!Grant
<1> QED
  BY <1>1 DEF Ledger!Next

\* The open runs of X end without a mail.
LEMMA DropStep ==
  ASSUME TypeOK, NEW X \in SUBSET Rows, UNCHANGED <<sent, Granted>>,
         \A r \in X : InRun(r) /\ ~InRun(r)',
         \A r \in Rows \ X : InRun(r)' <=> InRun(r)
  PROVE  Ledger!Next
<1>1. \A r \in Rows : Open[r] = IF InRun(r) THEN 1 ELSE 0
  BY DEF Open
<1>2. X \in SUBSET {r \in Rows : Open[r] > 0}
  BY <1>1
<1>3. Open' = [r \in Rows |-> IF r \in X THEN Open[r] - 1 ELSE Open[r]]
  BY <1>1 DEF Open
<1>4. sent' = [r \in Rows |-> IF r \in {} THEN sent[r] + 1 ELSE sent[r]]
  BY DEF TypeOK
<1>5. Ledger!Settle(X, {})
  BY <1>3, <1>4 DEF Ledger!Settle
<1>6. {} \in SUBSET X
  OBVIOUS
<1> QED
  BY <1>2, <1>5, <1>6 DEF Ledger!Next

\* A step that leaves the runs alone is a stutter of the ledger.
LEMMA LedgerFrame ==
  ASSUME UNCHANGED <<sent, enq, retries>>, \A r \in Rows : InRun(r)' <=> InRun(r)
  PROVE  UNCHANGED Ledger!ledger
  BY DEF Ledger!ledger, Granted, Open

\* A run is granted by addBulk to each row it adds a job for.
LEMMA RefineStartAdd ==
  ASSUME TypeOK, WorkerJob, NEW a \in Admins, NEW m \in Mailings, StartAdd(a, m)
  PROVE  Ledger!Next
<1> DEFINE S == {r \in snap[a] : ~HasJob(r)}
<1>1. S \in SUBSET Rows
  BY DEF TypeOK
<1>2. UNCHANGED <<sent, retries, wpc>>
  BY DEF StartAdd
<1>3. /\ \A r \in S : job[r] = "none" /\ job'[r] = "waiting" /\ enq'[r] = enq[r] + 1
      /\ \A r \in Rows \ S : job'[r] = job[r] /\ enq'[r] = enq[r]
  BY DEF StartAdd, HasJob, TypeOK
<1> HIDE DEF S
<1>4. \A r \in S : ~InRun(r) /\ InRun(r)'
  BY <1>1, <1>3 DEF InRun
<1>5. \A r \in Rows \ S : InRun(r)' <=> InRun(r)
  BY <1>2, <1>3 DEF InRun
<1>6. Granted' = [r \in Rows |-> IF r \in S THEN Granted[r] + 1 ELSE Granted[r]]
  BY <1>1, <1>2, <1>3 DEF Granted, TypeOK
<1>7. Open' = [r \in Rows |-> IF r \in S THEN Open[r] + 1 ELSE Open[r]]
  BY <1>1, <1>4, <1>5 DEF Open
<1> QED
  BY <1>1, <1>2, <1>6, <1>7, GrantStep

\* The same for a job BullMQ runs again.
LEMMA RefineRequeue ==
  ASSUME TypeOK, WorkerJob, NEW q \in Rows, job[q] \in {"delayed", "stalled"}, Requeue(q)
  PROVE  Ledger!Next
<1>1. /\ job' = [job EXCEPT ![q] = "waiting"]
      /\ retries' = [retries EXCEPT ![q] = @ + 1]
      /\ UNCHANGED <<sent, enq, wpc>>
  BY DEF Requeue
<1>2. ~InRun(q) /\ InRun(q)'
  BY <1>1 DEF InRun, TypeOK
<1>3. \A r \in Rows \ {q} : InRun(r)' <=> InRun(r)
  BY <1>1 DEF InRun, TypeOK
<1>4. Granted' = [r \in Rows |-> IF r \in {q} THEN Granted[r] + 1 ELSE Granted[r]]
  BY <1>1 DEF Granted, TypeOK
<1>5. Open' = [r \in Rows |-> IF r \in {q} THEN Open[r] + 1 ELSE Open[r]]
  BY <1>2, <1>3 DEF Open
<1> QED
  BY <1>1, <1>4, <1>5, GrantStep

\* Send settles the run of the worker's row with a mail.
LEMMA RefineSend ==
  ASSUME TypeOK, WorkerJob, Send PROVE Ledger!Next
<1>1. /\ wrow \in Rows /\ wpc = "send" /\ wpc' = "done" /\ job[wrow] = "active"
      /\ sent' = [sent EXCEPT ![wrow] = @ + 1]
      /\ UNCHANGED <<enq, retries, job, wrow>>
  BY DEF Send, WGoto, TypeOK, WorkerJob
<1>2. InRun(wrow) /\ ~InRun(wrow)'
  BY <1>1 DEF InRun
<1>3. \A r \in Rows \ {wrow} : InRun(r)' <=> InRun(r)
  BY <1>1 DEF InRun, WorkerJob
<1>4. {wrow} \in SUBSET {r \in Rows : Open[r] > 0}
  BY <1>1, <1>2 DEF Open
<1>5. Open' = [r \in Rows |-> IF r \in {wrow} THEN Open[r] - 1 ELSE Open[r]]
  BY <1>1, <1>2, <1>3 DEF Open
<1>6. sent' = [r \in Rows |-> IF r \in {wrow} THEN sent[r] + 1 ELSE sent[r]]
  BY <1>1 DEF TypeOK
<1>7. UNCHANGED Granted
  BY <1>1 DEF Granted
<1>8. Ledger!Settle({wrow}, {wrow})
  BY <1>5, <1>6, <1>7 DEF Ledger!Settle
<1> QED
  BY <1>4, <1>8 DEF Ledger!Next

\* A worker step other than Send ends the run it has, or leaves all as they are.
LEMMA RefineWorker ==
  ASSUME TypeOK, WorkerJob, Worker, ~Send
  PROVE  Ledger!Next \/ UNCHANGED Ledger!ledger
<1>1. ASSUME NEW q \in Rows, Pick(q) PROVE UNCHANGED Ledger!ledger
  <2>1. /\ UNCHANGED <<sent, enq, retries>> /\ wpc = "idle" /\ wpc' = "check"
        /\ job[q] = "waiting" /\ job' = [job EXCEPT ![q] = "active"]
    BY <1>1 DEF Pick
  <2>2. \A r \in Rows : InRun(r)' <=> InRun(r)
    BY <2>1 DEF InRun, WorkerJob, TypeOK
  <2> QED
    BY <2>1, <2>2, LedgerFrame
<1>2. CASE /\ wpc \in {"check", "mark", "send"} /\ wpc' \notin {"check", "mark", "send"}
           /\ UNCHANGED job \/ job'[wrow] \notin {"active", "waiting"}
           /\ \A r \in Rows \ {wrow} : job'[r] = job[r]
           /\ UNCHANGED <<sent, enq, retries>>
  <2>1. PICK q \in Rows : q = wrow
    BY <1>2 DEF TypeOK
  <2>2. InRun(q) /\ ~InRun(q)'
    BY <1>2, <2>1 DEF InRun, WorkerJob
  <2>3. \A r \in Rows \ {q} : InRun(r)' <=> InRun(r)
    BY <1>2, <2>1 DEF InRun, WorkerJob
  <2>4. UNCHANGED <<sent, Granted>>
    BY <1>2 DEF Granted
  <2> QED
    BY <2>2, <2>3, <2>4, DropStep
<1>3. CASE wpc \notin {"check", "mark", "send"} /\ wpc' \notin {"check", "mark", "send"}
           /\ (\A r \in Rows : job'[r] = "waiting" <=> job[r] = "waiting")
           /\ UNCHANGED <<sent, enq, retries>>
  BY <1>3, LedgerFrame DEF InRun
<1>4. CASE wpc \in {"check", "mark", "send"} /\ wpc' \in {"check", "mark", "send"}
           /\ UNCHANGED <<job, sent, enq, retries>>
  BY <1>4, LedgerFrame DEF InRun
<1>5. CASE Check
  BY <1>2, <1>4, <1>5 DEF Check, WGoto
<1>6. CASE MarkProcessing \/ MarkDone \/ MarkFailed
  BY <1>3, <1>4, <1>6 DEF MarkProcessing, MarkDone, MarkFailed, Mark, WGoto
<1>7. CASE Count \/ Complete \/ RemoveCampaign
  BY <1>3, <1>7 DEF Count, Complete, RemoveCampaign, WGoto
<1>8. CASE SendFails
  BY <1>2, <1>3, <1>8 DEF SendFails, WGoto
<1>9. CASE Finish \/ Throw
  <2>1. /\ UNCHANGED <<sent, enq, retries>> /\ wpc' = "idle" /\ wrow \in Rows
        /\ job[wrow] = "active" /\ job'[wrow] \notin {"active", "waiting"}
        /\ \A r \in Rows \ {wrow} : job'[r] = job[r]
    BY <1>9 DEF Finish, Throw, WIdle, TypeOK, WorkerJob
  <2> QED
    BY <1>2, <1>3, <2>1
<1> QED
  BY <1>1, <1>5, <1>6, <1>7, <1>8, <1>9 DEF Worker, WorkerStep

\* A restart ends the run the worker was in.
LEMMA RefineCrash ==
  ASSUME TypeOK, WorkerJob, Crash PROVE Ledger!Next
<1> DEFINE X == {r \in Rows : job[r] = "active" /\ InRun(r)}
<1>1. /\ UNCHANGED <<sent, enq, retries>> /\ wpc' = "idle"
      /\ \A r \in Rows : job'[r] = IF job[r] = "active" THEN "stalled" ELSE job[r]
  BY DEF Crash, WIdle
<1>2. \A r \in X : InRun(r) /\ ~InRun(r)'
  BY <1>1 DEF InRun
<1>3. \A r \in Rows \ X : InRun(r)' <=> InRun(r)
  BY <1>1 DEF InRun
<1>4. UNCHANGED <<sent, Granted>> /\ X \in SUBSET Rows
  BY <1>1 DEF Granted
<1> QED
  BY <1>2, <1>3, <1>4, DropStep

\* Every step of the campaigns is a step of the ledger, or none.
LEMMA RefineNext ==
  ASSUME TypeOK, WorkerJob, [Next]_vars
  PROVE  Ledger!Next \/ UNCHANGED Ledger!ledger
<1>1. ASSUME UNCHANGED <<job, workerVars, sent, enq, retries>>
      PROVE  UNCHANGED Ledger!ledger
  BY <1>1, LedgerFrame DEF InRun
<1>2. ASSUME NEW a \in Admins, Admin(a) PROVE Ledger!Next \/ UNCHANGED Ledger!ledger
  BY <1>1, <1>2, AdminFrame, RefineStartAdd
<1>3. ASSUME NEW q \in Rows, QueueStep(q)
      PROVE  Ledger!Next \/ UNCHANGED Ledger!ledger
  <2>1. CASE Promote(q) \/ StalledRetry(q)
    BY <2>1, RefineRequeue DEF Promote, StalledRetry
  <2>2. CASE StalledFail(q) \/ CleanFailed(q)
    <3>1. /\ UNCHANGED <<sent, enq, retries, wpc>>
          /\ \A r \in Rows : /\ job'[r] = "waiting" <=> job[r] = "waiting"
                             /\ job'[r] = "active" <=> job[r] = "active"
      BY <2>2 DEF StalledFail, CleanFailed, TypeOK
    <3> QED
      BY <3>1, LedgerFrame DEF InRun
  <2> QED
    BY <1>3, <2>1, <2>2 DEF QueueStep
<1>4. CASE UNCHANGED vars
  BY <1>1, <1>4 DEF vars
<1> QED
  BY <1>2, <1>3, <1>4, RefineSend, RefineWorker, RefineCrash DEF Next

\* The campaigns implement the ledger of deliveries.
THEOREM Implements == Spec => KeepsLedger
<1>1. Init => Ledger!Init
  BY DEF Init, Ledger!Init, Granted, Open, InRun
<1>2. TypeOK /\ WorkerJob /\ [Next]_vars => [Ledger!Next]_(Ledger!ledger)
  BY RefineNext
<1>3. Inv => TypeOK /\ WorkerJob
  BY DEF Inv
<1> QED
  BY <1>1, <1>2, <1>3, Invariance, PTL DEF Spec, KeepsLedger, Ledger!Spec

\* The runs that are open were granted, and no mail has gone out in them.
Balanced ==
  /\ Granted \in [Rows -> Nat] /\ Open \in [Rows -> Nat] /\ sent \in [Rows -> Nat]
  /\ \A r \in Rows : sent[r] + Open[r] <= Granted[r]

LEMMA LedgerStep ==
  ASSUME Balanced, Ledger!Next \/ UNCHANGED Ledger!ledger
  PROVE  Balanced'
<1> USE DEF Balanced
<1>1. ASSUME NEW S \in SUBSET Rows, Ledger!Grant(S) PROVE Balanced'
  BY <1>1 DEF Ledger!Grant
<1>2. ASSUME NEW E \in SUBSET {r \in Rows : Open[r] > 0}, NEW D \in SUBSET E,
             Ledger!Settle(E, D)
      PROVE  Balanced'
  <2>1. Granted' \in [Rows -> Nat] /\ Open' \in [Rows -> Nat] /\ sent' \in [Rows -> Nat]
    BY <1>2 DEF Ledger!Settle
  <2>2. \A r \in Rows : sent'[r] + Open'[r] <= Granted'[r]
    BY <1>2 DEF Ledger!Settle
  <2> QED
    BY <2>1, <2>2
<1>3. CASE UNCHANGED Ledger!ledger
  BY <1>3 DEF Ledger!ledger
<1> QED
  BY <1>1, <1>2, <1>3 DEF Ledger!Next

\* What the ledger promises, of the campaigns: no row is mailed more often than runs of
\* it were granted.
THEOREM DeliveredWithinGrants == Spec => []Ledger!WithinGrants
<1>1. Ledger!Init => Balanced
  BY DEF Ledger!Init, Balanced
<1>2. Balanced /\ [Ledger!Next]_(Ledger!ledger) => Balanced'
  BY LedgerStep
<1>3. Balanced => Ledger!WithinGrants
  <2> SUFFICES ASSUME Balanced, NEW r \in Rows PROVE sent[r] <= Granted[r]
    BY DEF Ledger!WithinGrants
  <2>1. sent[r] \in Nat /\ Open[r] \in Nat /\ Granted[r] \in Nat
    BY DEF Balanced
  <2> QED
    BY <2>1 DEF Balanced
<1> QED
  BY <1>1, <1>2, <1>3, Implements, PTL DEF KeepsLedger, Ledger!Spec

=============================================================================
