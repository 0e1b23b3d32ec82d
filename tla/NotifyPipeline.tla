--------------------------- MODULE NotifyPipeline ---------------------------
(***************************************************************************)
(* Tender notifications on their way from the table notify to the persons   *)
(* they name: DbEventsListener hears NOTIFY db_notification, DbEventsProcessor *)
(* moves what notify_list() returns into the BullMQ queue                  *)
(* 'tender_notifications', TenderWorker delivers in batches.               *)
(*                                                                         *)
(* Each NOTIFY starts its own asynchronous processEvents, so several run at *)
(* once; the effect of each awaited query or queue command is one step.    *)
(***************************************************************************)
EXTENDS Naturals, FiniteSets

CONSTANTS
  Notes,       \* ids of rows of notify
  Persons,
  PersonsOf,   \* PersonsOf[n]: the person list of n
  Tender,      \* rows with notify_part 'TENDER'
  Known,       \* rows with a notify type TenderWorker knows
  Handlers,    \* calls of processEvents in flight at once
  NoNote,      \* the worker or a handler holds no row
  Batch,       \* BATCH_SIZE (25)
  MaxFaults,   \* bound: queries, queue commands and connections that fail
  MaxCrashes   \* bound: restarts of the process

ASSUME NotifyAssumption ==
  /\ PersonsOf \in [Notes -> SUBSET Persons]
  /\ Tender \subseteq Notes /\ Known \subseteq Notes
  /\ NoNote \notin Notes
  /\ IsFiniteSet(Persons)
  /\ Batch \in Nat \ {0} /\ MaxFaults \in Nat /\ MaxCrashes \in Nat

VARIABLES
  status,    \* status[n]: ids_status of row n, "none" before it is inserted
  listener,  \* "down", "up", or "failed" when onModuleInit gave up
  signals,   \* NOTIFYs received and not yet handled
  hpc, hcur, hlist,     \* processEvents: next step, current row, rows after it
  queued,    \* queued[n]: waiting jobs for row n (they have no jobId)
  stalled,   \* stalled[n]: jobs for row n whose worker died
  wpc, wnote, wleft,    \* the worker: next step, row, persons not yet tried
  faults, crashes,
  (* history *)
  told,      \* told[n, p]: deliveries of n to p that went through
  tried,     \* tried[n]: persons the worker has reached in its list
  added,     \* added[n]: jobs added for row n
  reruns,    \* reruns[n]: stalled jobs BullMQ ran again
  listed     \* listed[n]: times notify_list() returned row n

handlerVars == <<hpc, hcur, hlist>>
queueVars   == <<queued, stalled>>
workerVars  == <<wpc, wnote, wleft>>
boundVars   == <<faults, crashes>>
histVars    == <<told, tried, added, reruns, listed>>
vars == <<status, listener, signals, handlerVars, queueVars, workerVars, boundVars,
          histVars>>

Statuses == {"none", "NEW", "PROCESSING", "DONE", "FAILED"}
Fault    == faults < MaxFaults /\ faults' = faults + 1 /\ UNCHANGED crashes
Items    == Notes \X Persons
Recipients(n) == IF n \in Known THEN PersonsOf[n] ELSE {}

Init ==
  /\ status = [n \in Notes |-> "none"]
  /\ listener = "down" /\ signals = 0
  /\ hpc = [h \in Handlers |-> "idle"]
  /\ hcur = [h \in Handlers |-> NoNote]
  /\ hlist = [h \in Handlers |-> {}]
  /\ queued = [n \in Notes |-> 0]
  /\ stalled = [n \in Notes |-> 0]
  /\ wpc = "idle" /\ wnote = NoNote /\ wleft = {}
  /\ faults = 0 /\ crashes = 0
  /\ told = [x \in Items |-> 0]
  /\ tried = [n \in Notes |-> {}]
  /\ added = [n \in Notes |-> 0]
  /\ reruns = [n \in Notes |-> 0]
  /\ listed = [n \in Notes |-> 0]

-----------------------------------------------------------------------------
(* Postgres and the listener. *)

\* A row is inserted and its NOTIFY sent: nobody keeps it for a listener that
\* is not there.
Insert(n) ==
  /\ status[n] = "none"
  /\ status' = [status EXCEPT ![n] = "NEW"]
  /\ signals' = IF listener = "up" THEN signals + 1 ELSE signals
  /\ UNCHANGED <<listener, handlerVars, queueVars, workerVars, boundVars, histVars>>

\* onModuleInit: connect, LISTEN, register the callback; no look at the table.
Listen ==
  /\ listener = "down"
  /\ listener' = "up"
  /\ UNCHANGED <<status, signals, handlerVars, queueVars, workerVars, boundVars, histVars>>

\* A failure at start-up is logged and never tried again; a connection that
\* breaks later is opened again by pg-listen.
ListenerFails ==
  /\ Fault
  /\ \/ listener = "down" /\ listener' = "failed"
     \/ listener = "up" /\ listener' = "down"
  /\ UNCHANGED <<status, signals, handlerVars, queueVars, workerVars, histVars>>

\* The callback: connect() may reject outside the try block.
Receive(h) ==
  /\ signals > 0 /\ signals' = signals - 1
  /\ hpc[h] = "idle"
  /\ \/ hpc' = [hpc EXCEPT ![h] = "list"] /\ UNCHANGED boundVars
     \/ UNCHANGED hpc /\ Fault
  /\ UNCHANGED <<status, listener, hcur, hlist, queueVars, workerVars, histVars>>

-----------------------------------------------------------------------------
(* processEvents *)

HIdle(h) ==
  /\ hpc' = [hpc EXCEPT ![h] = "idle"]
  /\ hcur' = [hcur EXCEPT ![h] = NoNote]
  /\ hlist' = [hlist EXCEPT ![h] = {}]

\* On to a next row of S, or the end.
Advance(h, S) ==
  \/ S = {} /\ HIdle(h)
  \/ \E n \in S : /\ hpc' = [hpc EXCEPT ![h] = "mark"]
                  /\ hcur' = [hcur EXCEPT ![h] = n]
                  /\ hlist' = [hlist EXCEPT ![h] = S \ {n}]
HGoto(h, step) == hpc' = [hpc EXCEPT ![h] = step] /\ UNCHANGED <<hcur, hlist>>

\* notify_list() returns the rows nobody has taken up yet.
List(h) ==
  LET new == {n \in Notes : status[n] = "NEW"}
  IN  /\ hpc[h] = "list"
      /\ Advance(h, new)
      /\ listed' = [n \in Notes |-> IF n \in new THEN listed[n] + 1 ELSE listed[n]]
      /\ UNCHANGED <<status, listener, signals, queueVars, workerVars, boundVars, told,
                     tried, added, reruns>>

ListFails(h) ==
  /\ hpc[h] = "list" /\ Fault /\ HIdle(h)
  /\ UNCHANGED <<status, listener, signals, queueVars, workerVars, histVars>>

\* Mutant: the row is not marked.
MarkNothing(h) ==
  /\ hpc[h] = "mark"
  /\ HGoto(h, "dispatch")
  /\ UNCHANGED <<status, listener, signals, queueVars, workerVars, boundVars, histVars>>

MarkProcessing(h) ==
  /\ hpc[h] = "mark"
  /\ status' = [status EXCEPT ![hcur[h]] = "PROCESSING"]
  /\ HGoto(h, "dispatch")
  /\ UNCHANGED <<listener, signals, queueVars, workerVars, boundVars, histVars>>

\* Mutants: a part without a queue is only logged; the job is added again.
DispatchLogs(h) ==
  LET n == hcur[h]
  IN  /\ hpc[h] = "dispatch"
      /\ IF n \in Tender
           THEN /\ queued' = [queued EXCEPT ![n] = @ + 1]
                /\ added' = [added EXCEPT ![n] = @ + 1]
           ELSE UNCHANGED <<queued, added>>
      /\ Advance(h, hlist[h])
      /\ UNCHANGED <<status, listener, signals, stalled, workerVars, boundVars, told,
                     tried, reruns, listed>>
DispatchAgain(h) ==
  /\ hpc[h] = "dispatch" /\ hcur[h] \in Tender
  /\ queued' = [queued EXCEPT ![hcur[h]] = @ + 1]
  /\ added' = [added EXCEPT ![hcur[h]] = @ + 1]
  /\ UNCHANGED <<status, listener, signals, handlerVars, stalled, workerVars, boundVars,
                 told, tried, reruns, listed>>

\* A job for a tender; anything else has no queue and fails on the spot.
Dispatch(h) ==
  LET n == hcur[h]
  IN  /\ hpc[h] = "dispatch"
      /\ IF n \in Tender
           THEN /\ queued' = [queued EXCEPT ![n] = @ + 1]
                /\ added' = [added EXCEPT ![n] = @ + 1]
                /\ UNCHANGED status
           ELSE /\ status' = [status EXCEPT ![n] = "FAILED"]
                /\ UNCHANGED <<queued, added>>
      /\ Advance(h, hlist[h])
      /\ UNCHANGED <<listener, signals, stalled, workerVars, boundVars, told, tried,
                     reruns, listed>>

\* Mutant: the error is only logged.
RowSkipped(h) ==
  /\ hpc[h] \in {"mark", "dispatch"} /\ Fault /\ Advance(h, hlist[h])
  /\ UNCHANGED <<status, listener, signals, queueVars, workerVars, histVars>>

\* The catch block of one row ...
RowFails(h) ==
  /\ hpc[h] \in {"mark", "dispatch"} /\ Fault /\ HGoto(h, "rowFailed")
  /\ UNCHANGED <<status, listener, signals, queueVars, workerVars, histVars>>

\* ... also when the job is in the queue and only the answer was lost.
DispatchUnanswered(h) ==
  /\ hpc[h] = "dispatch" /\ hcur[h] \in Tender
  /\ Fault
  /\ queued' = [queued EXCEPT ![hcur[h]] = @ + 1]
  /\ added' = [added EXCEPT ![hcur[h]] = @ + 1]
  /\ HGoto(h, "rowFailed")
  /\ UNCHANGED <<status, listener, signals, stalled, workerVars, told, tried, reruns,
                 listed>>

MarkFailed(h) ==
  /\ hpc[h] = "rowFailed"
  /\ status' = [status EXCEPT ![hcur[h]] = "FAILED"]
  /\ Advance(h, hlist[h])
  /\ UNCHANGED <<listener, signals, queueVars, workerVars, boundVars, histVars>>

\* Its own UPDATE rejects: out of the loop, the rest of the rows is dropped.
BatchFails(h) ==
  /\ hpc[h] = "rowFailed" /\ Fault /\ HIdle(h)
  /\ UNCHANGED <<status, listener, signals, queueVars, workerVars, histVars>>

-----------------------------------------------------------------------------
(* TenderWorker: one job at a time. *)

WIdle == wpc' = "idle" /\ wnote' = NoNote /\ wleft' = {}
WGoto(step) == wpc' = step /\ UNCHANGED <<wnote, wleft>>

\* Nobody to notify, or a type it does not know: straight to DONE.
Take(n) ==
  /\ wpc = "idle" /\ queued[n] > 0
  /\ queued' = [queued EXCEPT ![n] = @ - 1]
  /\ wnote' = n
  /\ wleft' = Recipients(n)
  /\ wpc' = IF Recipients(n) = {} THEN "done" ELSE "deliver"
  /\ UNCHANGED <<status, listener, signals, handlerVars, stalled, boundVars, histVars>>

\* Mutant: the loop over the batches ends after the first.
DeliverFirstBatch ==
  /\ wpc = "deliver"
  /\ \E B \in SUBSET wleft :
       /\ B = wleft \/ Cardinality(B) = Batch
       /\ B # {}
       /\ told' = [x \in Items |->
                    IF x[1] = wnote /\ x[2] \in B THEN told[x] + 1 ELSE told[x]]
       /\ tried' = [tried EXCEPT ![wnote] = @ \cup B]
  /\ wleft' = {} /\ wpc' = "done"
  /\ UNCHANGED <<status, listener, signals, handlerVars, queueVars, wnote, boundVars,
                 added, reruns, listed>>

\* A batch of persons; for each of them the first channel that throws ends
\* the delivery, and the error is only logged.
DeliverBatch ==
  /\ wpc = "deliver"
  /\ \E B \in SUBSET wleft :
       /\ B = wleft \/ Cardinality(B) = Batch
       /\ B # {}
       /\ \E S \in SUBSET B :
            told' = [x \in Items |->
                       IF x[1] = wnote /\ x[2] \in S THEN told[x] + 1 ELSE told[x]]
       /\ tried' = [tried EXCEPT ![wnote] = @ \cup B]
       /\ wleft' = wleft \ B
       /\ wpc' = IF B = wleft THEN "done" ELSE "deliver"
  /\ UNCHANGED <<status, listener, signals, handlerVars, queueVars, wnote, boundVars,
                 added, reruns, listed>>

\* Mutant: a status no reader knows.
DoneSent ==
  /\ wpc = "done"
  /\ status' = [status EXCEPT ![wnote] = "SENT"]
  /\ WGoto("finish")
  /\ UNCHANGED <<listener, signals, handlerVars, queueVars, boundVars, histVars>>

Done ==
  /\ wpc = "done"
  /\ status' = [status EXCEPT ![wnote] = "DONE"]
  /\ WGoto("finish")
  /\ UNCHANGED <<listener, signals, handlerVars, queueVars, boundVars, histVars>>

\* The UPDATE to DONE rejects although everybody was notified.
DoneFails ==
  /\ wpc = "done" /\ Fault /\ WGoto("fail")
  /\ UNCHANGED <<status, listener, signals, handlerVars, queueVars, histVars>>

\* FAILED, and the error is thrown on: the job had one attempt.
Fail ==
  /\ wpc = "fail"
  /\ \/ status' = [status EXCEPT ![wnote] = "FAILED"] /\ UNCHANGED boundVars
     \/ UNCHANGED status /\ Fault
  /\ WGoto("finish")
  /\ UNCHANGED <<listener, signals, handlerVars, queueVars, histVars>>

\* Mutant: a finished job goes back to the queue.
FinishPutsBack ==
  /\ wpc = "finish" /\ WIdle
  /\ queued' = [queued EXCEPT ![wnote] = @ + 1]
  /\ UNCHANGED <<status, listener, signals, handlerVars, stalled, boundVars, histVars>>

\* The job leaves the queue, completed or failed.
Finish ==
  /\ wpc = "finish" /\ WIdle
  /\ UNCHANGED <<status, listener, signals, handlerVars, queueVars, boundVars, histVars>>

-----------------------------------------------------------------------------
(* BullMQ on its own, and restarts. *)

StalledRetry(n) ==
  /\ stalled[n] > 0
  /\ stalled' = [stalled EXCEPT ![n] = @ - 1]
  /\ queued' = [queued EXCEPT ![n] = @ + 1]
  /\ reruns' = [reruns EXCEPT ![n] = @ + 1]
  /\ UNCHANGED <<status, listener, signals, handlerVars, workerVars, boundVars, told,
                 tried, added, listed>>

\* A job that stalled before fails for good; no code hears of it.
StalledFail(n) ==
  /\ stalled[n] > 0 /\ reruns[n] > 0
  /\ stalled' = [stalled EXCEPT ![n] = @ - 1]
  /\ UNCHANGED <<status, listener, signals, handlerVars, queued, workerVars, boundVars,
                 histVars>>

Crash ==
  /\ crashes < MaxCrashes /\ crashes' = crashes + 1
  /\ listener' = "down" /\ signals' = 0
  /\ hpc' = [h \in Handlers |-> "idle"]
  /\ hcur' = [h \in Handlers |-> NoNote]
  /\ hlist' = [h \in Handlers |-> {}]
  /\ stalled' = [n \in Notes |-> IF n = wnote THEN stalled[n] + 1 ELSE stalled[n]]
  /\ WIdle
  /\ UNCHANGED <<status, queued, faults, histVars>>

-----------------------------------------------------------------------------
ListenerStep == (\E n \in Notes : Insert(n)) \/ Listen \/ ListenerFails

HandlerStep(h) == List(h) \/ MarkProcessing(h) \/ Dispatch(h) \/ MarkFailed(h)
Handler(h) ==
  \/ Receive(h) \/ HandlerStep(h)
  \/ ListFails(h) \/ RowFails(h) \/ DispatchUnanswered(h) \/ BatchFails(h)

WorkerStep == DeliverBatch \/ Done \/ Fail \/ Finish
Worker     == (\E n \in Notes : Take(n)) \/ WorkerStep \/ DoneFails

Next ==
  \/ ListenerStep
  \/ \E h \in Handlers : Handler(h)
  \/ Worker
  \/ \E n \in Notes : StalledRetry(n) \/ StalledFail(n)
  \/ Crash

Spec == Init /\ [][Next]_vars

\* Callbacks and queries answer, the worker takes jobs in order.
FairSpec ==
  /\ Spec
  /\ \A h \in Handlers : WF_vars(Receive(h)) /\ WF_vars(HandlerStep(h))
  /\ \A n \in Notes : WF_vars(Take(n)) /\ WF_vars(StalledRetry(n))
  /\ WF_vars(WorkerStep)

-----------------------------------------------------------------------------
(* Properties. *)

TypeOK ==
  /\ status \in [Notes -> Statuses]
  /\ listener \in {"down", "up", "failed"} /\ signals \in Nat
  /\ hpc \in [Handlers -> {"idle", "list", "mark", "dispatch", "rowFailed"}]
  /\ hcur \in [Handlers -> Notes \cup {NoNote}]
  /\ \A h \in Handlers : hpc[h] \in {"mark", "dispatch", "rowFailed"} => hcur[h] \in Notes
  /\ hlist \in [Handlers -> SUBSET Notes]
  /\ queued \in [Notes -> Nat] /\ stalled \in [Notes -> Nat]
  /\ wpc \in {"idle", "deliver", "done", "fail", "finish"}
  /\ wnote \in Notes \cup {NoNote} /\ wleft \in SUBSET Persons
  /\ (wpc = "idle") <=> (wnote = NoNote)
  /\ faults \in Nat /\ crashes \in Nat
  /\ told \in [Items -> Nat] /\ tried \in [Notes -> SUBSET Persons]
  /\ added \in [Notes -> Nat] /\ reruns \in [Notes -> Nat] /\ listed \in [Notes -> Nat]

\* DONE stands for a list worked off: every person of a row that is DONE has
\* been reached by the worker, in whatever batches and runs.
DoneMeansTried ==
  \A n \in Notes : status[n] = "DONE" => Recipients(n) \subseteq tried[n]

\* A row is queued at most once each time notify_list() returned it.
AddedBound == \A n \in Notes : added[n] <= listed[n]

\* A row is listed a second time only in a race, while a handler that listed it
\* has not marked it yet: without faults and restarts nothing else queues a row
\* twice.
RelistedInRace ==
  [][\A n \in Notes : listed[n] > 0 /\ listed'[n] # listed[n] /\ faults = 0 /\ crashes = 0
       => \E h \in Handlers : n \in hlist[h] \/ (hcur[h] = n /\ hpc[h] = "mark")]_vars

\* What is PROCESSING is in somebody's hands: a handler between its UPDATE and
\* its queue command, a job, or the worker.  A single failure does not lose
\* it, it takes two in a row or a restart.
ProcessingHeld ==
  \A n \in Notes : status[n] = "PROCESSING" /\ faults <= 1 /\ crashes = 0 =>
    \/ \E h \in Handlers : hcur[h] = n /\ hpc[h] \in {"dispatch", "rowFailed"}
    \/ queued[n] > 0
    \/ wnote = n /\ wpc # "finish"

\* A NEW row whose NOTIFY was heard comes to an end.
HeardIsServed ==
  \A n \in Notes : status[n] = "NEW" /\ signals > 0 ~> status[n] \in {"DONE", "FAILED"}

\* Runs of (row, person): granted when a job is added or run again, open as
\* long as the person may still be reached in it.
Granted == [x \in Items |-> added[x[1]] + reruns[x[1]]]
Ahead(x) == wnote = x[1] /\ x[2] \in wleft
Open    == [x \in Items |-> queued[x[1]] + IF Ahead(x) THEN 1 ELSE 0]

Ledger == INSTANCE DeliveryLedger WITH granted <- Granted, open <- Open, out <- told

\* The pipeline keeps the ledger: a delivery uses up a run that was granted.
KeepsLedger == Ledger!Spec

=============================================================================
