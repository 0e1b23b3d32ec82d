----------------------------- MODULE ClaudeTask -----------------------------
(***************************************************************************)
(* Tasks for Claude Code given in Telegram: ClaudeAgentService starts a    *)
(* detached worker (scripts/claude-task.mjs) behind a lock file, the       *)
(* worker edits its clone, builds, commits, asks the administrator over    *)
(* ApprovalService and pushes its branch.                                  *)
(*                                                                         *)
(* The backend and the workers are processes of their own that share the   *)
(* lock file, the clones and the approval records in Redis; each of their  *)
(* reads and writes of those is a step.                                    *)
(***************************************************************************)
EXTENDS Naturals, FiniteSets

CONSTANTS
  Tasks,      \* commands /task that pass the checks of their text
  Target,     \* Target[t]: 'client' or 'server', the clone it works in
  Free,       \* no lock file
  Slots,      \* presses of approval buttons handled at once
  AutoPush,   \* tasks whose worker is started with CLAUDE_TASK_AUTOPUSH
  MaxPresses, \* bound: different presses
  MaxFaults   \* bound: kills, restarts and locks taken late or not at all

ClaudeTaskAssumption ==
  /\ Free \notin Tasks \cup {"pending", "stale"}
  /\ {"pending", "stale"} \cap Tasks = {}
  /\ AutoPush \subseteq Tasks /\ MaxPresses \in Nat /\ MaxFaults \in Nat

VARIABLES
  lock,     \* Free, 'pending', a 'stale' pending mark, or the worker's pid
  desk,     \* handleTask: [pc, task, looks], looks: calls of isBusy left
  worker,   \* worker[t]: where its script is
  head,     \* head[c]: the task whose branch clone c has checked out
  tree,     \* tree[c]: tasks whose changes lie uncommitted in clone c
  branch,   \* branch[t]: tasks whose changes are committed on t's branch
  request,  \* request[t]: where create() is with t's request
  rec,      \* rec[t]: status of the approval record in Redis
  buttons,  \* buttons[t]: keyboards shown, 1 and 2
  press,    \* press[p]: a handler between its read and its write
  faults,
  (* history *)
  late,     \* tasks whose worker did not take the lock in its minute
  checked,  \* checked[t]: tree that passed the build
  said,     \* <<task, keyboard, yes or no>> of every press
  pushed

deskVars   == <<lock, desk, late>>
cloneVars  == <<head, tree, branch, checked, pushed>>
apprVars   == <<request, rec, buttons, press, said>>
vars == <<deskVars, cloneVars, apprVars, worker, faults>>

Clones == {Target[t] : t \in Tasks}
NoOne  == Free
Idle   == [pc |-> "idle", task |-> Free, looks |-> 0]
NoPress == [pc |-> "idle", task |-> Free, stage |-> 1, allow |-> FALSE, seen |-> "none"]

Working == {"preparing", "agent", "check", "commit", "ask", "posted",
            "polling", "push"}
Alive   == Working \cup {"spawned", "exit", "removing"}
Statuses == {"none", "pending", "confirming", "approved", "denied"}

TypeOK ==
  /\ lock \in Tasks \cup {Free, "pending", "stale"}
  /\ desk \in [pc : {"idle", "look", "clear", "spool", "spawn"},
               task : Tasks \cup {Free}, looks : 0..2]
  /\ worker \in [Tasks -> Alive \cup {"unborn", "ended", "dead"}]
  /\ head \in [Clones -> Tasks \cup {NoOne}]
  /\ tree \in [Clones -> SUBSET Tasks]
  /\ branch \in [Tasks -> SUBSET Tasks]
  /\ request \in [Tasks -> {"none", "sending", "saving", "answered", "failed"}]
  /\ rec \in [Tasks -> Statuses]
  /\ buttons \in [Tasks -> SUBSET {1, 2}]
  /\ press \in [Slots -> [pc : {"idle", "write"}, task : Tasks \cup {Free}, stage : {1, 2},
                          allow : BOOLEAN, seen : Statuses]]
  /\ faults \in 0..MaxFaults
  /\ late \subseteq Tasks /\ pushed \subseteq Tasks
  /\ checked \in [Tasks -> SUBSET Tasks]
  /\ said \subseteq Tasks \X {1, 2} \X BOOLEAN

Init ==
  /\ lock = Free /\ desk = Idle
  /\ worker = [t \in Tasks |-> "unborn"]
  /\ head = [c \in Clones |-> NoOne]
  /\ tree = [c \in Clones |-> {}]
  /\ branch = [t \in Tasks |-> {}]
  /\ request = [t \in Tasks |-> "none"]
  /\ rec = [t \in Tasks |-> "none"]
  /\ buttons = [t \in Tasks |-> {}]
  /\ press = [p \in Slots |-> NoPress]
  /\ faults = 0
  /\ late = {} /\ pushed = {} /\ said = {}
  /\ checked = [t \in Tasks |-> {}]

Go(t, pc) == worker' = [worker EXCEPT ![t] = pc]
Fault     == faults < MaxFaults /\ faults' = faults + 1

(***************************************************************************)
(* The backend: /task                                                      *)
(***************************************************************************)
\* handleTask looks at the lock itself, start() once more.
Command(t) ==
  /\ desk.pc = "idle" /\ worker[t] = "unborn"
  /\ desk' = [pc |-> "look", task |-> t, looks |-> 2]
  /\ UNCHANGED <<lock, late, cloneVars, apprVars, worker, faults>>

Passed == [desk EXCEPT !.pc = IF desk.looks = 1 THEN "spool" ELSE "look", !.looks = @ - 1]

\* Mutant: a pending mark is cleared like the pid of a dead process.
LookIgnoresPending ==
  /\ desk.pc = "look"
  /\ desk' = IF lock = Free THEN Passed
             ELSE IF lock \in Tasks /\ worker[lock] \in Alive THEN Idle
             ELSE [desk EXCEPT !.pc = "clear"]
  /\ UNCHANGED <<lock, late, cloneVars, apprVars, worker, faults>>

\* isBusy: a fresh pending mark or the pid of a live process mean busy; any
\* other content of the file is cleared.
Look ==
  /\ desk.pc = "look"
  /\ desk' = IF lock = Free THEN Passed
             ELSE IF lock = "pending" \/ (lock \in Tasks /\ worker[lock] \in Alive) THEN Idle
             ELSE [desk EXCEPT !.pc = "clear"]
  /\ UNCHANGED <<lock, late, cloneVars, apprVars, worker, faults>>

\* clearLock removes the file without a second look at what is in it.
ClearLock ==
  /\ desk.pc = "clear"
  /\ lock' = Free /\ desk' = Passed
  /\ UNCHANGED <<late, cloneVars, apprVars, worker, faults>>

\* Mutant: the lock is left to the worker.
SpoolUnlocked ==
  /\ desk.pc = "spool"
  /\ desk' = [desk EXCEPT !.pc = "spawn"]
  /\ UNCHANGED <<lock, late, cloneVars, apprVars, worker, faults>>

\* The task file, and the lock as a pending mark.
Spool ==
  /\ desk.pc = "spool"
  /\ lock' = "pending" /\ desk' = [desk EXCEPT !.pc = "spawn"]
  /\ UNCHANGED <<late, cloneVars, apprVars, worker, faults>>

\* spawn('setsid'): the worker is a process of its own from here on.
Spawn ==
  /\ desk.pc = "spawn"
  /\ Go(desk.task, "spawned") /\ desk' = Idle
  /\ UNCHANGED <<lock, late, cloneVars, apprVars, faults>>

\* A spawn that throws gives the lock back.
SpawnFails ==
  /\ desk.pc = "spawn" /\ Fault
  /\ lock' = Free /\ desk' = Idle
  /\ UNCHANGED <<late, cloneVars, apprVars, worker>>

\* Sixty seconds after the mark, isBusy does not believe it any more; start()
\* itself does not wait between the mark and the spawn.
PendingExpires ==
  /\ lock = "pending" /\ desk.pc # "spawn"
  /\ lock' = "stale"
  /\ late' = late \cup {t \in Tasks : worker[t] = "spawned"}
  /\ IF \E t \in Tasks : worker[t] = "spawned" THEN Fault ELSE UNCHANGED faults
  /\ UNCHANGED <<desk, cloneVars, apprVars, worker>>

\* pm2 restart all ends the handlers of the backend; the workers go on.
RestartBackend ==
  /\ Fault
  /\ desk' = Idle /\ press' = [p \in Slots |-> NoPress]
  /\ request' = [t \in Tasks |-> IF request[t] \in {"sending", "saving"} THEN "failed"
                                 ELSE request[t]]
  /\ UNCHANGED <<lock, late, cloneVars, rec, buttons, said, worker>>

(***************************************************************************)
(* The worker                                                              *)
(***************************************************************************)
\* takeLock writes the pid over whatever the file holds.
TakeLock(t) ==
  /\ worker[t] = "spawned"
  /\ lock' = t /\ Go(t, "preparing")
  /\ UNCHANGED <<desk, late, cloneVars, apprVars, faults>>

\* takeLock catches a failed write and goes on without the lock.
TakeLockFails(t) ==
  /\ worker[t] = "spawned" /\ Fault
  /\ late' = late \cup {t} /\ Go(t, "preparing")
  /\ UNCHANGED <<lock, desk, cloneVars, apprVars>>

\* prepareWorkdir: checkout -B moves to a branch from origin/main and keeps
\* uncommitted changes of tracked files; clean -fd removes untracked ones.
\* Changes that would be overwritten, and every other failure, end the task.
PrepareWorkdir(t) ==
  /\ worker[t] = "preparing"
  /\ Go(t, "agent")
  /\ head' = [head EXCEPT ![Target[t]] = t]
  /\ UNCHANGED <<tree, branch, checked, pushed, deskVars, apprVars, faults>>

\* The agent edits files of the working copy.
Edit(t) ==
  /\ worker[t] = "agent" /\ t \notin tree[Target[t]]
  /\ tree' = [tree EXCEPT ![Target[t]] = @ \cup {t}]
  /\ UNCHANGED <<head, branch, checked, pushed, deskVars, apprVars, worker, faults>>

\* The agent is through; git status --porcelain without a change ends the task.
AgentDone(t) ==
  /\ worker[t] = "agent"
  /\ Go(t, IF tree[Target[t]] = {} THEN "exit" ELSE "check")
  /\ UNCHANGED <<cloneVars, deskVars, apprVars, faults>>

\* The build of the working copy passes.
CheckPasses(t) ==
  /\ worker[t] = "check"
  /\ checked' = [checked EXCEPT ![t] = tree[Target[t]]]
  /\ Go(t, "commit")
  /\ UNCHANGED <<head, tree, branch, pushed, deskVars, apprVars, faults>>

\* add -A and commit go to the branch that is checked out.
Commit(t) ==
  LET c == Target[t] IN
  /\ worker[t] = "commit"
  /\ branch' = [branch EXCEPT ![head[c]] = @ \cup tree[c]]
  /\ tree' = [tree EXCEPT ![c] = {}]
  /\ Go(t, IF t \in AutoPush THEN "push" ELSE "ask")
  /\ UNCHANGED <<head, checked, pushed, deskVars, apprVars, faults>>

Push(t) ==
  /\ worker[t] = "push"
  /\ pushed' = pushed \cup {t} /\ Go(t, "exit")
  /\ UNCHANGED <<head, tree, branch, checked, deskVars, apprVars, faults>>

\* fail(), a timeout of a command or of the agent, a build that does not
\* pass, a signal with a handler: the script exits where it is.
Abandon(t) ==
  /\ worker[t] \in Working \ {"ask", "posted", "polling"}
  /\ Go(t, "exit")
  /\ UNCHANGED <<cloneVars, deskVars, apprVars, faults>>

\* releaseLock on exit: the file is read ...
ReadLock(t) ==
  /\ worker[t] = "exit"
  /\ Go(t, IF lock = t THEN "removing" ELSE "ended")
  /\ UNCHANGED <<cloneVars, deskVars, apprVars, faults>>

\* ... and removed when it was the worker's own.
RemoveLock(t) ==
  /\ worker[t] = "removing"
  /\ lock' = Free /\ Go(t, "ended")
  /\ UNCHANGED <<desk, late, cloneVars, apprVars, faults>>

\* SIGKILL or a lost host: nothing is released.
Kill(t) ==
  /\ worker[t] \in Alive /\ Fault
  /\ Go(t, "dead")
  /\ UNCHANGED <<cloneVars, deskVars, apprVars>>

(***************************************************************************)
(* Approval                                                                *)
(***************************************************************************)
\* askApproval posts the request; without APPROVAL_SECRET, or when the
\* backend does not answer, there is none.
Ask(t) ==
  /\ worker[t] = "ask" /\ Go(t, "posted")
  /\ request' = [request EXCEPT ![t] = "sending"]
  /\ UNCHANGED <<rec, buttons, press, said, deskVars, cloneVars, faults>>

\* create: the message with the buttons goes out first ...
SendButtons(t) ==
  /\ request[t] = "sending"
  /\ request' = [request EXCEPT ![t] = "saving"]
  /\ buttons' = [buttons EXCEPT ![t] = {1}]
  /\ UNCHANGED <<rec, press, said, deskVars, cloneVars, worker, faults>>

\* ... the record is saved after it.
SaveRequest(t) ==
  /\ request[t] = "saving"
  /\ request' = [request EXCEPT ![t] = "answered"]
  /\ rec' = [rec EXCEPT ![t] = "pending"]
  /\ UNCHANGED <<buttons, press, said, deskVars, cloneVars, worker, faults>>

\* The id of the request arrives within ten seconds.
Posted(t) ==
  /\ worker[t] = "posted" /\ request[t] = "answered"
  /\ Go(t, "polling")
  /\ UNCHANGED <<apprVars, deskVars, cloneVars, faults>>

\* GET /approval/:id every two seconds: an approval lets the push go on.
PollYes(t) ==
  /\ worker[t] = "polling" /\ rec[t] = "approved"
  /\ Go(t, "push")
  /\ UNCHANGED <<apprVars, deskVars, cloneVars, faults>>

\* Mutant: the administrator has no deadline.
WaitForAnswer(t) ==
  /\ worker[t] = "ask"
  /\ Go(t, "exit")
  /\ UNCHANGED <<apprVars, deskVars, cloneVars, faults>>

\* A refusal, a channel that fails, and ten minutes without a decision are
\* all taken for a no.
GiveUp(t) ==
  /\ worker[t] \in {"ask", "posted", "polling"}
  /\ Go(t, "exit")
  /\ UNCHANGED <<apprVars, deskVars, cloneVars, faults>>

\* The record lives 900 seconds from its last write, the worker waits for 600.
RecordExpires(t) ==
  /\ rec[t] # "none" /\ worker[t] \notin {"posted", "polling"}
  /\ rec' = [rec EXCEPT ![t] = "none"]
  /\ UNCHANGED <<request, buttons, press, said, deskVars, cloneVars, worker, faults>>

\* A press of a button of a keyboard that was shown; firstPress and confirm
\* start by reading the record.
Press(p, t, stage, allow) ==
  /\ press[p].pc = "idle" /\ stage \in buttons[t]
  /\ press' = [press EXCEPT ![p] = [pc |-> "write", task |-> t, stage |-> stage,
                                    allow |-> allow, seen |-> rec[t]]]
  /\ said' = said \cup {<<t, stage, allow>>}
  /\ Cardinality(said') <= MaxPresses
  /\ UNCHANGED <<request, rec, buttons, deskVars, cloneVars, worker, faults>>

\* Mutant: the first press decides.
FirstPressDecides(p) ==
  LET m == press[p] IN
  /\ m.pc = "write" /\ m.stage = 1
  /\ rec' = IF m.seen = "pending"
            THEN [rec EXCEPT ![m.task] = IF m.allow THEN "approved" ELSE "denied"] ELSE rec
  /\ press' = [press EXCEPT ![p] = NoPress]
  /\ UNCHANGED <<request, buttons, said, deskVars, cloneVars, worker, faults>>

\* firstPress: a pending request is refused or waits for confirmation; the
\* second keyboard is shown for whatever is in confirmation by now.
FirstPress(p) ==
  LET m == press[p]
      now == IF m.seen # "pending" THEN m.seen ELSE IF m.allow THEN "confirming" ELSE "denied"
  IN
  /\ m.pc = "write" /\ m.stage = 1
  /\ rec' = IF m.seen = "pending" THEN [rec EXCEPT ![m.task] = now] ELSE rec
  /\ buttons' = IF now = "confirming" THEN [buttons EXCEPT ![m.task] = @ \cup {2}] ELSE buttons
  /\ press' = [press EXCEPT ![p] = NoPress]
  /\ UNCHANGED <<request, said, deskVars, cloneVars, worker, faults>>

\* confirm: decides what it read as being in confirmation.
Confirm(p) ==
  LET m == press[p] IN
  /\ m.pc = "write" /\ m.stage = 2
  /\ rec' = IF m.seen = "confirming"
            THEN [rec EXCEPT ![m.task] = IF m.allow THEN "approved" ELSE "denied"] ELSE rec
  /\ press' = [press EXCEPT ![p] = NoPress]
  /\ UNCHANGED <<request, buttons, said, deskVars, cloneVars, worker, faults>>

Backend == Look \/ ClearLock \/ Spool \/ Spawn \/ SpawnFails \/ PendingExpires \/ RestartBackend

Script(t) ==
  \/ TakeLock(t) \/ TakeLockFails(t) \/ PrepareWorkdir(t) \/ Edit(t) \/ AgentDone(t)
  \/ CheckPasses(t) \/ Commit(t) \/ Push(t) \/ Abandon(t)
  \/ Ask(t) \/ Posted(t) \/ PollYes(t) \/ GiveUp(t)
  \/ ReadLock(t) \/ RemoveLock(t) \/ Kill(t)

Approval(t) == SendButtons(t) \/ SaveRequest(t) \/ RecordExpires(t)

Buttons(p) ==
  \/ \E t \in Tasks, stage \in {1, 2}, allow \in BOOLEAN : Press(p, t, stage, allow)
  \/ FirstPress(p) \/ Confirm(p)

Next ==
  \/ \E t \in Tasks : Command(t) \/ Script(t) \/ Approval(t)
  \/ Backend
  \/ \E p \in Slots : Buttons(p)

\* The script runs on: every command, the agent and the question to the
\* administrator have time limits.
Progress(t) ==
  \/ TakeLock(t) \/ PrepareWorkdir(t) \/ AgentDone(t) \/ CheckPasses(t) \/ Commit(t)
  \/ Ask(t) \/ GiveUp(t) \/ Push(t) \/ ReadLock(t) \/ RemoveLock(t)

Spec == Init /\ [][Next]_vars /\ \A t \in Tasks : WF_vars(Progress(t))

-----------------------------------------------------------------------------
(***************************************************************************)
(* What the code promises                                                  *)
(***************************************************************************)

\* Two workers run at once only if one of them did not take the lock within
\* its minute: killed workers, restarts of the backend between any two of
\* its steps and the removal of dead locks never let a second one in.
OneAtATime ==
  Cardinality({t \in Tasks : worker[t] \in Working}) > 1 => late # {}

\* What is pushed is the tree that passed the build, unless a second worker
\* got into the clone by taking its lock late.
PushedWasChecked == late = {} => \A t \in pushed : branch[t] = checked[t]

\* Without CLAUDE_TASK_AUTOPUSH nothing is pushed that the administrator did
\* not allow twice, on the first keyboard and on the second one, however
\* presses, timeouts, expiry and restarts fall.
PushedByTwoPresses ==
  \A t \in pushed \ AutoPush : {<<t, 1, TRUE>>, <<t, 2, TRUE>>} \subseteq said

\* A worker that was started comes to its end and gives the lock back, unless
\* it is killed: nothing it waits for, the administrator included, can keep
\* the next task out for good.
Started(t) == worker[t] = "spawned"
Over(t)    == worker[t] = "dead" \/ (worker[t] = "ended" /\ lock # t)
TaskEnds   == \A t \in Tasks : Started(t) ~> Over(t)
=============================================================================
