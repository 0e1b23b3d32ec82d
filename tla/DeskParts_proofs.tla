---------------------------- MODULE DeskParts_proofs ---------------------------
(* What TLAPS proves about the two larger parts of Desk, ClaudeTask and      *)
(* BotReports, for any tasks, clones, presses, users and faults. The parts   *)
(* share no variable: BotReports is an instance here, so that Desk_proofs    *)
(* can take the lemmas about both from one place.                            *)
EXTENDS ClaudeTask, FiniteSetTheorems, TLAPS

\* The parameters and variables of BotReports.
CONSTANTS Users, Chief, Staff, TzUsers, Queries, NoQuery, PressSlots, NoUser, MaxToggles

VARIABLES admins, scene, aiMode, last, query, keyboard, toggle, screen, toggles, order,
          held, sent, overlapped

R == INSTANCE BotReports WITH Slots <- PressSlots

USE DEF deskVars, cloneVars, apprVars

\* A look is left for whoever looks, and requests in hand name their task.
InHand ==
  /\ desk.pc \in {"look", "clear"} => desk.looks \in 1..2
  /\ desk.pc # "idle" => desk.task \in Tasks
  /\ \A p \in Slots : press[p].pc = "write" => press[p].task \in Tasks

Typed == TypeOK /\ InHand

(***************************************************************************)
(* The lock, as long as no worker took it late.                            *)
(***************************************************************************)
\* A worker that runs holds the lock file until it has removed it.
HoldsLock == \A t \in Tasks : worker[t] \in Alive \ {"spawned"} => lock = t

\* A worker that was started and does not run yet is covered by the mark of the
\* backend, and the backend starts no second one meanwhile.
Covered ==
  \A t \in Tasks : worker[t] = "spawned" =>
    /\ lock = "pending" /\ desk.pc \in {"idle", "look"}
    /\ \A u \in Tasks : worker[u] = "spawned" => u = t

\* What the backend saw of the lock is still so when it acts on it.
SeenTrue ==
  /\ desk.pc = "clear" => lock = "stale" \/ (lock \in Tasks /\ worker[lock] \notin Alive)
  /\ desk.pc = "spool" => lock = Free
  /\ desk.pc = "spawn" => lock = "pending"

LockInv == late = {} => HoldsLock /\ Covered /\ SeenTrue

(***************************************************************************)
(* The clones.                                                             *)
(***************************************************************************)
Early == {"unborn", "spawned", "preparing", "agent", "check", "commit"}
Begun == {"agent", "check", "commit"}
Committed == {"ask", "posted", "polling", "push"}

\* A task is given to a worker once.
Once == desk.pc # "idle" => worker[desk.task] = "unborn"

\* A worker past prepareWorkdir has its own branch checked out, nothing is on
\* the branch before its commit, what it commits is what it has checked, and
\* what it may push or has pushed is what was checked.
CloneInv ==
  late = {} =>
    \A t \in Tasks :
      /\ worker[t] \in Begun => head[Target[t]] = t
      /\ worker[t] \in Early => branch[t] = {}
      /\ worker[t] = "commit" => checked[t] = tree[Target[t]]
      /\ worker[t] \in Committed \/ t \in pushed => branch[t] = checked[t]
      /\ t \in pushed => worker[t] \notin Early \cup Committed

(***************************************************************************)
(* Approval.                                                               *)
(***************************************************************************)
Yes(t, stage) == <<t, stage, TRUE>> \in said

\* A record in confirmation was allowed once, an approved one twice; so was
\* what a press in flight has read, and the press itself was made.
AskInv ==
  /\ \A t \in Tasks : /\ rec[t] = "confirming" => Yes(t, 1)
                      /\ rec[t] = "approved" => Yes(t, 1) /\ Yes(t, 2)
                      /\ worker[t] = "push" \/ t \in pushed =>
                           t \in AutoPush \/ (Yes(t, 1) /\ Yes(t, 2))
  /\ \A p \in Slots : press[p].pc = "write" =>
       /\ <<press[p].task, press[p].stage, press[p].allow>> \in said
       /\ press[p].seen = "confirming" => Yes(press[p].task, 1)

-----------------------------------------------------------------------------
(***************************************************************************)
(* Types.                                                                  *)
(***************************************************************************)
LEMMA TypedInit == ASSUME ClaudeTaskAssumption, Init PROVE Typed
  BY DEF ClaudeTaskAssumption, Init, Typed, TypeOK, InHand, Idle, NoPress, NoOne,
         Clones, Alive, Working, Statuses

LEMMA TypedDesk ==
  ASSUME ClaudeTaskAssumption, Typed, Backend \/ \E t \in Tasks : Command(t)
  PROVE  Typed'
<1> USE DEF ClaudeTaskAssumption, Typed, TypeOK, InHand, Idle, NoPress
<1> DEFINE Desks == [pc : {"idle", "look", "clear", "spool", "spawn"},
                     task : Tasks \cup {Free}, looks : 0..2]
<1>a. ASSUME desk.pc \in {"look", "clear"}
      PROVE  /\ Passed \in Desks /\ Passed.task \in Tasks
             /\ Passed.pc = "look" => Passed.looks \in 1..2
             /\ Passed.pc \in {"look", "spool"}
  <2>1. desk \in Desks /\ desk.looks \in 1..2 /\ desk.task \in Tasks
    BY <1>a
  <2> HIDE DEF TypeOK, InHand, Typed
  <2>2. desk.looks - 1 \in 0..1 /\ (desk.looks # 1 => desk.looks - 1 = 1)
    BY <2>1
  <2>3. Passed.looks = desk.looks - 1
    BY <2>1 DEF Passed
  <2>4. Passed.task = desk.task
    BY <2>1 DEF Passed
  <2>5. Passed.pc = IF desk.looks = 1 THEN "spool" ELSE "look"
    BY <2>1 DEF Passed
  <2>6. Passed \in Desks
    <3>1. ASSUME NEW x \in {"idle", "look", "clear", "spool", "spawn"}, NEW n \in 0..2
          PROVE  [desk EXCEPT !.pc = x, !.looks = n] \in Desks
      BY <2>1
    <3>2. Passed = [desk EXCEPT !.pc = IF desk.looks = 1 THEN "spool" ELSE "look",
                                !.looks = desk.looks - 1]
      BY <2>1 DEF Passed
    <3>3. desk.looks - 1 \in 0..2
      BY <2>2
    <3> HIDE DEF Desks
    <3> QED  BY <3>1, <3>2, <3>3
  <2> QED  BY <2>1, <2>2, <2>3, <2>4, <2>5, <2>6
<1>1. CASE \E t \in Tasks : Command(t)
  BY <1>1 DEF Command
<1>2. CASE Look
  <2>1. desk.pc = "look" /\ UNCHANGED <<lock, late, cloneVars, apprVars, worker, faults>>
    BY <1>2 DEF Look
  <2>2. CASE desk' = Passed
    BY <1>a, <2>1, <2>2
  <2>3. CASE desk' = Idle
    BY <2>1, <2>3
  <2>4. CASE desk' = [desk EXCEPT !.pc = "clear"]
    BY <2>1, <2>4
  <2> QED  BY <1>2, <2>2, <2>3, <2>4 DEF Look
<1>3. CASE ClearLock
  BY <1>3, <1>a DEF ClearLock
<1>4. CASE Spool
  BY <1>4 DEF Spool
<1>5. CASE Spawn
  BY <1>5 DEF Spawn, Go, Alive
<1>6. CASE SpawnFails
  BY <1>6 DEF SpawnFails, Fault
<1>7. CASE PendingExpires
  <2>1. faults' \in 0..MaxFaults
    BY <1>7 DEF PendingExpires, Fault
  <2>2. late' \subseteq Tasks
    BY <1>7 DEF PendingExpires
  <2>3. lock' = "stale" /\ UNCHANGED <<desk, cloneVars, apprVars, worker>>
    BY <1>7 DEF PendingExpires
  <2> QED  BY <2>1, <2>2, <2>3
<1>8. CASE RestartBackend
  BY <1>8 DEF RestartBackend, Fault, Statuses
<1> QED  BY <1>1, <1>2, <1>3, <1>4, <1>5, <1>6, <1>7, <1>8 DEF Backend

LEMMA TypedScript ==
  ASSUME ClaudeTaskAssumption, Typed, NEW t \in Tasks, Script(t) PROVE Typed'
<1> USE DEF ClaudeTaskAssumption, Typed, TypeOK, InHand, Go, Alive, Working, Clones
<1>1. CASE TakeLock(t) \/ TakeLockFails(t) \/ ReadLock(t) \/ RemoveLock(t) \/ Kill(t)
  <2>1. CASE TakeLock(t)
    BY <2>1 DEF TakeLock
  <2>2. CASE TakeLockFails(t)
    BY <2>2 DEF TakeLockFails, Fault
  <2>3. CASE ReadLock(t)
    BY <2>3 DEF ReadLock
  <2>4. CASE RemoveLock(t)
    BY <2>4 DEF RemoveLock
  <2>5. CASE Kill(t)
    BY <2>5 DEF Kill, Fault
  <2> QED  BY <1>1, <2>1, <2>2, <2>3, <2>4, <2>5
<1>2. CASE PrepareWorkdir(t)
  BY <1>2 DEF PrepareWorkdir
<1>3. CASE Edit(t)
  BY <1>3 DEF Edit
<1>4. CASE AgentDone(t) \/ Abandon(t) \/ Posted(t) \/ PollYes(t) \/ GiveUp(t)
  <2>1. CASE AgentDone(t)
    BY <2>1 DEF AgentDone
  <2>2. CASE Abandon(t)
    BY <2>2 DEF Abandon
  <2>3. CASE Posted(t)
    BY <2>3 DEF Posted
  <2>4. CASE PollYes(t)
    BY <2>4 DEF PollYes
  <2>5. CASE GiveUp(t)
    BY <2>5 DEF GiveUp
  <2> QED  BY <1>4, <2>1, <2>2, <2>3, <2>4, <2>5
<1>5. CASE CheckPasses(t)
  <2>1. worker' \in [Tasks -> Alive \cup {"unborn", "ended", "dead"}]
    BY <1>5 DEF CheckPasses
  <2>2. checked' \in [Tasks -> SUBSET Tasks]
    BY <1>5 DEF CheckPasses
  <2>3. UNCHANGED <<tree, head, branch, pushed, deskVars, apprVars, faults>>
    BY <1>5 DEF CheckPasses
  <2> QED  BY <2>1, <2>2, <2>3
<1>6. CASE Commit(t)
  <2> DEFINE c == Target[t]
  <2>1. tree[c] \subseteq Tasks
    OBVIOUS
  <2>2. branch' \in [Tasks -> SUBSET Tasks]
    BY <1>6, <2>1 DEF Commit
  <2>3. tree' \in [Clones -> SUBSET Tasks]
    BY <1>6 DEF Commit
  <2>4. worker' \in [Tasks -> Alive \cup {"unborn", "ended", "dead"}]
    BY <1>6 DEF Commit
  <2>5. UNCHANGED <<head, checked, pushed, deskVars, apprVars, faults>>
    BY <1>6 DEF Commit
  <2> QED  BY <2>2, <2>3, <2>4, <2>5
<1>7. CASE Push(t)
  BY <1>7 DEF Push
<1>8. CASE Ask(t)
  BY <1>8 DEF Ask
<1> QED  BY <1>1, <1>2, <1>3, <1>4, <1>5, <1>6, <1>7, <1>8 DEF Script

LEMMA TypedAsk ==
  ASSUME ClaudeTaskAssumption, Typed,
         (\E t \in Tasks : Approval(t)) \/ \E p \in Slots : Buttons(p)
  PROVE  Typed'
<1> USE DEF ClaudeTaskAssumption, Typed, TypeOK, InHand, Statuses, NoPress
<1>1. CASE \E t \in Tasks : Approval(t)
  <2>1. ASSUME NEW t \in Tasks, SendButtons(t) PROVE Typed'
    BY <2>1 DEF SendButtons
  <2>2. ASSUME NEW t \in Tasks, SaveRequest(t) PROVE Typed'
    BY <2>2 DEF SaveRequest
  <2>3. ASSUME NEW t \in Tasks, RecordExpires(t) PROVE Typed'
    BY <2>3 DEF RecordExpires
  <2> QED  BY <1>1, <2>1, <2>2, <2>3 DEF Approval
<1>2. ASSUME NEW p \in Slots, NEW t \in Tasks, NEW stage \in {1, 2}, NEW allow \in BOOLEAN,
             Press(p, t, stage, allow)
      PROVE  Typed'
  BY <1>2 DEF Press
<1>3. ASSUME NEW p \in Slots, FirstPress(p) PROVE Typed'
  BY <1>3 DEF FirstPress
<1>4. ASSUME NEW p \in Slots, Confirm(p) PROVE Typed'
  BY <1>4 DEF Confirm
<1> QED  BY <1>1, <1>2, <1>3, <1>4 DEF Buttons

LEMMA TypedNext ==
  ASSUME ClaudeTaskAssumption, Typed, [Next]_vars PROVE Typed'
<1>1. CASE UNCHANGED vars
  BY <1>1 DEF vars, Typed, TypeOK, InHand
<1> QED  BY <1>1, TypedDesk, TypedScript, TypedAsk DEF Next
-----------------------------------------------------------------------------
(***************************************************************************)
(* The lock.                                                               *)
(***************************************************************************)
LEMMA LockInit == ASSUME ClaudeTaskAssumption, Init PROVE LockInv
  BY DEF ClaudeTaskAssumption, Init, LockInv, HoldsLock, Covered, SeenTrue, Alive, Working, Idle

\* Steps that leave the file, the backend and the liveness of workers alone.
LEMMA LockFrame ==
  ASSUME LockInv, UNCHANGED deskVars,
         \A t \in Tasks : /\ worker'[t] = "spawned" <=> worker[t] = "spawned"
                          /\ worker'[t] \in Alive <=> worker[t] \in Alive
  PROVE  LockInv'
<1>1. HoldsLock => HoldsLock'
  BY DEF HoldsLock
<1>2. Covered => Covered'
  BY DEF Covered
<1>3. SeenTrue => SeenTrue'
  BY DEF SeenTrue
<1> QED  BY <1>1, <1>2, <1>3 DEF LockInv

LEMMA LockBackend ==
  ASSUME ClaudeTaskAssumption, Typed, Once, LockInv, late' = {}, Backend
  PROVE  HoldsLock' /\ Covered' /\ SeenTrue'
<1> USE DEF ClaudeTaskAssumption
<1>0. late = {} /\ HoldsLock /\ Covered /\ SeenTrue
  BY DEF LockInv, Backend, Look, ClearLock, Spool, Spawn, SpawnFails, PendingExpires, RestartBackend
<1>1. CASE Look
  <2>1. desk.pc = "look" /\ UNCHANGED <<lock, worker>>
    BY <1>1 DEF Look
  <2>2. \/ lock = Free /\ desk'.pc \in {"look", "spool"}
        \/ desk'.pc = "idle"
        \/ desk'.pc = "clear" /\ lock # Free /\ lock # "pending"
           /\ ~(lock \in Tasks /\ worker[lock] \in Alive)
    BY <1>1 DEF Look, Passed, Idle, Typed, TypeOK
  <2>3. HoldsLock' /\ Covered'
    BY <1>0, <2>1, <2>2 DEF HoldsLock, Covered
  <2>4. SeenTrue'
    BY <2>1, <2>2 DEF SeenTrue, Typed, TypeOK
  <2> QED  BY <2>3, <2>4
<1>2. CASE ClearLock
  <2>1. desk.pc = "clear" /\ lock' = Free /\ UNCHANGED worker
    BY <1>2 DEF ClearLock
  <2>2. desk'.pc \in {"look", "spool"}
    BY <1>2 DEF ClearLock, Passed, Typed, TypeOK
  <2>3. \A t \in Tasks : worker[t] \notin Alive
    BY <1>0, <2>1 DEF HoldsLock, Covered, SeenTrue
  <2>4. HoldsLock' /\ Covered'
    BY <2>1, <2>3 DEF HoldsLock, Covered, Alive
  <2>5. SeenTrue'
    BY <2>1, <2>2 DEF SeenTrue
  <2> QED  BY <2>4, <2>5
<1>3. CASE Spool
  <2>1. desk.pc = "spool" /\ lock' = "pending" /\ desk'.pc = "spawn" /\ UNCHANGED worker
    BY <1>3 DEF Spool, Typed, TypeOK
  <2>2. lock = Free
    BY <1>0, <2>1 DEF SeenTrue
  <2>3. \A t \in Tasks : worker[t] \notin Alive
    BY <1>0, <2>1, <2>2 DEF HoldsLock, Covered
  <2> QED  BY <2>1, <2>3 DEF HoldsLock, Covered, SeenTrue, Alive
<1>4. CASE Spawn
  <2>1. /\ desk.pc = "spawn" /\ desk'.pc = "idle" /\ UNCHANGED lock
        /\ worker' = [worker EXCEPT ![desk.task] = "spawned"]
    BY <1>4 DEF Spawn, Idle, Go
  <2>2. lock = "pending"
    BY <1>0, <2>1 DEF SeenTrue
  <2>3. \A t \in Tasks : worker[t] \notin Alive
    BY <1>0, <2>1, <2>2 DEF HoldsLock, Covered
  <2>4. \A t \in Tasks : worker'[t] = IF t = desk.task THEN "spawned" ELSE worker[t]
    BY <2>1 DEF Typed, TypeOK
  <2>5. \A t \in Tasks : worker'[t] \in Alive => t = desk.task /\ worker'[t] = "spawned"
    BY <2>3, <2>4
  <2>6. HoldsLock' /\ SeenTrue'
    BY <2>1, <2>5 DEF HoldsLock, SeenTrue
  <2>7. Covered'
    BY <2>1, <2>2, <2>5 DEF Covered, Alive
  <2> QED  BY <2>6, <2>7
<1>5. CASE SpawnFails
  <2>1. desk.pc = "spawn" /\ lock' = Free /\ desk'.pc = "idle" /\ UNCHANGED worker
    BY <1>5 DEF SpawnFails, Idle
  <2>2. \A t \in Tasks : worker[t] \notin Alive
    BY <1>0, <2>1 DEF HoldsLock, Covered, SeenTrue
  <2> QED  BY <2>1, <2>2 DEF HoldsLock, Covered, SeenTrue, Alive
<1>6. CASE PendingExpires
  <2>1. /\ lock = "pending" /\ lock' = "stale" /\ desk.pc # "spawn" /\ UNCHANGED <<desk, worker>>
        /\ \A t \in Tasks : worker[t] # "spawned"
    BY <1>6 DEF PendingExpires
  <2>2. \A t \in Tasks : worker[t] \notin Alive
    BY <1>0, <2>1 DEF HoldsLock
  <2>3. desk.pc # "spool"
    BY <1>0, <2>1 DEF SeenTrue
  <2> QED  BY <2>1, <2>2, <2>3 DEF HoldsLock, Covered, SeenTrue, Alive
<1>7. CASE RestartBackend
  BY <1>0, <1>7 DEF RestartBackend, Idle, HoldsLock, Covered, SeenTrue
<1> QED  BY <1>1, <1>2, <1>3, <1>4, <1>5, <1>6, <1>7 DEF Backend

LEMMA LockScript ==
  ASSUME ClaudeTaskAssumption, Typed, LockInv, NEW t \in Tasks, Script(t)
  PROVE  LockInv'
<1> USE DEF ClaudeTaskAssumption
<1>1. CASE TakeLock(t)
  <2>1. /\ worker[t] = "spawned" /\ lock' = t /\ UNCHANGED <<desk, late>>
        /\ \A u \in Tasks : worker'[u] = IF u = t THEN "preparing" ELSE worker[u]
    BY <1>1 DEF TakeLock, Go, Typed, TypeOK
  <2>2. SUFFICES ASSUME late = {} PROVE HoldsLock' /\ Covered' /\ SeenTrue'
    BY <2>1 DEF LockInv
  <2>3. /\ lock = "pending" /\ desk.pc \in {"idle", "look"}
        /\ \A u \in Tasks : worker[u] = "spawned" => u = t
    BY <2>1, <2>2 DEF LockInv, Covered
  <2>4. \A u \in Tasks : worker[u] \in Alive => u = t
    BY <2>2, <2>3 DEF LockInv, HoldsLock
  <2> QED  BY <2>1, <2>3, <2>4 DEF HoldsLock, Covered, SeenTrue, Alive
<1>2. CASE TakeLockFails(t)
  BY <1>2 DEF TakeLockFails, LockInv
<1>3. CASE RemoveLock(t)
  <2>1. /\ worker[t] = "removing" /\ lock' = Free /\ UNCHANGED <<desk, late>>
        /\ \A u \in Tasks : worker'[u] = IF u = t THEN "ended" ELSE worker[u]
    BY <1>3 DEF RemoveLock, Go, Typed, TypeOK
  <2>2. SUFFICES ASSUME late = {} PROVE HoldsLock' /\ Covered' /\ SeenTrue'
    BY <2>1 DEF LockInv
  <2>3. lock = t
    BY <2>1, <2>2 DEF LockInv, HoldsLock, Alive
  <2>4. \A u \in Tasks : worker[u] \in Alive => u = t
    BY <2>2, <2>3 DEF LockInv, HoldsLock, Covered
  <2>5. desk.pc \notin {"clear", "spawn"}
    BY <2>1, <2>2, <2>3 DEF LockInv, SeenTrue, Alive
  <2> QED  BY <2>1, <2>4, <2>5 DEF HoldsLock, Covered, SeenTrue, Alive, Working
<1>4. CASE ReadLock(t)
  <2>1. /\ worker[t] = "exit" /\ UNCHANGED <<lock, desk, late>>
        /\ \A u \in Tasks : worker'[u] = IF u = t THEN (IF lock = t THEN "removing" ELSE "ended")
                                         ELSE worker[u]
    BY <1>4 DEF ReadLock, Go, Typed, TypeOK
  <2> QED  BY <2>1 DEF LockInv, HoldsLock, Covered, SeenTrue, Alive, Working
<1>5. CASE Kill(t)
  <2>1. /\ UNCHANGED <<lock, desk, late>>
        /\ \A u \in Tasks : worker'[u] = IF u = t THEN "dead" ELSE worker[u]
    BY <1>5 DEF Kill, Go, Typed, TypeOK
  <2> QED  BY <2>1 DEF LockInv, HoldsLock, Covered, SeenTrue, Alive, Working
<1>6. CASE \/ PrepareWorkdir(t) \/ Edit(t) \/ AgentDone(t) \/ CheckPasses(t) \/ Commit(t)
           \/ Push(t) \/ Abandon(t) \/ Ask(t) \/ Posted(t) \/ PollYes(t) \/ GiveUp(t)
  <2>1. /\ UNCHANGED deskVars
        /\ \/ UNCHANGED worker
           \/ \E pc \in Working \cup {"exit"} :
                worker[t] \in Working /\ worker' = [worker EXCEPT ![t] = pc]
    BY <1>6 DEF PrepareWorkdir, Edit, AgentDone, CheckPasses, Commit, Push, Abandon, Ask, Posted,
                PollYes, GiveUp, Go, Working
  <2>2. \A u \in Tasks : /\ worker'[u] = "spawned" <=> worker[u] = "spawned"
                         /\ worker'[u] \in Alive <=> worker[u] \in Alive
    BY <2>1 DEF Alive, Working, Typed, TypeOK
  <2> QED  BY <2>1, <2>2, LockFrame
<1> QED  BY <1>1, <1>2, <1>3, <1>4, <1>5, <1>6 DEF Script

LEMMA LockNext ==
  ASSUME ClaudeTaskAssumption, Typed, Once, LockInv, [Next]_vars PROVE LockInv'
<1>1. CASE Backend
  BY <1>1, LockBackend DEF LockInv
<1>2. CASE \E t \in Tasks : Script(t)
  BY <1>2, LockScript
<1>3. CASE \E t \in Tasks : Command(t)
  BY <1>3 DEF Command, LockInv, HoldsLock, Covered, SeenTrue
<1>4. CASE UNCHANGED <<deskVars, worker>>
  BY <1>4, LockFrame
<1>5. CASE (\E t \in Tasks : Approval(t)) \/ \E p \in Slots : Buttons(p)
  BY <1>4, <1>5 DEF Approval, SendButtons, SaveRequest, RecordExpires, Buttons, Press,
                    FirstPress, Confirm
<1> QED  BY <1>1, <1>2, <1>3, <1>4, <1>5 DEF Next, vars

\* Only an unborn task is taken, and it stays so until its worker is started.
LEMMA OnceNext == ASSUME Typed, Once, [Next]_vars PROVE Once'
<1>1. CASE \E t \in Tasks : Command(t)
  BY <1>1 DEF Command, Once
<1>2. CASE Backend
  <2>1. \/ desk'.pc = "idle"
        \/ desk.pc # "idle" /\ desk'.task = desk.task /\ UNCHANGED worker
    <3>1. Passed.task = desk.task /\ [desk EXCEPT !.pc = "clear"].task = desk.task
          /\ [desk EXCEPT !.pc = "spawn"].task = desk.task
      BY DEF Passed, Typed, TypeOK
    <3>2. Idle.pc = "idle"
      BY DEF Idle
    <3>3. CASE Look
      BY <3>1, <3>2, <3>3 DEF Look
    <3>4. CASE ClearLock \/ Spool \/ PendingExpires
      BY <3>1, <3>4 DEF ClearLock, Spool, PendingExpires
    <3>5. CASE Spawn \/ SpawnFails \/ RestartBackend
      BY <3>2, <3>5 DEF Spawn, SpawnFails, RestartBackend
    <3> QED  BY <1>2, <3>3, <3>4, <3>5 DEF Backend
  <2> QED  BY <2>1 DEF Once
<1>3. CASE \E t \in Tasks : Script(t)
  <2>1. /\ UNCHANGED desk
        /\ \A t \in Tasks : worker[t] = "unborn" => worker'[t] = "unborn"
    BY <1>3 DEF Script, TakeLock, TakeLockFails, ReadLock, RemoveLock, Kill, PrepareWorkdir, Edit,
                AgentDone, CheckPasses, Commit, Push, Abandon, Ask, Posted, PollYes, GiveUp, Go,
                Alive, Working, Typed, TypeOK
  <2> QED  BY <2>1 DEF Once, Typed, InHand
<1>4. CASE UNCHANGED <<desk, worker>>
  BY <1>4 DEF Once
<1>5. CASE (\E t \in Tasks : Approval(t)) \/ \E p \in Slots : Buttons(p)
  BY <1>4, <1>5 DEF Approval, SendButtons, SaveRequest, RecordExpires, Buttons, Press,
                    FirstPress, Confirm
<1> QED  BY <1>1, <1>2, <1>3, <1>4, <1>5 DEF Next, vars
-----------------------------------------------------------------------------
(***************************************************************************)
(* The clones.                                                             *)
(***************************************************************************)
LEMMA CloneInit == ASSUME Init PROVE CloneInv
  BY DEF Init, CloneInv, Begun, Committed

\* The lock lets one worker at a time into the clones.
LEMMA AloneInClone ==
  ASSUME LockInv, late = {}, NEW t \in Tasks, NEW u \in Tasks,
         worker[t] \in Working, worker[u] \in Working
  PROVE  t = u
  BY DEF LockInv, HoldsLock, Alive, Working

\* Steps that leave the clones alone and take no worker further than it was: a
\* worker stays where it is, starts, or leaves.
LEMMA CloneFrame ==
  ASSUME CloneInv, UNCHANGED cloneVars, late' = {} => late = {},
         \A t \in Tasks : \/ worker'[t] = worker[t]
                          \/ worker[t] \in Early /\ worker'[t] \in {"spawned", "preparing"}
                          \/ worker[t] \in Committed /\ worker'[t] \in Committed
                          \/ worker'[t] \in {"exit", "removing", "ended", "dead"}
  PROVE  CloneInv'
  BY DEF CloneInv, Early, Begun, Committed

LEMMA CloneScript ==
  ASSUME ClaudeTaskAssumption, Typed, LockInv, CloneInv, NEW t \in Tasks, Script(t)
  PROVE  CloneInv'
<1> DEFINE c == Target[t]
<1>0. /\ c \in Clones /\ worker \in [Tasks -> Alive \cup {"unborn", "ended", "dead"}]
      /\ head \in [Clones -> Tasks \cup {NoOne}] /\ tree \in [Clones -> SUBSET Tasks]
      /\ branch \in [Tasks -> SUBSET Tasks] /\ checked \in [Tasks -> SUBSET Tasks]
      /\ \A u \in Tasks : Target[u] \in Clones
  BY DEF Clones, Typed, TypeOK
<1>1. CASE PrepareWorkdir(t)
  <2>1. /\ worker[t] = "preparing" /\ UNCHANGED <<tree, branch, checked, pushed, late>>
        /\ \A u \in Tasks : worker'[u] = IF u = t THEN "agent" ELSE worker[u]
        /\ head' = [head EXCEPT ![c] = t]
    BY <1>0, <1>1 DEF PrepareWorkdir, Go
  <2>2. SUFFICES ASSUME late = {} PROVE CloneInv'
    BY <2>1 DEF CloneInv
  <2>3. \A u \in Tasks : worker[u] \in Begun => u = t
    BY <2>1, <2>2, AloneInClone DEF Begun, Working
  <2>4. head'[Target[t]] = t
    BY <1>0, <2>1
  <2> QED  BY <2>1, <2>2, <2>3, <2>4 DEF CloneInv, Begun, Early, Committed
<1>2. CASE Edit(t)
  <2>1. /\ worker[t] = "agent" /\ UNCHANGED <<head, branch, checked, pushed, late, worker>>
    BY <1>2 DEF Edit
  <2>2. SUFFICES ASSUME late = {} PROVE CloneInv'
    BY <2>1 DEF CloneInv
  <2>3. \A u \in Tasks : worker[u] # "commit"
    BY <2>1, <2>2, AloneInClone DEF Working
  <2> QED  BY <2>1, <2>2, <2>3 DEF CloneInv
<1>3. CASE AgentDone(t)
  <2>1. /\ worker[t] = "agent" /\ UNCHANGED <<cloneVars, late>>
        /\ \A u \in Tasks : u # t => worker'[u] = worker[u]
        /\ worker'[t] \in {"check", "exit"}
    BY <1>0, <1>3 DEF AgentDone, Go
  <2> QED  BY <2>1 DEF CloneInv, Early, Begun, Committed
<1>4. CASE CheckPasses(t)
  <2>1. /\ worker[t] = "check" /\ UNCHANGED <<head, tree, branch, pushed, late>>
        /\ \A u \in Tasks : worker'[u] = IF u = t THEN "commit" ELSE worker[u]
        /\ \A u \in Tasks : checked'[u] = IF u = t THEN tree[c] ELSE checked[u]
    BY <1>0, <1>4 DEF CheckPasses, Go
  <2> QED  BY <2>1 DEF CloneInv, Early, Begun, Committed
<1>5. CASE Commit(t)
  <2>1. /\ worker[t] = "commit" /\ UNCHANGED <<head, checked, pushed, late>>
        /\ \A u \in Tasks : u # t => worker'[u] = worker[u]
        /\ worker'[t] \in {"push", "ask"}
        /\ branch' = [branch EXCEPT ![head[c]] = @ \cup tree[c]]
    BY <1>0, <1>5 DEF Commit, Go
  <2>2. SUFFICES ASSUME late = {} PROVE CloneInv'
    BY <2>1 DEF CloneInv
  <2>3. /\ head[c] = t /\ branch[t] = {} /\ checked[t] = tree[c] /\ t \notin pushed
    BY <2>1, <2>2 DEF CloneInv, Begun, Early
  <2>4. \A u \in Tasks : branch'[u] = IF u = t THEN checked[t] ELSE branch[u]
    BY <1>0, <2>1, <2>3
  <2>5. \A u \in Tasks : worker[u] \in Begun => u = t
    BY <2>1, <2>2, AloneInClone DEF Begun, Working
  <2> QED  BY <2>1, <2>2, <2>3, <2>4, <2>5 DEF CloneInv, Begun, Early, Committed
<1>6. CASE Push(t)
  <2>1. /\ worker[t] = "push" /\ UNCHANGED <<head, tree, branch, checked, late>>
        /\ \A u \in Tasks : worker'[u] = IF u = t THEN "exit" ELSE worker[u]
        /\ pushed' = pushed \cup {t}
    BY <1>0, <1>6 DEF Push, Go
  <2> QED  BY <2>1 DEF CloneInv, Begun, Early, Committed
<1>7. CASE \/ TakeLock(t) \/ TakeLockFails(t) \/ Abandon(t) \/ Ask(t) \/ Posted(t) \/ PollYes(t)
           \/ GiveUp(t) \/ ReadLock(t) \/ RemoveLock(t) \/ Kill(t)
  <2>1. /\ UNCHANGED cloneVars /\ (late' = {} => late = {})
        /\ \A u \in Tasks : u # t => worker'[u] = worker[u]
        /\ \/ worker[t] = "spawned" /\ worker'[t] = "preparing"
           \/ worker[t] \in Committed /\ worker'[t] \in Committed
           \/ worker'[t] \in {"exit", "removing", "ended", "dead"}
    BY <1>0, <1>7 DEF TakeLock, TakeLockFails, Abandon, Ask, Posted, PollYes, GiveUp, ReadLock,
                      RemoveLock, Kill, Go, Committed
  <2> QED  BY <2>1, CloneFrame DEF Early
<1> QED  BY <1>1, <1>2, <1>3, <1>4, <1>5, <1>6, <1>7 DEF Script

LEMMA CloneNext ==
  ASSUME ClaudeTaskAssumption, Typed, Once, LockInv, CloneInv, [Next]_vars PROVE CloneInv'
<1>1. CASE \E t \in Tasks : Script(t)
  BY <1>1, CloneScript
<1>2. CASE Spawn
  <2>1. /\ UNCHANGED <<cloneVars, late>> /\ worker[desk.task] = "unborn"
        /\ worker' = [worker EXCEPT ![desk.task] = "spawned"]
    BY <1>2 DEF Spawn, Go, Once
  <2> QED  BY <2>1, CloneFrame DEF Early, Typed, TypeOK
<1>3. CASE UNCHANGED <<cloneVars, worker>> /\ (late' = {} => late = {})
  BY <1>3, CloneFrame
<1>4. CASE \/ \E t \in Tasks : Command(t) \/ Approval(t)
           \/ \E p \in Slots : Buttons(p)
           \/ Look \/ ClearLock \/ Spool \/ SpawnFails \/ PendingExpires \/ RestartBackend
  BY <1>3, <1>4 DEF Command, Approval, SendButtons, SaveRequest, RecordExpires, Buttons, Press,
                    FirstPress, Confirm, Look, ClearLock, Spool, SpawnFails, PendingExpires,
                    RestartBackend
<1>5. CASE UNCHANGED vars
  BY <1>3, <1>5 DEF vars
<1> QED  BY <1>1, <1>2, <1>4, <1>5 DEF Next, Backend

-----------------------------------------------------------------------------
(***************************************************************************)
(* Approval.                                                               *)
(***************************************************************************)
LEMMA AskInit == ASSUME Init PROVE AskInv
  BY DEF Init, AskInv, NoPress

\* Steps that leave presses and the record alone; a worker comes to its push
\* with the record approved or without the need to ask.
LEMMA AskFrame ==
  ASSUME AskInv, UNCHANGED <<rec, press, said>>,
         \A t \in Tasks : t \in pushed' => t \in pushed \/ worker[t] = "push",
         \A t \in Tasks : worker'[t] = "push" =>
           worker[t] = "push" \/ t \in AutoPush \/ rec[t] = "approved"
  PROVE  AskInv'
  BY DEF AskInv, Yes

LEMMA AskPress ==
  ASSUME Typed, AskInv, NEW p \in Slots, Buttons(p) PROVE AskInv'
<1>1. ASSUME NEW t \in Tasks, NEW stage \in {1, 2}, NEW allow \in BOOLEAN,
             Press(p, t, stage, allow)
      PROVE  AskInv'
  <2>1. /\ said' = said \cup {<<t, stage, allow>>} /\ UNCHANGED <<rec, worker, pushed>>
        /\ \A q \in Slots \ {p} : press'[q] = press[q]
        /\ press'[p].task = t /\ press'[p].stage = stage /\ press'[p].allow = allow
        /\ press'[p].seen = rec[t]
    BY <1>1 DEF Press, Typed, TypeOK
  <2> QED  BY <2>1 DEF AskInv, Yes
<1> DEFINE m == press[p]
<1>2. ASSUME m.pc = "write", UNCHANGED <<said, worker, pushed>>, press' = [press EXCEPT ![p] = NoPress],
             \/ UNCHANGED rec
             \/ /\ \E s \in Statuses :
                     /\ rec' = [rec EXCEPT ![m.task] = s]
                     /\ s = "confirming" => Yes(m.task, 1)
                     /\ s = "approved" => Yes(m.task, 1) /\ Yes(m.task, 2)
      PROVE  AskInv'
  <2>1. /\ press'[p].pc = "idle"
        /\ \A q \in Slots \ {p} : press'[q] = press[q]
    BY <1>2 DEF Typed, TypeOK, NoPress
  <2>2. \A t \in Tasks : /\ rec'[t] = "confirming" => Yes(t, 1)
                         /\ rec'[t] = "approved" => Yes(t, 1) /\ Yes(t, 2)
    BY <1>2 DEF AskInv, Typed, TypeOK
  <2>3. UNCHANGED <<said, worker, pushed>>
    BY <1>2
  <2>4. \A t \in Tasks : worker'[t] = "push" \/ t \in pushed' =>
                         t \in AutoPush \/ (Yes(t, 1)' /\ Yes(t, 2)')
    BY <2>3 DEF AskInv, Yes
  <2>5. \A q \in Slots : press'[q].pc = "write" =>
          /\ <<press'[q].task, press'[q].stage, press'[q].allow>> \in said'
          /\ press'[q] = press[q]
          /\ press'[q].seen = "confirming" => Yes(press[q].task, 1)'
    BY <2>1, <2>3 DEF AskInv, Yes
  <2> QED  BY <2>2, <2>3, <2>4, <2>5 DEF AskInv, Yes
<1>3. m.pc = "write" => /\ <<m.task, m.stage, m.allow>> \in said
                        /\ m.seen = "confirming" => Yes(m.task, 1)
                        /\ m.allow \in BOOLEAN /\ m.seen \in Statuses
  BY DEF AskInv, Typed, TypeOK
<1>4. CASE FirstPress(p)
  <2>1. m.pc = "write" /\ m.stage = 1 /\ UNCHANGED <<said, worker, pushed>>
        /\ press' = [press EXCEPT ![p] = NoPress]
    BY <1>4 DEF FirstPress
  <2>2. \/ UNCHANGED rec
        \/ m.allow = TRUE /\ rec' = [rec EXCEPT ![m.task] = "confirming"]
        \/ rec' = [rec EXCEPT ![m.task] = "denied"]
    BY <1>3, <1>4 DEF FirstPress
  <2> QED  BY <1>2, <1>3, <2>1, <2>2 DEF Yes, Statuses
<1>5. CASE Confirm(p)
  <2>1. m.pc = "write" /\ m.stage = 2 /\ UNCHANGED <<said, worker, pushed>>
        /\ press' = [press EXCEPT ![p] = NoPress]
    BY <1>5 DEF Confirm
  <2>2. \/ UNCHANGED rec
        \/ m.seen = "confirming" /\ m.allow = TRUE /\ rec' = [rec EXCEPT ![m.task] = "approved"]
        \/ rec' = [rec EXCEPT ![m.task] = "denied"]
    BY <1>3, <1>5 DEF Confirm
  <2> QED  BY <1>2, <1>3, <2>1, <2>2 DEF Yes, Statuses
<1> QED  BY <1>1, <1>4, <1>5 DEF Buttons

LEMMA AskNext == ASSUME Typed, AskInv, [Next]_vars PROVE AskInv'
<1>1. CASE \E p \in Slots : Buttons(p)
  BY <1>1, AskPress
<1>2. CASE \E t \in Tasks : Approval(t)
  <2> PICK t \in Tasks : Approval(t)
    BY <1>2
  <2>1. /\ UNCHANGED <<press, said, worker, pushed>>
        /\ \A u \in Tasks : rec'[u] = rec[u] \/ rec'[u] \in {"none", "pending"}
    BY DEF Approval, SendButtons, SaveRequest, RecordExpires, Typed, TypeOK
  <2> QED  BY <2>1 DEF AskInv, Yes
<1>3. CASE \E t \in Tasks : Script(t)
  <2> PICK t \in Tasks : Script(t)
    BY <1>3
  <2>1. /\ UNCHANGED <<rec, press, said>>
        /\ \A u \in Tasks : u \in pushed' => u \in pushed \/ worker[u] = "push"
    BY DEF Script, TakeLock, TakeLockFails, ReadLock, RemoveLock, Kill, PrepareWorkdir, Edit,
           AgentDone, CheckPasses, Commit, Push, Abandon, Ask, Posted, PollYes, GiveUp
  <2>2. \A u \in Tasks : worker'[u] = "push" =>
          worker[u] = "push" \/ u \in AutoPush \/ rec[u] = "approved"
    BY DEF Script, TakeLock, TakeLockFails, ReadLock, RemoveLock, Kill, PrepareWorkdir, Edit,
           AgentDone, CheckPasses, Commit, Push, Abandon, Ask, Posted, PollYes, GiveUp, Go,
           Typed, TypeOK
  <2> QED  BY <2>1, <2>2, AskFrame
<1>4. CASE Spawn
  <2>1. /\ UNCHANGED <<rec, press, said, pushed>>
        /\ \A u \in Tasks : worker'[u] \in {worker[u], "spawned"}
    BY <1>4 DEF Spawn, Go, Typed, TypeOK
  <2> QED  BY <2>1, AskFrame
<1>5. CASE RestartBackend
  <2>1. UNCHANGED <<rec, said, worker, pushed>> /\ press' = [p \in Slots |-> NoPress]
    BY <1>5 DEF RestartBackend
  <2> QED  BY <2>1 DEF AskInv, Yes, NoPress
<1>6. CASE UNCHANGED <<rec, press, said, worker, pushed>>
  BY <1>6, AskFrame
<1>7. CASE \/ \E t \in Tasks : Command(t)
           \/ Look \/ ClearLock \/ Spool \/ SpawnFails \/ PendingExpires
  BY <1>6, <1>7 DEF Command, Look, ClearLock, Spool, SpawnFails, PendingExpires
<1> QED  BY <1>1, <1>2, <1>3, <1>4, <1>5, <1>6, <1>7 DEF Next, Backend, vars
-----------------------------------------------------------------------------
(***************************************************************************)
(* What holds of every behaviour.                                          *)
(***************************************************************************)
TaskInv == Typed /\ Once /\ LockInv /\ CloneInv /\ AskInv

LEMMA TaskInit == ASSUME ClaudeTaskAssumption, Init PROVE TaskInv
<1>1. Once
  BY DEF Init, Once, Idle
<1> QED  BY <1>1, TypedInit, LockInit, CloneInit, AskInit DEF TaskInv

LEMMA TaskNext == ASSUME ClaudeTaskAssumption, TaskInv, [Next]_vars PROVE TaskInv'
BY TypedNext, OnceNext, LockNext, CloneNext, AskNext DEF TaskInv

LEMMA Inductive == ASSUME ClaudeTaskAssumption PROVE Spec => []TaskInv
BY TaskInit, TaskNext, PTL DEF Spec

\* What the invariant says of a state.
LEMMA TaskSound ==
  ASSUME TaskInv PROVE TypeOK /\ OneAtATime /\ PushedWasChecked /\ PushedByTwoPresses
<1>1. OneAtATime
  <2> DEFINE W == {t \in Tasks : worker[t] \in Working}
  <2>1. SUFFICES ASSUME late = {} PROVE ~(Cardinality(W) > 1)
    BY DEF OneAtATime
  <2>2. \A t \in W, u \in W : t = u
    BY <2>1, AloneInClone DEF TaskInv
  <2>3. CASE W = {}
    <3>1. Cardinality(W) = 0
      BY <2>3, FS_EmptySet
    <3> HIDE DEF W
    <3> QED  BY <3>1
  <2>4. CASE W # {}
    <3>1. PICK t \in W : W = {t}
      BY <2>2, <2>4
    <3>2. Cardinality({t}) = 1
      BY FS_Singleton
    <3> HIDE DEF W
    <3> QED  BY <3>1, <3>2
  <2> QED  BY <2>3, <2>4
<1>2. PushedWasChecked
  BY DEF TaskInv, Typed, TypeOK, CloneInv, PushedWasChecked
<1>3. PushedByTwoPresses
  <2>1. \A t \in pushed \ AutoPush : t \in Tasks /\ Yes(t, 1) /\ Yes(t, 2)
    BY DEF TaskInv, Typed, TypeOK, AskInv
  <2> QED  BY <2>1 DEF Yes, PushedByTwoPresses
<1> QED  BY <1>1, <1>2, <1>3 DEF TaskInv, Typed

\* Every variable keeps its type: the lock names a task or a mark, the steps of
\* the backend, the workers, the clones and the records stay in their ranges.
THEOREM TypeCorrect == ASSUME ClaudeTaskAssumption PROVE Spec => []TypeOK
BY Inductive, TaskSound, PTL

\* Whatever is killed and restarted, two workers run at once only after one of
\* them did not take the lock in its minute (start() and takeLock).
THEOREM WorkersApart == ASSUME ClaudeTaskAssumption PROVE Spec => []OneAtATime
BY Inductive, TaskSound, PTL

\* A branch that is pushed holds what passed the build, as long as no worker
\* took its lock late: nobody edits, checks out or commits in the clone between
\* the build, the commit and the push of another task (claude-task.mjs).
THEOREM ChecksWhatItPushes == ASSUME ClaudeTaskAssumption PROVE Spec => []PushedWasChecked
BY Inductive, TaskSound, PTL

\* A push without CLAUDE_TASK_AUTOPUSH was allowed on both keyboards, whatever
\* presses race with each other, with expiry, timeouts and restarts
\* (ApprovalService.firstPress and confirm).
THEOREM AllowedTwice == ASSUME ClaudeTaskAssumption PROVE Spec => []PushedByTwoPresses
BY Inductive, TaskSound, PTL

USE DEF R!roleVars, R!sceneVars, R!askVars, R!fileVars

\* A slot names an employee as long as its press is under way.
PressInHand == \A s \in PressSlots : (toggle[s].pc = "idle") <=> (toggle[s].person = NoUser)

\* The questions that were answered with rows; their places.
Ranked == {p \in Queries : order[p] > 0}

(***************************************************************************)
(* Roles.                                                                  *)
(***************************************************************************)
\* What is asked by somebody with both roles, and what runs, is in held.
HeldInv ==
  \A q \in Queries :
    /\ query[q].pc = "asked" /\ R!HasBothRoles(query[q].user) => q \in held
    /\ query[q].pc = "running" \/ query[q].rows => q \in held

(***************************************************************************)
(* Results in their order.                                                 *)
(***************************************************************************)
\* A question gets its place with its answer, after all places given, and the
\* last result of a user is the newest one of the user's questions.
Unanswered == {"new", "asked", "running"}
Question == [pc : {"new", "asked", "running", "answered", "shown", "done"},
             user : Users \cup {NoUser}, rows : BOOLEAN, file : BOOLEAN]
OrderInv ==
  \A q \in Queries :
    /\ query[q].pc \in Unanswered => order[q] = 0 /\ ~query[q].rows
    /\ query[q].file => query[q].rows
    /\ query[q].rows => order[q] > 0
    /\ order[q] <= Cardinality(Ranked)
    /\ query[q].pc = "new" => query[q].user = NoUser

LastInv ==
  \A u \in Users : last[u] # NoQuery =>
    \A q \in Queries : query[q].user = u => order[last[u]] >= order[q]

\* What was sent for a question is at least as new as its own result for good.
SentInv ==
  sent[1] # NoQuery =>
    /\ sent[1] \in Queries /\ sent[2] \in Queries
    /\ query[sent[1]].pc = "done"
    /\ order[sent[2]] >= order[sent[1]]

ReportInv == R!TypeOK /\ PressInHand /\ HeldInv /\ OrderInv /\ LastInv /\ SentInv /\ R!ScreenTrue
-----------------------------------------------------------------------------
\* The count of BotReports is the count of FiniteSets.
LEMMA SameCount == R!Cardinality(Queries) = Cardinality(Queries)
BY DEF R!Cardinality, Cardinality

LEMMA ReportInit == ASSUME R!BotReportsAssumption, R!Init PROVE ReportInv
<1> USE DEF R!BotReportsAssumption
<1>1. Cardinality(Queries) \in Nat
  <2>1. IsFiniteSet(Queries)
    BY DEF R!IsFiniteSet, IsFiniteSet
  <2> QED
    BY <2>1, FS_CardinalityType
<1>2. R!TypeOK /\ PressInHand
  <2>1. order \in [Queries -> 0..R!Cardinality(Queries)]
    BY <1>1, SameCount DEF R!Init
  <2> QED  BY <2>1 DEF R!Init, R!TypeOK, PressInHand, R!NewQuery, R!NoToggle
<1>3. HeldInv
  BY DEF R!Init, HeldInv, R!NewQuery
<1>4. OrderInv
  <2>1. Ranked = {}
    BY DEF R!Init, Ranked
  <2>2. Cardinality(Ranked) = 0
    BY <2>1, FS_EmptySet
  <2> QED  BY <2>2 DEF R!Init, OrderInv, R!NewQuery, Unanswered
<1>5. LastInv /\ SentInv
  BY DEF R!Init, LastInv, SentInv
<1>6. R!ScreenTrue
  BY DEF R!Init, R!ScreenTrue
<1> QED  BY <1>2, <1>3, <1>4, <1>5, <1>6 DEF ReportInv

(***************************************************************************)
(* Scenes and the menu.                                                    *)
(***************************************************************************)
\* Steps of the scenes other than a question.
Navigates(u) ==
  \/ R!ShowMenu(u) \/ R!EnterAi(u) \/ R!EnterReports(u)
  \/ \E mode \in {"postgres", "oracle"} : R!PickDatabase(u, mode)

LEMMA NavigateInv ==
  ASSUME R!BotReportsAssumption, ReportInv, NEW u \in Users, Navigates(u) PROVE ReportInv'
<1> USE DEF ReportInv
<1>1. /\ UNCHANGED <<R!roleVars, R!askVars, R!fileVars>>
      /\ last' = last \/ last' = [last EXCEPT ![u] = NoQuery]
      /\ scene' \in [Users -> {"none", "ai", "report"}]
      /\ aiMode' \in [Users -> {"none", "postgres", "oracle"}]
  BY DEF Navigates, R!ShowMenu, R!EnterAi, R!EnterReports, R!PickDatabase, R!TypeOK
<1>2. R!TypeOK' /\ PressInHand'
  BY <1>1 DEF R!TypeOK, PressInHand, Question
<1>3. HeldInv' /\ OrderInv' /\ R!ScreenTrue' /\ SentInv'
  BY <1>1 DEF HeldInv, R!HasBothRoles, OrderInv, Ranked, R!ScreenTrue, R!Pressed, SentInv
<1>4. LastInv'
  BY <1>1 DEF LastInv, R!TypeOK
<1> QED  BY <1>2, <1>3, <1>4

(***************************************************************************)
(* Questions.                                                              *)
(***************************************************************************)
LEMMA MessageInv ==
  ASSUME R!BotReportsAssumption, ReportInv, NEW u \in Users, NEW q \in Queries, R!Message(u, q)
  PROVE  ReportInv'
<1> USE DEF ReportInv
<1>1. /\ query[q].pc = "new" /\ UNCHANGED <<R!sceneVars, last, R!roleVars, R!fileVars>>
      /\ held' = IF R!HasBothRoles(u) THEN held \cup {q} ELSE held
      /\ \A r \in Queries \ {q} : query'[r] = query[r]
      /\ query'[q].pc = "asked" /\ query'[q].user = u
      /\ query'[q].rows = FALSE /\ query'[q].file = FALSE
      /\ query' \in [Queries -> Question]
  <2> DEFINE r == [R!NewQuery EXCEPT !.pc = "asked", !.user = u]
  <2>1. r.pc = "asked" /\ r.user = u /\ r.rows = FALSE /\ r.file = FALSE /\ r \in Question
    BY DEF R!NewQuery, Question
  <2>2. query \in [Queries -> Question]
    BY DEF R!TypeOK, Question
  <2>3. /\ query[q].pc = "new" /\ UNCHANGED <<R!sceneVars, last, R!roleVars, R!fileVars>>
        /\ held' = IF R!HasBothRoles(u) THEN held \cup {q} ELSE held
        /\ query' = [query EXCEPT ![q] = r]
    BY DEF R!Message
  <2> HIDE DEF r, ReportInv
  <2> QED  BY <2>1, <2>2, <2>3
<1>2. R!TypeOK' /\ PressInHand'
  BY <1>1 DEF R!TypeOK, PressInHand, Question
<1>3. HeldInv' /\ R!ScreenTrue'
  BY <1>1 DEF HeldInv, R!HasBothRoles, R!ScreenTrue, R!Pressed
<1>4. OrderInv'
  BY <1>1 DEF OrderInv, Ranked, Unanswered
<1>5. LastInv'
  <2>1. order[q] = 0
    BY <1>1 DEF OrderInv, Unanswered
  <2>2. \A v \in Users : last[v] # NoQuery => order[last[v]] >= 0
    BY DEF R!TypeOK
  <2> QED  BY <1>1, <2>1, <2>2 DEF LastInv
<1>6. SentInv'
  BY <1>1 DEF SentInv
<1> QED  BY <1>2, <1>3, <1>4, <1>5, <1>6

LEMMA AnswerInv ==
  ASSUME R!BotReportsAssumption, ReportInv, NEW q \in Queries, NEW rows \in BOOLEAN, NEW file \in BOOLEAN,
         R!Answer(q, rows, file)
  PROVE  ReportInv'
<1> USE DEF ReportInv
<1> DEFINE u == query[q].user
           n == Cardinality(Ranked)
<1>1. /\ query[q].pc = "running" /\ (file => rows)
      /\ UNCHANGED <<held, R!sceneVars, R!roleVars, keyboard, sent>>
      /\ \A r \in Queries \ {q} : query'[r] = query[r]
      /\ query'[q].pc = "answered" /\ query'[q].user = u
      /\ query'[q].rows = rows /\ query'[q].file = file
      /\ query' \in [Queries -> Question]
      /\ last' = IF rows THEN [last EXCEPT ![u] = q] ELSE last
      /\ order' = IF rows THEN [order EXCEPT ![q] = n + 1] ELSE order
  <2> DEFINE r == [query[q] EXCEPT !.pc = "answered", !.rows = rows, !.file = file]
  <2>1. query \in [Queries -> Question] /\ query[q] \in Question
    BY DEF R!TypeOK, Question
  <2>2. r.pc = "answered" /\ r.user = u /\ r.rows = rows /\ r.file = file /\ r \in Question
    BY <2>1 DEF Question
  <2>3. query' = [query EXCEPT ![q] = r]
    BY <2>1 DEF R!Answer, Question
  <2>4. (\A x \in Queries \ {q} : query'[x] = query[x]) /\ query'[q] = r
        /\ query' \in [Queries -> Question]
    <3> HIDE DEF r, ReportInv
    <3> QED  BY <2>1, <2>2, <2>3
  <2>5. /\ query[q].pc = "running" /\ (file => rows)
        /\ UNCHANGED <<held, R!sceneVars, R!roleVars, keyboard, sent>>
        /\ last' = IF rows THEN [last EXCEPT ![u] = q] ELSE last
        /\ order' = IF rows THEN [order EXCEPT ![q] = n + 1] ELSE order
    BY DEF R!Answer, Ranked, R!Cardinality, Cardinality
  <2> HIDE DEF r, ReportInv
  <2> QED  BY <2>2, <2>4, <2>5
<1>2. IsFiniteSet(Ranked) /\ n \in Nat /\ n <= Cardinality(Queries) /\ Cardinality(Queries) \in Nat
  <2>1. IsFiniteSet(Queries) /\ Ranked \subseteq Queries
    BY DEF R!BotReportsAssumption, Ranked, R!IsFiniteSet, IsFiniteSet
  <2> HIDE DEF ReportInv
  <2> QED  BY <2>1, FS_Subset, FS_CardinalityType
<1>3. order[q] = 0 /\ q \notin Ranked
  BY <1>1 DEF OrderInv, Unanswered, Ranked
<1>4. rows => Ranked' = Ranked \cup {q} /\ Cardinality(Ranked') = n + 1
              /\ n + 1 <= Cardinality(Queries)
  <2> SUFFICES ASSUME rows PROVE Ranked' = Ranked \cup {q} /\ Cardinality(Ranked') = n + 1
                                 /\ n + 1 <= Cardinality(Queries)
    OBVIOUS
  <2>1. Ranked' = Ranked \cup {q}
    <3>1. order \in [Queries -> Nat] /\ order' = [order EXCEPT ![q] = n + 1]
      BY <1>1 DEF R!TypeOK
    <3>2. n + 1 > 0
      BY <1>2
    <3> HIDE DEF n, ReportInv
    <3> QED  BY <3>1, <3>2 DEF Ranked
  <2>2. Cardinality(Ranked \cup {q}) = n + 1
    BY <1>2, <1>3, FS_AddElement
  <2>3. Ranked \cup {q} \subseteq Queries /\ IsFiniteSet(Queries)
    BY DEF Ranked, R!BotReportsAssumption, R!IsFiniteSet, IsFiniteSet
  <2>4. Cardinality(Ranked \cup {q}) <= Cardinality(Queries)
    BY <2>3, FS_Subset
  <2> QED  BY <2>1, <2>2, <2>4
<1>5. \A r \in Queries : order[r] \in Nat /\ order'[r] = IF r = q /\ rows THEN n + 1 ELSE order[r]
  BY <1>1 DEF R!TypeOK
<1>6. R!TypeOK' /\ PressInHand'
  <2>1. order' \in [Queries -> 0..Cardinality(Queries)]
    BY <1>1, <1>2, <1>4, SameCount DEF R!TypeOK
  <2>2. last' \in [Users -> Queries \cup {NoQuery}]
    BY <1>1 DEF R!TypeOK
  <2>3. u \in Users \cup {NoUser}
    BY DEF R!TypeOK
  <2> QED  BY <1>1, <2>1, <2>2, <2>3, SameCount DEF R!TypeOK, PressInHand, Question
<1>7. HeldInv' /\ R!ScreenTrue'
  BY <1>1 DEF HeldInv, R!HasBothRoles, R!ScreenTrue, R!Pressed
<1>8. OrderInv'
  <2>1. CASE rows
    <3>1. SUFFICES ASSUME NEW r \in Queries
                   PROVE  /\ query'[r].pc \in Unanswered => order'[r] = 0 /\ ~query'[r].rows
                          /\ query'[r].file => query'[r].rows
                          /\ query'[r].rows => order'[r] > 0
                          /\ order'[r] <= Cardinality(Ranked')
                          /\ query'[r].pc = "new" => query'[r].user = NoUser
      BY DEF OrderInv, Unanswered
    <3>2. CASE r = q
      <4>1. order'[q] = n + 1 /\ Cardinality(Ranked') = n + 1
        BY <1>4, <1>5, <2>1
      <4>2. order'[q] > 0 /\ order'[q] <= Cardinality(Ranked')
        <5> HIDE DEF n, ReportInv
        <5> QED  BY <1>2, <4>1
      <4>3. query'[q].pc = "answered" /\ query'[q].rows
        BY <1>1, <2>1
      <4> HIDE DEF n, ReportInv
      <4> QED  BY <3>2, <4>2, <4>3 DEF Unanswered
    <3>3. CASE r # q
      <4>1. query'[r] = query[r] /\ order'[r] = order[r] /\ Cardinality(Ranked') = n + 1
        BY <1>1, <1>4, <1>5, <2>1, <3>3
      <4>2. order[r] <= n /\ order[r] \in Nat
        BY <1>5 DEF OrderInv
      <4>3. order'[r] <= Cardinality(Ranked')
        BY <1>2, <4>1, <4>2
      <4> QED  BY <4>1, <4>3 DEF OrderInv
    <3> QED  BY <3>2, <3>3
  <2>2. CASE ~rows
    <3>1. UNCHANGED order /\ Ranked' = Ranked
      BY <1>1, <2>2 DEF Ranked
    <3> QED  BY <1>1, <2>2, <3>1 DEF OrderInv, Unanswered
  <2> QED  BY <2>1, <2>2
<1>9. LastInv'
  <2>1. CASE rows
    <3>1. \A r \in Queries : n + 1 >= order'[r]
      BY <1>2, <1>5 DEF OrderInv
    <3>2. \A v \in Users : last'[v] = IF v = u THEN q ELSE last[v]
      BY <1>1, <2>1 DEF R!TypeOK
    <3>3. SUFFICES ASSUME NEW v \in Users, last'[v] # NoQuery, NEW r \in Queries,
                          query'[r].user = v
                   PROVE  order'[last'[v]] >= order'[r]
      BY DEF LastInv
    <3>4. CASE v = u
      BY <1>5, <2>1, <3>1, <3>2, <3>4
    <3>5. CASE v # u
      <4>1. last[v] \in Queries /\ last'[v] = last[v] /\ r # q /\ query[r].user = v
        BY <1>1, <3>2, <3>3, <3>5 DEF R!TypeOK
      <4>2. order[last[v]] >= order[r]
        BY <4>1, <3>3 DEF LastInv
      <4> QED  BY <1>2, <1>3, <1>5, <4>1, <4>2
    <3> QED  BY <3>4, <3>5
  <2>2. CASE ~rows
    <3>1. UNCHANGED <<last, order>> /\ \A r \in Queries : query'[r].user = query[r].user
      BY <1>1, <2>2
    <3> QED  BY <3>1 DEF LastInv
  <2> QED  BY <2>1, <2>2
<1>10. SentInv'
  <2> SUFFICES ASSUME sent[1] # NoQuery PROVE SentInv'
    BY <1>1 DEF SentInv
  <2>1. sent[1] # q /\ sent[1] \in Queries /\ sent[2] \in Queries
    BY <1>1 DEF SentInv
  <2> QED  BY <1>1, <1>2, <1>3, <1>5, <2>1 DEF SentInv
<1> QED  BY <1>6, <1>7, <1>8, <1>9, <1>10

\* Steps of a question after which it has the same user, rows, file and place.
LEMMA GoesOnInv ==
  ASSUME R!BotReportsAssumption, ReportInv, NEW q \in Queries,
         NEW pc \in {"running", "answered", "shown", "done"},
         query[q].pc # "new", pc \in Unanswered => query[q].pc \in Unanswered,
         query[q].pc # "done",
         pc = "running" => q \in held,
         query' = [query EXCEPT ![q].pc = pc],
         UNCHANGED <<held, R!sceneVars, last, R!roleVars, order>>, keyboard' \subseteq Users,
         sent' = sent \/ (pc = "done" /\ query[q].rows /\ query[q].user = Chief
                          /\ last[Chief] # NoQuery /\ sent' = <<q, last[Chief]>>)
  PROVE  ReportInv'
<1> USE DEF ReportInv
<1>1. /\ \A r \in Queries \ {q} : query'[r] = query[r]
      /\ query'[q].pc = pc /\ query'[q].user = query[q].user
      /\ query'[q].rows = query[q].rows /\ query'[q].file = query[q].file
      /\ query' \in [Queries -> Question]
  <2>1. query \in [Queries -> Question] /\ query[q] \in Question
    BY DEF R!TypeOK, Question
  <2> QED  BY <2>1 DEF Question
<1>2. R!TypeOK' /\ PressInHand'
  <2>1. sent' \in (Queries \cup {NoQuery}) \X (Queries \cup {NoQuery})
    BY DEF R!TypeOK, R!BotReportsAssumption
  <2> QED  BY <1>1, <2>1 DEF R!TypeOK, PressInHand, Question
<1>3. HeldInv' /\ R!ScreenTrue'
  BY <1>1 DEF HeldInv, R!HasBothRoles, R!ScreenTrue, R!Pressed
<1>4. OrderInv'
  BY <1>1 DEF OrderInv, Ranked, Unanswered
<1>5. LastInv'
  BY <1>1 DEF LastInv
<1>6. SentInv'
  <2>1. CASE sent' = sent
    BY <1>1, <2>1 DEF SentInv
  <2>2. CASE pc = "done" /\ query[q].user = Chief /\ last[Chief] # NoQuery
             /\ sent' = <<q, last[Chief]>>
    <3>1. last[Chief] \in Queries /\ order[last[Chief]] >= order[q]
      BY <2>2 DEF LastInv, R!TypeOK, R!BotReportsAssumption
    <3> QED  BY <1>1, <2>2, <3>1 DEF SentInv
  <2> QED  BY <2>1, <2>2
<1> QED  BY <1>2, <1>3, <1>4, <1>5, <1>6

LEMMA BackgroundInv ==
  ASSUME R!BotReportsAssumption, ReportInv, NEW q \in Queries, R!Background(q) PROVE ReportInv'
<1>1. CASE R!CheckRoles(q)
  <2> DEFINE pc == IF R!HasBothRoles(query[q].user) THEN "running" ELSE "answered"
  <2>1. /\ query[q].pc = "asked" /\ query' = [query EXCEPT ![q].pc = pc]
        /\ UNCHANGED <<held, R!sceneVars, last, R!roleVars, R!fileVars>>
    BY <1>1 DEF R!CheckRoles
  <2>2. pc = "running" => q \in held
    BY <2>1 DEF ReportInv, HeldInv
  <2>3. pc \in {"running", "answered"}
    OBVIOUS
  <2>4. keyboard \subseteq Users
    BY DEF ReportInv, R!TypeOK
  <2> HIDE DEF pc
  <2> QED  BY <2>1, <2>2, <2>3, <2>4, GoesOnInv DEF Unanswered
<1>2. CASE R!ShowAnswer(q)
  <2>1. /\ query[q].pc = "answered" /\ query' = [query EXCEPT ![q].pc = "shown"]
        /\ keyboard' \subseteq Users
        /\ UNCHANGED <<held, R!sceneVars, last, R!roleVars, order, sent>>
    BY <1>2 DEF R!ShowAnswer, ReportInv, R!TypeOK, R!BotReportsAssumption
  <2> QED  BY <2>1, GoesOnInv DEF Unanswered
<1>3. CASE R!ShowFails(q)
  <2>1. /\ query[q].pc = "answered" /\ query' = [query EXCEPT ![q].pc = "done"]
        /\ UNCHANGED <<held, R!sceneVars, last, R!roleVars, R!fileVars>> /\ keyboard \subseteq Users
    BY <1>3 DEF R!ShowFails, ReportInv, R!TypeOK
  <2> QED  BY <2>1, GoesOnInv DEF Unanswered
<1>4. CASE R!DeliverAsked(q)
  <2>1. /\ query[q].pc = "shown" /\ query' = [query EXCEPT ![q].pc = "done"]
        /\ UNCHANGED <<held, R!sceneVars, last, R!roleVars, keyboard, order>> /\ keyboard \subseteq Users
    BY <1>4 DEF R!DeliverAsked, ReportInv, R!TypeOK
  <2>2. sent' = sent \/ (query[q].rows /\ query[q].user = Chief
                         /\ last[Chief] # NoQuery /\ sent' = <<q, last[Chief]>>)
    BY <1>4 DEF R!DeliverAsked, ReportInv, OrderInv
  <2> QED  BY <2>1, <2>2, GoesOnInv DEF Unanswered
<1>5. CASE \E rows, file \in BOOLEAN : R!Answer(q, rows, file)
  BY <1>5, AnswerInv
<1> QED  BY <1>1, <1>2, <1>3, <1>4, <1>5 DEF R!Background

LEMMA PressDeliverInv ==
  ASSUME R!BotReportsAssumption, ReportInv, NEW u \in Users, R!PressDeliver(u) PROVE ReportInv'
<1> USE DEF ReportInv
<1>1. /\ sent' = <<NoQuery, last[u]>> /\ last[u] \in Queries \cup {NoQuery}
      /\ UNCHANGED <<R!askVars, R!sceneVars, last, R!roleVars, keyboard, order>>
  BY DEF R!PressDeliver, R!TypeOK
<1>2. R!TypeOK' /\ PressInHand'
  BY <1>1 DEF R!TypeOK, PressInHand, Question
<1>3. HeldInv' /\ OrderInv' /\ LastInv' /\ R!ScreenTrue' /\ SentInv'
  BY <1>1 DEF HeldInv, R!HasBothRoles, OrderInv, Ranked, LastInv, R!ScreenTrue, R!Pressed, SentInv
<1> QED  BY <1>2, <1>3

LEMMA RestartInv == ASSUME R!BotReportsAssumption, ReportInv, R!Restart PROVE ReportInv'
<1> USE DEF ReportInv
<1>1. /\ \A q \in Queries :
           /\ query'[q].user = query[q].user /\ query'[q].rows = query[q].rows
           /\ query'[q].file = query[q].file
           /\ IF query[q].pc = "new" THEN query'[q].pc = "new" ELSE query'[q].pc = "done"
      /\ query' \in [Queries -> Question]
  <2>1. query \in [Queries -> Question]
    BY DEF R!TypeOK, Question
  <2>2. \A q \in Queries : query'[q] = IF query[q].pc = "new" THEN query[q]
                                       ELSE [query[q] EXCEPT !.pc = "done"]
    BY DEF R!Restart
  <2>3. ASSUME NEW x \in Question
        PROVE  /\ [x EXCEPT !.pc = "done"] \in Question
               /\ [x EXCEPT !.pc = "done"].pc = "done" /\ [x EXCEPT !.pc = "done"].user = x.user
               /\ [x EXCEPT !.pc = "done"].rows = x.rows /\ [x EXCEPT !.pc = "done"].file = x.file
    BY DEF Question
  <2>4. query' \in [Queries -> Question]
    BY <2>1, <2>3 DEF R!Restart
  <2>5. \A q \in Queries :
          /\ query'[q].user = query[q].user /\ query'[q].rows = query[q].rows
          /\ query'[q].file = query[q].file
          /\ IF query[q].pc = "new" THEN query'[q].pc = "new" ELSE query'[q].pc = "done"
    <3> TAKE q \in Queries
    <3>1. query[q] \in Question
      BY <2>1
    <3>2. CASE query[q].pc = "new"
      BY <2>2, <3>2
    <3>3. CASE query[q].pc # "new"
      <4>1. query'[q] = [query[q] EXCEPT !.pc = "done"]
        BY <2>2, <3>3
      <4> QED  BY <2>3, <3>1, <3>3, <4>1
    <3> QED  BY <3>2, <3>3
  <2> QED  BY <2>4, <2>5
<1>2. /\ UNCHANGED <<admins, screen, held, R!fileVars>> /\ last' = [u \in Users |-> NoQuery]
      /\ toggle' = [s \in PressSlots |-> R!NoToggle]
      /\ overlapped' = overlapped \cup {toggle[s].person : s \in {s \in PressSlots : toggle[s].pc # "idle"}}
  BY DEF R!Restart
<1>3. \A s \in PressSlots : toggle[s].pc # "idle" => toggle[s].person \in Staff
  BY DEF PressInHand, R!TypeOK, R!BotReportsAssumption
<1>4. R!TypeOK' /\ PressInHand'
  <2>1. overlapped' \subseteq Staff
    BY <1>2, <1>3 DEF R!TypeOK
  <2>2. toggles' \in 0..MaxToggles
    BY DEF R!Restart, R!TypeOK, R!BotReportsAssumption
  <2>3. scene' \in [Users -> {"none", "ai", "report"}]
        /\ aiMode' \in [Users -> {"none", "postgres", "oracle"}]
    BY DEF R!Restart
  <2> QED  BY <1>1, <1>2, <2>1, <2>2, <2>3 DEF R!TypeOK, PressInHand, R!NoToggle, Question
<1>5. HeldInv' /\ LastInv'
  BY <1>1, <1>2 DEF HeldInv, LastInv
<1>6. OrderInv'
  BY <1>1, <1>2 DEF OrderInv, Ranked, Unanswered
<1>7. SentInv'
  BY <1>1, <1>2 DEF SentInv
<1>8. R!ScreenTrue'
  <2>1. \A u \in Staff \ overlapped' : u \notin overlapped /\ R!Pressed(u) = {}
    BY <1>2, <1>3 DEF R!Pressed, PressInHand, R!TypeOK, R!BotReportsAssumption
  <2> QED  BY <1>2, <2>1 DEF R!ScreenTrue
<1> QED  BY <1>4, <1>5, <1>6, <1>7, <1>8

(***************************************************************************)
(* Presses of role buttons.                                                *)
(***************************************************************************)
LEMMA RolesInv ==
  ASSUME R!BotReportsAssumption, ReportInv, NEW s \in PressSlots, R!Roles(s) PROVE ReportInv'
<1> USE DEF ReportInv
<1> DEFINE u == toggle[s].person
<1>1. CASE R!ToggleWrite(s)
  <2>1. /\ toggle[s].pc = "write" /\ UNCHANGED <<screen, toggles, overlapped, query, R!sceneVars, last, R!fileVars>>
        /\ admins' = (IF toggle[s].seen THEN admins \ {u} ELSE admins \cup {u})
        /\ toggle' = [toggle EXCEPT ![s].pc = "read"]
        /\ held' = held \cup {q \in Queries : query[q].user = u /\ query[q].pc = "asked" /\ u \in admins'}
    BY <1>1 DEF R!ToggleWrite
  <2>2. u \in Staff
    BY <2>1 DEF PressInHand, R!TypeOK, R!BotReportsAssumption
  <2>3. /\ \A r \in PressSlots : toggle'[r].person = toggle[r].person
        /\ \A r \in PressSlots : (toggle'[r].pc = "idle") <=> (toggle[r].pc = "idle")
        /\ toggle' \in [PressSlots -> [pc : {"idle", "write", "read"}, person : Staff \cup {NoUser},
                                  seen : BOOLEAN]]
    BY <2>1 DEF R!TypeOK
  <2>4. R!TypeOK' /\ PressInHand'
    BY <2>1, <2>2, <2>3 DEF R!TypeOK, PressInHand
  <2>5. HeldInv'
    BY <2>1, <2>2 DEF HeldInv, R!HasBothRoles
  <2>6. OrderInv' /\ LastInv' /\ SentInv'
    BY <2>1 DEF OrderInv, Ranked, LastInv, SentInv
  <2>7. R!ScreenTrue'
    <3>1. \A v \in Staff : R!Pressed(v)' = R!Pressed(v)
      BY <2>3 DEF R!Pressed
    <3>2. s \in R!Pressed(u) /\ \A v \in Staff \ {u} : v \in admins' <=> v \in admins
      BY <2>1 DEF R!Pressed
    <3> QED  BY <2>1, <3>1, <3>2 DEF R!ScreenTrue, R!TypeOK
  <2> QED  BY <2>4, <2>5, <2>6, <2>7
<1>2. CASE R!ToggleShow(s)
  <2>1. /\ toggle[s].pc = "read" /\ UNCHANGED <<admins, toggles, overlapped, R!sceneVars, last, R!askVars, R!fileVars>>
        /\ screen' = [screen EXCEPT ![u] = u \in admins]
        /\ toggle' = [toggle EXCEPT ![s] = R!NoToggle]
    BY <1>2 DEF R!ToggleShow
  <2>2. u \in Staff
    BY <2>1 DEF PressInHand, R!TypeOK, R!BotReportsAssumption
  <2>3. R!TypeOK' /\ PressInHand'
    BY <2>1, <2>2 DEF R!TypeOK, PressInHand, R!NoToggle
  <2>4. HeldInv' /\ OrderInv' /\ LastInv' /\ SentInv'
    BY <2>1 DEF HeldInv, R!HasBothRoles, OrderInv, Ranked, LastInv, SentInv
  <2>5. R!ScreenTrue'
    <3>1. \A v \in Staff \ {u} : R!Pressed(v)' = R!Pressed(v) /\ screen'[v] = screen[v]
      BY <2>1 DEF R!Pressed, R!TypeOK, R!NoToggle, R!BotReportsAssumption
    <3>2. screen'[u] = (u \in admins)
      BY <2>1, <2>2 DEF R!TypeOK
    <3> QED  BY <2>1, <3>1, <3>2 DEF R!ScreenTrue
  <2> QED  BY <2>3, <2>4, <2>5
<1>3. ASSUME NEW v \in Staff, R!ToggleRead(s, v) PROVE ReportInv'
  <2>1. /\ toggle[s].pc = "idle" /\ UNCHANGED <<admins, screen, R!sceneVars, last, R!askVars, R!fileVars>>
        /\ toggle' = [toggle EXCEPT ![s] = [pc |-> "write", person |-> v, seen |-> v \in admins]]
        /\ overlapped \subseteq overlapped' /\ overlapped' \subseteq Staff
        /\ toggles' \in 0..MaxToggles
    BY <1>3 DEF R!ToggleRead, R!TypeOK, R!BotReportsAssumption
  <2>2. R!TypeOK' /\ PressInHand'
    BY <2>1 DEF R!TypeOK, PressInHand, R!BotReportsAssumption
  <2>3. HeldInv' /\ OrderInv' /\ LastInv' /\ SentInv'
    BY <2>1 DEF HeldInv, R!HasBothRoles, OrderInv, Ranked, LastInv, SentInv
  <2>4. R!ScreenTrue'
    <3>1. \A w \in Staff : R!Pressed(w) \subseteq R!Pressed(w)'
      BY <2>1 DEF R!Pressed, PressInHand, R!TypeOK, R!BotReportsAssumption
    <3> QED  BY <2>1, <3>1 DEF R!ScreenTrue
  <2> QED  BY <2>2, <2>3, <2>4
<1> QED  BY <1>1, <1>2, <1>3 DEF R!Roles

LEMMA ReportNext == ASSUME R!BotReportsAssumption, ReportInv, [R!Next]_(R!vars) PROVE ReportInv'
<1>1. ASSUME NEW u \in Users, R!Scenes(u) PROVE ReportInv'
  BY <1>1, NavigateInv, MessageInv, PressDeliverInv DEF R!Scenes, Navigates
<1>2. CASE UNCHANGED R!vars
  <2>1. R!TypeOK' /\ PressInHand'
    BY <1>2 DEF R!vars, ReportInv, R!TypeOK, PressInHand
  <2>2. HeldInv' /\ OrderInv' /\ LastInv'
    BY <1>2 DEF R!vars, ReportInv, HeldInv, R!HasBothRoles, OrderInv, Ranked, LastInv
  <2>3. SentInv' /\ R!ScreenTrue'
    BY <1>2 DEF R!vars, ReportInv, SentInv, R!ScreenTrue, R!Pressed
  <2> QED  BY <2>1, <2>2, <2>3 DEF ReportInv
<1> QED  BY <1>1, <1>2, BackgroundInv, RolesInv, RestartInv DEF R!Next

-----------------------------------------------------------------------------
(***************************************************************************)
(* What holds of every behaviour.                                          *)
(***************************************************************************)
LEMMA ReportInductive == ASSUME R!BotReportsAssumption PROVE R!Spec => []ReportInv
BY ReportInit, ReportNext, PTL DEF R!Spec

\* What the invariant says of a state.
LEMMA ReportSound ==
  ASSUME ReportInv PROVE R!TypeOK /\ R!NeverOlder /\ R!RevokedReadsNothing /\ R!MenuWorks /\ R!ScreenTrue
<1>1. ASSUME NEW u \in Users, NEW b \in R!MainMenu(R!Access(u)) PROVE ~R!Refuses(b, u)
  BY DEF ReportInv, R!TypeOK, R!MainMenu, R!Access, R!Refuses, R!ServesAccounts, R!ServesChief, R!HasBothRoles
<1>2. R!NeverOlder
  BY DEF ReportInv, SentInv, R!NeverOlder
<1>3. R!RevokedReadsNothing
  BY DEF ReportInv, HeldInv, R!RevokedReadsNothing
<1> QED  BY <1>1, <1>2, <1>3 DEF ReportInv, R!MenuWorks

\* Every variable keeps its type; a place among the answers never exceeds the
\* number of questions.
THEOREM ReportsTyped == ASSUME R!BotReportsAssumption PROVE R!Spec => []R!TypeOK
BY ReportInductive, ReportSound, PTL

\* The file that a question asked for is made of its own rows or of newer ones,
\* whatever questions, scenes and restarts come between (session.lastAiResult).
THEOREM FileIsFresh == ASSUME R!BotReportsAssumption PROVE R!Spec => []R!NeverOlder
BY ReportInductive, ReportSound, PTL

\* Rows are read for somebody who held both roles after asking (the first step
\* of handleAiQuery), with roles given and taken meanwhile.
THEOREM RolesAreRead == ASSUME R!BotReportsAssumption PROVE R!Spec => []R!RevokedReadsNothing
BY ReportInductive, ReportSound, PTL

\* The menu of nobody has a button that its handler refuses (buildMainMenu and
\* the checks of the handlers).
THEOREM MenuServes == ASSUME R!BotReportsAssumption PROVE R!Spec => []R!MenuWorks
BY ReportInductive, ReportSound, PTL

\* The roles screen shows the rows of the database once no press is under way,
\* unless presses met or a restart cut one off (handleIctRoleToggle).
THEOREM ScreenShowsRoles == ASSUME R!BotReportsAssumption PROVE R!Spec => []R!ScreenTrue
BY ReportInductive, ReportSound, PTL

=============================================================================
