----------------------------- MODULE Desk_proofs -----------------------------
(* What TLAPS proves about Desk, for all values of its constants: the        *)
(* invariants of the components, carried over to the composition, and those  *)
(* of the deploys.                                                           *)
EXTENDS Desk, TLAPS

\* The proofs about the components, for each of their instances.
LockP == INSTANCE DeskParts_proofs WITH
  Tasks <- LockTasks, Target <- LockTarget, Slots <- LockSlots,
  MaxPresses <- LockPresses, MaxFaults <- LockFaults,
  Users <- {Chief}, Staff <- {Chief}, TzUsers <- {}, Queries <- ReportQueries,
  PressSlots <- ReportSlots, MaxToggles <- ReportToggles
AskP == INSTANCE DeskParts_proofs WITH
  Tasks <- AskTasks, Target <- AskTarget, Slots <- AskSlots, AutoPush <- {},
  MaxPresses <- AskPresses, MaxFaults <- AskFaults,
  Users <- RoleUsers, Staff <- RoleStaff, TzUsers <- RoleTzUsers, Queries <- RoleQueries,
  PressSlots <- RoleSlots, MaxToggles <- RoleToggles

(***************************************************************************)
(* The component that Desk composes and the one that was proved about have *)
(* the same definitions.                                                   *)
(***************************************************************************)
LEMMA SameLocks ==
  /\ Locks!ClaudeTaskAssumption => LockP!ClaudeTaskAssumption
  /\ Locks!Init => LockP!Init
  /\ Locks!Next => LockP!Next
  /\ LockP!TypeOK => Locks!TypeOK
  /\ LockP!OneAtATime => Locks!OneAtATime
  /\ LockP!PushedWasChecked => Locks!PushedWasChecked
BY DEF Locks!vars, Locks!deskVars, Locks!cloneVars, Locks!apprVars, Locks!Clones,
         Locks!NoOne, Locks!Idle, Locks!NoPress, Locks!Working, Locks!Alive, Locks!Statuses,
         Locks!Go, Locks!Fault, Locks!Command, Locks!Passed, Locks!Look, Locks!ClearLock,
         Locks!Spool, Locks!Spawn, Locks!SpawnFails, Locks!PendingExpires,
         Locks!RestartBackend, Locks!TakeLock, Locks!TakeLockFails, Locks!PrepareWorkdir,
         Locks!Edit, Locks!AgentDone, Locks!CheckPasses, Locks!Commit, Locks!Push,
         Locks!Abandon, Locks!ReadLock, Locks!RemoveLock, Locks!Kill, Locks!Ask,
         Locks!SendButtons, Locks!SaveRequest, Locks!Posted, Locks!PollYes, Locks!GiveUp,
         Locks!RecordExpires, Locks!Press, Locks!FirstPress, Locks!Confirm, Locks!Backend,
         Locks!Script, Locks!Approval, Locks!Buttons, Locks!Init, Locks!Next,
         Locks!Cardinality, Locks!ClaudeTaskAssumption, Locks!TypeOK, Locks!OneAtATime,
         Locks!PushedWasChecked, Locks!PushedByTwoPresses, LockP!vars, LockP!deskVars,
         LockP!cloneVars, LockP!apprVars, LockP!Clones, LockP!NoOne, LockP!Idle,
         LockP!NoPress, LockP!Working, LockP!Alive, LockP!Statuses, LockP!Go, LockP!Fault,
         LockP!Command, LockP!Passed, LockP!Look, LockP!ClearLock, LockP!Spool, LockP!Spawn,
         LockP!SpawnFails, LockP!PendingExpires, LockP!RestartBackend, LockP!TakeLock,
         LockP!TakeLockFails, LockP!PrepareWorkdir, LockP!Edit, LockP!AgentDone,
         LockP!CheckPasses, LockP!Commit, LockP!Push, LockP!Abandon, LockP!ReadLock,
         LockP!RemoveLock, LockP!Kill, LockP!Ask, LockP!SendButtons, LockP!SaveRequest,
         LockP!Posted, LockP!PollYes, LockP!GiveUp, LockP!RecordExpires, LockP!Press,
         LockP!FirstPress, LockP!Confirm, LockP!Backend, LockP!Script, LockP!Approval,
         LockP!Buttons, LockP!Init, LockP!Next, LockP!Cardinality,
         LockP!ClaudeTaskAssumption, LockP!TypeOK, LockP!OneAtATime, LockP!PushedWasChecked,
         LockP!PushedByTwoPresses

LEMMA SameAsks ==
  /\ Asks!ClaudeTaskAssumption => AskP!ClaudeTaskAssumption
  /\ Asks!Init => AskP!Init
  /\ Asks!Next => AskP!Next
  /\ AskP!TypeOK => Asks!TypeOK
  /\ AskP!PushedByTwoPresses => Asks!PushedByTwoPresses
BY DEF Asks!vars, Asks!deskVars, Asks!cloneVars, Asks!apprVars, Asks!Clones, Asks!NoOne,
         Asks!Idle, Asks!NoPress, Asks!Working, Asks!Alive, Asks!Statuses, Asks!Go,
         Asks!Fault, Asks!Command, Asks!Passed, Asks!Look, Asks!ClearLock, Asks!Spool,
         Asks!Spawn, Asks!SpawnFails, Asks!PendingExpires, Asks!RestartBackend,
         Asks!TakeLock, Asks!TakeLockFails, Asks!PrepareWorkdir, Asks!Edit, Asks!AgentDone,
         Asks!CheckPasses, Asks!Commit, Asks!Push, Asks!Abandon, Asks!ReadLock,
         Asks!RemoveLock, Asks!Kill, Asks!Ask, Asks!SendButtons, Asks!SaveRequest,
         Asks!Posted, Asks!PollYes, Asks!GiveUp, Asks!RecordExpires, Asks!Press,
         Asks!FirstPress, Asks!Confirm, Asks!Backend, Asks!Script, Asks!Approval,
         Asks!Buttons, Asks!Init, Asks!Next, Asks!Cardinality, Asks!ClaudeTaskAssumption,
         Asks!TypeOK, Asks!OneAtATime, Asks!PushedWasChecked, Asks!PushedByTwoPresses,
         AskP!vars, AskP!deskVars, AskP!cloneVars, AskP!apprVars, AskP!Clones, AskP!NoOne,
         AskP!Idle, AskP!NoPress, AskP!Working, AskP!Alive, AskP!Statuses, AskP!Go,
         AskP!Fault, AskP!Command, AskP!Passed, AskP!Look, AskP!ClearLock, AskP!Spool,
         AskP!Spawn, AskP!SpawnFails, AskP!PendingExpires, AskP!RestartBackend,
         AskP!TakeLock, AskP!TakeLockFails, AskP!PrepareWorkdir, AskP!Edit, AskP!AgentDone,
         AskP!CheckPasses, AskP!Commit, AskP!Push, AskP!Abandon, AskP!ReadLock,
         AskP!RemoveLock, AskP!Kill, AskP!Ask, AskP!SendButtons, AskP!SaveRequest,
         AskP!Posted, AskP!PollYes, AskP!GiveUp, AskP!RecordExpires, AskP!Press,
         AskP!FirstPress, AskP!Confirm, AskP!Backend, AskP!Script, AskP!Approval,
         AskP!Buttons, AskP!Init, AskP!Next, AskP!Cardinality, AskP!ClaudeTaskAssumption,
         AskP!TypeOK, AskP!OneAtATime, AskP!PushedWasChecked, AskP!PushedByTwoPresses

LEMMA SameReports ==
  /\ Reports!BotReportsAssumption => LockP!R!BotReportsAssumption
  /\ Reports!Init => LockP!R!Init
  /\ Reports!Next => LockP!R!Next
  /\ LockP!R!TypeOK => Reports!TypeOK
  /\ LockP!R!NeverOlder => Reports!NeverOlder
  /\ LockP!R!RevokedReadsNothing => Reports!RevokedReadsNothing
BY DEF Reports!vars, Reports!roleVars, Reports!sceneVars, Reports!askVars,
         Reports!fileVars, Reports!NewQuery, Reports!NoToggle, Reports!Access,
         Reports!HasBothRoles, Reports!MainMenu, Reports!ServesAccounts,
         Reports!ServesChief, Reports!Refuses, Reports!ShowMenu, Reports!EnterAi,
         Reports!EnterReports, Reports!PickDatabase, Reports!Message, Reports!CheckRoles,
         Reports!Answer, Reports!ShowAnswer, Reports!ShowFails, Reports!DeliverAsked,
         Reports!PressDeliver, Reports!Restart, Reports!Pressed, Reports!ToggleRead,
         Reports!ToggleWrite, Reports!ToggleShow, Reports!Scenes, Reports!Background,
         Reports!Roles, Reports!Init, Reports!Next, Reports!Cardinality,
         Reports!IsFiniteSet, Reports!BotReportsAssumption, Reports!TypeOK,
         Reports!NeverOlder, Reports!RevokedReadsNothing, Reports!MenuWorks,
         Reports!ScreenTrue, LockP!R!vars, LockP!R!roleVars, LockP!R!sceneVars,
         LockP!R!askVars, LockP!R!fileVars, LockP!R!NewQuery, LockP!R!NoToggle,
         LockP!R!Access, LockP!R!HasBothRoles, LockP!R!MainMenu, LockP!R!ServesAccounts,
         LockP!R!ServesChief, LockP!R!Refuses, LockP!R!ShowMenu, LockP!R!EnterAi,
         LockP!R!EnterReports, LockP!R!PickDatabase, LockP!R!Message, LockP!R!CheckRoles,
         LockP!R!Answer, LockP!R!ShowAnswer, LockP!R!ShowFails, LockP!R!DeliverAsked,
         LockP!R!PressDeliver, LockP!R!Restart, LockP!R!Pressed, LockP!R!ToggleRead,
         LockP!R!ToggleWrite, LockP!R!ToggleShow, LockP!R!Scenes, LockP!R!Background,
         LockP!R!Roles, LockP!R!Init, LockP!R!Next, LockP!R!Cardinality,
         LockP!R!IsFiniteSet, LockP!R!BotReportsAssumption, LockP!R!TypeOK,
         LockP!R!NeverOlder, LockP!R!RevokedReadsNothing, LockP!R!MenuWorks,
         LockP!R!ScreenTrue

LEMMA SameRoles ==
  /\ Roles!BotReportsAssumption => AskP!R!BotReportsAssumption
  /\ Roles!Init => AskP!R!Init
  /\ Roles!Next => AskP!R!Next
  /\ AskP!R!TypeOK => Roles!TypeOK
  /\ AskP!R!RevokedReadsNothing => Roles!RevokedReadsNothing
  /\ AskP!R!MenuWorks => Roles!MenuWorks
  /\ AskP!R!ScreenTrue => Roles!ScreenTrue
BY DEF Roles!vars, Roles!roleVars, Roles!sceneVars, Roles!askVars, Roles!fileVars,
         Roles!NewQuery, Roles!NoToggle, Roles!Access, Roles!HasBothRoles, Roles!MainMenu,
         Roles!ServesAccounts, Roles!ServesChief, Roles!Refuses, Roles!ShowMenu,
         Roles!EnterAi, Roles!EnterReports, Roles!PickDatabase, Roles!Message,
         Roles!CheckRoles, Roles!Answer, Roles!ShowAnswer, Roles!ShowFails,
         Roles!DeliverAsked, Roles!PressDeliver, Roles!Restart, Roles!Pressed,
         Roles!ToggleRead, Roles!ToggleWrite, Roles!ToggleShow, Roles!Scenes,
         Roles!Background, Roles!Roles, Roles!Init, Roles!Next, Roles!Cardinality,
         Roles!IsFiniteSet, Roles!BotReportsAssumption, Roles!TypeOK, Roles!NeverOlder,
         Roles!RevokedReadsNothing, Roles!MenuWorks, Roles!ScreenTrue, AskP!R!vars,
         AskP!R!roleVars, AskP!R!sceneVars, AskP!R!askVars, AskP!R!fileVars, AskP!R!NewQuery,
         AskP!R!NoToggle, AskP!R!Access, AskP!R!HasBothRoles, AskP!R!MainMenu,
         AskP!R!ServesAccounts, AskP!R!ServesChief, AskP!R!Refuses, AskP!R!ShowMenu,
         AskP!R!EnterAi, AskP!R!EnterReports, AskP!R!PickDatabase, AskP!R!Message,
         AskP!R!CheckRoles, AskP!R!Answer, AskP!R!ShowAnswer, AskP!R!ShowFails,
         AskP!R!DeliverAsked, AskP!R!PressDeliver, AskP!R!Restart, AskP!R!Pressed,
         AskP!R!ToggleRead, AskP!R!ToggleWrite, AskP!R!ToggleShow, AskP!R!Scenes,
         AskP!R!Background, AskP!R!Roles, AskP!R!Init, AskP!R!Next, AskP!R!Cardinality,
         AskP!R!IsFiniteSet, AskP!R!BotReportsAssumption, AskP!R!TypeOK, AskP!R!NeverOlder,
         AskP!R!RevokedReadsNothing, AskP!R!MenuWorks, AskP!R!ScreenTrue

-----------------------------------------------------------------------------
(***************************************************************************)
(* Deploys (scripts/deploy.sh).                                            *)
(***************************************************************************)
USE DEF Deploys!At, Deploys!Go, Deploys!Repos

\* A deploy that got the lock and has not ended.
Busy == {"update", "decide", "build", "restart", "mark"}

\* The repositories that deploy d has brought to origin/main, has built, has marked.
Updated(d) ==
  CASE Deploys!At(d, "update", "client") -> {"server"}
    [] run[d][1] \in Busy \ {"update"}   -> Deploys!Repos
    [] OTHER                             -> {}
BuiltBy(d) ==
  CASE Deploys!At(d, "build", "client")   -> {"server"}
    [] run[d][1] \in {"restart", "mark"}  -> Deploys!Repos
    [] OTHER                              -> {}
Marked(d) == IF Deploys!At(d, "mark", "client") THEN {"server"} ELSE {}

\* The lock is held by the deploy that is under way.
Holder == \A d \in Runs : run[d][1] \in Busy <=> flock = d

\* What was deployed last is not newer than what is checked out.
Revisions ==
  \A r \in Deploys!Repos :
    (deployed[r] # None => deployed[r] <= checkout[r]) /\ checkout[r] <= main[r]

\* A state file that names what is checked out is right, but for a forced build
\* that failed.
Current ==
  \A r \in Deploys!Repos : deployed[r] = checkout[r] =>
    /\ built[r] = checkout[r] \/ (built[r] = None /\ r \in torn)
    /\ running[r] = checkout[r] \/ r \in torn

\* The deploy that is under way knows what it looked at: what it calls changed
\* is forced or differs from the state file, and what it has built is new.
Knows(d) ==
  /\ \A r \in Updated(d) : checkout[r] = fresh[d][r]
  /\ \A r \in Updated(d) \ Marked(d) :
       IF r \in changed[d] THEN d \in Forced \/ deployed[r] # checkout[r]
       ELSE deployed[r] = checkout[r]
  /\ \A r \in BuiltBy(d) \cap changed[d] : built[r] = checkout[r]
  /\ run[d][1] = "mark" => \A r \in changed[d] : running[r] = checkout[r]
Looked == \A d \in Runs : run[d][1] \in Busy => Knows(d)

\* Nothing is changed before its repository was looked at.
Unseen == \A d \in Runs : run[d][1] \in {"new", "update"} => changed[d] \subseteq Updated(d)

DeployInv == Deploys!TypeOK /\ Holder /\ Revisions /\ Current /\ Looked /\ Unseen

LEMMA DeployInit == ASSUME Deploys!DeployAssumption, Deploys!Init PROVE DeployInv
<1> USE DEF Deploys!Init, Deploys!DeployAssumption
<1>1. Deploys!TypeOK
  BY DEF Deploys!TypeOK, Deploys!Revs, Deploys!Steps
<1>2. Holder /\ Revisions /\ Current /\ Looked /\ Unseen
  BY DEF Holder, Revisions, Current, Looked, Knows, Unseen, Busy
<1> QED  BY <1>1, <1>2 DEF DeployInv

\* The steps of the command d is at, and of nobody else.
LEMMA DeployTyped ==
  ASSUME Deploys!DeployAssumption, Deploys!TypeOK, Deploys!Next PROVE Deploys!TypeOK'
<1> USE DEF Deploys!DeployAssumption, Deploys!TypeOK, Deploys!Revs, Deploys!Steps
<1>1. ASSUME NEW r \in Deploys!Repos, Deploys!Merge(r) \/ Deploys!Crash(r) PROVE Deploys!TypeOK'
  <2>1. CASE Deploys!Merge(r)
    BY <2>1 DEF Deploys!Merge
  <2>2. CASE Deploys!Crash(r)
    BY <2>2 DEF Deploys!Crash
  <2> QED  BY <1>1, <2>1, <2>2
<1>2. ASSUME NEW d \in Runs, Deploys!Start(d) \/ Deploys!Decide(d) PROVE Deploys!TypeOK'
  <2>1. CASE Deploys!Start(d)
    <3>1. run' \in [Runs -> Deploys!Steps]
      BY <2>1 DEF Deploys!Start
    <3>2. flock' \in Runs \cup {Nobody}
      BY <2>1 DEF Deploys!Start
    <3>3. UNCHANGED <<main, checkout, built, running, deployed, changed, crashes, fresh, torn>>
      BY <2>1 DEF Deploys!Start
    <3> QED  BY <3>1, <3>2, <3>3
  <2>2. CASE Deploys!Decide(d)
    BY <2>2 DEF Deploys!Decide, Deploys!Exit
  <2> QED  BY <1>2, <2>1, <2>2
<1>3. ASSUME NEW d \in Runs, Deploys!Restart(d) PROVE Deploys!TypeOK'
  BY <1>3 DEF Deploys!Restart
<1>4. ASSUME NEW d \in Runs, Deploys!Fail(d) \/ Deploys!Kill(d) PROVE Deploys!TypeOK'
  <2>1. CASE Deploys!Fail(d)
    BY <2>1 DEF Deploys!Fail, Deploys!Exit
  <2>2. CASE Deploys!Kill(d)
    BY <2>2 DEF Deploys!Kill, Deploys!Exit
  <2> QED  BY <1>4, <2>1, <2>2
<1>5. ASSUME NEW d \in Runs, NEW r \in Deploys!Repos, Deploys!UpdateRepo(d, r)
      PROVE  Deploys!TypeOK'
  <2>1. run' \in [Runs -> Deploys!Steps]
    BY <1>5 DEF Deploys!UpdateRepo
  <2>5. changed' \in [Runs -> SUBSET Deploys!Repos]
    BY <1>5 DEF Deploys!UpdateRepo
  <2>2. checkout' \in [Deploys!Repos -> Deploys!Revs]
    BY <1>5 DEF Deploys!UpdateRepo
  <2>3. fresh' \in [Runs -> [Deploys!Repos -> Deploys!Revs]]
    BY <1>5 DEF Deploys!UpdateRepo
  <2>4. UNCHANGED <<main, built, running, deployed, flock, crashes, torn>>
    BY <1>5 DEF Deploys!UpdateRepo
  <2> QED  BY <2>1, <2>2, <2>3, <2>4, <2>5
<1>6. ASSUME NEW d \in Runs, NEW r \in Deploys!Repos, Deploys!BuildRepo(d, r)
      PROVE  Deploys!TypeOK'
  <2>1. run' \in [Runs -> Deploys!Steps]
    BY <1>6 DEF Deploys!BuildRepo, Deploys!AfterBuild, Deploys!Exit
  <2>2. flock' \in Runs \cup {Nobody}
    BY <1>6 DEF Deploys!BuildRepo, Deploys!Exit
  <2>3. /\ built' \in {built, [built EXCEPT ![r] = checkout[r]], [built EXCEPT ![r] = None]}
        /\ torn' \in {torn, torn \cup {r}}
    BY <1>6 DEF Deploys!BuildRepo
  <2>5. checkout[r] \in Deploys!Revs
    OBVIOUS
  <2>6. built' \in [Deploys!Repos -> Deploys!Revs \cup {None}]
    BY <2>3, <2>5
  <2>7. torn' \subseteq Deploys!Repos
    BY <2>3
  <2>4. UNCHANGED <<main, checkout, running, deployed, changed, crashes, fresh>>
    BY <1>6 DEF Deploys!BuildRepo
  <2> QED  BY <2>1, <2>2, <2>4, <2>6, <2>7
<1>7. ASSUME NEW d \in Runs, NEW r \in Deploys!Repos, Deploys!MarkDeployed(d, r)
      PROVE  Deploys!TypeOK'
  BY <1>7 DEF Deploys!MarkDeployed, Deploys!Exit
<1> QED  BY <1>1, <1>2, <1>3, <1>4, <1>5, <1>6, <1>7 DEF Deploys!Next

\* A deploy that ends gives the lock back and leaves the rest as it is.
LEMMA DeployEnds ==
  ASSUME Deploys!DeployAssumption, DeployInv, Deploys!TypeOK', NEW d \in Runs,
         NEW how \in {"same", "done", "failed"}, run[d][1] \in Busy \/ flock = d,
         Deploys!Exit(d, how), UNCHANGED <<main, changed, fresh>>,
         Revisions', Current', \A e \in Runs : e # d => run[e][1] \notin Busy
  PROVE  DeployInv'
<1>1. /\ flock' = Nobody /\ run'[d] = <<how, "all">>
      /\ \A e \in Runs \ {d} : run'[e] = run[e]
  BY DEF Deploys!Exit, DeployInv, Deploys!TypeOK
<1>2. \A e \in Runs : run'[e][1] \notin Busy
  BY <1>1 DEF Busy
<1>3. Holder'
  BY <1>1, <1>2 DEF Holder, Deploys!DeployAssumption
<1>4. Looked'
  BY <1>2 DEF Looked, Knows
<1>5. Unseen'
  BY <1>1 DEF DeployInv, Unseen, Updated, Busy
<1> QED  BY <1>3, <1>4, <1>5 DEF DeployInv
\* Who is at a command is the only one under way.
LEMMA OneDeploy ==
  ASSUME Deploys!DeployAssumption, DeployInv, NEW d \in Runs, run[d][1] \in Busy
  PROVE  flock = d /\ \A e \in Runs : e # d => run[e][1] \notin Busy
BY DEF DeployInv, Holder

\* A deploy goes on to its next command and leaves the lock alone.
LEMMA DeployGoes ==
  ASSUME Deploys!DeployAssumption, DeployInv, Deploys!TypeOK', NEW d \in Runs,
         run[d][1] \in Busy, run'[d][1] \in Busy, \A e \in Runs : e # d => run'[e] = run[e],
         UNCHANGED flock, \A e \in Runs : e # d => changed'[e] = changed[e],
         Revisions', Current', Knows(d)',
         run'[d][1] = "update" => changed'[d] \subseteq Updated(d)'
  PROVE  DeployInv'
<1>1. \A e \in Runs \ {d} : run'[e] = run[e]
  OBVIOUS
<1>2. flock = d /\ \A e \in Runs \ {d} : run[e][1] \notin Busy
  BY OneDeploy
<1>3. Holder'
  BY <1>1, <1>2 DEF Holder
<1>4. Looked'
  BY <1>1, <1>2 DEF Looked, Knows
<1>5. Unseen'
  <2>1. \A e \in Runs \ {d} : Updated(e)' = Updated(e)
    BY <1>1 DEF Updated
  <2> QED  BY <1>1, <2>1 DEF DeployInv, Unseen, Busy
<1> QED  BY <1>3, <1>4, <1>5 DEF DeployInv

LEMMA UpdateKeeps ==
  ASSUME Deploys!DeployAssumption, DeployInv, Deploys!TypeOK', NEW d \in Runs,
         NEW r \in Deploys!Repos, Deploys!UpdateRepo(d, r)
  PROVE  DeployInv'
<1> USE DEF DeployInv
<1>1. /\ run[d] = <<"update", r>>
      /\ checkout' = [checkout EXCEPT ![r] = main[r]]
      /\ fresh' = [fresh EXCEPT ![d][r] = main[r]]
      /\ changed' = IF main[r] = deployed[r] /\ d \notin Forced THEN changed
                    ELSE [changed EXCEPT ![d] = @ \cup {r}]
      /\ IF r = "server" THEN Deploys!Go(d, "update", "client") ELSE Deploys!Go(d, "decide", "all")
      /\ UNCHANGED <<main, built, running, deployed, flock, crashes, torn>>
  BY DEF Deploys!UpdateRepo
<1>2. run[d][1] \in Busy
  BY <1>1 DEF Busy
<1>3. /\ deployed[r] # None => deployed[r] <= checkout[r] /\ deployed[r] \in Nat
      /\ checkout[r] <= main[r] /\ checkout[r] \in Nat /\ main[r] \in Nat
      /\ deployed[r] = main[r] => checkout[r] = main[r]
  <2>1. /\ deployed[r] \in 0..MaxRev \cup {None} /\ checkout[r] \in 0..MaxRev
        /\ main[r] \in 0..MaxRev /\ MaxRev \in Nat /\ None \notin Nat
    BY DEF Deploys!TypeOK, Deploys!Revs, Deploys!DeployAssumption
  <2>2. (deployed[r] # None => deployed[r] <= checkout[r]) /\ checkout[r] <= main[r]
    BY DEF Revisions
  <2> HIDE DEF DeployInv
  <2> QED  BY <2>1, <2>2
<1>4. \A q \in Deploys!Repos : checkout'[q] = IF q = r THEN main[r] ELSE checkout[q]
  BY <1>1 DEF Deploys!TypeOK
<1>5. Revisions'
  BY <1>1, <1>3, <1>4 DEF Revisions
<1>6. Current'
  BY <1>1, <1>3, <1>4 DEF Current
<1>7. /\ \A q \in Deploys!Repos : fresh'[d][q] = IF q = r THEN main[r] ELSE fresh[d][q]
      /\ \A e \in Runs : e # d => changed'[e] = changed[e]
      /\ changed'[d] = IF main[r] = deployed[r] /\ d \notin Forced THEN changed[d]
                       ELSE changed[d] \cup {r}
  BY <1>1 DEF Deploys!TypeOK
<1>8. changed[d] \subseteq Updated(d)
  BY <1>1 DEF Unseen
<1>9. CASE r = "server"
  <2>1. Updated(d) = {} /\ run'[d] = <<"update", "client">> /\ Deploys!Go(d, "update", "client")
    BY <1>1, <1>9 DEF Updated, Busy, Deploys!TypeOK
  <2>2. Updated(d)' = {"server"} /\ Marked(d)' = {} /\ BuiltBy(d)' = {}
    BY <2>1 DEF Updated, Marked, BuiltBy
  <2>3. Knows(d)'
    BY <1>1, <1>4, <1>7, <1>8, <1>9, <2>1, <2>2 DEF Knows
  <2> QED  BY <1>1, <1>2, <1>5, <1>6, <1>7, <1>8, <1>9, <2>1, <2>2, <2>3, DeployGoes DEF Busy
<1>10. CASE r = "client"
  <2>1. Updated(d) = {"server"} /\ run'[d] = <<"decide", "all">> /\ Deploys!Go(d, "decide", "all")
        /\ Marked(d) = {}
    BY <1>1, <1>10 DEF Updated, Busy, Marked, Deploys!TypeOK
  <2>2. Updated(d)' = Deploys!Repos /\ Marked(d)' = {} /\ BuiltBy(d)' = {}
    BY <2>1 DEF Updated, Marked, BuiltBy, Busy
  <2>3. /\ checkout["server"] = fresh[d]["server"]
        /\ IF "server" \in changed[d] THEN d \in Forced \/ deployed["server"] # checkout["server"]
           ELSE deployed["server"] = checkout["server"]
    BY <1>2, <2>1 DEF Looked, Knows
  <2>4. Knows(d)'
    BY <1>1, <1>4, <1>7, <1>8, <1>10, <2>1, <2>2, <2>3 DEF Knows
  <2> QED  BY <1>1, <1>2, <1>5, <1>6, <1>7, <1>10, <2>1, <2>4, DeployGoes DEF Busy
<1> QED  BY <1>9, <1>10

LEMMA DecideKeeps ==
  ASSUME Deploys!DeployAssumption, DeployInv, Deploys!TypeOK', NEW d \in Runs, Deploys!Decide(d)
  PROVE  DeployInv'
<1>1. /\ run[d] = <<"decide", "all">>
      /\ UNCHANGED <<main, checkout, built, running, deployed, changed, crashes, fresh, torn>>
      /\ Deploys!Exit(d, "same") \/ (Deploys!Go(d, "build", "server") /\ UNCHANGED flock)
  BY DEF Deploys!Decide
<1>2. Revisions' /\ Current' /\ run[d][1] \in Busy
  BY <1>1 DEF DeployInv, Revisions, Current, Busy
<1>3. CASE Deploys!Exit(d, "same")
  BY <1>1, <1>2, <1>3, OneDeploy, DeployEnds
<1>4. CASE Deploys!Go(d, "build", "server") /\ UNCHANGED flock
  <2>1. run'[d] = <<"build", "server">>
    BY <1>4 DEF DeployInv, Deploys!TypeOK
  <2>2. Updated(d)' = Deploys!Repos /\ Marked(d)' = {} /\ BuiltBy(d)' = {}
        /\ Updated(d) = Deploys!Repos /\ Marked(d) = {}
    BY <1>1, <2>1 DEF Updated, Marked, BuiltBy, Busy
  <2>3. /\ \A r \in Updated(d) : checkout[r] = fresh[d][r]
        /\ \A r \in Updated(d) \ Marked(d) :
             IF r \in changed[d] THEN d \in Forced \/ deployed[r] # checkout[r]
             ELSE deployed[r] = checkout[r]
    BY <1>2 DEF DeployInv, Looked, Knows
  <2>4. Knows(d)'
    BY <1>1, <2>1, <2>2, <2>3 DEF Knows
  <2> QED  BY <1>1, <1>2, <1>4, <2>1, <2>4, DeployGoes DEF Busy
<1> QED  BY <1>1, <1>3, <1>4

LEMMA BuildKeeps ==
  ASSUME Deploys!DeployAssumption, DeployInv, Deploys!TypeOK', NEW d \in Runs,
         NEW r \in Deploys!Repos, Deploys!BuildRepo(d, r)
  PROVE  DeployInv'
<1> USE DEF DeployInv
<1>1. /\ run[d] = <<"build", r>>
      /\ UNCHANGED <<main, checkout, running, deployed, changed, crashes, fresh>>
  BY DEF Deploys!BuildRepo
<1>2. run[d][1] \in Busy /\ Updated(d) = Deploys!Repos /\ Marked(d) = {} /\ Revisions'
  BY <1>1 DEF Busy, Updated, Marked, Revisions
<1>3. /\ \A q \in Updated(d) : checkout[q] = fresh[d][q]
      /\ \A q \in Deploys!Repos :
           IF q \in changed[d] THEN d \in Forced \/ deployed[q] # checkout[q]
           ELSE deployed[q] = checkout[q]
      /\ \A q \in BuiltBy(d) \cap changed[d] : built[q] = checkout[q]
  BY <1>2 DEF Looked, Knows
<1>4. CASE /\ Deploys!AfterBuild(d, r) /\ UNCHANGED <<flock, torn>>
           /\ \/ r \in changed[d] /\ built' = [built EXCEPT ![r] = checkout[r]]
              \/ r \notin changed[d] /\ UNCHANGED built
  <2>1. (\A q \in Deploys!Repos : (built'[q] = built[q]) \/ (q = r /\ built'[q] = checkout[q]))
        /\ (r \in changed[d] => built'[r] = checkout[r])
    BY <1>4 DEF Deploys!TypeOK
  <2>2. Current'
    BY <1>1, <1>4, <2>1 DEF Current
  <2>3. CASE r = "server"
    <3>1. Deploys!Go(d, "build", "client") /\ run'[d] = <<"build", "client">>
      BY <1>4, <2>3 DEF Deploys!AfterBuild, Deploys!TypeOK
    <3>2. Updated(d)' = Deploys!Repos /\ Marked(d)' = {} /\ BuiltBy(d)' = {"server"}
      BY <3>1 DEF Updated, Marked, BuiltBy, Busy
    <3>4. Knows(d)'
      BY <1>1, <1>2, <1>3, <1>4, <2>1, <2>3, <3>1, <3>2 DEF Knows
    <3> QED  BY <1>1, <1>2, <1>4, <2>2, <3>1, <3>4, DeployGoes DEF Busy
  <2>4. CASE r = "client"
    <3>1. Deploys!Go(d, "restart", "all") /\ run'[d] = <<"restart", "all">>
      BY <1>4, <2>4 DEF Deploys!AfterBuild, Deploys!TypeOK
    <3>2. Updated(d)' = Deploys!Repos /\ Marked(d)' = {} /\ BuiltBy(d)' = Deploys!Repos
      BY <3>1 DEF Updated, Marked, BuiltBy, Busy
    <3>3. BuiltBy(d) = {"server"}
      BY <1>1, <2>4 DEF BuiltBy
    <3>4. Knows(d)'
      BY <1>1, <1>2, <1>3, <1>4, <2>1, <2>4, <3>1, <3>2, <3>3 DEF Knows
    <3> QED  BY <1>1, <1>2, <1>4, <2>2, <3>1, <3>4, DeployGoes DEF Busy
  <2> QED  BY <2>3, <2>4
<1>5. CASE /\ r \in changed[d] /\ built' = [built EXCEPT ![r] = None]
           /\ Deploys!Exit(d, "failed")
           /\ torn' = IF d \in Forced THEN torn \cup {r} ELSE torn
  <2>1. \A q \in Deploys!Repos : built'[q] = IF q = r THEN None ELSE built[q]
    BY <1>5 DEF Deploys!TypeOK
  <2>2. deployed[r] = checkout[r] => r \in torn'
    BY <1>3, <1>5
  <2>3. Current'
    BY <1>1, <1>5, <2>1, <2>2 DEF Current
  <2> QED  BY <1>1, <1>2, <1>5, <2>3, OneDeploy, DeployEnds
<1> QED  BY <1>4, <1>5 DEF Deploys!BuildRepo

LEMMA RestartKeeps ==
  ASSUME Deploys!DeployAssumption, DeployInv, Deploys!TypeOK', NEW d \in Runs, Deploys!Restart(d)
  PROVE  DeployInv' /\ \A r \in Deploys!Repos \ torn' : running'[r] = checkout[r]
<1> USE DEF DeployInv
<1>1. /\ run[d] = <<"restart", "all">> /\ running' = built
      /\ Deploys!Go(d, "mark", "server") /\ torn' = {r \in torn : built[r] = None}
      /\ UNCHANGED <<main, checkout, built, deployed, changed, flock, crashes, fresh>>
  BY DEF Deploys!Restart
<1>2. run[d][1] \in Busy /\ Updated(d) = Deploys!Repos /\ Marked(d) = {} /\ Revisions'
      /\ BuiltBy(d) = Deploys!Repos
  BY <1>1 DEF Busy, Updated, Marked, BuiltBy, Revisions
<1>3. /\ \A q \in Updated(d) : checkout[q] = fresh[d][q]
      /\ \A q \in Deploys!Repos :
           IF q \in changed[d] THEN d \in Forced \/ deployed[q] # checkout[q]
           ELSE deployed[q] = checkout[q]
      /\ \A q \in changed[d] \cap Deploys!Repos : built[q] = checkout[q]
  BY <1>2 DEF Looked, Knows
<1>4. Current'
  BY <1>1 DEF Current
<1>5. run'[d] = <<"mark", "server">>
  BY <1>1 DEF Deploys!TypeOK
<1>6. Updated(d)' = Deploys!Repos /\ Marked(d)' = {} /\ BuiltBy(d)' = Deploys!Repos
  BY <1>5 DEF Updated, Marked, BuiltBy, Busy
<1>7. changed[d] \subseteq Deploys!Repos
  BY DEF Deploys!TypeOK
<1>8. DeployInv'
  <2>1. Knows(d)'
    BY <1>1, <1>2, <1>3, <1>5, <1>6, <1>7 DEF Knows
  <2> QED  BY <1>1, <1>2, <1>4, <2>1, DeployGoes DEF Busy
<1>9. \A r \in Deploys!Repos \ torn' : built[r] = checkout[r]
  BY <1>1, <1>3 DEF Current
<1> QED  BY <1>1, <1>8, <1>9

LEMMA MarkKeeps ==
  ASSUME Deploys!DeployAssumption, DeployInv, Deploys!TypeOK', NEW d \in Runs,
         NEW r \in Deploys!Repos, Deploys!MarkDeployed(d, r)
  PROVE  DeployInv'
<1> USE DEF DeployInv
<1>1. /\ run[d] = <<"mark", r>>
      /\ deployed' = IF r \in changed[d] THEN [deployed EXCEPT ![r] = checkout[r]] ELSE deployed
      /\ IF r = "server" THEN Deploys!Go(d, "mark", "client") /\ UNCHANGED flock
         ELSE Deploys!Exit(d, "done")
      /\ UNCHANGED <<main, checkout, built, running, changed, crashes, fresh, torn>>
  BY DEF Deploys!MarkDeployed
<1>2. run[d][1] \in Busy /\ Updated(d) = Deploys!Repos /\ BuiltBy(d) = Deploys!Repos
      /\ changed[d] \subseteq Deploys!Repos
  BY <1>1 DEF Busy, Updated, BuiltBy, Deploys!TypeOK
<1>3. /\ \A q \in Updated(d) : checkout[q] = fresh[d][q]
      /\ \A q \in Deploys!Repos \ Marked(d) :
           IF q \in changed[d] THEN d \in Forced \/ deployed[q] # checkout[q]
           ELSE deployed[q] = checkout[q]
      /\ \A q \in changed[d] : built[q] = checkout[q] /\ running[q] = checkout[q]
  BY <1>1, <1>2 DEF Looked, Knows
<1>4. \A q \in Deploys!Repos :
        deployed'[q] = IF q = r /\ r \in changed[d] THEN checkout[q] ELSE deployed[q]
  BY <1>1 DEF Deploys!TypeOK
<1>5. Current'
  BY <1>1, <1>3, <1>4 DEF Current
<1>6. Revisions'
  BY <1>1, <1>4 DEF Revisions, Deploys!TypeOK, Deploys!Revs
<1>7. CASE r = "server"
  <2>1. Deploys!Go(d, "mark", "client") /\ UNCHANGED flock /\ run'[d] = <<"mark", "client">>
    BY <1>1, <1>7 DEF Deploys!TypeOK
  <2>2. Updated(d)' = Deploys!Repos /\ Marked(d)' = {"server"} /\ BuiltBy(d)' = Deploys!Repos
        /\ Marked(d) = {}
    BY <1>1, <1>7, <2>1 DEF Updated, Marked, BuiltBy, Busy
  <2>3. Knows(d)'
    BY <1>1, <1>2, <1>3, <1>4, <1>7, <2>1, <2>2 DEF Knows
  <2> QED  BY <1>1, <1>2, <1>5, <1>6, <2>1, <2>3, DeployGoes DEF Busy
<1>8. CASE r = "client"
  BY <1>1, <1>2, <1>5, <1>6, <1>8, OneDeploy, DeployEnds
<1> QED  BY <1>7, <1>8

LEMMA DeployNext ==
  ASSUME Deploys!DeployAssumption, DeployInv, Deploys!Next PROVE DeployInv'
<1>0. Deploys!TypeOK'
  BY DeployTyped DEF DeployInv
<1> USE DEF DeployInv
<1>1. ASSUME NEW r \in Deploys!Repos, Deploys!Merge(r) PROVE DeployInv'
  <2>1. /\ UNCHANGED <<checkout, built, running, deployed, run, changed, flock, fresh, torn>>
        /\ \A q \in Deploys!Repos : main[q] <= main'[q]
    BY <1>1 DEF Deploys!Merge, Deploys!TypeOK, Deploys!Revs
  <2>2. Revisions'
    BY <1>0, <2>1 DEF Revisions, Deploys!TypeOK, Deploys!Revs
  <2> QED  BY <1>0, <2>1, <2>2 DEF Holder, Current, Looked, Knows, Unseen, Updated, BuiltBy, Marked
<1>2. ASSUME NEW r \in Deploys!Repos, Deploys!Crash(r) PROVE DeployInv'
  <2>1. /\ UNCHANGED <<main, checkout, built, deployed, run, changed, flock, fresh, torn>>
        /\ \A q \in Deploys!Repos : running'[q] = IF q = r THEN built[q] ELSE running[q]
    BY <1>2 DEF Deploys!Crash, Deploys!TypeOK
  <2>2. Current'
    BY <2>1 DEF Current
  <2>3. Looked'
    <3>1. \A d \in Runs : run[d][1] = "mark" =>
            \A q \in changed[d] : q \in Deploys!Repos /\ built[q] = checkout[q]
      BY DEF Looked, Knows, Busy, BuiltBy, Deploys!TypeOK
    <3> QED  BY <2>1, <3>1 DEF Looked, Knows, Updated, BuiltBy, Marked
  <2> QED  BY <1>0, <2>1, <2>2, <2>3 DEF Holder, Revisions, Unseen, Updated
<1>3. ASSUME NEW d \in Runs, Deploys!Start(d) PROVE DeployInv'
  <2>1. /\ run[d] = <<"new", "all">>
        /\ UNCHANGED <<main, checkout, built, running, deployed, changed, crashes, fresh, torn>>
    BY <1>3 DEF Deploys!Start
  <2>2. Revisions' /\ Current' /\ run[d][1] \notin Busy /\ changed[d] = {}
    BY <2>1 DEF Revisions, Current, Busy, Unseen, Updated
  <2>3. \A e \in Runs \ {d} : run'[e] = run[e]
    BY <1>3 DEF Deploys!Start, Deploys!TypeOK
  <2>4. CASE flock = Nobody /\ flock' = d /\ Deploys!Go(d, "update", "server")
    <3>1. run'[d] = <<"update", "server">> /\ \A e \in Runs : run[e][1] \notin Busy
      BY <2>4 DEF Deploys!TypeOK, Holder, Deploys!DeployAssumption
    <3>2. Updated(d)' = {} /\ Marked(d)' = {} /\ BuiltBy(d)' = {}
      BY <3>1 DEF Updated, Marked, BuiltBy, Busy
    <3>3. Holder' /\ Looked'
      BY <2>3, <2>4, <3>1, <3>2 DEF Holder, Looked, Knows, Busy
    <3>4. Unseen'
      BY <2>1, <2>2, <2>3, <3>1, <3>2 DEF Unseen, Updated
    <3> QED  BY <1>0, <2>2, <3>3, <3>4
  <2>5. CASE Deploys!Go(d, "failed", "all") /\ UNCHANGED flock
    <3>1. run'[d] = <<"failed", "all">>
      BY <2>5 DEF Deploys!TypeOK
    <3>2. \A e \in Runs : run'[e][1] \in Busy <=> run[e][1] \in Busy
      BY <2>2, <2>3, <3>1 DEF Busy
    <3>3. Holder' /\ Looked'
      BY <2>1, <2>2, <2>3, <2>5, <3>1, <3>2 DEF Holder, Looked, Knows, Updated, Marked, BuiltBy
    <3>4. Unseen'
      BY <2>1, <2>3, <3>1 DEF Unseen, Updated
    <3> QED  BY <1>0, <2>2, <3>3, <3>4
  <2> QED  BY <1>3, <2>4, <2>5 DEF Deploys!Start
<1>4. ASSUME NEW d \in Runs, Deploys!Fail(d) \/ Deploys!Kill(d) PROVE DeployInv'
  <2>1. /\ Deploys!Exit(d, "failed") /\ run[d][1] \in Busy
        /\ UNCHANGED <<main, checkout, built, running, deployed, changed, fresh, torn>>
    BY <1>4 DEF Deploys!Fail, Deploys!Kill, Holder, Busy
  <2>2. Revisions' /\ Current'
    BY <2>1 DEF Revisions, Current
  <2> QED  BY <1>0, <2>1, <2>2, OneDeploy, DeployEnds
<1> QED  BY <1>0, <1>1, <1>2, <1>3, <1>4, DecideKeeps, RestartKeeps, UpdateKeeps, BuildKeeps, MarkKeeps
            DEF Deploys!Next

\* "Nothing to do" is said of what runs (NothingToDo), a restart starts what was
\* built (RestartsWhole): the steps that decide and that restart.
LEMMA SaysTrue ==
  ASSUME Deploys!DeployAssumption, DeployInv, Deploys!Next, NEW d \in Runs,
         run[d] = <<"decide", "all">>, run'[d][1] = "same", NEW r \in Deploys!Repos \ torn
  PROVE  running[r] = fresh[d][r] /\ built[r] = fresh[d][r]
<1>1. Updated(d) = Deploys!Repos /\ Marked(d) = {} /\ run[d][1] \in Busy
  BY DEF Updated, Marked, Busy
<1>2. changed[d] = {}
  <2>1. \A e \in Runs \ {d} : run[e][1] \notin Busy
    BY <1>1, OneDeploy
  <2>2. Deploys!Decide(d) => changed[d] = {}
    BY DEF Deploys!Decide, DeployInv, Deploys!TypeOK
  <2>3. ASSUME NEW e \in Runs, e # d, Deploys!Start(e) \/ Deploys!Decide(e) \/ Deploys!Restart(e)
                                      \/ Deploys!Fail(e) \/ Deploys!Kill(e)
        PROVE  run'[d] = run[d]
    BY <2>3 DEF Deploys!Start, Deploys!Decide, Deploys!Restart, Deploys!Fail, Deploys!Kill,
                Deploys!Exit, DeployInv, Deploys!TypeOK
  <2>4. ASSUME NEW e \in Runs, NEW q \in Deploys!Repos,
               Deploys!UpdateRepo(e, q) \/ Deploys!BuildRepo(e, q) \/ Deploys!MarkDeployed(e, q)
        PROVE  e # d /\ run'[d] = run[d]
    BY <2>4 DEF Deploys!UpdateRepo, Deploys!BuildRepo, Deploys!MarkDeployed, Deploys!AfterBuild,
                Deploys!Exit, DeployInv, Deploys!TypeOK
  <2>5. ASSUME Deploys!Start(d) \/ Deploys!Restart(d) PROVE FALSE
    BY <2>5 DEF Deploys!Start, Deploys!Restart
  <2>6. ASSUME Deploys!Fail(d) \/ Deploys!Kill(d) PROVE run'[d][1] = "failed"
    BY <2>6 DEF Deploys!Fail, Deploys!Kill, Deploys!Exit, DeployInv, Deploys!TypeOK
  <2>7. ASSUME NEW q \in Deploys!Repos, Deploys!Merge(q) \/ Deploys!Crash(q) PROVE run'[d] = run[d]
    BY <2>7 DEF Deploys!Merge, Deploys!Crash
  <2> QED  BY <2>2, <2>3, <2>4, <2>5, <2>6, <2>7 DEF Deploys!Next
<1>3. checkout[r] = fresh[d][r] /\ deployed[r] = checkout[r]
  BY <1>1, <1>2 DEF DeployInv, Looked, Knows
<1> QED  BY <1>3 DEF DeployInv, Current

LEMMA StartsWhole ==
  ASSUME Deploys!DeployAssumption, DeployInv, Deploys!Next, NEW d \in Runs,
         run[d] = <<"restart", "all">>, run'[d][1] = "mark", NEW r \in Deploys!Repos \ torn'
  PROVE  running'[r] = checkout[r]
<1>1. Deploys!Restart(d)
  <2>3. ASSUME NEW e \in Runs, e # d, Deploys!Start(e) \/ Deploys!Decide(e) \/ Deploys!Restart(e)
                                      \/ Deploys!Fail(e) \/ Deploys!Kill(e)
        PROVE  run'[d] = run[d]
    BY <2>3 DEF Deploys!Start, Deploys!Decide, Deploys!Restart, Deploys!Fail, Deploys!Kill,
                Deploys!Exit, DeployInv, Deploys!TypeOK
  <2>4. ASSUME NEW e \in Runs, NEW q \in Deploys!Repos,
               Deploys!UpdateRepo(e, q) \/ Deploys!BuildRepo(e, q) \/ Deploys!MarkDeployed(e, q)
        PROVE  run'[d] = run[d]
    BY <2>4 DEF Deploys!UpdateRepo, Deploys!BuildRepo, Deploys!MarkDeployed, Deploys!AfterBuild,
                Deploys!Exit, DeployInv, Deploys!TypeOK
  <2>5. ASSUME Deploys!Start(d) \/ Deploys!Decide(d) PROVE FALSE
    BY <2>5 DEF Deploys!Start, Deploys!Decide
  <2>6. ASSUME Deploys!Fail(d) \/ Deploys!Kill(d) PROVE run'[d][1] = "failed"
    BY <2>6 DEF Deploys!Fail, Deploys!Kill, Deploys!Exit, DeployInv, Deploys!TypeOK
  <2>7. ASSUME NEW q \in Deploys!Repos, Deploys!Merge(q) \/ Deploys!Crash(q) PROVE run'[d] = run[d]
    BY <2>7 DEF Deploys!Merge, Deploys!Crash
  <2> QED  BY <2>3, <2>4, <2>5, <2>6, <2>7 DEF Deploys!Next
<1> QED  BY <1>1, RestartKeeps, DeployTyped DEF DeployInv

(***************************************************************************)
(* The start of the bot and a broadcast.                                   *)
(***************************************************************************)
\* Every recipient so far had its message or is counted as failed.
LaunchInv == Launches!TypeOK /\ cast.success + cast.failed = cast.i

LEMMA LaunchInit == ASSUME Launches!BotLaunchAssumption, Launches!Init PROVE LaunchInv
BY DEF Launches!BotLaunchAssumption, Launches!Init, LaunchInv, Launches!TypeOK

LEMMA LaunchNext ==
  ASSUME Launches!BotLaunchAssumption, LaunchInv, Launches!Next PROVE LaunchInv'
<1> USE DEF Launches!BotLaunchAssumption, LaunchInv, Launches!TypeOK
<1>1. CASE Launches!Launch \/ Launches!LaunchFails \/ Launches!Conflict \/ Launches!Retry
           \/ \E ok \in BOOLEAN : Launches!SetWebhook(ok)
  <2>1. UNCHANGED cast
    BY <1>1 DEF Launches!Launch, Launches!LaunchFails, Launches!Conflict, Launches!Retry,
                Launches!SetWebhook
  <2>2. bot' \in {"launching", "polling", "waiting"} /\ setup' \in {"pending", "done"}
        /\ outages' \in 0..MaxOutages
    BY <1>1 DEF Launches!Launch, Launches!LaunchFails, Launches!Conflict, Launches!Retry,
                Launches!SetWebhook, Launches!Outage
  <2>3. webhook' \in BOOLEAN
    BY <1>1 DEF Launches!Launch, Launches!LaunchFails, Launches!Conflict, Launches!Retry,
                Launches!SetWebhook
  <2> QED  BY <2>1, <2>2, <2>3
<1>2. CASE Launches!Paused \/ Launches!Reported
  BY <1>2 DEF Launches!Paused, Launches!Reported, Launches!startVars
<1>3. ASSUME NEW ok \in BOOLEAN, Launches!Send(ok) PROVE LaunchInv'
  <2> DEFINE s == IF ok THEN cast.success + 1 ELSE cast.success
  <2>1. cast.i < Subscribers /\ UNCHANGED <<bot, setup, webhook, outages>>
        /\ cast' = [cast EXCEPT !.i = @ + 1, !.success = s, !.pause = (s % Pace = 0),
                                !.failed = IF ok THEN @ ELSE @ + 1]
    BY <1>3 DEF Launches!Send, Launches!startVars
  <2>2. s \in 0..Subscribers /\ cast.i + 1 \in 0..Subscribers /\ cast.failed + 1 \in 0..Subscribers
    <3>1. /\ cast.i \in 0..Subscribers /\ cast.success \in 0..Subscribers
          /\ cast.failed \in 0..Subscribers /\ cast.success + cast.failed = cast.i
          /\ Subscribers \in Nat /\ cast.i < Subscribers
      BY <2>1
    <3> HIDE DEF LaunchInv
    <3> QED  BY <3>1
  <2>3. cast' \in [i : 0..Subscribers, success : 0..Subscribers, failed : 0..Subscribers,
                   pause : BOOLEAN, done : BOOLEAN]
    BY <2>1, <2>2
  <2>4. cast'.success + cast'.failed = cast'.i
    BY <2>1, <2>2
  <2> QED  BY <2>1, <2>3, <2>4
<1> QED  BY <1>1, <1>2, <1>3 DEF Launches!Next

-----------------------------------------------------------------------------
(***************************************************************************)
(* The composition.                                                        *)
(***************************************************************************)
Foci == {"locks", "asks", "deploys", "reports", "roles", "launches"}
DeskInv ==
  /\ focus \in Foci
  /\ IF focus = "locks" THEN LockP!TaskInv ELSE AskP!TaskInv
  /\ IF focus = "roles" THEN AskP!ReportInv ELSE LockP!ReportInv
  /\ DeployInv /\ LaunchInv

\* What was proved of the components, in the words of the composition.
LEMMA Assumptions ==
  /\ LockP!ClaudeTaskAssumption /\ AskP!ClaudeTaskAssumption
  /\ LockP!R!BotReportsAssumption /\ AskP!R!BotReportsAssumption
  /\ Deploys!DeployAssumption /\ Launches!BotLaunchAssumption
BY ComponentsAssumption, SameLocks, SameAsks, SameReports, SameRoles

LEMMA DeskInit == ASSUME Init PROVE DeskInv
<1>1. IF focus = "locks" THEN LockP!TaskInv ELSE AskP!TaskInv
  BY Assumptions, SameLocks, SameAsks, LockP!TaskInit, AskP!TaskInit DEF Init
<1>2. IF focus = "roles" THEN AskP!ReportInv ELSE LockP!ReportInv
  BY Assumptions, SameRoles, SameReports, AskP!ReportInit, LockP!ReportInit DEF Init
<1> QED  BY <1>1, <1>2, Assumptions, DeployInit, LaunchInit DEF Init, DeskInv, Foci

LEMMA DeskNext == ASSUME DeskInv, [Next]_vars PROVE DeskInv'
<1> USE DEF DeskInv
<1>0. UNCHANGED focus
  BY DEF Next, vars
<1>1. ASSUME UNCHANGED taskVars
      PROVE  IF focus = "locks" THEN LockP!TaskInv' ELSE AskP!TaskInv'
  <2>1. UNCHANGED LockP!vars /\ UNCHANGED AskP!vars
    BY <1>1 DEF taskVars, LockP!vars, LockP!deskVars, LockP!cloneVars, LockP!apprVars,
                AskP!vars, AskP!deskVars, AskP!cloneVars, AskP!apprVars
  <2> QED  BY <2>1, Assumptions, LockP!TaskNext, AskP!TaskNext
<1>2. ASSUME UNCHANGED reportVars
      PROVE  IF focus = "roles" THEN AskP!ReportInv' ELSE LockP!ReportInv'
  <2>1. UNCHANGED AskP!R!vars /\ UNCHANGED LockP!R!vars
    BY <1>2 DEF reportVars, AskP!R!vars, AskP!R!roleVars, AskP!R!sceneVars, AskP!R!askVars,
                AskP!R!fileVars, LockP!R!vars, LockP!R!roleVars, LockP!R!sceneVars,
                LockP!R!askVars, LockP!R!fileVars
  <2> QED  BY <2>1, Assumptions, AskP!ReportNext, LockP!ReportNext
<1>3. UNCHANGED deployVars => DeployInv'
  BY DEF deployVars, DeployInv, Deploys!TypeOK, Holder, Revisions, Current, Looked, Knows, Unseen,
         Updated, BuiltBy, Marked
<1>4. UNCHANGED launchVars => LaunchInv'
  BY DEF launchVars, LaunchInv, Launches!TypeOK
<1>5. CASE focus = "locks" /\ Locks!Next /\ UNCHANGED <<deployVars, reportVars, launchVars>>
  BY <1>0, <1>2, <1>3, <1>4, <1>5, Assumptions, SameLocks, LockP!TaskNext
<1>6. CASE focus = "asks" /\ Asks!Next /\ UNCHANGED <<deployVars, reportVars, launchVars>>
  BY <1>0, <1>2, <1>3, <1>4, <1>6, Assumptions, SameAsks, AskP!TaskNext
<1>7. CASE focus = "deploys" /\ Deploys!Next /\ UNCHANGED <<taskVars, reportVars, launchVars>>
  BY <1>0, <1>1, <1>2, <1>4, <1>7, Assumptions, DeployNext
<1>8. CASE focus = "reports" /\ Reports!Next /\ UNCHANGED <<taskVars, deployVars, launchVars>>
  BY <1>0, <1>1, <1>3, <1>4, <1>8, Assumptions, SameReports, LockP!ReportNext
<1>9. CASE focus = "roles" /\ Roles!Next /\ UNCHANGED <<taskVars, deployVars, launchVars>>
  BY <1>0, <1>1, <1>3, <1>4, <1>9, Assumptions, SameRoles, AskP!ReportNext
<1>10. CASE focus = "launches" /\ Launches!Next /\ UNCHANGED <<taskVars, deployVars, reportVars>>
  BY <1>0, <1>1, <1>2, <1>3, <1>10, Assumptions, LaunchNext
<1>11. CASE UNCHANGED vars
  BY <1>0, <1>1, <1>2, <1>3, <1>4, <1>11 DEF vars
<1> QED  BY <1>5, <1>6, <1>7, <1>8, <1>9, <1>10, <1>11 DEF Next

LEMMA DeskInductive == Spec => []DeskInv
BY DeskInit, DeskNext, PTL DEF Spec

\* What the invariant says of a state.
LEMMA DeskSound ==
  ASSUME DeskInv
  PROVE  /\ TypeOK /\ OneAtATime /\ PushedWasChecked /\ PushedByTwoPresses
         /\ NeverOlder /\ RevokedReadsNothing /\ ScreenTrue
<1>1. focus = "locks" =>
        Locks!TypeOK /\ Locks!OneAtATime /\ Locks!PushedWasChecked
  BY SameLocks, LockP!TaskSound DEF DeskInv
<1>2. focus # "locks" => Asks!TypeOK /\ Asks!PushedByTwoPresses
  BY SameAsks, AskP!TaskSound DEF DeskInv
<1>3. focus = "roles" =>
        Roles!TypeOK /\ Roles!RevokedReadsNothing /\ Roles!MenuWorks /\ Roles!ScreenTrue
  BY SameRoles, AskP!ReportSound DEF DeskInv
<1>4. focus # "roles" => Reports!TypeOK /\ Reports!RevokedReadsNothing
  BY SameReports, LockP!ReportSound DEF DeskInv
<1>5. Reports!NeverOlder
  <2>1. AskP!R!NeverOlder => Reports!NeverOlder
    BY DEF AskP!R!NeverOlder, Reports!NeverOlder
  <2> QED  BY <2>1, SameReports, AskP!ReportSound, LockP!ReportSound DEF DeskInv
<1>6. TypeOK
  BY <1>1, <1>2, <1>3, <1>4 DEF DeskInv, DeployInv, LaunchInv, TypeOK
<1>7. PushedByTwoPresses
  BY <1>2 DEF PushedByTwoPresses
<1> QED  BY <1>1, <1>3, <1>4, <1>5, <1>6, <1>7
            DEF OneAtATime, PushedWasChecked, NeverOlder, RevokedReadsNothing, ScreenTrue

\* Every variable of every component keeps its type, in focus or not.
THEOREM TypeCorrect == Spec => []TypeOK
BY DeskInductive, DeskSound, PTL

\* Two workers for Claude run at once only if one of them did not take the lock
\* in its minute (ClaudeAgentService.start, takeLock and releaseLock).
THEOREM WorkersApart == Spec => []OneAtATime
BY DeskInductive, DeskSound, PTL

\* What a worker pushes is what passed its build, as long as no lock was taken
\* late (claude-task.mjs).
THEOREM ChecksWhatItPushes == Spec => []PushedWasChecked
BY DeskInductive, DeskSound, PTL

\* Nothing is pushed that the administrator did not allow on both keyboards
\* (ApprovalService.firstPress and confirm).
THEOREM AllowedTwice == Spec => []PushedByTwoPresses
BY DeskInductive, DeskSound, PTL

\* The file a question asked for is no older than the question's own rows
\* (session.lastAiResult of the bot).
THEOREM FileIsFresh == Spec => []NeverOlder
BY DeskInductive, DeskSound, PTL

\* Rows are read for somebody who held both roles after asking, and no button of
\* a menu is refused by its handler (handleAiQuery, buildMainMenu).
THEOREM RolesAreRead == Spec => []RevokedReadsNothing
BY DeskInductive, DeskSound, PTL

\* The roles screen shows the database once its presses are through, unless they
\* met or a restart cut one off (handleIctRoleToggle).
THEOREM ScreenShowsRoles == Spec => []ScreenTrue
BY DeskInductive, DeskSound, PTL

\* A deploy that says "nothing to do" is right: what main held is built and runs,
\* after any failures, kills and crashes, but for a forced build that failed
\* (deploy.sh, the comparison with the state file).
THEOREM DeploySaysTrue == Spec => NothingToDo
<1> DEFINE A == \A d \in Runs : Deploys!At(d, "decide", "all") /\ run'[d][1] = "same" =>
                 \A r \in Deploys!Repos \ torn : running[r] = fresh[d][r] /\ built[r] = fresh[d][r]
<1>1. ASSUME DeskInv, [Next]_vars PROVE [A]_Deploys!vars
  <2>1. CASE Deploys!Next
    BY <1>1, <2>1, Assumptions, SaysTrue DEF DeskInv
  <2>2. CASE UNCHANGED Deploys!vars
    BY <2>2
  <2> QED  BY <1>1, <2>1, <2>2 DEF Next, vars, deployVars, Deploys!vars
<1> QED  BY <1>1, DeskInductive, PTL DEF Spec, NothingToDo, Deploys!NothingToDo

\* A restart starts both parts from what is checked out, never a new one beside
\* one that was not rebuilt, with the same exception (deploy.sh, pm2 restart all).
THEOREM DeployRestartsWhole == Spec => RestartsWhole
<1> DEFINE A == \A d \in Runs : Deploys!At(d, "restart", "all") /\ run'[d][1] = "mark" =>
                 \A r \in Deploys!Repos \ torn' : running'[r] = checkout[r]
<1>1. ASSUME DeskInv, [Next]_vars PROVE [A]_Deploys!vars
  <2>1. CASE Deploys!Next
    BY <1>1, <2>1, Assumptions, StartsWhole DEF DeskInv
  <2>2. CASE UNCHANGED Deploys!vars
    BY <2>2
  <2> QED  BY <1>1, <2>1, <2>2 DEF Next, vars, deployVars, Deploys!vars
<1> QED  BY <1>1, DeskInductive, PTL DEF Spec, RestartsWhole, Deploys!RestartsWhole
=============================================================================
