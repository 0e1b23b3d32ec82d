-------------------------------- MODULE Desk --------------------------------
(***************************************************************************)
(* What the administrator drives from Telegram: tasks for Claude, deploys, *)
(* reports and roles, and the start of the bot itself.  These components   *)
(* share no state, so a behaviour follows one of them, the one in focus,   *)
(* and the state space is the sum of theirs and not the product.           *)
(***************************************************************************)
EXTENDS Naturals, FiniteSets

CONSTANTS
  \* tasks that work and push in their clones; tasks that are asked about
  Free, LockTasks, LockTarget, LockSlots, AutoPush, LockPresses, LockFaults,
  AskTasks, AskTarget, AskSlots, AskPresses, AskFaults,
  \* deploys
  Runs, Forced, None, Nobody, MaxRev, MaxCrashes,
  \* questions to the database; questions beside presses of role buttons
  Chief, NoQuery, NoUser, ReportQueries, ReportSlots, ReportToggles,
  RoleUsers, RoleStaff, RoleTzUsers, RoleQueries, RoleSlots, RoleToggles,
  \* the start of the bot and a broadcast
  Subscribers, Pace, MaxOutages

VARIABLES
  focus,
  lock, desk, worker, head, tree, branch, request, rec, buttons, press, faults,
  late, checked, said, pushed,
  main, checkout, built, running, deployed, run, changed, flock, crashes, fresh, torn,
  admins, scene, aiMode, last, query, keyboard, toggle, screen, toggles, order, held,
  sent, overlapped,
  bot, setup, webhook, outages, cast

Locks == INSTANCE ClaudeTask WITH
  Tasks <- LockTasks, Target <- LockTarget, Slots <- LockSlots,
  MaxPresses <- LockPresses, MaxFaults <- LockFaults
Asks == INSTANCE ClaudeTask WITH
  Tasks <- AskTasks, Target <- AskTarget, Slots <- AskSlots, AutoPush <- {},
  MaxPresses <- AskPresses, MaxFaults <- AskFaults

Deploys == INSTANCE Deploy

Reports == INSTANCE BotReports WITH
  Users <- {Chief}, Staff <- {Chief}, TzUsers <- {}, Queries <- ReportQueries,
  Slots <- ReportSlots, MaxToggles <- ReportToggles
Roles == INSTANCE BotReports WITH
  Users <- RoleUsers, Staff <- RoleStaff, TzUsers <- RoleTzUsers, Queries <- RoleQueries,
  Slots <- RoleSlots, MaxToggles <- RoleToggles

Launches == INSTANCE BotLaunch

\* What the components assume of their constants.
ASSUME ComponentsAssumption ==
       /\ Locks!ClaudeTaskAssumption /\ Asks!ClaudeTaskAssumption /\ Deploys!DeployAssumption
       /\ Reports!BotReportsAssumption /\ Roles!BotReportsAssumption
       /\ Launches!BotLaunchAssumption

taskVars   == <<lock, desk, worker, head, tree, branch, request, rec, buttons, press, faults,
                late, checked, said, pushed>>
deployVars == <<main, checkout, built, running, deployed, run, changed, flock, crashes, fresh, torn>>
reportVars == <<admins, scene, aiMode, last, query, keyboard, toggle, screen, toggles, order,
                held, sent, overlapped>>
launchVars == <<bot, setup, webhook, outages, cast>>
vars == <<focus, taskVars, deployVars, reportVars, launchVars>>

Init ==
  /\ focus \in {"locks", "asks", "deploys", "reports", "roles", "launches"}
  /\ IF focus = "locks" THEN Locks!Init ELSE Asks!Init
  /\ Deploys!Init
  /\ IF focus = "roles" THEN Roles!Init ELSE Reports!Init
  /\ focus \notin {"reports", "roles"} => admins = {}
  /\ Launches!Init
  /\ focus # "launches" => ~webhook

Next ==
  /\ UNCHANGED focus
  /\ \/ /\ focus = "locks" /\ Locks!Next
        /\ UNCHANGED <<deployVars, reportVars, launchVars>>
     \/ /\ focus = "asks" /\ Asks!Next
        /\ UNCHANGED <<deployVars, reportVars, launchVars>>
     \/ /\ focus = "deploys" /\ Deploys!Next
        /\ UNCHANGED <<taskVars, reportVars, launchVars>>
     \/ /\ focus = "reports" /\ Reports!Next
        /\ UNCHANGED <<taskVars, deployVars, launchVars>>
     \/ /\ focus = "roles" /\ Roles!Next
        /\ UNCHANGED <<taskVars, deployVars, launchVars>>
     \/ /\ focus = "launches" /\ Launches!Next
        /\ UNCHANGED <<taskVars, deployVars, reportVars>>

\* The fairness of the component in focus.
Fairness ==
  /\ \A t \in LockTasks :
       WF_vars(focus = "locks" /\ Locks!Progress(t) /\ UNCHANGED <<focus, deployVars, reportVars, launchVars>>)
  /\ WF_vars(focus = "launches" /\ Launches!Progress /\ UNCHANGED <<focus, taskVars, deployVars, reportVars>>)

Spec == Init /\ [][Next]_vars /\ Fairness

TypeOK ==
  /\ IF focus = "locks" THEN Locks!TypeOK ELSE Asks!TypeOK
  /\ Deploys!TypeOK
  /\ IF focus = "roles" THEN Roles!TypeOK ELSE Reports!TypeOK
  /\ Launches!TypeOK

\* The properties of the components, each on the instance that is in focus.
OneAtATime         == focus = "locks" => Locks!OneAtATime
PushedWasChecked   == focus = "locks" => Locks!PushedWasChecked
PushedByTwoPresses == focus = "asks" => Asks!PushedByTwoPresses
TaskEnds           == \A t \in LockTasks :
                        (focus = "locks" /\ Locks!Started(t)) ~> (focus = "locks" /\ Locks!Over(t))
NothingToDo        == Deploys!NothingToDo
RestartsWhole      == Deploys!RestartsWhole
NeverOlder         == Reports!NeverOlder
RevokedReadsNothing == IF focus = "roles" THEN Roles!RevokedReadsNothing /\ Roles!MenuWorks
                       ELSE Reports!RevokedReadsNothing
ScreenTrue         == focus = "roles" => Roles!ScreenTrue
Receives           == focus = "launches" => Launches!Receives
=============================================================================
