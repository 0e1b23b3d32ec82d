----------------------------- MODULE BotReports -----------------------------
(***************************************************************************)
(* The Telegram bot outside the plate dialogue: the role menu, the scenes  *)
(* of reports, the questions to the language model that run in the         *)
(* background, their results as files, and the roles of ICT employees.     *)
(*                                                                         *)
(* Updates of one batch, and webhook requests, are handled concurrently.   *)
(* A handler is one step up to its first await that another handler can    *)
(* notice; a question goes on after its handler has returned.              *)
(***************************************************************************)
EXTENDS Naturals, FiniteSets

CONSTANTS
  Users,     \* connected Telegram accounts
  Chief,     \* the one of TELEGRAM_ADMIN_ID
  Staff,     \* those with person_role.is_ict
  TzUsers,   \* those of the list of plate access
  Queries,   \* questions asked, each by one message
  NoQuery,
  Slots,     \* presses of role buttons handled at once
  NoUser,
  MaxToggles \* bound: presses of role buttons, and restarts

BotReportsAssumption ==
  /\ Chief \in Users /\ Staff \subseteq Users /\ TzUsers \subseteq Users
  /\ IsFiniteSet(Queries) /\ NoQuery \notin Queries
  /\ NoUser \notin Users /\ MaxToggles \in Nat

VARIABLES
  admins,    \* person_role.is_admin of employees
  scene,     \* session.scene
  aiMode,    \* session.ai_mode
  last,      \* session.lastAiResult: the question it is the answer of
  query,     \* query[q]: [pc, user, rows, file]
  keyboard,   \* users with a delivery keyboard (aib:...) in their chat
  toggle,    \* a press of a role button: [pc, person, seen]
  screen,    \* screen[u]: is_admin of u as the roles screen shows it
  toggles,
  (* history *)
  order,     \* order[q]: place of q among the answers with rows
  held,      \* questions whose user held both roles at some time since asking
  sent,      \* the last file: <<question that asked for it or NoQuery, its content>>
  overlapped \* people whose role was pressed again before a press was through

roleVars  == <<admins, toggle, screen, toggles, overlapped>>
sceneVars == <<scene, aiMode>>
askVars   == <<query, held>>
fileVars  == <<keyboard, order, sent>>
vars == <<roleVars, sceneVars, askVars, fileVars, last>>

NewQuery == [pc |-> "new", user |-> NoUser, rows |-> FALSE, file |-> FALSE]
NoToggle == [pc |-> "idle", person |-> NoUser, seen |-> FALSE]

TypeOK ==
  /\ admins \subseteq Staff
  /\ scene \in [Users -> {"none", "ai", "report"}]
  /\ aiMode \in [Users -> {"none", "postgres", "oracle"}]
  /\ last \in [Users -> Queries \cup {NoQuery}]
  /\ query \in [Queries -> [pc : {"new", "asked", "running", "answered", "shown", "done"},
                            user : Users \cup {NoUser}, rows : BOOLEAN, file : BOOLEAN]]
  /\ keyboard \subseteq Users
  /\ toggle \in [Slots -> [pc : {"idle", "write", "read"}, person : Staff \cup {NoUser},
                           seen : BOOLEAN]]
  /\ screen \in [Staff -> BOOLEAN] /\ toggles \in 0..MaxToggles
  /\ order \in [Queries -> 0..Cardinality(Queries)]
  /\ held \subseteq Queries /\ overlapped \subseteq Staff
  /\ sent \in (Queries \cup {NoQuery}) \X (Queries \cup {NoQuery})

Init ==
  /\ admins \in SUBSET Staff
  /\ scene = [u \in Users |-> "none"] /\ aiMode = [u \in Users |-> "none"]
  /\ last = [u \in Users |-> NoQuery]
  /\ query = [q \in Queries |-> NewQuery]
  /\ toggle = [s \in Slots |-> NoToggle]
  /\ screen = [u \in Staff |-> u \in admins]
  /\ keyboard = {} /\ toggles = 0 /\ held = {} /\ sent = <<NoQuery, NoQuery>> /\ overlapped = {}
  /\ order = [q \in Queries |-> 0]

(***************************************************************************)
(* Access and the menu                                                     *)
(***************************************************************************)
\* getAccess, from the profile of a connected account.
Access(u) == [ict |-> u \in Staff, ictAdmin |-> u \in admins,
              chief |-> u = Chief, tz |-> u \in TzUsers]

\* checkUserHasAiAccess and the first step of handleAiQuery.
HasBothRoles(u) == u \in admins /\ u \in Staff

\* buildMainMenu: the buttons of an access level.
MainMenu(a) ==
  {"active_tenders", "my_profile", "bot_info"}
    \cup (IF a.ict THEN {"ict_summary"} ELSE {"my_rates", "my_wins"})
    \cup (IF a.tz THEN {"tzp:start"} ELSE {})
    \cup (IF a.ictAdmin THEN {"enter_reports", "get_stats"} ELSE {})
    \cup (IF a.chief THEN {"enter_ai", "check_unread_mail", "run_deploy", "manage_ict_roles"}
          ELSE {})

\* Handlers that ask for a connected account only, and those of the chief.
ServesAccounts == {"active_tenders", "my_profile", "my_rates", "my_wins", "bot_info"}
ServesChief    == {"enter_ai", "check_unread_mail", "run_deploy", "manage_ict_roles"}

\* The check of its own that the handler of a button makes.
Refuses(button, u) ==
  CASE button \in ServesAccounts -> FALSE
    [] button \in ServesChief    -> u # Chief
    [] button = "ict_summary"     -> ~Access(u).ict
    [] button = "enter_reports"   -> ~HasBothRoles(u)
    [] button = "get_stats"       -> ~Access(u).ictAdmin /\ u # Chief
    [] button = "tzp:start"       -> u \notin TzUsers

\* /start, /menu and the way back from a scene: the menu leaves every scene.
ShowMenu(u) ==
  /\ scene[u] # "none"
  /\ scene' = [scene EXCEPT ![u] = "none"]
  /\ UNCHANGED <<aiMode, last, roleVars, askVars, fileVars>>

\* enterAiScene forgets the last result.
EnterAi(u) ==
  /\ ~Refuses("enter_ai", u)
  /\ scene' = [scene EXCEPT ![u] = "ai"]
  /\ aiMode' = [aiMode EXCEPT ![u] = "none"]
  /\ last' = [last EXCEPT ![u] = NoQuery]
  /\ UNCHANGED <<roleVars, askVars, fileVars>>

\* enterReportsScene keeps the last result.
EnterReports(u) ==
  /\ ~Refuses("enter_reports", u)
  /\ scene' = [scene EXCEPT ![u] = "report"]
  /\ aiMode' = [aiMode EXCEPT ![u] = "postgres"]
  /\ UNCHANGED <<last, roleVars, askVars, fileVars>>

\* A button of the scene's keyboard picks the database.
PickDatabase(u, mode) ==
  /\ scene[u] = "ai" /\ aiMode[u] # mode
  /\ aiMode' = [aiMode EXCEPT ![u] = mode]
  /\ UNCHANGED <<scene, last, roleVars, askVars, fileVars>>

(***************************************************************************)
(* A question                                                              *)
(***************************************************************************)
\* A message in a scene that is not one of its buttons: with a database
\* chosen, the question runs in the background.
Message(u, q) ==
  /\ scene[u] # "none" /\ (scene[u] = "report" \/ aiMode[u] # "none")
  /\ query[q].pc = "new"
  /\ query' = [query EXCEPT ![q] = [NewQuery EXCEPT !.pc = "asked", !.user = u]]
  /\ held' = IF HasBothRoles(u) THEN held \cup {q} ELSE held
  /\ UNCHANGED <<sceneVars, last, roleVars, fileVars>>

\* Mutant: the scene is proof enough of the roles.
TrustScene(q) ==
  /\ query[q].pc = "asked"
  /\ query' = [query EXCEPT ![q].pc = "running"]
  /\ UNCHANGED <<held, sceneVars, last, roleVars, fileVars>>

\* handleAiQuery starts with the roles as they are by now.
CheckRoles(q) ==
  /\ query[q].pc = "asked"
  /\ query' = [query EXCEPT ![q].pc = IF HasBothRoles(query[q].user) THEN "running" ELSE "answered"]
  /\ UNCHANGED <<held, sceneVars, last, roleVars, fileVars>>

\* Mutant: the first result stays the session's last one.
AnswerKeepsLast(q, rows, file) ==
  LET u == query[q].user IN
  /\ query[q].pc = "running" /\ (file => rows)
  /\ query' = [query EXCEPT ![q] = [@ EXCEPT !.pc = "answered", !.rows = rows, !.file = file]]
  /\ last' = IF rows /\ last[u] = NoQuery THEN [last EXCEPT ![u] = q] ELSE last
  /\ order' = IF rows THEN [order EXCEPT ![q] = Cardinality({p \in Queries : order[p] > 0}) + 1]
              ELSE order
  /\ UNCHANGED <<held, sceneVars, roleVars, keyboard, sent>>

\* The question is answered: in words, with a refusal of the statement, with
\* an error, or with the rows of a statement that reads; the question may
\* have asked for a file.  A result with rows is the session's last one.
Answer(q, rows, file) ==
  LET u == query[q].user IN
  /\ query[q].pc = "running" /\ (file => rows)
  /\ query' = [query EXCEPT ![q] = [@ EXCEPT !.pc = "answered", !.rows = rows, !.file = file]]
  /\ last' = IF rows THEN [last EXCEPT ![u] = q] ELSE last
  /\ order' = IF rows THEN [order EXCEPT ![q] = Cardinality({p \in Queries : order[p] > 0}) + 1]
              ELSE order
  /\ UNCHANGED <<held, sceneVars, roleVars, keyboard, sent>>

\* The status message becomes the answer; the chief's has a keyboard.
ShowAnswer(q) ==
  /\ query[q].pc = "answered"
  /\ query' = [query EXCEPT ![q].pc = "shown"]
  /\ keyboard' = IF query[q].rows /\ query[q].user = Chief THEN keyboard \cup {Chief} ELSE keyboard
  /\ UNCHANGED <<held, sceneVars, last, roleVars, order, sent>>

\* A message that cannot be edited or sent ends the question with an error.
ShowFails(q) ==
  /\ query[q].pc = "answered"
  /\ query' = [query EXCEPT ![q].pc = "done"]
  /\ UNCHANGED <<held, sceneVars, last, roleVars, fileVars>>

\* The file that was asked for: it is made of the session's last result.
DeliverAsked(q) ==
  LET u == query[q].user IN
  /\ query[q].pc = "shown"
  /\ query' = [query EXCEPT ![q].pc = "done"]
  /\ sent' = IF query[q].file /\ last[u] # NoQuery /\ u = Chief THEN <<q, last[u]>> ELSE sent
  /\ UNCHANGED <<held, sceneVars, last, roleVars, keyboard, order>>

\* A press of a delivery button of any answer, old or new.
PressDeliver(u) ==
  /\ u \in keyboard /\ u = Chief /\ last[u] # NoQuery
  /\ sent' = <<NoQuery, last[u]>>
  /\ UNCHANGED <<askVars, sceneVars, last, roleVars, keyboard, order>>

\* A restart of the process: sessions live in its memory, questions die.
Restart ==
  /\ toggles < MaxToggles /\ toggles' = toggles + 1
  /\ scene' = [u \in Users |-> "none"] /\ aiMode' = [u \in Users |-> "none"]
  /\ last' = [u \in Users |-> NoQuery]
  /\ query' = [q \in Queries |-> IF query[q].pc = "new" THEN query[q]
                                 ELSE [query[q] EXCEPT !.pc = "done"]]
  /\ toggle' = [s \in Slots |-> NoToggle]
  /\ overlapped' = overlapped \cup {toggle[s].person : s \in {s \in Slots : toggle[s].pc # "idle"}}
  /\ UNCHANGED <<admins, screen, held, fileVars>>

(***************************************************************************)
(* Roles of employees, given and taken by the chief                        *)
(***************************************************************************)
Pressed(u) == {s \in Slots : toggle[s].person = u}

\* handleIctRoleToggle and toggleIctUserRole: the row is read ...
ToggleRead(s, u) ==
  /\ toggle[s].pc = "idle" /\ toggles < MaxToggles
  /\ toggles' = toggles + 1
  /\ toggle' = [toggle EXCEPT ![s] = [pc |-> "write", person |-> u, seen |-> u \in admins]]
  /\ overlapped' = IF Pressed(u) # {} THEN overlapped \cup {u} ELSE overlapped
  /\ UNCHANGED <<admins, screen, sceneVars, last, askVars, fileVars>>

\* ... the opposite of what was read is written ...
ToggleWrite(s) ==
  LET u == toggle[s].person IN
  /\ toggle[s].pc = "write"
  /\ admins' = IF toggle[s].seen THEN admins \ {u} ELSE admins \cup {u}
  /\ toggle' = [toggle EXCEPT ![s].pc = "read"]
  /\ held' = held \cup {q \in Queries : query[q].user = u /\ query[q].pc = "asked" /\ u \in admins'}
  /\ UNCHANGED <<screen, toggles, overlapped, query, sceneVars, last, fileVars>>

\* Mutant: the screen gets the row that was read first.
ToggleShowSeen(s) ==
  LET u == toggle[s].person IN
  /\ toggle[s].pc = "read"
  /\ screen' = [screen EXCEPT ![u] = toggle[s].seen]
  /\ toggle' = [toggle EXCEPT ![s] = NoToggle]
  /\ UNCHANGED <<admins, toggles, overlapped, sceneVars, last, askVars, fileVars>>

\* ... and read again for the screen.
ToggleShow(s) ==
  LET u == toggle[s].person IN
  /\ toggle[s].pc = "read"
  /\ screen' = [screen EXCEPT ![u] = u \in admins]
  /\ toggle' = [toggle EXCEPT ![s] = NoToggle]
  /\ UNCHANGED <<admins, toggles, overlapped, sceneVars, last, askVars, fileVars>>

Scenes(u) ==
  \/ ShowMenu(u) \/ EnterAi(u) \/ EnterReports(u) \/ PressDeliver(u)
  \/ \E mode \in {"postgres", "oracle"} : PickDatabase(u, mode)
  \/ \E q \in Queries : Message(u, q)

Background(q) ==
  \/ CheckRoles(q) \/ ShowAnswer(q) \/ ShowFails(q) \/ DeliverAsked(q)
  \/ \E rows, file \in BOOLEAN : Answer(q, rows, file)

Roles(s) == ToggleWrite(s) \/ ToggleShow(s) \/ \E u \in Staff : ToggleRead(s, u)

Next ==
  \/ \E u \in Users : Scenes(u)
  \/ \E q \in Queries : Background(q)
  \/ \E s \in Slots : Roles(s)
  \/ Restart

Spec == Init /\ [][Next]_vars

-----------------------------------------------------------------------------
(***************************************************************************)
(* What the code promises                                                  *)
(***************************************************************************)

\* A file that a question asked for never has a result older than the
\* question's own, whatever other questions, scenes and restarts fall
\* between the answer and the file.
NeverOlder == sent[1] # NoQuery => order[sent[2]] >= order[sent[1]]

\* Rows are read only for somebody who held both roles at some time after
\* asking: a scene entered before the roles were taken away is worth nothing.
RevokedReadsNothing == \A q \in Queries : query[q].rows => q \in held

\* No button of anybody's menu is refused by its handler: the levels of
\* buildMainMenu and the checks of the handlers are written separately.
MenuWorks == \A u \in Users : \A b \in MainMenu(Access(u)) : ~Refuses(b, u)

\* With no press under way, the roles screen shows what the database holds,
\* unless two presses for the same employee met or a restart cut one off.
ScreenTrue ==
  \A u \in Staff \ overlapped : Pressed(u) = {} => screen[u] = (u \in admins)
=============================================================================
