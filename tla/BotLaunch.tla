----------------------------- MODULE BotLaunch ------------------------------
(***************************************************************************)
(* TelegramService at start and on the sending side: launchBot with its    *)
(* retries beside setupWebhookMode, and a broadcast that pauses.           *)
(*                                                                         *)
(* Telegram delivers updates either to a webhook or to getUpdates: with a  *)
(* webhook set, getUpdates is answered with a conflict, which makes        *)
(* bot.launch() fail; bot.launch() itself removes the webhook first.       *)
(***************************************************************************)
EXTENDS Naturals

CONSTANTS
  Subscribers, \* number of recipients of a broadcast
  Pace,        \* a pause after every Pace messages that went out: 25, or 20
  MaxOutages   \* bound: failures of the network

BotLaunchAssumption ==
  Subscribers \in Nat /\ Pace \in Nat \ {0} /\ MaxOutages \in Nat

VARIABLES
  bot,      \* launchBot: 'launching', 'polling' or 'waiting' for RETRY_MS
  setup,    \* setupWebhookMode: 'pending' or 'done'
  webhook,  \* Telegram has the webhook
  outages,
  cast      \* a broadcast: [i, success, failed, pause, done]

vars == <<bot, setup, webhook, outages, cast>>
startVars == <<bot, setup, webhook>>

TypeOK ==
  /\ bot \in {"launching", "polling", "waiting"}
  /\ setup \in {"pending", "done"} /\ webhook \in BOOLEAN
  /\ outages \in 0..MaxOutages
  /\ cast \in [i : 0..Subscribers, success : 0..Subscribers, failed : 0..Subscribers,
               pause : BOOLEAN, done : BOOLEAN]

Init ==
  /\ bot = "launching" /\ setup = "pending" /\ webhook \in BOOLEAN /\ outages = 0
  /\ cast = [i |-> 0, success |-> 0, failed |-> 0, pause |-> FALSE, done |-> FALSE]

Outage == outages < MaxOutages /\ outages' = outages + 1

(***************************************************************************)
(* Start                                                                   *)
(***************************************************************************)
\* bot.launch(): the webhook goes, the polling starts.
Launch ==
  /\ bot = "launching"
  /\ bot' = "polling" /\ webhook' = FALSE
  /\ UNCHANGED <<setup, outages, cast>>

\* Telegram cannot be reached: launch() throws.
LaunchFails ==
  /\ bot = "launching" /\ Outage
  /\ bot' = "waiting"
  /\ UNCHANGED <<setup, webhook, cast>>

\* getUpdates meets a webhook: the polling throws out of launch().
Conflict ==
  /\ bot = "polling" /\ webhook
  /\ bot' = "waiting"
  /\ UNCHANGED <<setup, webhook, outages, cast>>

\* Mutant: launchBot tries again only while the bot is being set up.
RetryAtStart ==
  /\ bot = "waiting" /\ setup = "pending"
  /\ bot' = "launching"
  /\ UNCHANGED <<setup, webhook, outages, cast>>

\* launchBot goes round its loop.
Retry ==
  /\ bot = "waiting"
  /\ bot' = "launching"
  /\ UNCHANGED <<setup, webhook, outages, cast>>

\* setupWebhookMode, beside the first launch: once, with WEBHOOK_DOMAIN set
\* and Telegram within reach.
SetWebhook(ok) ==
  /\ setup = "pending"
  /\ setup' = "done" /\ webhook' = (webhook \/ ok)
  /\ UNCHANGED <<bot, outages, cast>>

(***************************************************************************)
(* broadcastMessage, sendMeetingNotification                               *)
(***************************************************************************)
\* Mutant: one recipient too many.
SendPastEnd(ok) ==
  /\ ~cast.pause /\ cast.i <= Subscribers
  /\ cast' = [cast EXCEPT !.i = @ + 1]
  /\ UNCHANGED <<startVars, outages>>

\* A recipient's message goes out or fails; then a pause when the number of
\* successes is a multiple of Pace.
Send(ok) ==
  LET s == IF ok THEN cast.success + 1 ELSE cast.success IN
  /\ ~cast.pause /\ cast.i < Subscribers
  /\ cast' = [cast EXCEPT !.i = @ + 1, !.success = s, !.pause = (s % Pace = 0),
                          !.failed = IF ok THEN @ ELSE @ + 1]
  /\ UNCHANGED <<startVars, outages>>

\* The pause of a second is over.
Paused ==
  /\ cast.pause
  /\ cast' = [cast EXCEPT !.pause = FALSE]
  /\ UNCHANGED <<startVars, outages>>

\* The result: total, success, failed.
Reported ==
  /\ cast.i = Subscribers /\ ~cast.pause /\ ~cast.done
  /\ cast' = [cast EXCEPT !.done = TRUE]
  /\ UNCHANGED <<startVars, outages>>

Next ==
  \/ Launch \/ LaunchFails \/ Conflict \/ Retry
  \/ \E ok \in BOOLEAN : SetWebhook(ok) \/ Send(ok)
  \/ Paused \/ Reported

\* The loop of launchBot and the one call of setupWebhookMode go on.
Progress == Launch \/ Conflict \/ Retry \/ \E ok \in BOOLEAN : SetWebhook(ok)

Spec == Init /\ [][Next]_vars /\ WF_vars(Progress)

-----------------------------------------------------------------------------
\* The bot ends up polling without a webhook in its way, however the webhook
\* of setupWebhookMode falls between the retries of launchBot.
Receives == <>[](bot = "polling" /\ ~webhook)
=============================================================================
