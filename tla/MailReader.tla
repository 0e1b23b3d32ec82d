----------------------------- MODULE MailReader -----------------------------
(***************************************************************************)
(* New mail of the company's mailbox, announced to the administrator.  A   *)
(* repeated job of one worker reads what lies past a cursor kept in Redis, *)
(* moves the cursor, then announces the mails one by one.                  *)
(***************************************************************************)
EXTENDS Integers, FiniteSets, FiniteSetsExt

CONSTANTS
  MaxUid,     \* bound on mails of one mailbox
  MaxValidity,\* bound on times the mailbox is rebuilt (uidValidity changes)
  MaxCrashes  \* bound on restarts of the backend

MailReaderAssumption == MaxUid \in Nat /\ MaxValidity \in Nat /\ MaxCrashes \in Nat

VARIABLES
  validity,   \* uidValidity of the mailbox
  uidNext,    \* the uid the next mail will get
  cursor,     \* cursor[v]: the key ...:<v>:lastuid, Unset when there is none
  base,       \* base[v]: the base line the cursor started from
  job,        \* the job that runs: where it stands and what it has read
  hand,       \* mails the job has read and not announced yet
  told,       \* told[v]: mails announced
  lost,       \* lost[v]: mails whose announcement failed or fell to a restart
  repeat,     \* the repeated job is registered
  booting,    \* onModuleInit stands between removing the old job and adding the new
  crashes

vars == <<validity, uidNext, cursor, base, job, hand, told, lost, repeat, booting, crashes>>

Unset == -1
NoJob == [at |-> "none", of |-> 0, last |-> Unset, next |-> 0, seen |-> 0]

Init ==
  /\ validity = 0 /\ uidNext = 1
  /\ cursor = [v \in 0..MaxValidity |-> Unset] /\ base = [v \in 0..MaxValidity |-> Unset]
  /\ job = NoJob /\ hand = {}
  /\ told = [v \in 0..MaxValidity |-> {}] /\ lost = [v \in 0..MaxValidity |-> {}]
  /\ repeat = FALSE /\ booting = TRUE /\ crashes = 0

MailboxUnchanged == UNCHANGED <<validity, uidNext>>
CursorUnchanged  == UNCHANGED <<cursor, base>>
LedgerUnchanged  == UNCHANGED <<told, lost>>
BootUnchanged    == UNCHANGED <<repeat, booting, crashes>>

\* A mail arrives; the mailbox is rebuilt with a new uidValidity.
Arrive ==
  /\ uidNext <= MaxUid
  /\ uidNext' = uidNext + 1
  /\ UNCHANGED <<validity, job, hand>> /\ CursorUnchanged /\ LedgerUnchanged /\ BootUnchanged

Rebuild ==
  /\ validity < MaxValidity /\ job = NoJob
  /\ validity' = validity + 1 /\ uidNext' = 1
  /\ UNCHANGED <<job, hand>> /\ CursorUnchanged /\ LedgerUnchanged /\ BootUnchanged

\* onModuleInit removes the repeated jobs it finds, then adds its own.
RemoveRepeat ==
  /\ booting /\ repeat
  /\ repeat' = FALSE
  /\ UNCHANGED <<job, hand, booting, crashes>> /\ MailboxUnchanged /\ CursorUnchanged /\ LedgerUnchanged

AddRepeat ==
  /\ booting /\ ~repeat
  /\ repeat' = TRUE /\ booting' = FALSE
  /\ UNCHANGED <<job, hand, crashes>> /\ MailboxUnchanged /\ CursorUnchanged /\ LedgerUnchanged

\* The job of the next minute begins when the one before has ended (concurrency 1):
\* it opens the mailbox (when it cannot, it ends and nothing changes).
Connect ==
  /\ repeat /\ job = NoJob
  /\ job' = [NoJob EXCEPT !.at = "opened", !.of = validity, !.next = uidNext]
  /\ UNCHANGED hand /\ MailboxUnchanged /\ CursorUnchanged /\ LedgerUnchanged /\ BootUnchanged

\* Without a cursor the base line is set to what is there; without news nothing is
\* fetched.
ReadCursor ==
  /\ job.at = "opened"
  /\ LET v == job.of
         stored == cursor[v]
     IN IF stored = Unset
        THEN /\ cursor' = [cursor EXCEPT ![v] = job.next - 1]
             /\ base' = [base EXCEPT ![v] = job.next - 1]
             /\ job' = NoJob
        ELSE /\ job' = IF job.next - 1 <= stored THEN NoJob
                       ELSE [job EXCEPT !.at = "fetch", !.last = stored, !.seen = stored]
             /\ CursorUnchanged
  /\ UNCHANGED hand /\ MailboxUnchanged /\ LedgerUnchanged /\ BootUnchanged

\* One mail after the other is read, up to the last one the mailbox has by then; a
\* broken connection ends the job and forgets what it has read.
Fetch ==
  /\ job.at = "fetch" /\ job.seen < uidNext - 1
  /\ \/ /\ job' = [job EXCEPT !.seen = @ + 1]
        /\ hand' = hand \cup {job.seen + 1}
     \/ job' = NoJob /\ hand' = {}
  /\ MailboxUnchanged /\ CursorUnchanged /\ LedgerUnchanged /\ BootUnchanged

\* The fetch gives at least what was there when the mailbox was opened; the cursor
\* moves to the last mail seen, and before any of them is announced.
MoveCursor ==
  /\ job.at = "fetch" /\ job.seen >= job.next - 1
  /\ cursor' = [cursor EXCEPT ![job.of] = job.seen]
  /\ job' = [job EXCEPT !.at = "tell"]
  /\ UNCHANGED <<base, hand>> /\ MailboxUnchanged /\ LedgerUnchanged /\ BootUnchanged

\* The oldest is announced; Telegram may refuse it, and that is only logged.
Tell ==
  /\ job.at = "tell" /\ hand # {}
  /\ LET uid == Min(hand)
     IN /\ hand' = hand \ {uid}
        /\ \/ told' = [told EXCEPT ![job.of] = @ \cup {uid}] /\ UNCHANGED lost
           \/ lost' = [lost EXCEPT ![job.of] = @ \cup {uid}] /\ UNCHANGED told
  /\ UNCHANGED job /\ MailboxUnchanged /\ CursorUnchanged /\ BootUnchanged

Done ==
  /\ job.at = "tell" /\ hand = {}
  /\ job' = NoJob
  /\ UNCHANGED hand /\ MailboxUnchanged /\ CursorUnchanged /\ LedgerUnchanged /\ BootUnchanged

\* The backend restarts; Redis keeps the cursor and the repeated job.
Crash ==
  /\ crashes < MaxCrashes
  /\ crashes' = crashes + 1 /\ booting' = TRUE
  /\ lost' = IF job.at = "tell" THEN [lost EXCEPT ![job.of] = @ \cup hand] ELSE lost
  /\ job' = NoJob /\ hand' = {}
  /\ UNCHANGED <<told, repeat>> /\ MailboxUnchanged /\ CursorUnchanged

Next ==
  \/ Arrive \/ Rebuild \/ RemoveRepeat \/ AddRepeat
  \/ Connect \/ ReadCursor \/ Fetch \/ MoveCursor \/ Tell \/ Done \/ Crash

Spec == Init /\ [][Next]_vars

-----------------------------------------------------------------------------

TypeOK ==
  /\ validity \in 0..MaxValidity /\ uidNext \in 1..(MaxUid + 1)
  /\ cursor \in [0..MaxValidity -> Unset..MaxUid] /\ base \in [0..MaxValidity -> Unset..MaxUid]
  /\ job \in [at : {"none", "opened", "fetch", "tell"}, of : 0..MaxValidity,
              last : Unset..MaxUid, next : 0..(MaxUid + 1), seen : 0..MaxUid]
  /\ hand \subseteq 1..MaxUid
  /\ told \in [0..MaxValidity -> SUBSET (1..MaxUid)]
  /\ lost \in [0..MaxValidity -> SUBSET (1..MaxUid)]
  /\ repeat \in BOOLEAN /\ booting \in BOOLEAN /\ crashes \in 0..MaxCrashes

\* What the job has read and is going to announce, now that the cursor has moved.
InHand(v) == IF job.at = "tell" /\ job.of = v THEN hand ELSE {}

\* The cursor separates the mails: every one between the base line and the cursor is
\* announced, about to be, or known to be lost to Telegram or a restart, and only one
\* of these; none past the cursor has been announced.  So no mail is announced twice
\* and none is passed over: fetchNewMail and process.
Accounted ==
  \A v \in 0..MaxValidity :
    /\ told[v] \cup lost[v] \cup InHand(v) = (base[v] + 1)..cursor[v]
    /\ told[v] \cap InHand(v) = {} /\ lost[v] \cap InHand(v) = {} /\ told[v] \cap lost[v] = {}
=============================================================================
