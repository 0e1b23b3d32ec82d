------------------------------- MODULE TzProv -------------------------------
(***************************************************************************)
(* The dialogue "provide plates" of the Telegram bot: TzProvFlow moves one *)
(* chat from a kind of vehicle over a period and a carrier to a selection  *)
(* of plates, shows it for confirmation and has TzProvService register it  *)
(* in Oracle (URTP).                                                       *)
(*                                                                         *)
(* Every message keeps its buttons, so any of them may be pressed at any   *)
(* time, and telegraf handles the updates of one poll concurrently on one  *)
(* session object: each press runs up to its next await in one step.       *)
(***************************************************************************)
EXTENDS Naturals, FiniteSets

CONSTANTS
  Kinds,       \* 'am' tractors, 'pr' trailers
  Periods,     \* PERIODS
  Carriers,
  Keys,        \* TzItem.key: 'h<kod>' of a directory, 'n<plate>' of a request
  Hist,        \* the keys that start with 'h'
  Plates,
  PlateOf,     \* PlateOf[k, x]: the plate key x stands for among kind k
  Requests,    \* Requests[c, k, d]: the keys c's requests of period d bring up
  None,        \* undefined
  Slots,       \* handlers in flight at once
  Chunk,       \* ADD_CHUNK (150)
  MaxScreens,  \* bound: confirmations shown
  MaxFaults    \* bound: calls of Oracle and of Telegram that reject

ASSUME TzProvAssumption ==
  /\ Hist \subseteq Keys
  /\ PlateOf \in [Kinds \X Keys -> Plates]
  /\ Requests \in [Carriers \X Kinds \X Periods -> SUBSET Keys]
  /\ None \notin Kinds \cup Periods \cup Carriers \cup Nat
  /\ IsFiniteSet(Keys)
  /\ Chunk \in Nat \ {0} /\ MaxScreens \in Nat /\ MaxFaults \in Nat

VARIABLES
  (* session.tzprov, and session.scene *)
  kind, days, per,    \* the choice so far
  items, selected,    \* items of the list or None, keys ticked
  pending, running,   \* snapshot of the confirmation, an execution is on
  searching,          \* scene = TZ_PROV_SEARCH_SCENE
  (* handlers between two awaits *)
  pc, mine,           \* next step; its st is still the one of the session
  task,               \* what it was called for: a snapshot
  wanted, left,       \* items to register, and those of them not tried yet
  urtp,               \* Oracle: plates in a carrier's transport
  faults,
  (* history *)
  screens,            \* confirmations shown so far, their nonces are 1..screens
  shown,              \* shown[n]: carrier and items on confirmation n
  runs, did,          \* runs[n]: executions of n; did[n]: what they registered
  told                \* told[n]: items reported as registered, or None

choiceVars  == <<kind, days, per>>
listVars    == <<items, selected>>
guardVars   == <<pending, running>>
stateVars   == <<choiceVars, listVars, guardVars>>
slotVars    == <<pc, mine, task, wanted, left>>
histVars    == <<screens, shown, runs, did, told>>
vars == <<stateVars, searching, slotVars, urtp, faults, histVars>>

Nonces   == 1..MaxScreens
Item(k, x)  == [key |-> x, plate |-> PlateOf[k, x]]
AllItems == [key : Keys, plate : Plates]
KeysOf(S) == {i.key : i \in S}

\* getPending: what is not in the carrier's transport yet.  Without a period
\* the queries compare with NULL and find nothing.
GetPending(c, k, d) ==
  IF d = None THEN {}
  ELSE {i \in {Item(k, x) : x \in Requests[c, k, d]} : <<c, i.plate>> \notin urtp}

Snapshots == [nonce : Nonces \cup {None}, per : Carriers, kind : Kinds,
              days : Periods \cup {None}, keys : SUBSET Keys]

Init ==
  /\ kind = None /\ days = None /\ per = None
  /\ items = None /\ selected = {}
  /\ pending = None /\ running = FALSE
  /\ searching = FALSE
  /\ pc = [s \in Slots |-> "idle"]
  /\ mine = [s \in Slots |-> FALSE]
  /\ task = [s \in Slots |-> None]
  /\ wanted = [s \in Slots |-> {}]
  /\ left = [s \in Slots |-> {}]
  /\ urtp = {}
  /\ faults = 0
  /\ screens = 0
  /\ shown = [n \in Nonces |-> None]
  /\ runs = [n \in Nonces |-> 0]
  /\ did = [n \in Nonces |-> {}]
  /\ told = [n \in Nonces |-> None]

Fault == faults < MaxFaults /\ faults' = faults + 1

-----------------------------------------------------------------------------
(* Screens and choices. *)

\* start(): session.tzprov is a new object; a handler that still holds the old
\* one writes where nobody reads.
Fresh ==
  /\ kind' = None /\ days' = None /\ per' = None
  /\ items' = None /\ selected' = {}
  /\ pending' = None /\ running' = FALSE
  /\ searching' = FALSE
Reset == Fresh /\ mine' = [s \in Slots |-> FALSE]

Start == Reset /\ UNCHANGED <<pc, task, wanted, left, urtp, faults, histVars>>

ChooseKind(k) ==
  /\ kind' = k /\ days' = None
  /\ searching' = FALSE
  /\ UNCHANGED <<per, listVars, guardVars, slotVars, urtp, faults, histVars>>

ChooseDays(d) ==
  /\ kind # None
  /\ days' = d /\ per' = None
  /\ items' = None /\ selected' = {}
  /\ pending' = None
  /\ searching' = FALSE
  /\ UNCHANGED <<kind, running, slotVars, urtp, faults, histVars>>

\* showSelection() on the session's object, which is restarted when the list
\* or the choice is missing.
Shows(k, c, list) == k # None /\ list # None /\ c # None
ShowSelection ==
  IF Shows(kind, per, items)
    THEN searching' = FALSE /\ UNCHANGED <<stateVars, mine>>
    ELSE Reset

\* "Back", a page, a tick beyond the end of the list.
Select == ShowSelection /\ UNCHANGED <<pc, task, wanted, left, urtp, faults, histVars>>

\* Mutant: the key of the button, without a look at the list.
TickAny(x) ==
  /\ items # None /\ Shows(kind, per, items)
  /\ selected' = IF x \in selected THEN selected \ {x} ELSE selected \cup {x}
  /\ pending' = None /\ searching' = FALSE
  /\ UNCHANGED <<choiceVars, items, running, slotVars, urtp, faults, histVars>>

\* One key, all of them or none; the choice behind the list may be gone.
Tick(x) ==
  /\ items # None /\ x \in KeysOf(items)
  /\ IF Shows(kind, per, items)
       THEN /\ selected' = IF x \in selected THEN selected \ {x} ELSE selected \cup {x}
            /\ pending' = None /\ searching' = FALSE
            /\ UNCHANGED <<choiceVars, items, running, mine>>
       ELSE Reset
  /\ UNCHANGED <<pc, task, wanted, left, urtp, faults, histVars>>

SelectAll(all) ==
  /\ IF Shows(kind, per, items)
       THEN /\ selected' = IF all THEN KeysOf(items) ELSE {}
            /\ pending' = None /\ searching' = FALSE
            /\ UNCHANGED <<choiceVars, items, running, mine>>
       ELSE Reset
  /\ UNCHANGED <<pc, task, wanted, left, urtp, faults, histVars>>

(* Search for a carrier by name, and what leads out of it. *)

AskSearch ==
  /\ IF kind = None \/ days = None
       THEN Reset
       ELSE searching' = TRUE /\ UNCHANGED <<stateVars, mine>>
  /\ UNCHANGED <<pc, task, wanted, left, urtp, faults, histVars>>

SearchText(s) ==
  /\ searching /\ pc[s] = "idle"
  /\ IF kind = None \/ days = None
       THEN Reset /\ UNCHANGED pc
       ELSE pc' = [pc EXCEPT ![s] = "search"] /\ UNCHANGED <<stateVars, searching, mine>>
  /\ UNCHANGED <<task, wanted, left, urtp, faults, histVars>>

\* Carriers are found, or none, or the query fails.
Searched(s) ==
  /\ pc[s] = "search"
  /\ pc' = [pc EXCEPT ![s] = "idle"]
  /\ searching' \in {searching, FALSE}
  /\ UNCHANGED <<stateVars, mine, task, wanted, left, urtp, faults, histVars>>

\* The main menu, or a command instead of a name.
Menu ==
  /\ searching /\ searching' = FALSE
  /\ UNCHANGED <<stateVars, slotVars, urtp, faults, histVars>>

(* The carrier's plates are loaded. *)

ChooseCarrier(s, c) ==
  /\ pc[s] = "idle"
  /\ IF kind = None \/ days = None
       THEN Reset /\ UNCHANGED <<pc, task>>
       ELSE /\ pending' = None /\ searching' = FALSE
            /\ pc' = [pc EXCEPT ![s] = "load"]
            /\ mine' = [mine EXCEPT ![s] = TRUE]
            /\ task' = [task EXCEPT ![s] = [nonce |-> None, per |-> c, kind |-> kind,
                                            days |-> days, keys |-> {}]]
            /\ UNCHANGED <<choiceVars, listVars, running>>
  /\ UNCHANGED <<wanted, left, urtp, faults, histVars>>

EndSlot(s) ==
  /\ pc' = [pc EXCEPT ![s] = "idle"]
  /\ task' = [task EXCEPT ![s] = None]
  /\ wanted' = [wanted EXCEPT ![s] = {}]
  /\ left' = [left EXCEPT ![s] = {}]

\* The list goes to the object the handler holds, the screen shows the one of
\* the session, whatever was chosen in the meantime.
Loaded(s) ==
  LET list == GetPending(task[s].per, task[s].kind, task[s].days)
  IN  /\ pc[s] = "load"
      /\ IF mine[s]
           THEN /\ per' = task[s].per /\ items' = list /\ selected' = {}
                /\ searching' = IF list = {} THEN searching ELSE FALSE
                /\ mine' = [mine EXCEPT ![s] = FALSE]
                /\ UNCHANGED <<kind, days, guardVars>>
           ELSE IF list = {} THEN UNCHANGED <<stateVars, searching, mine>>
                             ELSE ShowSelection
      /\ EndSlot(s)
      /\ UNCHANGED <<urtp, faults, histVars>>

\* No such carrier, too many plates, or a query fails.
LoadFails(s) ==
  /\ pc[s] = "load" /\ Fault
  /\ mine' = [mine EXCEPT ![s] = FALSE]
  /\ EndSlot(s)
  /\ UNCHANGED <<stateVars, searching, urtp, histVars>>

-----------------------------------------------------------------------------
(* Confirmation and execution. *)

Chosen == {i \in items : i.key \in selected}

Confirm ==
  /\ IF ~Shows(kind, per, items) THEN Reset /\ UNCHANGED <<screens, shown>>
     ELSE IF Chosen = {} THEN ShowSelection /\ UNCHANGED <<screens, shown>>
     ELSE /\ screens < MaxScreens /\ screens' = screens + 1
          /\ pending' = [nonce |-> screens + 1, per |-> per, kind |-> kind,
                         days |-> days, keys |-> KeysOf(Chosen)]
          /\ shown' = [shown EXCEPT ![screens + 1] = [per |-> per, items |-> Chosen]]
          /\ UNCHANGED <<choiceVars, listVars, running, searching, mine>>
  /\ UNCHANGED <<pc, task, wanted, left, urtp, faults, runs, did, told>>

Runs(s, n, snap) ==
  /\ running' = TRUE
  /\ pc' = [pc EXCEPT ![s] = "fetch"]
  /\ mine' = [mine EXCEPT ![s] = TRUE]
  /\ task' = [task EXCEPT ![s] = snap]
  /\ runs' = [runs EXCEPT ![n] = @ + 1]
  /\ UNCHANGED <<choiceVars, listVars, searching, wanted, left, urtp, faults, screens,
                 shown, did, told>>

\* Mutants: the snapshot stays; no look at running; no look at the nonce.
ExecuteKeeps(s, n) ==
  /\ pc[s] = "idle" /\ pending # None /\ pending.nonce = n /\ ~running
  /\ Runs(s, n, pending) /\ UNCHANGED pending
ExecuteAnyTime(s, n) ==
  /\ pc[s] = "idle" /\ pending # None /\ pending.nonce = n
  /\ Runs(s, n, pending) /\ pending' = None
ExecuteAnyButton(s, n) ==
  /\ pc[s] = "idle" /\ n <= screens /\ pending # None /\ ~running
  /\ Runs(s, n, [pending EXCEPT !.nonce = n])
  /\ pending' = None

\* "Yes" of confirmation n.  Another snapshot or none: out of date; an
\* execution is on: ignored.  Neither changes anything.
Execute(s, n) ==
  /\ pc[s] = "idle"
  /\ pending # None /\ pending.nonce = n /\ ~running
  /\ Runs(s, n, pending)
  /\ pending' = None

SlotGoto(s, step) == pc' = [pc EXCEPT ![s] = step]

\* With the result, the list of the dialogue is dropped.
DropList(s) == IF mine[s] THEN items' = None /\ selected' = {} ELSE UNCHANGED listVars

\* provesti() compares the selection with a fresh list.
Fetch(s) ==
  LET todo == {i \in GetPending(task[s].per, task[s].kind, task[s].days) :
                 i.key \in task[s].keys}
  IN  /\ pc[s] = "fetch"
      /\ wanted' = [wanted EXCEPT ![s] = todo]
      /\ left' = [left EXCEPT ![s] = todo]
      /\ IF todo = {} THEN SlotGoto(s, "report") /\ DropList(s)
                      ELSE SlotGoto(s, "hist") /\ UNCHANGED listVars
      /\ UNCHANGED <<choiceVars, guardVars, searching, mine, task, urtp, faults, histVars>>

Register(s, B) ==
  /\ urtp' = urtp \cup {<<task[s].per, i.plate>> : i \in B}
  /\ did' = [did EXCEPT ![task[s].nonce] = @ \cup B]
  /\ left' = [left EXCEPT ![s] = @ \ B]
  /\ UNCHANGED <<screens, shown, runs, told>>

HistLeft(s) == {i \in left[s] : i.key \in Hist}

\* AddAmToTP / AddPrToTP commits one chunk of directory plates after the other.
AddHist(s) ==
  /\ pc[s] = "hist"
  /\ IF HistLeft(s) = {}
       THEN SlotGoto(s, "new") /\ UNCHANGED <<left, urtp, histVars>>
       ELSE \E B \in SUBSET HistLeft(s) :
              /\ B = HistLeft(s) \/ Cardinality(B) = Chunk
              /\ Cardinality(B) <= Chunk
              /\ Register(s, B)
              /\ UNCHANGED pc
  /\ UNCHANGED <<stateVars, searching, mine, task, wanted, faults>>

\* The first chunk that fails ends the directory plates.
HistFails(s) ==
  /\ pc[s] = "hist" /\ HistLeft(s) # {} /\ Fault
  /\ left' = [left EXCEPT ![s] = @ \ HistLeft(s)]
  /\ SlotGoto(s, "new")
  /\ UNCHANGED <<stateVars, searching, mine, task, wanted, urtp, histVars>>

\* New plates go in one by one.
InsertNew(s) ==
  /\ pc[s] = "new"
  /\ IF left[s] = {}
       THEN SlotGoto(s, "verify") /\ UNCHANGED <<left, urtp, histVars>>
       ELSE \E i \in left[s] : Register(s, {i}) /\ UNCHANGED pc
  /\ UNCHANGED <<stateVars, searching, mine, task, wanted, faults>>

NewFails(s) ==
  /\ pc[s] = "new" /\ Fault
  /\ \E i \in left[s] : left' = [left EXCEPT ![s] = @ \ {i}]
  /\ UNCHANGED <<stateVars, searching, pc, mine, task, wanted, urtp, histVars>>

\* The result: what is in URTP now.
Verified(s, S) ==
  /\ pc[s] = "verify"
  /\ left' = [left EXCEPT ![s] = {i \in S : <<task[s].per, i.plate>> \in urtp}]
  /\ DropList(s)
  /\ SlotGoto(s, "report")
  /\ UNCHANGED <<choiceVars, guardVars, searching, mine, task, wanted, urtp, faults, histVars>>

\* Mutant: only new plates are looked up.
VerifyNew(s) == Verified(s, {i \in wanted[s] : i.key \notin Hist})
Verify(s)    == Verified(s, wanted[s])

Release(s) ==
  /\ running' = (running /\ ~mine[s])
  /\ mine' = [mine EXCEPT ![s] = FALSE]
  /\ EndSlot(s)
  /\ UNCHANGED <<choiceVars, listVars, pending, searching, urtp>>

Report(s) ==
  /\ pc[s] = "report"
  /\ told' = [told EXCEPT ![task[s].nonce] = left[s]]
  /\ Release(s)
  /\ UNCHANGED <<faults, screens, shown, runs, did>>

\* The list, the final query or a message fails: "could not be registered".
ExecuteFails(s) ==
  /\ pc[s] \in {"fetch", "verify", "report"} /\ Fault
  /\ SlotGoto(s, "failed")
  /\ UNCHANGED <<stateVars, searching, mine, task, wanted, left, urtp, histVars>>

\* Mutant: no finally.
FailedHangs(s) ==
  /\ pc[s] = "failed"
  /\ EndSlot(s)
  /\ UNCHANGED <<stateVars, searching, mine, urtp, faults, histVars>>

Failed(s) == pc[s] = "failed" /\ Release(s) /\ UNCHANGED <<faults, histVars>>

\* The desktop program, or another chat, registers a plate.
Elsewhere(c, p) ==
  /\ <<c, p>> \notin urtp
  /\ urtp' = urtp \cup {<<c, p>>}
  /\ UNCHANGED <<stateVars, searching, slotVars, faults, histVars>>

-----------------------------------------------------------------------------
Press ==
  \/ Start \/ Select \/ AskSearch \/ Menu \/ Confirm
  \/ \E k \in Kinds : ChooseKind(k)
  \/ \E d \in Periods : ChooseDays(d)
  \/ \E x \in Keys : Tick(x)
  \/ \E all \in BOOLEAN : SelectAll(all)
  \/ \E s \in Slots : \/ SearchText(s)
                      \/ \E c \in Carriers : ChooseCarrier(s, c)
                      \/ \E n \in Nonces : Execute(s, n)

\* What an answer from Oracle or Telegram continues.
Step(s) ==
  \/ Searched(s) \/ Loaded(s) \/ Fetch(s) \/ AddHist(s) \/ InsertNew(s)
  \/ Verify(s) \/ Report(s) \/ Failed(s)

Rejection(s) == LoadFails(s) \/ HistFails(s) \/ NewFails(s) \/ ExecuteFails(s)

Next ==
  \/ Press
  \/ \E s \in Slots : Step(s) \/ Rejection(s)
  \/ \E c \in Carriers, p \in Plates : Elsewhere(c, p)

Spec == Init /\ [][Next]_vars

-----------------------------------------------------------------------------
(* Properties. *)

StateOK ==
  /\ kind \in Kinds \cup {None} /\ days \in Periods \cup {None}
  /\ per \in Carriers \cup {None}
  /\ items = None \/ items \in SUBSET AllItems
  /\ selected \subseteq IF items = None THEN {} ELSE KeysOf(items)
  /\ pending = None \/ pending \in Snapshots
  /\ running \in BOOLEAN /\ searching \in BOOLEAN

SlotsOK ==
  /\ pc \in [Slots -> {"idle", "search", "load", "fetch", "hist", "new", "verify",
                       "report", "failed"}]
  /\ mine \in [Slots -> BOOLEAN]
  /\ task \in [Slots -> {None} \cup Snapshots]
  /\ \A s \in Slots : pc[s] \notin {"idle", "search"} => task[s] \in Snapshots
  /\ wanted \in [Slots -> SUBSET AllItems] /\ left \in [Slots -> SUBSET AllItems]

HistoryOK ==
  /\ screens \in 0..MaxScreens
  /\ shown \in [Nonces -> {None} \cup [per : Carriers, items : SUBSET AllItems]]
  /\ runs \in [Nonces -> Nat] /\ did \in [Nonces -> SUBSET AllItems]
  /\ told \in [Nonces -> {None} \cup SUBSET AllItems]

TypeOK ==
  /\ StateOK /\ SlotsOK /\ HistoryOK
  /\ urtp \subseteq Carriers \X Plates /\ faults \in 0..MaxFaults

\* A confirmation is carried out at most once, however often its button is
\* pressed and whatever else runs meanwhile.
OneShot == \A n \in Nonces : runs[n] <= 1

Executing(s) == pc[s] \in {"fetch", "hist", "new", "verify", "report", "failed"}

\* Two executions of a chat overlap only when the dialogue was restarted while
\* the first one ran: "running" lasts as long as the execution it stands for.
RunsApart ==
  \A s, t \in Slots : Executing(s) /\ mine[s] /\ Executing(t) /\ mine[t] => s = t

\* The button of an old message never carries out the selection of today: what
\* is registered for a confirmation are keys it showed, for the carrier it named.
KeysWereShown ==
  \A n \in Nonces : did[n] # {} =>
    /\ n <= screens
    /\ KeysOf(did[n]) \subseteq KeysOf(shown[n].items)
    /\ \A i \in did[n] : <<shown[n].per, i.plate>> \in urtp

\* A report names every plate its execution registered, also when some of the
\* calls failed half-way.
ReportComplete == \A n \in Nonces : told[n] # None => did[n] \subseteq told[n]

\* The dialogue is locked only while a handler in flight will unlock it: no
\* failure on the way leaves "running" behind.
LockHeld == running => \E s \in Slots : Executing(s) /\ mine[s]

(* What the sources say and the code does not keep (see the README). *)

\* "We carry out exactly the snapshot that was shown".
AppliedWasShown == \A n \in Nonces : did[n] # {} => did[n] \subseteq shown[n].items

=============================================================================
