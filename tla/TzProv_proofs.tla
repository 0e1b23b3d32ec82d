---------------------------- MODULE TzProv_proofs ----------------------------
(* Theorems about TzProv, for every set of kinds, carriers, keys and slots.  *)
EXTENDS TzProv, TLAPS

-----------------------------------------------------------------------------
(* Types. *)

\* The list of a carrier consists of items.
LEMMA ListTyped ==
  ASSUME TzProvAssumption, NEW c \in Carriers, NEW k \in Kinds,
         NEW d \in Periods \cup {None}
  PROVE  GetPending(c, k, d) \in SUBSET AllItems
<1>1. CASE d = None
  BY <1>1 DEF GetPending
<1>2. CASE d # None
  <2>1. \A x \in Keys : Item(k, x) \in AllItems
    BY DEF Item, AllItems, TzProvAssumption
  <2>2. Requests[c, k, d] \in SUBSET Keys
    BY <1>2 DEF TzProvAssumption
  <2>3. \A i \in {Item(k, x) : x \in Requests[c, k, d]} : i \in AllItems
    BY <2>1, <2>2
  <2> QED
    BY <1>2, <2>3 DEF GetPending
<1> QED
  BY <1>1, <1>2

\* A new dialogue is typed.
LEMMA ResetTyped ==
  ASSUME SlotsOK, Reset
  PROVE  StateOK' /\ mine' \in [Slots -> BOOLEAN]
<1>1. mine' = [s \in Slots |-> FALSE] /\ Fresh
  BY DEF Reset
<1> QED
  BY <1>1 DEF Fresh, StateOK

\* So is what showSelection leaves of it.
LEMMA SelectionTyped ==
  ASSUME StateOK, SlotsOK, ShowSelection
  PROVE  StateOK' /\ mine' \in [Slots -> BOOLEAN]
<1>1. CASE Reset
  BY <1>1, ResetTyped
<1>2. CASE searching' = FALSE /\ UNCHANGED <<stateVars, mine>>
  BY <1>2 DEF StateOK, SlotsOK, stateVars, choiceVars, listVars, guardVars
<1> QED
  BY <1>1, <1>2 DEF ShowSelection

\* Presses that only touch the dialogue keep its type.
LEMMA PressTyped ==
  ASSUME TypeOK,
         \/ Start \/ Select \/ AskSearch \/ Menu
         \/ \E k \in Kinds : ChooseKind(k)
         \/ \E d \in Periods : ChooseDays(d)
         \/ \E x \in Keys : Tick(x)
         \/ \E all \in BOOLEAN : SelectAll(all)
  PROVE  TypeOK'
<1> SUFFICES StateOK' /\ mine' \in [Slots -> BOOLEAN]
             /\ UNCHANGED <<pc, task, wanted, left, urtp, faults, histVars>>
  BY DEF TypeOK, SlotsOK, HistoryOK, histVars
<1> USE DEF TypeOK
<1>1. CASE Start
  BY <1>1, ResetTyped DEF Start
<1>2. CASE Select
  BY <1>2, SelectionTyped DEF Select
<1>3. CASE AskSearch
  <2>1. CASE Reset
    BY <1>3, <2>1, ResetTyped DEF AskSearch
  <2>2. CASE searching' = TRUE /\ UNCHANGED <<stateVars, mine>>
    BY <1>3, <2>2 DEF AskSearch, StateOK, SlotsOK, stateVars, choiceVars, listVars, guardVars
  <2> QED
    BY <1>3, <2>1, <2>2 DEF AskSearch
<1>4. CASE Menu
  BY <1>4 DEF Menu, StateOK, SlotsOK, slotVars, stateVars, choiceVars, listVars, guardVars
<1>5. ASSUME NEW k \in Kinds, ChooseKind(k)
      PROVE  StateOK' /\ mine' \in [Slots -> BOOLEAN]
             /\ UNCHANGED <<pc, task, wanted, left, urtp, faults, histVars>>
  BY <1>5 DEF ChooseKind, StateOK, SlotsOK, slotVars, listVars, guardVars
<1>6. ASSUME NEW d \in Periods, ChooseDays(d)
      PROVE  StateOK' /\ mine' \in [Slots -> BOOLEAN]
             /\ UNCHANGED <<pc, task, wanted, left, urtp, faults, histVars>>
  BY <1>6 DEF ChooseDays, StateOK, SlotsOK, slotVars
<1>7. ASSUME NEW x \in Keys, Tick(x)
      PROVE  StateOK' /\ mine' \in [Slots -> BOOLEAN]
             /\ UNCHANGED <<pc, task, wanted, left, urtp, faults, histVars>>
  <2>1. CASE Reset
    BY <1>7, <2>1, ResetTyped DEF Tick
  <2>2. CASE ~Reset
    <3>1. /\ selected' \in {selected \ {x}, selected \cup {x}}
          /\ pending' = None /\ searching' = FALSE
          /\ UNCHANGED <<kind, days, per, items, running, mine>>
          /\ items # None /\ x \in KeysOf(items)
          /\ UNCHANGED <<pc, task, wanted, left, urtp, faults, histVars>>
      BY <1>7, <2>2 DEF Tick, choiceVars
    <3>2. selected' \subseteq IF items = None THEN {} ELSE KeysOf(items)
      BY <3>1 DEF StateOK
    <3>3. StateOK'
      BY <3>1, <3>2 DEF StateOK
    <3> QED
      BY <3>1, <3>3 DEF SlotsOK
  <2> QED
    BY <2>1, <2>2
<1>8. ASSUME NEW all \in BOOLEAN, SelectAll(all)
      PROVE  StateOK' /\ mine' \in [Slots -> BOOLEAN]
             /\ UNCHANGED <<pc, task, wanted, left, urtp, faults, histVars>>
  <2>1. CASE Reset
    BY <1>8, <2>1, ResetTyped DEF SelectAll
  <2>2. CASE ~Reset
    BY <1>8, <2>2 DEF SelectAll, Shows, StateOK, SlotsOK, choiceVars
  <2> QED
    BY <2>1, <2>2
<1> QED
  BY <1>1, <1>2, <1>3, <1>4, <1>5, <1>6, <1>7, <1>8

\* A handler that ends leaves its slot typed.
LEMMA EndTyped ==
  ASSUME SlotsOK, NEW s \in Slots, EndSlot(s), mine' \in [Slots -> BOOLEAN]
  PROVE  SlotsOK'
  BY DEF SlotsOK, EndSlot

\* A search by name.
LEMMA SearchTyped ==
  ASSUME TypeOK, NEW s \in Slots, SearchText(s) \/ Searched(s)
  PROVE  TypeOK'
<1> USE DEF TypeOK
<1>1. CASE SearchText(s)
  <2>1. CASE Reset /\ UNCHANGED pc
    BY <1>1, <2>1, ResetTyped DEF SearchText, SlotsOK, HistoryOK, histVars
  <2>2. CASE pc' = [pc EXCEPT ![s] = "search"] /\ UNCHANGED <<stateVars, searching, mine>>
    BY <1>1, <2>2 DEF SearchText, StateOK, SlotsOK, HistoryOK, histVars, stateVars,
                      choiceVars, listVars, guardVars
  <2> QED
    BY <1>1, <2>1, <2>2 DEF SearchText
<1>2. CASE Searched(s)
  BY <1>2 DEF Searched, StateOK, SlotsOK, HistoryOK, histVars, stateVars,
              choiceVars, listVars, guardVars
<1> QED
  BY <1>1, <1>2

\* The choice of a carrier starts a typed task.
LEMMA CarrierTyped ==
  ASSUME TypeOK, NEW s \in Slots, NEW c \in Carriers, ChooseCarrier(s, c)
  PROVE  TypeOK'
<1> USE DEF TypeOK
<1>1. CASE Reset /\ UNCHANGED <<pc, task>>
  BY <1>1, ResetTyped DEF ChooseCarrier, SlotsOK, HistoryOK, histVars
<1>2. CASE ~(kind = None \/ days = None)
  <2> DEFINE job == [nonce |-> None, per |-> c, kind |-> kind, days |-> days, keys |-> {}]
  <2>1. job \in Snapshots
    BY <1>2 DEF StateOK, Snapshots
  <2>2. /\ pending' = None /\ searching' = FALSE
        /\ pc' = [pc EXCEPT ![s] = "load"]
        /\ mine' = [mine EXCEPT ![s] = TRUE]
        /\ task' = [task EXCEPT ![s] = job]
        /\ UNCHANGED <<kind, days, per, items, selected, running, wanted, left, urtp,
                       faults, histVars>>
    BY <1>2 DEF ChooseCarrier, choiceVars, listVars
  <2> HIDE DEF job
  <2>3. StateOK'
    BY <2>2 DEF StateOK
  <2>4. SlotsOK'
    BY <2>1, <2>2 DEF SlotsOK
  <2> QED
    BY <2>2, <2>3, <2>4 DEF HistoryOK, histVars
<1> QED
  BY <1>1, <1>2 DEF ChooseCarrier

\* The list that arrives is typed, and so is what it leaves of the dialogue.
LEMMA LoadTyped ==
  ASSUME TzProvAssumption, TypeOK, NEW s \in Slots, Loaded(s) \/ LoadFails(s)
  PROVE  TypeOK'
<1> USE DEF TypeOK
<1>1. pc[s] = "load" /\ task[s] \in Snapshots /\ EndSlot(s) /\ UNCHANGED <<urtp, histVars>>
  BY DEF Loaded, LoadFails, SlotsOK
<1>2. StateOK' /\ mine' \in [Slots -> BOOLEAN]
  <2> DEFINE list == GetPending(task[s].per, task[s].kind, task[s].days)
  <2>1. task[s].per \in Carriers /\ list \in SUBSET AllItems
    BY <1>1, ListTyped DEF Snapshots
  <2> HIDE DEF list
  <2>2. CASE LoadFails(s)
    BY <2>2 DEF LoadFails, StateOK, SlotsOK, stateVars, choiceVars, listVars, guardVars
  <2>3. CASE Loaded(s) /\ mine[s]
    BY <2>1, <2>3 DEF Loaded, StateOK, SlotsOK, guardVars, list
  <2>4. CASE UNCHANGED <<stateVars, searching, mine>>
    BY <2>4 DEF StateOK, SlotsOK, stateVars, choiceVars, listVars, guardVars
  <2> QED
    BY <2>2, <2>3, <2>4, SelectionTyped DEF Loaded
<1>3. faults' \in 0..MaxFaults
  <2>1. CASE Loaded(s)
    BY <2>1 DEF Loaded
  <2>2. CASE LoadFails(s)
    BY <2>2 DEF LoadFails, Fault, TzProvAssumption
  <2> QED
    BY <2>1, <2>2
<1> QED
  BY <1>1, <1>2, <1>3, EndTyped DEF HistoryOK, histVars

\* A confirmation takes a typed snapshot.
LEMMA ConfirmTyped ==
  ASSUME TzProvAssumption, TypeOK, Confirm
  PROVE  TypeOK'
<1> USE DEF TypeOK
<1>1. CASE (Reset \/ ShowSelection) /\ UNCHANGED <<screens, shown>>
  BY <1>1, ResetTyped, SelectionTyped DEF Confirm, SlotsOK, HistoryOK
<1>2. CASE Shows(kind, per, items) /\ Chosen # {}
  <2> DEFINE keys == KeysOf(Chosen)
             snap == [nonce |-> screens + 1, per |-> per, kind |-> kind, days |-> days,
                      keys |-> keys]
             row == [per |-> per, items |-> Chosen]
  <2>1. /\ screens < MaxScreens /\ screens' = screens + 1
        /\ pending' = snap
        /\ shown' = [shown EXCEPT ![screens + 1] = row]
        /\ UNCHANGED <<kind, days, per, items, selected, running, searching, mine, pc,
                       task, wanted, left, urtp, faults, runs, did, told>>
    BY <1>2 DEF Confirm, choiceVars, listVars
  <2>2. Chosen \in SUBSET AllItems /\ keys \in SUBSET Keys
    BY <1>2 DEF Chosen, Shows, StateOK, KeysOf, AllItems
  <2>3. screens + 1 \in Nonces
    BY <2>1 DEF HistoryOK, Nonces, TzProvAssumption
  <2>4. kind \in Kinds /\ per \in Carriers /\ days \in Periods \cup {None}
    BY <1>2 DEF Shows, StateOK
  <2>5. row \in [per : Carriers, items : SUBSET AllItems]
    BY <2>2, <2>4
  <2>6. snap \in Snapshots
    BY <2>2, <2>3, <2>4 DEF Snapshots
  <2> HIDE DEF snap, row, keys
  <2>7. StateOK'
    BY <2>1, <2>6 DEF StateOK
  <2>8. SlotsOK'
    BY <2>1 DEF SlotsOK
  <2>9. shown' \in [Nonces -> {None} \cup [per : Carriers, items : SUBSET AllItems]]
    BY <2>1, <2>5 DEF HistoryOK
  <2>10. screens' \in 0..MaxScreens
    BY <2>1 DEF HistoryOK, TzProvAssumption
  <2> QED
    BY <2>1, <2>7, <2>8, <2>9, <2>10 DEF HistoryOK
<1> QED
  BY <1>1, <1>2 DEF Confirm

\* The start of an execution.
LEMMA ExecuteTyped ==
  ASSUME TypeOK, NEW s \in Slots, NEW n \in Nonces, Execute(s, n)
  PROVE  TypeOK'
<1> USE DEF TypeOK
<1>1. /\ pending \in Snapshots
      /\ pending' = None /\ running' = TRUE
      /\ pc' = [pc EXCEPT ![s] = "fetch"]
      /\ mine' = [mine EXCEPT ![s] = TRUE]
      /\ task' = [task EXCEPT ![s] = pending]
      /\ runs' = [runs EXCEPT ![n] = @ + 1]
      /\ UNCHANGED <<kind, days, per, items, selected, searching, wanted, left, urtp,
                     faults, screens, shown, did, told>>
  BY DEF Execute, Runs, StateOK, choiceVars, listVars
<1>2. StateOK'
  BY <1>1 DEF StateOK
<1>3. SlotsOK'
  BY <1>1 DEF SlotsOK
<1>4. runs' \in [Nonces -> Nat]
  BY <1>1 DEF HistoryOK
<1> QED
  BY <1>1, <1>2, <1>3, <1>4 DEF HistoryOK

\* The list of the dialogue may be dropped without harm.
LEMMA DropTyped ==
  ASSUME StateOK, NEW s \in Slots, DropList(s) \/ UNCHANGED listVars,
         UNCHANGED <<choiceVars, guardVars, searching>>
  PROVE  StateOK'
  BY DEF StateOK, DropList, choiceVars, listVars, guardVars

\* Registering some of the items left.
LEMMA RegisterTyped ==
  ASSUME TypeOK, NEW s \in Slots, NEW B, B \subseteq left[s], pc[s] \in {"hist", "new"},
         Register(s, B)
  PROVE  /\ HistoryOK'
         /\ left' \in [Slots -> SUBSET AllItems]
         /\ urtp' \subseteq Carriers \X Plates
<1> USE DEF TypeOK
<1>1. task[s] \in Snapshots /\ left[s] \in SUBSET AllItems
  BY DEF SlotsOK
<1>2. B \in SUBSET AllItems
  BY <1>1
<1>3. did' \in [Nonces -> SUBSET AllItems]
  BY <1>2 DEF Register, HistoryOK
<1>4. {<<task[s].per, i.plate>> : i \in B} \subseteq Carriers \X Plates
  BY <1>1, <1>2 DEF Snapshots, AllItems
<1>5. left' \in [Slots -> SUBSET AllItems]
  BY <1>1 DEF Register, SlotsOK
<1> QED
  BY <1>3, <1>4, <1>5 DEF Register, HistoryOK

\* The steps of an execution up to its report.
LEMMA ProvestiTyped ==
  ASSUME TzProvAssumption, TypeOK, NEW s \in Slots,
         \/ Fetch(s) \/ AddHist(s) \/ HistFails(s) \/ InsertNew(s) \/ NewFails(s)
         \/ Verify(s) \/ ExecuteFails(s)
  PROVE  TypeOK'
<1> USE DEF TypeOK
<1> DEFINE StillOK == StateOK' /\ faults' \in 0..MaxFaults
<1>1. CASE Fetch(s)
  <2> DEFINE todo == {i \in GetPending(task[s].per, task[s].kind, task[s].days) :
                        i.key \in task[s].keys}
  <2>1. todo \in SUBSET AllItems
    BY <1>1, ListTyped DEF Fetch, SlotsOK, Snapshots
  <2>2. /\ wanted' = [wanted EXCEPT ![s] = todo]
        /\ left' = [left EXCEPT ![s] = todo]
        /\ pc' \in {[pc EXCEPT ![s] = "report"], [pc EXCEPT ![s] = "hist"]}
        /\ DropList(s) \/ UNCHANGED listVars
        /\ UNCHANGED <<choiceVars, guardVars, searching, mine, task, urtp, faults, histVars>>
    BY <1>1 DEF Fetch, SlotGoto
  <2> HIDE DEF todo
  <2>3. task[s] \in Snapshots
    BY <1>1 DEF Fetch, SlotsOK
  <2>4. SlotsOK'
    BY <2>1, <2>2, <2>3 DEF SlotsOK
  <2> QED
    BY <2>2, <2>4, DropTyped DEF HistoryOK, histVars
<1>2. ASSUME UNCHANGED <<stateVars, searching, mine, task, wanted>>,
             task[s] \in Snapshots,
             \E step \in {"hist", "new", "verify", "failed"} :
               pc' = pc \/ pc' = [pc EXCEPT ![s] = step],
             left' \in [Slots -> SUBSET AllItems]
      PROVE  StateOK' /\ SlotsOK'
  <2>1. StateOK'
    BY <1>2 DEF StateOK, stateVars, choiceVars, listVars, guardVars
  <2>2. SlotsOK'
    BY <1>2 DEF SlotsOK
  <2> QED
    BY <2>1, <2>2
<1>3. pc[s] \notin {"idle", "search"} => task[s] \in Snapshots
  BY DEF SlotsOK
<1>4. CASE AddHist(s)
  <2>1. CASE SlotGoto(s, "new") /\ UNCHANGED <<left, urtp, histVars>>
    BY <1>2, <1>3, <1>4, <2>1 DEF AddHist, SlotGoto, SlotsOK, HistoryOK, histVars
  <2>2. CASE \E B \in SUBSET HistLeft(s) : Register(s, B) /\ UNCHANGED pc
    <3>1. PICK B \in SUBSET HistLeft(s) : Register(s, B) /\ UNCHANGED pc
      BY <2>2
    <3>2. B \subseteq left[s]
      BY DEF HistLeft
    <3> QED
      BY <1>2, <1>3, <1>4, <3>1, <3>2, RegisterTyped DEF AddHist
  <2> QED
    BY <1>4, <2>1, <2>2 DEF AddHist
<1>5. CASE HistFails(s)
  <2>1. left' \in [Slots -> SUBSET AllItems]
    BY <1>5 DEF HistFails, SlotsOK
  <2>2. faults' \in 0..MaxFaults
    BY <1>5 DEF HistFails, Fault, TzProvAssumption
  <2> QED
    BY <1>2, <1>3, <1>5, <2>1, <2>2 DEF HistFails, SlotGoto, HistoryOK, histVars
<1>6. CASE InsertNew(s)
  <2>1. CASE SlotGoto(s, "verify") /\ UNCHANGED <<left, urtp, histVars>>
    BY <1>2, <1>3, <1>6, <2>1 DEF InsertNew, SlotGoto, SlotsOK, HistoryOK, histVars
  <2>2. CASE \E i \in left[s] : Register(s, {i}) /\ UNCHANGED pc
    <3>1. PICK i \in left[s] : Register(s, {i}) /\ UNCHANGED pc
      BY <2>2
    <3>2. {i} \subseteq left[s]
      OBVIOUS
    <3> QED
      BY <1>2, <1>3, <1>6, <3>1, <3>2, RegisterTyped DEF InsertNew
  <2> QED
    BY <1>6, <2>1, <2>2 DEF InsertNew
<1>7. CASE NewFails(s)
  <2>1. left' \in [Slots -> SUBSET AllItems]
    BY <1>7 DEF NewFails, SlotsOK
  <2>2. faults' \in 0..MaxFaults
    BY <1>7 DEF NewFails, Fault, TzProvAssumption
  <2> QED
    BY <1>2, <1>3, <1>7, <2>1, <2>2 DEF NewFails, HistoryOK, histVars
<1>8. CASE Verify(s)
  <2>1. /\ left' = [left EXCEPT ![s] = {i \in wanted[s] : <<task[s].per, i.plate>> \in urtp}]
        /\ DropList(s) /\ pc' = [pc EXCEPT ![s] = "report"] /\ pc[s] = "verify"
        /\ UNCHANGED <<choiceVars, guardVars, searching, mine, task, wanted, urtp, faults,
                       histVars>>
    BY <1>8 DEF Verify, Verified, SlotGoto
  <2>2. left' \in [Slots -> SUBSET AllItems]
    BY <2>1 DEF SlotsOK
  <2>3. SlotsOK'
    BY <1>3, <2>1, <2>2 DEF SlotsOK
  <2> QED
    BY <2>1, <2>3, DropTyped DEF HistoryOK, histVars
<1>9. CASE ExecuteFails(s)
  <2>1. faults' \in 0..MaxFaults
    BY <1>9 DEF ExecuteFails, Fault, TzProvAssumption
  <2> QED
    BY <1>2, <1>3, <1>9, <2>1 DEF ExecuteFails, SlotGoto, SlotsOK, HistoryOK, histVars
<1> QED
  BY <1>1, <1>4, <1>5, <1>6, <1>7, <1>8, <1>9

\* The report, or the message that there is none.
LEMMA ReleaseTyped ==
  ASSUME TypeOK, NEW s \in Slots, Report(s) \/ Failed(s)
  PROVE  TypeOK'
<1> USE DEF TypeOK
<1>1. Release(s) /\ UNCHANGED <<faults, screens, shown, runs, did>>
  BY DEF Report, Failed, histVars
<1>2. StateOK' /\ mine' \in [Slots -> BOOLEAN]
  BY <1>1 DEF Release, StateOK, SlotsOK, choiceVars, listVars
<1>3. told' \in [Nonces -> {None} \cup SUBSET AllItems]
  BY DEF Report, Failed, HistoryOK, SlotsOK, histVars
<1> QED
  BY <1>1, <1>2, <1>3, EndTyped DEF Release, HistoryOK

\* The dialogue begins typed.
LEMMA TypeInit == Init => TypeOK
<1> SUFFICES ASSUME Init PROVE TypeOK
  OBVIOUS
<1>1. StateOK
  BY DEF Init, StateOK
<1>2. SlotsOK
  BY DEF Init, SlotsOK
<1>3. HistoryOK
  BY TzProvAssumption DEF Init, HistoryOK, TzProvAssumption
<1> QED
  BY <1>1, <1>2, <1>3, TzProvAssumption DEF Init, TypeOK, TzProvAssumption

\* No step breaks a type.
LEMMA TypeNext == TypeOK /\ [Next]_vars => TypeOK'
<1> SUFFICES ASSUME TypeOK, [Next]_vars PROVE TypeOK'
  OBVIOUS
<1> USE TzProvAssumption
<1>1. CASE Press
  BY <1>1, PressTyped, ConfirmTyped, SearchTyped, CarrierTyped, ExecuteTyped DEF Press
<1>2. ASSUME NEW s \in Slots, Step(s) \/ Rejection(s) PROVE TypeOK'
  BY <1>2, SearchTyped, LoadTyped, ProvestiTyped, ReleaseTyped DEF Step, Rejection
<1>3. ASSUME NEW c \in Carriers, NEW q \in Plates, Elsewhere(c, q) PROVE TypeOK'
  BY <1>3 DEF Elsewhere, TypeOK, StateOK, SlotsOK, HistoryOK, stateVars, choiceVars,
              listVars, guardVars, slotVars, histVars
<1>4. CASE UNCHANGED vars
  BY <1>4 DEF vars, TypeOK, StateOK, SlotsOK, HistoryOK, stateVars, choiceVars,
              listVars, guardVars, slotVars, histVars
<1> QED
  BY <1>1, <1>2, <1>3, <1>4 DEF Next

\* Every variable keeps its type: the dialogue of any set of kinds, carriers
\* and plates, with any number of handlers in flight.
THEOREM TypeCorrect == Spec => []TypeOK
  BY TypeInit, TypeNext, PTL DEF Spec

-----------------------------------------------------------------------------
(* The inductive invariant. *)

\* A confirmation that can still be carried out never was.
NonceInv ==
  /\ pending # None => pending.nonce \in 1..screens /\ runs[pending.nonce] = 0
  /\ \A n \in Nonces : runs[n] <= 1 /\ (n > screens => runs[n] = 0)

\* "running" is on exactly while an execution of this dialogue is in flight,
\* and there is one at most.
LockInv ==
  /\ RunsApart /\ LockHeld
  /\ \A s \in Slots : Executing(s) /\ mine[s] => running

\* A snapshot names the carrier and keys of the confirmation it was taken for.
Faithful(snap) ==
  /\ snap.nonce \in 1..screens
  /\ snap.per = shown[snap.nonce].per
  /\ snap.keys \subseteq KeysOf(shown[snap.nonce].items)

ShownInv ==
  /\ pending # None => Faithful(pending)
  /\ \A s \in Slots : Executing(s) => Faithful(task[s])
  /\ \A s \in Slots : pc[s] \in {"hist", "new"} =>
       \A i \in left[s] : i.key \in task[s].keys
  /\ KeysWereShown

\* What an execution has registered by the time it has reached a step.
Accounted(s) ==
  LET done == did[task[s].nonce]
  IN  /\ pc[s] = "fetch" => done = {}
      /\ pc[s] \in {"hist", "new", "verify"} => done \cup left[s] \subseteq wanted[s]
      /\ pc[s] = "report" => done \subseteq left[s]

ReportInv ==
  /\ \A s \in Slots : Executing(s) =>
       runs[task[s].nonce] = 1 /\ told[task[s].nonce] = None /\ Accounted(s)
  /\ \A s, t \in Slots :
       Executing(s) /\ Executing(t) /\ task[s].nonce = task[t].nonce => s = t
  /\ \A n \in Nonces : runs[n] = 0 => did[n] = {} /\ told[n] = None
  /\ ReportComplete

Inv == TypeOK /\ NonceInv /\ LockInv /\ ShownInv /\ ReportInv

-----------------------------------------------------------------------------
(* Steps that leave confirmations and executions alone. *)

\* The dialogue moves on or is restarted; URTP may grow.
Quiet ==
  /\ UNCHANGED histVars
  /\ urtp \subseteq urtp'
  /\ pending' \in {pending, None}
  /\ \A s \in Slots : Executing(s) \/ Executing(s)' =>
       UNCHANGED <<pc[s], task[s], wanted[s], left[s]>>
  /\ \/ /\ running' = running
        /\ \A s \in Slots : Executing(s) => mine'[s] = mine[s]
     \/ /\ running' = FALSE
        /\ mine' = [s \in Slots |-> FALSE]

\* A restart does not touch the history.
LEMMA ResetQuiet ==
  ASSUME Reset, UNCHANGED <<task, wanted, left, urtp, histVars>>,
         \A s \in Slots : Executing(s) \/ Executing(s)' => pc'[s] = pc[s]
  PROVE  Quiet
  BY DEF Reset, Fresh, Quiet

\* Nor does a step that keeps the lock.
LEMMA KeepQuiet ==
  ASSUME UNCHANGED <<running, mine, histVars>>, pending' \in {pending, None},
         urtp \subseteq urtp',
         \A s \in Slots : Executing(s) \/ Executing(s)' =>
           UNCHANGED <<pc[s], task[s], wanted[s], left[s]>>
  PROVE  Quiet
  BY DEF Quiet

\* Presses of the dialogue, answers to a search, other programs.
LEMMA DialogueQuiet ==
  ASSUME TypeOK,
         \/ Start \/ Select \/ AskSearch \/ Menu
         \/ \E k \in Kinds : ChooseKind(k)
         \/ \E d \in Periods : ChooseDays(d)
         \/ \E x \in Keys : Tick(x)
         \/ \E all \in BOOLEAN : SelectAll(all)
         \/ \E c \in Carriers, q \in Plates : Elsewhere(c, q)
         \/ UNCHANGED vars
  PROVE  Quiet
<1>1. /\ UNCHANGED <<pc, task, wanted, left, histVars>> /\ urtp \subseteq urtp'
      /\ \/ Reset /\ UNCHANGED urtp
         \/ UNCHANGED <<running, mine>> /\ pending' \in {pending, None}
  <2>1. CASE Start
    BY <2>1 DEF Start
  <2>2. CASE Select
    BY <2>2 DEF Select, ShowSelection, stateVars, guardVars
  <2>3. CASE AskSearch
    BY <2>3 DEF AskSearch, stateVars, guardVars
  <2>4. CASE Menu
    BY <2>4 DEF Menu, stateVars, guardVars, slotVars
  <2>5. CASE \E k \in Kinds : ChooseKind(k)
    BY <2>5 DEF ChooseKind, guardVars, slotVars
  <2>6. CASE \E d \in Periods : ChooseDays(d)
    BY <2>6 DEF ChooseDays, slotVars
  <2>7. CASE \E x \in Keys : Tick(x)
    BY <2>7 DEF Tick
  <2>8. CASE \E all \in BOOLEAN : SelectAll(all)
    BY <2>8 DEF SelectAll
  <2>9. CASE \E c \in Carriers, q \in Plates : Elsewhere(c, q)
    BY <2>9 DEF Elsewhere, stateVars, guardVars, slotVars
  <2>10. CASE UNCHANGED vars
    BY <2>10 DEF vars, stateVars, guardVars, slotVars
  <2> QED
    BY <2>1, <2>2, <2>3, <2>4, <2>5, <2>6, <2>7, <2>8, <2>9, <2>10
<1> QED
  BY <1>1, ResetQuiet, KeepQuiet

\* Handlers that search or load.
LEMMA SearchQuiet ==
  ASSUME TypeOK, NEW s \in Slots,
         \/ SearchText(s) \/ Searched(s) \/ Loaded(s) \/ LoadFails(s)
         \/ \E c \in Carriers : ChooseCarrier(s, c)
  PROVE  Quiet
<1> USE DEF TypeOK, SlotsOK
<1>1. ~Executing(s) /\ ~Executing(s)'
  <2>1. pc[s] \in {"idle", "search", "load"} /\ pc'[s] \in {"idle", "search", "load"}
    BY DEF SearchText, Searched, Loaded, LoadFails, ChooseCarrier, EndSlot
  <2> QED
    BY <2>1 DEF Executing
<1>2. \A t \in Slots \ {s} : UNCHANGED <<pc[t], task[t], wanted[t], left[t]>>
  <2>1. CASE SearchText(s) \/ Searched(s)
    BY <2>1 DEF SearchText, Searched
  <2>2. CASE Loaded(s) \/ LoadFails(s)
    BY <2>2 DEF Loaded, LoadFails, EndSlot
  <2>3. CASE \E c \in Carriers : ChooseCarrier(s, c)
    BY <2>3 DEF ChooseCarrier
  <2> QED
    BY <2>1, <2>2, <2>3
<1>3. /\ UNCHANGED <<urtp, histVars>> /\ pending' \in {pending, None}
      /\ \/ Reset
         \/ UNCHANGED running /\ \A t \in Slots \ {s} : mine'[t] = mine[t]
  <2>1. CASE SearchText(s) \/ Searched(s)
    BY <2>1 DEF SearchText, Searched, stateVars, guardVars, Reset, Fresh
  <2>2. CASE Loaded(s) /\ mine[s]
    BY <2>2 DEF Loaded, guardVars
  <2>3. CASE Loaded(s) /\ ~mine[s]
    BY <2>3 DEF Loaded, ShowSelection, stateVars, guardVars, Reset, Fresh
  <2>4. CASE LoadFails(s)
    BY <2>4 DEF LoadFails, stateVars, guardVars
  <2>5. CASE \E c \in Carriers : ChooseCarrier(s, c)
    BY <2>5 DEF ChooseCarrier, Reset, Fresh
  <2> QED
    BY <2>1, <2>2, <2>3, <2>4, <2>5
<1> QED
  BY <1>1, <1>2, <1>3 DEF Quiet, Reset, Fresh

\* They preserve the invariant.
LEMMA QuietInv ==
  ASSUME Inv, Quiet PROVE (NonceInv /\ LockInv /\ ShownInv /\ ReportInv)'
<1>1. NonceInv'
  BY DEF Quiet, Inv, NonceInv, histVars
<1>2. \A s \in Slots : Executing(s)' = Executing(s)
  BY DEF Quiet, Executing
<1>3. LockInv'
  BY <1>2 DEF Quiet, Inv, LockInv, RunsApart, LockHeld
<1>4. ShownInv'
  <2>1. \A snap : Faithful(snap)' = Faithful(snap)
    BY DEF Faithful, Quiet, histVars
  <2>2. \A s \in Slots : pc'[s] \in {"hist", "new"} =>
          pc[s] \in {"hist", "new"} /\ UNCHANGED <<left[s], task[s]>>
    BY <1>2 DEF Executing, Quiet
  <2>3. KeysWereShown'
    BY DEF Quiet, Inv, ShownInv, KeysWereShown, histVars
  <2>4. pending' # None => Faithful(pending)'
    BY <2>1 DEF Quiet, Inv, ShownInv, Faithful, histVars
  <2>5. ASSUME NEW s \in Slots, Executing(s)' PROVE Faithful(task[s])'
    BY <1>2, <2>5 DEF Quiet, Inv, ShownInv, Faithful, histVars
  <2> QED
    BY <2>2, <2>3, <2>4, <2>5 DEF Inv, ShownInv
<1>5. ReportInv'
  BY <1>2 DEF Quiet, Inv, ReportInv, Accounted, ReportComplete, histVars
<1> QED
  BY <1>1, <1>3, <1>4, <1>5

-----------------------------------------------------------------------------
(* Confirmations and executions. *)

\* A confirmation gets a nonce nobody has used and shows what it takes.
LEMMA ConfirmInv ==
  ASSUME Inv, Confirm PROVE (NonceInv /\ LockInv /\ ShownInv /\ ReportInv)'
<1> USE TzProvAssumption
<1>1. UNCHANGED <<pc, task, wanted, left, urtp, faults, runs, did, told>>
  BY DEF Confirm
<1>2. CASE UNCHANGED <<screens, shown>> /\ (Reset \/ ShowSelection)
  <2>1. CASE Reset
    BY <1>1, <1>2, <2>1, ResetQuiet, QuietInv DEF histVars
  <2>2. CASE UNCHANGED <<stateVars, mine>>
    BY <1>1, <1>2, <2>2, KeepQuiet, QuietInv DEF histVars, stateVars, guardVars
  <2> QED
    BY <1>2, <2>1, <2>2 DEF ShowSelection
<1>3. CASE Shows(kind, per, items) /\ Chosen # {}
  <2>1. /\ screens < MaxScreens /\ screens' = screens + 1
        /\ pending'.nonce = screens' /\ pending'.per = per
        /\ pending'.keys = KeysOf(Chosen)
        /\ shown' = [shown EXCEPT ![screens + 1] = [per |-> per, items |-> Chosen]]
        /\ UNCHANGED <<running, mine>>
    BY <1>3 DEF Confirm
  <2>2. screens \in Nat /\ screens' \in Nonces
    BY <2>1 DEF Inv, TypeOK, HistoryOK, TzProvAssumption, Nonces
  <2>3. shown \in [Nonces -> {None} \cup [per : Carriers, items : SUBSET AllItems]]
    BY DEF Inv, TypeOK, HistoryOK
  <2>4. shown'[screens'] = [per |-> per, items |-> Chosen]
    BY <2>1, <2>2, <2>3
  <2>5. \A n \in 1..screens : shown'[n] = shown[n]
    BY <2>1, <2>2, <2>3
  <2>6. NonceInv'
    BY <1>1, <2>1, <2>2 DEF Inv, NonceInv
  <2>7. LockInv'
    BY <1>1, <2>1 DEF Inv, LockInv, RunsApart, LockHeld, Executing
  <2>8. ShownInv'
    <3>1. \A snap : Faithful(snap) => Faithful(snap)'
      BY <2>1, <2>2, <2>5 DEF Faithful
    <3>2. Faithful(pending)'
      BY <2>1, <2>2, <2>4 DEF Faithful
    <3>3. \A s \in Slots : Executing(s)' => Faithful(task[s])'
      BY <1>1, <3>1 DEF Executing, Inv, ShownInv
    <3>4. KeysWereShown'
      <4> SUFFICES ASSUME NEW n \in Nonces, did[n] # {}
                   PROVE  /\ n <= screens'
                          /\ KeysOf(did[n]) \subseteq KeysOf(shown'[n].items)
                          /\ \A i \in did[n] : <<shown'[n].per, i.plate>> \in urtp
        BY <1>1 DEF KeysWereShown
      <4>1. KeysWereShown /\ n \in 1..screens
        <5>1. KeysWereShown
          BY DEF Inv, ShownInv
        <5>2. n <= screens
          BY <5>1 DEF KeysWereShown
        <5> QED
          BY <2>2, <5>1, <5>2 DEF Nonces, TzProvAssumption
      <4>2. shown'[n] = shown[n] /\ n <= screens'
        BY <2>1, <2>2, <2>5, <4>1
      <4> QED
        BY <4>1, <4>2 DEF KeysWereShown
    <3> QED
      BY <1>1, <3>2, <3>3, <3>4 DEF Inv, ShownInv
  <2>9. ReportInv'
    BY <1>1 DEF Inv, ReportInv, Executing, Accounted, ReportComplete
  <2> QED
    BY <2>6, <2>7, <2>8, <2>9
<1> QED
  BY <1>2, <1>3 DEF Confirm

\* "Yes" uses its confirmation up and takes the lock.
LEMMA ExecuteInv ==
  ASSUME Inv, NEW s \in Slots, NEW n \in Nonces, Execute(s, n)
  PROVE  (NonceInv /\ LockInv /\ ShownInv /\ ReportInv)'
<1>1. /\ pc[s] = "idle" /\ pending # None /\ pending.nonce = n /\ ~running
      /\ pending' = None /\ running' = TRUE
      /\ pc' = [pc EXCEPT ![s] = "fetch"]
      /\ mine' = [mine EXCEPT ![s] = TRUE]
      /\ task' = [task EXCEPT ![s] = pending]
      /\ runs' = [runs EXCEPT ![n] = @ + 1]
      /\ UNCHANGED <<wanted, left, urtp, screens, shown, did, told>>
  BY DEF Execute, Runs
<1>2. /\ pc \in [Slots -> {"idle", "search", "load", "fetch", "hist", "new", "verify",
                           "report", "failed"}]
      /\ mine \in [Slots -> BOOLEAN]
      /\ task \in [Slots -> {None} \cup Snapshots]
      /\ runs \in [Nonces -> Nat] /\ screens \in Nat
  BY TzProvAssumption DEF Inv, TypeOK, SlotsOK, HistoryOK, TzProvAssumption
<1>3. /\ pc'[s] = "fetch" /\ mine'[s] /\ task'[s] = pending /\ ~Executing(s)
      /\ \A t \in Slots \ {s} : UNCHANGED <<pc[t], mine[t], task[t]>>
  BY <1>1, <1>2 DEF Executing
<1>4. runs[n] = 0 /\ runs'[n] = 1 /\ n \in 1..screens
      /\ \A k \in Nonces \ {n} : runs'[k] = runs[k]
  BY <1>1, <1>2 DEF Inv, NonceInv
<1>5. Executing(s)' /\ \A t \in Slots \ {s} : Executing(t)' = Executing(t)
  BY <1>3 DEF Executing
<1>6. NonceInv'
  BY <1>1, <1>2, <1>4 DEF Inv, NonceInv
<1>7. LockInv'
  BY <1>1, <1>3, <1>5 DEF Inv, LockInv, RunsApart, LockHeld
<1>8. ShownInv'
  <2>1. \A snap : Faithful(snap)' = Faithful(snap)
    BY <1>1 DEF Faithful
  <2>2. KeysWereShown'
    BY <1>1 DEF Inv, ShownInv, KeysWereShown
  <2>3. \A t \in Slots : Executing(t)' => Faithful(task[t])'
    BY <1>1, <1>3, <1>5, <2>1 DEF Inv, ShownInv, Faithful
  <2> QED
    BY <1>1, <1>3, <2>2, <2>3 DEF Inv, ShownInv
<1>9. ReportInv'
  <2>1. \A t \in Slots \ {s} : Executing(t) => task[t].nonce # n
    BY <1>4 DEF Inv, ReportInv
  <2>2. \A t \in Slots \ {s} : Executing(t) => task[t].nonce \in Nonces
    BY <1>2, TzProvAssumption
       DEF Inv, ShownInv, Faithful, TypeOK, HistoryOK, Nonces, TzProvAssumption
  <2>3. did[n] = {} /\ told[n] = None
    BY <1>4 DEF Inv, ReportInv
  <2>4. ASSUME NEW t \in Slots, Executing(t)'
        PROVE  runs'[task'[t].nonce] = 1 /\ told[task'[t].nonce] = None /\ Accounted(t)'
    <3>1. CASE t = s
      BY <1>1, <1>3, <1>4, <2>3, <3>1 DEF Accounted
    <3>2. CASE t # s
      BY <1>1, <1>3, <1>4, <1>5, <2>1, <2>2, <2>4, <3>2 DEF Accounted, Inv, ReportInv
    <3> QED
      BY <3>1, <3>2
  <2>5. \A t, u \in Slots :
          Executing(t)' /\ Executing(u)' /\ task'[t].nonce = task'[u].nonce => t = u
    BY <1>1, <1>3, <1>5, <2>1 DEF Inv, ReportInv
  <2>6. \A k \in Nonces : runs'[k] = 0 => did[k] = {} /\ told[k] = None
    BY <1>4 DEF Inv, ReportInv
  <2>7. ReportComplete'
    BY <1>1 DEF Inv, ReportInv, ReportComplete
  <2> QED
    BY <1>1, <2>4, <2>5, <2>6, <2>7 DEF ReportInv
<1> QED
  BY <1>6, <1>7, <1>8, <1>9

\* An execution at work: it keeps its task and the lock.
Work(s) ==
  /\ Executing(s) /\ Executing(s)'
  /\ UNCHANGED <<pending, running, mine, task, screens, shown, runs, told>>
  /\ \A t \in Slots \ {s} : UNCHANGED <<pc[t], wanted[t], left[t]>>
  /\ urtp \subseteq urtp'
  /\ \A n \in Nonces : n # task[s].nonce => did'[n] = did[n]

\* What is left for such a step to show: what it registers was shown, and its
\* own account is right.
LEMMA WorkInv ==
  ASSUME Inv, NEW s \in Slots, Work(s),
         pc'[s] \in {"hist", "new"} => \A i \in left'[s] : i.key \in task[s].keys,
         \A i \in did'[task[s].nonce] :
           \/ i \in did[task[s].nonce]
           \/ i.key \in task[s].keys /\ <<task[s].per, i.plate>> \in urtp',
         Accounted(s)'
  PROVE  (NonceInv /\ LockInv /\ ShownInv /\ ReportInv)'
<1>1. \A t \in Slots : Executing(t)' = Executing(t)
  BY DEF Work, Executing
<1>2. NonceInv'
  BY DEF Work, Inv, NonceInv
<1>3. LockInv'
  BY <1>1 DEF Work, Inv, LockInv, RunsApart, LockHeld
<1> DEFINE n == task[s].nonce
<1>4. /\ n \in Nonces /\ n <= screens /\ Faithful(task[s])
      /\ runs[n] = 1 /\ told[n] = None
  BY TzProvAssumption DEF Work, Inv, ShownInv, ReportInv, Faithful, TypeOK, HistoryOK,
     Nonces, TzProvAssumption
<1>5. ShownInv'
  <2>1. \A snap : Faithful(snap)' = Faithful(snap)
    BY DEF Faithful, Work
  <2>2. ASSUME NEW k \in Nonces, did'[k] # {}
        PROVE  /\ k <= screens
               /\ KeysOf(did'[k]) \subseteq KeysOf(shown[k].items)
               /\ \A i \in did'[k] : <<shown[k].per, i.plate>> \in urtp'
    <3>1. CASE k # n
      BY <2>2, <3>1 DEF Work, Inv, ShownInv, KeysWereShown
    <3>2. CASE k = n
      <4>1. ASSUME NEW i \in did'[n]
            PROVE  i.key \in KeysOf(shown[n].items) /\ <<shown[n].per, i.plate>> \in urtp'
        <5>1. CASE i \in did[n]
          BY <1>4, <5>1 DEF Work, Inv, ShownInv, KeysWereShown, KeysOf
        <5>2. CASE i.key \in task[s].keys /\ <<task[s].per, i.plate>> \in urtp'
          BY <1>4, <5>2 DEF Faithful
        <5> QED
          BY <4>1, <5>1, <5>2
      <4> QED
        BY <1>4, <3>2, <4>1 DEF KeysOf
    <3> QED
      BY <3>1, <3>2
  <2>3. KeysWereShown'
    BY <2>2 DEF KeysWereShown, Work
  <2>4. \A t \in Slots : pc'[t] \in {"hist", "new"} =>
          \A i \in left'[t] : i.key \in task'[t].keys
    BY DEF Work, Inv, ShownInv
  <2> QED
    BY <1>1, <2>1, <2>3, <2>4 DEF Work, Inv, ShownInv
<1>6. ReportInv'
  <2>1. \A t \in Slots \ {s} : Executing(t) => task[t].nonce # n /\ task[t].nonce \in Nonces
    BY TzProvAssumption DEF Work, Inv, ShownInv, ReportInv, Faithful, TypeOK, HistoryOK,
       Nonces, TzProvAssumption
  <2>2. ASSUME NEW t \in Slots \ {s}, Executing(t) PROVE Accounted(t)'
    BY <2>1, <2>2 DEF Accounted, Work, Inv, ReportInv
  <2>3. \A k \in Nonces : runs[k] = 0 => did'[k] = {} /\ told[k] = None
    BY <1>4 DEF Work, Inv, ReportInv
  <2>4. \A k \in Nonces : told[k] # None => did'[k] \subseteq told[k]
    BY <1>4 DEF Work, Inv, ReportInv, ReportComplete
  <2> QED
    BY <1>1, <2>2, <2>3, <2>4 DEF Work, Inv, ReportInv, ReportComplete
<1> QED
  BY <1>2, <1>3, <1>5, <1>6

\* A registration of some of the items left.
LEMMA RegisterInv ==
  ASSUME Inv, NEW s \in Slots, NEW B, B \subseteq left[s], pc[s] \in {"hist", "new"},
         Register(s, B), UNCHANGED <<stateVars, pc, mine, task, wanted>>
  PROVE  (NonceInv /\ LockInv /\ ShownInv /\ ReportInv)'
<1>1. /\ left \in [Slots -> SUBSET AllItems] /\ did \in [Nonces -> SUBSET AllItems]
      /\ Executing(s) /\ task[s].nonce \in Nonces
  BY TzProvAssumption DEF Inv, TypeOK, SlotsOK, HistoryOK, Executing, ShownInv, Faithful,
     Nonces, TzProvAssumption
<1>2. /\ left'[s] = left[s] \ B /\ \A t \in Slots \ {s} : left'[t] = left[t]
      /\ did'[task[s].nonce] = did[task[s].nonce] \cup B
      /\ \A n \in Nonces : n # task[s].nonce => did'[n] = did[n]
  BY <1>1 DEF Register
<1>3. \A i \in B : i.key \in task[s].keys /\ <<task[s].per, i.plate>> \in urtp'
  BY DEF Register, Inv, ShownInv
<1>4. Work(s)
  BY <1>1, <1>2 DEF Work, Register, Executing, stateVars, guardVars
<1>5. Accounted(s)'
  BY <1>1, <1>2 DEF Accounted, Inv, ReportInv
<1>6. \A i \in left'[s] : i.key \in task[s].keys
  BY <1>2 DEF Inv, ShownInv
<1> QED
  BY <1>2, <1>3, <1>4, <1>5, <1>6, WorkInv

\* Every step of an execution up to its report.
LEMMA ProvestiInv ==
  ASSUME Inv, NEW s \in Slots,
         \/ Fetch(s) \/ AddHist(s) \/ HistFails(s) \/ InsertNew(s) \/ NewFails(s)
         \/ Verify(s) \/ ExecuteFails(s)
  PROVE  (NonceInv /\ LockInv /\ ShownInv /\ ReportInv)'
<1> DEFINE n == task[s].nonce
<1>1. /\ pc[s] \in {"fetch", "hist", "new", "verify", "report"}
      /\ Executing(s) /\ Accounted(s) /\ Faithful(task[s]) /\ n \in Nonces
  <2>1. pc[s] \in {"fetch", "hist", "new", "verify", "report"}
    BY DEF Fetch, AddHist, HistFails, InsertNew, NewFails, Verify, Verified, ExecuteFails
  <2>2. Executing(s)
    BY <2>1 DEF Executing
  <2> QED
    BY <2>1, <2>2, TzProvAssumption DEF Inv, ShownInv, ReportInv, Faithful, Nonces,
       TypeOK, HistoryOK, TzProvAssumption
<1>2. /\ pc \in [Slots -> {"idle", "search", "load", "fetch", "hist", "new", "verify",
                           "report", "failed"}]
      /\ wanted \in [Slots -> SUBSET AllItems] /\ left \in [Slots -> SUBSET AllItems]
      /\ did \in [Nonces -> SUBSET AllItems]
  BY DEF Inv, TypeOK, SlotsOK, HistoryOK
\* A step that registers nothing and moves on.
<1>3. ASSUME NEW step \in {"hist", "new", "verify", "report", "failed"},
             pc' = [pc EXCEPT ![s] = step],
             UNCHANGED <<guardVars, mine, task, urtp, histVars>>,
             \A t \in Slots \ {s} : UNCHANGED <<wanted[t], left[t]>>,
             step \in {"hist", "new"} => \A i \in left'[s] : i.key \in task[s].keys,
             Accounted(s)'
      PROVE  (NonceInv /\ LockInv /\ ShownInv /\ ReportInv)'
  <2>1. pc'[s] = step /\ \A t \in Slots \ {s} : pc'[t] = pc[t]
    BY <1>2, <1>3
  <2>2. Work(s)
    BY <1>1, <1>3, <2>1 DEF Work, Executing, guardVars, histVars
  <2> QED
    BY <1>3, <2>1, <2>2, WorkInv DEF histVars
<1>4. CASE Fetch(s)
  <2> DEFINE todo == {i \in GetPending(task[s].per, task[s].kind, task[s].days) :
                        i.key \in task[s].keys}
  <2>1. /\ wanted' = [wanted EXCEPT ![s] = todo]
        /\ left' = [left EXCEPT ![s] = todo]
        /\ pc[s] = "fetch"
        /\ pc' = [pc EXCEPT ![s] = "report"] \/ pc' = [pc EXCEPT ![s] = "hist"]
        /\ UNCHANGED <<guardVars, mine, task, urtp, histVars>>
    BY <1>4 DEF Fetch, SlotGoto
  <2>2. \A i \in todo : i.key \in task[s].keys
    OBVIOUS
  <2> HIDE DEF todo
  <2>3. wanted'[s] = todo /\ left'[s] = todo
    BY <1>2, <2>1
  <2>4. Accounted(s)'
    BY <1>1, <2>1, <2>3 DEF Accounted, histVars
  <2>5. \A t \in Slots \ {s} : UNCHANGED <<wanted[t], left[t]>>
    BY <2>1
  <2> QED
    BY <1>3, <2>1, <2>2, <2>3, <2>4, <2>5
<1>5. CASE AddHist(s)
  <2>1. CASE SlotGoto(s, "new") /\ UNCHANGED <<left, urtp, histVars>>
    <3>1. Accounted(s)'
      BY <1>1, <1>2, <1>5, <2>1 DEF AddHist, SlotGoto, Accounted, histVars
    <3>2. \A i \in left[s] : i.key \in task[s].keys
      BY <1>5 DEF AddHist, Inv, ShownInv
    <3> QED
      BY <1>3, <1>5, <2>1, <3>1, <3>2 DEF AddHist, SlotGoto, stateVars
  <2>2. CASE \E B \in SUBSET HistLeft(s) : Register(s, B) /\ UNCHANGED pc
    <3>1. PICK B \in SUBSET HistLeft(s) : Register(s, B) /\ UNCHANGED pc
      BY <2>2
    <3>2. B \subseteq left[s]
      BY DEF HistLeft
    <3> QED
      BY <1>5, <3>1, <3>2, RegisterInv DEF AddHist
  <2> QED
    BY <1>5, <2>1, <2>2 DEF AddHist
<1>6. CASE InsertNew(s)
  <2>1. CASE SlotGoto(s, "verify") /\ UNCHANGED <<left, urtp, histVars>>
    <3>1. Accounted(s)'
      BY <1>1, <1>2, <1>6, <2>1 DEF InsertNew, SlotGoto, Accounted, histVars
    <3> QED
      BY <1>3, <1>6, <2>1, <3>1 DEF InsertNew, SlotGoto, stateVars
  <2>2. CASE \E i \in left[s] : Register(s, {i}) /\ UNCHANGED pc
    <3>1. PICK i \in left[s] : Register(s, {i}) /\ UNCHANGED pc
      BY <2>2
    <3>2. {i} \subseteq left[s]
      OBVIOUS
    <3> QED
      BY <1>6, <3>1, <3>2, RegisterInv DEF InsertNew
  <2> QED
    BY <1>6, <2>1, <2>2 DEF InsertNew
<1>7. CASE HistFails(s) \/ NewFails(s)
  <2>1. /\ pc[s] \in {"hist", "new"}
        /\ left'[s] \subseteq left[s] /\ \A t \in Slots \ {s} : left'[t] = left[t]
        /\ \A i \in left[s] : i.key \in task[s].keys
        /\ UNCHANGED <<stateVars, mine, task, wanted, urtp, histVars>>
    BY <1>2, <1>7 DEF HistFails, NewFails, Inv, ShownInv
  <2>2. \E step \in {"hist", "new"} : pc' = [pc EXCEPT ![s] = step]
    BY <1>2, <1>7 DEF HistFails, NewFails, SlotGoto
  <2>3. Accounted(s)'
    BY <1>1, <1>2, <2>1, <2>2 DEF Accounted, histVars
  <2> QED
    BY <1>3, <2>1, <2>2, <2>3 DEF stateVars
<1>8. CASE Verify(s)
  <2>1. /\ pc[s] = "verify" /\ pc' = [pc EXCEPT ![s] = "report"]
        /\ left' = [left EXCEPT ![s] = {i \in wanted[s] : <<task[s].per, i.plate>> \in urtp}]
        /\ UNCHANGED <<guardVars, mine, task, wanted, urtp, histVars>>
    BY <1>8 DEF Verify, Verified, SlotGoto
  \* Whatever it did register is there and wanted.
  <2>2. \A i \in did[n] : i \in wanted[s] /\ <<task[s].per, i.plate>> \in urtp
    BY <1>1, <2>1 DEF Accounted, Faithful, Inv, ShownInv, KeysWereShown
  <2>3. Accounted(s)'
    BY <1>2, <2>1, <2>2 DEF Accounted, histVars
  <2> QED
    BY <1>2, <1>3, <2>1, <2>3
<1>9. CASE ExecuteFails(s)
  <2>1. Accounted(s)'
    BY <1>2, <1>9 DEF ExecuteFails, SlotGoto, Accounted
  <2> QED
    BY <1>3, <1>9, <2>1 DEF ExecuteFails, SlotGoto, stateVars
<1> QED
  BY <1>4, <1>5, <1>6, <1>7, <1>8, <1>9

\* The end of an execution gives the lock back, if it is still its own.
LEMMA ReleaseInv ==
  ASSUME Inv, NEW s \in Slots, Report(s) \/ Failed(s)
  PROVE  (NonceInv /\ LockInv /\ ShownInv /\ ReportInv)'
<1>1. /\ Executing(s) /\ Release(s) /\ UNCHANGED <<screens, shown, runs, did>>
      /\ pc[s] \in {"report", "failed"}
  BY DEF Report, Failed, Executing, histVars
<1>2. /\ running' = (running /\ ~mine[s])
      /\ pc'[s] = "idle" /\ ~mine'[s] /\ ~Executing(s)'
      /\ \A t \in Slots \ {s} : UNCHANGED <<pc[t], mine[t], task[t], wanted[t], left[t]>>
      /\ UNCHANGED <<pending, urtp>>
  BY <1>1 DEF Release, EndSlot, Executing, Inv, TypeOK, SlotsOK
<1>3. \A t \in Slots \ {s} : Executing(t)' = Executing(t)
  BY <1>2 DEF Executing
<1>4. NonceInv'
  BY <1>1, <1>2 DEF Inv, NonceInv
<1>5. LockInv'
  BY <1>1, <1>2, <1>3 DEF Inv, LockInv, RunsApart, LockHeld
<1>6. ShownInv'
  <2>1. \A snap : Faithful(snap)' = Faithful(snap)
    BY <1>1 DEF Faithful
  <2>2. KeysWereShown'
    BY <1>1, <1>2 DEF Inv, ShownInv, KeysWereShown
  <2> QED
    BY <1>2, <1>3, <2>1, <2>2 DEF Inv, ShownInv
<1>7. ReportInv'
  <2> DEFINE n == task[s].nonce
  <2>1. n \in Nonces /\ runs[n] = 1
    BY <1>1, TzProvAssumption DEF Inv, ShownInv, ReportInv, Faithful, TypeOK, HistoryOK,
       Nonces, TzProvAssumption
  <2>2. /\ told \in [Nonces -> {None} \cup SUBSET AllItems]
        /\ told' = told \/ (pc[s] = "report" /\ told' = [told EXCEPT ![n] = left[s]])
    BY DEF Report, Failed, histVars, Inv, TypeOK, HistoryOK
  <2>3. pc[s] = "report" => did[n] \subseteq left[s]
    BY <1>1 DEF Inv, ReportInv, Accounted
  <2>4. ReportComplete'
    BY <1>1, <2>1, <2>2, <2>3 DEF Inv, ReportInv, ReportComplete
  <2>5. ASSUME NEW t \in Slots, Executing(t)'
        PROVE  /\ runs[task'[t].nonce] = 1 /\ told'[task'[t].nonce] = None
               /\ Accounted(t)'
    <3>1. t # s /\ Executing(t) /\ task[t].nonce # n /\ task'[t] = task[t]
      BY <1>1, <1>2, <1>3, <2>5 DEF Inv, ReportInv
    <3>2. runs[task[t].nonce] = 1 /\ told[task[t].nonce] = None /\ Accounted(t)
      BY <3>1 DEF Inv, ReportInv
    <3>3. task[t].nonce \in Nonces
      BY <3>1, TzProvAssumption DEF Inv, ShownInv, Faithful, TypeOK, HistoryOK, Nonces,
         TzProvAssumption
    <3>4. told'[task[t].nonce] = told[task[t].nonce]
      BY <2>1, <2>2, <3>1, <3>3
    <3>5. Accounted(t)'
      BY <1>1, <1>2, <3>1, <3>2 DEF Accounted
    <3> QED
      BY <1>1, <3>1, <3>2, <3>4, <3>5
  <2>6. \A k \in Nonces : runs[k] = 0 => did[k] = {} /\ told'[k] = None
    BY <2>1, <2>2 DEF Inv, ReportInv
  <2>7. \A t, u \in Slots :
          Executing(t)' /\ Executing(u)' /\ task'[t].nonce = task'[u].nonce => t = u
    BY <1>2, <1>3 DEF Inv, ReportInv
  <2> QED
    BY <1>1, <2>4, <2>5, <2>6, <2>7 DEF ReportInv
<1> QED
  BY <1>4, <1>5, <1>6, <1>7

-----------------------------------------------------------------------------
(* Theorems. *)

\* The invariant holds at first and is kept by every step.
LEMMA Invariance == Spec => []Inv
<1>1. Init => Inv
  <2> SUFFICES ASSUME Init PROVE Inv
    OBVIOUS
  <2>1. TypeOK
    BY TypeInit
  <2>2. \A s \in Slots : ~Executing(s) /\ pc[s] = "idle"
    BY DEF Init, Executing
  <2> QED
    BY <2>1, <2>2 DEF Init, Inv, NonceInv, LockInv, RunsApart, LockHeld, ShownInv,
       KeysWereShown, ReportInv, ReportComplete
<1>2. Inv /\ [Next]_vars => Inv'
  <2> SUFFICES ASSUME Inv, [Next]_vars PROVE (NonceInv /\ LockInv /\ ShownInv /\ ReportInv)'
    BY TypeNext DEF Inv
  <2>1. CASE Press
    BY <2>1, DialogueQuiet, SearchQuiet, QuietInv, ConfirmInv, ExecuteInv DEF Press, Inv
  <2>2. ASSUME NEW s \in Slots, Step(s) \/ Rejection(s)
        PROVE  (NonceInv /\ LockInv /\ ShownInv /\ ReportInv)'
    BY <2>2, SearchQuiet, QuietInv, ProvestiInv, ReleaseInv DEF Step, Rejection, Inv
  <2>3. CASE \E c \in Carriers, q \in Plates : Elsewhere(c, q)
    BY <2>3, DialogueQuiet, QuietInv DEF Inv
  <2>4. CASE UNCHANGED vars
    BY <2>4, DialogueQuiet, QuietInv DEF Inv
  <2> QED
    BY <2>1, <2>2, <2>3, <2>4 DEF Next
<1> QED
  BY <1>1, <1>2, PTL DEF Spec

\* A confirmation is carried out once, whatever is pressed and whatever runs.
THEOREM RunsOnce == Spec => []OneShot
<1>1. Inv => OneShot
  BY DEF Inv, NonceInv, OneShot
<1> QED
  BY <1>1, Invariance, PTL

\* Executions of one dialogue do not overlap.
THEOREM ExecutionsApart == Spec => []RunsApart
<1>1. Inv => RunsApart
  BY DEF Inv, LockInv
<1> QED
  BY <1>1, Invariance, PTL

\* The lock of the dialogue always has a holder that will give it back.
THEOREM LockIsHeld == Spec => []LockHeld
<1>1. Inv => LockHeld
  BY DEF Inv, LockInv
<1> QED
  BY <1>1, Invariance, PTL

\* Only keys a confirmation showed are registered for it, for its carrier.
THEOREM OnlyShownKeys == Spec => []KeysWereShown
<1>1. Inv => KeysWereShown
  BY DEF Inv, ShownInv
<1> QED
  BY <1>1, Invariance, PTL

\* A report leaves out nothing its execution registered.
THEOREM ReportsComplete == Spec => []ReportComplete
<1>1. Inv => ReportComplete
  BY DEF Inv, ReportInv
<1> QED
  BY <1>1, Invariance, PTL

=============================================================================
