------------------------ MODULE NotifyPipeline_proofs ------------------------
(* What TLAPS proves about NotifyPipeline, for any rows, persons, handlers,  *)
(* batch size and bounds.                                                    *)
EXTENDS NotifyPipeline, FiniteSetTheorems, TLAPS

USE DEF handlerVars, queueVars, workerVars, boundVars, histVars

\* Initial states are typed.
LEMMA TypeInit == Init => TypeOK
<1> SUFFICES ASSUME Init PROVE TypeOK
  OBVIOUS
<1>1. told \in [Items -> Nat]
  BY DEF Init
<1> QED
  BY <1>1, NotifyAssumption DEF Init, TypeOK, Statuses, NotifyAssumption

\* Steps of the listener keep the types.
LEMMA TypeListener ==
  ASSUME TypeOK, ListenerStep PROVE TypeOK'
  BY DEF TypeOK, Statuses, ListenerStep, Insert, Listen, ListenerFails, Fault

\* Steps of a handler keep the types.
LEMMA TypeHandler ==
  ASSUME TypeOK, NEW h \in Handlers, Handler(h) PROVE TypeOK'
<1> USE DEF TypeOK, Statuses
<1>1. CASE Receive(h)
  BY <1>1 DEF Receive, Fault
<1>2. ASSUME NEW S \in SUBSET Notes, Advance(h, S)
      PROVE  /\ hpc' \in [Handlers -> {"idle", "list", "mark", "dispatch", "rowFailed"}]
             /\ hcur' \in [Handlers -> Notes \cup {NoNote}]
             /\ \A g \in Handlers :
                  hpc'[g] \in {"mark", "dispatch", "rowFailed"} => hcur'[g] \in Notes
             /\ hlist' \in [Handlers -> SUBSET Notes]
  BY <1>2 DEF Advance, HIdle
<1>3. CASE List(h)
  BY <1>2, <1>3 DEF List
<1>4. CASE MarkProcessing(h)
  BY <1>4 DEF MarkProcessing, HGoto
<1>5. CASE Dispatch(h)
  BY <1>2, <1>5 DEF Dispatch
<1>6. CASE MarkFailed(h)
  BY <1>2, <1>6 DEF MarkFailed
<1>7. CASE ListFails(h) \/ BatchFails(h)
  BY <1>7 DEF ListFails, BatchFails, HIdle, Fault
<1>8. CASE RowFails(h)
  BY <1>8 DEF RowFails, HGoto, Fault
<1>9. CASE DispatchUnanswered(h)
  BY <1>9 DEF DispatchUnanswered, HGoto, Fault
<1> QED
  BY <1>1, <1>3, <1>4, <1>5, <1>6, <1>7, <1>8, <1>9 DEF Handler, HandlerStep

\* Steps of the worker keep the types.
LEMMA TypeWorker ==
  ASSUME TypeOK, Worker PROVE TypeOK'
<1> USE NotifyAssumption DEF TypeOK, Statuses, NotifyAssumption
<1>1. ASSUME NEW n \in Notes, Take(n) PROVE TypeOK'
  BY <1>1 DEF Take, Recipients
<1>2. CASE DeliverBatch
  BY <1>2 DEF DeliverBatch, Items
<1>3. CASE Done
  BY <1>3 DEF Done, WGoto
<1>4. CASE Fail \/ DoneFails
  BY <1>4 DEF Fail, DoneFails, WGoto, Fault
<1>5. CASE Finish
  BY <1>5 DEF Finish, WIdle
<1> QED
  BY <1>1, <1>2, <1>3, <1>4, <1>5 DEF Worker, WorkerStep

\* The next-state relation keeps the types.
LEMMA TypeNext == TypeOK /\ [Next]_vars => TypeOK'
<1> SUFFICES ASSUME TypeOK, [Next]_vars PROVE TypeOK'
  OBVIOUS
<1>1. ASSUME NEW n \in Notes, StalledRetry(n) \/ StalledFail(n) PROVE TypeOK'
  BY <1>1 DEF StalledRetry, StalledFail, TypeOK
<1>2. CASE Crash
  BY <1>2 DEF Crash, WIdle, TypeOK
<1>3. CASE UNCHANGED vars
  BY <1>3 DEF vars, TypeOK
<1> QED
  BY <1>1, <1>2, <1>3, TypeListener, TypeHandler, TypeWorker DEF Next

\* Every variable keeps its type.
THEOREM TypeCorrect == Spec => []TypeOK
  BY TypeInit, TypeNext, PTL DEF Spec

-----------------------------------------------------------------------------
(* DONE stands for a list worked off. *)

\* What the worker still has to do, against what it has done: the persons it
\* has dropped from its list have been reached, and about to write DONE it has
\* dropped them all.
WorkerTried ==
  /\ wpc = "deliver" => Recipients(wnote) \subseteq tried[wnote] \cup wleft
  /\ wpc = "done" => Recipients(wnote) \subseteq tried[wnote]

\* Persons are held only while their batches are delivered.
LeftOnlyDelivering == wpc # "deliver" => wleft = {}

Inv == TypeOK /\ WorkerTried /\ LeftOnlyDelivering /\ DoneMeansTried

\* Neither the listener nor a handler touches the worker or makes a row DONE.
LEMMA OthersFrame ==
  ASSUME TypeOK, ListenerStep \/ \E h \in Handlers : Handler(h)
  PROVE  /\ UNCHANGED <<wpc, wnote, wleft, tried>>
         /\ \A n \in Notes : status'[n] = "DONE" => status[n] = "DONE"
<1> USE DEF TypeOK
<1>1. CASE ListenerStep
  BY <1>1 DEF ListenerStep, Insert, Listen, ListenerFails
<1>2. ASSUME NEW h \in Handlers, Handler(h)
      PROVE  /\ UNCHANGED <<wpc, wnote, wleft, tried>>
             /\ \A n \in Notes : status'[n] = "DONE" => status[n] = "DONE"
  <2>1. CASE Receive(h) \/ List(h) \/ ListFails(h)
    BY <2>1 DEF Receive, List, ListFails
  <2>2. CASE MarkProcessing(h) \/ Dispatch(h) \/ MarkFailed(h)
    BY <2>2 DEF MarkProcessing, Dispatch, MarkFailed
  <2>3. CASE RowFails(h) \/ DispatchUnanswered(h) \/ BatchFails(h)
    BY <2>3 DEF RowFails, DispatchUnanswered, BatchFails
  <2> QED
    BY <1>2, <2>1, <2>2, <2>3 DEF Handler, HandlerStep
<1> QED
  BY <1>1, <1>2

\* Steps of the worker: every person leaves its list by being reached.
LEMMA TriedWorker ==
  ASSUME Inv, Worker
  PROVE  WorkerTried' /\ LeftOnlyDelivering' /\ DoneMeansTried'
<1> USE NotifyAssumption
    DEF Inv, TypeOK, WorkerTried, LeftOnlyDelivering, DoneMeansTried, Recipients,
        NotifyAssumption
<1>1. ASSUME NEW n \in Notes, Take(n)
      PROVE  WorkerTried' /\ LeftOnlyDelivering' /\ DoneMeansTried'
  BY <1>1 DEF Take
<1>2. CASE DeliverBatch
  <2>1. PICK B \in SUBSET wleft :
          /\ tried' = [tried EXCEPT ![wnote] = @ \cup B]
          /\ wleft' = wleft \ B
          /\ wpc' = IF B = wleft THEN "done" ELSE "deliver"
    BY <1>2 DEF DeliverBatch
  <2>2. wpc = "deliver" /\ wnote \in Notes /\ UNCHANGED <<wnote, status>>
    BY <1>2 DEF DeliverBatch
  <2> QED
    BY <2>1, <2>2
<1>3. CASE Done
  BY <1>3 DEF Done, WGoto
<1>4. CASE Fail \/ DoneFails
  BY <1>4 DEF Fail, DoneFails, WGoto
<1>5. CASE Finish
  BY <1>5 DEF Finish, WIdle
<1> QED
  BY <1>1, <1>2, <1>3, <1>4, <1>5 DEF Worker, WorkerStep

\* The inductive invariant holds at the start.
LEMMA InvInit == Init => Inv
  BY TypeInit
  DEF Init, Inv, WorkerTried, LeftOnlyDelivering, DoneMeansTried

\* Every step keeps the inductive invariant.
LEMMA InvNext == Inv /\ [Next]_vars => Inv'
<1> SUFFICES ASSUME Inv, [Next]_vars
    PROVE  WorkerTried' /\ LeftOnlyDelivering' /\ DoneMeansTried'
  BY TypeNext DEF Inv
<1> USE DEF Inv, WorkerTried, LeftOnlyDelivering, DoneMeansTried
<1>1. ASSUME /\ UNCHANGED <<wpc, wnote, wleft, tried>>
             /\ \A n \in Notes : status'[n] = "DONE" => status[n] = "DONE"
      PROVE  WorkerTried' /\ LeftOnlyDelivering' /\ DoneMeansTried'
  BY <1>1 DEF Recipients
<1>2. CASE ListenerStep \/ \E h \in Handlers : Handler(h)
  BY <1>1, <1>2, OthersFrame
<1>3. ASSUME NEW n \in Notes, StalledRetry(n) \/ StalledFail(n)
      PROVE  WorkerTried' /\ LeftOnlyDelivering' /\ DoneMeansTried'
  BY <1>1, <1>3 DEF StalledRetry, StalledFail
<1>4. CASE Crash
  BY <1>4 DEF Crash, WIdle
<1>5. CASE UNCHANGED vars
  BY <1>1, <1>5 DEF vars
<1> QED
  BY <1>2, <1>3, <1>4, <1>5, TriedWorker DEF Next

\* The inductive invariant holds in every reachable state.
LEMMA Invariance == Spec => []Inv
  BY InvInit, InvNext, PTL DEF Spec

\* A row is DONE only when the worker has reached every person of its list.
THEOREM DoneIsTried == Spec => []DoneMeansTried
<1>1. Inv => DoneMeansTried
  BY DEF Inv
<1> QED
  BY <1>1, Invariance, PTL

-----------------------------------------------------------------------------
(* No row is queued more often than notify_list() returned it. *)

\* Handler h has listed n and will yet try to queue it.
Holds(h, n) == n \in hlist[h] \/ (hcur[h] = n /\ hpc[h] \in {"mark", "dispatch"})
Holders(n)  == {h \in Handlers : Holds(h, n)}

\* Every listing of n has been used up by a job at most once, or will be.
AccountOf(n) == IsFiniteSet(Holders(n)) /\ added[n] + Cardinality(Holders(n)) <= listed[n]
Accounted    == \A n \in Notes : AccountOf(n)

\* A handler meets each row of its list once.
OneByOne ==
  \A h \in Handlers : /\ hcur[h] \notin hlist[h]
                      /\ hpc[h] \in {"idle", "list"} => hlist[h] = {}

OthersStay(h) ==
  \A g \in Handlers \ {h} :
    hpc'[g] = hpc[g] /\ hcur'[g] = hcur[g] /\ hlist'[g] = hlist[g]

\* After Advance(h, S) handler h holds the rows of S, one of them in hand.
LEMMA AdvanceHolds ==
  ASSUME TypeOK, NEW h \in Handlers, NEW S \in SUBSET Notes, Advance(h, S)
  PROVE  /\ OthersStay(h)
         /\ \A n \in Notes : /\ Holds(h, n)' <=> n \in S
                             /\ n \in S => n \in hlist'[h] \/ (hcur'[h] = n /\ hpc'[h] = "mark")
         /\ hcur'[h] \notin hlist'[h]
         /\ hpc'[h] \in {"idle", "mark"} /\ (hpc'[h] = "idle" => hlist'[h] = {})
<1>1. CASE S = {} /\ HIdle(h)
  BY <1>1, NotifyAssumption DEF HIdle, OthersStay, Holds, TypeOK, NotifyAssumption
<1>2. ASSUME NEW m \in S, hpc' = [hpc EXCEPT ![h] = "mark"],
             hcur' = [hcur EXCEPT ![h] = m], hlist' = [hlist EXCEPT ![h] = S \ {m}]
      PROVE  /\ OthersStay(h)
             /\ \A n \in Notes : /\ Holds(h, n)' <=> n \in S
                                 /\ n \in S => n \in hlist'[h] \/ (hcur'[h] = n /\ hpc'[h] = "mark")
             /\ hcur'[h] \notin hlist'[h] /\ hpc'[h] = "mark"
  <2>1. /\ OthersStay(h) /\ hpc'[h] = "mark" /\ hcur'[h] = m /\ hlist'[h] = S \ {m}
    BY <1>2 DEF OthersStay, TypeOK
  <2> QED
    BY <2>1 DEF Holds
<1> QED
  BY <1>1, <1>2 DEF Advance

\* A step of h keeps the account of n when h lets n go, queues it while letting
\* it go, or takes it over from notify_list().
LEMMA AccountStep ==
  ASSUME TypeOK, NEW h \in Handlers, OthersStay(h), NEW n \in Notes, AccountOf(n),
         \/ /\ Holds(h, n)' => Holds(h, n)
            /\ added'[n] = added[n] /\ listed'[n] = listed[n]
         \/ /\ Holds(h, n) /\ ~Holds(h, n)'
            /\ added'[n] = added[n] + 1 /\ listed'[n] = listed[n]
         \/ added'[n] = added[n] /\ listed'[n] = listed[n] + 1
  PROVE  AccountOf(n)'
<1> DEFINE H == Holders(n)
<1>1. /\ IsFiniteSet(H) /\ Cardinality(H) \in Nat /\ added[n] \in Nat /\ listed[n] \in Nat
      /\ added[n] + Cardinality(H) <= listed[n]
  BY FS_CardinalityType DEF AccountOf, TypeOK
<1>2. /\ IsFiniteSet(H \cup {h}) /\ IsFiniteSet(H \ {h})
      /\ Cardinality(H \cup {h}) \in {Cardinality(H), Cardinality(H) + 1}
      /\ Cardinality(H \ {h}) = IF h \in H THEN Cardinality(H) - 1 ELSE Cardinality(H)
  BY <1>1, FS_AddElement, FS_RemoveElement
<1>3. Holders(n)' \in {H, H \cup {h}, H \ {h}}
  BY DEF Holders, Holds, OthersStay
<1>4. (h \in H <=> Holds(h, n)) /\ (h \in Holders(n)' <=> Holds(h, n)')
  BY DEF Holders, Holds
<1> HIDE DEF H
<1>6. CASE /\ Holds(h, n) /\ ~Holds(h, n)'
           /\ added'[n] = added[n] + 1 /\ listed'[n] = listed[n]
  <2>1. Holders(n)' = H \ {h} /\ h \in H
    BY <1>3, <1>4, <1>6
  <2> QED
    BY <1>1, <1>2, <1>6, <2>1 DEF AccountOf
<1>7. CASE added'[n] = added[n] /\ listed'[n] = listed[n] + 1
  <2>1. IsFiniteSet(Holders(n)') /\ Cardinality(Holders(n)') <= Cardinality(H) + 1
    <3>1. Cardinality(H \ {h}) <= Cardinality(H) + 1
      BY <1>1, <1>2
    <3>2. CASE Holders(n)' = H
      <4>1. Cardinality(H) <= Cardinality(H) + 1
        BY <1>1
      <4> QED
        BY <1>1, <3>2, <4>1
    <3>3. CASE Holders(n)' = H \ {h}
      BY <1>2, <3>1, <3>3
    <3>4. CASE Holders(n)' = H \cup {h}
      <4>1. Cardinality(H \cup {h}) <= Cardinality(H) + 1
        BY <1>1, <1>2
      <4> QED
        BY <1>2, <3>4, <4>1
    <3> QED
      BY <1>3, <3>2, <3>3, <3>4
  <2>2. Cardinality(Holders(n)') \in Nat
    BY <2>1, FS_CardinalityType
  <2> QED
    BY <1>1, <1>7, <2>1, <2>2 DEF AccountOf
<1>8. CASE /\ Holds(h, n)' => Holds(h, n)
           /\ added'[n] = added[n] /\ listed'[n] = listed[n]
  <2>1. Holders(n)' \in {H, H \ {h}}
    BY <1>3, <1>4, <1>8
  <2> QED
    BY <1>1, <1>2, <1>8, <2>1 DEF AccountOf
<1> QED
  BY <1>6, <1>7, <1>8

\* Steps of a handler keep the account.
LEMMA AccountHandler ==
  ASSUME TypeOK, Accounted, OneByOne, NEW h \in Handlers, Handler(h)
  PROVE  Accounted' /\ OneByOne'
<1> DEFINE Same(n) == added'[n] = added[n] /\ listed'[n] = listed[n]
           Lets(n) == (Holds(h, n)' => Holds(h, n)) /\ Same(n)
           Puts(n) == /\ Holds(h, n) /\ ~Holds(h, n)'
                      /\ added'[n] = added[n] + 1 /\ listed'[n] = listed[n]
           Gets(n) == added'[n] = added[n] /\ listed'[n] = listed[n] + 1
           Once    == /\ OthersStay(h) /\ hcur'[h] \notin hlist'[h]
                      /\ hpc'[h] \in {"idle", "list"} => hlist'[h] = {}
<1>1. ASSUME Once, \A n \in Notes : Lets(n) \/ Puts(n) \/ Gets(n)
      PROVE  Accounted' /\ OneByOne'
  <2>1. Accounted'
    BY <1>1, AccountStep DEF Accounted
  <2>2. OneByOne'
    BY <1>1 DEF OneByOne, OthersStay
  <2> QED
    BY <2>1, <2>2
<1>2. CASE Receive(h) \/ MarkProcessing(h) \/ RowFails(h)
  <2>1. /\ UNCHANGED <<hcur, hlist, added, listed>> /\ OthersStay(h)
        /\ hpc'[h] \in {"dispatch", "mark"} => hpc[h] \in {"dispatch", "mark"}
        /\ hpc'[h] \in {"idle", "list"} => hpc[h] \in {"idle", "list"}
    BY <1>2 DEF Receive, MarkProcessing, RowFails, HGoto, OthersStay, TypeOK
  <2>2. Once /\ \A n \in Notes : Lets(n)
    BY <2>1 DEF Holds, OneByOne
  <2> QED
    BY <1>1, <2>2
<1>3. CASE List(h)
  <2> DEFINE new == {n \in Notes : status[n] = "NEW"}
  <2>1. /\ new \in SUBSET Notes /\ Advance(h, new) /\ UNCHANGED added
        /\ \A n \in Notes : listed'[n] = IF n \in new THEN listed[n] + 1 ELSE listed[n]
    BY <1>3 DEF List
  <2> HIDE DEF new
  <2>2. Once /\ \A n \in Notes : Holds(h, n)' <=> n \in new
    BY <2>1, AdvanceHolds
  <2>3. \A n \in Notes : Lets(n) \/ Gets(n)
    BY <2>1, <2>2
  <2> QED
    BY <1>1, <2>2, <2>3
<1>4. CASE Dispatch(h) \/ MarkFailed(h)
  <2>1. /\ hlist[h] \in SUBSET Notes /\ Advance(h, hlist[h]) /\ UNCHANGED listed
        /\ \/ UNCHANGED added
           \/ added' = [added EXCEPT ![hcur[h]] = @ + 1] /\ hpc[h] = "dispatch"
    BY <1>4 DEF Dispatch, MarkFailed, TypeOK
  <2>2. Once /\ \A n \in Notes : Holds(h, n)' <=> n \in hlist[h]
    BY <2>1, AdvanceHolds
  <2>3. ASSUME NEW n \in Notes PROVE Lets(n) \/ Puts(n)
    <3>1. CASE UNCHANGED added
      BY <2>1, <2>2, <3>1 DEF Holds
    <3>2. CASE added' = [added EXCEPT ![hcur[h]] = @ + 1] /\ hpc[h] = "dispatch"
      <4>1. CASE n = hcur[h]
        <5>1. Holds(h, n) /\ n \notin hlist[h]
          BY <3>2, <4>1 DEF Holds, OneByOne
        <5> QED
          BY <2>1, <2>2, <3>2, <4>1, <5>1 DEF TypeOK
      <4>2. CASE n # hcur[h]
        BY <2>1, <2>2, <3>2, <4>2 DEF Holds, TypeOK
      <4> QED
        BY <4>1, <4>2
    <3> QED
      BY <2>1, <3>1, <3>2
  <2> QED
    BY <1>1, <2>2, <2>3
<1>5. CASE ListFails(h) \/ BatchFails(h)
  <2>1. Once /\ UNCHANGED <<added, listed>> /\ \A n \in Notes : ~Holds(h, n)'
    BY <1>5 DEF ListFails, BatchFails, HIdle, OthersStay, Holds, TypeOK
  <2> QED
    BY <1>1, <2>1
<1>6. CASE DispatchUnanswered(h)
  <2>1. /\ hpc[h] = "dispatch" /\ hpc'[h] = "rowFailed" /\ hcur[h] \in Notes
        /\ OthersStay(h) /\ UNCHANGED <<hcur, hlist, listed>>
        /\ added' = [added EXCEPT ![hcur[h]] = @ + 1]
    BY <1>6 DEF DispatchUnanswered, HGoto, OthersStay, TypeOK
  <2>2. Once
    BY <2>1 DEF OneByOne
  <2>3. ASSUME NEW n \in Notes PROVE Lets(n) \/ Puts(n)
    BY <2>1 DEF Holds, OneByOne, TypeOK
  <2> QED
    BY <1>1, <2>2, <2>3
<1> QED
  BY <1>2, <1>3, <1>4, <1>5, <1>6 DEF Handler, HandlerStep

\* Every step keeps the account.
LEMMA AccountNext ==
  ASSUME TypeOK, Accounted, OneByOne, [Next]_vars PROVE Accounted' /\ OneByOne'
<1>1. ASSUME UNCHANGED <<hpc, hcur, hlist, added, listed>>
      PROVE  Accounted' /\ OneByOne'
  BY <1>1 DEF Accounted, AccountOf, Holders, Holds, OneByOne
<1>2. CASE ListenerStep
  BY <1>1, <1>2 DEF ListenerStep, Insert, Listen, ListenerFails
<1>3. CASE Worker
  BY <1>1, <1>3 DEF Worker, WorkerStep, Take, DeliverBatch, Done, DoneFails, Fail, Finish
<1>4. ASSUME NEW n \in Notes, StalledRetry(n) \/ StalledFail(n)
      PROVE  Accounted' /\ OneByOne'
  BY <1>1, <1>4 DEF StalledRetry, StalledFail
<1>5. CASE Crash
  <2>1. /\ UNCHANGED <<added, listed>>
        /\ \A h \in Handlers : hpc'[h] = "idle" /\ hcur'[h] = NoNote /\ hlist'[h] = {}
    BY <1>5 DEF Crash
  <2>2. ASSUME NEW n \in Notes PROVE AccountOf(n)'
    <3>1. /\ Cardinality(Holders(n)) \in Nat /\ added[n] \in Nat /\ listed[n] \in Nat
          /\ added[n] + Cardinality(Holders(n)) <= listed[n]
      BY FS_CardinalityType DEF Accounted, AccountOf, TypeOK
    <3>2. Holders(n)' = {}
      BY <2>1 DEF Holders, Holds
    <3> QED
      BY <2>1, <3>1, <3>2, FS_EmptySet DEF AccountOf
  <2> QED
    BY <2>1, <2>2 DEF Accounted, OneByOne
<1>6. CASE UNCHANGED vars
  BY <1>1, <1>6 DEF vars
<1> QED
  BY <1>2, <1>3, <1>4, <1>5, <1>6, AccountHandler DEF Next

\* A row is queued at most once each time notify_list() returned it, whatever
\* handlers overlap, queries fail and restarts happen.
THEOREM QueuedWhenListed == Spec => []AddedBound
<1>1. Init => Accounted /\ OneByOne
  <2> SUFFICES ASSUME Init PROVE Accounted /\ OneByOne
    OBVIOUS
  <2>1. ASSUME NEW n \in Notes PROVE AccountOf(n)
    <3>1. Holders(n) = {} /\ added[n] = 0 /\ listed[n] = 0
      BY DEF Init, Holders, Holds
    <3> QED
      BY <3>1, FS_EmptySet DEF AccountOf
  <2> QED
    BY <2>1 DEF Init, Accounted, OneByOne
<1>2. TypeOK /\ Accounted /\ OneByOne /\ [Next]_vars => (Accounted /\ OneByOne)'
  BY AccountNext
<1>3. TypeOK /\ Accounted => AddedBound
  <2> SUFFICES ASSUME TypeOK, Accounted, NEW n \in Notes PROVE added[n] <= listed[n]
    BY DEF AddedBound
  <2>1. /\ Cardinality(Holders(n)) \in Nat /\ added[n] \in Nat /\ listed[n] \in Nat
        /\ added[n] + Cardinality(Holders(n)) <= listed[n]
    BY FS_CardinalityType DEF Accounted, AccountOf, TypeOK
  <2> QED
    BY <2>1
<1> QED
  BY <1>1, <1>2, <1>3, TypeCorrect, PTL DEF Spec

-----------------------------------------------------------------------------
(* A row is listed again only in a race. *)

\* While nothing failed, a row that was listed and is still NEW is in the hands
\* of a handler that has not marked it.
InHand(n) == \E h \in Handlers : n \in hlist[h] \/ (hcur[h] = n /\ hpc[h] = "mark")
Listed ==
  \A n \in Notes : listed[n] > 0 =>
    /\ status[n] # "none"
    /\ status[n] = "NEW" /\ faults = 0 /\ crashes = 0 => InHand(n)

\* A handler drops a row only by marking it, as long as nothing fails.
LEMMA ListedHandler ==
  ASSUME TypeOK, Listed, NEW h \in Handlers, Handler(h)
  PROVE  Listed'
<1> DEFINE Hand(g, n) == n \in hlist[g] \/ (hcur[g] = n /\ hpc[g] = "mark")
<1>1. ASSUME OthersStay(h), UNCHANGED crashes, faults' \in Nat, faults' = 0 => faults = 0,
             \A n \in Notes :
               /\ status'[n] = "none" => status[n] = "none"
               /\ listed'[n] = listed[n]
               /\ status'[n] = "NEW" => status[n] = "NEW"
               /\ faults' = 0 /\ status'[n] = "NEW" /\ Hand(h, n) => Hand(h, n)'
      PROVE  Listed'
  <2>1. ASSUME NEW n \in Notes, status'[n] = "NEW", faults' = 0, InHand(n)
        PROVE  InHand(n)'
    BY <1>1, <2>1 DEF InHand, OthersStay
  <2> QED
    BY <1>1, <2>1 DEF Listed
<1>2. CASE List(h)
  <2> DEFINE new == {n \in Notes : status[n] = "NEW"}
  <2>1. /\ new \in SUBSET Notes /\ Advance(h, new) /\ UNCHANGED <<status, faults, crashes>>
        /\ \A n \in Notes \ new : listed'[n] = listed[n]
        /\ \A n \in Notes : status[n] = "NEW" <=> n \in new
        /\ \A n \in new : status[n] # "none"
    BY <1>2 DEF List
  <2> HIDE DEF new
  <2>2. \A n \in new : InHand(n)'
    BY <2>1, AdvanceHolds DEF InHand
  <2> QED
    BY <2>1, <2>2 DEF Listed
<1>3. CASE Receive(h)
  BY <1>1, <1>3 DEF Receive, Fault, OthersStay, TypeOK
<1>4. CASE MarkProcessing(h)
  BY <1>1, <1>4 DEF MarkProcessing, HGoto, OthersStay, TypeOK
<1>5. CASE Dispatch(h) \/ MarkFailed(h)
  <2>1. /\ hlist[h] \in SUBSET Notes /\ Advance(h, hlist[h]) /\ hpc[h] # "mark"
        /\ UNCHANGED <<faults, crashes, listed>>
        /\ \A n \in Notes : status'[n] \in {status[n], "FAILED"}
    BY <1>5 DEF Dispatch, MarkFailed, TypeOK
  <2>2. OthersStay(h) /\ \A n \in Notes : Hand(h, n) => Hand(h, n)'
    BY <2>1, AdvanceHolds
  <2> QED
    BY <1>1, <2>1, <2>2 DEF TypeOK
<1>6. CASE ListFails(h) \/ BatchFails(h) \/ RowFails(h) \/ DispatchUnanswered(h)
  <2>1. /\ faults' = faults + 1 /\ UNCHANGED <<crashes, status, listed>> /\ OthersStay(h)
    BY <1>6 DEF ListFails, BatchFails, RowFails, DispatchUnanswered, Fault, HIdle, HGoto,
       OthersStay, TypeOK
  <2> QED
    BY <1>1, <2>1 DEF TypeOK
<1> QED
  BY <1>2, <1>3, <1>4, <1>5, <1>6 DEF Handler, HandlerStep

\* Every step keeps listed rows in hand.
LEMMA ListedNext ==
  ASSUME TypeOK, Listed, [Next]_vars PROVE Listed'
<1>1. ASSUME UNCHANGED <<hpc, hcur, hlist, listed, crashes>>,
             faults' = 0 => faults = 0,
             \A n \in Notes : /\ status'[n] = "none" => status[n] = "none"
                              /\ status'[n] = "NEW" => status[n] \in {"NEW", "none"}
      PROVE  Listed'
  BY <1>1 DEF Listed, InHand
<1>2. CASE ListenerStep
  BY <1>1, <1>2 DEF ListenerStep, Insert, Listen, ListenerFails, Fault, TypeOK
<1>3. CASE Worker
  BY <1>1, <1>3 DEF Worker, WorkerStep, Take, DeliverBatch, Done, DoneFails, Fail, Finish,
     Fault, TypeOK
<1>4. ASSUME NEW n \in Notes, StalledRetry(n) \/ StalledFail(n) PROVE Listed'
  BY <1>1, <1>4 DEF StalledRetry, StalledFail
<1>5. CASE Crash
  BY <1>5 DEF Crash, Listed, TypeOK
<1>6. CASE UNCHANGED vars
  BY <1>1, <1>6 DEF vars
<1> QED
  BY <1>2, <1>3, <1>4, <1>5, <1>6, ListedHandler DEF Next

\* Without faults and restarts notify_list() returns a row a second time only
\* while a handler that has listed it has not marked it.
THEOREM RelistedOnlyInRace == Spec => RelistedInRace
<1>1. Init => Listed
  BY DEF Init, Listed
<1>2. TypeOK /\ Listed /\ [Next]_vars => Listed'
  BY ListedNext
<1>3. ASSUME Listed, [Next]_vars, NEW n \in Notes,
             listed[n] > 0, listed'[n] # listed[n], faults = 0, crashes = 0
      PROVE  \E h \in Handlers : n \in hlist[h] \/ (hcur[h] = n /\ hpc[h] = "mark")
  <2>1. status[n] = "NEW"
    <3>1. UNCHANGED listed \/ \E h \in Handlers : List(h)
      BY <1>3 DEF Next, ListenerStep, Insert, Listen, ListenerFails, Handler, HandlerStep,
         Receive, ListFails, RowFails, DispatchUnanswered, BatchFails, MarkProcessing,
         Dispatch, MarkFailed, Worker, WorkerStep, Take, DeliverBatch, Done, DoneFails,
         Fail, Finish, StalledRetry, StalledFail, Crash, vars
    <3> QED
      BY <1>3, <3>1 DEF List
  <2> QED
    BY <1>3, <2>1 DEF Listed, InHand
<1>4. Listed /\ [Next]_vars =>
        [\A n \in Notes : listed[n] > 0 /\ listed'[n] # listed[n] /\ faults = 0 /\ crashes = 0
           => \E h \in Handlers : n \in hlist[h] \/ (hcur[h] = n /\ hpc[h] = "mark")]_vars
  BY <1>3
<1> QED
  BY <1>1, <1>2, <1>4, TypeCorrect, PTL DEF Spec, RelistedInRace

-----------------------------------------------------------------------------
(* What is PROCESSING is in somebody's hands. *)

\* Who may yet end row n: a handler, a job, or the worker.
HandlerHas(h, n) == hcur[h] = n /\ hpc[h] \in {"dispatch", "rowFailed"}
WorkerHas(n)     == wnote = n /\ wpc # "finish"

\* Error paths are entered with a fault.
FaultSeen ==
  /\ \A h \in Handlers : hpc[h] = "rowFailed" => faults >= 1
  /\ wpc = "fail" => faults >= 1

HeldInv == FaultSeen /\ ProcessingHeld

\* A handler lets go of a row by queueing it or by calling it FAILED; it takes
\* two faults to do neither.
LEMMA HeldHandler ==
  ASSUME TypeOK, HeldInv, NEW h \in Handlers, Handler(h)
  PROVE  HeldInv'
<1>1. ASSUME OthersStay(h), UNCHANGED <<wnote, wpc, crashes>>,
             faults' \in Nat, faults' >= faults,
             \A n \in Notes : queued'[n] >= queued[n] /\ queued'[n] \in Nat,
             hpc'[h] = "rowFailed" => faults' >= 1,
             \A n \in Notes : status'[n] = "PROCESSING" /\ faults' <= 1 =>
               \/ HandlerHas(h, n)' \/ queued'[n] > 0
               \/ status[n] = "PROCESSING" /\ ~HandlerHas(h, n)
      PROVE  HeldInv'
  <2>1. FaultSeen'
    BY <1>1 DEF HeldInv, FaultSeen, OthersStay, TypeOK
  <2>2. ASSUME NEW n \in Notes, status'[n] = "PROCESSING", faults' <= 1, crashes' = 0
        PROVE  (\E g \in Handlers : HandlerHas(g, n)') \/ queued'[n] > 0 \/ WorkerHas(n)'
    <3>1. faults <= 1 /\ crashes = 0 /\ queued[n] \in Nat
      BY <1>1, <2>2 DEF TypeOK
    <3>2. CASE HandlerHas(h, n)' \/ queued'[n] > 0
      BY <3>2
    <3>3. CASE status[n] = "PROCESSING" /\ ~HandlerHas(h, n)
      <4>1. (\E g \in Handlers : HandlerHas(g, n)) \/ queued[n] > 0 \/ WorkerHas(n)
        BY <3>1, <3>3 DEF HeldInv, ProcessingHeld, HandlerHas, WorkerHas
      <4> QED
        BY <1>1, <3>1, <3>3, <4>1 DEF HandlerHas, WorkerHas, OthersStay
    <3> QED
      BY <1>1, <2>2, <3>2, <3>3
  <2> QED
    BY <2>1, <2>2 DEF HeldInv, ProcessingHeld, HandlerHas, WorkerHas
<1>2. CASE Receive(h)
  BY <1>1, <1>2 DEF Receive, Fault, OthersStay, HandlerHas, TypeOK
<1>3. CASE List(h)
  <2>1. {n \in Notes : status[n] = "NEW"} \in SUBSET Notes
    OBVIOUS
  <2>2. OthersStay(h) /\ hpc'[h] \in {"idle", "mark"} /\ hpc[h] = "list"
    BY <1>3, <2>1, AdvanceHolds DEF List
  <2> QED
    BY <1>1, <1>3, <2>2 DEF List, HandlerHas, TypeOK
<1>4. CASE MarkProcessing(h)
  <2>1. /\ OthersStay(h) /\ hpc[h] = "mark" /\ hpc'[h] = "dispatch"
        /\ UNCHANGED <<hcur, wnote, wpc, crashes, faults, queued>>
        /\ \A n \in Notes : n # hcur[h] => status'[n] = status[n]
    BY <1>4 DEF MarkProcessing, HGoto, OthersStay, TypeOK
  <2> QED
    BY <1>1, <2>1 DEF HandlerHas, TypeOK
<1>5. CASE Dispatch(h)
  <2>1. /\ hcur[h] \in Notes /\ hlist[h] \in SUBSET Notes /\ Advance(h, hlist[h])
        /\ UNCHANGED <<wnote, wpc, crashes, faults>>
        /\ \A n \in Notes : queued'[n] >= queued[n] /\ queued'[n] \in Nat
        /\ queued'[hcur[h]] > 0 \/ status'[hcur[h]] = "FAILED"
        /\ \A n \in Notes : n # hcur[h] => status'[n] = status[n]
    BY <1>5 DEF Dispatch, TypeOK
  <2>2. OthersStay(h) /\ hpc'[h] # "rowFailed"
    BY <2>1, AdvanceHolds
  <2> QED
    BY <1>1, <2>1, <2>2 DEF HandlerHas, TypeOK
<1>6. CASE MarkFailed(h)
  <2>1. /\ hcur[h] \in Notes /\ hlist[h] \in SUBSET Notes /\ Advance(h, hlist[h])
        /\ UNCHANGED <<wnote, wpc, crashes, faults, queued>>
        /\ status'[hcur[h]] = "FAILED"
        /\ \A n \in Notes : n # hcur[h] => status'[n] = status[n]
    BY <1>6 DEF MarkFailed, TypeOK
  <2>2. OthersStay(h) /\ hpc'[h] # "rowFailed"
    BY <2>1, AdvanceHolds
  <2> QED
    BY <1>1, <2>1, <2>2 DEF HandlerHas, TypeOK
<1>7. CASE ListFails(h)
  BY <1>1, <1>7 DEF ListFails, HIdle, Fault, OthersStay, HandlerHas, TypeOK
<1>8. CASE BatchFails(h)
  <2>1. faults >= 1
    BY <1>8 DEF BatchFails, HeldInv, FaultSeen
  <2> QED
    BY <1>1, <1>8, <2>1 DEF BatchFails, HIdle, Fault, OthersStay, TypeOK
<1>9. CASE RowFails(h) \/ DispatchUnanswered(h)
  <2>1. /\ OthersStay(h) /\ hpc'[h] = "rowFailed"
        /\ UNCHANGED <<hcur, status, wnote, wpc, crashes>> /\ faults' = faults + 1
        /\ \A n \in Notes : queued'[n] >= queued[n] /\ queued'[n] \in Nat
    BY <1>9 DEF RowFails, DispatchUnanswered, HGoto, Fault, OthersStay, TypeOK
  <2> QED
    BY <1>1, <2>1 DEF HandlerHas, TypeOK
<1> QED
  BY <1>2, <1>3, <1>4, <1>5, <1>6, <1>7, <1>8, <1>9 DEF Handler, HandlerStep

\* The worker lets go of a row by calling it DONE or FAILED, short of two faults.
LEMMA HeldWorker ==
  ASSUME TypeOK, HeldInv, Worker
  PROVE  HeldInv'
<1> USE DEF HeldInv, FaultSeen, ProcessingHeld
<1>1. ASSUME NEW n \in Notes, Take(n) PROVE HeldInv'
  <2>1. /\ wpc = "idle" /\ wnote = NoNote /\ wnote' = n /\ wpc' \in {"deliver", "done"}
        /\ queued' = [queued EXCEPT ![n] = @ - 1]
        /\ UNCHANGED <<hpc, hcur, status, faults, crashes>>
    BY <1>1 DEF Take, TypeOK
  <2>2. \A k \in Notes : queued[k] > 0 => queued'[k] > 0 \/ k = n
    BY <2>1 DEF TypeOK
  <2> QED
    BY <2>1, <2>2, NotifyAssumption DEF NotifyAssumption
<1>2. CASE DeliverBatch
  BY <1>2 DEF DeliverBatch
<1>3. CASE Done
  BY <1>3 DEF Done, WGoto, TypeOK
<1>4. CASE DoneFails
  BY <1>4 DEF DoneFails, WGoto, Fault, TypeOK
<1>5. CASE Fail
  BY <1>5 DEF Fail, WGoto, Fault, TypeOK
<1>6. CASE Finish
  BY <1>6 DEF Finish, WIdle
<1> QED
  BY <1>1, <1>2, <1>3, <1>4, <1>5, <1>6 DEF Worker, WorkerStep

\* Every step keeps what is PROCESSING in somebody's hands.
LEMMA HeldNext ==
  ASSUME TypeOK, HeldInv, [Next]_vars PROVE HeldInv'
<1> USE DEF HeldInv, FaultSeen, ProcessingHeld
<1>1. CASE ListenerStep
  BY <1>1 DEF ListenerStep, Insert, Listen, ListenerFails, Fault, TypeOK
<1>2. ASSUME NEW n \in Notes, StalledRetry(n) \/ StalledFail(n) PROVE HeldInv'
  BY <1>2 DEF StalledRetry, StalledFail, TypeOK
<1>3. CASE Crash
  BY <1>3 DEF Crash, WIdle, TypeOK
<1>4. CASE UNCHANGED vars
  BY <1>4 DEF vars
<1> QED
  BY <1>1, <1>2, <1>3, <1>4, HeldHandler, HeldWorker DEF Next

\* Without a restart, a row that is PROCESSING is with a handler, a job or the
\* worker until two things have failed.
THEOREM ProcessingIsHeld == Spec => []ProcessingHeld
<1>1. Init => HeldInv
  BY DEF Init, HeldInv, FaultSeen, ProcessingHeld
<1>2. TypeOK /\ HeldInv /\ [Next]_vars => HeldInv'
  BY HeldNext
<1>3. HeldInv => ProcessingHeld
  BY DEF HeldInv
<1> QED
  BY <1>1, <1>2, <1>3, TypeCorrect, PTL DEF Spec

-----------------------------------------------------------------------------
(* NotifyPipeline implements DeliveryLedger. *)

\* A run is granted to every person of a row whose job is added or run again.
LEMMA GrantRow ==
  ASSUME TypeOK, NEW n \in Notes, queued' = [queued EXCEPT ![n] = @ + 1],
         \/ added' = [added EXCEPT ![n] = @ + 1] /\ UNCHANGED reruns
         \/ reruns' = [reruns EXCEPT ![n] = @ + 1] /\ UNCHANGED added,
         UNCHANGED <<wnote, wleft, told>>
  PROVE  Ledger!Next
<1> DEFINE S == {n} \X Persons
<1>1. S \in SUBSET Items
  BY DEF Items
<1>2. \A x \in Items : x[1] \in Notes /\ (x \in S <=> x[1] = n)
  BY DEF Items
<1>3. Granted' = [x \in Items |-> IF x \in S THEN Granted[x] + 1 ELSE Granted[x]]
  <2>1. ASSUME NEW x \in Items
        PROVE  added'[x[1]] + reruns'[x[1]] = IF x \in S THEN Granted[x] + 1 ELSE Granted[x]
    <3>1. Granted[x] = added[x[1]] + reruns[x[1]] /\ x[1] \in Notes
      BY <1>2 DEF Granted
    <3>2. added[x[1]] \in Nat /\ reruns[x[1]] \in Nat
      BY <3>1 DEF TypeOK
    <3>3. CASE x \in S
      <4>1. added'[x[1]] + reruns'[x[1]] = added[x[1]] + reruns[x[1]] + 1
        BY <1>2, <3>2, <3>3 DEF TypeOK
      <4> QED
        BY <3>1, <3>3, <4>1
    <3>4. CASE x \notin S
      <4>1. added'[x[1]] = added[x[1]] /\ reruns'[x[1]] = reruns[x[1]]
        BY <1>2, <3>1, <3>4 DEF TypeOK
      <4> QED
        BY <3>1, <3>4, <4>1
    <3> QED
      BY <3>3, <3>4
  <2> QED
    BY <2>1 DEF Granted
<1>4. Open' = [x \in Items |-> IF x \in S THEN Open[x] + 1 ELSE Open[x]]
  <2>1. ASSUME NEW x \in Items
        PROVE  queued'[x[1]] + (IF Ahead(x)' THEN 1 ELSE 0)
                 = IF x \in S THEN Open[x] + 1 ELSE Open[x]
    <3>1. /\ Open[x] = queued[x[1]] + IF Ahead(x) THEN 1 ELSE 0
          /\ x[1] \in Notes /\ queued[x[1]] \in Nat
      BY <1>2 DEF Open, TypeOK
    <3>2. Ahead(x)' <=> Ahead(x)
      BY DEF Ahead
    <3>3. queued'[x[1]] = IF x \in S THEN queued[x[1]] + 1 ELSE queued[x[1]]
      BY <1>2, <3>1 DEF TypeOK
    <3> HIDE DEF S
    <3> QED
      BY <3>1, <3>2, <3>3
  <2> QED
    BY <2>1 DEF Open
<1> HIDE DEF S
<1>5. Ledger!Grant(S)
  BY <1>3, <1>4 DEF Ledger!Grant
<1> QED
  BY <1>1, <1>5 DEF Ledger!Next

\* What leaves the jobs, the worker's list and the deliveries alone is a
\* stutter of the ledger.
LEMMA LedgerFrame ==
  ASSUME UNCHANGED <<queued, added, reruns, told>>,
         \A x \in Items : Ahead(x)' <=> Ahead(x)
  PROVE  UNCHANGED Ledger!ledger
  BY DEF Ledger!ledger, Granted, Open

\* Open runs end, those of D with a delivery and those of X without one.
LEMMA SettleStep ==
  ASSUME NEW D \in SUBSET Items, NEW X \in SUBSET Items, D \cap X = {},
         UNCHANGED <<added, reruns>>,
         \A x \in D \cup X : Open[x] > 0,
         \A x \in Items : Open'[x] = IF x \in D \cup X THEN Open[x] - 1 ELSE Open[x],
         told' = [x \in Items |-> IF x \in D THEN told[x] + 1 ELSE told[x]]
  PROVE  Ledger!Next
<1>1. UNCHANGED Granted
  BY DEF Granted
<1>2. Open' = [x \in Items |-> IF x \in D \cup X THEN Open[x] - 1 ELSE Open[x]]
  BY DEF Open
<1>3. Ledger!Settle(D \cup X, D)
  BY <1>1, <1>2 DEF Ledger!Settle
<1>4. D \cup X \in SUBSET {x \in Items : Open[x] > 0} /\ D \in SUBSET (D \cup X)
  OBVIOUS
<1> QED
  BY <1>3, <1>4 DEF Ledger!Next

\* The worker takes a job: the runs of persons it has no message for end.
LEMMA RefineTake ==
  ASSUME Inv, NEW n \in Notes, Take(n) PROVE Ledger!Next
<1> DEFINE X == {x \in Items : x[1] = n /\ x[2] \notin Recipients(n)}
<1>1. /\ queued[n] > 0 /\ queued' = [queued EXCEPT ![n] = @ - 1]
      /\ wnote = NoNote /\ wnote' = n /\ wleft' = Recipients(n)
      /\ UNCHANGED <<added, reruns, told>>
  BY DEF Take, Inv, TypeOK
<1>2. ASSUME NEW x \in Items
      PROVE  /\ Open[x] = queued[x[1]] /\ queued[x[1]] \in Nat
             /\ Open'[x] = IF x \in X THEN Open[x] - 1 ELSE Open[x]
             /\ x \in X => Open[x] > 0
  <2>1. x[1] \in Notes /\ queued[x[1]] \in Nat
    BY DEF Items, Inv, TypeOK
  <2>2. Open[x] = queued[x[1]]
    BY <1>1, <2>1, NotifyAssumption DEF Open, Ahead, NotifyAssumption
  <2>3. Open'[x] = queued'[x[1]] + IF x[1] = n /\ x[2] \in Recipients(n) THEN 1 ELSE 0
    BY <1>1 DEF Open, Ahead, Recipients
  <2>4. queued'[x[1]] = IF x[1] = n THEN queued[x[1]] - 1 ELSE queued[x[1]]
    BY <1>1, <2>1 DEF Inv, TypeOK
  <2> QED
    BY <1>1, <2>1, <2>2, <2>3, <2>4
<1>3. told' = [x \in Items |-> IF x \in {} THEN told[x] + 1 ELSE told[x]]
  BY <1>1 DEF Inv, TypeOK
<1>4. X \in SUBSET Items
  OBVIOUS
<1> HIDE DEF X
<1>5. /\ {} \cap X = {}
      /\ \A x \in {} \cup X : Open[x] > 0
      /\ \A x \in Items : Open'[x] = IF x \in {} \cup X THEN Open[x] - 1 ELSE Open[x]
  BY <1>2, <1>4
<1> QED
  BY <1>1, <1>3, <1>4, <1>5, SettleStep

\* The worker delivers a batch: the runs of its persons end, those of S with a
\* delivery.
LEMMA RefineDeliver ==
  ASSUME Inv, DeliverBatch PROVE Ledger!Next
<1>1. /\ wpc = "deliver" /\ wnote \in Notes /\ wleft \in SUBSET Persons
      /\ UNCHANGED <<wnote, queued, added, reruns>>
  BY NotifyAssumption DEF DeliverBatch, Inv, TypeOK, NotifyAssumption
<1>2. PICK B \in SUBSET wleft, S \in SUBSET wleft :
        /\ S \subseteq B /\ wleft' = wleft \ B
        /\ told' = [x \in Items |->
                      IF x[1] = wnote /\ x[2] \in S THEN told[x] + 1 ELSE told[x]]
  BY DEF DeliverBatch
<1> DEFINE D == {x \in Items : x[1] = wnote /\ x[2] \in S}
           X == {x \in Items : x[1] = wnote /\ x[2] \in B \ S}
<1>3. ASSUME NEW x \in Items
      PROVE  /\ Open'[x] = IF x \in D \cup X THEN Open[x] - 1 ELSE Open[x]
             /\ x \in D \cup X => Open[x] > 0
  <2>1. queued[x[1]] \in Nat
    BY DEF Items, Inv, TypeOK
  <2>2. x \in D \cup X <=> x[1] = wnote /\ x[2] \in B
    BY <1>2
  <2>3. /\ Ahead(x)' <=> (Ahead(x) /\ x \notin D \cup X)
        /\ x \in D \cup X => Ahead(x)
    BY <1>1, <1>2, <2>2 DEF Ahead
  <2>4. /\ Open[x] = queued[x[1]] + IF Ahead(x) THEN 1 ELSE 0
        /\ Open'[x] = queued[x[1]] + IF Ahead(x)' THEN 1 ELSE 0
    BY <1>1 DEF Open
  <2> HIDE DEF D, X
  <2> QED
    BY <2>1, <2>3, <2>4
<1>4. told' = [x \in Items |-> IF x \in D THEN told[x] + 1 ELSE told[x]]
  BY <1>2
<1>5. D \in SUBSET Items /\ X \in SUBSET Items /\ D \cap X = {}
  OBVIOUS
<1> HIDE DEF D, X
<1>6. \A x \in D \cup X : Open[x] > 0
  BY <1>3, <1>5
<1> QED
  BY <1>1, <1>3, <1>4, <1>5, <1>6, SettleStep

\* A restart ends the runs of the persons the worker had not reached.
LEMMA RefineCrash ==
  ASSUME Inv, Crash PROVE Ledger!Next
<1> DEFINE X == {x \in Items : Ahead(x)}
<1>1. wleft' = {} /\ UNCHANGED <<queued, added, reruns, told>>
  BY DEF Crash, WIdle, histVars
<1>2. ASSUME NEW x \in Items
      PROVE  /\ Open'[x] = IF x \in X THEN Open[x] - 1 ELSE Open[x]
             /\ x \in X => Open[x] > 0
  <2>1. queued[x[1]] \in Nat
    BY DEF Items, Inv, TypeOK
  <2>2. ~Ahead(x)' /\ (x \in X <=> Ahead(x))
    BY <1>1 DEF Ahead
  <2>3. /\ Open[x] = queued[x[1]] + IF Ahead(x) THEN 1 ELSE 0
        /\ Open'[x] = queued[x[1]] + IF Ahead(x)' THEN 1 ELSE 0
    BY <1>1 DEF Open
  <2> QED
    BY <2>1, <2>2, <2>3
<1>3. told' = [x \in Items |-> IF x \in {} THEN told[x] + 1 ELSE told[x]]
  BY <1>1 DEF Inv, TypeOK
<1>4. X \in SUBSET Items
  OBVIOUS
<1> HIDE DEF X
<1>5. /\ {} \cap X = {}
      /\ \A x \in {} \cup X : Open[x] > 0
      /\ \A x \in Items : Open'[x] = IF x \in {} \cup X THEN Open[x] - 1 ELSE Open[x]
  BY <1>2, <1>4
<1> QED
  BY <1>1, <1>3, <1>4, <1>5, SettleStep

\* The steps of a handler add a job for its row, or leave the ledger alone.
LEMMA RefineHandler ==
  ASSUME TypeOK, NEW h \in Handlers, Handler(h)
  PROVE  Ledger!Next \/ UNCHANGED Ledger!ledger
<1>1. CASE /\ hcur[h] \in Notes /\ queued' = [queued EXCEPT ![hcur[h]] = @ + 1]
           /\ added' = [added EXCEPT ![hcur[h]] = @ + 1]
           /\ UNCHANGED <<reruns, wnote, wleft, told>>
  BY <1>1, GrantRow
<1>2. CASE UNCHANGED <<queued, added, reruns, wnote, wleft, told>>
  BY <1>2, LedgerFrame DEF Ahead
<1>3. CASE Receive(h) \/ List(h) \/ ListFails(h)
  BY <1>2, <1>3 DEF Receive, List, ListFails
<1>4. CASE MarkProcessing(h) \/ MarkFailed(h) \/ RowFails(h) \/ BatchFails(h)
  BY <1>2, <1>4 DEF MarkProcessing, MarkFailed, RowFails, BatchFails
<1>5. CASE Dispatch(h) \/ DispatchUnanswered(h)
  <2>1. hcur[h] \in Notes
    BY <1>5 DEF Dispatch, DispatchUnanswered, TypeOK
  <2> QED
    BY <1>1, <1>2, <1>5, <2>1 DEF Dispatch, DispatchUnanswered
<1> QED
  BY <1>3, <1>4, <1>5 DEF Handler, HandlerStep

\* Every step of the pipeline is a step of the ledger, or none.
LEMMA RefineNext ==
  ASSUME Inv, [Next]_vars
  PROVE  Ledger!Next \/ UNCHANGED Ledger!ledger
<1>1. CASE UNCHANGED <<queued, added, reruns, told>>
           /\ \A x \in Items : Ahead(x)' <=> Ahead(x)
  BY <1>1, LedgerFrame
<1>2. CASE ListenerStep
  BY <1>1, <1>2 DEF ListenerStep, Insert, Listen, ListenerFails, Ahead
<1>3. CASE Done \/ DoneFails \/ Fail \/ Finish
  <2>1. UNCHANGED <<queued, added, reruns, told>> /\ wleft = {} /\ wleft' = {}
    BY <1>3 DEF Done, DoneFails, Fail, Finish, WGoto, WIdle, Inv, LeftOnlyDelivering
  <2> QED
    BY <1>1, <2>1 DEF Ahead
<1>4. CASE Worker
  BY <1>3, <1>4, RefineTake, RefineDeliver DEF Worker, WorkerStep
<1>5. ASSUME NEW n \in Notes, StalledRetry(n)
      PROVE  Ledger!Next
  BY <1>5, GrantRow DEF StalledRetry, Inv
<1>6. ASSUME NEW n \in Notes, StalledFail(n)
      PROVE  UNCHANGED Ledger!ledger
  BY <1>6, LedgerFrame DEF StalledFail, Ahead
<1>7. CASE UNCHANGED vars
  BY <1>1, <1>7 DEF vars, Ahead
<1>8. ASSUME NEW h \in Handlers, Handler(h)
      PROVE  Ledger!Next \/ UNCHANGED Ledger!ledger
  BY <1>8, RefineHandler DEF Inv
<1> QED
  BY <1>2, <1>4, <1>5, <1>6, <1>7, <1>8, RefineCrash DEF Next

\* The pipeline implements the ledger of deliveries.
THEOREM Implements == Spec => KeepsLedger
<1>1. Init => Ledger!Init
  <2> SUFFICES ASSUME Init PROVE Ledger!Init
    OBVIOUS
  <2>1. \A x \in Items : x[1] \in Notes /\ ~Ahead(x)
    BY DEF Items, Init, Ahead
  <2> QED
    BY <2>1 DEF Init, Ledger!Init, Granted, Open
<1>2. Inv /\ [Next]_vars => [Ledger!Next]_(Ledger!ledger)
  BY RefineNext
<1> QED
  BY <1>1, <1>2, Invariance, PTL DEF Spec, KeepsLedger, Ledger!Spec

\* The runs that are open were granted, and nobody has been told in them.
Balanced ==
  /\ Granted \in [Items -> Nat] /\ Open \in [Items -> Nat] /\ told \in [Items -> Nat]
  /\ \A x \in Items : told[x] + Open[x] <= Granted[x]

LEMMA LedgerStep ==
  ASSUME Balanced, Ledger!Next \/ UNCHANGED Ledger!ledger
  PROVE  Balanced'
<1> USE DEF Balanced
<1>1. ASSUME NEW S \in SUBSET Items, Ledger!Grant(S) PROVE Balanced'
  BY <1>1 DEF Ledger!Grant
<1>2. ASSUME NEW E \in SUBSET {x \in Items : Open[x] > 0}, NEW D \in SUBSET E,
             Ledger!Settle(E, D)
      PROVE  Balanced'
  <2>1. Granted' \in [Items -> Nat] /\ Open' \in [Items -> Nat] /\ told' \in [Items -> Nat]
    BY <1>2 DEF Ledger!Settle
  <2>2. \A x \in Items : told'[x] + Open'[x] <= Granted'[x]
    BY <1>2 DEF Ledger!Settle
  <2> QED
    BY <2>1, <2>2
<1>3. CASE UNCHANGED Ledger!ledger
  BY <1>3 DEF Ledger!ledger
<1> QED
  BY <1>1, <1>2, <1>3 DEF Ledger!Next

\* What the ledger promises, of the pipeline: nobody is told of a row more often than
\* runs for it were granted.
THEOREM DeliveredWithinGrants == Spec => []Ledger!WithinGrants
<1>1. Ledger!Init => Balanced
  BY DEF Ledger!Init, Balanced
<1>2. Balanced /\ [Ledger!Next]_(Ledger!ledger) => Balanced'
  BY LedgerStep
<1>3. Balanced => Ledger!WithinGrants
  <2> SUFFICES ASSUME Balanced, NEW x \in Items PROVE told[x] <= Granted[x]
    BY DEF Ledger!WithinGrants
  <2>1. told[x] \in Nat /\ Open[x] \in Nat /\ Granted[x] \in Nat
    BY DEF Balanced
  <2> QED
    BY <2>1 DEF Balanced
<1> QED
  BY <1>1, <1>2, <1>3, Implements, PTL DEF KeepsLedger, Ledger!Spec

=============================================================================
