---------------------------- MODULE Library_proofs ----------------------------
(* Proofs about what the portal keeps and tells, for any sets and bounds: the *)
(* files of tenders, the training videos, presence, the mailbox, the mails of *)
(* a campaign, the digest, the log of activities, and the types of questions  *)
(* and of logins.                                                             *)
EXTENDS Portal, FiniteSetTheorems, SequenceTheorems, WellFoundedInduction, TLAPS

(***************************************************************************)
(* Sums over finite sets.                                                  *)
(***************************************************************************)
\* Of sets of subsets of a finite set, one has a member no other member is part of.
LEMMA LeastPart ==
  ASSUME NEW S, IsFiniteSet(S), NEW T \in SUBSET SUBSET S, T # {}
  PROVE  \E least \in T : \A other \in SUBSET least : other # least => other \notin T
<1>1. T \subseteq FiniteSubsetsOf(S)
  BY FS_FiniteSubsetsOfFinite
<1>2. PICK least \in T : \A other \in T : <<other, least>> \notin StrictSubsetOrdering(S)
  <2>1. IsWellFoundedOn(StrictSubsetOrdering(S), FiniteSubsetsOf(S))
    BY FS_StrictSubsetOrderingWellFounded
  <2> QED
    BY <1>1, <2>1, WFMin
<1>3. ASSUME NEW other \in SUBSET least, other # least, other \in T PROVE FALSE
  <2>1. <<other, least>> \in StrictSubsetOrdering(S)
    BY <1>3 DEF StrictSubsetOrdering
  <2> QED
    BY <1>2, <1>3, <2>1
<1> QED
  BY <1>2, <1>3

\* A sum takes what weighs one by one, in an order of its own.
Adds(f, w, entries) ==
  f = [s \in SUBSET entries |->
        IF s = {} THEN 0 ELSE w[CHOOSE x \in s : TRUE] + f[s \ {CHOOSE x \in s : TRUE}]]
Sum(w, entries) == CHOOSE f : Adds(f, w, entries)

LEMMA AddsStep ==
  ASSUME NEW w, NEW entries, NEW f, Adds(f, w, entries)
  PROVE  /\ f[{}] = 0
         /\ \A s \in SUBSET entries : s # {} =>
              \E x \in s : f[s] = w[x] + f[s \ {x}] /\ x = CHOOSE y \in s : TRUE
<1>1. ASSUME NEW s \in SUBSET entries
      PROVE  f[s] = IF s = {} THEN 0
                    ELSE w[CHOOSE x \in s : TRUE] + f[s \ {CHOOSE x \in s : TRUE}]
  BY DEF Adds
<1>2. f[{}] = 0
  BY <1>1
<1>3. ASSUME NEW s \in SUBSET entries, s # {} PROVE (CHOOSE x \in s : TRUE) \in s
  BY <1>3
<1> QED
  BY <1>1, <1>2, <1>3

\* Two ways of adding agree where both are defined.
LEMMA AddsAgree ==
  ASSUME NEW w, NEW entries, NEW more, IsFiniteSet(entries), entries \subseteq more,
         NEW f, Adds(f, w, entries), NEW g, Adds(g, w, more)
  PROVE  f[entries] = g[entries]
<1> DEFINE T == {s \in SUBSET entries : f[s] # g[s]}
<1>1. ASSUME T # {} PROVE FALSE
  <2>1. PICK s \in T : \A other \in SUBSET s : other # s => other \notin T
    <3>1. T \in SUBSET SUBSET entries
      OBVIOUS
    <3> HIDE DEF T
    <3> QED
      BY <1>1, <3>1, LeastPart
  <2>2. s \in SUBSET entries /\ s \in SUBSET more /\ f[s] # g[s]
    OBVIOUS
  <2>3. f[{}] = 0 /\ g[{}] = 0
    BY AddsStep
  <2>4. s # {}
    BY <2>2, <2>3
  <2>5. PICK x \in s : f[s] = w[x] + f[s \ {x}] /\ x = CHOOSE y \in s : TRUE
    BY <2>2, <2>4, AddsStep
  <2>6. g[s] = w[x] + g[s \ {x}]
    <3>1. PICK z \in s : g[s] = w[z] + g[s \ {z}] /\ z = CHOOSE y \in s : TRUE
      BY <2>2, <2>4, AddsStep
    <3> QED
      BY <2>5, <3>1
  <2>7. f[s \ {x}] = g[s \ {x}]
    BY <2>1, <2>2
  <2> QED
    BY <2>2, <2>5, <2>6, <2>7
<1> QED
  BY <1>1

\* There is a way of adding any finite number of things.
LEMMA AddsExists ==
  ASSUME NEW w, NEW entries, IsFiniteSet(entries)
  PROVE  \E f : Adds(f, w, entries)
<1> DEFINE T == {s \in SUBSET entries : ~\E f : Adds(f, w, s)}
<1>1. ASSUME T # {} PROVE FALSE
  <2>1. PICK s \in T : \A other \in SUBSET s : other # s => other \notin T
    <3>1. T \in SUBSET SUBSET entries
      OBVIOUS
    <3> HIDE DEF T
    <3> QED
      BY <1>1, <3>1, LeastPart
  <2>2. s \in SUBSET entries /\ ~\E f : Adds(f, w, s)
    OBVIOUS
  <2> DEFINE F(u) == Sum(w, u)
             c(t) == CHOOSE x \in t : TRUE
             h == [t \in SUBSET s |-> IF t = {} THEN 0 ELSE w[c(t)] + F(t \ {c(t)})[t \ {c(t)}]]
  <2>3. ASSUME NEW u \in SUBSET s, u # s PROVE Adds(F(u), w, u) /\ IsFiniteSet(u)
    <3>1. u \in SUBSET entries /\ \E f : Adds(f, w, u)
      BY <2>1, <2>2, <2>3
    <3>2. IsFiniteSet(u)
      BY <3>1, FS_Subset
    <3> QED
      BY <3>1, <3>2 DEF Sum
  <2>4. ASSUME NEW t \in SUBSET s, t # {}
        PROVE  c(t) \in t /\ t \ {c(t)} \in SUBSET s /\ t \ {c(t)} # s /\ t \ {c(t)} # t
    <3>1. c(t) \in t
      BY <2>4
    <3> HIDE DEF c
    <3> QED
      BY <3>1
  <2>5. ASSUME NEW u \in SUBSET s, u # s PROVE h[u] = F(u)[u]
    <3>1. CASE u = {}
      <4>1. F({})[{}] = 0
        <5> HIDE DEF F
        <5> QED
          BY <2>3, <2>5, <3>1, AddsStep
      <4> QED
        BY <3>1, <4>1
    <3>2. CASE u # {}
      <4> DEFINE v == u \ {c(u)}
      <4>1. c(u) \in u /\ v \in SUBSET s /\ v # s /\ v \in SUBSET u /\ u \in SUBSET u
        BY <2>4, <3>2
      <4>2. h[u] = w[c(u)] + F(v)[v]
        BY <3>2
      <4>3. Adds(F(v), w, v) /\ IsFiniteSet(v) /\ Adds(F(u), w, u)
        <5> HIDE DEF F, v
        <5> QED
          BY <2>3, <2>5, <4>1
      <4>4. F(v)[v] = F(u)[v]
        <5> HIDE DEF F, v
        <5> QED
          BY <4>1, <4>3, AddsAgree
      <4>5. F(u)[u] = w[c(u)] + F(u)[v]
        <5> HIDE DEF F
        <5>1. PICK z \in u : F(u)[u] = w[z] + F(u)[u \ {z}] /\ z = CHOOSE y \in u : TRUE
          BY <3>2, <4>1, <4>3, AddsStep
        <5> QED
          BY <5>1
      <4> QED
        BY <4>2, <4>4, <4>5
    <3> QED
      BY <3>1, <3>2
  <2>6. ASSUME NEW t \in SUBSET s
        PROVE  h[t] = IF t = {} THEN 0 ELSE w[c(t)] + h[t \ {c(t)}]
    <3>1. CASE t # {}
      <4>1. h[t \ {c(t)}] = F(t \ {c(t)})[t \ {c(t)}]
        <5>1. t \ {c(t)} \in SUBSET s /\ t \ {c(t)} # s
          BY <2>4, <3>1
        <5> HIDE DEF F, h, c
        <5> QED
          BY <2>5, <5>1
      <4>2. h[t] = w[c(t)] + F(t \ {c(t)})[t \ {c(t)}]
        BY <3>1
      <4> HIDE DEF h, F, c
      <4> QED
        BY <3>1, <4>1, <4>2
    <3>2. CASE t = {}
      BY <3>2
    <3> QED
      BY <3>1, <3>2
  <2>7. Adds(h, w, s)
    <3>1. h = [t \in SUBSET s |-> h[t]]
      OBVIOUS
    <3> HIDE DEF h
    <3> QED
      BY <2>6, <3>1 DEF Adds
  <2> QED
    BY <2>2, <2>7
<1> QED
  BY <1>1

\* Numbers of things, none of which is of two rows, add up to the number of all.
Together(entries, things) == UNION {things[p] : p \in entries}
Counts(w, entries, things) ==
  /\ IsFiniteSet(entries)
  /\ \A p \in entries : IsFiniteSet(things[p]) /\ w[p] = Cardinality(things[p])
  /\ \A p, q \in entries : p # q => things[p] \cap things[q] = {}

LEMMA SumCounts ==
  ASSUME NEW w, NEW entries, NEW things, Counts(w, entries, things), NEW f, Adds(f, w, entries)
  PROVE  /\ IsFiniteSet(Together(entries, things))
         /\ f[entries] = Cardinality(Together(entries, things))
<1>0. /\ IsFiniteSet(entries)
      /\ \A p \in entries : IsFiniteSet(things[p]) /\ w[p] = Cardinality(things[p])
      /\ \A p, q \in entries : p # q => things[p] \cap things[q] = {}
  BY DEF Counts
<1> DEFINE All(s) == UNION {things[p] : p \in s}
           T == {s \in SUBSET entries : ~(IsFiniteSet(All(s)) /\ f[s] = Cardinality(All(s)))}
<1>1. ASSUME T # {} PROVE FALSE
  <2>1. PICK s \in T : \A other \in SUBSET s : other # s => other \notin T
    <3>1. T \in SUBSET SUBSET entries
      OBVIOUS
    <3> HIDE DEF T
    <3> QED
      BY <1>0, <1>1, <3>1, LeastPart
  <2>2. s \in SUBSET entries /\ ~(IsFiniteSet(All(s)) /\ f[s] = Cardinality(All(s)))
    OBVIOUS
  <2>3. s # {}
    <3>1. All({}) = {} /\ f[{}] = 0
      BY AddsStep
    <3> HIDE DEF All
    <3> QED
      BY <2>2, <3>1, FS_EmptySet
  <2>4. PICK p \in s : f[s] = w[p] + f[s \ {p}]
    BY <2>2, <2>3, AddsStep
  <2> DEFINE less == s \ {p}
  <2>5. IsFiniteSet(All(less)) /\ f[less] = Cardinality(All(less))
    <3>1. less \in SUBSET s /\ less # s /\ less \in SUBSET entries
      BY <2>2
    <3>2. less \notin T
      BY <2>1, <3>1
    <3> HIDE DEF less, All
    <3> QED
      BY <3>1, <3>2
  <2>6. All(s) = All(less) \cup things[p] /\ All(less) \cap things[p] = {}
    BY <1>0, <2>2
  <2>7. IsFiniteSet(things[p]) /\ w[p] = Cardinality(things[p])
    BY <1>0, <2>2
  <2>8. IsFiniteSet(All(s)) /\ Cardinality(All(s)) = Cardinality(things[p]) + Cardinality(All(less))
    <3> HIDE DEF All, less
    <3>1. Cardinality({}) = 0 /\ Cardinality(All(less)) \in Nat /\ Cardinality(things[p]) \in Nat
      BY <2>5, <2>7, FS_EmptySet, FS_CardinalityType
    <3>2. /\ IsFiniteSet(All(less) \cup things[p])
          /\ Cardinality(All(less) \cup things[p])
               = Cardinality(All(less)) + Cardinality(things[p]) - Cardinality(All(less) \cap things[p])
      BY <2>5, <2>7, FS_Union
    <3>3. IsFiniteSet(All(s)) /\ Cardinality(All(s)) = Cardinality(All(less) \cup things[p])
      BY <2>6, <3>2
    <3>4. Cardinality(All(less) \cap things[p]) = 0
      BY <2>6, <3>1
    <3> QED
      BY <3>1, <3>2, <3>3, <3>4
  <2> HIDE DEF All
  <2> QED
    BY <2>2, <2>4, <2>5, <2>7, <2>8
<1>2. entries \notin T
  BY <1>1
<1> QED
  BY <1>2 DEF Together

(***************************************************************************)
(* The files of a tender (tender.service.ts, files.service.ts).            *)
(***************************************************************************)
SaveForm == [at : {"new", "open", "delete", "deleteRow", "saveRow", "done"},
             keep : SUBSET TenderUploads, drop : SUBSET TenderUploads,
             add : SUBSET TenderUploads, file : TenderUploads \cup {None}]

TenderTypes ==
  /\ rows \subseteq TenderUploads /\ bucket \subseteq TenderUploads
  /\ save \in [Saves -> SaveForm]
  /\ \A s \in Saves : save[s].file # None <=> save[s].at \in {"deleteRow", "saveRow"}
  /\ loaded \in [Saves -> [alone : BOOLEAN, faults : Nat]]
  /\ broken \in Nat /\ \A s \in Saves : loaded[s].faults <= broken

\* Files that save s is still going to bring.
ToBring(s) == IF save[s].at = "new" THEN SaveUploads[s] ELSE save[s].add

\* A file comes into S3 once: while it is to come nobody has it, while its row is to come
\* nobody deletes it, and one whose row is to go is not there.
FileTrue(f) ==
  /\ \A s \in Saves : f \in ToBring(s) =>
       /\ f \in SaveUploads[s] /\ f \notin rows /\ f \notin bucket
       /\ \A t \in Saves : f \notin save[t].drop /\ save[t].file # f
  /\ \A s \in Saves : save[s].at = "saveRow" /\ save[s].file = f =>
       /\ f \in SaveUploads[s] /\ f \notin rows /\ f \in bucket
       /\ \A t \in Saves : f \notin save[t].drop /\ (save[t].at = "deleteRow" => save[t].file # f)
  /\ \A s \in Saves : save[s].at = "deleteRow" /\ save[s].file = f => f \notin bucket

\* A save that nobody has disturbed since its form was opened.
Undisturbed(s) == save[s].at # "new" /\ loaded[s].alone /\ loaded[s].faults = broken

\* What is still to go and to come makes the difference between the rows and the form.
SaveTrue(s) ==
  Undisturbed(s) =>
    /\ \A t \in Saves \ {s} : save[t].at \in {"new", "open", "done"}
    /\ save[s].keep \cap SaveUploads[s] = {}
    /\ save[s].drop \cap (save[s].keep \cup SaveUploads[s]) = {}
    /\ save[s].add \subseteq SaveUploads[s]
    /\ save[s].at = "open" =>
         save[s].keep \subseteq rows /\ save[s].add = SaveUploads[s]
    /\ save[s].at = "delete" =>
         rows = save[s].keep \cup save[s].drop \cup (SaveUploads[s] \ save[s].add)
    /\ save[s].at = "deleteRow" =>
         /\ rows = save[s].keep \cup save[s].drop \cup {save[s].file}
                     \cup (SaveUploads[s] \ save[s].add)
         /\ save[s].file \notin save[s].keep \cup save[s].drop \cup SaveUploads[s]
    /\ save[s].at = "saveRow" =>
         /\ rows = save[s].keep \cup (SaveUploads[s] \ (save[s].add \cup {save[s].file}))
         /\ save[s].drop = {} /\ save[s].file \in SaveUploads[s] \ save[s].add
    /\ save[s].at = "done" => rows = save[s].keep \cup SaveUploads[s]

TenderInv ==
  /\ TenderTypes /\ Tender!RowsHaveObjects
  /\ \A f \in TenderUploads : FileTrue(f)
  /\ \A s \in Saves : SaveTrue(s)

LEMMA TenderInit == ASSUME Tender!TenderFilesAssumption, Tender!Init PROVE TenderInv
<1> USE DEF Tender!TenderFilesAssumption, Tender!Init, Tender!Form
<1>1. \A s \in Saves : save[s] = [at |-> "new", keep |-> {}, drop |-> {}, add |-> {}, file |-> None]
  OBVIOUS
<1>2. TenderTypes
  <2>1. save \in [Saves -> SaveForm]
    BY DEF SaveForm
  <2>2. loaded \in [Saves -> [alone : BOOLEAN, faults : Nat]] /\ broken = 0
        /\ \A s \in Saves : loaded[s].faults = 0
    OBVIOUS
  <2>3. rows \subseteq TenderUploads /\ bucket = rows
    OBVIOUS
  <2> HIDE DEF Tender!Init
  <2> QED
    BY <1>1, <2>1, <2>2, <2>3 DEF TenderTypes
<1>3. ASSUME NEW f \in TenderUploads PROVE FileTrue(f)
  BY <1>1 DEF FileTrue, ToBring
<1>4. ASSUME NEW s \in Saves PROVE SaveTrue(s)
  BY <1>1 DEF SaveTrue, Undisturbed
<1>5. Tender!RowsHaveObjects
  BY DEF Tender!RowsHaveObjects
<1> QED
  BY <1>2, <1>3, <1>4, <1>5 DEF TenderInv

LEMMA TenderForms ==
  ASSUME Tender!TenderFilesAssumption, TenderInv, NEW s \in Saves,
         Tender!OpenForm(s) \/ Tender!ListFiles(s) \/ Tender!SaveFails(s) \/ Tender!Answer(s)
  PROVE  TenderInv'
<1> USE DEF Tender!TenderFilesAssumption
<1>0. /\ TenderTypes /\ Tender!RowsHaveObjects
      /\ \A f \in TenderUploads : FileTrue(f)
      /\ \A t \in Saves : SaveTrue(t)
  BY DEF TenderInv
<1>s. save[s] \in SaveForm /\ SaveUploads[s] \subseteq TenderUploads
  BY <1>0 DEF TenderTypes
<1>1. CASE Tender!OpenForm(s)
  <2>1. PICK keep \in SUBSET rows :
          save' = [save EXCEPT ![s] = [at |-> "open", keep |-> keep, drop |-> {},
                                       add |-> SaveUploads[s], file |-> None]]
    BY <1>1 DEF Tender!OpenForm, Tender!Form
  <2>2. /\ save[s].at = "new" /\ save[s].file = None
        /\ UNCHANGED <<rows, bucket, broken, halves>>
    BY <1>0, <1>1 DEF Tender!OpenForm, Tender!At, Tender!NoFault, TenderTypes
  <2>3. loaded' = [loaded EXCEPT ![s] =
          [alone |-> \A t \in Saves : save[t].at \in {"new", "open", "done"}, faults |-> broken]]
    BY <1>1 DEF Tender!OpenForm
  <2>4. /\ save'[s] = [at |-> "open", keep |-> keep, drop |-> {}, add |-> SaveUploads[s],
                       file |-> None]
        /\ \A t \in Saves \ {s} : save'[t] = save[t] /\ loaded'[t] = loaded[t]
        /\ loaded'[s].faults = broken
        /\ loaded'[s].alone => \A t \in Saves : save[t].at \in {"new", "open", "done"}
    BY <1>0, <2>1, <2>3 DEF TenderTypes
  <2>5. TenderTypes'
    <3>1. save' \in [Saves -> SaveForm]
      BY <1>0, <1>s, <2>1 DEF TenderTypes, SaveForm
    <3>2. loaded' \in [Saves -> [alone : BOOLEAN, faults : Nat]]
      BY <1>0, <2>3 DEF TenderTypes
    <3>3. \A t \in Saves : save'[t].file # None <=> save'[t].at \in {"deleteRow", "saveRow"}
      BY <1>0, <2>4 DEF TenderTypes
    <3>4. \A t \in Saves : loaded'[t].faults <= broken
      BY <1>0, <2>4 DEF TenderTypes
    <3> QED
      BY <1>0, <2>2, <3>1, <3>2, <3>3, <3>4 DEF TenderTypes
  <2>6. Tender!RowsHaveObjects'
    BY <1>0, <2>2, <2>4 DEF Tender!RowsHaveObjects
  <2>7. ASSUME NEW f \in TenderUploads PROVE FileTrue(f)'
    BY <1>0, <2>2, <2>4 DEF FileTrue, ToBring
  <2>8. ASSUME NEW t \in Saves PROVE SaveTrue(t)'
    <3>1. CASE t = s
      <4>1. SaveUploads[s] \cap rows = {}
        BY <1>0, <1>s, <2>2 DEF FileTrue, ToBring
      <4> QED
        BY <2>2, <2>4, <3>1, <4>1 DEF SaveTrue, Undisturbed
    <3>2. CASE t # s
      BY <1>0, <2>2, <2>4, <3>2 DEF SaveTrue, Undisturbed
    <3> QED
      BY <3>1, <3>2
  <2> QED
    BY <2>5, <2>6, <2>7, <2>8 DEF TenderInv
<1>2. CASE Tender!ListFiles(s)
  <2>1. /\ save[s].at = "open" /\ save[s].file = None
        /\ save' = [save EXCEPT ![s] = [save[s] EXCEPT !.at = "delete", !.drop = rows \ save[s].keep]]
        /\ UNCHANGED <<rows, bucket, broken, halves>>
    BY <1>0, <1>2 DEF Tender!ListFiles, Tender!At, Tender!NoFault, TenderTypes
  <2>3. loaded' = [t \in Saves |-> IF t = s THEN loaded[t] ELSE [loaded[t] EXCEPT !.alone = FALSE]]
    BY <1>2 DEF Tender!ListFiles, Tender!Touches
  <2>4. /\ save'[s] = [at |-> "delete", keep |-> save[s].keep, drop |-> rows \ save[s].keep,
                       add |-> save[s].add, file |-> None]
        /\ \A t \in Saves \ {s} : save'[t] = save[t] /\ ~loaded'[t].alone
                                  /\ loaded'[t].faults = loaded[t].faults
        /\ loaded'[s] = loaded[s]
    <3>1. save'[s] = [save[s] EXCEPT !.at = "delete", !.drop = rows \ save[s].keep]
          /\ \A t \in Saves \ {s} : save'[t] = save[t]
      BY <1>0, <2>1 DEF TenderTypes
    <3>2. save'[s] = [at |-> "delete", keep |-> save[s].keep, drop |-> rows \ save[s].keep,
                      add |-> save[s].add, file |-> None]
      <4>1. save'[s] = [at |-> "delete", keep |-> save[s].keep, drop |-> rows \ save[s].keep,
                        add |-> save[s].add, file |-> save[s].file]
        BY <1>s, <3>1 DEF SaveForm
      <4>2. save[s].file = None
        BY <2>1
      <4> QED
        BY <4>1, <4>2, Zenon
    <3>3. \A t \in Saves : loaded[t] \in [alone : BOOLEAN, faults : Nat]
      BY <1>0 DEF TenderTypes
    <3>4. \A t \in Saves \ {s} : ~loaded'[t].alone /\ loaded'[t].faults = loaded[t].faults
      BY <2>3, <3>3
    <3> QED
      BY <2>3, <3>1, <3>2, <3>4
  <2>5. TenderTypes'
    <3>1. save' \in [Saves -> SaveForm]
      <4>1. save'[s] \in SaveForm
        BY <1>0, <1>s, <2>4 DEF TenderTypes, SaveForm
      <4> QED
        BY <1>0, <2>1, <4>1 DEF TenderTypes
    <3>2. loaded' \in [Saves -> [alone : BOOLEAN, faults : Nat]]
      BY <1>0, <2>3 DEF TenderTypes
    <3>3. \A t \in Saves : save'[t].file # None <=> save'[t].at \in {"deleteRow", "saveRow"}
      BY <1>0, <2>4 DEF TenderTypes
    <3>4. \A t \in Saves : loaded'[t].faults <= broken
      BY <1>0, <2>4 DEF TenderTypes
    <3> QED
      BY <1>0, <2>1, <3>1, <3>2, <3>3, <3>4 DEF TenderTypes
  <2>6. Tender!RowsHaveObjects'
    BY <1>0, <2>1, <2>4 DEF Tender!RowsHaveObjects
  <2>7. ASSUME NEW f \in TenderUploads PROVE FileTrue(f)'
    BY <1>0, <2>1, <2>4 DEF FileTrue, ToBring
  <2>8. ASSUME NEW t \in Saves PROVE SaveTrue(t)'
    <3>1. CASE t = s
      <4>1. Undisturbed(s)' => Undisturbed(s)
        BY <2>1, <2>4 DEF Undisturbed
      <4>2. save[s].add \cap rows = {}
        BY <1>0, <1>s, <2>1 DEF FileTrue, ToBring, SaveForm
      <4>3. SaveTrue(s)
        BY <1>0
      <4> QED
        BY <2>1, <2>4, <3>1, <4>1, <4>2, <4>3 DEF SaveTrue
    <3>2. CASE t # s
      BY <2>4, <3>2 DEF SaveTrue, Undisturbed
    <3> QED
      BY <3>1, <3>2
  <2> QED
    BY <2>5, <2>6, <2>7, <2>8 DEF TenderInv
<1>3. CASE Tender!SaveFails(s) \/ Tender!Answer(s)
  <2>1. /\ save[s].at \in {"open", "delete"} /\ save[s].file = None
        /\ save' = [save EXCEPT ![s] = [save[s] EXCEPT !.at = "done", !.file = None]]
        /\ UNCHANGED <<rows, bucket, halves, loaded>>
    BY <1>0, <1>3 DEF Tender!SaveFails, Tender!Answer, Tender!At, Tender!Goes, Tender!NoFault, TenderTypes
  <2>2. \/ broken' = broken + 1
        \/ broken' = broken /\ save[s].at = "delete" /\ save[s].drop = {} /\ save[s].add = {}
    BY <1>3 DEF Tender!SaveFails, Tender!Answer, Tender!At, Tender!NoFault
  <2>4. /\ save'[s] = [at |-> "done", keep |-> save[s].keep, drop |-> save[s].drop,
                       add |-> save[s].add, file |-> None]
        /\ \A t \in Saves \ {s} : save'[t] = save[t]
    <3>1. save'[s] = [save[s] EXCEPT !.at = "done", !.file = None]
          /\ \A t \in Saves \ {s} : save'[t] = save[t]
      BY <1>0, <2>1 DEF TenderTypes
    <3> QED
      BY <1>s, <3>1 DEF SaveForm
  <2>5. TenderTypes'
    <3>1. save' \in [Saves -> SaveForm]
      <4>1. save'[s] \in SaveForm
        BY <1>s, <2>4 DEF SaveForm
      <4> QED
        BY <1>0, <2>1, <4>1 DEF TenderTypes
    <3>2. \A t \in Saves : save'[t].file # None <=> save'[t].at \in {"deleteRow", "saveRow"}
      BY <1>0, <2>4 DEF TenderTypes
    <3>3. broken \in Nat /\ loaded \in [Saves -> [alone : BOOLEAN, faults : Nat]]
      BY <1>0 DEF TenderTypes
    <3>4. \A t \in Saves : loaded[t].faults <= broken'
      BY <1>0, <2>2, <3>3 DEF TenderTypes
    <3> QED
      BY <1>0, <2>1, <2>2, <3>1, <3>2, <3>3, <3>4 DEF TenderTypes
  <2>6. Tender!RowsHaveObjects'
    BY <1>0, <2>1, <2>4 DEF Tender!RowsHaveObjects
  <2>7. ASSUME NEW f \in TenderUploads PROVE FileTrue(f)'
    BY <1>0, <2>1, <2>4 DEF FileTrue, ToBring
  <2>8. ASSUME NEW t \in Saves PROVE SaveTrue(t)'
    <3>1. Undisturbed(t)' => broken' = broken
      <4>1. broken \in Nat /\ loaded[t].faults \in Nat /\ loaded[t].faults <= broken
        BY <1>0 DEF TenderTypes
      <4> QED
        BY <2>1, <2>2, <4>1 DEF Undisturbed
    <3>2. CASE t = s
      <4>1. ASSUME Undisturbed(s)'
            PROVE  Undisturbed(s) /\ save[s].at = "delete" /\ save[s].drop = {} /\ save[s].add = {}
        <5>1. broken \in Nat /\ broken' = broken
          BY <1>0, <3>1, <3>2, <4>1 DEF TenderTypes
        <5> QED
          BY <2>1, <2>2, <4>1, <5>1 DEF Undisturbed
      <4>2. SaveTrue(s)
        BY <1>0
      <4> QED
        BY <2>1, <2>4, <3>2, <4>1, <4>2 DEF SaveTrue
    <3>3. CASE t # s
      <4>1. Undisturbed(t)' => Undisturbed(t)
        BY <2>1, <2>4, <3>1, <3>3 DEF Undisturbed
      <4>2. SaveTrue(t)
        BY <1>0
      <4> QED
        BY <2>1, <2>4, <3>3, <4>1, <4>2 DEF SaveTrue
    <3> QED
      BY <3>2, <3>3
  <2> QED
    BY <2>5, <2>6, <2>7, <2>8 DEF TenderInv
<1> QED
  BY <1>1, <1>2, <1>3

\* A file is deleted: its object first, its row then.
LEMMA TenderDeletes ==
  ASSUME Tender!TenderFilesAssumption, TenderInv, NEW s \in Saves,
         \/ Tender!DeleteObject(s) \/ Tender!DeleteObjectFails(s)
         \/ Tender!DeleteRow(s) \/ Tender!DeleteRowFails(s)
  PROVE  TenderInv'
<1> USE DEF Tender!TenderFilesAssumption
<1>0. /\ TenderTypes /\ Tender!RowsHaveObjects
      /\ \A f \in TenderUploads : FileTrue(f)
      /\ \A t \in Saves : SaveTrue(t)
  BY DEF TenderInv
<1>s. save[s] \in SaveForm /\ SaveUploads[s] \subseteq TenderUploads
  BY <1>0 DEF TenderTypes
<1>1. CASE Tender!DeleteObject(s)
  <2>1. PICK f \in save[s].drop :
          /\ save' = [save EXCEPT ![s] = [@ EXCEPT
                !.at = "deleteRow", !.drop = save[s].drop \ {f}, !.file = f]]
          /\ bucket' = bucket \ {f}
    BY <1>0, <1>1 DEF Tender!DeleteObject, TenderTypes
  <2>2. save[s].at = "delete" /\ save[s].file = None /\ UNCHANGED <<rows, loaded, broken, halves>>
    BY <1>0, <1>1 DEF Tender!DeleteObject, Tender!At, Tender!NoFault, TenderTypes
  <2>3. f \in TenderUploads
    BY <1>s DEF SaveForm
  <2>4. save'[s] = [at |-> "deleteRow", keep |-> save[s].keep, drop |-> save[s].drop \ {f},
                    add |-> save[s].add, file |-> f]
        /\ \A t \in Saves \ {s} : save'[t] = save[t]
    BY <1>0, <1>s, <2>1 DEF TenderTypes, SaveForm
  <2>5. save'[s] \in SaveForm /\ save' \in [Saves -> SaveForm]
    <3>1. save'[s] \in SaveForm
      BY <1>s, <2>3, <2>4 DEF SaveForm
    <3> QED
      BY <1>0, <2>1, <3>1 DEF TenderTypes
  <2>6. TenderTypes'
    BY <1>0, <2>1, <2>2, <2>3, <2>4, <2>5 DEF TenderTypes
  <2>7. Tender!RowsHaveObjects'
    BY <1>0, <2>1, <2>2, <2>4 DEF Tender!RowsHaveObjects
  <2>8. ASSUME NEW g \in TenderUploads PROVE FileTrue(g)'
    BY <1>0, <2>1, <2>2, <2>3, <2>4 DEF FileTrue, ToBring
  <2>9. ASSUME NEW t \in Saves PROVE SaveTrue(t)'
    <3>1. SaveTrue(t) /\ (Undisturbed(t)' => Undisturbed(t))
      BY <1>0, <2>2, <2>4 DEF Undisturbed
    <3>2. CASE t = s
      BY <2>2, <2>4, <3>1, <3>2 DEF SaveTrue
    <3>3. CASE t # s
      BY <2>2, <2>4, <3>1, <3>3 DEF SaveTrue
    <3> QED
      BY <3>2, <3>3
  <2> QED
    BY <2>6, <2>7, <2>8, <2>9 DEF TenderInv
<1>2. CASE Tender!DeleteObjectFails(s)
  <2>1. PICK f \in save[s].drop : save' = [save EXCEPT ![s] = [save[s] EXCEPT !.drop = @ \ {f}]]
    BY <1>0, <1>2 DEF Tender!DeleteObjectFails, TenderTypes
  <2>2. /\ save[s].at = "delete" /\ save[s].file = None /\ broken' = broken + 1
        /\ UNCHANGED <<rows, bucket, loaded, halves>>
    BY <1>0, <1>2 DEF Tender!DeleteObjectFails, Tender!At, TenderTypes
  <2>4. save'[s] = [at |-> save[s].at, keep |-> save[s].keep, drop |-> save[s].drop \ {f},
                    add |-> save[s].add, file |-> save[s].file]
        /\ \A t \in Saves \ {s} : save'[t] = save[t]
    BY <1>0, <1>s, <2>1 DEF TenderTypes, SaveForm
  <2>5. save'[s] \in SaveForm /\ save' \in [Saves -> SaveForm]
    <3>1. save'[s] \in SaveForm
      BY <1>s, <2>4 DEF SaveForm
    <3> QED
      BY <1>0, <2>1, <3>1 DEF TenderTypes
  <2>c. broken \in Nat /\ \A t \in Saves : loaded[t].faults \in Nat /\ loaded[t].faults <= broken
    BY <1>0 DEF TenderTypes
  <2>6. TenderTypes'
    BY <1>0, <2>2, <2>4, <2>5, <2>c DEF TenderTypes
  <2>7. Tender!RowsHaveObjects'
    BY <1>0, <2>2, <2>4 DEF Tender!RowsHaveObjects
  <2>8. ASSUME NEW g \in TenderUploads PROVE FileTrue(g)'
    BY <1>0, <2>2, <2>4 DEF FileTrue, ToBring
  <2>9. ASSUME NEW t \in Saves PROVE SaveTrue(t)'
    BY <2>2, <2>c DEF SaveTrue, Undisturbed
  <2> QED
    BY <2>6, <2>7, <2>8, <2>9 DEF TenderInv
<1>3. CASE Tender!DeleteRow(s)
  <2> DEFINE f == save[s].file
  <2>1. /\ rows' = rows \ {f}
        /\ save' = [save EXCEPT ![s] = [save[s] EXCEPT !.at = "delete", !.file = None]]
        /\ save[s].at = "deleteRow" /\ UNCHANGED <<bucket, loaded, broken, halves>>
    BY <1>0, <1>3 DEF Tender!DeleteRow, Tender!At, Tender!Goes, Tender!NoFault, TenderTypes
  <2>3. f \in TenderUploads /\ f \notin bucket
    <3>1. f \in TenderUploads
      BY <1>0, <1>s, <2>1 DEF TenderTypes, SaveForm
    <3> QED
      BY <1>0, <2>1, <3>1 DEF FileTrue
  <2>4. save'[s] = [at |-> "delete", keep |-> save[s].keep, drop |-> save[s].drop,
                    add |-> save[s].add, file |-> None]
        /\ \A t \in Saves \ {s} : save'[t] = save[t]
    BY <1>0, <1>s, <2>1 DEF TenderTypes, SaveForm
  <2>5. save'[s] \in SaveForm /\ save' \in [Saves -> SaveForm]
    <3>1. save'[s] \in SaveForm
      BY <1>s, <2>4 DEF SaveForm
    <3> QED
      BY <1>0, <2>1, <3>1 DEF TenderTypes
  <2>6. TenderTypes'
    BY <1>0, <2>1, <2>4, <2>5 DEF TenderTypes
  <2>7. Tender!RowsHaveObjects'
    BY <1>0, <2>1, <2>3, <2>4 DEF Tender!RowsHaveObjects
  <2>8. ASSUME NEW g \in TenderUploads PROVE FileTrue(g)'
    BY <1>0, <2>1, <2>4 DEF FileTrue, ToBring
  <2>9. ASSUME NEW t \in Saves PROVE SaveTrue(t)'
    <3>1. SaveTrue(t) /\ (Undisturbed(t)' => Undisturbed(t))
      BY <1>0, <2>1, <2>4 DEF Undisturbed
    <3>2. CASE t = s
      BY <2>1, <2>4, <3>1, <3>2 DEF SaveTrue
    <3>3. CASE t # s
      BY <2>1, <2>4, <3>1, <3>3 DEF SaveTrue
    <3> QED
      BY <3>2, <3>3
  <2> QED
    BY <2>6, <2>7, <2>8, <2>9 DEF TenderInv
<1>4. CASE Tender!DeleteRowFails(s)
  <2>1. /\ save' = [save EXCEPT ![s] = [save[s] EXCEPT !.at = "delete", !.file = None]]
        /\ save[s].at = "deleteRow" /\ UNCHANGED <<rows, bucket, loaded>>
        /\ broken' = broken + 1 /\ halves' = halves \cup {save[s].file}
    BY <1>0, <1>4 DEF Tender!DeleteRowFails, Tender!At, Tender!Goes, Tender!Fault, TenderTypes
  <2>4. save'[s] = [at |-> "delete", keep |-> save[s].keep, drop |-> save[s].drop,
                    add |-> save[s].add, file |-> None]
        /\ \A t \in Saves \ {s} : save'[t] = save[t]
    BY <1>0, <1>s, <2>1 DEF TenderTypes, SaveForm
  <2>5. save'[s] \in SaveForm /\ save' \in [Saves -> SaveForm]
    <3>1. save'[s] \in SaveForm
      BY <1>s, <2>4 DEF SaveForm
    <3> QED
      BY <1>0, <2>1, <3>1 DEF TenderTypes
  <2>c. broken \in Nat /\ \A t \in Saves : loaded[t].faults \in Nat /\ loaded[t].faults <= broken
    BY <1>0 DEF TenderTypes
  <2>6. TenderTypes'
    BY <1>0, <2>1, <2>4, <2>5, <2>c DEF TenderTypes
  <2>7. Tender!RowsHaveObjects'
    BY <1>0, <2>1, <2>4 DEF Tender!RowsHaveObjects
  <2>8. ASSUME NEW g \in TenderUploads PROVE FileTrue(g)'
    BY <1>0, <2>1, <2>4 DEF FileTrue, ToBring
  <2>9. ASSUME NEW t \in Saves PROVE SaveTrue(t)'
    BY <2>1, <2>c DEF SaveTrue, Undisturbed
  <2> QED
    BY <2>6, <2>7, <2>8, <2>9 DEF TenderInv
<1> QED
  BY <1>1, <1>2, <1>3, <1>4

\* A file is brought: its object first, its row then.
LEMMA TenderBrings ==
  ASSUME Tender!TenderFilesAssumption, TenderInv, NEW s \in Saves,
         \/ Tender!Upload(s) \/ Tender!UploadFails(s)
         \/ Tender!SaveRow(s) \/ Tender!SaveRowFails(s)
  PROVE  TenderInv'
<1> USE DEF Tender!TenderFilesAssumption
<1>0. /\ TenderTypes /\ Tender!RowsHaveObjects
      /\ \A f \in TenderUploads : FileTrue(f)
      /\ \A t \in Saves : SaveTrue(t)
  BY DEF TenderInv
<1>s. save[s] \in SaveForm /\ SaveUploads[s] \subseteq TenderUploads
  BY <1>0 DEF TenderTypes
<1>c. broken \in Nat /\ \A t \in Saves : loaded[t].faults \in Nat /\ loaded[t].faults <= broken
  BY <1>0 DEF TenderTypes
<1>1. CASE Tender!Upload(s)
  <2>1. PICK f \in save[s].add :
          /\ save' = [save EXCEPT ![s] = [@ EXCEPT
                !.at = "saveRow", !.add = save[s].add \ {f}, !.file = f]]
          /\ bucket' = bucket \cup {f}
    BY <1>0, <1>1 DEF Tender!Upload, TenderTypes
  <2>2. /\ save[s].at = "delete" /\ save[s].drop = {} /\ save[s].file = None
        /\ UNCHANGED <<rows, loaded, broken, halves>>
    BY <1>0, <1>1 DEF Tender!Upload, Tender!At, Tender!NoFault, TenderTypes
  <2>3. f \in TenderUploads
    BY <1>s DEF SaveForm
  <2>4. save'[s] = [at |-> "saveRow", keep |-> save[s].keep, drop |-> save[s].drop,
                    add |-> save[s].add \ {f}, file |-> f]
        /\ \A t \in Saves \ {s} : save'[t] = save[t]
    BY <1>0, <1>s, <2>1 DEF TenderTypes, SaveForm
  <2>5. save'[s] \in SaveForm /\ save' \in [Saves -> SaveForm]
    <3>1. save'[s] \in SaveForm
      BY <1>s, <2>3, <2>4 DEF SaveForm
    <3> QED
      BY <1>0, <2>1, <3>1 DEF TenderTypes
  <2>6. TenderTypes'
    BY <1>0, <2>1, <2>2, <2>3, <2>4, <2>5 DEF TenderTypes
  <2>7. Tender!RowsHaveObjects'
    BY <1>0, <2>1, <2>2, <2>4 DEF Tender!RowsHaveObjects
  <2>8. ASSUME NEW g \in TenderUploads PROVE FileTrue(g)'
    <3>1. /\ f \in SaveUploads[s] /\ f \notin rows /\ f \notin bucket
          /\ \A t \in Saves : f \notin save[t].drop /\ save[t].file # f
      BY <1>0, <2>2, <2>3 DEF FileTrue, ToBring
    <3>2. \A t \in Saves \ {s} : f \notin ToBring(t)
      BY <1>0, <2>3, <3>1 DEF FileTrue
    <3>3. FileTrue(g)
      BY <1>0
    <3>4. CASE g = f
      BY <2>1, <2>2, <2>4, <3>1, <3>2, <3>4 DEF FileTrue, ToBring
    <3>5. CASE g # f
      BY <2>1, <2>2, <2>4, <3>3, <3>5 DEF FileTrue, ToBring
    <3> QED
      BY <3>4, <3>5
  <2>9. ASSUME NEW t \in Saves PROVE SaveTrue(t)'
    <3>1. SaveTrue(t) /\ (Undisturbed(t)' => Undisturbed(t))
      BY <1>0, <2>2, <2>4 DEF Undisturbed
    <3>2. CASE t = s
      BY <2>2, <2>4, <3>1, <3>2 DEF SaveTrue
    <3>3. CASE t # s
      BY <2>2, <2>4, <3>1, <3>3 DEF SaveTrue
    <3> QED
      BY <3>2, <3>3
  <2> QED
    BY <2>6, <2>7, <2>8, <2>9 DEF TenderInv
<1>2. CASE Tender!UploadFails(s)
  <2>1. PICK f \in save[s].add : save' = [save EXCEPT ![s] = [save[s] EXCEPT !.add = @ \ {f}]]
    BY <1>0, <1>2 DEF Tender!UploadFails, TenderTypes
  <2>2. /\ save[s].at = "delete" /\ save[s].file = None /\ broken' = broken + 1
        /\ UNCHANGED <<rows, bucket, loaded, halves>>
    BY <1>0, <1>2 DEF Tender!UploadFails, Tender!At, TenderTypes
  <2>4. save'[s] = [at |-> save[s].at, keep |-> save[s].keep, drop |-> save[s].drop,
                    add |-> save[s].add \ {f}, file |-> save[s].file]
        /\ \A t \in Saves \ {s} : save'[t] = save[t]
    BY <1>0, <1>s, <2>1 DEF TenderTypes, SaveForm
  <2>5. save'[s] \in SaveForm /\ save' \in [Saves -> SaveForm]
    <3>1. save'[s] \in SaveForm
      BY <1>s, <2>4 DEF SaveForm
    <3> QED
      BY <1>0, <2>1, <3>1 DEF TenderTypes
  <2>6. TenderTypes'
    BY <1>0, <1>c, <2>2, <2>4, <2>5 DEF TenderTypes
  <2>7. Tender!RowsHaveObjects'
    BY <1>0, <2>2, <2>4 DEF Tender!RowsHaveObjects
  <2>8. ASSUME NEW g \in TenderUploads PROVE FileTrue(g)'
    BY <1>0, <2>2, <2>4 DEF FileTrue, ToBring
  <2>9. ASSUME NEW t \in Saves PROVE SaveTrue(t)'
    BY <1>c, <2>2 DEF SaveTrue, Undisturbed
  <2> QED
    BY <2>6, <2>7, <2>8, <2>9 DEF TenderInv
<1>3. CASE Tender!SaveRow(s)
  <2> DEFINE f == save[s].file
  <2>1. /\ rows' = rows \cup {f}
        /\ save' = [save EXCEPT ![s] = [save[s] EXCEPT !.at = "delete", !.file = None]]
        /\ save[s].at = "saveRow" /\ UNCHANGED <<bucket, broken, halves>>
    BY <1>0, <1>3 DEF Tender!SaveRow, Tender!At, Tender!Goes, Tender!NoFault, TenderTypes
  <2>2. loaded' = [t \in Saves |-> IF t = s THEN loaded[t] ELSE [loaded[t] EXCEPT !.alone = FALSE]]
    BY <1>3 DEF Tender!SaveRow, Tender!Touches
  <2>3. /\ f \in TenderUploads /\ f \in SaveUploads[s] /\ f \notin rows /\ f \in bucket
        /\ \A t \in Saves : f \notin save[t].drop /\ (save[t].at = "deleteRow" => save[t].file # f)
    <3>1. f \in TenderUploads
      BY <1>0, <1>s, <2>1 DEF TenderTypes, SaveForm
    <3> QED
      BY <1>0, <2>1, <3>1 DEF FileTrue
  <2>4. save'[s] = [at |-> "delete", keep |-> save[s].keep, drop |-> save[s].drop,
                    add |-> save[s].add, file |-> None]
        /\ \A t \in Saves \ {s} : save'[t] = save[t]
    BY <1>0, <1>s, <2>1 DEF TenderTypes, SaveForm
  <2>a. /\ loaded' \in [Saves -> [alone : BOOLEAN, faults : Nat]] /\ loaded'[s] = loaded[s]
        /\ \A t \in Saves \ {s} : ~loaded'[t].alone /\ loaded'[t].faults = loaded[t].faults
    <3>1. \A t \in Saves : loaded[t] \in [alone : BOOLEAN, faults : Nat]
      BY <1>0 DEF TenderTypes
    <3> QED
      BY <2>2, <3>1
  <2>5. save'[s] \in SaveForm /\ save' \in [Saves -> SaveForm]
    <3>1. save'[s] \in SaveForm
      BY <1>s, <2>4 DEF SaveForm
    <3> QED
      BY <1>0, <2>1, <3>1 DEF TenderTypes
  <2>6. TenderTypes'
    <3>1. \A t \in Saves : loaded'[t].faults <= broken'
      BY <1>c, <2>1, <2>a
    <3> QED
      BY <1>0, <2>1, <2>3, <2>4, <2>5, <2>a, <3>1 DEF TenderTypes
  <2>7. Tender!RowsHaveObjects'
    BY <1>0, <2>1, <2>3, <2>4 DEF Tender!RowsHaveObjects
  <2>8. ASSUME NEW g \in TenderUploads PROVE FileTrue(g)'
    <3>1. \A t \in Saves : f \notin ToBring(t)
      BY <1>0, <2>3 DEF FileTrue
    <3>2. \A t \in Saves \ {s} : save[t].at = "saveRow" => save[t].file # f
      BY <1>0, <2>3 DEF FileTrue
    <3>3. FileTrue(g)
      BY <1>0
    <3>4. CASE g = f
      BY <2>1, <2>3, <2>4, <3>1, <3>2, <3>4 DEF FileTrue, ToBring
    <3>5. CASE g # f
      BY <2>1, <2>4, <3>3, <3>5 DEF FileTrue, ToBring
    <3> QED
      BY <3>4, <3>5
  <2>9. ASSUME NEW t \in Saves PROVE SaveTrue(t)'
    <3>1. CASE t = s
      <4>1. SaveTrue(s) /\ (Undisturbed(s)' => Undisturbed(s))
        BY <1>0, <2>1, <2>4, <2>a DEF Undisturbed
      <4> QED
        BY <2>1, <2>3, <2>4, <3>1, <4>1 DEF SaveTrue
    <3>2. CASE t # s
      BY <2>a, <3>2 DEF SaveTrue, Undisturbed
    <3> QED
      BY <3>1, <3>2
  <2> QED
    BY <2>6, <2>7, <2>8, <2>9 DEF TenderInv
<1>4. CASE Tender!SaveRowFails(s)
  <2>1. /\ save' = [save EXCEPT ![s] = [save[s] EXCEPT !.at = "delete", !.file = None]]
        /\ save[s].at = "saveRow" /\ UNCHANGED <<rows, bucket, loaded>>
        /\ broken' = broken + 1 /\ halves' = halves \cup {save[s].file}
    BY <1>0, <1>4 DEF Tender!SaveRowFails, Tender!At, Tender!Goes, Tender!Fault, TenderTypes
  <2>4. save'[s] = [at |-> "delete", keep |-> save[s].keep, drop |-> save[s].drop,
                    add |-> save[s].add, file |-> None]
        /\ \A t \in Saves \ {s} : save'[t] = save[t]
    BY <1>0, <1>s, <2>1 DEF TenderTypes, SaveForm
  <2>5. save'[s] \in SaveForm /\ save' \in [Saves -> SaveForm]
    <3>1. save'[s] \in SaveForm
      BY <1>s, <2>4 DEF SaveForm
    <3> QED
      BY <1>0, <2>1, <3>1 DEF TenderTypes
  <2>6. TenderTypes'
    BY <1>0, <1>c, <2>1, <2>4, <2>5 DEF TenderTypes
  <2>7. Tender!RowsHaveObjects'
    BY <1>0, <2>1, <2>4 DEF Tender!RowsHaveObjects
  <2>8. ASSUME NEW g \in TenderUploads PROVE FileTrue(g)'
    BY <1>0, <2>1, <2>4 DEF FileTrue, ToBring
  <2>9. ASSUME NEW t \in Saves PROVE SaveTrue(t)'
    BY <1>c, <2>1 DEF SaveTrue, Undisturbed
  <2> QED
    BY <2>6, <2>7, <2>8, <2>9 DEF TenderInv
<1> QED
  BY <1>1, <1>2, <1>3, <1>4

LEMMA TenderCrashes ==
  ASSUME Tender!TenderFilesAssumption, TenderInv, Tender!Crash
  PROVE  TenderInv'
<1> USE DEF Tender!TenderFilesAssumption
<1>0. /\ TenderTypes /\ Tender!RowsHaveObjects
      /\ \A f \in TenderUploads : FileTrue(f)
  BY DEF TenderInv
<1>1. /\ broken' = broken + 1 /\ UNCHANGED <<rows, bucket, loaded>>
      /\ halves' = halves \cup ({save[t].file : t \in Saves} \ {None})
      /\ save' = [t \in Saves |-> IF save[t].at \in {"new", "open"} THEN save[t]
                                  ELSE [save[t] EXCEPT !.at = "done", !.file = None]]
  BY DEF Tender!Crash
<1>2. ASSUME NEW s \in Saves
      PROVE  /\ save'[s] \in SaveForm /\ save'[s].file = None
             /\ save'[s].at \notin {"deleteRow", "saveRow"}
             /\ save'[s].drop = save[s].drop /\ save'[s].add = save[s].add
             /\ save'[s].at = "new" <=> save[s].at = "new"
  <2>1. save[s] \in SaveForm /\ (save[s].file # None <=> save[s].at \in {"deleteRow", "saveRow"})
    BY <1>0 DEF TenderTypes
  <2>2. CASE save[s].at \in {"new", "open"}
    <3>1. save'[s] = save[s] /\ save[s].file = None
      BY <1>1, <2>1, <2>2
    <3> QED
      BY <2>1, <2>2, <3>1
  <2>3. CASE save[s].at \notin {"new", "open"}
    <3>1. save'[s] = [at |-> "done", keep |-> save[s].keep, drop |-> save[s].drop,
                      add |-> save[s].add, file |-> None]
      BY <1>1, <2>1, <2>3 DEF SaveForm
    <3>2. save'[s] \in SaveForm
      BY <2>1, <3>1 DEF SaveForm
    <3> QED
      BY <2>3, <3>1, <3>2
  <2> QED
    BY <2>2, <2>3
<1>c. /\ broken \in Nat /\ broken' = broken + 1 /\ loaded' = loaded /\ rows' = rows
      /\ bucket' = bucket
      /\ \A t \in Saves : loaded[t].faults \in Nat /\ loaded[t].faults <= broken
  BY <1>0, <1>1 DEF TenderTypes
<1>3. TenderTypes'
  <2>1. save' \in [Saves -> SaveForm]
    BY <1>1, <1>2
  <2>2. \A s \in Saves : save'[s].file # None <=> save'[s].at \in {"deleteRow", "saveRow"}
    BY <1>2
  <2>3. \A s \in Saves : loaded'[s].faults <= broken'
    BY <1>c
  <2> QED
    BY <1>0, <1>c, <2>1, <2>2, <2>3 DEF TenderTypes
<1>4. Tender!RowsHaveObjects'
  BY <1>0, <1>1 DEF Tender!RowsHaveObjects
<1>5. ASSUME NEW f \in TenderUploads PROVE FileTrue(f)'
  BY <1>0, <1>2, <1>c DEF FileTrue, ToBring, TenderTypes
<1>6. ASSUME NEW t \in Saves PROVE SaveTrue(t)'
  BY <1>c DEF SaveTrue, Undisturbed
<1> QED
  BY <1>3, <1>4, <1>5, <1>6 DEF TenderInv

LEMMA TenderNext ==
  ASSUME Tender!TenderFilesAssumption, TenderInv, Tender!Next \/ UNCHANGED tenderVars
  PROVE  TenderInv'
<1>1. CASE Tender!Next
  BY <1>1, TenderForms, TenderDeletes, TenderBrings, TenderCrashes DEF Tender!Next
<1>2. CASE UNCHANGED tenderVars
  BY <1>2 DEF tenderVars, TenderInv, TenderTypes, Tender!RowsHaveObjects, FileTrue, ToBring,
              SaveTrue, Undisturbed
<1> QED
  BY <1>1, <1>2

LEMMA TenderSound ==
  ASSUME TenderInv
  PROVE  Tender!RowsHaveObjects /\ Tender!SaveExact
BY DEF TenderInv, SaveTrue, Undisturbed, Tender!SaveExact, Tender!At

(***************************************************************************)
(* Training videos (training.service.ts).                                  *)
(***************************************************************************)
VideoSession == (SUBSET Chunks) \cup {None, Training!Torn}
VideoSend == [at : {"waiting", "stream", "reread", "open", "write", "rename", "ended"},
              seen : SUBSET Chunks, fd : {"closed", "tmp", "meta", "gone"}]
VideoComplete == [at : {"idle", "move", "drop"}, of : Uploads \cup {None}]

\* A session file x of upload u, if it can be read, names chunks that are in the file.
Truthful(x, u) == x \in {None, Training!Torn} \/ x \subseteq written[u]

SessionsTrue ==
  /\ \A u \in Uploads : Truthful(session[u], u) /\ Truthful(tmp[u], u)
  /\ \A r \in Sends : /\ send[r].seen \subseteq written[UploadOf[r]]
                      /\ send[r].at = "reread" => Chunk[r] \in written[UploadOf[r]]

\* Who completes an upload has seen all of its chunks; who has moved its file is alone.
CompletesTrue ==
  \A c \in Completes :
    /\ complete[c].at = "idle" <=> complete[c].of = None
    /\ complete[c].at # "idle" => written[complete[c].of] = Chunks
    /\ \A d \in Completes : complete[c].at = "drop" /\ complete[d].at = "drop"
                              /\ complete[c].of = complete[d].of => c = d

\* The file of upload u is in the videos, and its record to come.
Moved(u) == u \in saving \/ \E c \in Completes : complete[c].at = "drop" /\ complete[c].of = u

\* An upload is moved once, then recorded or removed; its file is there, fresh until it is
\* recorded and known to a sweep when it is old.
MovedTrue(u) ==
  /\ Moved(u) \/ u \in records \cup doomed => written[u] = Chunks /\ part[u] = "none"
  /\ ~(u \in saving /\ \E c \in Completes : complete[c].at = "drop" /\ complete[c].of = u)
  /\ ~(Moved(u) /\ u \in records \cup doomed) /\ ~(u \in records /\ u \in doomed)
  /\ Moved(u) /\ u \notin overdue => video[u] = "fresh"
  /\ u \in records \ overdue =>
       \/ video[u] = "fresh"
       \/ video[u] = "old" /\ (seenVideos # Training!NotSweeping => u \in seenVideos)

VideoInv ==
  /\ Training!TypeOK /\ SessionsTrue /\ CompletesTrue
  /\ \A u \in Uploads : MovedTrue(u)

LEMMA VideoSessions ==
  /\ None \in VideoSession /\ Training!Torn \in VideoSession
  /\ \A x \in SUBSET Chunks : x \in VideoSession
  /\ \A x \in VideoSession : x \notin {None, Training!Torn} => x \in SUBSET Chunks
BY DEF VideoSession

LEMMA VideoInit == ASSUME Training!VideosAssumption, Training!Init PROVE VideoInv
<1> USE DEF Training!VideosAssumption, Training!Init
<1>1. Training!TypeOK
  <2>1. send \in [Sends -> VideoSend] /\ complete \in [Completes -> VideoComplete]
    <3>1. Training!Waiting \in VideoSend /\ Training!Idle \in VideoComplete
      BY DEF Training!Waiting, Training!Idle, VideoSend, VideoComplete
    <3> QED
      BY <3>1
  <2>2. /\ part \in [Uploads -> {"none", "fresh", "old"}]
        /\ video \in [Uploads -> {"none", "fresh", "old"}]
        /\ written \in [Uploads -> SUBSET Chunks]
        /\ session \in [Uploads -> VideoSession]
        /\ tmp \in [Uploads -> VideoSession]
    BY VideoSessions
  <2>3. /\ saving = {} /\ records = {} /\ doomed = {} /\ seenVideos = Training!NotSweeping
        /\ videoCrashes = 0 /\ overdue = {}
    OBVIOUS
  <2> HIDE DEF Training!Init
  <2> QED
    BY <2>1, <2>2, <2>3 DEF Training!TypeOK, VideoSession, VideoSend, VideoComplete
<1>2. SessionsTrue
  BY DEF SessionsTrue, Truthful, Training!Waiting
<1>3. CompletesTrue
  BY DEF CompletesTrue, Training!Idle
<1>4. ASSUME NEW u \in Uploads PROVE MovedTrue(u)
  BY DEF MovedTrue, Moved, Training!Idle
<1> QED
  BY <1>1, <1>2, <1>3, <1>4 DEF VideoInv

\* The requests that send a chunk go on, as far as types are concerned.
LEMMA VideoSendsTyped ==
  ASSUME Training!VideosAssumption, Training!TypeOK, NEW r \in Sends,
         \/ Training!ReadFirst(r) \/ Training!Stream(r) \/ Training!Reread(r)
         \/ Training!OpenTmp(r) \/ Training!WriteTmp(r) \/ Training!RenameTmp(r)
  PROVE  Training!TypeOK'
<1> USE DEF Training!VideosAssumption
<1>0. /\ send \in [Sends -> VideoSend] /\ UploadOf[r] \in Uploads /\ Chunk[r] \in Chunks
      /\ send[r] \in VideoSend
  BY DEF Training!TypeOK, VideoSend
<1>s. /\ part \in [Uploads -> {"none", "fresh", "old"}] /\ written \in [Uploads -> SUBSET Chunks]
      /\ session \in [Uploads -> VideoSession]
      /\ tmp \in [Uploads -> VideoSession]
  BY DEF Training!TypeOK, VideoSession
<1>1. ASSUME NEW a \in {"waiting", "stream", "reread", "open", "write", "rename", "ended"},
             NEW x \in SUBSET Chunks, NEW f \in {"closed", "tmp", "meta", "gone"},
             Training!Goes(r, a, x, f)
      PROVE  send' \in [Sends -> VideoSend]
  BY <1>0, <1>1 DEF Training!Goes, VideoSend
<1>2. Training!Ended \in VideoSend
  BY DEF Training!Ended, VideoSend
<1>3. ASSUME send' = [send EXCEPT ![r] = Training!Ended]
      PROVE  send' \in [Sends -> VideoSend]
  BY <1>0, <1>2, <1>3
<1>4. ASSUME send' \in [Sends -> VideoSend],
             part' \in [Uploads -> {"none", "fresh", "old"}],
             written' \in [Uploads -> SUBSET Chunks],
             session' \in [Uploads -> VideoSession],
             tmp' \in [Uploads -> VideoSession],
             UNCHANGED <<complete, video, saving, records, doomed, seenVideos, videoCrashes, overdue>>
      PROVE  Training!TypeOK'
  BY <1>4 DEF Training!TypeOK, VideoSend, VideoSession
<1>5. CASE Training!ReadFirst(r)
  <2>1. send' \in [Sends -> VideoSend]
    BY <1>1, <1>5 DEF Training!ReadFirst
  <2> QED
    BY <1>4, <1>s, <1>5, <2>1 DEF Training!ReadFirst, Training!FilesUnchanged, Training!ListUnchanged
<1>6. CASE Training!Stream(r)
  <2>1. send' \in [Sends -> VideoSend]
    BY <1>1, <1>3, <1>6 DEF Training!Stream
  <2>2. /\ part' \in [Uploads -> {"none", "fresh", "old"}] /\ written' \in [Uploads -> SUBSET Chunks]
    BY <1>0, <1>s, <1>6 DEF Training!Stream
  <2> QED
    BY <1>4, <1>s, <1>6, <2>1, <2>2 DEF Training!Stream, Training!ListUnchanged
<1>7. CASE Training!Reread(r)
  <2>1. send' \in [Sends -> VideoSend]
    <3>1. CASE Training!Readable(UploadOf[r])
      <4>1. session[UploadOf[r]] \cup {Chunk[r]} \in SUBSET Chunks
        BY <1>0, <1>s, <3>1, VideoSessions DEF Training!Readable
      <4> QED
        BY <1>1, <1>7, <3>1, <4>1 DEF Training!Reread
    <3>2. CASE ~Training!Readable(UploadOf[r])
      BY <1>3, <1>7, <3>2 DEF Training!Reread
    <3> QED
      BY <3>1, <3>2
  <2> QED
    BY <1>4, <1>s, <1>7, <2>1 DEF Training!Reread, Training!FilesUnchanged, Training!ListUnchanged
<1>8. CASE Training!OpenTmp(r)
  <2>1. send' \in [Sends -> VideoSend]
    <3>1. send[r].seen \in SUBSET Chunks
      BY <1>0 DEF VideoSend
    <3> QED
      BY <1>1, <1>8, <3>1 DEF Training!OpenTmp
  <2>2. tmp' \in [Uploads -> VideoSession]
    BY <1>0, <1>s, <1>8, VideoSessions DEF Training!OpenTmp
  <2> QED
    BY <1>4, <1>s, <1>8, <2>1, <2>2 DEF Training!OpenTmp, Training!FilesUnchanged, Training!ListUnchanged
<1>9. CASE Training!WriteTmp(r)
  <2>1. send[r].seen \in SUBSET Chunks
    BY <1>0 DEF VideoSend
  <2>2. send' \in [Sends -> VideoSend]
    BY <1>1, <1>9, <2>1 DEF Training!WriteTmp
  <2>3. /\ tmp' \in [Uploads -> VideoSession]
        /\ session' \in [Uploads -> VideoSession]
    BY <1>0, <1>s, <1>9, <2>1, VideoSessions DEF Training!WriteTmp
  <2> QED
    BY <1>4, <1>s, <1>9, <2>2, <2>3 DEF Training!WriteTmp, Training!FilesUnchanged, Training!ListUnchanged
<1>10. CASE Training!RenameTmp(r)
  <2>1. CASE tmp[UploadOf[r]] = None
    <3>1. send' \in [Sends -> VideoSend]
      BY <1>3, <1>10, <2>1 DEF Training!RenameTmp
    <3> QED
      BY <1>4, <1>s, <1>10, <2>1, <3>1 DEF Training!RenameTmp, Training!FilesUnchanged, Training!ListUnchanged
  <2>2. CASE tmp[UploadOf[r]] # None
    <3>1. /\ session' = [session EXCEPT ![UploadOf[r]] = tmp[UploadOf[r]]]
          /\ tmp' = [tmp EXCEPT ![UploadOf[r]] = None]
      BY <1>10, <2>2 DEF Training!RenameTmp
    <3>2. /\ session' \in [Uploads -> VideoSession]
          /\ tmp' \in [Uploads -> VideoSession]
      BY <1>0, <1>s, <3>1, VideoSessions
    <3>3. send' = [s \in Sends |->
             CASE s = r -> Training!Ended
               [] s # r /\ UploadOf[s] = UploadOf[r] ->
                    [send[s] EXCEPT !.fd = [tmp |-> "meta", meta |-> "gone", gone |-> "gone",
                                            closed |-> "closed"][@]]
               [] OTHER -> send[s]]
      BY <1>10, <2>2 DEF Training!RenameTmp
    <3>4. ASSUME NEW s \in Sends PROVE send'[s] \in VideoSend
      <4>1. send[s] \in VideoSend
        BY <1>0
      <4>2. CASE s = r
        BY <1>2, <3>3, <4>2
      <4>3. CASE s # r /\ UploadOf[s] = UploadOf[r]
        BY <3>3, <4>1, <4>3 DEF VideoSend
      <4>4. CASE s # r /\ UploadOf[s] # UploadOf[r]
        BY <3>3, <4>1, <4>4
      <4> QED
        BY <4>2, <4>3, <4>4
    <3>5. send' \in [Sends -> VideoSend]
      BY <3>3, <3>4
    <3> QED
      BY <1>4, <1>s, <1>10, <3>2, <3>5 DEF Training!RenameTmp, Training!FilesUnchanged, Training!ListUnchanged
  <2> QED
    BY <2>1, <2>2
<1> QED
  BY <1>5, <1>6, <1>7, <1>8, <1>9, <1>10

\* What else the types of the videos follow from.
LEMMA VideoFilesTyped ==
  ASSUME Training!VideosAssumption, Training!TypeOK,
         \A c \in Completes : complete[c].at # "idle" => complete[c].of \in Uploads,
         \/ \E u \in Uploads :
              \/ Training!InitPart(u) \/ Training!InitMeta(u) \/ Training!Abort(u)
              \/ Training!Create(u) \/ Training!SaveRecord(u) \/ Training!Remove(u)
              \/ Training!RemoveFile(u) \/ Training!SweepVideo(u) \/ Training!SweepPart(u)
              \/ Training!SweepMeta(u) \/ Training!Age(u)
              \/ \E c \in Completes : Training!CompleteRead(c, u)
         \/ \E c \in Completes : Training!CompleteMove(c) \/ Training!CompleteDrop(c)
         \/ Training!SweepStart \/ Training!SweepEnd \/ Training!Crash
  PROVE  Training!TypeOK'
<1> USE DEF Training!VideosAssumption
<1>0. /\ part \in [Uploads -> {"none", "fresh", "old"}] /\ video \in [Uploads -> {"none", "fresh", "old"}]
      /\ written \in [Uploads -> SUBSET Chunks]
      /\ session \in [Uploads -> VideoSession]
      /\ tmp \in [Uploads -> VideoSession]
      /\ send \in [Sends -> VideoSend] /\ complete \in [Completes -> VideoComplete]
      /\ saving \subseteq Uploads /\ records \subseteq Uploads /\ doomed \subseteq Uploads
      /\ seenVideos = Training!NotSweeping \/ seenVideos \subseteq Uploads
      /\ videoCrashes \in 0..VideoCrashes /\ overdue \subseteq Uploads
  BY DEF Training!TypeOK, VideoSend, VideoComplete, VideoSession
<1> DEFINE T == /\ part \in [Uploads -> {"none", "fresh", "old"}] /\ video \in [Uploads -> {"none", "fresh", "old"}]
                /\ written \in [Uploads -> SUBSET Chunks]
                /\ session \in [Uploads -> VideoSession]
                /\ tmp \in [Uploads -> VideoSession]
                /\ send \in [Sends -> VideoSend] /\ complete \in [Completes -> VideoComplete]
                /\ saving \subseteq Uploads /\ records \subseteq Uploads /\ doomed \subseteq Uploads
                /\ seenVideos = Training!NotSweeping \/ seenVideos \subseteq Uploads
                /\ videoCrashes \in 0..VideoCrashes /\ overdue \subseteq Uploads
<1>t. T' => Training!TypeOK'
  BY DEF Training!TypeOK, VideoSend, VideoComplete, VideoSession
<1> USE DEF Training!FilesUnchanged, Training!ListUnchanged, Training!UploadUnchanged
<1>d. ASSUME NEW u \in Uploads, NEW w \in BOOLEAN, Training!DropSession(u, w)
      PROVE  /\ part' \in [Uploads -> {"none", "fresh", "old"}]
             /\ session' \in [Uploads -> VideoSession]
             /\ send' \in [Sends -> VideoSend]
  <2>1. send' \in [Sends -> VideoSend]
    <3>1. ASSUME NEW s \in Sends PROVE [send[s] EXCEPT !.fd = "gone"] \in VideoSend
      BY <1>0 DEF VideoSend
    <3> QED
      BY <1>0, <1>d, <3>1 DEF Training!DropSession
  <2> QED
    BY <1>0, <1>d, <2>1, VideoSessions DEF Training!DropSession
<1>1. ASSUME NEW u \in Uploads, Training!InitPart(u) \/ Training!InitMeta(u) \/ Training!Create(u)
      PROVE  T'
  <2>1. part' \in [Uploads -> {"none", "fresh", "old"}] /\ video' \in [Uploads -> {"none", "fresh", "old"}]
    BY <1>0, <1>1 DEF Training!InitPart, Training!InitMeta, Training!Create
  <2>2. /\ written' \in [Uploads -> SUBSET Chunks]
        /\ session' \in [Uploads -> VideoSession]
    BY <1>0, <1>1, VideoSessions DEF Training!InitPart, Training!InitMeta, Training!Create
  <2>3. saving' \subseteq Uploads
        /\ UNCHANGED <<tmp, send, complete, records, doomed, seenVideos, videoCrashes, overdue>>
    BY <1>0, <1>1 DEF Training!InitPart, Training!InitMeta, Training!Create
  <2> QED
    BY <1>0, <2>1, <2>2, <2>3
<1>2. ASSUME NEW u \in Uploads, Training!Abort(u) \/ Training!SweepMeta(u)
      PROVE  T'
  <2>1. /\ part' \in [Uploads -> {"none", "fresh", "old"}]
        /\ session' \in [Uploads -> VideoSession]
        /\ send' \in [Sends -> VideoSend]
    BY <1>d, <1>2 DEF Training!Abort, Training!SweepMeta
  <2>2. UNCHANGED <<written, tmp, complete, video, saving, records, doomed, seenVideos, videoCrashes,
                    overdue>>
    BY <1>2 DEF Training!Abort, Training!SweepMeta
  <2> QED
    BY <1>0, <2>1, <2>2
<1>3. ASSUME NEW u \in Uploads,
             \/ Training!SaveRecord(u) \/ Training!Remove(u) \/ Training!RemoveFile(u)
             \/ Training!SweepVideo(u)
      PROVE  T'
  <2>1. /\ video' \in [Uploads -> {"none", "fresh", "old"}]
        /\ saving' \subseteq Uploads /\ records' \subseteq Uploads /\ doomed' \subseteq Uploads
    BY <1>0, <1>3 DEF Training!SaveRecord, Training!Remove, Training!RemoveFile, Training!SweepVideo
  <2>2. UNCHANGED <<part, written, session, tmp, send, complete, seenVideos, videoCrashes, overdue>>
    BY <1>3 DEF Training!SaveRecord, Training!Remove, Training!RemoveFile, Training!SweepVideo
  <2> QED
    BY <1>0, <2>1, <2>2
<1>4. ASSUME NEW u \in Uploads, Training!SweepPart(u) \/ Training!Age(u)
      PROVE  T'
  <2>1. part' \in [Uploads -> {"none", "fresh", "old"}] /\ video' \in [Uploads -> {"none", "fresh", "old"}]
    BY <1>0, <1>4 DEF Training!SweepPart, Training!Age
  <2>2. UNCHANGED <<written, session, tmp, send, complete, saving, records, doomed, seenVideos,
                    videoCrashes, overdue>>
    BY <1>4 DEF Training!SweepPart, Training!Age
  <2> QED
    BY <1>0, <2>1, <2>2
<1>5. ASSUME NEW u \in Uploads, NEW c \in Completes, Training!CompleteRead(c, u)
      PROVE  T'
  <2>1. complete' \in [Completes -> VideoComplete]
    BY <1>0, <1>5 DEF Training!CompleteRead, VideoComplete
  <2> QED
    BY <1>0, <1>5, <2>1 DEF Training!CompleteRead
<1>i. Training!Idle \in VideoComplete
  BY DEF Training!Idle, VideoComplete
<1>6. ASSUME NEW c \in Completes, Training!CompleteMove(c), complete[c].of \in Uploads
      PROVE  T'
  <2>1. complete' \in [Completes -> VideoComplete]
    <3>1. [complete[c] EXCEPT !.at = "drop"] \in VideoComplete
      BY <1>0 DEF VideoComplete
    <3>2. \/ complete' = [complete EXCEPT ![c] = Training!Idle]
          \/ complete' = [complete EXCEPT ![c] = [complete[c] EXCEPT !.at = "drop"]]
      BY <1>0, <1>6 DEF Training!CompleteMove
    <3> QED
      BY <1>0, <1>i, <3>1, <3>2
  <2>2. part' \in [Uploads -> {"none", "fresh", "old"}] /\ video' \in [Uploads -> {"none", "fresh", "old"}]
    BY <1>0, <1>6 DEF Training!CompleteMove
  <2>3. overdue' \subseteq Uploads
    BY <1>0, <1>6 DEF Training!CompleteMove
  <2>4. UNCHANGED <<written, session, tmp, send, saving, records, doomed, seenVideos, videoCrashes>>
    BY <1>6 DEF Training!CompleteMove
  <2> QED
    BY <1>0, <2>1, <2>2, <2>3, <2>4
<1>7. ASSUME NEW c \in Completes, Training!CompleteDrop(c), complete[c].of \in Uploads
      PROVE  T'
  <2>1. /\ part' \in [Uploads -> {"none", "fresh", "old"}]
        /\ session' \in [Uploads -> VideoSession]
        /\ send' \in [Sends -> VideoSend]
    BY <1>d, <1>7 DEF Training!CompleteDrop
  <2>2. complete' \in [Completes -> VideoComplete] /\ saving' \subseteq Uploads
    BY <1>0, <1>i, <1>7 DEF Training!CompleteDrop
  <2>3. UNCHANGED <<written, tmp, video, records, doomed, seenVideos, videoCrashes, overdue>>
    BY <1>7 DEF Training!CompleteDrop
  <2> QED
    BY <1>0, <2>1, <2>2, <2>3
<1>8. ASSUME Training!SweepStart \/ Training!SweepEnd
      PROVE  T'
  <2>1. seenVideos' = Training!NotSweeping \/ seenVideos' \subseteq Uploads
    BY <1>0, <1>8 DEF Training!SweepStart, Training!SweepEnd
  <2>2. UNCHANGED <<part, written, session, tmp, send, complete, video, saving, records, doomed,
                    videoCrashes, overdue>>
    BY <1>8 DEF Training!SweepStart, Training!SweepEnd
  <2> QED
    BY <1>0, <2>1, <2>2
<1>9. ASSUME Training!Crash
      PROVE  T'
  <2>1. send' \in [Sends -> VideoSend]
    <3>1. Training!Ended \in VideoSend /\ Training!Waiting \in VideoSend
      BY DEF Training!Ended, Training!Waiting, VideoSend
    <3> QED
      BY <1>0, <1>9, <3>1 DEF Training!Crash
  <2>2. complete' \in [Completes -> VideoComplete]
    BY <1>i, <1>9 DEF Training!Crash
  <2>3. /\ saving' = {} /\ doomed' = {} /\ seenVideos' = Training!NotSweeping
        /\ UNCHANGED <<part, written, session, tmp, video, records, overdue>>
    BY <1>9 DEF Training!Crash
  <2>4. videoCrashes' \in 0..VideoCrashes
    BY <1>0, <1>9 DEF Training!Crash
  <2>5. saving' \subseteq Uploads /\ doomed' \subseteq Uploads
    BY <2>3
  <2>6. seenVideos' = Training!NotSweeping \/ seenVideos' \subseteq Uploads
    BY <2>3
  <2> QED
    BY <1>0, <2>1, <2>2, <2>3, <2>4, <2>5, <2>6
<1>10. ASSUME NEW c \in Completes, Training!CompleteMove(c) \/ Training!CompleteDrop(c)
       PROVE  complete[c].of \in Uploads
  BY <1>10 DEF Training!CompleteMove, Training!CompleteDrop
<1> HIDE DEF T
<1> QED
  BY <1>t, <1>1, <1>2, <1>3, <1>4, <1>5, <1>6, <1>7, <1>8, <1>9, <1>10

\* A step that keeps the files, the lists and who completes what.
VideoRests == UNCHANGED <<part, written, video, complete, saving, records, doomed, seenVideos, overdue>>

LEMMA VideoMovedRests ==
  ASSUME \A u \in Uploads : MovedTrue(u), CompletesTrue, VideoRests
  PROVE  CompletesTrue' /\ \A u \in Uploads : MovedTrue(u)'
BY DEF VideoRests, CompletesTrue, MovedTrue, Moved

LEMMA VideoSends ==
  ASSUME Training!VideosAssumption, VideoInv, NEW r \in Sends,
         \/ Training!ReadFirst(r) \/ Training!Stream(r) \/ Training!Reread(r)
         \/ Training!OpenTmp(r) \/ Training!WriteTmp(r) \/ Training!RenameTmp(r)
  PROVE  VideoInv'
<1> USE DEF Training!VideosAssumption
<1>0. Training!TypeOK /\ SessionsTrue /\ CompletesTrue /\ \A u \in Uploads : MovedTrue(u)
  BY DEF VideoInv
<1>t. Training!TypeOK'
  BY <1>0, VideoSendsTyped
<1>s. /\ send \in [Sends -> VideoSend] /\ UploadOf[r] \in Uploads /\ Chunk[r] \in Chunks
      /\ session \in [Uploads -> VideoSession] /\ tmp \in [Uploads -> VideoSession]
      /\ written \in [Uploads -> SUBSET Chunks] /\ part \in [Uploads -> {"none", "fresh", "old"}]
      /\ UploadOf \in [Sends -> Uploads]
  BY <1>0 DEF Training!TypeOK, VideoSend, VideoSession
<1>1. CASE Training!ReadFirst(r)
  <2>1. send' = [send EXCEPT ![r] = [at |-> "stream", seen |-> {}, fd |-> "closed"]]
        /\ UNCHANGED <<session, tmp>> /\ VideoRests
    BY <1>1 DEF Training!ReadFirst, Training!Goes, Training!FilesUnchanged, Training!ListUnchanged, VideoRests
  <2>2. SessionsTrue'
    BY <1>0, <1>s, <2>1 DEF SessionsTrue, Truthful, VideoRests
  <2> QED
    BY <1>0, <1>t, <2>1, <2>2, VideoMovedRests DEF VideoInv
<1>2. CASE Training!Stream(r)
  <2> DEFINE u == UploadOf[r]
  <2>1. CASE send' = [send EXCEPT ![r] = Training!Ended] /\ UNCHANGED <<written, part>>
    <3>1. send' = [send EXCEPT ![r] = [at |-> "ended", seen |-> {}, fd |-> "closed"]]
          /\ UNCHANGED <<session, tmp>> /\ VideoRests
      BY <1>2, <2>1 DEF Training!Stream, Training!Ended, Training!ListUnchanged, VideoRests
    <3>2. SessionsTrue'
      BY <1>0, <1>s, <3>1 DEF SessionsTrue, Truthful, VideoRests
    <3> QED
      BY <1>0, <1>t, <3>1, <3>2, VideoMovedRests DEF VideoInv
  <2>2. CASE /\ part[u] # "none" /\ written' = [written EXCEPT ![u] = @ \cup {Chunk[r]}]
             /\ part' = [part EXCEPT ![u] = "fresh"]
             /\ send' = [send EXCEPT ![r] = [at |-> "reread", seen |-> {}, fd |-> "closed"]]
    <3>1. UNCHANGED <<session, tmp, complete, video, saving, records, doomed, seenVideos, overdue>>
      BY <1>2 DEF Training!Stream, Training!ListUnchanged
    <3>2. /\ \A v \in Uploads : written[v] \subseteq written'[v] /\ written'[v] \subseteq Chunks
          /\ Chunk[r] \in written'[UploadOf[r]] /\ \A v \in Uploads : part[v] = "none" => part'[v] = "none"
      BY <1>s, <2>2
    <3>3. SessionsTrue'
      <4>1. \A v \in Uploads : Truthful(session[v], v)' /\ Truthful(tmp[v], v)'
        BY <1>0, <3>1, <3>2 DEF SessionsTrue, Truthful
      <4>2. \A s \in Sends : /\ send'[s].seen \subseteq written'[UploadOf[s]]
                             /\ send'[s].at = "reread" => Chunk[s] \in written'[UploadOf[s]]
        BY <1>0, <1>s, <2>2, <3>2 DEF SessionsTrue
      <4> QED
        BY <4>1, <4>2 DEF SessionsTrue
    <3>4. ASSUME NEW v \in Uploads, written[v] = Chunks PROVE written'[v] = Chunks
      <4>1. written[v] \subseteq written'[v] /\ written'[v] \subseteq Chunks
        BY <3>2
      <4> QED
        BY <3>4, <4>1, Zenon
    <3>5. CompletesTrue'
      <4>1. \A c \in Completes : complete[c].at # "idle" => complete[c].of \in Uploads
        BY <1>0 DEF CompletesTrue, Training!TypeOK
      <4> QED
        BY <1>0, <3>1, <3>4, <4>1 DEF CompletesTrue
    <3>6. \A v \in Uploads : MovedTrue(v)'
      BY <1>0, <3>1, <3>2, <3>4 DEF MovedTrue, Moved
    <3> QED
      BY <1>t, <3>3, <3>5, <3>6 DEF VideoInv
  <2> QED
    BY <1>2, <2>1, <2>2 DEF Training!Stream, Training!Goes
<1>3. CASE Training!Reread(r)
  <2>1. UNCHANGED <<session, tmp>> /\ VideoRests
    BY <1>3 DEF Training!Reread, Training!FilesUnchanged, Training!ListUnchanged, VideoRests
  <2>2. \E x \in SUBSET Chunks, a \in {"open", "ended"} :
          x \subseteq written[UploadOf[r]] /\ send' = [send EXCEPT ![r] = [at |-> a, seen |-> x, fd |-> "closed"]]
    <3>1. CASE Training!Readable(UploadOf[r])
      <4> DEFINE x == session[UploadOf[r]] \cup {Chunk[r]}
      <4>1. x \subseteq written[UploadOf[r]] /\ x \in SUBSET Chunks
        BY <1>0, <1>3, <1>s, <3>1 DEF Training!Readable, Training!Reread, SessionsTrue, Truthful
      <4>2. send' = [send EXCEPT ![r] = [at |-> "open", seen |-> x, fd |-> "closed"]]
        BY <1>3, <3>1 DEF Training!Reread, Training!Goes
      <4> HIDE DEF x
      <4> QED
        BY <4>1, <4>2
    <3>2. CASE ~Training!Readable(UploadOf[r])
      <4>1. send' = [send EXCEPT ![r] = [at |-> "ended", seen |-> {}, fd |-> "closed"]]
        BY <1>3, <3>2 DEF Training!Reread, Training!Ended
      <4> QED
        BY <4>1
    <3> QED
      BY <3>1, <3>2
  <2>3. SessionsTrue'
    BY <1>0, <1>s, <2>1, <2>2 DEF SessionsTrue, Truthful, VideoRests
  <2> QED
    BY <1>0, <1>t, <2>1, <2>3, VideoMovedRests DEF VideoInv
<1>4. CASE Training!OpenTmp(r)
  <2>1. /\ send' = [send EXCEPT ![r] = [at |-> "write", seen |-> send[r].seen, fd |-> "tmp"]]
        /\ tmp' = [tmp EXCEPT ![UploadOf[r]] = Training!Torn] /\ session' = session /\ VideoRests
    BY <1>4 DEF Training!OpenTmp, Training!Goes, Training!FilesUnchanged, Training!ListUnchanged, VideoRests
  <2>2. SessionsTrue'
    BY <1>0, <1>s, <2>1 DEF SessionsTrue, Truthful, VideoRests
  <2> QED
    BY <1>0, <1>t, <2>1, <2>2, VideoMovedRests DEF VideoInv
<1>5. CASE Training!WriteTmp(r)
  <2>1. /\ send' = [send EXCEPT ![r] = [at |-> "rename", seen |-> send[r].seen, fd |-> "closed"]]
        /\ VideoRests
    BY <1>5 DEF Training!WriteTmp, Training!Goes, Training!FilesUnchanged, Training!ListUnchanged, VideoRests
  <2>2. /\ \A u \in Uploads : tmp'[u] = tmp[u] \/ (u = UploadOf[r] /\ tmp'[u] = send[r].seen)
        /\ \A u \in Uploads : session'[u] = session[u] \/ (u = UploadOf[r] /\ session'[u] = send[r].seen)
    BY <1>5, <1>s DEF Training!WriteTmp
  <2>3. send[r].seen \subseteq written[UploadOf[r]]
    BY <1>0 DEF SessionsTrue
  <2>4. \A u \in Uploads : Truthful(session[u], u)' /\ Truthful(tmp[u], u)'
    BY <1>0, <2>1, <2>2, <2>3 DEF SessionsTrue, Truthful, VideoRests
  <2>5. \A s \in Sends : /\ send'[s].seen \subseteq written'[UploadOf[s]]
                         /\ send'[s].at = "reread" => Chunk[s] \in written'[UploadOf[s]]
    BY <1>0, <1>s, <2>1 DEF SessionsTrue, VideoRests
  <2> QED
    BY <1>0, <1>t, <2>1, <2>4, <2>5, VideoMovedRests DEF VideoInv, SessionsTrue
<1>6. CASE Training!RenameTmp(r)
  <2>1. VideoRests
    BY <1>6 DEF Training!RenameTmp, Training!FilesUnchanged, Training!ListUnchanged, VideoRests
  <2>2. \A u \in Uploads : tmp'[u] \in {tmp[u], None} /\ session'[u] \in {session[u], tmp[u]}
    BY <1>6, <1>s DEF Training!RenameTmp
  <2>3. ASSUME NEW s \in Sends
        PROVE  send'[s].at \in {send[s].at, "ended"} /\ send'[s].seen \in {send[s].seen, {}}
    <3>1. send[s] \in VideoSend
      BY <1>s
    <3>2. Training!Ended.at = "ended" /\ Training!Ended.seen = {}
      BY DEF Training!Ended
    <3>3. CASE tmp[UploadOf[r]] = None
      <4>1. send' = [send EXCEPT ![r] = Training!Ended]
        BY <1>6, <3>3 DEF Training!RenameTmp
      <4> QED
        BY <1>s, <3>2, <4>1
    <3>4. CASE tmp[UploadOf[r]] # None
      <4>1. send'[s] = CASE s = r -> Training!Ended
                         [] s # r /\ UploadOf[s] = UploadOf[r] ->
                              [send[s] EXCEPT !.fd = [tmp |-> "meta", meta |-> "gone",
                                                      gone |-> "gone", closed |-> "closed"][@]]
                         [] OTHER -> send[s]
        BY <1>6, <3>4 DEF Training!RenameTmp
      <4>2. CASE s = r
        BY <3>2, <4>1, <4>2
      <4>3. CASE s # r /\ UploadOf[s] = UploadOf[r]
        BY <3>1, <4>1, <4>3 DEF VideoSend
      <4>4. CASE s # r /\ UploadOf[s] # UploadOf[r]
        BY <4>1, <4>4
      <4> QED
        BY <4>2, <4>3, <4>4
    <3> QED
      BY <3>3, <3>4
  <2>4. \A u \in Uploads : Truthful(session[u], u)' /\ Truthful(tmp[u], u)'
    BY <1>0, <2>1, <2>2 DEF SessionsTrue, Truthful, VideoRests
  <2>5. \A s \in Sends : /\ send'[s].seen \subseteq written'[UploadOf[s]]
                         /\ send'[s].at = "reread" => Chunk[s] \in written'[UploadOf[s]]
    BY <1>0, <2>1, <2>3 DEF SessionsTrue, VideoRests
  <2> QED
    BY <1>0, <1>t, <2>1, <2>4, <2>5, VideoMovedRests DEF VideoInv, SessionsTrue
<1> QED
  BY <1>1, <1>2, <1>3, <1>4, <1>5, <1>6

\* A session that goes takes the names of open files, and not what their holders know.
LEMMA VideoDrops ==
  ASSUME Training!TypeOK, SessionsTrue, NEW u \in Uploads, NEW w \in BOOLEAN,
         Training!DropSession(u, w), UNCHANGED <<written, tmp>>
  PROVE  /\ SessionsTrue'
         /\ \A v \in Uploads : part'[v] = part[v] \/ (v = u /\ part'[v] = "none")
<1>1. /\ send \in [Sends -> VideoSend] /\ session \in [Uploads -> VideoSession]
      /\ part \in [Uploads -> {"none", "fresh", "old"}]
  BY DEF Training!TypeOK, VideoSend, VideoSession
<1>2. \A s \in Sends : send'[s].at = send[s].at /\ send'[s].seen = send[s].seen
  <2>1. ASSUME NEW s \in Sends
        PROVE  send'[s].at = send[s].at /\ send'[s].seen = send[s].seen
    <3>1. send[s] \in VideoSend
      BY <1>1
    <3>2. send'[s] = send[s] \/ send'[s] = [send[s] EXCEPT !.fd = "gone"]
      BY DEF Training!DropSession
    <3> QED
      BY <3>1, <3>2 DEF VideoSend
  <2> QED
    BY <2>1
<1>3. \A v \in Uploads : session'[v] \in {session[v], None}
  BY <1>1 DEF Training!DropSession
<1>4. \A v \in Uploads : part'[v] = part[v] \/ (v = u /\ part'[v] = "none")
  BY <1>1 DEF Training!DropSession
<1>5. SessionsTrue'
  BY <1>2, <1>3 DEF SessionsTrue, Truthful
<1> QED
  BY <1>4, <1>5

LEMMA VideoBegins ==
  ASSUME Training!VideosAssumption, VideoInv, NEW u \in Uploads,
         \/ Training!InitPart(u) \/ Training!InitMeta(u) \/ Training!Create(u)
         \/ Training!Abort(u) \/ Training!SweepMeta(u) \/ Training!SweepPart(u)
  PROVE  SessionsTrue' /\ CompletesTrue' /\ \A v \in Uploads : MovedTrue(v)'
<1> USE DEF Training!VideosAssumption
<1>0. Training!TypeOK /\ SessionsTrue /\ CompletesTrue /\ \A v \in Uploads : MovedTrue(v)
  BY DEF VideoInv
<1>s. /\ session \in [Uploads -> VideoSession] /\ written \in [Uploads -> SUBSET Chunks]
      /\ part \in [Uploads -> {"none", "fresh", "old"}] /\ video \in [Uploads -> {"none", "fresh", "old"}]
      /\ \A c \in Completes : complete[c].at # "idle" => complete[c].of \in Uploads
  BY <1>0 DEF Training!TypeOK, VideoSession, CompletesTrue
<1> USE DEF Training!FilesUnchanged, Training!ListUnchanged
\* A new upload has no bytes, so nobody completes it.
<1>n. ASSUME Training!New(u)
      PROVE  /\ written[u] = {} /\ ~Moved(u) /\ u \notin records \cup doomed
             /\ \A c \in Completes : complete[c].at # "idle" => complete[c].of # u
  <2>1. written[u] = {} /\ u \notin saving \cup records \cup doomed
    BY <1>n DEF Training!New
  <2>2. \A c \in Completes : complete[c].at # "idle" => complete[c].of # u
    BY <1>0, <2>1 DEF CompletesTrue
  <2> QED
    BY <2>1, <2>2 DEF Moved
<1>1. CASE Training!InitPart(u)
  <2>1. UNCHANGED <<written, session, tmp, send, complete, video, saving, records, doomed,
                    seenVideos, overdue>> /\ part' = [part EXCEPT ![u] = "fresh"] /\ Training!New(u)
    BY <1>1 DEF Training!InitPart
  <2>2. SessionsTrue' /\ CompletesTrue'
    BY <1>0, <2>1 DEF SessionsTrue, Truthful, CompletesTrue
  <2>3. \A v \in Uploads : MovedTrue(v)'
    BY <1>0, <1>s, <1>n, <2>1 DEF MovedTrue, Moved
  <2> QED
    BY <2>2, <2>3
<1>2. CASE Training!InitMeta(u)
  <2>1. UNCHANGED <<written, tmp, send, complete, video, part, saving, records, doomed,
                    seenVideos, overdue>> /\ session' = [session EXCEPT ![u] = {}]
    BY <1>2 DEF Training!InitMeta
  <2>2. SessionsTrue' /\ CompletesTrue'
    BY <1>0, <1>s, <2>1 DEF SessionsTrue, Truthful, CompletesTrue
  <2>3. \A v \in Uploads : MovedTrue(v)'
    BY <1>0, <2>1 DEF MovedTrue, Moved
  <2> QED
    BY <2>2, <2>3
<1>3. CASE Training!Create(u)
  <2>1. /\ UNCHANGED <<part, session, tmp, send, complete, records, doomed, seenVideos, overdue>>
        /\ video' = [video EXCEPT ![u] = "fresh"] /\ written' = [written EXCEPT ![u] = Chunks]
        /\ saving' = saving \cup {u} /\ Training!New(u) /\ part[u] = "none"
    BY <1>3 DEF Training!Create
  <2>2. \A v \in Uploads : written[v] \subseteq written'[v] /\ (v # u => written'[v] = written[v])
    BY <1>s, <2>1
  <2>3. SessionsTrue'
    <3>1. \A r \in Sends : UploadOf[r] \in Uploads
      OBVIOUS
    <3> QED
      BY <1>0, <2>1, <2>2, <3>1 DEF SessionsTrue, Truthful
  <2>4. CompletesTrue'
    BY <1>0, <1>s, <1>n, <2>1, <2>2 DEF CompletesTrue
  <2>5. MovedTrue(u)'
    BY <1>s, <1>n, <2>1 DEF MovedTrue, Moved
  <2>6. ASSUME NEW v \in Uploads, v # u PROVE MovedTrue(v)'
    BY <1>0, <1>s, <2>1, <2>2, <2>6 DEF MovedTrue, Moved
  <2> QED
    BY <2>3, <2>4, <2>5, <2>6
<1>4. CASE Training!Abort(u) \/ Training!SweepMeta(u)
  <2>1. /\ UNCHANGED <<written, tmp, complete, video, saving, records, doomed, seenVideos, overdue>>
        /\ Training!DropSession(u, TRUE) \/ Training!DropSession(u, FALSE)
    BY <1>4 DEF Training!Abort, Training!SweepMeta
  <2>2. SessionsTrue' /\ \A v \in Uploads : part'[v] = part[v] \/ (v = u /\ part'[v] = "none")
    BY <1>0, <2>1, VideoDrops
  <2>3. CompletesTrue' /\ \A v \in Uploads : MovedTrue(v)'
    BY <1>0, <2>1, <2>2 DEF CompletesTrue, MovedTrue, Moved
  <2> QED
    BY <2>2, <2>3
<1>5. CASE Training!SweepPart(u)
  <2>1. /\ UNCHANGED <<written, session, tmp, send, complete, video, saving, records, doomed,
                       seenVideos, overdue>>
        /\ \A v \in Uploads : part'[v] = part[v] \/ (v = u /\ part'[v] = "none")
    BY <1>s, <1>5 DEF Training!SweepPart
  <2>2. SessionsTrue' /\ CompletesTrue' /\ \A v \in Uploads : MovedTrue(v)'
    BY <1>0, <2>1 DEF SessionsTrue, Truthful, CompletesTrue, MovedTrue, Moved
  <2> QED
    BY <2>2
<1> QED
  BY <1>1, <1>2, <1>3, <1>4, <1>5

LEMMA VideoRecords ==
  ASSUME Training!VideosAssumption, VideoInv,
         \/ \E u \in Uploads :
              \/ Training!SaveRecord(u) \/ Training!Remove(u)
              \/ Training!RemoveFile(u) \/ Training!SweepVideo(u) \/ Training!Age(u)
         \/ Training!SweepStart \/ Training!SweepEnd \/ Training!Crash
  PROVE  SessionsTrue' /\ CompletesTrue' /\ \A v \in Uploads : MovedTrue(v)'
<1> USE DEF Training!VideosAssumption
<1>0. Training!TypeOK /\ SessionsTrue /\ CompletesTrue /\ \A v \in Uploads : MovedTrue(v)
  BY DEF VideoInv
<1>s. /\ part \in [Uploads -> {"none", "fresh", "old"}] /\ video \in [Uploads -> {"none", "fresh", "old"}]
      /\ \A c \in Completes : complete[c].at # "idle" => complete[c].of \in Uploads
  BY <1>0 DEF Training!TypeOK, CompletesTrue
<1> USE DEF Training!UploadUnchanged, Training!ListUnchanged
<1>1. ASSUME NEW u \in Uploads,
             \/ Training!SaveRecord(u) \/ Training!Remove(u)
             \/ Training!RemoveFile(u) \/ Training!SweepVideo(u)
      PROVE  SessionsTrue' /\ CompletesTrue' /\ \A v \in Uploads : MovedTrue(v)'
  <2>1. UNCHANGED <<part, written, session, tmp, send, complete, seenVideos, overdue>>
    BY <1>1 DEF Training!SaveRecord, Training!Remove, Training!RemoveFile, Training!SweepVideo
  <2>2. SessionsTrue' /\ CompletesTrue'
    BY <1>0, <2>1 DEF SessionsTrue, Truthful, CompletesTrue
  <2>3. CASE Training!SaveRecord(u)
    BY <1>0, <2>1, <2>2, <2>3 DEF Training!SaveRecord, MovedTrue, Moved
  <2>4. CASE Training!Remove(u)
    BY <1>0, <2>1, <2>2, <2>4 DEF Training!Remove, MovedTrue, Moved
  <2>5. CASE Training!RemoveFile(u)
    <3>1. \A v \in Uploads \ {u} : video'[v] = video[v] /\ (v \in doomed' <=> v \in doomed)
      BY <1>s, <2>5 DEF Training!RemoveFile
    <3>2. u \in doomed /\ u \notin doomed' /\ UNCHANGED <<saving, records>>
      BY <2>5 DEF Training!RemoveFile
    <3>3. \A v \in Uploads : MovedTrue(v)'
      BY <1>0, <2>1, <3>1, <3>2 DEF MovedTrue, Moved
    <3> QED
      BY <2>2, <3>3
  <2>6. CASE Training!SweepVideo(u)
    <3>1. \A v \in Uploads \ {u} : video'[v] = video[v]
      BY <1>s, <2>6 DEF Training!SweepVideo
    <3>2. u \notin seenVideos /\ video[u] = "old" /\ seenVideos # Training!NotSweeping
          /\ UNCHANGED <<saving, records, doomed>>
      BY <2>6 DEF Training!SweepVideo
    <3>3. \A v \in Uploads : MovedTrue(v)'
      BY <1>0, <2>1, <3>1, <3>2 DEF MovedTrue, Moved
    <3> QED
      BY <2>2, <3>3
  <2> QED
    BY <1>1, <2>3, <2>4, <2>5, <2>6
<1>2. ASSUME NEW u \in Uploads, Training!Age(u)
      PROVE  SessionsTrue' /\ CompletesTrue' /\ \A v \in Uploads : MovedTrue(v)'
  <2>1. UNCHANGED <<written, session, tmp, send, complete, saving, records, doomed, seenVideos, overdue>>
        /\ seenVideos = Training!NotSweeping /\ u \notin saving
        /\ \A c \in Completes : complete[c].of # u
    BY <1>2 DEF Training!Age
  <2>2. /\ \A v \in Uploads : part[v] = "none" => part'[v] = "none"
        /\ \A v \in Uploads : video'[v] = video[v] \/ (v = u /\ video[v] = "fresh" /\ video'[v] = "old")
    BY <1>s, <1>2 DEF Training!Age
  <2>3. SessionsTrue' /\ CompletesTrue'
    BY <1>0, <2>1 DEF SessionsTrue, Truthful, CompletesTrue
  <2>4. ~Moved(u)
    BY <2>1 DEF Moved
  <2>5. \A v \in Uploads : MovedTrue(v)'
    BY <1>0, <2>1, <2>2, <2>4 DEF MovedTrue, Moved
  <2> QED
    BY <2>3, <2>5
<1>3. CASE Training!SweepStart \/ Training!SweepEnd
  <2>1. /\ UNCHANGED <<part, written, session, tmp, send, complete, video, saving, records, doomed, overdue>>
        /\ seenVideos' = records \/ seenVideos' = Training!NotSweeping
    BY <1>3 DEF Training!SweepStart, Training!SweepEnd
  <2> QED
    BY <1>0, <2>1 DEF SessionsTrue, Truthful, CompletesTrue, MovedTrue, Moved
<1>4. CASE Training!Crash
  <2>1. /\ UNCHANGED <<part, written, session, tmp, video, records, overdue>>
        /\ saving' = {} /\ doomed' = {} /\ seenVideos' = Training!NotSweeping
        /\ complete' = [c \in Completes |-> [at |-> "idle", of |-> None]]
    BY <1>4 DEF Training!Crash, Training!Idle
  <2>2. \A r \in Sends : /\ send'[r].at \in {"waiting", "ended"} /\ send'[r].seen = {}
    BY <1>4 DEF Training!Crash, Training!Waiting, Training!Ended
  <2>3. SessionsTrue'
    BY <1>0, <2>1, <2>2 DEF SessionsTrue, Truthful
  <2>4. CompletesTrue'
    BY <2>1 DEF CompletesTrue
  <2>5. \A v \in Uploads : MovedTrue(v)'
    BY <1>0, <2>1 DEF MovedTrue, Moved
  <2> QED
    BY <2>3, <2>4, <2>5
<1> QED
  BY <1>1, <1>2, <1>3, <1>4

\* Chunks that were all received are all written; the file is moved by one request.
LEMMA VideoCompletes ==
  ASSUME Training!VideosAssumption, VideoInv, NEW c \in Completes,
         \/ \E u \in Uploads : Training!CompleteRead(c, u)
         \/ Training!CompleteMove(c) \/ Training!CompleteDrop(c)
  PROVE  SessionsTrue' /\ CompletesTrue' /\ \A v \in Uploads : MovedTrue(v)'
<1> USE DEF Training!VideosAssumption
<1>0. Training!TypeOK /\ SessionsTrue /\ CompletesTrue /\ \A v \in Uploads : MovedTrue(v)
  BY DEF VideoInv
<1>s. /\ complete \in [Completes -> VideoComplete] /\ written \in [Uploads -> SUBSET Chunks]
      /\ part \in [Uploads -> {"none", "fresh", "old"}] /\ video \in [Uploads -> {"none", "fresh", "old"}]
      /\ \A d \in Completes : complete[d].at # "idle" => complete[d].of \in Uploads
  BY <1>0 DEF Training!TypeOK, VideoComplete, CompletesTrue
<1> USE DEF Training!FilesUnchanged, Training!ListUnchanged
<1>1. ASSUME NEW u \in Uploads, Training!CompleteRead(c, u)
      PROVE  SessionsTrue' /\ CompletesTrue' /\ \A v \in Uploads : MovedTrue(v)'
  <2>1. /\ complete' = [complete EXCEPT ![c] = [at |-> "move", of |-> u]]
        /\ UNCHANGED <<part, written, session, tmp, send, video, saving, records, doomed, seenVideos, overdue>>
        /\ complete[c].at = "idle" /\ session[u] = Chunks /\ Training!Readable(u)
    BY <1>1 DEF Training!CompleteRead, Training!Idle
  <2>2. written[u] = Chunks
    BY <1>0, <1>s, <2>1 DEF SessionsTrue, Truthful, Training!Readable
  <2>3. complete'[c] = [at |-> "move", of |-> u] /\ \A d \in Completes \ {c} : complete'[d] = complete[d]
    BY <1>s, <2>1
  <2>4. CompletesTrue'
    BY <1>0, <2>1, <2>2, <2>3 DEF CompletesTrue
  <2>5. \A v \in Uploads : MovedTrue(v)'
    <3>1. \A d \in Completes : complete'[d].at = "drop" <=> complete[d].at = "drop"
      BY <2>1, <2>3
    <3>2. \A d \in Completes : complete'[d].at = "drop" => complete'[d] = complete[d]
      BY <2>3
    <3> QED
      BY <1>0, <2>1, <3>1, <3>2 DEF MovedTrue, Moved
  <2>6. SessionsTrue'
    BY <1>0, <2>1 DEF SessionsTrue, Truthful
  <2> QED
    BY <2>4, <2>5, <2>6
<1>2. ASSUME NEW u \in Uploads, u = complete[c].of, Training!CompleteMove(c)
      PROVE  SessionsTrue' /\ CompletesTrue' /\ \A v \in Uploads : MovedTrue(v)'
  <2>1. /\ complete[c].at = "move" /\ complete[c].of = u /\ written[u] = Chunks
        /\ UNCHANGED <<written, session, tmp, send, saving, records, doomed, seenVideos>>
    BY <1>0, <1>s, <1>2 DEF Training!CompleteMove, CompletesTrue
  <2>2. SessionsTrue'
    BY <1>0, <2>1 DEF SessionsTrue, Truthful
  <2>3. CASE part[u] = "none"
    <3>1. complete' = [complete EXCEPT ![c] = [at |-> "idle", of |-> None]]
          /\ UNCHANGED <<part, video, overdue>>
      BY <1>2, <2>3 DEF Training!CompleteMove, Training!Idle
    <3>2. complete'[c] = [at |-> "idle", of |-> None] /\ \A d \in Completes \ {c} : complete'[d] = complete[d]
      BY <1>s, <3>1
    <3>3. CompletesTrue'
      BY <1>0, <2>1, <3>2 DEF CompletesTrue
    <3>4. \A v \in Uploads : MovedTrue(v)'
      BY <1>0, <2>1, <3>1, <3>2 DEF MovedTrue, Moved
    <3> QED
      BY <2>2, <3>3, <3>4
  <2>4. CASE part[u] # "none"
    <3>1. /\ part' = [part EXCEPT ![u] = "none"] /\ video' = [video EXCEPT ![u] = part[u]]
          /\ overdue' = IF part[u] = "old" THEN overdue \cup {u} ELSE overdue
          /\ complete' = [complete EXCEPT ![c].at = "drop"]
      BY <1>2, <2>4 DEF Training!CompleteMove
    <3>2. complete'[c] = [at |-> "drop", of |-> u] /\ \A d \in Completes \ {c} : complete'[d] = complete[d]
      <4>1. complete[c] \in VideoComplete
        BY <1>s
      <4>2. complete'[c] = [complete[c] EXCEPT !.at = "drop"]
        BY <1>s, <3>1
      <4>3. complete'[c] = [at |-> "drop", of |-> complete[c].of]
        BY <4>1, <4>2 DEF VideoComplete
      <4> QED
        BY <1>s, <2>1, <3>1, <4>3
    <3>3. ~Moved(u) /\ u \notin records \cup doomed
      BY <1>0, <2>1, <2>4 DEF MovedTrue
    <3>4. CompletesTrue'
      BY <1>0, <1>s, <2>1, <3>2, <3>3 DEF CompletesTrue, Moved
    <3>5. MovedTrue(u)'
      <4>1. part'[u] = "none" /\ video'[u] = part[u] /\ (part[u] = "old" => u \in overdue')
        BY <1>s, <2>1, <3>1
      <4>2. u \notin saving' /\ u \notin records' \cup doomed'
        BY <2>1, <3>3 DEF Moved
      <4> QED
        BY <1>s, <2>1, <2>4, <4>1, <4>2 DEF MovedTrue, Moved
    <3>6. ASSUME NEW v \in Uploads, v # u PROVE MovedTrue(v)'
      <4>1. part'[v] = part[v] /\ video'[v] = video[v] /\ (v \in overdue' <=> v \in overdue)
        BY <1>s, <2>1, <3>1, <3>6
      <4>2. \A d \in Completes : complete'[d].at = "drop" /\ complete'[d].of = v
                                   <=> complete[d].at = "drop" /\ complete[d].of = v
        BY <2>1, <3>2, <3>6
      <4> QED
        BY <1>0, <2>1, <4>1, <4>2 DEF MovedTrue, Moved
    <3> QED
      BY <2>2, <3>4, <3>5, <3>6
  <2> QED
    BY <2>3, <2>4
<1>3. ASSUME NEW u \in Uploads, u = complete[c].of, Training!CompleteDrop(c)
      PROVE  SessionsTrue' /\ CompletesTrue' /\ \A v \in Uploads : MovedTrue(v)'
  <2>1. /\ complete[c].at = "drop" /\ complete[c].of = u
        /\ Training!DropSession(u, TRUE)
        /\ complete' = [complete EXCEPT ![c] = [at |-> "idle", of |-> None]]
        /\ saving' = saving \cup {u}
        /\ UNCHANGED <<written, tmp, video, records, doomed, seenVideos, overdue>>
    BY <1>s, <1>3 DEF Training!CompleteDrop, Training!Idle
  <2>2. SessionsTrue' /\ \A v \in Uploads : part'[v] = part[v] \/ (v = u /\ part'[v] = "none")
    BY <1>0, <2>1, VideoDrops
  <2>3. complete'[c] = [at |-> "idle", of |-> None] /\ \A d \in Completes \ {c} : complete'[d] = complete[d]
    BY <1>s, <2>1
  <2>4. CompletesTrue'
    BY <1>0, <2>1, <2>3 DEF CompletesTrue
  <2>5. MovedTrue(u)'
    <3>1. Moved(u) /\ u \notin saving /\ u \notin records \cup doomed /\ written[u] = Chunks /\ part[u] = "none"
          /\ (u \notin overdue => video[u] = "fresh")
      BY <1>0, <2>1 DEF MovedTrue, Moved
    <3>2. \A d \in Completes : ~(complete'[d].at = "drop" /\ complete'[d].of = u)
      BY <1>0, <2>1, <2>3 DEF CompletesTrue
    <3>3. u \in saving' /\ part'[u] = "none"
      BY <2>1, <2>2, <3>1
    <3> QED
      BY <2>1, <3>1, <3>2, <3>3 DEF MovedTrue, Moved
  <2>6. ASSUME NEW v \in Uploads, v # u PROVE MovedTrue(v)'
    <3>1. part'[v] = part[v] /\ (v \in saving' <=> v \in saving)
      BY <2>1, <2>2, <2>6
    <3>2. \A d \in Completes : complete'[d].at = "drop" /\ complete'[d].of = v
                                 <=> complete[d].at = "drop" /\ complete[d].of = v
      BY <2>1, <2>3, <2>6
    <3> QED
      BY <1>0, <2>1, <3>1, <3>2 DEF MovedTrue, Moved
  <2> QED
    BY <2>2, <2>4, <2>5, <2>6
<1>4. Training!CompleteMove(c) \/ Training!CompleteDrop(c) => complete[c].at # "idle"
  BY DEF Training!CompleteMove, Training!CompleteDrop
<1> QED
  BY <1>s, <1>1, <1>2, <1>3, <1>4

LEMMA VideoNext ==
  ASSUME Training!VideosAssumption, VideoInv, Training!Next \/ UNCHANGED videoVars
  PROVE  VideoInv'
<1>1. CASE Training!Next
  <2>0. Training!TypeOK /\ \A c \in Completes : complete[c].at # "idle" => complete[c].of \in Uploads
    BY DEF VideoInv, CompletesTrue, Training!TypeOK
  <2>1. ASSUME NEW r \in Sends,
               \/ Training!ReadFirst(r) \/ Training!Stream(r) \/ Training!Reread(r)
               \/ Training!OpenTmp(r) \/ Training!WriteTmp(r) \/ Training!RenameTmp(r)
        PROVE  VideoInv'
    BY <2>1, VideoSends
  <2>2. ASSUME NEW u \in Uploads,
               \/ Training!InitPart(u) \/ Training!InitMeta(u) \/ Training!Create(u)
               \/ Training!Abort(u) \/ Training!SweepMeta(u) \/ Training!SweepPart(u)
        PROVE  VideoInv'
    BY <2>0, <2>2, VideoFilesTyped, VideoBegins DEF VideoInv
  <2>3. ASSUME \/ \E u \in Uploads :
                    \/ Training!SaveRecord(u) \/ Training!Remove(u)
                    \/ Training!RemoveFile(u) \/ Training!SweepVideo(u) \/ Training!Age(u)
               \/ Training!SweepStart \/ Training!SweepEnd \/ Training!Crash
        PROVE  VideoInv'
    BY <2>0, <2>3, VideoFilesTyped, VideoRecords DEF VideoInv
  <2>4. ASSUME NEW c \in Completes,
               \/ \E u \in Uploads : Training!CompleteRead(c, u)
               \/ Training!CompleteMove(c) \/ Training!CompleteDrop(c)
        PROVE  VideoInv'
    BY <2>0, <2>4, VideoFilesTyped, VideoCompletes DEF VideoInv
  <2> QED
    BY <1>1, <2>1, <2>2, <2>3, <2>4 DEF Training!Next
<1>2. CASE UNCHANGED videoVars
  <2>1. Training!TypeOK'
    BY <1>2 DEF videoVars, VideoInv, Training!TypeOK
  <2> QED
    BY <1>2, <2>1 DEF videoVars, VideoInv, SessionsTrue, Truthful, CompletesTrue, MovedTrue, Moved
<1> QED
  BY <1>1, <1>2

LEMMA VideoSound ==
  ASSUME VideoInv
  PROVE  Training!WholeVideos
<1>1. ASSUME NEW u \in records PROVE u \in Uploads /\ MovedTrue(u)
  BY DEF VideoInv, Training!TypeOK
<1> QED
  BY <1>1 DEF Training!WholeVideos, MovedTrue

(***************************************************************************)
(* Presence (user.gateway.ts and its kin).                                 *)
(***************************************************************************)
\* How many commands of the connect put a socket into the set of its user and
\* write its key; how many of the disconnect take it out again.
AddsAt    == [user |-> 2, load |-> 1, tender |-> 1, chat |-> 1]
KeysAt    == [user |-> 1, load |-> 1, tender |-> 2]
RemovesAt == [user |-> 2, load |-> 2, tender |-> 2, chat |-> 1]

Mine(u) == {s \in Sockets : Online!Owner(s) = u}

\* User u, none of whose sockets went astray.
Clean(u) == \A s \in astray : Online!Owner(s) # u

\* A socket of such a user: its commands run in their order, the disconnect after
\* the connect, and the set and the key follow them.
SocketTrue(s, u) ==
  /\ s \notin open \cup closed => joined[s] = 0
  /\ s \notin closed => left[s] = 0
  /\ s \in closed => joined[s] = Len(Online!Connect[gateway])
  /\ s \in sets[u] <=> joined[s] >= AddsAt[gateway] /\ left[s] < RemovesAt[gateway]
  /\ gateway # "chat" /\ joined[s] >= KeysAt[gateway] /\ left[s] < RemovesAt[gateway] => s \in key

\* Who is announced or listed has a socket that is open or whose disconnect is not
\* through, and so somebody who will say otherwise.
Announced(u) ==
  said[u] = "online" \/ u \in tracked =>
    /\ gateway \in {"user", "load"}
    /\ \E s \in Mine(u) : s \in open \/ (s \in closed /\ ~Online!Gone(s))

UserTrue(u) ==
  /\ sets[u] \subseteq Mine(u)
  /\ \A s \in Mine(u) : SocketTrue(s, u)
  /\ Announced(u)

OnlineInv == Online!TypeOK /\ \A u \in Users : Clean(u) => UserTrue(u)

LEMMA OnlineInit == ASSUME Online!PresenceAssumption, Online!Init PROVE OnlineInv
<1>1. Online!TypeOK
  BY DEF Online!PresenceAssumption, Online!Init, Online!TypeOK, Online!Connect, Online!Disconnect
<1>2. ASSUME NEW u \in Users PROVE UserTrue(u)
  BY DEF Online!PresenceAssumption, Online!Init, UserTrue, Mine, SocketTrue, Announced,
         AddsAt, KeysAt, RemovesAt
<1> QED
  BY <1>1, <1>2 DEF OnlineInv

\* The commands of each gateway and their places.
LEMMA Places ==
  ASSUME gateway \in {"user", "load", "tender", "chat"}
  PROVE  /\ Len(Online!Connect[gateway]) \in Nat /\ Len(Online!Disconnect[gateway]) \in Nat
         /\ AddsAt[gateway] \in 1..Len(Online!Connect[gateway])
         /\ gateway # "chat" => KeysAt[gateway] \in 1..Len(Online!Connect[gateway])
         /\ RemovesAt[gateway] \in 1..Len(Online!Disconnect[gateway])
<1> USE DEF Online!Connect, Online!Disconnect, AddsAt, KeysAt, RemovesAt
<1>1. CASE gateway = "user"
  BY <1>1
<1>2. CASE gateway = "load"
  BY <1>2
<1>3. CASE gateway = "tender"
  BY <1>3
<1>4. CASE gateway = "chat"
  BY <1>4
<1> QED
  BY <1>1, <1>2, <1>3, <1>4

\* Sets of sockets grow and lose members; an expiry and a restart are taken by Clean.
LEMMA OnlineTyped ==
  ASSUME Online!PresenceAssumption, Online!TypeOK, Online!Next
  PROVE  Online!TypeOK'
<1> USE DEF Online!PresenceAssumption, Online!TypeOK
<1>1. Len(Online!Connect[gateway]) \in Nat /\ Len(Online!Disconnect[gateway]) \in Nat
  BY DEF Online!Connect, Online!Disconnect
<1>2. ASSUME NEW s \in Sockets, Online!Open(s) \/ Online!Close(s) \/ Online!KeyExpires(s)
      PROVE  Online!TypeOK'
  BY <1>2 DEF Online!Open, Online!Close, Online!KeyExpires
<1>3. ASSUME NEW s \in Sockets, Online!Join(s) \/ Online!Leave(s) \/ Online!Heartbeat(s)
      PROVE  Online!TypeOK'
  <2>1. Online!Owner(s) \in Users
    BY <1>3 DEF Online!Join, Online!Leave, Online!Heartbeat, Online!Joining, Online!Leaving,
                Online!Owner
  <2>2. CASE Online!Join(s)
    BY <1>1, <2>1, <2>2 DEF Online!Join, Online!Joining
  <2>3. CASE Online!Leave(s)
    BY <1>1, <2>1, <2>3 DEF Online!Leave, Online!Leaving
  <2>4. CASE Online!Heartbeat(s)
    BY <2>1, <2>4 DEF Online!Heartbeat
  <2> QED
    BY <1>3, <2>2, <2>3, <2>4
<1>4. ASSUME NEW u \in Users, Online!Lapse(u) \/ Online!SetExpires(u)
      PROVE  Online!TypeOK'
  BY <1>4 DEF Online!Lapse, Online!SetExpires
<1>5. CASE Online!Crash
  BY <1>1, <1>5 DEF Online!Crash
<1> QED
  BY <1>2, <1>3, <1>4, <1>5 DEF Online!Next

\* Steps of sockets, seen by a user none of whose sockets is astray afterwards.
LEMMA ConnectKeeps ==
  ASSUME Online!PresenceAssumption, Online!TypeOK, NEW u \in Users, Clean(u), UserTrue(u),
         NEW s \in Sockets, Online!Open(s) \/ Online!Join(s)
  PROVE  UserTrue(u)'
<1> USE DEF Online!PresenceAssumption, Online!TypeOK, UserTrue, Mine, SocketTrue, Announced,
            Online!Owner, Online!Gone, AddsAt, KeysAt, RemovesAt
<1>1. gateway' = gateway /\ gateway \in {"user", "load", "tender", "chat"}
  BY DEF Online!Open, Online!Join
<1>2. CASE Online!Open(s)
  BY <1>1, <1>2 DEF Online!Open
<1>3. CASE Online!Join(s) /\ gateway = "user"
  BY <1>1, <1>3 DEF Online!Join, Online!Joining, Online!Connect, Online!Disconnect
<1>4. CASE Online!Join(s) /\ gateway = "load"
  BY <1>1, <1>4 DEF Online!Join, Online!Joining, Online!Connect, Online!Disconnect
<1>5. CASE Online!Join(s) /\ gateway = "tender"
  BY <1>1, <1>5 DEF Online!Join, Online!Joining, Online!Connect, Online!Disconnect
<1>6. CASE Online!Join(s) /\ gateway = "chat"
  BY <1>1, <1>6 DEF Online!Join, Online!Joining, Online!Connect, Online!Disconnect
<1> QED
  BY <1>1, <1>2, <1>3, <1>4, <1>5, <1>6

LEMMA DisconnectKeeps ==
  ASSUME Online!PresenceAssumption, Online!TypeOK, NEW u \in Users, Clean(u), UserTrue(u),
         NEW s \in Sockets, Online!Leave(s)
  PROVE  UserTrue(u)'
<1> USE DEF Online!PresenceAssumption, Online!TypeOK, UserTrue, Mine, SocketTrue, Announced,
            Online!Owner, Online!Gone, AddsAt, KeysAt, RemovesAt
<1>1. gateway' = gateway /\ gateway \in {"user", "load", "tender", "chat"}
  BY DEF Online!Leave
<1>2. CASE gateway = "user"
  BY <1>1, <1>2 DEF Online!Leave, Online!Leaving, Online!Connect, Online!Disconnect
<1>3. CASE gateway = "load"
  BY <1>1, <1>3 DEF Online!Leave, Online!Leaving, Online!Connect, Online!Disconnect
<1>4. CASE gateway = "tender"
  BY <1>1, <1>4 DEF Online!Leave, Online!Leaving, Online!Connect, Online!Disconnect
<1>5. CASE gateway = "chat"
  BY <1>1, <1>5 DEF Online!Leave, Online!Leaving, Online!Connect, Online!Disconnect
<1> QED
  BY <1>1, <1>2, <1>3, <1>4, <1>5

\* A socket that closes while its connect goes on is astray.
LEMMA ElseKeeps ==
  ASSUME Online!PresenceAssumption, Online!TypeOK, NEW u \in Users, Clean(u)', UserTrue(u),
         \/ \E s \in Sockets : Online!Close(s) \/ Online!Heartbeat(s) \/ Online!KeyExpires(s)
         \/ \E v \in Users : Online!Lapse(v) \/ Online!SetExpires(v)
         \/ Online!Crash
  PROVE  UserTrue(u)'
<1> USE DEF Online!PresenceAssumption, Online!TypeOK, UserTrue, Mine, SocketTrue, Announced,
            Online!Owner, Online!Gone, Clean
<1>0. gateway \in {"user", "load", "tender", "chat"}
  OBVIOUS
<1>1. /\ Len(Online!Connect[gateway]) \in Nat /\ Len(Online!Disconnect[gateway]) \in Nat
      /\ AddsAt[gateway] \in 1..Len(Online!Connect[gateway])
      /\ gateway # "chat" => KeysAt[gateway] \in 1..Len(Online!Connect[gateway])
      /\ RemovesAt[gateway] \in 1..Len(Online!Disconnect[gateway])
  BY <1>0, Places
<1>2. ASSUME NEW s \in Sockets, Online!Close(s)
      PROVE  UserTrue(u)'
  BY <1>1, <1>2 DEF Online!Close, Online!Joining
<1>3. ASSUME NEW s \in Sockets, Online!Heartbeat(s)
      PROVE  UserTrue(u)'
  BY <1>1, <1>3 DEF Online!Heartbeat
<1>4. ASSUME NEW s \in Sockets, Online!KeyExpires(s)
      PROVE  UserTrue(u)'
  BY <1>1, <1>4 DEF Online!KeyExpires
<1>5. ASSUME NEW v \in Users, Online!Lapse(v) \/ Online!SetExpires(v)
      PROVE  UserTrue(u)'
  <2>1. CASE Online!Lapse(v)
    BY <1>1, <2>1 DEF Online!Lapse
  <2>2. CASE Online!SetExpires(v)
    <3>1. /\ gateway' = gateway /\ open' = open /\ closed' = closed /\ joined' = joined
          /\ left' = left /\ key' = key /\ tracked' = tracked /\ said' = said
      BY <2>2 DEF Online!SetExpires
    <3>2. sets' = [sets EXCEPT ![v] = {}] /\ astray' = astray \cup sets[v]
      BY <2>2 DEF Online!SetExpires
    <3> QED
      BY <1>1, <3>1, <3>2
  <2> QED
    BY <1>5, <2>1, <2>2
<1>6. CASE Online!Crash
  BY <1>1, <1>6 DEF Online!Crash, Online!Joining
<1> QED
  BY <1>2, <1>3, <1>4, <1>5, <1>6

LEMMA OnlineNext ==
  ASSUME Online!PresenceAssumption, OnlineInv, Online!Next \/ UNCHANGED presenceVars
  PROVE  OnlineInv'
<1>1. CASE Online!Next
  <2>1. Online!TypeOK'
    BY <1>1, OnlineTyped DEF OnlineInv
  <2>2. ASSUME NEW u \in Users, Clean(u)' PROVE UserTrue(u)'
    <3>1. gateway' = gateway /\ astray \subseteq astray'
      BY <1>1 DEF Online!Next, Online!Open, Online!Join, Online!Close, Online!Leave,
                  Online!Heartbeat, Online!KeyExpires, Online!Lapse, Online!SetExpires, Online!Crash
    <3>2. Clean(u) /\ UserTrue(u)
      BY <2>2, <3>1 DEF Clean, Online!Owner, OnlineInv
    <3> QED
      BY <1>1, <2>2, <3>2, ConnectKeeps, DisconnectKeeps, ElseKeeps DEF Online!Next, OnlineInv
  <2> QED
    BY <2>1, <2>2 DEF OnlineInv
<1>2. CASE UNCHANGED presenceVars
  BY <1>2 DEF presenceVars, OnlineInv, Online!TypeOK, UserTrue, Mine, SocketTrue, Announced,
              Online!Owner, Online!Gone, Clean
<1> QED
  BY <1>1, <1>2

LEMMA OnlineSound == ASSUME Online!PresenceAssumption, OnlineInv PROVE Online!OfflineTold
<1> SUFFICES ASSUME NEW u \in Users, Online!Settled(u), \A s \in astray : Online!Owner(s) # u
             PROVE  /\ sets[u] = {s \in open : Online!Owner(s) = u}
                    /\ sets[u] = {} => said[u] # "online" /\ u \notin tracked
  BY DEF Online!OfflineTold
<1> USE DEF Online!PresenceAssumption, OnlineInv, Online!TypeOK, Clean, UserTrue, SocketTrue, Mine
<1>1. gateway \in {"user", "load", "tender", "chat"}
  OBVIOUS
<1>2. /\ Len(Online!Connect[gateway]) \in Nat /\ Len(Online!Disconnect[gateway]) \in Nat
      /\ AddsAt[gateway] \in 1..Len(Online!Connect[gateway])
      /\ RemovesAt[gateway] \in 1..Len(Online!Disconnect[gateway])
  BY <1>1, Places
<1>3. ASSUME NEW s \in Mine(u)
      PROVE  /\ s \in sets[u] <=> s \in open
             /\ s \in closed => Online!Gone(s)
  <2>1. s \in Sockets /\ Online!Owner(s) = u /\ u # NoUser /\ SocketTrue(s, u)
    BY <1>3
  <2>2. joined[s] \in 0..Len(Online!Connect[gateway]) /\ left[s] \in 0..Len(Online!Disconnect[gateway])
    BY <2>1
  <2>3. s \in open \cup closed => joined[s] = Len(Online!Connect[gateway])
    BY <1>2, <2>1, <2>2 DEF Online!Settled, Online!Joining
  <2>4. s \in closed => left[s] = Len(Online!Disconnect[gateway])
    BY <1>2, <2>1, <2>2 DEF Online!Settled, Online!Leaving
  <2>5. s \in open => left[s] = 0
    BY <2>1
  <2> HIDE DEF OnlineInv, UserTrue, Mine, Clean, Online!TypeOK
  <2> QED
    BY <1>2, <2>1, <2>3, <2>4, <2>5 DEF Online!Gone
<1>4. sets[u] = {s \in open : Online!Owner(s) = u}
  <2>1. sets[u] \subseteq Mine(u) /\ open \subseteq Sockets
    OBVIOUS
  <2> QED
    BY <1>3, <2>1
<1>5. sets[u] = {} => said[u] # "online" /\ u \notin tracked
  <2>1. Announced(u)
    OBVIOUS
  <2> HIDE DEF OnlineInv, UserTrue, Mine, Clean, Online!TypeOK
  <2> QED
    BY <1>3, <1>4, <2>1 DEF Announced, Mine
<1> QED
  BY <1>4, <1>5

(***************************************************************************)
(* The mailbox (mail-reader.service.ts).                                   *)
(***************************************************************************)
\* The job that runs, what it has read and what it has still to tell: the mails
\* from a first one to the last it has seen.
JobTrue ==
  /\ job.at = "none" => job = Mailbox!NoJob
  /\ job.at \in {"none", "opened"} => hand = {}
  /\ job.at \in {"opened", "fetch", "tell"} => job.of = validity /\ job.next \in 0..uidNext
  /\ job.at = "fetch" =>
       /\ job.last = cursor[validity] /\ job.last # Mailbox!Unset
       /\ job.seen \in job.last..(uidNext - 1)
       /\ hand = (job.last + 1)..job.seen
  /\ job.at = "tell" =>
       /\ job.seen = cursor[validity] /\ job.seen # Mailbox!Unset
       /\ \E first \in Nat : hand = first..job.seen

\* Cursors stay behind the mail that has come, in mailboxes that have been.
CursorTrue ==
  /\ cursor[validity] < uidNext
  /\ \A v \in 0..MaxValidity :
       /\ base[v] = Mailbox!Unset <=> cursor[v] = Mailbox!Unset
       /\ base[v] <= cursor[v]
       /\ v > validity => cursor[v] = Mailbox!Unset

MailboxInv == Mailbox!TypeOK /\ JobTrue /\ CursorTrue /\ Mailbox!Accounted

\* The type of job that runs.
MailJob == [at : {"none", "opened", "fetch", "tell"}, of : 0..MaxValidity,
            last : -1..MaxUid, next : 0..(MaxUid + 1), seen : 0..MaxUid]

LEMMA MailboxInit == ASSUME Mailbox!MailReaderAssumption, Mailbox!Init PROVE MailboxInv
<1> USE DEF Mailbox!MailReaderAssumption, Mailbox!Init, Mailbox!NoJob, Mailbox!Unset
<1>1. Mailbox!TypeOK
  <2>1. job \in MailJob
    BY DEF MailJob
  <2>2. [v \in 0..MaxValidity |-> -1] \in [0..MaxValidity -> -1..MaxUid]
    OBVIOUS
  <2>3. [v \in 0..MaxValidity |-> {}] \in [0..MaxValidity -> SUBSET (1..MaxUid)]
    OBVIOUS
  <2>4. /\ cursor \in [0..MaxValidity -> -1..MaxUid] /\ base \in [0..MaxValidity -> -1..MaxUid]
        /\ told \in [0..MaxValidity -> SUBSET (1..MaxUid)]
        /\ lost \in [0..MaxValidity -> SUBSET (1..MaxUid)]
    BY <2>2, <2>3
  <2>5. /\ validity = 0 /\ uidNext = 1 /\ hand = {} /\ repeat = FALSE /\ booting = TRUE
        /\ mailCrashes = 0
    BY Zenon
  <2> HIDE DEF Mailbox!Init
  <2>6. /\ validity \in 0..MaxValidity /\ uidNext \in 1..(MaxUid + 1) /\ mailCrashes \in 0..MailCrashes
    BY <2>5
  <2>7. hand \subseteq 1..MaxUid /\ repeat \in BOOLEAN /\ booting \in BOOLEAN
    BY <2>5, Zenon
  <2> QED
    BY <2>1, <2>4, <2>6, <2>7, Zenon DEF Mailbox!TypeOK, MailJob
<1>2. JobTrue
  BY DEF JobTrue
<1>3. CursorTrue
  BY DEF CursorTrue
<1>4. Mailbox!Accounted
  <2>1. \A v \in 0..MaxValidity : (base[v] + 1)..cursor[v] = {}
    BY Z3
  <2> QED
    BY <2>1 DEF Mailbox!Accounted, Mailbox!InHand
<1> QED
  BY <1>1, <1>2, <1>3, <1>4 DEF MailboxInv

\* The mailbox and the repeated job change, or the job ends or begins.
LEMMA MailboxQuiet ==
  ASSUME Mailbox!MailReaderAssumption, MailboxInv,
         \/ Mailbox!Arrive \/ Mailbox!Rebuild \/ Mailbox!RemoveRepeat \/ Mailbox!AddRepeat
         \/ Mailbox!Connect \/ Mailbox!Done
  PROVE  MailboxInv'
<1> USE DEF Mailbox!MailReaderAssumption, Mailbox!NoJob, Mailbox!Unset,
            Mailbox!MailboxUnchanged, Mailbox!CursorUnchanged, Mailbox!LedgerUnchanged,
            Mailbox!BootUnchanged, Mailbox!Arrive, Mailbox!Rebuild, Mailbox!RemoveRepeat,
            Mailbox!AddRepeat, Mailbox!Connect, Mailbox!Done
<1>0. Mailbox!TypeOK /\ JobTrue /\ CursorTrue /\ Mailbox!Accounted
  BY DEF MailboxInv
<1>1. Mailbox!TypeOK'
  <2>1. CASE Mailbox!Arrive \/ Mailbox!Rebuild
    <3>1. validity' \in 0..MaxValidity /\ uidNext' \in 1..(MaxUid + 1)
      <4>1. validity \in 0..MaxValidity /\ uidNext \in 1..(MaxUid + 1)
        BY <1>0 DEF Mailbox!TypeOK
      <4>2. CASE Mailbox!Arrive
        <5>1. uidNext <= MaxUid /\ uidNext' = uidNext + 1 /\ validity' = validity
          BY <4>2
        <5> HIDE DEF Mailbox!Arrive, Mailbox!Rebuild, Mailbox!RemoveRepeat, Mailbox!AddRepeat,
                     Mailbox!Connect, Mailbox!Done
        <5> QED
          BY <4>1, <5>1
      <4>3. CASE Mailbox!Rebuild
        <5>1. validity < MaxValidity /\ validity' = validity + 1 /\ uidNext' = 1
          BY <4>3
        <5> HIDE DEF Mailbox!Arrive, Mailbox!Rebuild, Mailbox!RemoveRepeat, Mailbox!AddRepeat,
                     Mailbox!Connect, Mailbox!Done
        <5> QED
          BY <4>1, <5>1
      <4> QED
        BY <2>1, <4>2, <4>3
    <3>2. UNCHANGED <<job, hand, cursor, base, told, lost, repeat, booting, mailCrashes>>
      BY <2>1
    <3> HIDE DEF Mailbox!Arrive, Mailbox!Rebuild, Mailbox!RemoveRepeat, Mailbox!AddRepeat,
                 Mailbox!Connect, Mailbox!Done
    <3> QED
      BY <1>0, <3>1, <3>2 DEF Mailbox!TypeOK
  <2>2. CASE Mailbox!RemoveRepeat \/ Mailbox!AddRepeat
    BY <1>0, <2>2 DEF Mailbox!TypeOK
  <2>3. CASE Mailbox!Connect \/ Mailbox!Done
    <3>1. \/ job' = [at |-> "opened", of |-> validity, last |-> -1, next |-> uidNext, seen |-> 0]
          \/ job' = [at |-> "none", of |-> 0, last |-> -1, next |-> 0, seen |-> 0]
      BY <2>3
    <3>2. UNCHANGED <<validity, uidNext, hand, cursor, base, told, lost, repeat, booting,
                      mailCrashes>>
      BY <2>3
    <3>3. validity \in 0..MaxValidity /\ uidNext \in 1..(MaxUid + 1)
      BY <1>0 DEF Mailbox!TypeOK
    <3>4. job' \in MailJob
      BY <3>1, <3>3 DEF MailJob
    <3> QED
      BY <1>0, <3>2, <3>4 DEF Mailbox!TypeOK, MailJob
  <2> QED
    BY <2>1, <2>2, <2>3
<1>2. JobTrue'
  <2>1. CASE Mailbox!Arrive
    <3>1. uidNext' = uidNext + 1 /\ UNCHANGED <<validity, job, hand, cursor, base, told>>
      BY <2>1
    <3>2. uidNext \in Nat /\ job.next \in Nat /\ job.seen \in Int /\ job.last \in Int
      BY <1>0 DEF Mailbox!TypeOK
    <3> HIDE DEF Mailbox!Arrive, Mailbox!Rebuild, Mailbox!RemoveRepeat, Mailbox!AddRepeat,
                 Mailbox!Connect, Mailbox!Done
    <3> QED
      BY <1>0, <3>1, <3>2 DEF JobTrue
  <2>2. CASE Mailbox!Connect
    <3>1. job' = [at |-> "opened", of |-> validity, last |-> -1, next |-> uidNext, seen |-> 0]
      BY <2>2
    <3> QED
      BY <1>0, <2>2, <3>1 DEF Mailbox!TypeOK, JobTrue
  <2>3. CASE Mailbox!Done
    BY <1>0, <2>3 DEF JobTrue
  <2>4. CASE Mailbox!Rebuild
    BY <1>0, <2>4 DEF JobTrue
  <2> QED
    BY <1>0, <2>1, <2>2, <2>3, <2>4 DEF JobTrue
<1>3. CursorTrue'
  <2>1. validity' >= validity /\ (validity' = validity => uidNext' >= uidNext)
        /\ (validity' # validity => uidNext' = 1 /\ validity' = validity + 1 /\ validity' <= MaxValidity)
        /\ cursor' = cursor /\ base' = base
    BY <1>0 DEF Mailbox!TypeOK
  <2>2. cursor[validity'] < uidNext'
    <3>1. cursor[validity] < uidNext /\ cursor[validity] \in -1..MaxUid /\ validity \in 0..MaxValidity
          /\ uidNext \in 1..(MaxUid + 1)
      BY <1>0 DEF Mailbox!TypeOK, CursorTrue
    <3>2. ASSUME validity' # validity
          PROVE  cursor[validity'] = -1
      BY <1>0, <2>1, <3>1, <3>2 DEF CursorTrue
    <3>3. uidNext' \in Int
      BY <1>1 DEF Mailbox!TypeOK
    <3> HIDE DEF Mailbox!Arrive, Mailbox!Rebuild, Mailbox!RemoveRepeat, Mailbox!AddRepeat,
                 Mailbox!Connect, Mailbox!Done
    <3> QED
      BY <2>1, <3>1, <3>2, <3>3
  <2>3. \A v \in 0..MaxValidity : v > validity' => v > validity
    <3>1. validity \in Nat /\ (validity' = validity \/ validity' = validity + 1)
      BY <1>0, <2>1 DEF Mailbox!TypeOK
    <3> HIDE DEF Mailbox!Arrive, Mailbox!Rebuild, Mailbox!RemoveRepeat, Mailbox!AddRepeat,
                 Mailbox!Connect, Mailbox!Done
    <3> QED
      BY <3>1
  <2> HIDE DEF Mailbox!Arrive, Mailbox!Rebuild, Mailbox!RemoveRepeat, Mailbox!AddRepeat,
               Mailbox!Connect, Mailbox!Done
  <2> QED
    BY <1>0, <2>1, <2>2, <2>3 DEF CursorTrue
<1>4. Mailbox!Accounted'
  <2>1. job'.at # "tell" \/ (job' = job /\ hand' = hand)
    <3>1. CASE Mailbox!Connect
      <4>1. job' = [at |-> "opened", of |-> validity, last |-> -1, next |-> uidNext, seen |-> 0]
        BY <3>1
      <4> QED
        BY <4>1
    <3>2. CASE Mailbox!Done
      <4>1. job' = [at |-> "none", of |-> 0, last |-> -1, next |-> 0, seen |-> 0]
        BY <3>2
      <4> QED
        BY <4>1
    <3>3. CASE UNCHANGED <<job, hand>>
      BY <3>3
    <3> QED
      BY <3>1, <3>2, <3>3
  <2>2. job.at # "tell" \/ hand = {} \/ (job' = job /\ hand' = hand)
    BY <1>0 DEF JobTrue
  <2>3. \A v \in 0..MaxValidity : Mailbox!InHand(v)' = Mailbox!InHand(v)
    BY <2>1, <2>2 DEF Mailbox!InHand
  <2>4. UNCHANGED <<told, lost, base, cursor>>
    OBVIOUS
  <2> QED
    BY <1>0, <2>3, <2>4 DEF Mailbox!Accounted
<1> QED
  BY <1>1, <1>2, <1>3, <1>4 DEF MailboxInv

LEMMA MailboxReadsCursor ==
  ASSUME Mailbox!MailReaderAssumption, MailboxInv, Mailbox!ReadCursor
  PROVE  MailboxInv'
<1> USE DEF Mailbox!MailReaderAssumption, Mailbox!NoJob, Mailbox!Unset,
            Mailbox!MailboxUnchanged, Mailbox!CursorUnchanged, Mailbox!LedgerUnchanged,
            Mailbox!BootUnchanged
<1>0. Mailbox!TypeOK /\ JobTrue /\ CursorTrue /\ Mailbox!Accounted
  BY DEF MailboxInv
<1>1. /\ job.at = "opened" /\ hand = {} /\ job.of = validity /\ job.next \in 0..uidNext
      /\ UNCHANGED <<validity, uidNext, hand, told, lost, repeat, booting, mailCrashes>>
  BY <1>0 DEF Mailbox!ReadCursor, JobTrue
<1>2. CASE cursor[validity] = -1
  <2>1. /\ cursor' = [cursor EXCEPT ![validity] = job.next - 1]
        /\ base' = [base EXCEPT ![validity] = job.next - 1]
        /\ job' = Mailbox!NoJob
    BY <1>1, <1>2 DEF Mailbox!ReadCursor
  <2>2. Mailbox!NoJob \in MailJob
    BY DEF MailJob
  <2> HIDE DEF Mailbox!NoJob
  <2>t. Mailbox!TypeOK'
    <3>1. /\ cursor' \in [0..MaxValidity -> -1..MaxUid] /\ base' \in [0..MaxValidity -> -1..MaxUid]
      <4>1. job.next - 1 \in -1..MaxUid
        <5>1. uidNext \in 1..(MaxUid + 1) /\ MaxUid \in Nat
          BY <1>0 DEF Mailbox!TypeOK
        <5>2. job.next \in 0..uidNext
          BY <1>1
        <5> HIDE DEF Mailbox!MailReaderAssumption, Mailbox!NoJob
        <5> QED
          BY <5>1, <5>2
      <4>2. cursor \in [0..MaxValidity -> -1..MaxUid] /\ base \in [0..MaxValidity -> -1..MaxUid]
        BY <1>0 DEF Mailbox!TypeOK
      <4> QED
        BY <2>1, <4>1, <4>2
    <3>2. job' \in MailJob
      BY <2>1, <2>2
    <3> QED
      BY <1>0, <1>1, <3>1, <3>2 DEF Mailbox!TypeOK, MailJob
  <2>j. JobTrue'
    BY <1>1, <2>1, <2>2 DEF JobTrue, Mailbox!NoJob
  <2>c. CursorTrue'
    BY <1>0, <1>1, <1>2, <2>1, <2>2 DEF Mailbox!TypeOK, JobTrue, CursorTrue
  <2>a. Mailbox!Accounted'
    <3>1. \A v \in 0..MaxValidity : Mailbox!InHand(v) = {} /\ Mailbox!InHand(v)' = {}
      BY <1>1, <2>1 DEF Mailbox!InHand, Mailbox!NoJob
    <3>2. ASSUME NEW v \in 0..MaxValidity
          PROVE  (base'[v] + 1)..cursor'[v] = (base[v] + 1)..cursor[v]
      <4>1. CASE v = validity
        <5>1. PICK x \in Int : x = job.next - 1
          BY <1>1
        <5>2. base'[v] = x /\ cursor'[v] = x /\ base[v] = -1 /\ cursor[v] = -1
          BY <1>0, <1>2, <2>1, <4>1, <5>1 DEF Mailbox!TypeOK, CursorTrue
        <5>3. (x + 1)..x = {} /\ (-1 + 1)..(-1) = {}
          OBVIOUS
        <5> QED
          BY <5>2, <5>3
      <4>2. CASE v # validity
        BY <1>0, <2>1, <4>2 DEF Mailbox!TypeOK
      <4> QED
        BY <4>1, <4>2
    <3> QED
      BY <1>0, <1>1, <3>1, <3>2 DEF Mailbox!Accounted
  <2> QED
    BY <2>t, <2>j, <2>c, <2>a DEF MailboxInv
<1>3. CASE cursor[validity] # -1
  <2>1. /\ cursor' = cursor /\ base' = base
        /\ \/ job' = Mailbox!NoJob
           \/ /\ job.next - 1 > cursor[validity]
              /\ job' = [job EXCEPT !.at = "fetch", !.last = cursor[validity], !.seen = cursor[validity]]
    BY <1>0, <1>1, <1>3 DEF Mailbox!ReadCursor, Mailbox!TypeOK
  <2>2. Mailbox!NoJob \in MailJob
    BY DEF MailJob
  <2> HIDE DEF Mailbox!NoJob
  <2>3. cursor[validity] \in 0..MaxUid
    BY <1>0, <1>3 DEF Mailbox!TypeOK
  <2>4. job' \in MailJob
    BY <1>0, <2>1, <2>2, <2>3 DEF Mailbox!TypeOK, MailJob
  <2>t. Mailbox!TypeOK'
    BY <1>0, <1>1, <2>1, <2>4 DEF Mailbox!TypeOK, MailJob
  <2>j. JobTrue'
    <3>1. CASE job' = Mailbox!NoJob
      BY <1>1, <3>1 DEF JobTrue, Mailbox!NoJob
    <3>2. CASE job' # Mailbox!NoJob
      <4>1. /\ job'.at = "fetch" /\ job'.of = validity /\ job'.next = job.next
            /\ job'.last = cursor[validity] /\ job'.seen = cursor[validity]
        BY <1>0, <1>1, <2>1, <3>2 DEF Mailbox!TypeOK
      <4>2. (job'.last + 1)..job'.seen = {}
        BY <2>3, <4>1
      <4> QED
        BY <1>0, <1>1, <2>1, <2>3, <4>1, <4>2 DEF JobTrue, CursorTrue, Mailbox!TypeOK
    <3> QED
      BY <3>1, <3>2
  <2>c. CursorTrue'
    BY <1>0, <1>1, <1>3, <2>1, <2>3, <2>4 DEF Mailbox!TypeOK, JobTrue, CursorTrue
  <2>a. Mailbox!Accounted'
    <3>1. job'.at \in {"none", "fetch"}
      <4>1. CASE job' = Mailbox!NoJob
        BY <4>1 DEF Mailbox!NoJob
      <4>2. CASE job' = [job EXCEPT !.at = "fetch", !.last = cursor[validity],
                                    !.seen = cursor[validity]]
        BY <1>0, <4>2 DEF Mailbox!TypeOK
      <4> QED
        BY <2>1, <4>1, <4>2
    <3>2. \A v \in 0..MaxValidity : Mailbox!InHand(v) = {} /\ Mailbox!InHand(v)' = {}
      BY <1>1, <3>1 DEF Mailbox!InHand
    <3> QED
      BY <1>0, <1>1, <2>1, <3>2 DEF Mailbox!Accounted
  <2> QED
    BY <2>t, <2>j, <2>c, <2>a DEF MailboxInv
<1> QED
  BY <1>2, <1>3

LEMMA MailboxFetches ==
  ASSUME Mailbox!MailReaderAssumption, MailboxInv, Mailbox!Fetch
  PROVE  MailboxInv'
<1> USE DEF Mailbox!MailReaderAssumption, Mailbox!NoJob, Mailbox!Unset,
            Mailbox!MailboxUnchanged, Mailbox!CursorUnchanged, Mailbox!LedgerUnchanged,
            Mailbox!BootUnchanged
<1>0. Mailbox!TypeOK /\ JobTrue /\ CursorTrue /\ Mailbox!Accounted
  BY DEF MailboxInv
<1>1. /\ job.at = "fetch" /\ job.seen < uidNext - 1
      /\ UNCHANGED <<validity, uidNext, cursor, base, told, lost, repeat, booting, mailCrashes>>
  BY DEF Mailbox!Fetch
<1>2. \A v \in 0..MaxValidity : Mailbox!InHand(v) = {}
  BY <1>1 DEF Mailbox!InHand
<1>3. CASE job' = [job EXCEPT !.seen = @ + 1] /\ hand' = hand \cup {job.seen + 1}
  <2>1. /\ job'.at = "fetch" /\ job'.of = job.of /\ job'.last = job.last /\ job'.next = job.next
        /\ job'.seen = job.seen + 1 /\ job' \in MailJob
    <3>1. job \in MailJob /\ job.seen + 1 \in 0..MaxUid
      BY <1>0, <1>1 DEF Mailbox!TypeOK, MailJob
    <3>2. job' \in MailJob
      BY <1>3, <3>1 DEF MailJob
    <3>3. /\ job'.at = job.at /\ job'.of = job.of /\ job'.last = job.last /\ job'.next = job.next
          /\ job'.seen = job.seen + 1
      BY <1>3, <3>1 DEF MailJob
    <3> QED
      BY <1>1, <3>2, <3>3, Zenon
  <2>2. hand' = (job.last + 1)..(job.seen + 1) /\ hand' \subseteq 1..MaxUid
    BY <1>0, <1>1, <1>3 DEF Mailbox!TypeOK, JobTrue
  <2>t. Mailbox!TypeOK'
    BY <1>0, <1>1, <2>1, <2>2 DEF Mailbox!TypeOK, MailJob
  <2>j. JobTrue'
    <3>1. job'.last \in 0..MaxUid /\ job'.seen \in job'.last..(uidNext' - 1)
      <4>1. job.last = cursor[validity] /\ job.last # Mailbox!Unset
        BY <1>0, <1>1 DEF JobTrue
      <4>2. cursor[validity] \in Mailbox!Unset..MaxUid
        BY <1>0 DEF Mailbox!TypeOK
      <4>3. job.last \in 0..MaxUid
        BY <4>1, <4>2
      <4>4. job.seen \in job.last..(uidNext - 1) /\ uidNext \in Nat
        BY <1>0, <1>1 DEF Mailbox!TypeOK, JobTrue
      <4> QED
        BY <1>1, <2>1, <4>3, <4>4
    <3>2. job'.of = validity' /\ job'.next \in 0..uidNext' /\ job'.last = cursor'[validity']
      BY <1>0, <1>1, <2>1 DEF JobTrue
    <3>3. hand' = (job'.last + 1)..job'.seen
      BY <2>1, <2>2
    <3> QED
      BY <2>1, <3>1, <3>2, <3>3 DEF JobTrue
  <2>c. CursorTrue'
    BY <1>0, <1>1, <2>1, <2>2 DEF Mailbox!TypeOK, JobTrue, CursorTrue
  <2>a. Mailbox!Accounted'
    <3>1. \A v \in 0..MaxValidity : Mailbox!InHand(v)' = {}
      BY <2>1 DEF Mailbox!InHand
    <3> QED
      BY <1>0, <1>1, <1>2, <3>1 DEF Mailbox!Accounted
  <2> QED
    BY <2>t, <2>j, <2>c, <2>a DEF MailboxInv
<1>4. CASE job' = Mailbox!NoJob /\ hand' = {}
  <2>1. job'.at = "none" /\ job' \in MailJob
    BY <1>0, <1>4 DEF MailJob, Mailbox!TypeOK
  <2>t. Mailbox!TypeOK'
    BY <1>0, <1>1, <1>4, <2>1 DEF Mailbox!TypeOK, MailJob
  <2>j. JobTrue'
    BY <1>0, <1>1, <1>4, <2>1 DEF Mailbox!TypeOK, JobTrue, CursorTrue
  <2>c. CursorTrue'
    BY <1>0, <1>1, <1>4, <2>1 DEF Mailbox!TypeOK, JobTrue, CursorTrue
  <2>a. Mailbox!Accounted'
    <3>1. \A v \in 0..MaxValidity : Mailbox!InHand(v)' = {}
      BY <2>1 DEF Mailbox!InHand
    <3> QED
      BY <1>0, <1>1, <1>2, <3>1 DEF Mailbox!Accounted
  <2> QED
    BY <2>t, <2>j, <2>c, <2>a DEF MailboxInv
<1> QED
  BY <1>3, <1>4 DEF Mailbox!Fetch

\* What was read is past the cursor and past all that was told.
LEMMA MailboxMoves ==
  ASSUME Mailbox!MailReaderAssumption, MailboxInv, Mailbox!MoveCursor
  PROVE  MailboxInv'
<1> USE DEF Mailbox!MailReaderAssumption, Mailbox!NoJob, Mailbox!Unset,
            Mailbox!MailboxUnchanged, Mailbox!CursorUnchanged, Mailbox!LedgerUnchanged,
            Mailbox!BootUnchanged
<1>0. Mailbox!TypeOK /\ JobTrue /\ CursorTrue /\ Mailbox!Accounted
  BY DEF MailboxInv
<1>1. /\ job.at = "fetch" /\ job.of = validity
      /\ cursor' = [cursor EXCEPT ![validity] = job.seen]
      /\ job' = [job EXCEPT !.at = "tell"]
      /\ UNCHANGED <<validity, uidNext, base, hand, told, lost, repeat, booting, mailCrashes>>
  BY <1>0 DEF Mailbox!MoveCursor, JobTrue
<1>2. /\ job'.at = "tell" /\ job'.of = validity /\ job'.next = job.next /\ job'.seen = job.seen
      /\ job' \in MailJob
  BY <1>0, <1>1 DEF Mailbox!TypeOK, MailJob
<1>3. /\ job.last = cursor[validity] /\ job.last \in 0..MaxUid
      /\ job.seen \in job.last..(uidNext - 1) /\ job.seen \in 0..MaxUid
      /\ hand = (job.last + 1)..job.seen
  BY <1>0, <1>1 DEF Mailbox!TypeOK, JobTrue
<1>t. Mailbox!TypeOK'
  <2>1. cursor' \in [0..MaxValidity -> -1..MaxUid]
    BY <1>0, <1>1, <1>3 DEF Mailbox!TypeOK
  <2>2. UNCHANGED <<validity, uidNext, base, hand, told, lost, repeat, booting, mailCrashes>>
    BY <1>1
  <2> QED
    BY <1>0, <1>2, <2>1, <2>2 DEF Mailbox!TypeOK, MailJob
<1>j. JobTrue'
  <2>1. cursor'[validity'] = job'.seen /\ job'.seen # -1 /\ validity' = validity
    BY <1>0, <1>1, <1>2, <1>3 DEF Mailbox!TypeOK
  <2>2. job'.next \in 0..uidNext'
    BY <1>0, <1>1, <1>2 DEF JobTrue
  <2>3. job.last + 1 \in Nat /\ hand' = (job.last + 1)..job'.seen
    BY <1>1, <1>2, <1>3
  <2> QED
    BY <1>2, <2>1, <2>2, <2>3 DEF JobTrue
<1>c. CursorTrue'
  BY <1>0, <1>1, <1>2, <1>3 DEF Mailbox!TypeOK, JobTrue, CursorTrue
<1>a. Mailbox!Accounted'
  <2>1. ASSUME NEW v \in 0..MaxValidity, v # validity
        PROVE  Mailbox!InHand(v) = {} /\ Mailbox!InHand(v)' = {} /\ cursor'[v] = cursor[v]
    BY <1>0, <1>1, <1>2, <2>1 DEF Mailbox!InHand, Mailbox!TypeOK
  <2>2. /\ Mailbox!InHand(validity) = {} /\ Mailbox!InHand(validity)' = hand
        /\ cursor'[validity] = job.seen /\ validity \in 0..MaxValidity
    BY <1>0, <1>1, <1>2 DEF Mailbox!InHand, Mailbox!TypeOK
  <2>3. told[validity] \cup lost[validity] = (base[validity] + 1)..job.last
        /\ base[validity] \in -1..MaxUid /\ base[validity] <= job.last
    <3>1. base[validity] \in Mailbox!Unset..MaxUid
      BY <1>0, <2>2 DEF Mailbox!TypeOK
    <3>2. base[validity] <= cursor[validity]
      BY <1>0, <2>2 DEF CursorTrue
    <3>3. told[validity] \cup lost[validity] \cup Mailbox!InHand(validity)
            = (base[validity] + 1)..cursor[validity]
      BY <1>0, <2>2 DEF Mailbox!Accounted
    <3>4. cursor[validity] = job.last
      BY <1>3
    <3> QED
      BY <2>2, <3>1, <3>2, <3>3, <3>4
  <2>4. /\ told[validity] \cup lost[validity] \cup hand = (base[validity] + 1)..job.seen
        /\ told[validity] \cap hand = {} /\ lost[validity] \cap hand = {}
    <3>1. ((base[validity] + 1)..job.last) \cup ((job.last + 1)..job.seen)
            = (base[validity] + 1)..job.seen
      BY <1>3, <2>3
    <3>2. ((base[validity] + 1)..job.last) \cap ((job.last + 1)..job.seen) = {}
      BY <1>3, <2>3
    <3> QED
      BY <1>3, <2>3, <3>1, <3>2, Zenon
  <2>5. told[validity] \cap lost[validity] = {}
    BY <1>0, <2>2 DEF Mailbox!Accounted
  <2>6. ASSUME NEW v \in 0..MaxValidity
        PROVE  /\ told[v] \cup lost[v] \cup Mailbox!InHand(v)' = (base[v] + 1)..cursor'[v]
               /\ told[v] \cap Mailbox!InHand(v)' = {} /\ lost[v] \cap Mailbox!InHand(v)' = {}
               /\ told[v] \cap lost[v] = {}
    <3>1. CASE v = validity
      <4>1. Mailbox!InHand(v)' = hand
        BY <1>1, <1>2, <3>1 DEF Mailbox!InHand
      <4>2. cursor'[v] = job.seen
        BY <2>2, <3>1, Zenon
      <4> QED
        BY <2>4, <2>5, <3>1, <4>1, <4>2, Zenon
    <3>2. CASE v # validity
      BY <1>0, <2>1, <3>2 DEF Mailbox!Accounted
    <3> QED
      BY <3>1, <3>2
  <2> QED
    BY <1>1, <2>6 DEF Mailbox!Accounted
<1> QED
  BY <1>t, <1>j, <1>c, <1>a DEF MailboxInv

\* The oldest mail in hand is the first of them.
LEMMA MailboxTells ==
  ASSUME Mailbox!MailReaderAssumption, MailboxInv, Mailbox!Tell
  PROVE  MailboxInv'
<1> USE DEF Mailbox!MailReaderAssumption, Mailbox!NoJob, Mailbox!Unset,
            Mailbox!MailboxUnchanged, Mailbox!CursorUnchanged, Mailbox!LedgerUnchanged,
            Mailbox!BootUnchanged
<1>0. Mailbox!TypeOK /\ JobTrue /\ CursorTrue /\ Mailbox!Accounted
  BY DEF MailboxInv
<1>1. /\ job.at = "tell" /\ hand # {} /\ job.of = validity /\ validity \in 0..MaxValidity
      /\ UNCHANGED <<validity, uidNext, cursor, base, job, repeat, booting, mailCrashes>>
  BY <1>0 DEF Mailbox!Tell, JobTrue, Mailbox!TypeOK
<1>2. PICK first \in Nat : hand = first..job.seen
  BY <1>0, <1>1 DEF JobTrue
<1>3. job.seen \in Nat /\ first \in hand /\ \A uid \in hand : first <= uid
  BY <1>0, <1>1, <1>2 DEF Mailbox!TypeOK
<1>4. Mailbox!Min(hand) = first
  <2> HIDE DEF Mailbox!NoJob
  <2>1. \A x \in hand : x \in Nat
    BY <1>2, <1>3
  <2>2. \A x \in hand : (\A y \in hand : x <= y) => x = first
    BY <1>3, <2>1
  <2> QED
    BY <1>3, <2>2, Zenon DEF Mailbox!Min
<1>5. /\ hand' = hand \ {first}
      /\ \/ told' = [told EXCEPT ![validity] = @ \cup {first}] /\ UNCHANGED lost
         \/ lost' = [lost EXCEPT ![validity] = @ \cup {first}] /\ UNCHANGED told
  BY <1>1, <1>4 DEF Mailbox!Tell
<1>6. hand' = (first + 1)..job.seen /\ first \in 1..MaxUid
  <2>1. first \in 1..MaxUid
    BY <1>0, <1>3 DEF Mailbox!TypeOK
  <2>2. hand \ {first} = (first + 1)..job.seen
    BY <1>2, <1>3
  <2> QED
    BY <1>5, <2>1, <2>2
<1>t. Mailbox!TypeOK'
  <2>1. /\ told' \in [0..MaxValidity -> SUBSET (1..MaxUid)]
        /\ lost' \in [0..MaxValidity -> SUBSET (1..MaxUid)]
    <3>1. /\ told \in [0..MaxValidity -> SUBSET (1..MaxUid)]
          /\ lost \in [0..MaxValidity -> SUBSET (1..MaxUid)]
      BY <1>0 DEF Mailbox!TypeOK
    <3>2. /\ told[validity] \cup {first} \in SUBSET (1..MaxUid)
          /\ lost[validity] \cup {first} \in SUBSET (1..MaxUid)
      BY <1>1, <1>6, <3>1
    <3> QED
      BY <1>5, <3>1, <3>2
  <2>2. hand' \subseteq 1..MaxUid
    BY <1>0, <1>5 DEF Mailbox!TypeOK
  <2> QED
    BY <1>0, <1>1, <2>1, <2>2 DEF Mailbox!TypeOK
<1>j. JobTrue'
  <2>1. first + 1 \in Nat /\ hand' = (first + 1)..job'.seen
    BY <1>1, <1>6
  <2>2. job'.at = "tell" /\ job'.of = validity' /\ job'.next \in 0..uidNext'
        /\ job'.seen = cursor'[validity'] /\ job'.seen # -1
    BY <1>0, <1>1 DEF JobTrue
  <2> QED
    BY <2>1, <2>2 DEF JobTrue
<1>c. CursorTrue'
  BY <1>0, <1>1, <1>5, <1>6 DEF Mailbox!TypeOK, JobTrue, CursorTrue
<1>a. Mailbox!Accounted'
  <2>1. ASSUME NEW v \in 0..MaxValidity, v # validity
        PROVE  Mailbox!InHand(v) = {} /\ Mailbox!InHand(v)' = {} /\ told'[v] = told[v] /\ lost'[v] = lost[v]
    BY <1>0, <1>1, <1>5, <2>1 DEF Mailbox!InHand, Mailbox!TypeOK
  <2>2. /\ Mailbox!InHand(validity) = hand /\ Mailbox!InHand(validity)' = hand'
        /\ \/ told'[validity] = told[validity] \cup {first} /\ lost'[validity] = lost[validity]
           \/ lost'[validity] = lost[validity] \cup {first} /\ told'[validity] = told[validity]
    BY <1>0, <1>1, <1>5 DEF Mailbox!InHand, Mailbox!TypeOK
  <2>3. /\ told[validity] \cup lost[validity] \cup hand = (base[validity] + 1)..cursor[validity]
        /\ told[validity] \cap hand = {} /\ lost[validity] \cap hand = {}
        /\ told[validity] \cap lost[validity] = {}
    BY <1>0, <1>1, <2>2 DEF Mailbox!Accounted
  <2>4. ASSUME NEW v \in 0..MaxValidity
        PROVE  /\ told'[v] \cup lost'[v] \cup Mailbox!InHand(v)' = (base[v] + 1)..cursor[v]
               /\ told'[v] \cap Mailbox!InHand(v)' = {} /\ lost'[v] \cap Mailbox!InHand(v)' = {}
               /\ told'[v] \cap lost'[v] = {}
    <3>1. CASE v = validity
      <4>1. Mailbox!InHand(v)' = hand \ {first} /\ first \in hand
        BY <1>1, <1>3, <1>5, <3>1 DEF Mailbox!InHand
      <4>2. /\ told[v] \cup lost[v] \cup hand = (base[v] + 1)..cursor[v]
            /\ told[v] \cap hand = {} /\ lost[v] \cap hand = {} /\ told[v] \cap lost[v] = {}
            /\ \/ told'[v] = told[v] \cup {first} /\ lost'[v] = lost[v]
               \/ lost'[v] = lost[v] \cup {first} /\ told'[v] = told[v]
        BY <2>2, <2>3, <3>1, Zenon
      <4> QED
        BY <4>1, <4>2
    <3>2. CASE v # validity
      BY <1>0, <2>1, <3>2 DEF Mailbox!Accounted
    <3> QED
      BY <3>1, <3>2
  <2> QED
    BY <1>1, <2>4 DEF Mailbox!Accounted
<1> QED
  BY <1>t, <1>j, <1>c, <1>a DEF MailboxInv

LEMMA MailboxCrashes ==
  ASSUME Mailbox!MailReaderAssumption, MailboxInv, Mailbox!Crash
  PROVE  MailboxInv'
<1> USE DEF Mailbox!MailReaderAssumption, Mailbox!NoJob, Mailbox!Unset,
            Mailbox!MailboxUnchanged, Mailbox!CursorUnchanged, Mailbox!LedgerUnchanged,
            Mailbox!BootUnchanged
<1>0. Mailbox!TypeOK /\ JobTrue /\ CursorTrue /\ Mailbox!Accounted
  BY DEF MailboxInv
<1>1. /\ job' = Mailbox!NoJob /\ hand' = {} /\ job'.at = "none" /\ job' \in MailJob
      /\ lost' = IF job.at = "tell" THEN [lost EXCEPT ![job.of] = @ \cup hand] ELSE lost
      /\ mailCrashes' = mailCrashes + 1 /\ mailCrashes < MailCrashes /\ booting' = TRUE
      /\ UNCHANGED <<validity, uidNext, cursor, base, told, repeat>>
  BY <1>0 DEF Mailbox!Crash, MailJob, Mailbox!TypeOK
<1>t. Mailbox!TypeOK'
  <2>1. lost' \in [0..MaxValidity -> SUBSET (1..MaxUid)]
    BY <1>0, <1>1 DEF Mailbox!TypeOK
  <2>2. mailCrashes' \in 0..MailCrashes
    BY <1>0, <1>1 DEF Mailbox!TypeOK
  <2> QED
    BY <1>0, <1>1, <2>1, <2>2 DEF Mailbox!TypeOK, MailJob
<1>j. JobTrue'
  BY <1>1 DEF JobTrue
<1>c. CursorTrue'
  BY <1>0, <1>1 DEF Mailbox!TypeOK, JobTrue, CursorTrue
<1>a. Mailbox!Accounted'
  <2>1. \A v \in 0..MaxValidity : /\ Mailbox!InHand(v)' = {}
                                  /\ lost'[v] = lost[v] \cup Mailbox!InHand(v)
    BY <1>0, <1>1 DEF Mailbox!InHand, Mailbox!TypeOK
  <2> QED
    BY <1>0, <1>1, <2>1 DEF Mailbox!Accounted
<1> QED
  BY <1>t, <1>j, <1>c, <1>a DEF MailboxInv

LEMMA MailboxNext ==
  ASSUME Mailbox!MailReaderAssumption, MailboxInv, Mailbox!Next \/ UNCHANGED mailVars
  PROVE  MailboxInv'
<1>1. CASE Mailbox!Next
  BY <1>1, MailboxQuiet, MailboxReadsCursor, MailboxFetches, MailboxMoves,
     MailboxTells, MailboxCrashes DEF Mailbox!Next
<1>2. CASE UNCHANGED mailVars
  BY <1>2 DEF mailVars, MailboxInv, Mailbox!TypeOK, JobTrue, CursorTrue, Mailbox!Accounted,
              Mailbox!InHand
<1> QED
  BY <1>1, <1>2

(***************************************************************************)
(* The attachments of a campaign (mailing.service.ts, mailing.processor.ts, *)
(* file-cleanup.service.ts).                                               *)
(***************************************************************************)
Begun == {"reset", "select", "add", "done"}

CampaignTypes ==
  /\ attached \in [FileNames -> Starts \cup {Nobody}]
  /\ queued \in [Addresses -> Starts \cup {Nobody}]
  /\ start \in [Starts -> [at : {"new", "save"} \cup Begun, files : SUBSET FileNames,
                           rows : SUBSET Addresses]]
  /\ worker \in [at : {"idle", "read", "send"}, row : Addresses \cup {Nobody},
                 names : SUBSET FileNames, read : SUBSET (FileNames \X Starts)]
  /\ saves \in Seq(Starts)
  /\ past \in [taken : BOOLEAN, changed : BOOLEAN]

\* A start brings its files once, before it goes on to the rows and the queue, and so
\* before any job carries its text.
SavesTrue ==
  /\ \A i \in 1..Len(saves) : start[saves[i]].at \in Begun
  /\ \A i, j \in 1..Len(saves) : saves[i] = saves[j] => i = j
QueuedTrue == \A r \in Addresses : queued[r] # Nobody => start[queued[r]].at = "done"

\* The files of start g were brought when, or after, those of start t were.
Since(g, t) == \E i \in 1..Len(saves) : /\ saves[i] = g
                                        /\ \A j \in 1..Len(saves) : saves[j] = t => j <= i

\* The directory holds what the last start brought, or nothing.
DirectoryTrue ==
  \A n \in FileNames :
    attached[n] = IF /\ ~past.taken /\ Len(saves) # 0
                     /\ n \in start[saves[Len(saves)]].files
                  THEN saves[Len(saves)] ELSE Nobody

\* What the worker has read and is going to read.
WorkerTrue ==
  /\ worker.at # "send" => worker.read = {}
  /\ worker.at # "idle" => worker.row \in Addresses /\ queued[worker.row] # Nobody
  /\ \A f \in worker.read : Since(f[2], queued[worker.row])
  /\ worker.at = "send" /\ ~past.taken /\ ~past.changed =>
       /\ Len(saves) = 0 => worker.names = {} /\ worker.read = {}
       /\ Len(saves) # 0 =>
            \A n \in FileNames, g \in Starts :
              (n \in worker.names /\ g = saves[Len(saves)]) \/ <<n, g>> \in worker.read
                <=> n \in start[saves[Len(saves)]].files /\ g = saves[Len(saves)]

\* What a mail m that was sent carries.
CarriesTrue(m) ==
  /\ m.text \in Starts /\ start[m.text].at = "done"
  /\ m.saves \in 0..Len(saves) /\ m.files \subseteq FileNames \X Starts
  /\ \A f \in m.files : Since(f[2], m.text)
  /\ \/ m.past.taken \/ m.past.changed
     \/ m.saves = 0 /\ m.files = {}
     \/ m.saves # 0 /\ m.files = start[saves[m.saves]].files \X {saves[m.saves]}

CampaignInv ==
  /\ CampaignTypes /\ SavesTrue /\ QueuedTrue /\ DirectoryTrue /\ WorkerTrue
  /\ \A r \in DOMAIN mail : CarriesTrue(mail[r])

LEMMA CampaignInit == ASSUME Campaign!AttachmentsAssumption, Campaign!Init PROVE CampaignInv
<1> USE DEF Campaign!Init
<1>1. CampaignTypes
  BY DEF CampaignTypes, Begun, Campaign!Form, Campaign!Idle
<1>2. SavesTrue /\ QueuedTrue /\ DirectoryTrue
  BY DEF SavesTrue, QueuedTrue, DirectoryTrue
<1>3. WorkerTrue
  BY DEF WorkerTrue, Campaign!Idle
<1>4. DOMAIN mail = {}
  OBVIOUS
<1> QED
  BY <1>1, <1>2, <1>3, <1>4 DEF CampaignInv

\* A start goes on: it keeps its files once it has brought them.
GoesOn(g) ==
  /\ start'[g] \in [at : {"new", "save"} \cup Begun, files : SUBSET FileNames,
                    rows : SUBSET Addresses]
  /\ start[g].at \in Begun => start'[g].files = start[g].files /\ start'[g].at \in Begun
  /\ start[g].at = "done" => start'[g].at = "done"

\* A start goes on to its next command, and its files are what they were.
LEMMA StartGoes ==
  ASSUME CampaignTypes, NEW g \in Starts, NEW place \in Begun, start[g].at # "done",
         start' = [start EXCEPT ![g].at = place]
  PROVE  /\ start' \in [Starts -> [at : {"new", "save"} \cup Begun, files : SUBSET FileNames,
                                   rows : SUBSET Addresses]]
         /\ \A h \in Starts : GoesOn(h) /\ start'[h].files = start[h].files
<1> DEFINE moved == [start[g] EXCEPT !.at = place]
           StartRow == [at : {"new", "save"} \cup Begun, files : SUBSET FileNames,
                        rows : SUBSET Addresses]
<1>1. start \in [Starts -> StartRow]
  BY DEF CampaignTypes
<1>2. start[g] \in StartRow
  BY <1>1
<1>3. moved \in StartRow /\ moved.at = place /\ moved.files = start[g].files
  BY <1>2
<1>4. start' = [start EXCEPT ![g] = moved]
  BY <1>1
<1> HIDE DEF moved, StartRow
<1>5. start' \in [Starts -> StartRow]
  BY <1>1, <1>3, <1>4
<1>6. ASSUME NEW h \in Starts PROVE GoesOn(h) /\ start'[h].files = start[h].files
  <2>1. CASE h = g
    <3>1. start'[h] = moved
      BY <1>1, <1>4, <2>1
    <3> QED
      BY <1>3, <2>1, <3>1 DEF GoesOn, StartRow
  <2>2. CASE h # g
    <3>1. start'[h] = start[h] /\ start[h] \in StartRow
      BY <1>1, <1>4, <2>2
    <3> QED
      BY <3>1 DEF GoesOn, StartRow
  <2> QED
    BY <2>1, <2>2
<1> QED
  BY <1>5, <1>6 DEF StartRow

LEMMA CampaignStarts ==
  ASSUME CampaignInv, start' \in [Starts -> [at : {"new", "save"} \cup Begun,
                                             files : SUBSET FileNames, rows : SUBSET Addresses]],
         \A g \in Starts : GoesOn(g), UNCHANGED <<attached, queued, saves, past, mail>>,
         worker' = worker \/ worker' = Campaign!Idle
  PROVE  CampaignInv'
<1>0. CampaignTypes /\ SavesTrue /\ QueuedTrue /\ DirectoryTrue /\ WorkerTrue
  BY DEF CampaignInv
<1>1. CampaignTypes'
  <2>1. Campaign!Idle \in [at : {"idle", "read", "send"}, row : Addresses \cup {Nobody},
                           names : SUBSET FileNames, read : SUBSET (FileNames \X Starts)]
    BY DEF Campaign!Idle
  <2> QED
    BY <1>0, <2>1 DEF CampaignTypes
<1>2. SavesTrue' /\ QueuedTrue'
  BY <1>0 DEF CampaignTypes, SavesTrue, QueuedTrue, GoesOn
<1>3. Len(saves) # 0 => start'[saves[Len(saves)]].files = start[saves[Len(saves)]].files
  BY <1>0 DEF CampaignTypes, SavesTrue, GoesOn
<1>4. DirectoryTrue'
  BY <1>0, <1>3 DEF DirectoryTrue
<1>5. WorkerTrue'
  <2>1. CASE worker' = worker
    BY <1>0, <1>3, <2>1 DEF WorkerTrue, Since
  <2>2. CASE worker' = Campaign!Idle
    BY <2>2 DEF WorkerTrue, Campaign!Idle
  <2> QED
    BY <2>1, <2>2
<1>6. ASSUME NEW r \in DOMAIN mail
      PROVE  CarriesTrue(mail[r])'
  <2> DEFINE m == mail[r]
  <2>1. CarriesTrue(m) /\ mail' = mail
    BY DEF CampaignInv
  <2>2. m.saves # 0 => start'[saves[m.saves]].files = start[saves[m.saves]].files
    BY <1>0, <2>1 DEF CarriesTrue, CampaignTypes, SavesTrue, GoesOn
  <2> QED
    BY <2>1, <2>2 DEF CarriesTrue, Since, GoesOn
<1> QED
  BY <1>1, <1>2, <1>4, <1>5, <1>6 DEF CampaignInv

LEMMA CampaignGoesOn ==
  ASSUME Campaign!AttachmentsAssumption, CampaignInv,
         \/ \E g \in Starts : \/ Campaign!StartMailing(g) \/ Campaign!ResetStuck(g)
                              \/ Campaign!Register(g)
         \/ Campaign!Pause \/ Campaign!DeleteMailing \/ Campaign!Crash
  PROVE  CampaignInv'
<1>0. CampaignTypes
  BY DEF CampaignInv
<1>1. ASSUME NEW g \in Starts, Campaign!StartMailing(g)
      PROVE  CampaignInv'
  <2>1. PICK F \in SUBSET FileNames :
          start' = [start EXCEPT ![g] = [at |-> "save", files |-> F, rows |-> {}]]
    BY <1>1 DEF Campaign!StartMailing, Campaign!Form
  <2>2. start[g].at = "new" /\ UNCHANGED <<attached, queued, saves, past, mail, worker>>
    BY <1>1 DEF Campaign!StartMailing
  <2>3. start' \in [Starts -> [at : {"new", "save"} \cup Begun,
                               files : SUBSET FileNames, rows : SUBSET Addresses]]
    BY <1>0, <2>1 DEF CampaignTypes
  <2>4. \A h \in Starts : GoesOn(h)
    BY <1>0, <2>1, <2>2, <2>3 DEF GoesOn, CampaignTypes, Begun
  <2> QED
    BY <2>2, <2>3, <2>4, CampaignStarts
<1>2. ASSUME NEW g \in Starts, Campaign!ResetStuck(g)
      PROVE  CampaignInv'
  <2>1. /\ start[g].at = "reset" /\ start' = [start EXCEPT ![g].at = "select"]
        /\ UNCHANGED <<attached, queued, saves, past, mail, worker>>
    BY <1>2 DEF Campaign!ResetStuck, Campaign!Step
  <2>s. "select" \in Begun /\ start[g].at # "done"
    BY <2>1 DEF Begun
  <2>2. start' \in [Starts -> [at : {"new", "save"} \cup Begun,
                               files : SUBSET FileNames, rows : SUBSET Addresses]]
    BY <1>0, <2>1, <2>s, StartGoes
  <2>3. \A h \in Starts : GoesOn(h)
    BY <1>0, <2>1, <2>s, StartGoes
  <2> QED
    BY <2>1, <2>2, <2>3, CampaignStarts
<1>3. ASSUME NEW g \in Starts, Campaign!Register(g)
      PROVE  CampaignInv'
  <2>1. PICK R \in SUBSET Addresses : start' = [start EXCEPT ![g] = [@ EXCEPT !.at = "add", !.rows = R]]
    BY <1>3 DEF Campaign!Register
  <2>2. start[g].at = "select" /\ UNCHANGED <<attached, queued, saves, past, mail, worker>>
    BY <1>3 DEF Campaign!Register
  <2>3. start' \in [Starts -> [at : {"new", "save"} \cup Begun,
                               files : SUBSET FileNames, rows : SUBSET Addresses]]
    <3>1. start[g] \in [at : {"new", "save"} \cup Begun, files : SUBSET FileNames,
                        rows : SUBSET Addresses]
      BY <1>0 DEF CampaignTypes
    <3>2. [start[g] EXCEPT !.at = "add", !.rows = R]
            \in [at : {"new", "save"} \cup Begun, files : SUBSET FileNames, rows : SUBSET Addresses]
      BY <3>1 DEF Begun
    <3>3. start' = [start EXCEPT ![g] = [start[g] EXCEPT !.at = "add", !.rows = R]]
      BY <1>0, <2>1 DEF CampaignTypes
    <3> QED
      BY <1>0, <3>2, <3>3 DEF CampaignTypes
  <2>4. \A h \in Starts : GoesOn(h)
    BY <1>0, <2>1, <2>2, <2>3 DEF GoesOn, CampaignTypes, Begun
  <2> QED
    BY <2>2, <2>3, <2>4, CampaignStarts
<1>4. CASE Campaign!Pause \/ Campaign!DeleteMailing
  <2>1. UNCHANGED <<start, attached, queued, saves, past, mail, worker>>
    BY <1>4 DEF Campaign!Pause, Campaign!DeleteMailing
  <2>2. \A h \in Starts : GoesOn(h)
    BY <1>0, <2>1 DEF GoesOn, CampaignTypes
  <2> QED
    BY <1>0, <2>1, <2>2, CampaignStarts DEF CampaignTypes
<1>5. CASE Campaign!Crash
  <2>1. /\ start' = [g \in Starts |-> IF start[g].at = "new" THEN start[g]
                                      ELSE [start[g] EXCEPT !.at = "done"]]
        /\ worker' = Campaign!Idle
        /\ UNCHANGED <<attached, queued, saves, past, mail>>
    BY <1>5 DEF Campaign!Crash
  <2>2. start' \in [Starts -> [at : {"new", "save"} \cup Begun,
                               files : SUBSET FileNames, rows : SUBSET Addresses]]
    <3>1. ASSUME NEW g \in Starts
          PROVE  [start[g] EXCEPT !.at = "done"]
                   \in [at : {"new", "save"} \cup Begun, files : SUBSET FileNames,
                       rows : SUBSET Addresses]
      <4>1. start[g] \in [at : {"new", "save"} \cup Begun, files : SUBSET FileNames,
                          rows : SUBSET Addresses]
        BY <1>0 DEF CampaignTypes
      <4> QED
        BY <4>1 DEF Begun
    <3> QED
      BY <1>0, <2>1, <3>1 DEF CampaignTypes
  <2>3. \A h \in Starts : GoesOn(h)
    BY <1>0, <2>1, <2>2 DEF GoesOn, CampaignTypes, Begun
  <2> QED
    BY <2>1, <2>2, <2>3, CampaignStarts
<1> QED
  BY <1>1, <1>2, <1>3, <1>4, <1>5

\* The files of a start that had not begun to bring them come last.
LEMMA CampaignSaves ==
  ASSUME Campaign!AttachmentsAssumption, CampaignInv, NEW g \in Starts, Campaign!SaveFiles(g)
  PROVE  CampaignInv'
<1>0. CampaignTypes /\ SavesTrue /\ QueuedTrue /\ DirectoryTrue /\ WorkerTrue
  BY DEF CampaignInv
<1>1. /\ start[g].at = "save" /\ start' = [start EXCEPT ![g].at = "reset"]
      /\ UNCHANGED <<queued, worker, mail>>
  BY DEF Campaign!SaveFiles, Campaign!Step
<1>s. "reset" \in Begun /\ start[g].at # "done"
  BY <1>1 DEF Begun
<1>2. start' \in [Starts -> [at : {"new", "save"} \cup Begun, files : SUBSET FileNames,
                             rows : SUBSET Addresses]]
  BY <1>0, <1>1, <1>s, StartGoes
<1>3. \A h \in Starts : GoesOn(h) /\ start'[h].files = start[h].files
  BY <1>0, <1>1, <1>s, StartGoes
<1>4. CASE start[g].files = {}
  BY <1>1, <1>2, <1>3, <1>4, CampaignStarts DEF Campaign!SaveFiles
<1>5. CASE start[g].files # {}
  <2>1. /\ attached' = [n \in FileNames |-> IF n \in start[g].files THEN g ELSE Nobody]
        /\ saves' = Append(saves, g)
        /\ past' = [taken |-> FALSE, changed |-> worker.at = "send"]
    BY <1>5 DEF Campaign!SaveFiles
  <2>2. /\ saves' \in Seq(Starts) /\ Len(saves') = Len(saves) + 1 /\ Len(saves) \in Nat
        /\ saves'[Len(saves')] = g /\ \A i \in 1..Len(saves) : saves'[i] = saves[i]
    BY <1>0, <2>1 DEF CampaignTypes
  <2>3. \A i \in 1..Len(saves) : saves[i] # g /\ saves[i] \in Starts
    <3>1. \A i \in 1..Len(saves) : saves[i] \in Starts
      BY <1>0 DEF CampaignTypes
    <3>2. \A i \in 1..Len(saves) : start[saves[i]].at \in Begun
      BY <1>0 DEF SavesTrue
    <3>3. start[g].at \notin Begun
      BY <1>1 DEF Begun
    <3> QED
      BY <3>1, <3>2, <3>3, Zenon
  <2>4. CampaignTypes'
    BY <1>0, <1>1, <1>2, <2>1, <2>2 DEF CampaignTypes
  <2>5. SavesTrue'
    <3>1. start'[g].at = "reset"
      BY <1>0, <1>1 DEF CampaignTypes
    <3>2. \A i \in 1..Len(saves) : start'[saves[i]].at \in Begun
      BY <1>0, <1>3, <2>3 DEF SavesTrue, GoesOn
    <3>3. \A i \in 1..Len(saves)' : i \in 1..Len(saves) \/ i = Len(saves')
      BY <2>2
    <3> QED
      BY <1>0, <2>2, <2>3, <3>1, <3>2, <3>3 DEF SavesTrue, Begun
  <2>6. QueuedTrue'
    BY <1>0, <1>1, <1>3 DEF QueuedTrue, GoesOn, CampaignTypes
  <2>7. DirectoryTrue'
    BY <1>3, <2>1, <2>2 DEF DirectoryTrue
  <2>8. ASSUME NEW h \in Starts, NEW t \in Starts, Since(h, t), t # g
        PROVE  Since(h, t)'
    <3>1. PICK i \in 1..Len(saves) : saves[i] = h /\ \A j \in 1..Len(saves) : saves[j] = t => j <= i
      BY <2>8 DEF Since
    <3>2. i \in 1..Len(saves') /\ saves'[i] = h
      BY <2>2, <3>1
    <3>3. ASSUME NEW j \in 1..Len(saves'), saves'[j] = t
          PROVE  j <= i
      <4>1. j # Len(saves')
        BY <2>2, <2>8, <3>3
      <4>2. j \in 1..Len(saves)
        BY <2>2, <4>1
      <4> QED
        BY <2>2, <3>1, <3>3, <4>2
    <3> QED
      BY <3>2, <3>3 DEF Since
  <2>9. WorkerTrue'
    <3>1. worker.at = "send" => past'.changed
      BY <2>1
    <3>2. worker.at = "send" => queued[worker.row] \in Starts \ {g}
      BY <1>0, <1>1 DEF WorkerTrue, QueuedTrue, CampaignTypes
    <3>3. \A f \in worker.read : worker.at = "send" /\ f[2] \in Starts /\ Since(f[2], queued[worker.row])
      BY <1>0 DEF WorkerTrue, CampaignTypes
    <3>4. \A f \in worker.read : Since(f[2], queued[worker.row])'
      <4>1. ASSUME NEW f \in worker.read
            PROVE  Since(f[2], queued[worker.row])'
        <5>1. PICK t \in Starts : t = queued[worker.row]
          BY <3>2, <3>3
        <5>2. Since(f[2], t)'
          BY <2>8, <3>2, <3>3, <5>1
        <5> QED
          BY <1>1, <5>1, <5>2 DEF Since
      <4> QED
        BY <1>1, <4>1
    <3> QED
      BY <1>0, <1>1, <3>1, <3>4 DEF WorkerTrue
  <2>10. ASSUME NEW m \in {mail[r] : r \in DOMAIN mail}
         PROVE  CarriesTrue(m)'
    <3>1. CarriesTrue(m)
      BY DEF CampaignInv
    <3>2. m.text \in Starts \ {g} /\ start'[m.text].at = "done"
      BY <1>1, <1>3, <3>1 DEF CarriesTrue, GoesOn
    <3>3. m.saves \in 0..Len(saves') /\ (m.saves # 0 => saves'[m.saves] = saves[m.saves])
      BY <2>2, <3>1 DEF CarriesTrue
    <3>4. m.saves # 0 => start'[saves[m.saves]].files = start[saves[m.saves]].files
      BY <1>3, <2>3, <3>1 DEF CarriesTrue
    <3>5. \A f \in m.files : Since(f[2], m.text)'
      <4>1. \A f \in m.files : f[2] \in Starts /\ Since(f[2], m.text)
        BY <3>1 DEF CarriesTrue
      <4> QED
        BY <2>8, <3>2, <4>1
    <3> QED
      BY <3>1, <3>2, <3>3, <3>4, <3>5 DEF CarriesTrue
  <2> QED
    BY <1>1, <2>4, <2>5, <2>6, <2>7, <2>9, <2>10 DEF CampaignInv
<1> QED
  BY <1>4, <1>5

\* The queue, the directory and the worker.
LEMMA CampaignQueues ==
  ASSUME Campaign!AttachmentsAssumption, CampaignInv,
         \/ \E g \in Starts : Campaign!Enqueue(g)
         \/ \E r \in Addresses : Campaign!Pick(r)
  PROVE  CampaignInv'
<1>0. CampaignTypes /\ SavesTrue /\ QueuedTrue /\ DirectoryTrue /\ WorkerTrue
  BY DEF CampaignInv
<1>1. ASSUME NEW g \in Starts, Campaign!Enqueue(g)
      PROVE  CampaignInv'
  <2>1. /\ start[g].at = "add"
        /\ start' = [start EXCEPT ![g] = [start[g] EXCEPT !.at = "done", !.rows = {}]]
        /\ UNCHANGED <<attached, worker, saves, past, mail>>
    BY <1>0, <1>1 DEF Campaign!Enqueue, CampaignTypes
  <2>2. start' \in [Starts -> [at : {"new", "save"} \cup Begun, files : SUBSET FileNames,
                               rows : SUBSET Addresses]]
    <3>1. [start[g] EXCEPT !.at = "done", !.rows = {}]
            \in [at : {"new", "save"} \cup Begun, files : SUBSET FileNames, rows : SUBSET Addresses]
      <4>1. start[g] \in [at : {"new", "save"} \cup Begun, files : SUBSET FileNames,
                          rows : SUBSET Addresses]
        BY <1>0 DEF CampaignTypes
      <4> QED
        BY <4>1 DEF Begun
    <3> QED
      BY <1>0, <2>1, <3>1 DEF CampaignTypes
  <2>3. \A h \in Starts : GoesOn(h)
    BY <1>0, <2>1, <2>2 DEF GoesOn, CampaignTypes, Begun
  <2>4. start'[g].at = "done" /\ \A r \in Addresses : queued'[r] \in {queued[r], g}
        /\ (queued[r] # Nobody => queued'[r] = queued[r])
    <3>1. start \in [Starts -> [at : {"new", "save"} \cup Begun, files : SUBSET FileNames,
                                rows : SUBSET Addresses]]
      BY <1>0 DEF CampaignTypes
    <3>2. start'[g] = [start[g] EXCEPT !.at = "done", !.rows = {}]
      BY <2>1, <3>1
    <3>3. start'[g].at = "done"
      BY <3>1, <3>2
    <3>4. queued' = [r \in Addresses |->
                       IF r \in start[g].rows /\ queued[r] = Nobody THEN g ELSE queued[r]]
      BY <1>1 DEF Campaign!Enqueue
    <3> QED
      BY <3>3, <3>4
  <2>5. queued' \in [Addresses -> Starts \cup {Nobody}]
    BY <1>0, <1>1 DEF Campaign!Enqueue, CampaignTypes
  <2>6. CampaignTypes' /\ SavesTrue'
    BY <1>0, <2>1, <2>2, <2>3, <2>5 DEF CampaignTypes, SavesTrue, GoesOn
  <2>7. QueuedTrue'
    BY <1>0, <2>3, <2>4 DEF CampaignTypes, QueuedTrue, GoesOn
  <2>8. \A i \in 1..Len(saves) : start'[saves[i]].files = start[saves[i]].files
    BY <1>0, <2>3 DEF CampaignTypes, SavesTrue, GoesOn
  <2>9. Len(saves) # 0 => start'[saves[Len(saves)]].files = start[saves[Len(saves)]].files
    BY <1>0, <2>8 DEF CampaignTypes
  <2>10. DirectoryTrue'
    BY <1>0, <2>1, <2>9 DEF DirectoryTrue
  <2>11. WorkerTrue'
    <3>1. worker.at # "idle" => queued'[worker.row] = queued[worker.row]
      BY <1>0, <2>4 DEF WorkerTrue
    <3>2. worker.read # {} => worker.at # "idle"
      BY <1>0 DEF WorkerTrue
    <3>3. \A f \in worker.read : Since(f[2], queued[worker.row])'
      BY <1>0, <2>1, <3>1, <3>2 DEF WorkerTrue, Since
    <3> QED
      BY <1>0, <2>1, <2>9, <3>1, <3>3 DEF WorkerTrue
  <2>12. ASSUME NEW m \in {mail[r] : r \in DOMAIN mail}
         PROVE  CarriesTrue(m)'
    <3>1. CarriesTrue(m)
      BY DEF CampaignInv
    <3>2. m.text \in Starts /\ start'[m.text].at = "done"
      BY <2>3, <3>1 DEF CarriesTrue, GoesOn
    <3>3. m.saves # 0 => start'[saves[m.saves]].files = start[saves[m.saves]].files
      BY <2>8, <3>1 DEF CarriesTrue
    <3> QED
      BY <2>1, <3>1, <3>2, <3>3 DEF CarriesTrue, Since
  <2> QED
    BY <2>1, <2>6, <2>7, <2>10, <2>11, <2>12 DEF CampaignInv
<1>2. ASSUME NEW r \in Addresses, Campaign!Pick(r)
      PROVE  CampaignInv'
  <2>1. /\ worker.at = "idle" /\ UNCHANGED <<attached, start, saves, past, mail>>
    BY <1>2 DEF Campaign!Pick
  <2>2. ASSUME NEW m \in {mail[x] : x \in DOMAIN mail}
        PROVE  CarriesTrue(m)'
    BY <2>1 DEF CampaignInv, CarriesTrue, Since
  <2>3. CASE campaign = "RUNNING"
    <3>1. worker' = [at |-> "read", row |-> r, names |-> {}, read |-> {}] /\ queued' = queued
          /\ queued[r] # Nobody
      BY <1>2, <2>3 DEF Campaign!Pick, Campaign!Idle
    <3>2. CampaignTypes' /\ SavesTrue' /\ QueuedTrue' /\ DirectoryTrue'
      BY <1>0, <2>1, <3>1 DEF CampaignTypes, SavesTrue, QueuedTrue, DirectoryTrue
    <3>3. WorkerTrue'
      BY <3>1 DEF WorkerTrue
    <3> QED
      BY <2>1, <2>2, <3>2, <3>3 DEF CampaignInv
  <2>4. CASE campaign # "RUNNING"
    <3>1. worker' = worker /\ queued' = [queued EXCEPT ![r] = Nobody]
      BY <1>2, <2>4 DEF Campaign!Pick
    <3>2. CampaignTypes' /\ SavesTrue' /\ QueuedTrue' /\ DirectoryTrue'
      BY <1>0, <2>1, <3>1 DEF CampaignTypes, SavesTrue, QueuedTrue, DirectoryTrue
    <3>3. WorkerTrue'
      BY <1>0, <2>1, <3>1 DEF WorkerTrue
    <3> QED
      BY <2>1, <2>2, <3>2, <3>3 DEF CampaignInv
  <2> QED
    BY <2>3, <2>4
<1> QED
  BY <1>1, <1>2

\* The directory is emptied while nobody looks, or the worker will know.
LEMMA CampaignEmpties ==
  ASSUME Campaign!AttachmentsAssumption, CampaignInv,
         Campaign!RemoveDirectory \/ Campaign!HandleFileCleanup
  PROVE  CampaignInv'
<1>0. CampaignTypes /\ SavesTrue /\ QueuedTrue /\ DirectoryTrue /\ WorkerTrue
  BY DEF CampaignInv
<1>1. /\ attached' = [n \in FileNames |-> Nobody]
      /\ past' = [taken |-> TRUE, changed |-> worker.at = "send"]
      /\ UNCHANGED <<queued, start, worker, saves, mail>>
  BY DEF Campaign!RemoveDirectory, Campaign!HandleFileCleanup
<1>2. CampaignTypes' /\ SavesTrue' /\ QueuedTrue'
  BY <1>0, <1>1 DEF CampaignTypes, SavesTrue, QueuedTrue
<1>3. DirectoryTrue'
  BY <1>1 DEF DirectoryTrue
<1>4. WorkerTrue'
  <2>1. past'.taken
    BY <1>1
  <2> QED
    BY <1>0, <1>1, <2>1 DEF WorkerTrue, Since
<1>5. ASSUME NEW m \in {mail[x] : x \in DOMAIN mail}
      PROVE  CarriesTrue(m)'
  BY <1>1 DEF CampaignInv, CarriesTrue, Since
<1> QED
  BY <1>1, <1>2, <1>3, <1>4, <1>5 DEF CampaignInv

LEMMA CampaignReads ==
  ASSUME Campaign!AttachmentsAssumption, CampaignInv,
         Campaign!ReadDirectory \/ \E n \in FileNames : Campaign!ReadFile(n)
  PROVE  CampaignInv'
<1>0. CampaignTypes /\ SavesTrue /\ QueuedTrue /\ DirectoryTrue /\ WorkerTrue
  BY DEF CampaignInv
<1>1. UNCHANGED <<attached, queued, start, saves, mail>>
  BY DEF Campaign!ReadDirectory, Campaign!ReadFile
<1>2. ASSUME NEW m \in {mail[x] : x \in DOMAIN mail}
      PROVE  CarriesTrue(m)'
  BY <1>1 DEF CampaignInv, CarriesTrue, Since
<1>3. SavesTrue' /\ QueuedTrue'
  BY <1>0, <1>1 DEF SavesTrue, QueuedTrue
<1>4. CASE Campaign!ReadDirectory
  <2>1. /\ worker.at = "read" /\ worker.read = {}
        /\ worker' = [worker EXCEPT !.at = "send", !.names = {n \in FileNames : attached[n] # Nobody}]
        /\ past' = [past EXCEPT !.changed = FALSE]
    BY <1>0, <1>4 DEF Campaign!ReadDirectory, Campaign!Stored, WorkerTrue
  <2>2. /\ worker' = [at |-> "send", row |-> worker.row,
                      names |-> {n \in FileNames : attached[n] # Nobody}, read |-> {}]
        /\ past' = [taken |-> past.taken, changed |-> FALSE]
    BY <1>0, <2>1 DEF CampaignTypes
  <2>3. CampaignTypes'
    BY <1>0, <1>1, <2>2 DEF CampaignTypes
  <2>4. past'.taken = past.taken
    BY <2>2
  <2>5. DirectoryTrue'
    BY <1>0, <1>1, <2>4 DEF DirectoryTrue
  <2>6. WorkerTrue'
    <3>1. worker.row \in Addresses /\ queued[worker.row] # Nobody
      BY <1>0, <2>1 DEF WorkerTrue
    <3>2. ASSUME ~past.taken
          PROVE  \A n \in FileNames :
                   n \in worker'.names <=> Len(saves) # 0 /\ n \in start[saves[Len(saves)]].files
      <4>1. Len(saves) # 0 => saves[Len(saves)] # Nobody
        BY <1>0 DEF CampaignTypes, Campaign!AttachmentsAssumption
      <4> QED
        BY <1>0, <2>2, <3>2, <4>1 DEF DirectoryTrue
    <3>3. worker'.at = "send" /\ worker'.row = worker.row /\ worker'.read = {}
          /\ worker'.names \subseteq FileNames
      BY <2>2
    <3> QED
      BY <1>1, <2>4, <3>1, <3>2, <3>3 DEF WorkerTrue
  <2> QED
    BY <1>1, <1>2, <1>3, <2>3, <2>5, <2>6 DEF CampaignInv
<1>5. ASSUME NEW n \in FileNames, Campaign!ReadFile(n)
      PROVE  CampaignInv'
  <2>1. /\ worker.at = "send" /\ n \in worker.names /\ attached[n] # Nobody /\ past' = past
        /\ worker' = [worker EXCEPT !.names = @ \ {n}, !.read = @ \cup {<<n, attached[n]>>}]
    BY <1>5 DEF Campaign!ReadFile, Campaign!Stored
  <2>2. worker' = [at |-> "send", row |-> worker.row, names |-> worker.names \ {n},
                   read |-> worker.read \cup {<<n, attached[n]>>}]
    BY <1>0, <2>1 DEF CampaignTypes
  <2>3. /\ Len(saves) # 0 /\ attached[n] = saves[Len(saves)] /\ attached[n] \in Starts
        /\ n \in start[saves[Len(saves)]].files
    BY <1>0, <2>1 DEF DirectoryTrue, CampaignTypes
  <2>4. CampaignTypes'
    BY <1>0, <1>1, <2>1, <2>2, <2>3 DEF CampaignTypes
  <2>5. DirectoryTrue'
    BY <1>0, <1>1, <2>1 DEF DirectoryTrue
  <2>6. WorkerTrue'
    <3>1. worker'.at = "send" /\ worker'.row = worker.row /\ worker'.names = worker.names \ {n}
          /\ worker'.read = worker.read \cup {<<n, attached[n]>>}
      BY <2>2
    <3>2. Since(attached[n], queued[worker.row])
      BY <1>0, <2>3 DEF Since, CampaignTypes
    <3>3. \A f \in worker'.read : Since(f[2], queued[worker.row])
      BY <1>0, <3>1, <3>2 DEF WorkerTrue
    <3>4. \A f \in worker'.read : Since(f[2], queued[worker.row])'
      BY <1>1, <3>1, <3>3 DEF Since
    <3>5. worker.row \in Addresses /\ queued[worker.row] # Nobody
      BY <1>0, <2>1 DEF WorkerTrue
    <3>6. ASSUME ~past.taken, ~past.changed, NEW k \in FileNames, NEW g \in Starts
          PROVE  (k \in worker'.names /\ g = saves[Len(saves)]) \/ <<k, g>> \in worker'.read
                   <=> k \in start[saves[Len(saves)]].files /\ g = saves[Len(saves)]
      <4>1. (k \in worker.names /\ g = saves[Len(saves)]) \/ <<k, g>> \in worker.read
              <=> k \in start[saves[Len(saves)]].files /\ g = saves[Len(saves)]
        BY <1>0, <2>1, <2>3, <3>6 DEF WorkerTrue
      <4> QED
        BY <2>3, <3>1, <4>1
    <3> QED
      BY <1>1, <2>1, <2>3, <3>1, <3>4, <3>5, <3>6 DEF WorkerTrue
  <2> QED
    BY <1>1, <1>2, <1>3, <2>4, <2>5, <2>6 DEF CampaignInv
<1> QED
  BY <1>4, <1>5

\* The mail is sent with what was read; nobody has changed the directory or it is known.
LEMMA CampaignSends ==
  ASSUME Campaign!AttachmentsAssumption, CampaignInv, Campaign!Send \/ Campaign!SendFails
  PROVE  CampaignInv'
<1>0. CampaignTypes /\ SavesTrue /\ QueuedTrue /\ DirectoryTrue /\ WorkerTrue
  BY DEF CampaignInv
<1>1. /\ worker.at = "send" /\ worker' = Campaign!Idle
      /\ queued' = [queued EXCEPT ![worker.row] = Nobody]
      /\ UNCHANGED <<attached, start, saves, past>>
  BY DEF Campaign!Send, Campaign!SendFails, Campaign!Finish
<1>2. worker.row \in Addresses /\ queued[worker.row] \in Starts
  BY <1>0, <1>1 DEF WorkerTrue, CampaignTypes
<1>3. worker' = [at |-> "idle", row |-> Nobody, names |-> {}, read |-> {}]
  BY <1>1 DEF Campaign!Idle
<1>4. CampaignTypes' /\ SavesTrue' /\ QueuedTrue' /\ DirectoryTrue'
  <2>1. worker' \in [at : {"idle", "read", "send"}, row : Addresses \cup {Nobody},
                     names : SUBSET FileNames, read : SUBSET (FileNames \X Starts)]
    BY <1>3
  <2>2. queued' \in [Addresses -> Starts \cup {Nobody}]
    BY <1>0, <1>1 DEF CampaignTypes
  <2>3. CampaignTypes'
    BY <1>0, <1>1, <2>1, <2>2 DEF CampaignTypes
  <2>4. QueuedTrue'
    BY <1>0, <1>1 DEF CampaignTypes, QueuedTrue
  <2> QED
    BY <1>0, <1>1, <2>3, <2>4 DEF SavesTrue, DirectoryTrue
<1>5. WorkerTrue'
  BY <1>3 DEF WorkerTrue
<1>6. ASSUME NEW m \in {mail[x] : x \in DOMAIN mail}
      PROVE  CarriesTrue(m)'
  BY <1>1 DEF CampaignInv, CarriesTrue, Since
<1>7. CASE Campaign!Send
  <2> DEFINE m == [text |-> queued[worker.row], files |-> worker.read,
                   saves |-> Len(saves), past |-> past]
  <2>1. worker.names = {} /\ mail' = [x \in DOMAIN mail \cup {worker.row} |->
                                       IF x # worker.row THEN mail[x] ELSE m]
    BY <1>7 DEF Campaign!Send
  <2>2. CarriesTrue(m)
    <3>1. queued[worker.row] \in Starts /\ start[queued[worker.row]].at = "done"
      BY <1>0, <1>2 DEF QueuedTrue, CampaignTypes, Campaign!AttachmentsAssumption
    <3>2. Len(saves) \in 0..Len(saves) /\ worker.read \subseteq FileNames \X Starts
      BY <1>0 DEF CampaignTypes
    <3>3. \A f \in worker.read : Since(f[2], queued[worker.row])
      BY <1>0 DEF WorkerTrue
    <3>4. \/ past.taken \/ past.changed
          \/ Len(saves) = 0 /\ worker.read = {}
          \/ Len(saves) # 0 /\ worker.read = start[saves[Len(saves)]].files \X {saves[Len(saves)]}
      <4>1. ASSUME ~past.taken, ~past.changed, Len(saves) # 0
            PROVE  worker.read = start[saves[Len(saves)]].files \X {saves[Len(saves)]}
        <5>1. saves[Len(saves)] \in Starts /\ start[saves[Len(saves)]].files \subseteq FileNames
          BY <1>0, <4>1 DEF CampaignTypes
        <5>2. \A n \in FileNames, g \in Starts :
                <<n, g>> \in worker.read <=> n \in start[saves[Len(saves)]].files /\ g = saves[Len(saves)]
          BY <1>0, <1>1, <2>1, <4>1 DEF WorkerTrue
        <5> QED
          BY <3>2, <5>1, <5>2
      <4> QED
        BY <1>0, <1>1, <4>1 DEF WorkerTrue
    <3>5. m.text = queued[worker.row] /\ m.files = worker.read /\ m.saves = Len(saves) /\ m.past = past
      OBVIOUS
    <3> HIDE DEF m
    <3> QED
      BY <3>1, <3>2, <3>3, <3>4, <3>5 DEF CarriesTrue
  <2>3. PICK k \in {m} : k = m
    OBVIOUS
  <2> HIDE DEF m
  <2>4. CarriesTrue(k)'
    BY <1>1, <2>2, <2>3 DEF CarriesTrue, Since
  <2>5. ASSUME NEW x \in DOMAIN mail'
        PROVE  CarriesTrue(mail[x])'
    <3>1. CASE x = worker.row
      <4>1. mail'[x] = k
        BY <2>1, <2>3, <3>1
      <4> QED
        BY <2>4, <4>1
    <3>2. CASE x # worker.row
      <4>1. PICK j \in {mail[y] : y \in DOMAIN mail} : mail'[x] = j
        BY <2>1, <3>2
      <4>2. CarriesTrue(j)'
        BY <1>6
      <4> QED
        BY <4>1, <4>2
    <3> QED
      BY <3>1, <3>2
  <2> QED
    BY <1>4, <1>5, <2>5 DEF CampaignInv
<1>8. CASE Campaign!SendFails
  <2>1. mail' = mail
    BY <1>8 DEF Campaign!SendFails
  <2> QED
    BY <1>4, <1>5, <1>6, <2>1 DEF CampaignInv
<1> QED
  BY <1>7, <1>8

LEMMA CampaignNext ==
  ASSUME Campaign!AttachmentsAssumption, CampaignInv, Campaign!Next \/ UNCHANGED campaignVars
  PROVE  CampaignInv'
<1>1. CASE Campaign!Next
  BY <1>1, CampaignGoesOn, CampaignSaves, CampaignQueues, CampaignEmpties, CampaignReads,
     CampaignSends DEF Campaign!Next
<1>2. CASE UNCHANGED campaignVars
  BY <1>2 DEF campaignVars, CampaignInv, CampaignTypes, SavesTrue, QueuedTrue, DirectoryTrue,
              WorkerTrue, CarriesTrue, Since
<1> QED
  BY <1>1, <1>2

\* A mail's files are those of one start, and not of one before that of its text.
LEMMA CampaignSound ==
  ASSUME CampaignInv
  PROVE  Campaign!MailCarriesFiles
<1> DEFINE Position(g) == CHOOSE i \in DOMAIN saves : saves[i] = g
<1>1. saves \in Seq(Starts) /\ DOMAIN saves = 1..Len(saves) /\ Len(saves) \in Nat
  BY DEF CampaignInv, CampaignTypes
<1>2. ASSUME NEW i \in DOMAIN saves
      PROVE  Position(saves[i]) = i
  BY <1>1 DEF CampaignInv, SavesTrue
<1>3. ASSUME NEW g \in Starts, NEW t \in Campaign!Range(saves), Since(g, t)
      PROVE  Position(g) >= Position(t)
  <2>1. PICK i \in 1..Len(saves) : saves[i] = g /\ \A j \in 1..Len(saves) : saves[j] = t => j <= i
    BY <1>3 DEF Since
  <2>2. PICK j \in DOMAIN saves : saves[j] = t
    BY DEF Campaign!Range
  <2>3. Position(g) = i /\ Position(t) = j
    BY <1>1, <1>2, <2>1, <2>2
  <2> HIDE DEF Position
  <2> QED
    BY <1>1, <2>1, <2>2, <2>3
<1>4. ASSUME NEW r \in DOMAIN mail, mail[r].text \in Campaign!Range(saves), NEW f \in mail[r].files
      PROVE  Position(f[2]) >= Position(mail[r].text)
  <2>1. CarriesTrue(mail[r])
    BY DEF CampaignInv
  <2>2. f[2] \in Starts /\ Since(f[2], mail[r].text)
    BY <2>1 DEF CarriesTrue
  <2> HIDE DEF Position
  <2> QED
    BY <1>3, <1>4, <2>2
<1>5. \A r \in DOMAIN mail : CarriesTrue(mail[r])
  BY DEF CampaignInv
<1> QED
  BY <1>4, <1>5 DEF Campaign!MailCarriesFiles, CarriesTrue

(***************************************************************************)
(* Least numbers, and sets put in order.                                   *)
(***************************************************************************)
\* The size of a set is the same whichever module counts it.
LEMMA DigestCounts == \A s : Digest!Cardinality(s) = Cardinality(s)
BY DEF Digest!Cardinality, Cardinality

\* A set of numbers has a least one.
LEMMA LeastOf == ASSUME NEW S \in SUBSET Nat, S # {} PROVE \E x \in S : \A y \in S : x <= y
<1> DEFINE Below(x) == {y \in S : y < x}
           T == {Below(x) : x \in S}
<1>1. \A x \in S : x \in Nat
  OBVIOUS
<1>2. ASSUME NEW x \in S PROVE Below(x) \in FiniteSubsetsOf(Nat)
  <2>1. \A y \in Below(x) : y \in Nat /\ y <= x
    BY <1>1
  <2>2. x \in Nat /\ Below(x) \in SUBSET Nat
    BY <1>1, <2>1
  <2>3. IsFiniteSet(Below(x))
    <3> HIDE DEF Below
    <3> QED
      BY <2>1, <2>2, FS_BoundedSetOfNaturals
  <2> QED
    BY <2>2, <2>3 DEF FiniteSubsetsOf
<1>3. T \subseteq FiniteSubsetsOf(Nat) /\ T # {}
  BY <1>2
<1>4. PICK least \in T : \A other \in T : <<other, least>> \notin StrictSubsetOrdering(Nat)
  <2> HIDE DEF T
  <2>1. IsWellFoundedOn(StrictSubsetOrdering(Nat), FiniteSubsetsOf(Nat))
    BY FS_StrictSubsetOrderingWellFounded
  <2> QED
    BY <1>3, <2>1, WFMin
<1>5. PICK x \in S : least = Below(x)
  BY <1>4
<1>6. ASSUME NEW y \in S, y < x PROVE FALSE
  <2>1. \A z \in Below(y) : z \in Below(x)
    BY <1>1, <1>6
  <2>2. y \in Below(x) /\ y \notin Below(y)
    BY <1>1, <1>6
  <2>3. Below(x) \in SUBSET Nat /\ Below(y) \in SUBSET Nat
    BY <1>1
  <2>4. <<Below(y), Below(x)>> \in StrictSubsetOrdering(Nat)
    <3> HIDE DEF Below
    <3> QED
      BY <2>1, <2>2, <2>3 DEF StrictSubsetOrdering
  <2> QED
    BY <1>4, <1>5, <2>4
<1> QED
  BY <1>1, <1>6


\* A relation that puts a set in order: one of two members comes first.
Orders(before, s) ==
  /\ \A x \in s : <<x, x>> \notin before
  /\ \A x, y \in s : x # y => <<x, y>> \in before \/ <<y, x>> \in before
  /\ \A x, y, z \in s : <<x, y>> \in before /\ <<y, z>> \in before => <<x, z>> \in before

\* A sequence has every member of a set once, in the order of a relation.
Arranges(t, s, before) ==
  /\ DOMAIN t = 1..Cardinality(s)
  /\ \A i \in DOMAIN t : t[i] \in s
  /\ \A x \in s : \E i \in DOMAIN t : t[i] = x
  /\ \A i, j \in DOMAIN t : i < j => <<t[i], t[j]>> \in before /\ t[i] # t[j]

\* InOrder arranges a finite set that a relation puts in order.
LEMMA Arranged ==
  ASSUME NEW s, IsFiniteSet(s), NEW before, Orders(before, s)
  PROVE  Cardinality(s) \in Nat /\ Arranges(Digest!InOrder(s, before), s, before)
  <1> DEFINE n == Cardinality(s)
             Ahead(x) == {y \in s : <<y, x>> \in before}
             place == [x \in s |-> Cardinality(Ahead(x)) + 1]
             t == Digest!InOrder(s, before)
  <1>1. n \in Nat
    BY FS_CardinalityType
  <1>2. ASSUME NEW x \in s PROVE IsFiniteSet(Ahead(x)) /\ Cardinality(Ahead(x)) \in 0..(n - 1)
    <2>1. Ahead(x) \in SUBSET s /\ x \notin Ahead(x)
      BY DEF Orders
    <2>2. IsFiniteSet(Ahead(x)) /\ Cardinality(Ahead(x)) <= n /\ Cardinality(Ahead(x)) # n
      BY <1>2, <2>1, FS_Subset
    <2>3. Cardinality(Ahead(x)) \in Nat
      BY <2>2, FS_CardinalityType
    <2> QED
      BY <1>1, <2>2, <2>3
  <1>3. ASSUME NEW x \in s, NEW z \in s, <<x, z>> \in before
        PROVE  place[x] < place[z]
    <2>1. Ahead(x) \in SUBSET Ahead(z) /\ x \in Ahead(z) /\ x \notin Ahead(x)
      BY <1>3 DEF Orders
    <2>2. /\ IsFiniteSet(Ahead(x)) /\ IsFiniteSet(Ahead(z))
          /\ Cardinality(Ahead(x)) \in Nat /\ Cardinality(Ahead(z)) \in Nat
      BY <1>2, <1>3
    <2>3. Cardinality(Ahead(x)) <= Cardinality(Ahead(z))
            /\ Cardinality(Ahead(x)) # Cardinality(Ahead(z))
      BY <2>1, <2>2, FS_Subset
    <2> QED
      BY <1>3, <2>2, <2>3
  <1>4. place \in Injection(s, 1..n)
    <2>1. place \in [s -> 1..n]
      <3>1. ASSUME NEW x \in s PROVE place[x] \in 1..n
        <4>1. Cardinality(Ahead(x)) \in 0..(n - 1)
          BY <1>2
        <4> HIDE DEF Ahead, n
        <4> QED
          BY <1>1, <4>1
      <3> HIDE DEF Ahead, n
      <3> QED
        BY <3>1
    <2>2. ASSUME NEW x \in s, NEW z \in s, place[x] = place[z] PROVE x = z
      <3> SUFFICES ASSUME x # z PROVE FALSE
        OBVIOUS
      <3>1. place[x] \in 1..n /\ place[z] \in 1..n
        BY <2>1
      <3>2. <<x, z>> \in before \/ <<z, x>> \in before
        BY <2>2 DEF Orders
      <3> HIDE DEF place
      <3> QED
        BY <1>1, <1>3, <2>2, <3>1, <3>2
    <2> HIDE DEF place
    <2> QED
      BY <2>1, <2>2 DEF Injection, IsInjective
  <1>5. place \in Surjection(s, 1..n)
    <2>1. IsFiniteSet(1..n) /\ Cardinality(1..n) = n
      BY <1>1, FS_Interval
    <2> HIDE DEF place
    <2> QED
      BY <1>4, <2>1, FS_Injection
  <1>6. DOMAIN t = 1..n
    BY DigestCounts DEF Digest!InOrder
  <1>7. ASSUME NEW i \in 1..n PROVE t[i] \in s /\ place[t[i]] = i
    <2>1. PICK x \in s : place[x] = i
      <3> HIDE DEF place
      <3> QED
        BY <1>5, <1>7 DEF Surjection
    <2>2. Cardinality(Ahead(x)) = i - 1
      <3>1. Cardinality(Ahead(x)) \in 0..(n - 1)
        BY <1>2
      <3> HIDE DEF Ahead, n
      <3> QED
        BY <1>1, <1>7, <2>1, <3>1
    <2>3. t[i] = CHOOSE y \in s : Cardinality(Ahead(y)) = i - 1
      BY <1>7, DigestCounts DEF Digest!InOrder
    <2>4. t[i] \in s /\ Cardinality(Ahead(t[i])) = i - 1
      <3> HIDE DEF Ahead, t
      <3> QED
        BY <2>2, <2>3
    <2> HIDE DEF Ahead, t
    <2> QED
      BY <1>1, <1>7, <2>4
  <1>8. ASSUME NEW x \in s PROVE \E i \in 1..n : t[i] = x
    <2>1. place[x] \in 1..n
      <3> HIDE DEF place
      <3> QED
        BY <1>4, <1>8 DEF Injection
    <2>2. t[place[x]] \in s /\ place[t[place[x]]] = place[x]
      <3> HIDE DEF place, t
      <3> QED
        BY <1>7, <2>1
    <2>3. t[place[x]] = x
      <3> HIDE DEF place, t
      <3> QED
        BY <1>4, <1>8, <2>2 DEF Injection, IsInjective
    <2> QED
      BY <2>1, <2>3
  <1>9. ASSUME NEW i \in 1..n, NEW j \in 1..n, i < j
        PROVE  <<t[i], t[j]>> \in before /\ t[i] # t[j]
    <2>1. /\ t[i] \in s /\ place[t[i]] = i
          /\ t[j] \in s /\ place[t[j]] = j
      <3> HIDE DEF place, t
      <3> QED
        BY <1>7, <1>9
    <2>2. t[i] # t[j]
      <3> HIDE DEF place, t
      <3> QED
        BY <1>1, <1>9, <2>1
    <2>3. <<t[j], t[i]>> \notin before
      <3> HIDE DEF place, t
      <3> QED
        BY <1>1, <1>3, <1>9, <2>1
    <2> HIDE DEF place, t
    <2> QED
      BY <2>1, <2>2, <2>3 DEF Orders
  <1> HIDE DEF t, place
  <1>10. Arranges(t, s, before)
    BY <1>6, <1>7, <1>8, <1>9 DEF Arranges
  <1> QED
    BY <1>1, <1>10 DEF t

\* As many places of an arranged sequence hold members of a part as the part has.
LEMMA PlacesOf ==
  ASSUME NEW s, IsFiniteSet(s), NEW before, NEW t, Arranges(t, s, before), NEW w, w \subseteq s
  PROVE  /\ IsFiniteSet(w) /\ IsFiniteSet({i \in DOMAIN t : t[i] \in w})
         /\ Cardinality({i \in DOMAIN t : t[i] \in w}) = Cardinality(w)
  <1> DEFINE places == {i \in DOMAIN t : t[i] \in w}
             atPlace == [i \in places |-> t[i]]
  <1>1. IsFiniteSet(DOMAIN t) /\ DOMAIN t \subseteq Int
    BY FS_CardinalityType, FS_Interval DEF Arranges
  <1>2. IsFiniteSet(places)
    BY <1>1, FS_Subset
  <1>3. atPlace \in Bijection(places, w)
    <2>1. atPlace \in [places -> w]
      OBVIOUS
    <2>2. ASSUME NEW i \in places, NEW j \in places, atPlace[i] = atPlace[j] PROVE i = j
      <3>1. t[i] = t[j] /\ i \in DOMAIN t /\ j \in DOMAIN t /\ i \in Int /\ j \in Int
        BY <1>1, <2>2
      <3>2. ~(i < j) /\ ~(j < i)
        BY <3>1 DEF Arranges
      <3> QED
        BY <3>1, <3>2
    <2>3. ASSUME NEW x \in w PROVE \E i \in places : atPlace[i] = x
      <3>1. PICK i \in DOMAIN t : t[i] = x
        BY <2>3 DEF Arranges
      <3> QED
        BY <2>3, <3>1
    <2> HIDE DEF atPlace, places
    <2> QED
      BY <2>1, <2>2, <2>3 DEF Bijection, Injection, IsInjective, Surjection
  <1>4. ExistsBijection(places, w)
    <2> HIDE DEF atPlace
    <2> QED
      BY <1>3 DEF ExistsBijection
  <1> QED
    BY <1>2, <1>4, FS_Bijection DEF Digest!MailsOf

\* Places of a list in their order.
Earlier(places) == {p \in places \X places : p[1] < p[2]}

\* Those has what the list has at the places, in their order.
LEMMA ThoseAre ==
  ASSUME NEW n \in Nat, NEW s, NEW places \in SUBSET (1..n)
  PROVE  /\ IsFiniteSet(places)
         /\ \E order : /\ Arranges(order, places, Earlier(places))
                       /\ Digest!Those(s, places) = [k \in DOMAIN order |-> s[order[k]]]
  <1>1. IsFiniteSet(places)
    <2>1. IsFiniteSet(1..n)
      BY FS_Interval
    <2> QED
      BY <2>1, FS_Subset
  <1>2. Orders(Earlier(places), places)
    BY DEF Orders, Earlier
  <1>3. Arranges(Digest!InOrder(places, Earlier(places)), places, Earlier(places))
    BY <1>1, <1>2, Arranged
  <1>4. Digest!Those(s, places) = [k \in DOMAIN Digest!InOrder(places, Earlier(places)) |->
                              s[Digest!InOrder(places, Earlier(places))[k]]]
    BY DEF Digest!Those, Earlier
  <1> QED
    BY <1>1, <1>3, <1>4


(***************************************************************************)
(* The digest of the mailbox (mail-reader.service.ts, ai.service.ts,       *)
(* telegram.update.ts).                                                    *)
(***************************************************************************)

Items == [uid : Digest!Range(mails), importance : Digest!Importances, spam : BOOLEAN, suspicious : BOOLEAN]

\* An item has the verdict the model gave of its mail, or is unjudged.
HasVerdict(it) ==
  /\ \A i \in DOMAIN byIndex : given[i] = it.uid =>
       /\ byIndex[i].importance = it.importance /\ byIndex[i].spam = it.spam
       /\ byIndex[i].suspicious = it.suspicious
  /\ it.spam \/ it.suspicious \/ it.importance # "medium" =>
       \E i \in DOMAIN byIndex : given[i] = it.uid

\* The items are the mails, each once, by importance and age.
Digested ==
  /\ DOMAIN items = 1..Cardinality(Digest!Range(mails))
  /\ \A k \in DOMAIN items : items[k] \in Items /\ HasVerdict(items[k])
  /\ \A u \in Digest!Range(mails) : \E k \in DOMAIN items : items[k].uid = u
  /\ \A k, l \in DOMAIN items : k < l =>
       /\ items[k].uid # items[l].uid
       /\ \/ Digest!Rank[items[k].importance] < Digest!Rank[items[l].importance]
          \/ items[k].importance = items[l].importance /\ items[k].uid > items[l].uid

\* A list of items at some places counts the items of a sender at those places.
LEMMA CountAt ==
  ASSUME NEW places, IsFiniteSet(places), NEW order, Arranges(order, places, Earlier(places)),
         NEW t, t = [k \in DOMAIN order |-> items[order[k]]], NEW sender
  PROVE  /\ IsFiniteSet({i \in places : Digest!From(items[i]) = sender})
         /\ Digest!CountOf(t, sender) = Cardinality({i \in places : Digest!From(items[i]) = sender})
  <1> DEFINE w == {i \in places : Digest!From(items[i]) = sender}
  <1>1. /\ IsFiniteSet(w)
        /\ Cardinality({k \in DOMAIN order : order[k] \in w}) = Cardinality(w)
    <2>1. w \subseteq places
      OBVIOUS
    <2> HIDE DEF w
    <2> QED
      BY <2>1, PlacesOf
  <1>2. {k \in DOMAIN t : Digest!From(t[k]) = sender} = {k \in DOMAIN order : order[k] \in w}
    BY DEF Arranges
  <1> QED
    BY <1>1, <1>2, DigestCounts DEF Digest!CountOf

\* The mails of a sender are as many as his items.
LEMMA ItemsOfSender ==
  ASSUME Digest!MailDigestAssumption, Digest!Range(mails) \subseteq 1..DigestUid, Digested, NEW sender
  PROVE  /\ IsFiniteSet({i \in DOMAIN items : Digest!From(items[i]) = sender})
         /\ Cardinality({i \in DOMAIN items : Digest!From(items[i]) = sender})
              = Digest!MailsOf(sender)
  <1> DEFINE w == {i \in DOMAIN items : Digest!From(items[i]) = sender}
             v == {u \in Digest!Range(mails) : Sender[u] = sender}
             uidOf == [i \in w |-> items[i].uid]
  <1>1. IsFiniteSet(Digest!Range(mails)) /\ Cardinality(Digest!Range(mails)) \in Nat
    <2>1. IsFiniteSet(1..DigestUid)
      BY FS_Interval DEF Digest!MailDigestAssumption
    <2> QED
      BY <2>1, FS_Subset, FS_CardinalityType
  <1>2. IsFiniteSet(w)
    <2>1. IsFiniteSet(DOMAIN items)
      BY <1>1, FS_Interval DEF Digested
    <2> QED
      BY <2>1, FS_Subset
  <1>3. uidOf \in Bijection(w, v)
    <2>1. uidOf \in [w -> v]
      BY DEF Digested, Items, Digest!From
    <2>2. ASSUME NEW i \in w, NEW j \in w, uidOf[i] = uidOf[j] PROVE i = j
      <3>1. items[i].uid = items[j].uid /\ i \in DOMAIN items /\ j \in DOMAIN items
        BY <2>2
      <3>2. i \in Int /\ j \in Int
        BY <1>1, <3>1 DEF Digested
      <3>3. ~(i < j) /\ ~(j < i)
        BY <3>1 DEF Digested
      <3> QED
        BY <3>2, <3>3
    <2>3. ASSUME NEW u \in v PROVE \E i \in w : uidOf[i] = u
      <3>1. PICK i \in DOMAIN items : items[i].uid = u
        BY <2>3 DEF Digested
      <3> QED
        BY <2>3, <3>1 DEF Digest!From
    <2> HIDE DEF uidOf, w, v
    <2> QED
      BY <2>1, <2>2, <2>3 DEF Bijection, Injection, IsInjective, Surjection
  <1>4. ExistsBijection(w, v)
    <2> HIDE DEF uidOf
    <2> QED
      BY <1>3 DEF ExistsBijection
  <1> QED
    BY <1>2, <1>4, FS_Bijection, DigestCounts DEF Digest!MailsOf

MailsKnown == Digest!MailDigestAssumption /\ Digest!Range(mails) \subseteq 1..DigestUid /\ Digested

LEMMA HowMany ==
  ASSUME MailsKnown
  PROVE  /\ IsFiniteSet(Digest!Range(mails)) /\ Cardinality(Digest!Range(mails)) \in Nat
         /\ IsFiniteSet(DOMAIN items)
  <1>1. IsFiniteSet(1..DigestUid)
    BY FS_Interval DEF MailsKnown, Digest!MailDigestAssumption
  <1>2. IsFiniteSet(Digest!Range(mails)) /\ Cardinality(Digest!Range(mails)) \in Nat
    BY <1>1, FS_Subset, FS_CardinalityType DEF MailsKnown
  <1>3. IsFiniteSet(DOMAIN items)
    BY <1>2, FS_Interval DEF MailsKnown, Digested
  <1> QED
    BY <1>2, <1>3

\* A list of some of the items.
ListOf(t, places) ==
  /\ DOMAIN t = 1..Cardinality(places) /\ Cardinality(places) \in Nat
  /\ \A k \in DOMAIN t : \E i \in places : t[k] = items[i]
  /\ \A i \in places : \E k \in DOMAIN t : t[k] = items[i]
  /\ \A k, l \in DOMAIN t : k < l => \E i, j \in places : i < j /\ t[k] = items[i]
       /\ t[l] = items[j]
  /\ \A sender : /\ IsFiniteSet({i \in places : Digest!From(items[i]) = sender})
                 /\ Digest!CountOf(t, sender)
                      = Cardinality({i \in places : Digest!From(items[i]) = sender})

LEMMA ListsOf ==
  ASSUME MailsKnown, NEW places \in SUBSET DOMAIN items
  PROVE  ListOf(Digest!Those(items, places), places)
  <1> DEFINE t == Digest!Those(items, places)
  <1>1. Cardinality(Digest!Range(mails)) \in Nat
          /\ DOMAIN items = 1..Cardinality(Digest!Range(mails))
    BY HowMany DEF MailsKnown, Digested
  <1>2. IsFiniteSet(places)
    BY HowMany, FS_Subset
  <1>3. PICK order : /\ Arranges(order, places, Earlier(places))
                     /\ t = [k \in DOMAIN order |-> items[order[k]]]
    <2> DEFINE n == Cardinality(Digest!Range(mails))
    <2>1. n \in Nat /\ places \in SUBSET (1..n)
      BY <1>1
    <2> HIDE DEF n
    <2> QED
      BY <2>1, ThoseAre
  <1>4. DOMAIN t = 1..Cardinality(places) /\ Cardinality(places) \in Nat /\ DOMAIN t = DOMAIN order
    <2>1. Cardinality(places) \in Nat
      BY <1>2, FS_CardinalityType
    <2> HIDE DEF t
    <2> QED
      BY <1>3, <2>1 DEF Arranges
  <1>5. ASSUME NEW k \in DOMAIN t PROVE \E i \in places : t[k] = items[i]
    <2> HIDE DEF t
    <2> QED
      BY <1>3, <1>4, <1>5 DEF Arranges
  <1>6. ASSUME NEW i \in places PROVE \E k \in DOMAIN t : t[k] = items[i]
    <2>1. PICK k \in DOMAIN order : order[k] = i
      BY <1>3, <1>6 DEF Arranges
    <2> HIDE DEF t
    <2> QED
      BY <1>3, <1>4, <2>1
  <1>7. ASSUME NEW k \in DOMAIN t, NEW l \in DOMAIN t, k < l
        PROVE  \E i, j \in places : i < j /\ t[k] = items[i] /\ t[l] = items[j]
    <2> HIDE DEF t
    <2>1. order[k] \in places /\ order[l] \in places /\ <<order[k], order[l]>> \in Earlier(places)
      BY <1>3, <1>4, <1>7 DEF Arranges
    <2>2. order[k] < order[l]
      BY <2>1 DEF Earlier
    <2> QED
      BY <1>3, <1>4, <1>7, <2>1, <2>2
  <1>8. ASSUME NEW sender
        PROVE  /\ IsFiniteSet({i \in places : Digest!From(items[i]) = sender})
               /\ Digest!CountOf(t, sender) = Cardinality({i \in places : Digest!From(items[i]) = sender})
    <2> HIDE DEF t
    <2> QED
      BY <1>2, <1>3, CountAt
  <1> HIDE DEF t
  <1>9. ListOf(t, places)
    BY <1>4, <1>5, <1>6, <1>7, <1>8 DEF ListOf
  <1> QED
    BY <1>9 DEF t

Kept    == {i \in DOMAIN items : ~Digest!Collapsed(items[i])}
LeftOut == {i \in DOMAIN items : Digest!Collapsed(items[i])}

\* What is told of a sender and what is left out are his mails.
LEMMA KeptAndLeft ==
  ASSUME MailsKnown, NEW sender
  PROVE  Digest!CountOf(Digest!Those(items, Kept), sender) + Digest!CountOf(Digest!Out, sender)
           = Digest!MailsOf(sender)
  <1> DEFINE some(places) == {i \in places : Digest!From(items[i]) = sender}
  <1>1. ListOf(Digest!Those(items, Kept), Kept) /\ ListOf(Digest!Out, LeftOut)
    <2>1. Kept \in SUBSET DOMAIN items /\ LeftOut \in SUBSET DOMAIN items
      BY DEF Kept, LeftOut
    <2>2. Digest!Out = Digest!Those(items, LeftOut)
      BY DEF Digest!Out, LeftOut
    <2> QED
      BY <2>1, <2>2, ListsOf
  <1>2. /\ IsFiniteSet(some(Kept))
             /\ Digest!CountOf(Digest!Those(items, Kept), sender) = Cardinality(some(Kept))
        /\ IsFiniteSet(some(LeftOut))
        /\ Digest!CountOf(Digest!Out, sender) = Cardinality(some(LeftOut))
    BY <1>1 DEF ListOf
  <1>3. /\ some(Kept) \cup some(LeftOut) = some(DOMAIN items)
        /\ some(Kept) \cap some(LeftOut) = {}
    BY DEF Kept, LeftOut
  <1>4. Cardinality(some(DOMAIN items)) = Cardinality(some(Kept)) + Cardinality(some(LeftOut))
    <2>1. Cardinality(some(Kept)) \in Nat /\ Cardinality(some(LeftOut)) \in Nat
      BY <1>2, FS_CardinalityType
    <2> HIDE DEF some
    <2> QED
      BY <1>2, <1>3, <2>1, FS_Union, FS_EmptySet
  <1>5. Cardinality(some(DOMAIN items)) = Digest!MailsOf(sender)
    BY ItemsOfSender DEF MailsKnown
  <1> QED
    BY <1>2, <1>4, <1>5

\* The row of a sender is where an item of his is left out, and there is one.
RowsTrue(counted) ==
  \A sender :
    LET ofSender == {i \in DOMAIN counted : counted[i].sender = sender}
    IN /\ \A i, j \in ofSender : i = j
       /\ \A i \in ofSender : counted[i] = Digest!RowOf(sender)
       /\ ofSender = {} => \A k \in DOMAIN Digest!Out : Digest!From(Digest!Out[k]) # sender
       /\ ofSender # {} => \E k \in DOMAIN Digest!Out : Digest!From(Digest!Out[k]) = sender

LeftBefore == {p \in Digest!RowsOut \X Digest!RowsOut : Digest!Before(p[1], p[2])}

LEMMA RowsAre ==
  ASSUME MailsKnown
  PROVE  RowsTrue(Digest!InOrder(Digest!RowsOut, LeftBefore))
  <1> DEFINE counted == Digest!InOrder(Digest!RowsOut, LeftBefore)
  <1>1. ListOf(Digest!Out, LeftOut) /\ DOMAIN Digest!Out \subseteq Nat
    <2>1. LeftOut \in SUBSET DOMAIN items
      BY DEF LeftOut
    <2>2. Digest!Out = Digest!Those(items, LeftOut)
      BY DEF Digest!Out, LeftOut
    <2>3. ListOf(Digest!Out, LeftOut)
      BY <2>1, <2>2, ListsOf
    <2>4. DOMAIN Digest!Out = 1..Cardinality(LeftOut) /\ Cardinality(LeftOut) \in Nat
      BY <2>3 DEF ListOf
    <2>5. DOMAIN Digest!Out \subseteq Nat
      <3> HIDE DEF Digest!Out
      <3> QED
        BY <2>4
    <2> QED
      BY <2>3, <2>5
  <1>2. IsFiniteSet(Digest!RowsOut)
    <2>1. IsFiniteSet(DOMAIN Digest!Out)
      BY <1>1, FS_Interval DEF ListOf
    <2> DEFINE rowAt == [i \in DOMAIN Digest!Out |-> Digest!RowOf(Digest!From(Digest!Out[i]))]
    <2>2. rowAt \in Surjection(DOMAIN Digest!Out, Digest!RowsOut)
      BY DEF Digest!RowsOut, Surjection
    <2> HIDE DEF rowAt
    <2> QED
      BY <2>1, <2>2, FS_Surjection
  <1>3. ASSUME NEW r \in Digest!RowsOut
        PROVE  /\ r = Digest!RowOf(r.sender) /\ r.count \in Nat /\ r.suspicious \in BOOLEAN
               /\ \E k \in DOMAIN Digest!Out : Digest!From(Digest!Out[k]) = r.sender
    <2>1. PICK k \in DOMAIN Digest!Out : r = Digest!RowOf(Digest!From(Digest!Out[k]))
      BY DEF Digest!RowsOut
    <2>2. r.sender = Digest!From(Digest!Out[k])
            /\ r.count = Digest!CountOf(Digest!Out, r.sender) /\ r.suspicious \in BOOLEAN
      BY <2>1 DEF Digest!RowOf
    <2>3. Digest!CountOf(Digest!Out, r.sender) \in Nat
      <3>1. \A sender : /\ IsFiniteSet({i \in LeftOut : Digest!From(items[i]) = sender})
                       /\ Digest!CountOf(Digest!Out, sender)
                            = Cardinality({i \in LeftOut : Digest!From(items[i]) = sender})
        BY <1>1 DEF ListOf
      <3>2. /\ IsFiniteSet({i \in LeftOut : Digest!From(items[i]) = r.sender})
            /\ Digest!CountOf(Digest!Out, r.sender)
                 = Cardinality({i \in LeftOut : Digest!From(items[i]) = r.sender})
        BY <3>1
      <3> QED
        BY <3>2, FS_CardinalityType
    <2> QED
      BY <2>1, <2>2, <2>3
  <1>4. ASSUME NEW r \in Digest!RowsOut
        PROVE  Digest!First(r.sender) \in DOMAIN Digest!Out
          /\ Digest!From(Digest!Out[Digest!First(r.sender)]) = r.sender
    <2> DEFINE mine == {i \in DOMAIN Digest!Out : Digest!From(Digest!Out[i]) = r.sender}
    <2>1. mine # {} /\ mine \subseteq Nat
      BY <1>1, <1>3
    <2>2. Digest!Min(mine) \in mine
      <3> HIDE DEF mine
      <3> QED
        BY <2>1, LeastOf DEF Digest!Min
    <2> QED
      BY <2>2 DEF Digest!First
  <1>5. Orders(LeftBefore, Digest!RowsOut)
    <2>1. ASSUME NEW r \in Digest!RowsOut, NEW s \in Digest!RowsOut, r # s
          PROVE  Digest!First(r.sender) # Digest!First(s.sender)
      BY <1>3, <1>4, <2>1
    <2>2. ASSUME NEW r \in Digest!RowsOut
          PROVE  Digest!First(r.sender) \in Nat /\ r.count \in Nat /\ r.suspicious \in BOOLEAN
      BY <1>1, <1>3, <1>4
    <2> QED
      BY <2>1, <2>2 DEF Orders, LeftBefore, Digest!Before
  <1>6. Arranges(counted, Digest!RowsOut, LeftBefore)
    BY <1>2, <1>5, Arranged
  <1> HIDE DEF counted
  <1>7. ASSUME NEW sender,
               NEW i \in DOMAIN counted, counted[i].sender = sender,
               NEW j \in DOMAIN counted, counted[j].sender = sender
        PROVE  i = j
    <2>1. counted[i] \in Digest!RowsOut /\ counted[j] \in Digest!RowsOut
      BY <1>6 DEF Arranges
    <2>2. counted[i] = counted[j]
      BY <1>3, <1>7, <2>1
    <2>3. i \in Int /\ j \in Int
      BY <1>2, <1>6, FS_CardinalityType DEF Arranges
    <2>4. ~(i < j) /\ ~(j < i)
      BY <1>6, <2>2 DEF Arranges
    <2> QED
      BY <2>3, <2>4
  <1>8. ASSUME NEW i \in DOMAIN counted
        PROVE  /\ counted[i] = Digest!RowOf(counted[i].sender)
               /\ \E k \in DOMAIN Digest!Out : Digest!From(Digest!Out[k]) = counted[i].sender
    <2>1. counted[i] \in Digest!RowsOut
      BY <1>6 DEF Arranges
    <2> QED
      BY <1>3, <2>1
  <1>9. ASSUME NEW k \in DOMAIN Digest!Out
        PROVE  \E i \in DOMAIN counted : counted[i].sender = Digest!From(Digest!Out[k])
    <2>1. Digest!RowOf(Digest!From(Digest!Out[k])) \in Digest!RowsOut
            /\ Digest!RowOf(Digest!From(Digest!Out[k])).sender = Digest!From(Digest!Out[k])
      BY DEF Digest!RowsOut, Digest!RowOf
    <2>2. PICK i \in DOMAIN counted : counted[i] = Digest!RowOf(Digest!From(Digest!Out[k]))
      BY <1>6, <2>1 DEF Arranges
    <2> QED
      BY <2>1, <2>2
  <1>10. RowsTrue(counted)
    BY <1>7, <1>8, <1>9 DEF RowsTrue
  <1> QED
    BY <1>10 DEF counted

Suspected(u) == \E i \in DOMAIN byIndex : given[i] = u /\ byIndex[i].suspicious

\* A digest that was sorted is shown as it is.
LEMMA ShowsAll ==
  ASSUME MailsKnown, uids \cap present \subseteq Digest!Range(mails), Digest!Format
  PROVE  Digest!DigestSound'
  <1> DEFINE shown == screen'.listed
             counted == screen'.counted
  <1>1. shown = Digest!Those(items, Kept) /\ counted = Digest!InOrder(Digest!RowsOut, LeftBefore)
    BY DEF Digest!Format, Kept, LeftBefore
  <1>2. ListOf(shown, Kept) /\ ListOf(Digest!Out, LeftOut)
    <2>1. Kept \in SUBSET DOMAIN items /\ LeftOut \in SUBSET DOMAIN items
      BY DEF Kept, LeftOut
    <2>2. Digest!Out = Digest!Those(items, LeftOut)
      BY DEF Digest!Out, LeftOut
    <2> QED
      BY <1>1, <2>1, <2>2, ListsOf
  <1>3. RowsTrue(counted)
    BY <1>1, RowsAre
  <1>4. UNCHANGED <<mails, byIndex, given, uids, present>>
    BY DEF Digest!Format
  <1>5. ASSUME NEW k \in DOMAIN shown
        PROVE  \E i \in DOMAIN items : ~Digest!Collapsed(items[i]) /\ shown[k] = items[i]
    BY <1>2 DEF ListOf, Kept
  <1>6. ASSUME NEW k \in DOMAIN items
        PROVE  items[k] \in Items /\ HasVerdict(items[k])
    BY DEF MailsKnown, Digested
  <1>7. ASSUME NEW sender
        PROVE  LET ofSender == Digest!Rows(sender)'
               IN /\ \A i, j \in ofSender : i = j
                  /\ ofSender = {} => Digest!CountOf(shown, sender) = Digest!MailsOf(sender)
                  /\ \A i \in ofSender : Digest!CountOf(shown, sender) + counted[i].count
                       = Digest!MailsOf(sender)
                  /\ (\E i \in ofSender : counted[i].suspicious)
                       <=> \E k \in DOMAIN Digest!Out : Digest!From(Digest!Out[k]) = sender
                         /\ Digest!Out[k].suspicious
    <2> DEFINE ofSender == {i \in DOMAIN counted : counted[i].sender = sender}
    <2>1. /\ \A i, j \in ofSender : i = j
          /\ \A i \in ofSender : counted[i] = Digest!RowOf(sender)
          /\ ofSender = {} => \A k \in DOMAIN Digest!Out : Digest!From(Digest!Out[k]) # sender
          /\ ofSender # {} => \E k \in DOMAIN Digest!Out : Digest!From(Digest!Out[k]) = sender
      BY <1>3 DEF RowsTrue
    <2>2. Digest!CountOf(shown, sender) + Digest!CountOf(Digest!Out, sender)
            = Digest!MailsOf(sender)
      BY <1>1, KeptAndLeft
    <2>3. ofSender = Digest!Rows(sender)'
      BY DEF Digest!Rows
    <2>4. CASE ofSender = {}
      <3>1. {i \in DOMAIN Digest!Out : Digest!From(Digest!Out[i]) = sender} = {}
        BY <2>1, <2>4
      <3>2. Digest!CountOf(Digest!Out, sender) = 0
        BY <3>1, FS_EmptySet, DigestCounts DEF Digest!CountOf
      <3>3. Digest!CountOf(shown, sender) \in Nat
        <4>1. /\ IsFiniteSet({i \in Kept : Digest!From(items[i]) = sender})
              /\ Digest!CountOf(shown, sender)
                   = Cardinality({i \in Kept : Digest!From(items[i]) = sender})
          <5> HIDE DEF shown
          <5> QED
            BY <1>2 DEF ListOf
        <4> QED
          BY <4>1, FS_CardinalityType
      <3> HIDE DEF ofSender, shown, counted
      <3> QED
        BY <2>1, <2>2, <2>3, <2>4, <3>2, <3>3
    <2>5. CASE ofSender # {}
      <3>1. ASSUME NEW i \in ofSender
            PROVE  /\ counted[i].count = Digest!CountOf(Digest!Out, sender)
                   /\ counted[i].suspicious
                        <=> \E k \in DOMAIN Digest!Out : Digest!From(Digest!Out[k]) = sender
                          /\ Digest!Out[k].suspicious
        <4>1. counted[i] = Digest!RowOf(sender)
          BY <2>1
        <4> QED
          BY <4>1 DEF Digest!RowOf
      <3> HIDE DEF ofSender, shown, counted
      <3> QED
        BY <2>1, <2>2, <2>3, <2>5, <3>1
    <2> QED
      BY <2>4, <2>5
  <1>8. ASSUME NEW u \in Digest!Range(mails)
        PROVE  \E k \in DOMAIN items : items[k].uid = u
    BY DEF MailsKnown, Digested
  <1>9. ASSUME NEW sender
        PROVE  (\E k \in DOMAIN Digest!Out : Digest!From(Digest!Out[k])
          = sender /\ Digest!Out[k].suspicious)
                 <=> \E u \in Digest!Range(mails) :
                       Sender[u] = sender /\ Suspected(u)
    <2>1. ASSUME NEW k \in DOMAIN Digest!Out, Digest!From(Digest!Out[k])
            = sender, Digest!Out[k].suspicious
          PROVE  \E u \in Digest!Range(mails) : Sender[u] = sender /\ Suspected(u)
      <3>1. PICK i \in LeftOut : Digest!Out[k] = items[i]
        BY <1>2 DEF ListOf
      <3>2. /\ items[i] \in Items /\ HasVerdict(items[i]) /\ Digest!From(items[i]) = sender
            /\ items[i].suspicious
        BY <1>6, <2>1, <3>1 DEF LeftOut
      <3>3. items[i].uid \in Digest!Range(mails) /\ Sender[items[i].uid] = sender
        BY <3>2 DEF Items, Digest!From
      <3>4. PICK j \in DOMAIN byIndex : given[j] = items[i].uid
        BY <3>2 DEF HasVerdict
      <3>5. byIndex[j].suspicious
        BY <3>2, <3>4 DEF HasVerdict
      <3> QED
        BY <3>3, <3>4, <3>5 DEF Suspected
    <2>2. ASSUME NEW u \in Digest!Range(mails), Sender[u] = sender, Suspected(u)
          PROVE  \E k \in DOMAIN Digest!Out : Digest!From(Digest!Out[k]) = sender
            /\ Digest!Out[k].suspicious
      <3>1. PICK j \in DOMAIN byIndex : given[j] = u /\ byIndex[j].suspicious
        BY <2>2 DEF Suspected
      <3>2. PICK i \in DOMAIN items : items[i].uid = u
        BY <1>8
      <3>3. items[i].suspicious
        BY <1>6, <3>1, <3>2 DEF HasVerdict
      <3>4. i \in LeftOut
        BY <3>3 DEF LeftOut, Digest!Collapsed
      <3>5. PICK k \in DOMAIN Digest!Out : Digest!Out[k] = items[i]
        BY <1>2, <3>4 DEF ListOf
      <3> QED
        BY <2>2, <3>2, <3>3, <3>5 DEF Digest!From
    <2> QED
      BY <2>1, <2>2
  <1>10. ASSUME NEW k \in DOMAIN shown
         PROVE  /\ ~Digest!Judged(shown[k].uid, LAMBDA v : v.spam \/ v.suspicious)
                /\ ~Digest!Judged(shown[k].uid, LAMBDA v : v.importance # shown[k].importance)
    <2>1. PICK i \in DOMAIN items : ~Digest!Collapsed(items[i]) /\ shown[k] = items[i]
      BY <1>5
    <2>2. HasVerdict(items[i]) /\ ~items[i].spam /\ ~items[i].suspicious
      BY <1>6, <2>1 DEF Digest!Collapsed
    <2> HIDE DEF shown
    <2> QED
      BY <2>1, <2>2 DEF Digest!Judged, HasVerdict
  <1>11. ASSUME NEW u \in Digest!Range(mails),
                Digest!Judged(u, LAMBDA v : v.importance = "high" /\ ~v.spam /\ ~v.suspicious)
         PROVE  \E k \in DOMAIN shown : shown[k].uid = u
    <2>1. PICK j \in DOMAIN byIndex : /\ given[j] = u /\ byIndex[j].importance = "high"
                                     /\ ~byIndex[j].spam /\ ~byIndex[j].suspicious
      BY <1>11 DEF Digest!Judged
    <2>2. PICK i \in DOMAIN items : items[i].uid = u
      BY <1>8
    <2>3. items[i].importance = "high" /\ ~items[i].spam /\ ~items[i].suspicious
      BY <1>6, <2>1, <2>2 DEF HasVerdict
    <2>4. i \in Kept
      BY <2>3 DEF Kept, Digest!Collapsed
    <2>5. PICK k \in DOMAIN shown : shown[k] = items[i]
      BY <1>2, <2>4 DEF ListOf
    <2> QED
      BY <2>2, <2>5
  <1>12. ASSUME NEW k \in DOMAIN shown, NEW l \in DOMAIN shown, k < l
         PROVE  /\ shown[k].importance # shown[l].importance \/ shown[k].uid > shown[l].uid
                /\ shown[k].importance # "low" \/ shown[l].importance = "low"
                /\ shown[l].importance # "high" \/ shown[k].importance = "high"
    <2>1. PICK i \in Kept, j \in Kept : i < j /\ shown[k] = items[i] /\ shown[l] = items[j]
      BY <1>2, <1>12 DEF ListOf
    <2>2. i \in DOMAIN items /\ j \in DOMAIN items
      BY <2>1 DEF Kept
    <2>3. \/ Digest!Rank[items[i].importance] < Digest!Rank[items[j].importance]
          \/ items[i].importance = items[j].importance /\ items[i].uid > items[j].uid
      BY <2>1, <2>2 DEF MailsKnown, Digested
    <2>4. items[i].importance \in Digest!Importances /\ items[j].importance \in Digest!Importances
      BY <1>6, <2>2 DEF Items
    <2> HIDE DEF shown
    <2> QED
      BY <2>1, <2>3, <2>4 DEF Digest!Rank, Digest!Importances
  <1>13. uids' \cap present' \subseteq Digest!Range(mails')
    BY <1>4
  <1> HIDE DEF shown, counted
  <1>14. ASSUME NEW sender
         PROVE  LET ofSender == Digest!Rows(sender)'
                IN /\ \A i, j \in ofSender : i = j
                   /\ ofSender = {} => Digest!CountOf(shown, sender) = Digest!MailsOf(sender)'
                   /\ \A i \in ofSender : Digest!CountOf(shown, sender) + counted[i].count
                        = Digest!MailsOf(sender)'
                   /\ (\E i \in ofSender : counted[i].suspicious)
                        <=> \E u \in Digest!Range(mails') :
                              Sender[u] = sender /\ Suspected(u)'
    <2>1. \A u : Suspected(u)' <=> Suspected(u)
      BY <1>4 DEF Suspected
    <2>2. Digest!Range(mails') = Digest!Range(mails)
      BY <1>4
    <2> DEFINE ofSender == Digest!Rows(sender)'
    <2>3. /\ \A i, j \in ofSender : i = j
          /\ ofSender = {} => Digest!CountOf(shown, sender) = Digest!MailsOf(sender)
          /\ \A i \in ofSender : Digest!CountOf(shown, sender) + counted[i].count
               = Digest!MailsOf(sender)
          /\ (\E i \in ofSender : counted[i].suspicious)
               <=> \E k \in DOMAIN Digest!Out : Digest!From(Digest!Out[k]) = sender
                 /\ Digest!Out[k].suspicious
      BY <1>7
    <2> HIDE DEF ofSender
    <2>4. (\E i \in ofSender : counted[i].suspicious)
             <=> \E u \in Digest!Range(mails') : Sender[u] = sender /\ Suspected(u)'
      BY <1>9, <2>1, <2>2, <2>3
    <2>5. Digest!MailsOf(sender)' = Digest!MailsOf(sender)
      BY <2>2 DEF Digest!MailsOf
    <2> QED
      BY <2>3, <2>4, <2>5 DEF ofSender
  <1>15. ASSUME NEW sender
         PROVE  LET ofSender == Digest!Rows(sender)'
                IN /\ \A i, j \in ofSender : i = j
                   /\ ofSender = {} => Digest!CountOf(shown, sender) = Digest!MailsOf(sender)'
                   /\ \A i \in ofSender : Digest!CountOf(shown, sender) + counted[i].count
                        = Digest!MailsOf(sender)'
                   /\ (\E i \in ofSender : counted[i].suspicious)
                        <=> \E u \in Digest!Range(mails') :
                              /\ Sender[u] = sender
                              /\ \E i \in DOMAIN byIndex' : given'[i] = u /\ byIndex'[i].suspicious
    BY <1>14 DEF Suspected
  <1>16. ASSUME NEW k \in DOMAIN shown
         PROVE  /\ ~\E i \in DOMAIN byIndex' : /\ given'[i] = shown[k].uid
                                               /\ byIndex'[i].spam \/ byIndex'[i].suspicious
                /\ ~\E i \in DOMAIN byIndex' : /\ given'[i] = shown[k].uid
                                               /\ byIndex'[i].importance # shown[k].importance
    BY <1>4, <1>10 DEF Digest!Judged
  <1>17. ASSUME NEW u \in Digest!Range(mails'), NEW i \in DOMAIN byIndex', given'[i] = u,
                byIndex'[i].importance = "high", ~byIndex'[i].spam, ~byIndex'[i].suspicious
         PROVE  \E k \in DOMAIN shown : shown[k].uid = u
    <2>1. Digest!Judged(u, LAMBDA v : v.importance = "high" /\ ~v.spam /\ ~v.suspicious)
      BY <1>4, <1>17 DEF Digest!Judged
    <2>2. u \in Digest!Range(mails)
      BY <1>4, <1>17
    <2> QED
      BY <1>11, <2>1, <2>2
  <1> QED
    BY <1>12, <1>13, <1>15, <1>16, <1>17 DEF Digest!DigestSound, Digest!Judged, Digest!CountOf,
       shown, counted

\* The mails are in order, the newest first.
Sorted ==
  /\ Digest!Range(mails) \subseteq 1..DigestUid
  /\ DOMAIN mails = 1..Cardinality(Digest!Range(mails))
  /\ \A i, j \in DOMAIN mails : i < j => mails[i] > mails[j]

Newer == {p \in Digest!Range(mails) \X Digest!Range(mails) : p[1] > p[2]}

\* Descending puts the mails in order.
LEMMA Descends ==
  ASSUME Digest!MailDigestAssumption, Digest!Range(mails) \subseteq 1..DigestUid, mails'
    = Digest!Descending(mails)
  PROVE  Sorted' /\ Digest!Range(mails') = Digest!Range(mails)
  <1> DEFINE s == Digest!Range(mails)
  <1>1. IsFiniteSet(s) /\ s \subseteq Nat
    <2>1. IsFiniteSet(1..DigestUid)
      BY FS_Interval DEF Digest!MailDigestAssumption
    <2> QED
      BY <2>1, FS_Subset DEF Digest!MailDigestAssumption
  <1>2. Orders(Newer, s)
    BY <1>1 DEF Orders, Newer
  <1>3. mails' = Digest!InOrder(s, Newer)
    BY DEF Digest!Descending, Newer
  <1>4. Arranges(mails', s, Newer)
    <2> HIDE DEF s
    <2> QED
      BY <1>1, <1>2, <1>3, Arranged
  <1>5. Digest!Range(mails') = s
    <2> HIDE DEF s
    <2> QED
      BY <1>4 DEF Arranges, Digest!Range
  <1>6. ASSUME NEW i \in DOMAIN mails', NEW j \in DOMAIN mails', i < j
        PROVE  mails'[i] > mails'[j]
    <2>1. <<mails'[i], mails'[j]>> \in Newer
      BY <1>4, <1>6 DEF Arranges
    <2> QED
      BY <2>1 DEF Newer
  <1>7. DOMAIN mails' = 1..Cardinality(s)
    BY <1>4 DEF Arranges
  <1> QED
    BY <1>5, <1>6, <1>7 DEF Sorted

\* Merging gives every mail its verdict and sorts the items.
LEMMA Merges ==
  ASSUME Digest!MailDigestAssumption, Sorted, given = mails, DOMAIN byIndex \subseteq DOMAIN given,
         \A i \in DOMAIN byIndex : byIndex[i] \in Digest!Verdict, Digest!Merge
  PROVE  Digested'
  <1> DEFINE places == DOMAIN mails
             n == Cardinality(Digest!Range(mails))
             order == Digest!InOrder(places, Digest!ByImportance)
  <1>1. n \in Nat /\ places = 1..n /\ IsFiniteSet(places) /\ Cardinality(places) = n
    <2>1. DigestUid \in Int
      BY DEF Digest!MailDigestAssumption
    <2>2. IsFiniteSet(1..DigestUid)
      BY <2>1, FS_Interval
    <2>3. n \in Nat
      BY <2>2, FS_Subset, FS_CardinalityType DEF Sorted
    <2>4. places = 1..n
      BY DigestCounts DEF Sorted
    <2> HIDE DEF n, places
    <2>5. IsFiniteSet(1..n) /\ Cardinality(1..n) = n
      BY <2>3, FS_Interval
    <2> QED
      BY <2>3, <2>4, <2>5
  <1>2. ASSUME NEW i \in places
        PROVE  Digest!Merged[i] \in Items /\ Digest!Merged[i].uid = mails[i]
          /\ HasVerdict(Digest!Merged[i])
    <2> DEFINE verdict == IF i \in DOMAIN byIndex THEN byIndex[i] ELSE Digest!Unjudged
    <2>1. verdict \in Digest!Verdict
      BY DEF Digest!Unjudged, Digest!Verdict, Digest!Importances
    <2>2. Digest!Merged[i] = [uid |-> mails[i], importance |-> verdict.importance,
                       spam |-> verdict.spam, suspicious |-> verdict.suspicious]
      BY DEF Digest!Merged
    <2>3. mails[i] \in Digest!Range(mails)
      BY DEF Digest!Range
    <2>4. Digest!Merged[i] \in Items /\ Digest!Merged[i].uid = mails[i]
      <3> HIDE DEF verdict
      <3> QED
        BY <2>1, <2>2, <2>3 DEF Items, Digest!Verdict
    <2>5. ASSUME NEW j \in DOMAIN byIndex, given[j] = mails[i] PROVE i = j
      <3>1. i \in Int /\ j \in Int /\ j \in places
        BY <1>1, <1>2, <2>5
      <3>2. ~(i < j) /\ ~(j < i)
        <4>1. mails[i] \in Nat /\ mails[j] = mails[i]
          BY <2>3, <2>5 DEF Sorted, Digest!MailDigestAssumption
        <4> QED
          BY <3>1, <4>1 DEF Sorted
      <3> QED
        BY <3>1, <3>2
    <2>6. HasVerdict(Digest!Merged[i])
      <3>1. ASSUME NEW j \in DOMAIN byIndex, given[j] = Digest!Merged[i].uid
            PROVE  /\ byIndex[j].importance = Digest!Merged[i].importance
                   /\ byIndex[j].spam = Digest!Merged[i].spam
                   /\ byIndex[j].suspicious = Digest!Merged[i].suspicious
        BY <2>2, <2>5, <3>1
      <3>2. ASSUME Digest!Merged[i].spam \/ Digest!Merged[i].suspicious \/ Digest!Merged[i].importance # "medium"
            PROVE  \E j \in DOMAIN byIndex : given[j] = Digest!Merged[i].uid
        <4>1. i \in DOMAIN byIndex
          BY <2>2, <3>2 DEF Digest!Unjudged
        <4> QED
          BY <2>4, <4>1
      <3> QED
        BY <3>1, <3>2 DEF HasVerdict
    <2> QED
      BY <2>4, <2>6
  <1>3. Orders(Digest!ByImportance, places)
    <2>1. ASSUME NEW i \in places
          PROVE  Digest!Rank[Digest!Merged[i].importance] \in Nat /\ i \in Nat
      BY <1>1, <1>2 DEF Items, Digest!Importances, Digest!Rank
    <2> DEFINE rank == [i \in places |-> Digest!Rank[Digest!Merged[i].importance]]
    <2>2. Digest!ByImportance = {p \in places \X places :
                            rank[p[1]] < rank[p[2]] \/ (rank[p[1]] = rank[p[2]] /\ p[1] < p[2])}
      BY DEF Digest!ByImportance
    <2>3. \A i \in places : rank[i] \in Nat /\ i \in Nat
      BY <2>1
    <2> HIDE DEF rank, places
    <2> QED
      BY <2>2, <2>3 DEF Orders
  <1>4. Arranges(order, places, Digest!ByImportance)
    <2> HIDE DEF places
    <2> QED
      BY <1>1, <1>3, Arranged
  <1>5. items' = [k \in DOMAIN order |-> Digest!Merged[order[k]]]
          /\ UNCHANGED <<mails, given, byIndex>>
    BY DEF Digest!Merge
  <1>6. DOMAIN order = 1..n /\ DOMAIN items' = DOMAIN order
    <2> HIDE DEF order, places, n
    <2> QED
      BY <1>1, <1>4, <1>5 DEF Arranges
  <1> HIDE DEF order
  <1>7. ASSUME NEW k \in DOMAIN order
        PROVE  /\ order[k] \in places /\ items'[k] = Digest!Merged[order[k]]
               /\ items'[k] \in Items /\ items'[k].uid = mails[order[k]] /\ HasVerdict(items'[k])
    BY <1>2, <1>4, <1>5 DEF Arranges
  <1>8. ASSUME NEW u \in Digest!Range(mails) PROVE \E k \in DOMAIN order : items'[k].uid = u
    <2>1. PICK i \in places : mails[i] = u
      BY DEF Digest!Range
    <2>2. PICK k \in DOMAIN order : order[k] = i
      BY <1>4, <2>1 DEF Arranges
    <2> QED
      BY <1>7, <2>1, <2>2
  <1>9. ASSUME NEW k \in DOMAIN order, NEW l \in DOMAIN order, k < l
        PROVE  /\ items'[k].uid # items'[l].uid
               /\ \/ Digest!Rank[items'[k].importance] < Digest!Rank[items'[l].importance]
                  \/ items'[k].importance = items'[l].importance /\ items'[k].uid > items'[l].uid
    <2>1. order[k] # order[l] /\ <<order[k], order[l]>> \in Digest!ByImportance
      BY <1>4, <1>9 DEF Arranges
    <2>2. \/ Digest!Rank[items'[k].importance] < Digest!Rank[items'[l].importance]
          \/ /\ Digest!Rank[items'[k].importance] = Digest!Rank[items'[l].importance]
             /\ order[k] < order[l]
      BY <1>7, <2>1 DEF Digest!ByImportance
    <2>3. order[k] \in 1..n /\ order[l] \in 1..n
      BY <1>1, <1>7
    <2>4. /\ mails[order[k]] \in Nat /\ mails[order[l]] \in Nat
          /\ order[k] < order[l] => mails[order[k]] > mails[order[l]]
          /\ order[l] < order[k] => mails[order[l]] > mails[order[k]]
      <3>1. mails[order[k]] \in Digest!Range(mails) /\ mails[order[l]] \in Digest!Range(mails)
        BY <1>7 DEF Digest!Range
      <3> QED
        BY <1>7, <3>1 DEF Sorted, Digest!MailDigestAssumption
    <2>5. order[k] < order[l] \/ order[l] < order[k]
      BY <1>1, <2>1, <2>3
    <2>6. items'[k].importance \in Digest!Importances /\ items'[l].importance \in Digest!Importances
      BY <1>7 DEF Items
    <2>7. Digest!Rank[items'[k].importance] = Digest!Rank[items'[l].importance]
            => items'[k].importance = items'[l].importance
      BY <2>6 DEF Digest!Rank, Digest!Importances
    <2>8. items'[k].uid # items'[l].uid
      BY <1>7, <2>4, <2>5
    <2> QED
      BY <1>7, <2>2, <2>4, <2>7, <2>8
  <1>10. Items' = Items /\ \A it : HasVerdict(it)' <=> HasVerdict(it)
    BY <1>5 DEF Items, HasVerdict, Digest!Range
  <1>11. Digest!Range(mails') = Digest!Range(mails)
    BY <1>5
  <1> QED
    BY <1>6, <1>7, <1>8, <1>9, <1>10, <1>11 DEF Digested

\* The mails of the request, step by step.
DigestInv ==
  /\ unread \subseteq 1..DigestUid /\ uids \subseteq 1..DigestUid
  /\ step \in {"asked", "fetching", "classifying", "merging", "formatting"} => screen
       = Digest!Nothing
  /\ step = "asked" => mails = <<>> /\ uids = {}
  /\ step = "fetching" => mails \in Seq(uids)
  /\ step \in {"classifying", "merging", "formatting"} =>
       Sorted /\ given = mails /\ uids \cap present \subseteq Digest!Range(mails)
  /\ step = "merging" => /\ DOMAIN byIndex \subseteq DOMAIN given
                       /\ \A i \in DOMAIN byIndex : byIndex[i] \in Digest!Verdict
  /\ step = "formatting" => Digested
  /\ Digest!DigestSound

\* Without a mail there is nothing to be untrue.
NoMail == mails = <<>> /\ uids \cap present = {} /\ screen = Digest!Nothing

LEMMA NothingSound == NoMail => Digest!DigestSound
  <1> SUFFICES ASSUME NoMail PROVE Digest!DigestSound
    OBVIOUS
  <1>1. Digest!Range(mails) = {}
    BY DEF NoMail, Digest!Range
  <1>2. DOMAIN screen.listed = {}
    BY DEF NoMail, Digest!Nothing
  <1> QED
    BY <1>1, <1>2 DEF Digest!DigestSound, NoMail

LEMMA DigestBegins == ASSUME Digest!MailDigestAssumption, Digest!Init PROVE DigestInv
  <1>1. unread \subseteq 1..DigestUid /\ step = "asked" /\ uids = {} /\ mails = <<>>
          /\ screen = Digest!Nothing
    BY DEF Digest!Init
  <1>2. Digest!DigestSound
    BY <1>1 DEF Digest!DigestSound
  <1> QED
    BY <1>1, <1>2 DEF DigestInv

LEMMA DigestNext ==
  ASSUME Digest!MailDigestAssumption, DigestInv, Digest!Next \/ UNCHANGED digestVars
  PROVE  DigestInv'
  <1>1. CASE UNCHANGED digestVars
    <2>1. UNCHANGED <<unread, present, step, uids, mails, given, byIndex, items, screen>>
      BY <1>1 DEF digestVars
    <2>2. (Sorted' <=> Sorted) /\ (Digest!Range(mails) = Digest!Range(mails)')
      BY <2>1 DEF Sorted
    <2>3. Digested' <=> Digested
      <3>1. Items' = Items /\ \A it : HasVerdict(it)' <=> HasVerdict(it)
        BY <2>1, <2>2 DEF Items, HasVerdict
      <3> QED
        BY <2>1, <2>2, <3>1 DEF Digested
    <2>4. Digest!DigestSound' <=> Digest!DigestSound
      <3>1. /\ \A sender : Digest!Rows(sender)' = Digest!Rows(sender)
            /\ \A sender : Digest!MailsOf(sender)' = Digest!MailsOf(sender)
            /\ \A sender : Digest!CountOf(screen.listed, sender)'
                 = Digest!CountOf(screen.listed, sender)
        BY <2>1, <2>2 DEF Digest!Rows, Digest!MailsOf, Digest!CountOf
      <3> QED
        BY <2>1, <2>2, <3>1 DEF Digest!DigestSound, Digest!Judged
    <2> QED
      BY <2>1, <2>2, <2>3, <2>4 DEF DigestInv
  <1>2. CASE Digest!Search
    <2>1. /\ step = "asked" /\ uids' = Digest!Newest(unread) /\ step' \in {"shown", "fetching"}
          /\ UNCHANGED <<unread, present, mails, screen>>
          /\ mails = <<>> /\ screen = Digest!Nothing /\ unread \subseteq 1..DigestUid
      BY <1>2 DEF Digest!Search, DigestInv
    <2>2. uids' \subseteq unread
      BY <2>1 DEF Digest!Newest
    <2>3. step' = "shown" => uids' = {}
      BY <1>2, <2>2 DEF Digest!Search
    <2>4. mails' = <<>> /\ screen' = Digest!Nothing /\ mails' \in Seq(uids')
      BY <2>1
    <2>5. Digest!DigestSound'
      <3>1. CASE step' = "shown"
        <4>1. NoMail'
          BY <2>3, <2>4, <3>1 DEF NoMail
        <4> QED
          BY <4>1, NothingSound, PTL
      <3>2. CASE step' # "shown"
        BY <3>2 DEF Digest!DigestSound
      <3> QED
        BY <3>1, <3>2
    <2> QED
      BY <2>1, <2>2, <2>4, <2>5 DEF DigestInv
  <1>3. CASE Digest!Fetch
    <2>1. /\ step = "fetching" /\ mails \in Seq(uids)
          /\ UNCHANGED <<unread, present, step, uids, given, byIndex, items, screen>>
          /\ screen = Digest!Nothing
      BY <1>3 DEF Digest!Fetch, DigestInv
    <2>2. PICK u \in uids : mails' = Append(mails, u)
      BY <1>3 DEF Digest!Fetch
    <2>3. mails' \in Seq(uids)
      BY <2>1, <2>2
    <2> QED
      BY <2>1, <2>3 DEF DigestInv, Digest!DigestSound
  <1>4. CASE Digest!Give
    <2>1. /\ step = "fetching" /\ uids \cap present \subseteq Digest!Range(mails)
          /\ mails' = Digest!Descending(mails) /\ given' = mails'
          /\ step' = IF mails = <<>> THEN "shown" ELSE "classifying"
          /\ UNCHANGED <<unread, present, uids, byIndex, items, screen>>
          /\ mails \in Seq(uids) /\ screen = Digest!Nothing /\ uids \subseteq 1..DigestUid
      BY <1>4 DEF Digest!Give, DigestInv
    <2>2. Digest!Range(mails) \subseteq 1..DigestUid
      <3>1. \A i \in DOMAIN mails : mails[i] \in uids
        BY <2>1
      <3> QED
        BY <2>1, <3>1 DEF Digest!Range
    <2>3. Sorted' /\ Digest!Range(mails') = Digest!Range(mails)
      BY <2>1, <2>2, Descends
    <2>4. Digest!DigestSound'
      <3>1. CASE step' = "shown"
        <4>1. mails = <<>>
          BY <2>1, <3>1
        <4>2. Digest!Range(mails') = {}
          BY <2>3, <4>1 DEF Digest!Range
        <4>3. mails' = <<>>
          <5>1. DOMAIN mails' = {}
            BY <4>2 DEF Digest!Range
          <5>2. mails' = Digest!InOrder(Digest!Range(mails),
                    {p \in Digest!Range(mails) \X Digest!Range(mails) : p[1] > p[2]})
            BY <2>1 DEF Digest!Descending
          <5>3. mails' = [i \in {} |-> mails'[i]]
            BY <5>1, <5>2 DEF Digest!InOrder
          <5> QED
            BY <5>3
        <4>4. NoMail'
          BY <2>1, <2>3, <4>2, <4>3 DEF NoMail
        <4> QED
          BY <4>4, NothingSound, PTL
      <3>2. CASE step' # "shown"
        BY <3>2 DEF Digest!DigestSound
      <3> QED
        BY <3>1, <3>2
    <2> QED
      BY <1>4, <2>1, <2>3, <2>4 DEF DigestInv
  <1>5. CASE Digest!Classify
    <2>1. /\ step = "classifying" /\ step' = "merging"
          /\ UNCHANGED <<unread, present, uids, mails, given, items, screen>>
          /\ Sorted /\ given = mails /\ uids \cap present \subseteq Digest!Range(mails)
          /\ screen = Digest!Nothing /\ unread \subseteq 1..DigestUid /\ uids \subseteq 1..DigestUid
      BY <1>5 DEF Digest!Classify, DigestInv
    <2>2. PICK judged \in SUBSET DOMAIN given : byIndex' \in [judged -> Verdicts]
      BY <1>5 DEF Digest!Classify
    <2>3. DOMAIN byIndex' \subseteq DOMAIN given'
            /\ \A i \in DOMAIN byIndex' : byIndex'[i] \in Digest!Verdict
      BY <2>1, <2>2 DEF Digest!MailDigestAssumption
    <2>4. Sorted'
      BY <2>1 DEF Sorted
    <2> QED
      BY <2>1, <2>3, <2>4 DEF DigestInv, Digest!DigestSound
  <1>6. CASE Digest!Merge
    <2>1. /\ step = "merging" /\ step' = "formatting"
          /\ UNCHANGED <<unread, present, uids, mails, given, byIndex, screen>>
          /\ Sorted /\ given = mails /\ uids \cap present \subseteq Digest!Range(mails)
          /\ screen = Digest!Nothing /\ unread \subseteq 1..DigestUid /\ uids \subseteq 1..DigestUid
          /\ DOMAIN byIndex \subseteq DOMAIN given
          /\ \A i \in DOMAIN byIndex : byIndex[i] \in Digest!Verdict
      BY <1>6 DEF Digest!Merge, DigestInv
    <2>2. Digested'
      BY <1>6, <2>1, Merges
    <2>3. Sorted'
      BY <2>1 DEF Sorted
    <2> QED
      BY <2>1, <2>2, <2>3 DEF DigestInv, Digest!DigestSound
  <1>7. CASE Digest!Format
    <2>1. /\ step = "formatting" /\ step' = "shown"
          /\ UNCHANGED <<unread, present, uids, mails, given, byIndex, items>>
          /\ Sorted /\ Digested /\ uids \cap present \subseteq Digest!Range(mails)
          /\ unread \subseteq 1..DigestUid /\ uids \subseteq 1..DigestUid
      BY <1>7 DEF Digest!Format, DigestInv
    <2>2. MailsKnown
      BY <2>1 DEF MailsKnown, Sorted
    <2>3. Digest!DigestSound'
      BY <1>7, <2>1, <2>2, ShowsAll
    <2> QED
      BY <2>1, <2>3 DEF DigestInv
  <1>8. CASE Digest!Fails
    BY <1>8 DEF Digest!Fails, DigestInv, Digest!DigestSound
  <1>9. CASE Digest!Elsewhere
    <2>1. /\ step = "fetching" /\ UNCHANGED <<step, uids, mails, given, byIndex, items, screen>>
          /\ mails \in Seq(uids) /\ screen = Digest!Nothing
          /\ unread \subseteq 1..DigestUid /\ uids \subseteq 1..DigestUid
          /\ unread' \subseteq unread
      BY <1>9 DEF Digest!Elsewhere, DigestInv
    <2> QED
      BY <2>1 DEF DigestInv, Digest!DigestSound
  <1> QED
    BY <1>1, <1>2, <1>3, <1>4, <1>5, <1>6, <1>7, <1>8, <1>9 DEF Digest!Next, Digest!Handle


(***************************************************************************)
(* The pages of the log of activities (user-activity.repository.ts).       *)
(***************************************************************************)
\* The log is numbered in the order it was written.
LogTrue ==
  /\ IsFiniteSet(log) /\ now \in Nat
  /\ \A r \in log : r.id \in Nat /\ r.id <= Cardinality(log) /\ r.at \in Nat
  /\ \A r, q \in log : r.id = q.id => r = q
  /\ visible \subseteq {r.id : r \in log}

\* Rows on the pages so far are not younger than the cursor; those of the list that are on
\* none of them are older than it, or fell out with the millisecond of a page's end.
FellOut(id) ==
  \E i \in 1..Len(pages) : \E last \in pages[i] :
    /\ \A other \in pages[i] : Activity!Time(last) <= Activity!Time(other)
    /\ Activity!Milli(Activity!Time(last)) = Activity!Milli(Activity!Time(id))

PagesOrdered ==
  \A i, j \in 1..Len(pages) : i < j =>
    \A young \in pages[i], old \in pages[j] :
      young # old /\ Activity!Time(young) >= Activity!Time(old)

PlaceTrue ==
  list.more => /\ list.cursor \in Nat
               /\ \A i \in 1..Len(pages) : \A id \in pages[i] : Activity!Time(id) >= list.cursor
               /\ began \subseteq Activity!Of(list.of)

BeganSeen ==
  \A id \in began : \/ \E i \in 1..Len(pages) : id \in pages[i]
                    \/ FellOut(id)
                    \/ list.more /\ Activity!Time(id) < list.cursor

PagesTrue ==
  /\ pages \in Seq(SUBSET visible) /\ began \subseteq visible
  /\ PagesOrdered /\ PlaceTrue /\ BeganSeen

PagesInv == LogTrue /\ PagesTrue

LEMMA PagesInit == ASSUME Activity!Init PROVE PagesInv
<1>1. LogTrue
  BY FS_EmptySet DEF Activity!Init, LogTrue
<1>2. PagesTrue
  BY DEF Activity!Init, Activity!NoList, PagesTrue, PagesOrdered, PlaceTrue, BeganSeen
<1> QED
  BY <1>1, <1>2 DEF PagesInv

\* A time between the beginning of a millisecond and a time of it is of it.
LEMMA SameMilli ==
  ASSUME NEW g \in Nat \ {0}, NEW m \in Nat, NEW t \in Nat, g * (m \div g) <= t, t <= m
  PROVE  m \div g = t \div g
<1> DEFINE a == m \div g
           b == t \div g
<1>1. a \in Nat /\ b \in Nat
  OBVIOUS
<1>2. g * a <= m /\ m < g * a + g /\ g * b <= t /\ t < g * b + g
  OBVIOUS
<1>3. ~(a < b)
  <2>1. ASSUME a < b PROVE FALSE
    <3>1. g * b >= g * (a + 1)
      BY <1>1, <2>1
    <3> QED
      BY <1>1, <1>2, <3>1
  <2> QED
    BY <2>1
<1>4. ~(b < a)
  <2>1. ASSUME b < a PROVE FALSE
    <3>1. g * a >= g * (b + 1)
      BY <1>1, <2>1
    <3> QED
      BY <1>1, <1>2, <3>1
  <2> QED
    BY <2>1
<1> QED
  BY <1>1, <1>3, <1>4

\* A row is found by its number, and has a time.
LEMMA RowFound ==
  ASSUME LogTrue, NEW r \in log
  PROVE  Activity!Row(r.id) = r /\ Activity!Time(r.id) = r.at
<1>1. \A q \in log : q.id = r.id => q = r
  BY DEF LogTrue
<1>2. Activity!Row(r.id) \in log /\ Activity!Row(r.id).id = r.id
  BY DEF Activity!Row
<1> QED
  BY <1>1, <1>2 DEF Activity!Time

LEMMA TimeOfRow ==
  ASSUME LogTrue, NEW id \in visible
  PROVE  \E r \in log : r.id = id /\ Activity!Time(id) = r.at /\ r.at \in Nat
<1>1. PICK r \in log : r.id = id
  BY DEF LogTrue
<1> QED
  BY <1>1, RowFound DEF LogTrue

LEMMA VisibleFinite == ASSUME LogTrue PROVE IsFiniteSet(visible)
<1>1. Cardinality(log) \in Nat
  BY FS_CardinalityType DEF LogTrue
<1>2. \A id \in visible : id \in Nat /\ id <= Cardinality(log)
  BY DEF LogTrue
<1> QED
  BY <1>1, <1>2, FS_BoundedSetOfNaturals

\* What is shown stays true while rows are written and committed and time passes.
LEMMA PagesKept ==
  ASSUME LogTrue, PagesTrue, UNCHANGED <<list, pages, began>>, visible \subseteq visible',
         \A id \in visible : Activity!Time(id)' = Activity!Time(id),
         \A x : Activity!Of(x) \subseteq Activity!Of(x)'
  PROVE  PagesTrue'
<1>1. pages' \in Seq(SUBSET visible') /\ Len(pages') = Len(pages)
  <2>1. pages \in Seq(SUBSET visible')
    BY SeqDef DEF PagesTrue, PagesOrdered, PlaceTrue, BeganSeen
  <2> QED
    BY <2>1
<1>2. \A i \in 1..Len(pages) : pages[i] \subseteq visible
  BY DEF PagesTrue, PagesOrdered, PlaceTrue, BeganSeen
<1>3. \A i \in 1..Len(pages) : \A id \in pages[i] : Activity!Time(id)' = Activity!Time(id)
  BY <1>2
<1>4. \A i, j \in 1..Len(pages') : i < j =>
        \A young \in pages'[i], old \in pages'[j] :
          young # old /\ Activity!Time(young)' >= Activity!Time(old)'
  BY <1>3 DEF PagesTrue, PagesOrdered, PlaceTrue, BeganSeen
<1>5. list'.more =>
        /\ list'.cursor \in Nat
        /\ \A i \in 1..Len(pages') : \A id \in pages'[i] : Activity!Time(id)' >= list'.cursor
        /\ began' \subseteq Activity!Of(list.of)'
  BY <1>3 DEF PagesTrue, PagesOrdered, PlaceTrue, BeganSeen
<1>6. \A id \in began : id \in visible /\ Activity!Time(id)' = Activity!Time(id)
  BY DEF PagesTrue, PagesOrdered, PlaceTrue, BeganSeen
<1>7. ASSUME NEW id \in began, FellOut(id) PROVE FellOut(id)'
  <2>1. PICK i \in 1..Len(pages) : \E last \in pages[i] :
          /\ \A other \in pages[i] : Activity!Time(last) <= Activity!Time(other)
          /\ Activity!Milli(Activity!Time(last)) = Activity!Milli(Activity!Time(id))
    BY <1>7 DEF FellOut
  <2>2. PICK last \in pages[i] :
          /\ \A other \in pages[i] : Activity!Time(last) <= Activity!Time(other)
          /\ Activity!Milli(Activity!Time(last)) = Activity!Milli(Activity!Time(id))
    BY <2>1
  <2> QED
    BY <1>3, <1>6, <2>2 DEF FellOut, Activity!Milli
<1> QED
  BY <1>1, <1>4, <1>5, <1>6, <1>7 DEF PagesTrue, PagesOrdered, PlaceTrue, BeganSeen

\* A row that is written has a number of its own, and leaves the others what they are.
LEMMA RowWritten ==
  ASSUME LogTrue, NEW u \in LogUsers, Activity!Track(u)
  PROVE  /\ LogTrue' /\ \A id \in visible : Activity!Time(id)' = Activity!Time(id)
         /\ \A x : Activity!Of(x) \subseteq Activity!Of(x)'
<1>1. Cardinality(log) \in Nat
  BY FS_CardinalityType DEF LogTrue
<1>2. PICK action : log' = log \cup {[id |-> Cardinality(log) + 1, user |-> u,
                                      company |-> WrittenFor[u], action |-> action, at |-> now]}
  BY DEF Activity!Track, Activity!Cardinality, Cardinality
<1>3. PICK row1 : /\ row1.id = Cardinality(log) + 1 /\ row1.at = now
                  /\ log' = log \cup {row1}
  BY <1>2
<1>4. row1 \notin log
  BY <1>1, <1>3 DEF LogTrue
<1>5. IsFiniteSet(log') /\ Cardinality(log') = Cardinality(log) + 1
  BY <1>3, <1>4, FS_AddElement DEF LogTrue
<1>6. UNCHANGED <<now, visible>>
  BY DEF Activity!Track
<1>7. LogTrue'
  <2>1. \A r \in log' : r.id \in Nat /\ r.id <= Cardinality(log') /\ r.at \in Nat
    BY <1>1, <1>3, <1>5 DEF LogTrue
  <2>2. \A r, q \in log' : r.id = q.id => r = q
    BY <1>1, <1>3 DEF LogTrue
  <2>3. visible' \subseteq {r.id : r \in log'}
    BY <1>3, <1>6 DEF LogTrue
  <2> QED
    BY <1>5, <1>6, <2>1, <2>2, <2>3 DEF LogTrue
<1>8. ASSUME NEW id \in visible PROVE Activity!Time(id)' = Activity!Time(id)
  <2>1. PICK r \in log : r.id = id /\ Activity!Time(id) = r.at
    BY TimeOfRow
  <2>2. \A q \in log' : q.id = id => q = r
    BY <1>3, <1>7, <2>1 DEF LogTrue
  <2>3. Activity!Row(id)' \in log' /\ Activity!Row(id)'.id = id
    BY <1>3, <2>1 DEF Activity!Row
  <2> QED
    BY <2>1, <2>2, <2>3 DEF Activity!Time
<1>9. \A x : Activity!Of(x) \subseteq Activity!Of(x)'
  BY <1>3 DEF Activity!Of
<1> QED
  BY <1>7, <1>8, <1>9

\* The page that is cut from the rows of a list is the whole of them, or has a least row.
LEMMA PageCut ==
  ASSUME Activity!ActivityLogAssumption, LogTrue, NEW shown \in SUBSET visible,
         NEW page \in Activity!kSubset(IF Cardinality(shown) > PageLimit
                                         THEN PageLimit ELSE Cardinality(shown), shown),
         page # shown
  PROVE  \E last \in page : /\ \A other \in page : Activity!Time(last) <= Activity!Time(other)
                            /\ Activity!Min({Activity!Time(id) : id \in page})
                                 = Activity!Time(last)
<1>1. IsFiniteSet(shown) /\ IsFiniteSet(page) /\ page \subseteq shown
  BY VisibleFinite, FS_Subset DEF Activity!kSubset
<1>2. Cardinality(page) = IF Cardinality(shown) > PageLimit THEN PageLimit
                                                          ELSE Cardinality(shown)
  BY DEF Activity!kSubset, Activity!Cardinality, Cardinality
<1>3. Cardinality(page) # Cardinality(shown)
  BY <1>1, FS_Subset
<1>4. page # {}
  <2>1. Cardinality(page) = PageLimit /\ PageLimit # 0
    BY <1>2, <1>3 DEF Activity!ActivityLogAssumption
  <2> QED
    BY <2>1, FS_EmptySet
<1> DEFINE times == {Activity!Time(id) : id \in page}
<1>5. \A id \in page : Activity!Time(id) \in Nat
  BY <1>1, TimeOfRow
<1>6. times \in SUBSET Nat /\ times # {}
  BY <1>4, <1>5
<1>7. PICK least \in times : \A t \in times : least <= t
  <2> HIDE DEF times
  <2> QED
    BY <1>6, LeastOf
<1>8. Activity!Min(times) \in times /\ \A t \in times : Activity!Min(times) <= t
  <2> HIDE DEF times
  <2> QED
    BY <1>7 DEF Activity!Min
<1>9. PICK last \in page : Activity!Min(times) = Activity!Time(last)
  BY <1>8
<1> QED
  BY <1>8, <1>9

\* The rows a page is cut from.
Remaining(x, before) == {id \in Activity!Listed(x) : before # None => Activity!Time(id) < before}

\* A page of a list continues what was shown of it: its rows are older than the cursor.
LEMMA PageContinues ==
  ASSUME Activity!ActivityLogAssumption, PagesInv, Activity!NextPage
  PROVE  PagesTrue'
<1> DEFINE x == list.of
           rest == Remaining(list.of, list.cursor)
<1>0. PagesTrue /\ LogTrue /\ list.more /\ None \notin Nat
  BY DEF PagesInv, Activity!NextPage, Activity!ActivityLogAssumption
<1>1. PICK cursor0 \in Nat : cursor0 = list.cursor /\ cursor0 # None
  BY <1>0 DEF PagesTrue, PagesOrdered, PlaceTrue, BeganSeen
<1>2. /\ rest \subseteq visible
      /\ \A id \in rest : Activity!Time(id) < cursor0
      /\ \A id \in visible : id \in Activity!Of(x) /\ Activity!Time(id) < cursor0 => id \in rest
  BY <1>1 DEF Remaining, Activity!Listed
<1>3. PICK page \in Activity!kSubset(IF Cardinality(rest) > PageLimit
                                       THEN PageLimit ELSE Cardinality(rest), rest) :
        /\ \A id \in page, other \in rest \ page : Activity!Time(id) >= Activity!Time(other)
        /\ pages' = Append(pages, page)
        /\ list' = IF page # rest
                     THEN [of |-> x, more |-> TRUE,
                           cursor |-> Grain * Activity!Milli(
                                        Activity!Min({Activity!Time(id) : id \in page}))]
                     ELSE [of |-> x, cursor |-> None, more |-> FALSE]
        /\ UNCHANGED <<now, log, visible, began>>
  <2>1. PICK page \in Activity!kSubset(
              IF Activity!Cardinality(rest) > PageLimit
                THEN PageLimit ELSE Activity!Cardinality(rest), rest) :
        /\ \A id \in page, other \in rest \ page : Activity!Time(id) >= Activity!Time(other)
        /\ pages' = IF list.cursor = None THEN <<page>> ELSE Append(pages, page)
        /\ list' = IF page # rest
                     THEN [of |-> x, more |-> TRUE,
                           cursor |-> Grain * Activity!Milli(
                                        Activity!Min({Activity!Time(id) : id \in page}))]
                     ELSE [of |-> x, cursor |-> None, more |-> FALSE]
        /\ UNCHANGED <<now, log, visible, began>>
    BY DEF Activity!NextPage, Activity!Page, Remaining
  <2>2. Activity!Cardinality(rest) = Cardinality(rest)
    BY DEF Activity!Cardinality, Cardinality
  <2> QED
    BY <1>1, <2>1, <2>2
<1> HIDE DEF rest
<1>4. page \subseteq rest
  BY <1>3 DEF Activity!kSubset
<1>5. \A id \in visible : Activity!Time(id) \in Nat /\ Activity!Time(id)' = Activity!Time(id)
  <2>1. \A id : Activity!Time(id)' = Activity!Time(id)
    BY <1>3 DEF Activity!Time, Activity!Row
  <2> QED
    BY <1>0, <2>1, TimeOfRow
<1>6. Len(pages) \in Nat /\ \A i \in 1..Len(pages) : pages[i] \subseteq visible
  BY <1>0 DEF PagesTrue, PagesOrdered, PlaceTrue, BeganSeen
<1>7. /\ pages' \in Seq(SUBSET visible') /\ Len(pages') = Len(pages) + 1
      /\ \A i \in 1..Len(pages) : pages'[i] = pages[i]
      /\ pages'[Len(pages) + 1] = page
  <2>1. pages \in Seq(SUBSET visible) /\ page \in SUBSET visible
    BY <1>0, <1>2, <1>4 DEF PagesTrue, PagesOrdered, PlaceTrue, BeganSeen
  <2> QED
    BY <1>3, <2>1, AppendProperties
<1>8. ASSUME NEW i \in 1..Len(pages'), NEW j \in 1..Len(pages'), i < j,
             NEW young \in pages'[i], NEW old \in pages'[j]
      PROVE  young # old /\ Activity!Time(young)' >= Activity!Time(old)'
  <2>1. i \in 1..Len(pages) /\ young \in pages[i] /\ young \in visible
    BY <1>6, <1>7, <1>8
  <2>2. CASE j \in 1..Len(pages)
    <3>1. old \in pages[j] /\ old \in visible
      BY <1>6, <1>7, <2>2
    <3> QED
      BY <1>0, <1>5, <1>8, <2>1, <2>2, <3>1 DEF PagesTrue, PagesOrdered, PlaceTrue, BeganSeen
  <2>3. CASE j = Len(pages) + 1
    <3>1. old \in visible /\ Activity!Time(old) < cursor0
      BY <1>2, <1>4, <1>7, <2>3
    <3>2. Activity!Time(young) >= cursor0
      BY <1>0, <1>1, <2>1 DEF PagesTrue, PagesOrdered, PlaceTrue, BeganSeen
    <3> QED
      BY <1>5, <2>1, <3>1, <3>2
  <2> QED
    BY <1>6, <1>7, <2>2, <2>3
<1>9. PagesOrdered'
  BY <1>8 DEF PagesOrdered
<1>10. ASSUME NEW id \in began
      PROVE  \/ \E i \in 1..Len(pages') : id \in pages'[i]
             \/ FellOut(id)'
             \/ id \in rest \ page
  <2>0. id \in visible
    BY <1>0 DEF PagesTrue, PagesOrdered, PlaceTrue, BeganSeen
  <2>1. CASE \E i \in 1..Len(pages) : id \in pages[i]
    BY <1>6, <1>7, <2>1
  <2>2. CASE FellOut(id)
    <3>1. PICK i \in 1..Len(pages) : \E last \in pages[i] :
            /\ \A other \in pages[i] : Activity!Time(last) <= Activity!Time(other)
            /\ Activity!Milli(Activity!Time(last)) = Activity!Milli(Activity!Time(id))
      BY <2>2 DEF FellOut
    <3>2. PICK last \in pages[i] :
            /\ \A other \in pages[i] : Activity!Time(last) <= Activity!Time(other)
            /\ Activity!Milli(Activity!Time(last)) = Activity!Milli(Activity!Time(id))
      BY <3>1
    <3>3. \A other \in pages[i] : Activity!Time(other)' = Activity!Time(other)
      BY <1>5, <1>6
    <3>4. i \in 1..Len(pages') /\ pages'[i] = pages[i]
      BY <1>6, <1>7
    <3> QED
      BY <1>5, <2>0, <3>2, <3>3, <3>4 DEF FellOut, Activity!Milli
  <2>3. CASE list.more /\ Activity!Time(id) < list.cursor
    <3>1. id \in rest
      BY <1>0, <1>1, <1>2, <2>0, <2>3 DEF PagesTrue, PagesOrdered, PlaceTrue, BeganSeen
    <3> QED
      BY <1>6, <1>7, <3>1
  <2> QED
    BY <1>0, <2>1, <2>2, <2>3 DEF PagesTrue, PagesOrdered, PlaceTrue, BeganSeen
<1>11. CASE page = rest
  <2>1. ~list'.more
    BY <1>3, <1>11
  <2>2. \A id \in began' : \/ \E i \in 1..Len(pages') : id \in pages'[i]
                           \/ FellOut(id)'
    BY <1>3, <1>10, <1>11
  <2>3. began' \subseteq visible'
    BY <1>0, <1>3 DEF PagesTrue, PagesOrdered, PlaceTrue, BeganSeen
  <2> QED
    BY <1>7, <1>9, <2>1, <2>2, <2>3 DEF PagesTrue, PlaceTrue, BeganSeen
<1>12. CASE page # rest
  <2>1. PICK last \in page :
          /\ \A other \in page : Activity!Time(last) <= Activity!Time(other)
          /\ Activity!Min({Activity!Time(id) : id \in page}) = Activity!Time(last)
    BY <1>0, <1>2, <1>3, <1>12, PageCut
  <2>2. PICK m \in Nat : m = Activity!Time(last)
    BY <1>2, <1>4, <1>5
  <2>3. PICK edge \in Nat : edge = Grain * (m \div Grain)
    BY DEF Activity!ActivityLogAssumption
  <2>4. edge <= m /\ m < cursor0
    <3>1. Grain \in Nat \ {0}
      BY DEF Activity!ActivityLogAssumption
    <3>2. edge <= m
      BY <2>3, <3>1
    <3> QED
      BY <1>2, <1>4, <2>2, <3>2
  <2>5. list'.more /\ list'.of = x /\ list'.cursor = edge
    BY <1>3, <1>12, <2>1, <2>2, <2>3 DEF Activity!Milli
  <2>6. ASSUME NEW i \in 1..Len(pages'), NEW id \in pages'[i] PROVE Activity!Time(id)' >= edge
    <3>1. CASE i \in 1..Len(pages)
      <4>1. id \in visible /\ Activity!Time(id) >= cursor0
        BY <1>0, <1>1, <1>6, <1>7, <3>1 DEF PagesTrue, PagesOrdered, PlaceTrue, BeganSeen
      <4> QED
        BY <1>5, <2>4, <4>1
    <3>2. CASE i = Len(pages) + 1
      <4>1. id \in page /\ id \in visible
        BY <1>2, <1>4, <1>7, <3>2
      <4> QED
        BY <1>5, <2>1, <2>2, <2>4, <4>1
    <3> QED
      BY <1>6, <1>7, <3>1, <3>2
  <2>7. began' \subseteq Activity!Of(list.of)' /\ began' \subseteq visible'
    BY <1>0, <1>3, <2>5 DEF PagesTrue, PlaceTrue, Activity!Of
  <2>8. ASSUME NEW id \in rest \ page PROVE FellOut(id)' \/ Activity!Time(id)' < edge
    <3>1. id \in visible /\ Activity!Time(id) <= m
      BY <1>2, <1>3, <2>1, <2>2
    <3>2. PICK t \in Nat : t = Activity!Time(id) /\ t = Activity!Time(id)'
      BY <1>5, <3>1
    <3>3. CASE edge <= t
      <4>1. m \div Grain = t \div Grain
        BY <2>2, <2>3, <3>1, <3>2, <3>3, SameMilli DEF Activity!ActivityLogAssumption
      <4>2. Len(pages) + 1 \in 1..Len(pages') /\ last \in pages'[Len(pages) + 1]
        BY <1>6, <1>7
      <4>3. \A other \in page : Activity!Time(other)' = Activity!Time(other)
        BY <1>2, <1>4, <1>5
      <4>4. Activity!Milli(Activity!Time(last))' = Activity!Milli(Activity!Time(id))'
        BY <2>2, <3>2, <4>1, <4>3 DEF Activity!Milli
      <4> QED
        BY <1>7, <2>1, <4>2, <4>3, <4>4 DEF FellOut
    <3> QED
      BY <3>2, <3>3
  <2>9. \A id \in began' : \/ \E i \in 1..Len(pages') : id \in pages'[i]
                           \/ FellOut(id)'
                           \/ list'.more /\ Activity!Time(id)' < list'.cursor
    BY <1>3, <1>10, <2>5, <2>8
  <2>10. PlaceTrue'
    BY <2>5, <2>6, <2>7 DEF PlaceTrue
  <2>11. BeganSeen'
    BY <2>9 DEF BeganSeen
  <2> QED
    BY <1>7, <1>9, <2>7, <2>10, <2>11 DEF PagesTrue
<1> QED
  BY <1>11, <1>12

\* The first page of a list begins it anew.
LEMMA PageOpens ==
  ASSUME Activity!ActivityLogAssumption, PagesInv, NEW x, Activity!FirstPage(x)
  PROVE  PagesTrue'
<1> DEFINE rest == Activity!Listed(x)
<1>0. LogTrue
  BY DEF PagesInv
<1>1. PICK page \in Activity!kSubset(IF Cardinality(rest) > PageLimit
                                       THEN PageLimit ELSE Cardinality(rest), rest) :
        /\ \A id \in page, other \in rest \ page : Activity!Time(id) >= Activity!Time(other)
        /\ pages' = <<page>>
        /\ list' = IF page # rest
                     THEN [of |-> x, more |-> TRUE,
                           cursor |-> Grain * Activity!Milli(
                                        Activity!Min({Activity!Time(id) : id \in page}))]
                     ELSE [of |-> x, cursor |-> None, more |-> FALSE]
        /\ UNCHANGED <<now, log, visible>> /\ began' = rest
  <2>1. rest = {id \in Activity!Listed(x) : None # None => Activity!Time(id) < None}
    OBVIOUS
  <2>2. Activity!Cardinality(rest) = Cardinality(rest)
    BY DEF Activity!Cardinality, Cardinality
  <2> HIDE DEF rest
  <2> QED
    BY <2>1, <2>2 DEF Activity!FirstPage, Activity!Page, rest
<1>2. rest \subseteq visible /\ rest \subseteq Activity!Of(x)
  BY DEF Activity!Listed
<1> HIDE DEF rest
<1>3. page \subseteq rest
  BY <1>1 DEF Activity!kSubset
<1>4. \A id \in visible : Activity!Time(id) \in Nat /\ Activity!Time(id)' = Activity!Time(id)
  <2>1. \A id : Activity!Time(id)' = Activity!Time(id)
    BY <1>1 DEF Activity!Time, Activity!Row
  <2> QED
    BY <1>0, <2>1, TimeOfRow
<1>5. /\ pages' \in Seq(SUBSET visible') /\ Len(pages') = 1 /\ pages'[1] = page
      /\ began' \subseteq visible'
  BY <1>1, <1>2, <1>3
<1>6. PagesOrdered'
  BY <1>5 DEF PagesOrdered
<1>7. CASE page = rest
  <2>1. ~list'.more
    BY <1>1, <1>7
  <2>2. BeganSeen'
    BY <1>1, <1>5, <1>7 DEF BeganSeen
  <2> QED
    BY <1>5, <1>6, <2>1, <2>2 DEF PagesTrue, PlaceTrue
<1>8. CASE page # rest
  <2>1. PICK last \in page :
          /\ \A other \in page : Activity!Time(last) <= Activity!Time(other)
          /\ Activity!Min({Activity!Time(id) : id \in page}) = Activity!Time(last)
    BY <1>0, <1>1, <1>2, <1>8, PageCut
  <2>2. PICK m \in Nat : m = Activity!Time(last)
    BY <1>2, <1>3, <1>4
  <2>3. PICK edge \in Nat : edge = Grain * (m \div Grain)
    BY DEF Activity!ActivityLogAssumption
  <2>4. edge <= m
    BY <2>3 DEF Activity!ActivityLogAssumption
  <2>5. list'.more /\ list'.of = x /\ list'.cursor = edge
    BY <1>1, <1>8, <2>1, <2>2, <2>3 DEF Activity!Milli
  <2>6. \A i \in 1..Len(pages') : \A id \in pages'[i] : Activity!Time(id)' >= edge
    BY <1>2, <1>3, <1>4, <1>5, <2>1, <2>2, <2>4
  <2>7. Activity!Of(list.of)' = Activity!Of(x)
    BY <1>1, <2>5 DEF Activity!Of
  <2>8. ASSUME NEW id \in rest \ page PROVE FellOut(id)' \/ Activity!Time(id)' < edge
    <3>1. id \in visible /\ Activity!Time(id) <= m
      BY <1>1, <1>2, <2>1, <2>2
    <3>2. PICK t \in Nat : t = Activity!Time(id) /\ t = Activity!Time(id)'
      BY <1>4, <3>1
    <3>3. CASE edge <= t
      <4>1. m \div Grain = t \div Grain
        BY <2>2, <2>3, <3>1, <3>2, <3>3, SameMilli DEF Activity!ActivityLogAssumption
      <4>2. \A other \in page : Activity!Time(other)' = Activity!Time(other)
        BY <1>2, <1>3, <1>4
      <4>3. Activity!Milli(Activity!Time(last))' = Activity!Milli(Activity!Time(id))'
        BY <2>2, <3>2, <4>1, <4>2 DEF Activity!Milli
      <4> QED
        BY <1>5, <2>1, <4>2, <4>3 DEF FellOut
    <3> QED
      BY <3>2, <3>3
  <2>9. BeganSeen'
    BY <1>1, <1>5, <2>5, <2>8 DEF BeganSeen
  <2>10. PlaceTrue'
    BY <1>1, <1>2, <2>5, <2>6, <2>7 DEF PlaceTrue
  <2> QED
    BY <1>5, <1>6, <2>9, <2>10 DEF PagesTrue
<1> QED
  BY <1>7, <1>8

LEMMA PagesNext ==
  ASSUME Activity!ActivityLogAssumption, PagesInv, Activity!Next \/ UNCHANGED activityVars
  PROVE  PagesInv'
<1>0. LogTrue /\ PagesTrue
  BY DEF PagesInv
<1>1. ASSUME NEW u \in LogUsers, Activity!Track(u) PROVE PagesInv'
  <2>1. UNCHANGED <<visible, list, pages, began>>
    BY <1>1 DEF Activity!Track
  <2> QED
    BY <1>0, <1>1, <2>1, RowWritten, PagesKept DEF PagesInv
<1>2. ASSUME log' = log, now' \in Nat, UNCHANGED <<list, pages, began>>,
             visible \subseteq visible', visible' \subseteq {r.id : r \in log}
      PROVE  PagesInv'
  <2>1. LogTrue'
    BY <1>0, <1>2 DEF LogTrue
  <2>2. \A id : Activity!Time(id)' = Activity!Time(id)
    BY <1>2 DEF Activity!Time, Activity!Row
  <2>3. \A x : Activity!Of(x)' = Activity!Of(x)
    BY <1>2 DEF Activity!Of
  <2> QED
    BY <1>0, <1>2, <2>1, <2>2, <2>3, PagesKept DEF PagesInv
<1>3. ASSUME NEW id \in 1..LogRows, Activity!Commit(id) PROVE PagesInv'
  BY <1>0, <1>2, <1>3 DEF Activity!Commit, LogTrue
<1>4. CASE Activity!Tick
  BY <1>0, <1>2, <1>4 DEF Activity!Tick, LogTrue
<1>5. ASSUME NEW x \in LogUsers \cup Companies, Activity!FirstPage(x) PROVE PagesInv'
  <2>1. UNCHANGED <<now, log, visible>>
    BY <1>5 DEF Activity!FirstPage, Activity!Page
  <2>2. LogTrue'
    BY <1>0, <2>1 DEF LogTrue
  <2> QED
    BY <1>5, <2>2, PageOpens DEF PagesInv
<1>6. CASE Activity!NextPage
  <2>1. UNCHANGED <<now, log, visible>>
    BY <1>6 DEF Activity!NextPage, Activity!Page
  <2>2. LogTrue'
    BY <1>0, <2>1 DEF LogTrue
  <2> QED
    BY <1>6, <2>2, PageContinues DEF PagesInv
<1>7. CASE UNCHANGED activityVars
  BY <1>0, <1>2, <1>7 DEF activityVars, LogTrue
<1> QED
  BY <1>1, <1>3, <1>4, <1>5, <1>6, <1>7 DEF Activity!Next

LEMMA PagesAreSound == PagesInv => Activity!PagesSound
<1> SUFFICES ASSUME PagesInv PROVE Activity!PagesSound
  OBVIOUS
<1>1. PagesTrue /\ DOMAIN pages = 1..Len(pages)
  BY DEF PagesInv, PagesTrue
<1>2. ASSUME ~list.more, NEW id \in began \ UNION {pages[i] : i \in DOMAIN pages}
      PROVE  \E i \in DOMAIN pages : \E last \in pages[i] :
               /\ \A other \in pages[i] : Activity!Time(last) <= Activity!Time(other)
               /\ Activity!Milli(Activity!Time(last)) = Activity!Milli(Activity!Time(id))
  <2>1. \A i \in 1..Len(pages) : id \notin pages[i]
    BY <1>1, <1>2
  <2>2. FellOut(id)
    BY <1>1, <1>2, <2>1 DEF PagesTrue, BeganSeen
  <2> QED
    BY <1>1, <2>2 DEF FellOut
<1> QED
  BY <1>1, <1>2 DEF PagesTrue, PagesOrdered, Activity!PagesSound

(***************************************************************************)
(* The totals of the logins (user-activity.repository.ts).                 *)
(***************************************************************************)
\* The size of a set, and whether it is finite, are the same whichever module asks.
LEMMA LogCounts ==
  \A s : /\ Activity!Cardinality(s) = Cardinality(s)
         /\ Activity!IsFiniteSet(s) <=> IsFiniteSet(s)
BY DEF Activity!Cardinality, Cardinality, Activity!IsFiniteSet, IsFiniteSet

\* A column adds up to the number of the things it counts.
LEMMA TotalCounts ==
  ASSUME NEW field, NEW entries, NEW things, Counts([entry \in entries |-> entry[field]], entries, things)
  PROVE  Activity!Total(field, entries) = Cardinality(Together(entries, things))
<1> DEFINE w == [entry \in entries |-> entry[field]]
           Is(f) == f = [s \in SUBSET entries |->
                           IF s = {} THEN 0
                           ELSE (CHOOSE x \in s : TRUE)[field] + f[s \ {CHOOSE x \in s : TRUE}]]
<1>1. Activity!Total(field, entries) = (CHOOSE f : Is(f))[entries]
  BY DEF Activity!Total, Activity!MapThenSumSet, Activity!MapThenFoldSet
<1>2. ASSUME NEW f PROVE Is(f) <=> Adds(f, w, entries)
  <2>1. ASSUME NEW s \in SUBSET entries, s # {}
        PROVE  w[CHOOSE x \in s : TRUE] = (CHOOSE x \in s : TRUE)[field]
    <3>1. (CHOOSE x \in s : TRUE) \in entries
      BY <2>1
    <3> QED
      BY <3>1
  <2> QED
    BY <2>1 DEF Adds
<1>3. PICK g : Adds(g, w, entries)
  BY AddsExists DEF Counts
<1>4. Adds(CHOOSE f : Is(f), w, entries)
  <2> HIDE DEF Is, w
  <2> QED
    BY <1>2, <1>3
<1> HIDE DEF Is
<1> QED
  BY <1>1, <1>4, SumCounts

\* What an external user did is his alone, and is all that was done.
LEMMA DidTrue ==
  ASSUME Activity!ActivityLogAssumption, LogTrue, NEW u \in External, NEW action, NEW since, NEW until
  PROVE  Activity!Did(u, action, since, until) =
           {id \in visible : /\ Activity!Row(id).user = u /\ Activity!Row(id).action = action
                             /\ Activity!Within(id, since, until)}
<1>1. u \in LogUsers
  BY DEF Activity!ActivityLogAssumption
<1>2. ASSUME NEW id \in visible PROVE id \in Activity!Of(u) <=> Activity!Row(id).user = u
  <2>1. PICK r \in log : r.id = id
    BY DEF LogTrue
  <2>2. Activity!Row(id) = r
    BY <2>1, RowFound
  <2>3. \A q \in log : q.id = id => q = r
    BY <2>1 DEF LogTrue
  <2>4. Activity!Of(u) = {q.id : q \in {p \in log : p.user = u}}
    BY <1>1 DEF Activity!Of
  <2> QED
    BY <2>1, <2>2, <2>3, <2>4
<1> HIDE DEF Activity!ActivityLogAssumption
<1> QED
  BY <1>2 DEF Activity!Did, Activity!Listed

\* As many as are written down, if no two are written down as one.
LEMMA ImageCount ==
  ASSUME NEW S, IsFiniteSet(S), NEW T, NEW f,
         \A x \in S : f[x] \in T, \A y \in T : \E x \in S : f[x] = y,
         \A x, y \in S : f[x] = f[y] => x = y
  PROVE  IsFiniteSet(T) /\ Cardinality(T) = Cardinality(S)
<1> DEFINE g == [x \in S |-> f[x]]
<1>1. g \in [S -> T] /\ \A x \in S : g[x] = f[x]
  OBVIOUS
<1> HIDE DEF g
<1>2. g \in Bijection(S, T)
  BY <1>1 DEF Bijection, Injection, Surjection, IsInjective
<1> QED
  BY <1>2, FS_Bijection DEF ExistsBijection

\* The logins of external users in a period, who they are and whose.
LoginsIn(since, until) ==
  {id \in visible : /\ Activity!Row(id).user \in External /\ Activity!Row(id).action = "LOGIN"
                    /\ Activity!Within(id, since, until)}
WhoLogged(ids) == {Activity!Row(id).user : id \in ids}
FirmsOf(ids) == {CompanyOf[Activity!Row(id).user] : id \in ids}

\* The report is that of the log, whatever the period.
LEMMA ReportTrue ==
  ASSUME Activity!ActivityLogAssumption, LogTrue, NEW since, NEW until
  PROVE  LET logins == LoginsIn(since, until)
             totals == Activity!Totals(since, until)
         IN  /\ totals.logins = Cardinality(logins)
             /\ totals.users = Cardinality(External)
             /\ totals.active = Cardinality(WhoLogged(logins))
             /\ totals.activeCompanies = Cardinality(FirmsOf(logins))
<1> DEFINE logins == {id \in visible : /\ Activity!Row(id).user \in External
                                       /\ Activity!Row(id).action = "LOGIN"
                                       /\ Activity!Within(id, since, until)}
           LoginsOf(u) == Activity!Did(u, "LOGIN", since, until)
           Person(u) == Activity!PartnerRow(u, since, until)
           users == {Person(u) : u \in External}
           of(c) == {p \in users : p.company = c}
           firms == {p.company : p \in users}
           RowOf(c) == [company |-> c, users |-> Cardinality(of(c)),
                        logins |-> Activity!Total("logins", of(c)),
                        active |-> Cardinality({p \in of(c) : p.logins > 0})]
           entries == {RowOf(c) : c \in firms}
           loginsOf == [p \in users |-> LoginsOf(p.user)]
<1>1. /\ Activity!Totals(since, until).logins = Activity!Total("logins", entries)
      /\ Activity!Totals(since, until).users = Activity!Total("users", entries)
      /\ Activity!Totals(since, until).active = Activity!Total("active", entries)
      /\ Activity!Totals(since, until).activeCompanies = Cardinality({r \in entries : r.logins > 0})
  <2>1. entries = Activity!CompanyRows(since, until)
    BY DEF Activity!CompanyRows, Activity!Cardinality, Cardinality
  <2> HIDE DEF entries
  <2> QED
    BY <2>1, LogCounts DEF Activity!Totals
<1>2. IsFiniteSet(External) /\ IsFiniteSet(visible)
  BY VisibleFinite, LogCounts DEF Activity!ActivityLogAssumption
<1>3. \A u \in External :
        /\ LoginsOf(u) = {id \in logins : Activity!Row(id).user = u}
        /\ IsFiniteSet(LoginsOf(u)) /\ Cardinality(LoginsOf(u)) \in Nat
        /\ Cardinality(LoginsOf(u)) > 0 <=> LoginsOf(u) # {}
  <2> TAKE u \in External
  <2>1. LoginsOf(u) = {id \in logins : Activity!Row(id).user = u}
    BY DidTrue
  <2>2. LoginsOf(u) \in SUBSET visible
    BY <2>1
  <2> HIDE DEF LoginsOf
  <2>3. IsFiniteSet(LoginsOf(u))
    BY <1>2, <2>2, FS_Subset
  <2>4. Cardinality(LoginsOf(u)) \in Nat /\ (Cardinality(LoginsOf(u)) = 0 <=> LoginsOf(u) = {})
    BY <2>3, FS_CardinalityType, FS_EmptySet
  <2> QED
    BY <2>1, <2>3, <2>4
<1>4. \A u \in External : /\ Person(u).user = u /\ Person(u).company = CompanyOf[u]
                           /\ Person(u).logins = Cardinality(LoginsOf(u))
  BY LogCounts DEF Activity!PartnerRow
<1>5. IsFiniteSet(users) /\ Cardinality(users) = Cardinality(External)
  <2> DEFINE f == [u \in External |-> Person(u)]
  <2>1. \A u \in External : f[u] = Person(u)
    OBVIOUS
  <2>2. \A p \in users : \E u \in External : f[u] = p
    OBVIOUS
  <2>3. \A u \in External : f[u] \in users
    OBVIOUS
  <2>4. \A u, v \in External : f[u] = f[v] => u = v
    BY <1>4, <2>1
  <2> HIDE DEF f, users, Person
  <2> QED
    BY <1>2, <2>2, <2>3, <2>4, ImageCount
<1>6. \A p \in users : /\ p.user \in External /\ loginsOf[p] = LoginsOf(p.user)
                        /\ IsFiniteSet(loginsOf[p]) /\ p.logins = Cardinality(loginsOf[p])
                        /\ p.company = CompanyOf[p.user] /\ p = Person(p.user)
  <2> TAKE p \in users
  <2>1. PICK u \in External : p = Person(u)
    OBVIOUS
  <2>2. loginsOf[p] = LoginsOf(p.user)
    OBVIOUS
  <2> HIDE DEF Person, LoginsOf, loginsOf
  <2> QED
    BY <1>3, <1>4, <2>1, <2>2
<1>7. \A p, q \in users : p # q => loginsOf[p] \cap loginsOf[q] = {}
  <2> TAKE p, q \in users
  <2>1. p.user = q.user => p = q
    BY <1>6
  <2>2. loginsOf[p] = {id \in logins : Activity!Row(id).user = p.user}
    BY <1>3, <1>6
  <2>3. loginsOf[q] = {id \in logins : Activity!Row(id).user = q.user}
    BY <1>3, <1>6
  <2> QED
    BY <2>1, <2>2, <2>3
\* Of the rows of one company.
<1>8. \A c \in firms : /\ IsFiniteSet(of(c)) /\ IsFiniteSet(UNION {loginsOf[p] : p \in of(c)})
                        /\ RowOf(c).logins = Cardinality(UNION {loginsOf[p] : p \in of(c)})
  <2> TAKE c \in firms
  <2> DEFINE piece == of(c)
  <2>1. piece \in SUBSET users
    OBVIOUS
  <2>2. RowOf(c).logins = Activity!Total("logins", piece)
    OBVIOUS
  <2>3. \A p \in piece : IsFiniteSet(loginsOf[p]) /\ p["logins"] = Cardinality(loginsOf[p])
    BY <1>6, <2>1
  <2>4. \A p, q \in piece : p # q => loginsOf[p] \cap loginsOf[q] = {}
    BY <1>7, <2>1
  <2> HIDE DEF piece, RowOf, loginsOf, users
  <2>5. IsFiniteSet(piece)
    BY <1>5, <2>1, FS_Subset
  <2>6. Counts([p \in piece |-> p["logins"]], piece, loginsOf)
    BY <2>3, <2>4, <2>5 DEF Counts
  <2>7. IsFiniteSet(Together(piece, loginsOf))
    <3>1. PICK f : Adds(f, [p \in piece |-> p["logins"]], piece)
      BY <2>5, AddsExists
    <3> QED
      BY <2>6, <3>1, SumCounts
  <2>8. Activity!Total("logins", piece) = Cardinality(Together(piece, loginsOf))
    BY <2>6, TotalCounts
  <2> QED
    BY <2>2, <2>5, <2>7, <2>8 DEF piece, Together
<1>9. IsFiniteSet(firms) /\ IsFiniteSet(entries)
  <2> DEFINE f == [p \in users |-> p.company]
             g == [c \in firms |-> RowOf(c)]
  <2>1. f \in [users -> firms] /\ \A c \in firms : \E p \in users : f[p] = c
    <3> HIDE DEF users
    <3> QED
      OBVIOUS
  <2>2. g \in [firms -> entries] /\ \A r \in entries : \E c \in firms : g[c] = r
    <3> HIDE DEF firms, RowOf
    <3> QED
      OBVIOUS
  <2> HIDE DEF users, firms, entries, f, g
  <2>3. f \in Surjection(users, firms) /\ g \in Surjection(firms, entries)
    BY <2>1, <2>2 DEF Surjection
  <2>4. IsFiniteSet(firms)
    BY <1>5, <2>3, FS_Surjection
  <2> QED
    BY <2>3, <2>4, FS_Surjection
<1>10. \A r \in entries : /\ r.company \in firms /\ r = RowOf(r.company)
                        /\ r.users = Cardinality(of(r.company))
                        /\ r.active = Cardinality({p \in of(r.company) : p.logins > 0})
  <2> TAKE r \in entries
  <2>1. PICK c \in firms : r = RowOf(c)
    <3> HIDE DEF firms, RowOf
    <3> QED
      OBVIOUS
  <2>2. RowOf(c).company = c
    OBVIOUS
  <2>3. /\ RowOf(c).users = Cardinality(of(c))
        /\ RowOf(c).active = Cardinality({p \in of(c) : p.logins > 0})
    <3> HIDE DEF of
    <3> QED
      OBVIOUS
  <2> HIDE DEF RowOf, of, firms
  <2> QED
    BY <2>1, <2>2, <2>3
\* Logins.
<1>11. Activity!Total("logins", entries) = Cardinality(logins)
  <2> DEFINE things == [r \in entries |-> UNION {loginsOf[p] : p \in of(r.company)}]
  <2>1. \A r \in entries : IsFiniteSet(things[r]) /\ r["logins"] = Cardinality(things[r])
    <3> TAKE r \in entries
    <3>1. things[r] = UNION {loginsOf[p] : p \in of(r.company)}
      OBVIOUS
    <3> HIDE DEF entries, RowOf, of, firms, loginsOf, things
    <3> QED
      BY <1>8, <1>10, <3>1
  <2>2. \A r, q \in entries : r # q => things[r] \cap things[q] = {}
    <3> TAKE r, q \in entries
    <3>1. r.company = q.company => r = q
      <4> HIDE DEF entries, RowOf
      <4> QED
        BY <1>10
    <3>2. /\ things[r] = UNION {loginsOf[p] : p \in of(r.company)}
          /\ things[q] = UNION {loginsOf[p] : p \in of(q.company)}
      OBVIOUS
    <3>3. \A x \in of(r.company), y \in of(q.company) :
             x \in users /\ y \in users /\ x.company = r.company /\ y.company = q.company
      OBVIOUS
    <3> HIDE DEF entries, RowOf, of, firms, loginsOf, things, users
    <3> QED
      BY <1>7, <3>1, <3>2, <3>3
  <2>3. UNION {things[r] : r \in entries} = logins
    <3>1. \A r \in entries : \A id \in things[r] : id \in logins
      <4> TAKE r \in entries
      <4>1. things[r] = UNION {loginsOf[p] : p \in of(r.company)}
        OBVIOUS
      <4>2. of(r.company) \subseteq users
        OBVIOUS
      <4> HIDE DEF entries, RowOf, of, firms, loginsOf, things, users, LoginsOf, logins
      <4> QED
        BY <1>3, <1>6, <4>1, <4>2
    <3>2. \A id \in logins : \E r \in entries : id \in things[r]
      <4> TAKE id \in logins
      <4> DEFINE u == Activity!Row(id).user
                 p == Person(u)
                 r == RowOf(p.company)
      <4>1. u \in External /\ p \in users /\ id \in LoginsOf(u)
        BY <1>3
      <4>2. r \in entries /\ r.company = p.company /\ p \in of(r.company)
        BY <4>1
      <4>3. things[r] = UNION {loginsOf[q] : q \in of(r.company)}
        BY <4>2
      <4>4. loginsOf[p] = LoginsOf(u)
        BY <1>4, <1>6, <4>1
      <4> HIDE DEF entries, RowOf, of, firms, loginsOf, things, users, LoginsOf, u, p, r
      <4> QED
        BY <4>1, <4>2, <4>3, <4>4
    <3> HIDE DEF entries, things, logins
    <3> QED
      BY <3>1, <3>2
  <2> HIDE DEF entries, things, logins
  <2>4. Counts([r \in entries |-> r["logins"]], entries, things)
    BY <1>9, <2>1, <2>2 DEF Counts
  <2>5. Activity!Total("logins", entries) = Cardinality(Together(entries, things))
    BY <2>4, TotalCounts
  <2> QED
    BY <2>3, <2>5 DEF Together
\* Users, and those of them who were there.
<1>12. ASSUME NEW field, NEW some \in SUBSET users,
              \A r \in entries : r[field] = Cardinality({p \in of(r.company) : p \in some})
       PROVE  Activity!Total(field, entries) = Cardinality(some)
  <2> DEFINE things == [r \in entries |-> {p \in of(r.company) : p \in some}]
  <2>1. \A r \in entries : IsFiniteSet(things[r]) /\ r[field] = Cardinality(things[r])
    <3> TAKE r \in entries
    <3>1. things[r] = {p \in of(r.company) : p \in some} /\ things[r] \in SUBSET users
      OBVIOUS
    <3> HIDE DEF entries, of, things, users
    <3> QED
      BY <1>5, <1>12, <3>1, FS_Subset
  <2>2. \A r, q \in entries : r # q => things[r] \cap things[q] = {}
    <3> TAKE r, q \in entries
    <3>1. r.company = q.company => r = q
      <4> HIDE DEF entries, RowOf
      <4> QED
        BY <1>10
    <3>2. /\ \A p \in things[r] : p.company = r.company
          /\ \A p \in things[q] : p.company = q.company
      OBVIOUS
    <3> HIDE DEF entries, things
    <3> QED
      BY <3>1, <3>2
  <2>3. UNION {things[r] : r \in entries} = some
    <3>1. \A r \in entries : things[r] \subseteq some
      OBVIOUS
    <3>2. \A p \in some : \E r \in entries : p \in things[r]
      <4> TAKE p \in some
      <4> DEFINE r == RowOf(p.company)
      <4>1. p \in users /\ r \in entries /\ r.company = p.company /\ p \in of(r.company)
        BY <1>12
      <4> QED
        BY <4>1
    <3> HIDE DEF entries, things
    <3> QED
      BY <3>1, <3>2
  <2> HIDE DEF entries, things
  <2>4. Counts([r \in entries |-> r[field]], entries, things)
    BY <1>9, <2>1, <2>2 DEF Counts
  <2>5. Activity!Total(field, entries) = Cardinality(Together(entries, things))
    BY <2>4, TotalCounts
  <2> QED
    BY <2>3, <2>5 DEF Together
<1>13. Activity!Total("users", entries) = Cardinality(External)
  <2>1. \A r \in entries : of(r.company) = {p \in of(r.company) : p \in users}
    OBVIOUS
  <2>2. \A r \in entries : r["users"] = Cardinality({p \in of(r.company) : p \in users})
    <3> HIDE DEF entries, of, users
    <3> QED
      BY <1>10, <2>1
  <2> HIDE DEF entries, of, users
  <2>3. Activity!Total("users", entries) = Cardinality(users)
    BY <1>12, <2>2
  <2> QED
    BY <1>5, <2>3
<1> DEFINE there == {p \in users : p.logins > 0}
<1>14. Activity!Total("active", entries) = Cardinality(there)
  <2>1. \A r \in entries : {p \in of(r.company) : p.logins > 0}
          = {p \in of(r.company) : p \in there}
    OBVIOUS
  <2>2. there \in SUBSET users
    OBVIOUS
  <2> HIDE DEF entries, of, users, there
  <2>3. \A r \in entries : r["active"] = Cardinality({p \in of(r.company) : p \in there})
    BY <1>10, <2>1
  <2> QED
    BY <1>12, <2>2, <2>3
<1>15. \A p \in users : p.logins > 0 <=> \E id \in logins : Activity!Row(id).user = p.user
  <2> TAKE p \in users
  <2>1. p.user \in External /\ p.logins = Cardinality(LoginsOf(p.user))
    BY <1>6
  <2>2. p.logins > 0 <=> LoginsOf(p.user) # {}
    <3> HIDE DEF LoginsOf
    <3> QED
      BY <1>3, <2>1
  <2>3. LoginsOf(p.user) = {id \in logins : Activity!Row(id).user = p.user}
    BY <1>3, <2>1
  <2> HIDE DEF LoginsOf, logins
  <2> QED
    BY <2>2, <2>3
<1>16. Cardinality(there) = Cardinality({Activity!Row(id).user : id \in logins})
  <2> DEFINE f == [p \in there |-> p.user]
             active == {Activity!Row(id).user : id \in logins}
  <2>1. IsFiniteSet(there)
    <3>1. there \in SUBSET users
      OBVIOUS
    <3> HIDE DEF there, users
    <3> QED
      BY <1>5, <3>1, FS_Subset
  <2>2. \A p \in there : f[p] \in active
    BY <1>15
  <2>3. \A u \in active : \E p \in there : f[p] = u
    <3> TAKE u \in active
    <3>1. u \in External
      OBVIOUS
    <3>2. Person(u) \in users /\ Person(u).user = u
      BY <1>4, <3>1
    <3>3. Person(u) \in there
      BY <1>15, <3>2
    <3> HIDE DEF Person, users
    <3> QED
      BY <3>2, <3>3
  <2>4. \A p, q \in there : f[p] = f[q] => p = q
    <3>1. \A p \in there : p \in users /\ f[p] = p.user
      OBVIOUS
    <3> HIDE DEF there, users, Person, f
    <3> QED
      BY <1>6, <3>1
  <2> HIDE DEF there, f, active
  <2>5. Cardinality(active) = Cardinality(there)
    BY <2>1, <2>2, <2>3, <2>4, ImageCount
  <2> QED
    BY <2>5 DEF active
\* The companies whose users were there.
<1>17. \A r \in entries : r.logins > 0 <=> \E id \in logins : CompanyOf[Activity!Row(id).user]
         = r.company
  <2> TAKE r \in entries
  <2> DEFINE all == UNION {loginsOf[p] : p \in of(r.company)}
  <2>1. IsFiniteSet(all) /\ r.logins = Cardinality(all)
    <3> HIDE DEF entries, RowOf, of, firms, loginsOf
    <3> QED
      BY <1>8, <1>10
  <2>2. r.logins > 0 <=> all # {}
    <3> HIDE DEF all
    <3> QED
      BY <2>1, FS_CardinalityType, FS_EmptySet
  <2>3. of(r.company) = {p \in users : p.company = r.company}
    OBVIOUS
  <2>4. ASSUME NEW id \in all PROVE id \in logins /\ CompanyOf[Activity!Row(id).user] = r.company
    <3>1. PICK p \in users : p.company = r.company /\ id \in loginsOf[p]
      OBVIOUS
    <3> HIDE DEF all, users, loginsOf, LoginsOf, logins
    <3> QED
      BY <1>3, <1>6, <3>1
  <2>5. ASSUME NEW id \in logins, CompanyOf[Activity!Row(id).user] = r.company PROVE id \in all
    <3> DEFINE u == Activity!Row(id).user
               p == Person(u)
    <3>1. u \in External /\ p \in users /\ p.company = CompanyOf[u] /\ p.user = u
      BY <1>4
    <3>2. id \in LoginsOf(u) /\ loginsOf[p] = LoginsOf(u)
      <4>1. u \in External
        BY <3>1
      <4>2. LoginsOf(u) = {x \in logins : Activity!Row(x).user = u}
        BY <1>3, <4>1
      <4>3. loginsOf[p] = LoginsOf(p.user)
        BY <1>6, <3>1
      <4> HIDE DEF LoginsOf, loginsOf, p, logins
      <4> QED
        BY <3>1, <4>2, <4>3
    <3>3. p \in of(r.company)
      BY <2>5, <3>1
    <3> HIDE DEF u, p, of, LoginsOf, loginsOf
    <3> QED
      BY <3>2, <3>3
  <2> HIDE DEF all, logins
  <2> QED
    BY <2>2, <2>4, <2>5
<1>18. Cardinality({r \in entries : r.logins > 0})
         = Cardinality({CompanyOf[Activity!Row(id).user] : id \in logins})
  <2> DEFINE busy == {r \in entries : r.logins > 0}
             f == [r \in busy |-> r.company]
             names == {CompanyOf[Activity!Row(id).user] : id \in logins}
  <2>1. IsFiniteSet(busy)
    <3> HIDE DEF entries
    <3>1. busy \in SUBSET entries
      OBVIOUS
    <3> HIDE DEF busy
    <3> QED
      BY <1>9, <3>1, FS_Subset
  <2>2. \A r \in busy : r \in entries /\ f[r] = r.company
    <3> HIDE DEF entries
    <3> QED
      OBVIOUS
  <2>3. \A r \in busy : f[r] \in names
    <3> HIDE DEF entries, logins
    <3> QED
      BY <1>17
  <2>4. \A c \in names : \E r \in busy : f[r] = c
    <3> TAKE c \in names
    <3>1. PICK id \in logins : c = CompanyOf[Activity!Row(id).user]
      OBVIOUS
    <3>2. Activity!Row(id).user \in External
      OBVIOUS
    <3>3. Person(Activity!Row(id).user) \in users /\ Person(Activity!Row(id).user).company = c
      BY <1>4, <3>1, <3>2
    <3>4. c \in firms
      <4> HIDE DEF users, Person
      <4> QED
        BY <3>3
    <3>5. RowOf(c) \in entries /\ RowOf(c).company = c
      <4> HIDE DEF firms
      <4> QED
        BY <3>4
    <3> HIDE DEF entries, RowOf, logins
    <3>6. RowOf(c) \in busy
      BY <1>17, <3>1, <3>5
    <3> HIDE DEF busy, f
    <3> QED
      BY <2>2, <3>5, <3>6
  <2>5. \A r, q \in busy : f[r] = f[q] => r = q
    <3> HIDE DEF entries, busy, f, RowOf
    <3> QED
      BY <1>10, <2>2
  <2> HIDE DEF busy, f, names
  <2>6. Cardinality(names) = Cardinality(busy)
    BY <2>1, <2>3, <2>4, <2>5, ImageCount
  <2> QED
    BY <2>6 DEF busy, names
<1> HIDE DEF entries, logins, there
<1> QED
  BY <1>1, <1>11, <1>13, <1>14, <1>16, <1>18 DEF logins, LoginsIn, WhoLogged, FirmsOf

(***************************************************************************)
(* Tender: what TenderTypes leaves open.                                    *)
(***************************************************************************)
TenderTyped == broken <= TenderFaults /\ halves \subseteq TenderUploads

LEMMA TenderTypedInit ==
  ASSUME Tender!TenderFilesAssumption, Tender!Init PROVE TenderTyped
BY DEF Tender!Init, TenderTyped, Tender!TenderFilesAssumption

LEMMA TenderTypedNext ==
  ASSUME Tender!TenderFilesAssumption, TenderTypes, TenderTyped, Tender!Next \/ UNCHANGED tenderVars
  PROVE  TenderTyped'
<1>0. TenderFaults \in Nat /\ broken \in Nat
  BY DEF Tender!TenderFilesAssumption, TenderTypes
<1>1. ASSUME broken < TenderFaults, broken' = broken + 1, halves' \subseteq TenderUploads
      PROVE  TenderTyped'
  BY <1>0, <1>1 DEF TenderTyped
<1>2. ASSUME NEW s \in Saves, Tender!DeleteRowFails(s) \/ Tender!SaveRowFails(s)
      PROVE  TenderTyped'
  <2>1. save[s].at \in {"deleteRow", "saveRow"}
    BY <1>2 DEF Tender!DeleteRowFails, Tender!SaveRowFails, Tender!At
  <2>2. save[s].file \in TenderUploads
    BY <2>1 DEF TenderTypes, SaveForm
  <2> QED
    BY <1>1, <1>2, <2>2 DEF Tender!DeleteRowFails, Tender!SaveRowFails, Tender!Fault, TenderTyped
<1>3. ASSUME NEW s \in Saves,
             Tender!SaveFails(s) \/ Tender!DeleteObjectFails(s) \/ Tender!UploadFails(s)
      PROVE  TenderTyped'
  BY <1>1, <1>3 DEF Tender!SaveFails, Tender!DeleteObjectFails, Tender!UploadFails, TenderTyped
<1>4. CASE Tender!Crash
  <2>1. {save[s].file : s \in Saves} \ {None} \subseteq TenderUploads
    BY DEF TenderTypes, SaveForm
  <2> QED
    BY <1>1, <1>4, <2>1 DEF Tender!Crash, TenderTyped
<1>5. CASE UNCHANGED <<broken, halves>>
  BY <1>5 DEF TenderTyped
<1>6. UNCHANGED tenderVars => UNCHANGED <<broken, halves>>
  BY DEF tenderVars
<1> QED
  BY <1>2, <1>3, <1>4, <1>5, <1>6 DEF Tender!Next, Tender!OpenForm, Tender!ListFiles,
     Tender!DeleteObject, Tender!DeleteRow, Tender!Upload, Tender!SaveRow, Tender!Answer,
     Tender!NoFault

LEMMA TenderTypeOK == ASSUME TenderTypes, TenderTyped PROVE Tender!TypeOK
<1>1. broken \in 0..TenderFaults
  BY DEF TenderTypes, TenderTyped
<1> QED
  BY <1>1 DEF TenderTypes, TenderTyped, SaveForm, Tender!TypeOK

(***************************************************************************)
(* Campaign: what CampaignTypes leaves open.                                *)
(***************************************************************************)
CampaignTyped ==
  /\ status \in [Addresses -> {"PENDING", "PROCESSING", "DONE", "FAILED", "GONE"}]
  /\ campaign \in {"none", "RUNNING", "PAUSED"} /\ held \in BOOLEAN
  /\ deleting \in {"no", "rows", "done"}

LEMMA CampaignTypedInit == ASSUME Campaign!Init PROVE CampaignTyped
BY DEF Campaign!Init, CampaignTyped

LEMMA CampaignTypedNext ==
  ASSUME CampaignTyped, Campaign!Next \/ UNCHANGED campaignVars PROVE CampaignTyped'
<1> USE DEF CampaignTyped
<1>1. ASSUME NEW g \in Starts, \/ Campaign!StartMailing(g) \/ Campaign!SaveFiles(g)
                               \/ Campaign!ResetStuck(g)
                               \/ Campaign!Register(g) \/ Campaign!Enqueue(g)
      PROVE  CampaignTyped'
  BY <1>1 DEF Campaign!StartMailing, Campaign!SaveFiles, Campaign!ResetStuck,
     Campaign!Register, Campaign!Enqueue
<1>2. CASE Campaign!Pause \/ Campaign!DeleteMailing \/ Campaign!RemoveDirectory
  BY <1>2 DEF Campaign!Pause, Campaign!DeleteMailing, Campaign!RemoveDirectory
<1>3. CASE \/ \E r \in Addresses : Campaign!Pick(r)
           \/ \E n \in FileNames : Campaign!ReadFile(n)
  BY <1>3 DEF Campaign!Pick, Campaign!ReadFile
<1>4. CASE Campaign!ReadDirectory
  BY <1>4 DEF Campaign!ReadDirectory, Campaign!SetStatus
<1>5. CASE Campaign!Send \/ Campaign!SendFails
  BY <1>5 DEF Campaign!Send, Campaign!SendFails, Campaign!Finish, Campaign!SetStatus
<1>6. CASE Campaign!HandleFileCleanup \/ Campaign!Crash \/ UNCHANGED campaignVars
  BY <1>6 DEF Campaign!HandleFileCleanup, Campaign!Crash, campaignVars
<1> QED
  BY <1>1, <1>2, <1>3, <1>4, <1>5, <1>6 DEF Campaign!Next

LEMMA CampaignTypeOK == ASSUME CampaignTypes, CampaignTyped PROVE Campaign!TypeOK
BY DEF CampaignTypes, CampaignTyped, Begun, Campaign!TypeOK

(***************************************************************************)
(* Digest: what DigestInv leaves open of the types.                         *)
(***************************************************************************)
DigestTyped ==
  /\ unread \subseteq present /\ present \subseteq 1..DigestUid
  /\ step \in {"asked", "fetching", "classifying", "merging", "formatting", "shown", "failed"}
  /\ Digest!Cardinality(uids) <= DigestLimit
  /\ Digest!Range(mails) \subseteq uids /\ Digest!Range(given) \subseteq uids
  /\ DOMAIN byIndex \subseteq DOMAIN given
  /\ \A i \in DOMAIN byIndex : byIndex[i] \in Digest!Verdict
  /\ \A i \in DOMAIN items : items[i].uid \in uids
  /\ DOMAIN screen = {"listed", "counted"}
  /\ step \in {"asked", "fetching"} =>
       DOMAIN given = {} /\ DOMAIN byIndex = {} /\ DOMAIN items = {}

LEMMA DigestTypedInit ==
  ASSUME Digest!MailDigestAssumption, Digest!Init PROVE DigestTyped
<1>1. Digest!Cardinality(uids) <= DigestLimit
  BY DigestCounts, FS_EmptySet DEF Digest!Init, Digest!MailDigestAssumption
<1>2. Digest!Range(<<>>) = {} /\ DOMAIN <<>> = {}
  BY DEF Digest!Range
<1> QED
  BY <1>1, <1>2 DEF Digest!Init, Digest!Nothing, DigestTyped

\* The newest mails are no more than the limit: the oldest of them has all others above.
LEMMA NewestAreFew ==
  ASSUME Digest!MailDigestAssumption, NEW s \in SUBSET (1..DigestUid)
  PROVE  Digest!Cardinality(Digest!Newest(s)) <= DigestLimit
<1> DEFINE few == Digest!Newest(s)
<1>1. IsFiniteSet(s) /\ few \subseteq s
  <2>1. IsFiniteSet(1..DigestUid)
    BY FS_Interval DEF Digest!MailDigestAssumption
  <2> QED
    BY <2>1, FS_Subset DEF Digest!Newest
<1>2. IsFiniteSet(few) /\ Cardinality(few) \in Nat
  <2> HIDE DEF few
  <2> QED
    BY <1>1, FS_Subset, FS_CardinalityType
<1>3. DigestLimit \in Nat \ {0}
  BY DEF Digest!MailDigestAssumption
<1>4. CASE few = {}
  BY <1>3, <1>4, DigestCounts, FS_EmptySet
<1>5. CASE few # {}
  <2>0. few \in SUBSET Nat
    <3>1. DigestUid \in Nat
      BY DEF Digest!MailDigestAssumption
    <3> HIDE DEF few
    <3> QED
      BY <1>1, <3>1
  <2>1. PICK x \in few : \A y \in few : x <= y
    <3> HIDE DEF few
    <3> QED
      BY <1>5, <2>0, LeastOf
  <2> DEFINE above == {v \in s : v > x}
  <2>2. Cardinality(above) < DigestLimit
    BY DigestCounts DEF Digest!Newest
  <2>3. few \ {x} \subseteq above
    <3> SUFFICES ASSUME NEW y \in few, y # x PROVE y \in above
      OBVIOUS
    <3>1. x \in Nat /\ y \in Nat /\ x <= y /\ y \in s
      BY <1>1, <2>0, <2>1
    <3> QED
      BY <3>1
  <2> HIDE DEF few, above
  <2>4. IsFiniteSet(above) /\ Cardinality(above) \in Nat
    <3>1. above \subseteq s
      BY DEF above
    <3> QED
      BY <1>1, <3>1, FS_Subset, FS_CardinalityType
  <2>5. Cardinality(few \ {x}) <= Cardinality(above)
    BY <2>3, <2>4, FS_Subset
  <2>6. Cardinality(few \ {x}) = Cardinality(few) - 1
    BY <1>2, <2>1, FS_RemoveElement
  <2>7. Cardinality(few) <= DigestLimit
    BY <1>2, <1>3, <2>2, <2>4, <2>5, <2>6
  <2> QED
    BY <2>7, DigestCounts DEF few
<1> QED
  BY <1>4, <1>5

LEMMA DigestTypedNext ==
  ASSUME Digest!MailDigestAssumption, DigestInv, DigestInv', DigestTyped,
         Digest!Next \/ UNCHANGED digestVars
  PROVE  DigestTyped'
<1>1. CASE Digest!Search
  <2>1. uids' = Digest!Newest(unread) /\ unread \subseteq 1..DigestUid
    BY <1>1 DEF Digest!Search, DigestTyped
  <2>2. Digest!Cardinality(uids') <= DigestLimit
    BY <2>1, NewestAreFew
  <2>3. step = "asked" /\ Digest!Range(mails) = {} /\ step' \in {"shown", "fetching"}
    BY <1>1 DEF Digest!Search, DigestInv, Digest!Range
  <2>4. Digest!Range(given) = {}
    BY <2>3 DEF DigestTyped, Digest!Range
  <2> QED
    BY <1>1, <2>2, <2>3, <2>4 DEF Digest!Search, DigestTyped
<1>2. CASE Digest!Fetch
  <2>1. PICK u \in uids : mails' = Append(mails, u)
    BY <1>2 DEF Digest!Fetch
  <2>2. mails \in Seq(uids)
    BY <1>2 DEF Digest!Fetch, DigestInv
  <2>3. mails' \in Seq(uids)
    BY <2>1, <2>2
  <2>4. Digest!Range(mails') \subseteq uids
    BY <2>3 DEF Digest!Range
  <2> QED
    BY <1>2, <2>4 DEF Digest!Fetch, DigestTyped
<1>3. CASE Digest!Give
  <2>1. Digest!Range(mails) \subseteq 1..DigestUid /\ step = "fetching"
    BY <1>3 DEF Digest!Give, DigestTyped, DigestInv
  <2>2. Digest!Range(mails') = Digest!Range(mails)
    BY <1>3, <2>1, Descends DEF Digest!Give
  <2>3. Digest!Range(given') = Digest!Range(mails')
    BY <1>3 DEF Digest!Give
  <2>4. step' \in {"shown", "classifying"} /\ DOMAIN byIndex = {} /\ DOMAIN items = {}
    BY <1>3, <2>1 DEF Digest!Give, DigestTyped
  <2> QED
    BY <1>3, <2>2, <2>3, <2>4 DEF Digest!Give, DigestTyped
<1>4. CASE Digest!Classify
  <2>1. PICK judged \in SUBSET DOMAIN given : byIndex' \in [judged -> Verdicts]
    BY <1>4 DEF Digest!Classify
  <2>2. DOMAIN byIndex' \subseteq DOMAIN given /\ \A i \in DOMAIN byIndex' : byIndex'[i] \in Digest!Verdict
    BY <2>1 DEF Digest!MailDigestAssumption
  <2> QED
    BY <1>4, <2>2 DEF Digest!Classify, DigestTyped
<1>5. CASE Digest!Merge
  <2>1. \A k \in DOMAIN items' : items'[k].uid \in Digest!Range(mails')
    BY <1>5 DEF Digest!Merge, DigestInv, Digested, Items
  <2> QED
    BY <1>5, <2>1 DEF Digest!Merge, DigestTyped
<1>6. CASE Digest!Format
  BY <1>6 DEF Digest!Format, DigestTyped
<1>7. CASE Digest!Fails
  BY <1>7 DEF Digest!Fails, DigestTyped
<1>8. CASE Digest!Elsewhere
  BY <1>8 DEF Digest!Elsewhere, DigestTyped
<1>9. CASE UNCHANGED digestVars
  <2>1. UNCHANGED <<unread, present, step, uids, mails, given, byIndex, items, screen>>
    BY <1>9 DEF digestVars
  <2> QED
    BY <2>1 DEF DigestTyped
<1> QED
  BY <1>1, <1>2, <1>3, <1>4, <1>5, <1>6, <1>7, <1>8, <1>9 DEF Digest!Next, Digest!Handle

LEMMA DigestTypeOK == ASSUME DigestInv, DigestTyped PROVE Digest!TypeOK
BY DEF DigestInv, DigestTyped, Digest!TypeOK

(***************************************************************************)
(* The types of the questions, those beside a catalogue that changes too.  *)
(***************************************************************************)
QuestionType ==
  [step : Queries!Steps, tool : Queries!Tools, attempt : 1..2,
   sql : Generated \cup {FixedQuery[t] : t \in DOMAIN FixedQuery}, conn : Conns \cup {None},
   size : 0..MaxSize, rows : 0..MaxSize, ok : BOOLEAN, told : BOOLEAN]

QuestionSteps(x) ==
  \/ \E tool \in Queries!Tools, ict \in BOOLEAN : Queries!Execute(x, tool, ict)
  \/ Queries!SearchesNothing(x) \/ Queries!Progress(x)

LEMMA SameQuestions ==
  ASSUME NEW x,
         \/ \E tool \in Catalog!Tools, ict \in BOOLEAN : Catalog!Execute(x, tool, ict)
         \/ Catalog!SearchesNothing(x) \/ Catalog!Progress(x)
  PROVE  QuestionSteps(x)
<1> USE DEF QuestionSteps, Queries!Progress, Catalog!Progress
<1>1. ASSUME NEW tool \in Catalog!Tools, NEW ict \in BOOLEAN, Catalog!Execute(x, tool, ict)
      PROVE  QuestionSteps(x)
  <2>1. tool \in Queries!Tools /\ Queries!Execute(x, tool, ict)
    BY <1>1 DEF Catalog!Tools, Queries!Tools, Catalog!Execute, Queries!Execute, Catalog!Guarded,
                Queries!Guarded, Catalog!others, Queries!others
  <2> QED
    BY <2>1
<1>2. CASE Catalog!SearchesNothing(x)
  BY <1>2 DEF Catalog!SearchesNothing, Queries!SearchesNothing, Catalog!others, Queries!others
<1>3. CASE Catalog!BuildPrompt(x)
  BY <1>3 DEF Catalog!BuildPrompt, Queries!BuildPrompt, Catalog!others, Queries!others,
              Catalog!Goes, Queries!Goes
<1>4. ASSUME NEW q \in Generated, Catalog!Generate(x, q) PROVE QuestionSteps(x)
  BY <1>4 DEF Catalog!Generate, Queries!Generate, Catalog!others, Queries!others
<1>5. CASE Catalog!NothingToQuery(x)
  BY <1>5 DEF Catalog!NothingToQuery, Queries!NothingToQuery, Catalog!others, Queries!others
<1>6. CASE Catalog!ModelFails(x)
  BY <1>6 DEF Catalog!ModelFails, Queries!ModelFails, Catalog!others, Queries!others,
              Catalog!Goes, Queries!Goes
<1>7. CASE Catalog!Validate(x)
  BY <1>7 DEF Catalog!Validate, Queries!Validate, Catalog!others, Queries!others,
              Catalog!Accepts, Queries!Accepts, Catalog!Retry, Queries!Retry
<1>8. ASSUME NEW c \in Conns, Catalog!Connect(x, c) PROVE QuestionSteps(x)
  BY <1>8 DEF Catalog!Connect, Queries!Connect, Catalog!others, Queries!others
<1>9. CASE Catalog!Begin(x)
  BY <1>9 DEF Catalog!Begin, Queries!Begin, Catalog!others, Queries!others, Catalog!Goes,
              Queries!Goes
<1>10. CASE Catalog!BeginFails(x)
  BY <1>10 DEF Catalog!BeginFails, Queries!BeginFails, Catalog!others, Queries!others
<1>11. ASSUME NEW n \in 0..MaxSize, Catalog!Select(x, n) PROVE QuestionSteps(x)
  BY <1>11 DEF Catalog!Select, Queries!Select, Catalog!others, Queries!others, Catalog!AtMost,
               Queries!AtMost, Catalog!RowLimit, Queries!RowLimit
<1>12. CASE Catalog!SelectFails(x)
  BY <1>12 DEF Catalog!SelectFails, Queries!SelectFails, Catalog!others, Queries!others
<1>13. CASE Catalog!Release(x)
  BY <1>13 DEF Catalog!Release, Queries!Release, Catalog!others, Queries!others, Catalog!Retry,
               Queries!Retry
<1> QED
  BY <1>1, <1>2, <1>3, <1>4, <1>5, <1>6, <1>7, <1>8, <1>9, <1>10, <1>11, <1>12, <1>13

\* A question that changes alone.
LEMMA QuestionKeepsType ==
  ASSUME NEW Q, NEW x \in Q, question \in [Q -> QuestionType], NEW q \in QuestionType,
         question' = [question EXCEPT ![x] = q]
  PROVE  question' \in [Q -> QuestionType]
OBVIOUS

LEMMA RetryTyped ==
  ASSUME NEW q \in QuestionType
  PROVE  Queries!Retry(q) \in QuestionType
<1>1. [q EXCEPT !.step = "generate", !.attempt = 2] \in QuestionType
  <2>1. PICK two : two = 2 /\ two \in 1..2
    OBVIOUS
  <2>2. [q EXCEPT !.step = "generate", !.attempt = two] \in QuestionType
    BY <2>1 DEF QuestionType, Queries!Steps
  <2> QED
    BY <2>1, <2>2
<1>2. [q EXCEPT !.step = "failed"] \in QuestionType
  BY DEF QuestionType, Queries!Steps
<1> QED
  BY <1>1, <1>2 DEF Queries!Retry

PoolType == [Conns -> {"idle", "clean", "tx"}]

LEMMA QuestionStays ==
  ASSUME Queries!AssistantQueriesAssumption, NEW Q, NEW x \in Q,
         question \in [Q -> QuestionType], pool \in PoolType, QuestionSteps(x)
  PROVE  /\ question' \in [Q -> QuestionType] /\ pool' \in PoolType
         /\ UNCHANGED <<public, migrations, catalog, refresh>>
         /\ prompt' \in {prompt, catalog}
<1> USE DEF Queries!others
<1>0. question[x] \in QuestionType /\ x \in DOMAIN question
  OBVIOUS
<1>1. ASSUME NEW tool \in Queries!Tools, NEW ict \in BOOLEAN, Queries!Execute(x, tool, ict)
      PROVE  question' \in [Q -> QuestionType] /\ UNCHANGED <<public, migrations, catalog, refresh, prompt, pool>>
  <2> DEFINE goal == IF tool \in Queries!Guarded /\ ~ict THEN "failed"
                     ELSE IF tool = "runSqlQuery" THEN "generate" ELSE "run"
             words == IF tool = "runSqlQuery" THEN question[x].sql ELSE FixedQuery[tool]
  <2>1. goal \in {"failed", "generate", "run"}
    OBVIOUS
  <2>2. words \in Generated \cup {FixedQuery[t] : t \in DOMAIN FixedQuery}
    BY <1>0 DEF QuestionType, Queries!Tools
  <2>3. question' = [question EXCEPT ![x] = [question[x] EXCEPT !.tool = tool, !.step = goal,
                                                                !.sql = words]]
    BY <1>1 DEF Queries!Execute
  <2> HIDE DEF goal, words
  <2>4. [question[x] EXCEPT !.tool = tool, !.step = goal, !.sql = words] \in QuestionType
    BY <1>0, <2>1, <2>2 DEF QuestionType, Queries!Steps
  <2>5. UNCHANGED <<public, migrations, catalog, refresh, prompt, pool>>
    BY <1>1 DEF Queries!Execute
  <2> QED
    BY <2>3, <2>4, <2>5, QuestionKeepsType
<1>2. CASE Queries!SearchesNothing(x)
  <2>1. question' = [question EXCEPT ![x] = [question[x] EXCEPT !.tool = "searchDocuments",
                                               !.step = "answered", !.ok = TRUE]]
        /\ UNCHANGED <<public, migrations, catalog, refresh, prompt, pool>>
    BY <1>2 DEF Queries!SearchesNothing
  <2>2. "searchDocuments" \in Queries!Tools
    BY DEF Queries!AssistantQueriesAssumption, Queries!Tools
  <2>3. [question[x] EXCEPT !.tool = "searchDocuments", !.step = "answered", !.ok = TRUE]
          \in QuestionType
    BY <1>0, <2>2 DEF QuestionType, Queries!Steps
  <2> QED
    BY <2>1, <2>3, QuestionKeepsType
<1>3. CASE \E goal \in Queries!Steps :
             /\ question' = [question EXCEPT ![x].step = goal]
             /\ UNCHANGED <<public, migrations, catalog, refresh>>
             /\ prompt' \in {prompt, catalog} /\ pool' \in PoolType
  <2>1. PICK goal \in Queries!Steps :
             /\ question' = [question EXCEPT ![x].step = goal]
             /\ UNCHANGED <<public, migrations, catalog, refresh>>
             /\ prompt' \in {prompt, catalog} /\ pool' \in PoolType
    BY <1>3
  <2>2. [question[x] EXCEPT !.step = goal] \in QuestionType
    BY <1>0 DEF QuestionType
  <2>3. question' = [question EXCEPT ![x] = [question[x] EXCEPT !.step = goal]]
    BY <2>1
  <2> QED
    BY <2>1, <2>2, <2>3, QuestionKeepsType
<1>4. CASE Queries!BuildPrompt(x) \/ Queries!ModelFails(x)
  <2>1. PICK goal \in {"model", "failed"} : question' = [question EXCEPT ![x].step = goal]
    BY <1>4 DEF Queries!BuildPrompt, Queries!ModelFails, Queries!Goes
  <2>2. /\ UNCHANGED <<public, migrations, catalog, refresh>>
        /\ prompt' \in {prompt, catalog} /\ UNCHANGED pool
    BY <1>4 DEF Queries!BuildPrompt, Queries!ModelFails
  <2> QED
    BY <1>3, <2>1, <2>2 DEF Queries!Steps
<1>5. ASSUME NEW s \in Generated, Queries!Generate(x, s)
      PROVE  question' \in [Q -> QuestionType] /\ UNCHANGED <<public, migrations, catalog, refresh, prompt, pool>>
  <2>1. [question[x] EXCEPT !.step = "run", !.sql = s] \in QuestionType
    BY <1>0 DEF QuestionType, Queries!Steps
  <2>2. question' = [question EXCEPT ![x] = [question[x] EXCEPT !.step = "run", !.sql = s]]
        /\ UNCHANGED <<public, migrations, catalog, refresh, prompt, pool>>
    BY <1>5 DEF Queries!Generate
  <2> QED
    BY <2>1, <2>2, QuestionKeepsType
<1>6. CASE Queries!NothingToQuery(x)
  <2>1. [question[x] EXCEPT !.step = "answered", !.ok = TRUE] \in QuestionType
    BY <1>0 DEF QuestionType, Queries!Steps
  <2>2. question' = [question EXCEPT ![x] = [question[x] EXCEPT !.step = "answered", !.ok = TRUE]]
        /\ UNCHANGED <<public, migrations, catalog, refresh, prompt, pool>>
    BY <1>6 DEF Queries!NothingToQuery
  <2> QED
    BY <2>1, <2>2, QuestionKeepsType
<1>7. CASE Queries!Validate(x)
  <2>1. PICK q : question' = [question EXCEPT ![x] = q] /\
                 q \in {[question[x] EXCEPT !.step = "connect"], Queries!Retry(question[x])}
    BY <1>7 DEF Queries!Validate
  <2>2. [question[x] EXCEPT !.step = "connect"] \in QuestionType
    BY <1>0 DEF QuestionType, Queries!Steps
  <2>3. Queries!Retry(question[x]) \in QuestionType
    BY <1>0, RetryTyped
  <2>4. UNCHANGED <<public, migrations, catalog, refresh, prompt, pool>>
    BY <1>7 DEF Queries!Validate
  <2> QED
    BY <2>1, <2>2, <2>3, <2>4, QuestionKeepsType
<1>8. ASSUME NEW c \in Conns, Queries!Connect(x, c)
      PROVE  /\ question' \in [Q -> QuestionType] /\ pool' \in PoolType
             /\ UNCHANGED <<public, migrations, catalog, refresh, prompt>>
  <2>1. [question[x] EXCEPT !.step = "begin", !.conn = c] \in QuestionType
    BY <1>0 DEF QuestionType, Queries!Steps
  <2>2. /\ question' = [question EXCEPT ![x] = [question[x] EXCEPT !.step = "begin", !.conn = c]]
        /\ pool' = [pool EXCEPT ![c] = "clean"]
        /\ UNCHANGED <<public, migrations, catalog, refresh, prompt>>
    BY <1>8 DEF Queries!Connect
  <2>3. pool' \in PoolType
    BY <2>2 DEF PoolType
  <2> QED
    BY <2>1, <2>2, <2>3, QuestionKeepsType
<1>9. CASE Queries!Begin(x)
  <2>1. /\ pool' = [pool EXCEPT ![question[x].conn] = "tx"]
        /\ question' = [question EXCEPT ![x].step = "select"]
        /\ UNCHANGED <<public, migrations, catalog, refresh, prompt>>
    BY <1>9 DEF Queries!Begin, Queries!Goes
  <2>2. pool' \in PoolType
    BY <2>1 DEF PoolType
  <2>3. "select" \in Queries!Steps
    BY DEF Queries!Steps
  <2> QED
    BY <1>3, <2>1, <2>2, <2>3
<1>10. CASE Queries!BeginFails(x) \/ Queries!SelectFails(x)
  <2>1. [question[x] EXCEPT !.step = "rollback", !.ok = FALSE] \in QuestionType
    BY <1>0 DEF QuestionType, Queries!Steps
  <2>2. question' = [question EXCEPT ![x] = [question[x] EXCEPT !.step = "rollback", !.ok = FALSE]]
        /\ UNCHANGED <<public, migrations, catalog, refresh, prompt, pool>>
    BY <1>10 DEF Queries!BeginFails, Queries!SelectFails
  <2> QED
    BY <2>1, <2>2, QuestionKeepsType
<1>11. ASSUME NEW n \in 0..MaxSize, Queries!Select(x, n)
       PROVE  question' \in [Q -> QuestionType] /\ UNCHANGED <<public, migrations, catalog, refresh, prompt, pool>>
  <2>0. MaxSize \in Nat /\ QueryRows \in Nat /\ Generated \subseteq Queries!Query
        /\ \A tool \in DOMAIN FixedQuery : FixedQuery[tool] \in Queries!Query
    BY DEF Queries!AssistantQueriesAssumption
  <2>1. question[x].sql.limit \in Nat \cup {None}
    BY <1>0, <2>0 DEF QuestionType, Queries!Query
  <2>2. PICK limit \in Nat : limit = Queries!RowLimit(question[x].sql)
    BY <2>0, <2>1 DEF Queries!RowLimit, Queries!AtMost
  <2>3. PICK cut \in 0..MaxSize : cut = Queries!AtMost(n, limit)
    BY <2>0, <2>2 DEF Queries!AtMost
  <2>4. PICK warned \in BOOLEAN :
          warned = (Queries!AtMost(n, Queries!RowLimit(question[x].sql)) >= QueryRows /\ question[x].tool # "generateReport")
    OBVIOUS
  <2>5. question' = [question EXCEPT ![x] = [question[x] EXCEPT !.step = "rollback", !.ok = TRUE,
                                               !.size = n, !.rows = cut, !.told = warned]]
    BY <1>11, <2>2, <2>3, <2>4 DEF Queries!Select
  <2>6. [question[x] EXCEPT !.step = "rollback", !.ok = TRUE, !.size = n, !.rows = cut, !.told = warned]
          \in QuestionType
    BY <1>0 DEF QuestionType, Queries!Steps
  <2>7. UNCHANGED <<public, migrations, catalog, refresh, prompt, pool>>
    BY <1>11 DEF Queries!Select
  <2> QED
    BY <2>5, <2>6, <2>7, QuestionKeepsType
<1>12. CASE Queries!Release(x)
  <2> DEFINE free == [question[x] EXCEPT !.conn = None]
  <2>1. free \in QuestionType
    BY <1>0 DEF QuestionType
  <2>2. PICK q : question' = [question EXCEPT ![x] = q] /\
                 q \in {[free EXCEPT !.step = "answered"], Queries!Retry(free)}
    BY <1>12 DEF Queries!Release
  <2>3. pool' = [pool EXCEPT ![question[x].conn] = "idle"]
        /\ UNCHANGED <<public, migrations, catalog, refresh, prompt>>
    BY <1>12 DEF Queries!Release
  <2> HIDE DEF free
  <2>4. [free EXCEPT !.step = "answered"] \in QuestionType
    BY <2>1 DEF QuestionType, Queries!Steps
  <2>5. q \in QuestionType
    BY <2>1, <2>2, <2>4, RetryTyped
  <2>6. pool' \in PoolType
    BY <2>3 DEF PoolType
  <2> QED
    BY <2>2, <2>3, <2>5, <2>6, QuestionKeepsType
<1> QED
  BY <1>1, <1>2, <1>4, <1>5, <1>6, <1>7, <1>8, <1>9, <1>10, <1>11, <1>12
  DEF QuestionSteps, Queries!Progress

\* The catalogue, its refreshes and the tables of the database, and the questions beside
\* them.
CatalogType == [tables : SUBSET Tables, relations : SUBSET Links]

LEMMA QueriesTyped ==
  ASSUME Queries!AssistantQueriesAssumption, Queries!TypeOK, Queries!Next \/ UNCHANGED queryVars
  PROVE  Queries!TypeOK'
<1> USE DEF Queries!TypeOK
<1>1. question \in [QueryQuestions -> QuestionType] /\ pool \in PoolType
  BY DEF QuestionType, PoolType
<1>2. CASE \E x \in QueryQuestions : QuestionSteps(x)
  <2>1. /\ question' \in [QueryQuestions -> QuestionType] /\ pool' \in PoolType
        /\ UNCHANGED <<public, migrations, catalog, refresh>> /\ prompt' \in {prompt, catalog}
    BY <1>1, <1>2, QuestionStays
  <2> QED
    BY <2>1 DEF QuestionType, PoolType
<1>3. CASE \E t \in Tables : Queries!Migrate(t)
  <2>1. migrations \in 0..0
    OBVIOUS
  <2>2. migrations < 0
    BY <1>3 DEF Queries!Migrate
  <2> QED
    BY <2>1, <2>2
<1>4. CASE UNCHANGED queryVars
  BY <1>4 DEF queryVars
<1> QED
  BY <1>2, <1>3, <1>4 DEF Queries!Next, QuestionSteps

LEMMA CatalogTyped ==
  ASSUME Catalog!AssistantQueriesAssumption, Catalog!TypeOK, Catalog!Next \/ UNCHANGED queryVars
  PROVE  Catalog!TypeOK'
<1> DEFINE Asking == /\ question \in [CatalogQuestions -> QuestionType] /\ pool \in PoolType
           Known  == /\ public \subseteq Tables /\ migrations \in 0..MaxMigrations
                     /\ catalog \in CatalogType /\ prompt \in {None} \cup CatalogType
                     /\ refresh \in [CatalogRefreshers -> {None} \cup SUBSET Tables]
<1>1. Asking /\ Known
  BY DEF QuestionType, PoolType, Catalog!TypeOK, CatalogType, Catalog!Steps, Queries!Steps,
         Catalog!Tools, Queries!Tools
<1>2. ASSUME Asking', Known' PROVE Catalog!TypeOK'
  BY <1>2 DEF QuestionType, PoolType, Catalog!TypeOK, CatalogType, Catalog!Steps, Queries!Steps,
         Catalog!Tools, Queries!Tools
<1>3. Queries!AssistantQueriesAssumption
  BY DEF Catalog!AssistantQueriesAssumption, Queries!AssistantQueriesAssumption, Catalog!Query,
         Queries!Query
<1>4. CASE \E x \in CatalogQuestions : QuestionSteps(x)
  <2>1. /\ question' \in [CatalogQuestions -> QuestionType] /\ pool' \in PoolType
        /\ UNCHANGED <<public, migrations, catalog, refresh>> /\ prompt' \in {prompt, catalog}
    BY <1>1, <1>3, <1>4, QuestionStays
  <2> QED
    BY <1>1, <1>2, <2>1
<1>5. ASSUME NEW x \in CatalogRefreshers, Catalog!ReadTables(x) \/ Catalog!RefreshFails(x)
      PROVE  Catalog!TypeOK'
  <2>1. /\ UNCHANGED <<public, migrations, catalog, prompt, question, pool>>
        /\ \E ts \in {None, public} : refresh' = [refresh EXCEPT ![x] = ts]
    BY <1>5 DEF Catalog!ReadTables, Catalog!RefreshFails
  <2> QED
    BY <1>1, <1>2, <2>1
<1>6. ASSUME NEW x \in CatalogRefreshers, Catalog!Publish(x)
      PROVE  Catalog!TypeOK'
  <2>0. refresh[x] \in SUBSET Tables
    BY <1>1, <1>6 DEF Catalog!Publish
  <2>1. PICK ts, ls : /\ catalog' = [tables |-> ts, relations |-> ls]
                      /\ ts = refresh[x] \ Denied /\ ls \subseteq Catalog!Relations(refresh[x])
    BY <1>6, Zenon DEF Catalog!Publish
  <2>2. ts \subseteq Tables /\ ls \subseteq Links
    BY <2>0, <2>1 DEF Catalog!Relations, Catalog!Among
  <2>3. catalog' \in CatalogType
    BY <2>1, <2>2 DEF CatalogType
  <2>4. /\ prompt' = None /\ refresh' = [refresh EXCEPT ![x] = None]
        /\ UNCHANGED <<public, migrations, question, pool>>
    BY <1>6 DEF Catalog!Publish
  <2> QED
    BY <1>1, <1>2, <2>3, <2>4
<1>7. ASSUME NEW t \in Tables, Catalog!Migrate(t) PROVE Catalog!TypeOK'
  <2>1. /\ migrations < MaxMigrations /\ migrations' = migrations + 1
        /\ public' \subseteq public \cup {t}
        /\ UNCHANGED <<catalog, prompt, refresh, question, pool>>
    BY <1>7 DEF Catalog!Migrate
  <2>2. MaxMigrations \in Nat
    BY DEF Catalog!AssistantQueriesAssumption
  <2>3. migrations' \in 0..MaxMigrations
    BY <1>1, <2>1, <2>2
  <2> QED
    BY <1>1, <1>2, <2>1, <2>3
<1>8. CASE UNCHANGED queryVars
  BY <1>1, <1>2, <1>8 DEF queryVars
<1>9. Catalog!Next => \/ \E x \in CatalogQuestions : QuestionSteps(x)
                      \/ \E x \in CatalogRefreshers : \/ Catalog!ReadTables(x) \/ Catalog!Publish(x)
                                                      \/ Catalog!RefreshFails(x)
                      \/ \E t \in Tables : Catalog!Migrate(t)
  BY SameQuestions DEF Catalog!Next
<1> QED
  BY <1>4, <1>5, <1>6, <1>7, <1>8, <1>9

LEMMA NewQuestion == ASSUME Queries!AssistantQueriesAssumption, NEW Q
                     PROVE  [x \in Q |-> [step |-> "idle", tool |-> "runSqlQuery", sql |-> Queries!NoQuery,
                                      attempt |-> 1, conn |-> None, size |-> 0, rows |-> 0,
                                      ok |-> FALSE, told |-> FALSE]] \in [Q -> QuestionType]
<1>1. Queries!NoQuery \in Generated /\ MaxSize \in Nat
  BY DEF Queries!NoQuery, Queries!AssistantQueriesAssumption
<1>2. PICK one : one = 1 /\ one \in 1..2
  OBVIOUS
<1>3. [step |-> "idle", tool |-> "runSqlQuery", sql |-> Queries!NoQuery, attempt |-> one,
       conn |-> None, size |-> 0, rows |-> 0, ok |-> FALSE, told |-> FALSE] \in QuestionType
  BY <1>1, <1>2 DEF QuestionType, Queries!Steps, Queries!Tools
<1> QED
  BY <1>2, <1>3

LEMMA QueriesTypedInit == ASSUME Queries!AssistantQueriesAssumption, Queries!Init
                          PROVE  Queries!TypeOK
<1>1. question \in [QueryQuestions -> QuestionType]
  BY NewQuestion DEF Queries!Init
<1>2. /\ Curated \subseteq Tables /\ public \subseteq Tables /\ migrations \in 0..0
      /\ refresh \in [{} -> {None} \cup SUBSET Tables] /\ prompt = None
  BY DEF Queries!Init, Queries!AssistantQueriesAssumption
<1>3. catalog \in [tables: SUBSET Tables, relations: SUBSET Links]
  BY <1>2 DEF Queries!Init
<1>4. pool \in [Conns -> {"idle", "clean", "tx"}]
  BY DEF Queries!Init
<1> QED
  BY <1>1, <1>2, <1>3, <1>4 DEF Queries!TypeOK, QuestionType

LEMMA CatalogTypedInit == ASSUME Catalog!AssistantQueriesAssumption, Catalog!Init
                          PROVE  Catalog!TypeOK
<1>0. Queries!AssistantQueriesAssumption
  BY DEF Catalog!AssistantQueriesAssumption, Queries!AssistantQueriesAssumption, Catalog!Query,
         Queries!Query
<1>1. question \in [CatalogQuestions -> QuestionType]
  BY <1>0, NewQuestion DEF Catalog!Init, Catalog!NoQuery, Queries!NoQuery
<1>2. /\ Curated \subseteq Tables /\ public \subseteq Tables /\ migrations \in 0..MaxMigrations
      /\ refresh \in [CatalogRefreshers -> {None} \cup SUBSET Tables] /\ prompt = None
  BY DEF Catalog!Init, Catalog!AssistantQueriesAssumption
<1>3. catalog \in [tables: SUBSET Tables, relations: SUBSET Links]
  BY <1>2 DEF Catalog!Init
<1>4. pool \in [Conns -> {"idle", "clean", "tx"}]
  BY DEF Catalog!Init
<1> QED
  BY <1>1, <1>2, <1>3, <1>4 DEF Catalog!TypeOK, QuestionType, Catalog!Steps, Queries!Steps,
         Catalog!Tools, Queries!Tools

(***************************************************************************)
(* Login, recovery and sessions (auth.service.ts and its kin): the types.  *)
(***************************************************************************)
LEMMA LoginsCount ==
  \A s : /\ Logins!Cardinality(s) = Cardinality(s)
         /\ Logins!IsFiniteSet(s) <=> IsFiniteSet(s)
BY DEF Logins!Cardinality, Cardinality, Logins!IsFiniteSet, IsFiniteSet

\* Requests that make a token, and those of them that may still make it.
MakesToken(r) == AccountKind[r] \in {"login", "forgot"}
Makers == {r \in AccountRequests : MakesToken(r) /\ at[r] # "ended"}

\* The tokens made, and who may still make one, are within the bound.
LoginsInv ==
  /\ Logins!TypeOK
  /\ \A r \in AccountRequests :
       at[r] \in {"profile", "send confirm", "clear code", "new code", "read code", "use code",
                  "session", "connect", "insert"} => MakesToken(r)
  /\ issued + Cardinality(Makers) <= MaxTokens

LoginPlaces ==
  {"start", "profile", "send confirm", "clear code", "new code", "read code", "use code",
   "session", "connect", "insert", "select", "find", "lock", "commit", "user", "begin",
   "delete", "ended"}
TokenRow == [id : 0..MaxTokens, token : 0..MaxTokens]

LEMMA LoginsInit == ASSUME Logins!AccountsAssumption, Logins!Init PROVE LoginsInv
<1> USE DEF Logins!Init, Logins!AccountsAssumption
<1>1. Logins!TypeOK
  <2>1. holds = {} /\ Logins!Cardinality(holds) = 0
    BY LoginsCount, FS_EmptySet
  <2> QED
    BY <2>1 DEF Logins!TypeOK, Logins!Types, Logins!NoRow
<1>2. Makers = {r \in AccountRequests : AccountKind[r] \in {"login", "forgot"}}
  BY DEF Makers, MakesToken
<1>3. issued + Cardinality(Makers) <= MaxTokens
  <2>1. IsFiniteSet(Makers)
    BY LoginsCount, FS_Subset DEF Makers
  <2>2. Cardinality(Makers) <= MaxTokens
    BY <1>2, LoginsCount
  <2>3. Cardinality(Makers) \in Nat
    BY <2>1, FS_CardinalityType
  <2> QED
    BY <2>2, <2>3
<1> QED
  BY <1>1, <1>3 DEF LoginsInv

\* A request moves, and makes a token when it ends.
LEMMA LoginMoves ==
  ASSUME Logins!AccountsAssumption, LoginsInv, NEW r \in AccountRequests, Logins!Step(r)
  PROVE  /\ at[r] # "ended" /\ at'[r] \in LoginPlaces /\ at' = [at EXCEPT ![r] = at'[r]]
         /\ at'[r] \in {"profile", "send confirm", "clear code", "new code", "read code",
                        "use code", "session", "connect", "insert"} => MakesToken(r)
         /\ \/ UNCHANGED <<issued, mailed>> /\ row' = row
            \/ \E t \in Logins!Types :
                 UNCHANGED <<issued, mailed>> /\ Logins!Deletes(Who[r], t)
            \/ /\ MakesToken(r) /\ at'[r] = "ended"
               /\ \E t \in Logins!Types :
                    \/ Logins!Stores(Who[r], t, 0)
                    \/ Logins!Stores(Who[r], t, row[Who[r]][t].id)
<1> USE DEF LoginPlaces, Logins!Goes, MakesToken, Logins!TokensUnchanged, Logins!Types
<1>0. /\ at \in [AccountRequests -> LoginPlaces]
      /\ at[r] \in {"profile", "send confirm", "clear code", "new code", "read code",
                    "use code", "session", "connect", "insert"} => MakesToken(r)
  BY DEF LoginsInv, Logins!TypeOK
<1> HIDE DEF LoginPlaces
<1> DEFINE Goal ==
         /\ at[r] # "ended" /\ at'[r] \in LoginPlaces /\ at' = [at EXCEPT ![r] = at'[r]]
         /\ at'[r] \in {"profile", "send confirm", "clear code", "new code", "read code",
                        "use code", "session", "connect", "insert"} => MakesToken(r)
         /\ \/ UNCHANGED <<issued, mailed>> /\ row' = row
            \/ \E t \in Logins!Types :
                 UNCHANGED <<issued, mailed>> /\ Logins!Deletes(Who[r], t)
            \/ /\ MakesToken(r) /\ at'[r] = "ended"
               /\ \E t \in Logins!Types :
                    \/ Logins!Stores(Who[r], t, 0)
                    \/ Logins!Stores(Who[r], t, row[Who[r]][t].id)
<1>1. ASSUME \/ Logins!CheckPassword(r) \/ Logins!Profile(r) \/ Logins!SaveSession(r)
             \/ Logins!FindForgotten(r) \/ Logins!DeleteReset(r)
      PROVE  Goal
  BY <1>0, <1>1 DEF Logins!CheckPassword, Logins!Profile, Logins!SaveSession,
     Logins!FindForgotten, Logins!DeleteReset, LoginPlaces
<1>2. ASSUME Logins!SendConfirm(r) PROVE Goal
  BY <1>0, <1>2 DEF Logins!SendConfirm, LoginPlaces
<1>3. ASSUME Logins!ClearCode(r) \/ Logins!ReadCode(r) \/ Logins!UseCode(r) PROVE Goal
  BY <1>0, <1>3 DEF Logins!ClearCode, Logins!ReadCode, Logins!UseCode, LoginPlaces
<1>4. ASSUME Logins!NewCode(r) \/ Logins!InsertReset(r) PROVE Goal
  BY <1>0, <1>4 DEF Logins!NewCode, Logins!InsertReset, LoginPlaces
<1>5. ASSUME \/ Logins!OpenRecovery(r) \/ Logins!SelectReset(r) \/ Logins!FindRecovered(r)
             \/ Logins!Lock(r) \/ Logins!ReadConfirm(r) \/ Logins!FindUser(r) \/ Logins!Begin(r)
      PROVE  Goal
  BY <1>0, <1>5 DEF Logins!OpenRecovery, Logins!SelectReset, Logins!FindRecovered, Logins!Lock,
     Logins!ReadConfirm, Logins!FindUser, Logins!Begin, LoginPlaces
<1>6. ASSUME Logins!Commit(r) PROVE Goal
  BY <1>0, <1>6 DEF Logins!Commit, LoginPlaces
<1>7. ASSUME Logins!Logout(r) \/ Logins!ScanSessions(r) \/ Logins!DeleteSessions(r) PROVE Goal
  BY <1>0, <1>7 DEF Logins!Logout, Logins!ScanSessions, Logins!DeleteSessions, LoginPlaces
<1> QED
  BY <1>1, <1>2, <1>3, <1>4, <1>5, <1>6, <1>7 DEF Logins!Step

\* What else a request changes: its connection, what it has read, users and sessions.
LEMMA LoginKeeps ==
  ASSUME Logins!AccountsAssumption, Logins!TypeOK, NEW r \in AccountRequests, Logins!Step(r)
  PROVE  /\ holds' \in {holds, holds \ {r}} \/ (holds' = holds \cup {r} /\ Logins!Free)
         /\ seen' \in [AccountRequests -> 0..MaxTokens] /\ stale' = stale
         /\ scanned' \in [AccountRequests -> SUBSET AccountRequests]
         /\ from' \in [AccountRequests -> AccountRequests \cup {Nobody}]
         /\ verified' \subseteq Users /\ password' \in [Users -> Nat]
         /\ live' \subseteq AccountRequests
<1> USE DEF Logins!TokensUnchanged, Logins!UsersUnchanged, Logins!SessionsUnchanged, Logins!Keeps
<1>0. /\ Who[r] \in Users /\ \A t \in Logins!Types : row[Who[r]][t].id \in 0..MaxTokens
      /\ "code" \in Logins!Types /\ "confirm" \in Logins!Types /\ "reset" \in Logins!Types
  <2>1. Who[r] \in Users
    BY DEF Logins!AccountsAssumption
  <2>2. row[Who[r]] \in [Logins!Types -> [id : 0..MaxTokens, token : 0..MaxTokens]]
    BY <2>1 DEF Logins!TypeOK
  <2> QED
    BY <2>1, <2>2 DEF Logins!Types
<1>1. /\ seen \in [AccountRequests -> 0..MaxTokens]
      /\ scanned \in [AccountRequests -> SUBSET AccountRequests]
      /\ from \in [AccountRequests -> AccountRequests \cup {Nobody}]
      /\ verified \subseteq Users /\ password \in [Users -> Nat] /\ live \subseteq AccountRequests
  BY DEF Logins!TypeOK
<1>2. CASE \/ Logins!CheckPassword(r) \/ Logins!Profile(r) \/ Logins!SaveSession(r)
           \/ Logins!FindForgotten(r) \/ Logins!SendConfirm(r) \/ Logins!ClearCode(r)
           \/ Logins!UseCode(r) \/ Logins!NewCode(r) \/ Logins!InsertReset(r)
  BY <1>1, <1>2 DEF Logins!CheckPassword, Logins!Profile, Logins!SaveSession,
     Logins!FindForgotten, Logins!SendConfirm, Logins!ClearCode, Logins!UseCode,
     Logins!NewCode, Logins!InsertReset
<1>3. CASE Logins!DeleteReset(r) \/ Logins!ReadCode(r)
  BY <1>0, <1>1, <1>3 DEF Logins!DeleteReset, Logins!ReadCode
<1>4. CASE Logins!SelectReset(r) \/ Logins!ReadConfirm(r)
  BY <1>0, <1>1, <1>4 DEF Logins!SelectReset, Logins!ReadConfirm
<1>5. CASE \/ Logins!OpenRecovery(r) \/ Logins!FindRecovered(r)
           \/ Logins!Lock(r) \/ Logins!FindUser(r) \/ Logins!Begin(r)
  BY <1>1, <1>5 DEF Logins!OpenRecovery, Logins!FindRecovered, Logins!Lock, Logins!FindUser,
     Logins!Begin
<1>6. CASE Logins!Commit(r)
  BY <1>0, <1>1, <1>6 DEF Logins!Commit
<1>7. CASE Logins!Logout(r) \/ Logins!ScanSessions(r) \/ Logins!DeleteSessions(r)
  BY <1>1, <1>7 DEF Logins!Logout, Logins!ScanSessions, Logins!DeleteSessions
<1> QED
  BY <1>2, <1>3, <1>4, <1>5, <1>6, <1>7 DEF Logins!Step

LEMMA LoginsNext ==
  ASSUME Logins!AccountsAssumption, LoginsInv, Logins!Next \/ UNCHANGED accountVars
  PROVE  LoginsInv'
<1>0. /\ MaxTokens \in Nat /\ Connections \in Nat \ {0} /\ IsFiniteSet(AccountRequests)
      /\ \A r \in AccountRequests : Who[r] \in Users
  BY LoginsCount DEF Logins!AccountsAssumption
<1>1. /\ Logins!TypeOK /\ at \in [AccountRequests -> LoginPlaces] /\ issued \in 0..MaxTokens
      /\ row \in [Users -> [Logins!Types -> TokenRow]] /\ holds \subseteq AccountRequests
      /\ mailed \in [Logins!Types -> SUBSET (1..MaxTokens)] /\ stale \subseteq 1..MaxTokens
      /\ Cardinality(holds) <= Connections
  BY LoginsCount DEF LoginsInv, Logins!TypeOK, LoginPlaces, TokenRow
<1>2. ASSUME NEW r \in AccountRequests, Logins!Step(r) PROVE LoginsInv'
  <2> DEFINE a == at'[r]
  <2>1. /\ at[r] # "ended" /\ a \in LoginPlaces /\ at' = [at EXCEPT ![r] = a]
        /\ a \in {"profile", "send confirm", "clear code", "new code", "read code",
                  "use code", "session", "connect", "insert"} => MakesToken(r)
    BY <1>2, LoginMoves
  <2>2. \/ UNCHANGED <<issued, mailed>> /\ row' = row
        \/ \E t \in Logins!Types :
             UNCHANGED <<issued, mailed>> /\ Logins!Deletes(Who[r], t)
        \/ /\ MakesToken(r) /\ a = "ended"
           /\ \E t \in Logins!Types :
                \/ Logins!Stores(Who[r], t, 0)
                \/ Logins!Stores(Who[r], t, row[Who[r]][t].id)
    BY <1>2, LoginMoves
  <2> HIDE DEF a
  <2>3. at' \in [AccountRequests -> LoginPlaces]
    BY <1>1, <2>1
  <2>4. Makers' \subseteq Makers /\ (MakesToken(r) /\ a = "ended" => r \in Makers \ Makers')
    BY <1>1, <2>1 DEF Makers, MakesToken
  <2>5. /\ IsFiniteSet(Makers) /\ IsFiniteSet(Makers') /\ Cardinality(Makers) \in Nat
        /\ Cardinality(Makers') \in Nat /\ Cardinality(Makers') <= Cardinality(Makers)
        /\ MakesToken(r) /\ a = "ended" => Cardinality(Makers') < Cardinality(Makers)
    <3>1. Makers \subseteq AccountRequests
      BY DEF Makers
    <3>2. IsFiniteSet(Makers)
      BY <1>0, <3>1, FS_Subset
    <3> QED
      BY <2>4, <3>2, FS_Subset, FS_CardinalityType
  <2>6. issued' \in Nat /\ issued' + Cardinality(Makers') <= MaxTokens
    <3>1. issued + Cardinality(Makers) <= MaxTokens
      BY DEF LoginsInv
    <3>2. issued' = issued \/ (issued' = issued + 1 /\ MakesToken(r) /\ a = "ended")
      BY <2>2 DEF Logins!Stores
    <3> QED
      BY <1>0, <1>1, <2>5, <3>1, <3>2
  <2>7. issued' \in 0..MaxTokens
    BY <1>0, <2>5, <2>6
  <2>8. row' \in [Users -> [Logins!Types -> TokenRow]]
    <3>1. [id |-> 0, token |-> 0] \in TokenRow
      BY <1>0 DEF TokenRow
    <3>2. CASE row' = row
      BY <1>1, <3>2
    <3>3. ASSUME NEW t \in Logins!Types, Logins!Deletes(Who[r], t)
          PROVE  row' \in [Users -> [Logins!Types -> TokenRow]]
      BY <1>1, <3>1, <3>3 DEF Logins!Deletes, Logins!NoRow
    <3>4. ASSUME NEW t \in Logins!Types, NEW id \in 0..MaxTokens, Logins!Stores(Who[r], t, id)
          PROVE  row' \in [Users -> [Logins!Types -> TokenRow]]
      <4>1. issued' = issued + 1 /\ issued' \in 0..MaxTokens
        BY <2>7, <3>4 DEF Logins!Stores
      <4>2. [id |-> IF id = 0 THEN issued + 1 ELSE id, token |-> issued + 1] \in TokenRow
        BY <4>1 DEF TokenRow
      <4> QED
        BY <1>1, <3>4, <4>2 DEF Logins!Stores
    <3>5. \A t \in Logins!Types : row[Who[r]][t].id \in 0..MaxTokens
      BY <1>0, <1>1 DEF TokenRow
    <3>6. 0 \in 0..MaxTokens
      BY <1>0
    <3> QED
      BY <2>2, <3>2, <3>3, <3>4, <3>5, <3>6
  <2>9. mailed' \in [Logins!Types -> SUBSET (1..MaxTokens)]
    <3>1. ASSUME NEW t \in Logins!Types, NEW id, Logins!Stores(Who[r], t, id)
          PROVE  mailed' \in [Logins!Types -> SUBSET (1..MaxTokens)]
      <4>1. issued + 1 \in 1..MaxTokens
        BY <1>1, <2>7, <3>1 DEF Logins!Stores
      <4> QED
        BY <1>1, <3>1, <4>1 DEF Logins!Stores
    <3> QED
      BY <1>1, <2>2, <3>1
  <2>10. /\ holds' \in {holds, holds \ {r}} \/ (holds' = holds \cup {r} /\ Logins!Free)
         /\ seen' \in [AccountRequests -> 0..MaxTokens] /\ stale' = stale
         /\ scanned' \in [AccountRequests -> SUBSET AccountRequests]
         /\ from' \in [AccountRequests -> AccountRequests \cup {Nobody}]
         /\ verified' \subseteq Users /\ password' \in [Users -> Nat]
         /\ live' \subseteq AccountRequests
    BY <1>1, <1>2, LoginKeeps
  <2>11. holds' \subseteq AccountRequests /\ Cardinality(holds') <= Connections
    <3>1. IsFiniteSet(holds) /\ Cardinality(holds) \in Nat
      BY <1>0, <1>1, FS_Subset, FS_CardinalityType
    <3>2. CASE holds' \subseteq holds
      <4>1. Cardinality(holds') <= Cardinality(holds) /\ Cardinality(holds') \in Nat
        BY <3>1, <3>2, FS_Subset, FS_CardinalityType
      <4> QED
        BY <1>0, <1>1, <3>1, <3>2, <4>1
    <3>3. CASE holds' = holds \cup {r} /\ Logins!Free
      <4>1. Cardinality(holds) < Connections
        BY <3>3, LoginsCount DEF Logins!Free
      <4>2. Cardinality(holds') <= Cardinality(holds) + 1 /\ Cardinality(holds') \in Nat
        <5>1. /\ IsFiniteSet(holds \cup {r})
              /\ Cardinality(holds \cup {r})
                   = IF r \in holds THEN Cardinality(holds) ELSE Cardinality(holds) + 1
          BY <3>1, FS_AddElement
        <5> QED
          BY <3>1, <3>3, <5>1
      <4> QED
        BY <1>0, <1>1, <3>1, <3>3, <4>1, <4>2
    <3> QED
      BY <2>10, <3>2, <3>3
  <2>12. Logins!TypeOK'
    BY <1>1, <2>3, <2>7, <2>8, <2>9, <2>10, <2>11, LoginsCount
       DEF Logins!TypeOK, LoginPlaces, TokenRow
  <2>13. \A q \in AccountRequests :
           at'[q] \in {"profile", "send confirm", "clear code", "new code", "read code",
                       "use code", "session", "connect", "insert"} => MakesToken(q)
    BY <1>1, <2>1 DEF LoginsInv
  <2> QED
    BY <2>6, <2>12, <2>13 DEF LoginsInv, MakesToken
<1>3. ASSUME NEW k \in 1..MaxTokens, Logins!Expire(k) PROVE LoginsInv'
  <2>1. UNCHANGED <<at, holds, seen, verified, password, row, issued, mailed, scanned, from, live>>
        /\ stale' \subseteq 1..MaxTokens
    BY <1>1, <1>3 DEF Logins!Expire, Logins!TokensUnchanged, Logins!SessionsUnchanged
  <2> QED
    BY <2>1 DEF LoginsInv, Logins!TypeOK, Makers, MakesToken
<1>4. CASE UNCHANGED accountVars
  BY <1>4 DEF accountVars, LoginsInv, Logins!TypeOK, Makers, MakesToken
<1> QED
  BY <1>2, <1>3, <1>4 DEF Logins!Next

ActivityTyped ==
  /\ now \in 0..MaxTime
  /\ \A r \in log : /\ r.id \in 1..LogRows /\ r.user \in LogUsers /\ r.at \in 0..now
                    /\ r.company \in Companies \cup {None} /\ r.action \in {"LOGIN", "VIEW"}
  /\ list.more = (list.cursor # None)
  /\ \A i \in DOMAIN pages : Activity!Cardinality(pages[i]) <= PageLimit

LEMMA ActivityTypedInit ==
  ASSUME Activity!ActivityLogAssumption, Activity!Init PROVE ActivityTyped
<1>1. 0 \in 0..MaxTime
  BY DEF Activity!ActivityLogAssumption
<1>2. now = 0 /\ log = {} /\ pages = <<>> /\ list = [of |-> None, cursor |-> None, more |-> FALSE]
  BY DEF Activity!Init, Activity!NoList
<1>3. list.more = FALSE /\ (list.cursor # None) = FALSE
  BY <1>2
<1>4. list.more = (list.cursor # None)
  BY <1>3
<1>5. DOMAIN pages = {} /\ now \in 0..MaxTime
  BY <1>1, <1>2
<1> QED
  BY <1>2, <1>4, <1>5 DEF ActivityTyped

\* A page has at most the rows of a page, and a cursor while there is more.
LEMMA PageTyped ==
  ASSUME Activity!ActivityLogAssumption, ActivityTyped, IsFiniteSet(visible),
         pages \in Seq(SUBSET visible), list'.more => list'.cursor \in Nat,
         NEW x, NEW before, Activity!Page(x, before)
  PROVE  ActivityTyped'
<1> DEFINE rest == Remaining(x, before)
<1>0. PageLimit \in Nat /\ None \notin Nat
  BY DEF Activity!ActivityLogAssumption
<1>1. PICK page \in Activity!kSubset(
              IF Activity!Cardinality(rest) > PageLimit
                THEN PageLimit ELSE Activity!Cardinality(rest), rest) :
        /\ pages' = IF before = None THEN <<page>> ELSE Append(pages, page)
        /\ list' = IF page # rest
                     THEN [of |-> x, more |-> TRUE,
                           cursor |-> Grain * Activity!Milli(
                                        Activity!Min({Activity!Time(id) : id \in page}))]
                     ELSE [of |-> x, cursor |-> None, more |-> FALSE]
        /\ UNCHANGED <<now, log, visible>>
  BY DEF Activity!Page, Remaining
<1>2. rest \subseteq visible
  BY DEF Remaining, Activity!Listed
<1> HIDE DEF rest
<1>3. Activity!Cardinality(rest) \in Nat
  BY <1>2, LogCounts, FS_Subset, FS_CardinalityType
<1>4. Activity!Cardinality(page) <= PageLimit
  BY <1>0, <1>1, <1>3 DEF Activity!kSubset
<1>5. \A i \in DOMAIN pages' : Activity!Cardinality(pages'[i]) <= PageLimit
  <2>1. CASE before = None
    BY <1>1, <1>4, <2>1
  <2>2. CASE before # None
    <3>1. \A i \in 1..Len(pages) : Activity!Cardinality(pages[i]) <= PageLimit
      BY DEF ActivityTyped
    <3>2. page \in SUBSET visible
      BY <1>1, <1>2 DEF Activity!kSubset
    <3> QED
      BY <1>1, <1>4, <2>2, <3>1, <3>2, AppendProperties
  <2> QED
    BY <2>1, <2>2
<1>6. list'.more = (list'.cursor # None)
  <2>1. CASE page = rest
    <3>1. list'.more = FALSE /\ (list'.cursor # None) = FALSE
      BY <1>1, <2>1
    <3> QED
      BY <3>1
  <2>2. CASE page # rest
    <3>1. list'.more = TRUE
      BY <1>1, <2>2
    <3>2. list'.cursor # None
      BY <1>0, <3>1
    <3> QED
      BY <3>1, <3>2
  <2> QED
    BY <2>1, <2>2
<1> QED
  BY <1>1, <1>5, <1>6 DEF ActivityTyped

LEMMA ActivityTypedNext ==
  ASSUME Activity!ActivityLogAssumption, ActivityTyped, IsFiniteSet(log), IsFiniteSet(visible),
         pages \in Seq(SUBSET visible), list'.more => list'.cursor \in Nat,
         Activity!Next \/ UNCHANGED activityVars
  PROVE  ActivityTyped'
<1>0. MaxTime \in Nat /\ LogRows \in Nat
  BY DEF Activity!ActivityLogAssumption
<1>1. ASSUME NEW u \in LogUsers, Activity!Track(u) PROVE ActivityTyped'
  <2>1. PICK action \in {"LOGIN", "VIEW"} :
          log' = log \cup {[id |-> Activity!Cardinality(log) + 1, user |-> u,
                            company |-> WrittenFor[u], action |-> action, at |-> now]}
    BY <1>1 DEF Activity!Track
  <2>2. WrittenFor[u] \in Companies \cup {None}
    BY DEF Activity!ActivityLogAssumption
  <2>3. Activity!Cardinality(log) < LogRows /\ UNCHANGED <<now, list, pages>>
    BY <1>1 DEF Activity!Track
  <2>4. Activity!Cardinality(log) \in Nat
    BY LogCounts, FS_CardinalityType
  <2>5. Activity!Cardinality(log) + 1 \in 1..LogRows /\ now \in 0..now
    BY <1>0, <2>3, <2>4 DEF ActivityTyped
  <2> QED
    BY <2>1, <2>2, <2>3, <2>5 DEF ActivityTyped
<1>2. ASSUME NEW id \in 1..LogRows, Activity!Commit(id) PROVE ActivityTyped'
  BY <1>2 DEF Activity!Commit, ActivityTyped
<1>3. CASE Activity!NextPage \/ \E x \in LogUsers \cup Companies : Activity!FirstPage(x)
  BY <1>3, PageTyped DEF Activity!NextPage, Activity!FirstPage
<1>4. CASE Activity!Tick
  <2>1. now' \in 0..MaxTime /\ \A t \in 0..now : t \in 0..now'
    BY <1>0, <1>4 DEF Activity!Tick, ActivityTyped
  <2> QED
    BY <1>4, <2>1 DEF Activity!Tick, ActivityTyped
<1>5. CASE UNCHANGED activityVars
  BY <1>5 DEF activityVars, ActivityTyped
<1> QED
  BY <1>1, <1>2, <1>3, <1>4, <1>5 DEF Activity!Next

(***************************************************************************)
(* The whole: whatever is in focus, the component takes a step of its own  *)
(* or rests.                                                               *)
(***************************************************************************)
LEMMA Steps ==
  ASSUME Next \/ UNCHANGED vars
  PROVE  /\ Chats!Next \/ UNCHANGED assistantVars
         /\ Online!Next \/ UNCHANGED presenceVars
         /\ Training!Next \/ UNCHANGED videoVars
         /\ Mailbox!Next \/ UNCHANGED mailVars
         /\ Logins!Next \/ UNCHANGED accountVars
         /\ Ask!Next \/ UNCHANGED askVars
         /\ Docs!Next \/ UNCHANGED docsVars
         /\ Digest!Next \/ UNCHANGED digestVars
         /\ Reports!Next \/ UNCHANGED reportVars
         /\ Campaign!Next \/ UNCHANGED campaignVars
         /\ Tender!Next \/ UNCHANGED tenderVars
         /\ Activity!Next \/ UNCHANGED activityVars
BY DEF Next, Rest, Keep, vars

LEMMA TenderAlways == Spec => []TenderInv
<1>1. Tender!TenderFilesAssumption
  BY ComponentsAssumption
<1>2. Init => TenderInv
  BY <1>1, TenderInit DEF Init
<1>3. TenderInv /\ [Next]_vars => TenderInv'
  BY <1>1, TenderNext, Steps
<1> QED
  BY <1>2, <1>3, PTL DEF Spec

LEMMA VideoAlways == Spec => []VideoInv
<1>1. Training!VideosAssumption
  BY ComponentsAssumption
<1>2. Init => VideoInv
  BY <1>1, VideoInit DEF Init
<1>3. VideoInv /\ [Next]_vars => VideoInv'
  BY <1>1, VideoNext, Steps
<1> QED
  BY <1>2, <1>3, PTL DEF Spec

LEMMA OnlineAlways == Spec => []OnlineInv
<1>1. Online!PresenceAssumption
  BY ComponentsAssumption
<1>2. Init => OnlineInv
  BY <1>1, OnlineInit DEF Init
<1>3. OnlineInv /\ [Next]_vars => OnlineInv'
  BY <1>1, OnlineNext, Steps
<1> QED
  BY <1>2, <1>3, PTL DEF Spec

LEMMA MailboxAlways == Spec => []MailboxInv
<1>1. Mailbox!MailReaderAssumption
  BY ComponentsAssumption
<1>2. Init => MailboxInv
  BY <1>1, MailboxInit DEF Init
<1>3. MailboxInv /\ [Next]_vars => MailboxInv'
  BY <1>1, MailboxNext, Steps
<1> QED
  BY <1>2, <1>3, PTL DEF Spec

LEMMA CampaignAlways == Spec => []CampaignInv
<1>1. Campaign!AttachmentsAssumption
  BY ComponentsAssumption
<1>2. Init => CampaignInv
  BY <1>1, CampaignInit DEF Init
<1>3. CampaignInv /\ [Next]_vars => CampaignInv'
  BY <1>1, CampaignNext, Steps
<1> QED
  BY <1>2, <1>3, PTL DEF Spec

LEMMA DigestAlways == Spec => []DigestInv
<1>1. Digest!MailDigestAssumption
  BY ComponentsAssumption
<1>2. Init => DigestInv
  BY <1>1, DigestBegins DEF Init
<1>3. DigestInv /\ [Next]_vars => DigestInv'
  BY <1>1, DigestNext, Steps
<1> QED
  BY <1>2, <1>3, PTL DEF Spec

LEMMA PagesAlways == Spec => []PagesInv
<1>1. Activity!ActivityLogAssumption
  BY ComponentsAssumption
<1>2. Init => PagesInv
  BY PagesInit DEF Init
<1>3. PagesInv /\ [Next]_vars => PagesInv'
  BY <1>1, PagesNext, Steps
<1> QED
  BY <1>2, <1>3, PTL DEF Spec

LEMMA LoginsAlways == Spec => []LoginsInv
<1>1. Logins!AccountsAssumption
  BY ComponentsAssumption
<1>2. Init => LoginsInv
  BY <1>1, LoginsInit DEF Init
<1>3. LoginsInv /\ [Next]_vars => LoginsInv'
  BY <1>1, LoginsNext, Steps
<1> QED
  BY <1>2, <1>3, PTL DEF Spec

\* Questions alone, or questions beside a catalogue that changes.
QuestionTypes == IF focus = "queries" THEN Queries!TypeOK ELSE Catalog!TypeOK

LEMMA QuestionTypesHold == Spec => []QuestionTypes
<1>1. Queries!AssistantQueriesAssumption /\ Catalog!AssistantQueriesAssumption
  BY ComponentsAssumption
<1>2. Init => QuestionTypes
  BY <1>1, QueriesTypedInit, CatalogTypedInit DEF Init, QuestionTypes
<1>3. QuestionTypes /\ [Next]_vars => QuestionTypes'
  <2>1. ASSUME Next \/ UNCHANGED vars
        PROVE  /\ focus' = focus
               /\ focus = "queries" => Queries!Next \/ UNCHANGED queryVars
               /\ focus # "queries" => Catalog!Next \/ UNCHANGED queryVars
    BY <2>1 DEF Next, Rest, Keep, vars
  <2> QED
    BY <1>1, <2>1, QueriesTyped, CatalogTyped DEF QuestionTypes
<1> QED
  BY <1>2, <1>3, PTL DEF Spec

LEMMA TenderTypesHold == Spec => []Tender!TypeOK
<1>1. Tender!TenderFilesAssumption
  BY ComponentsAssumption
<1>2. Init => TenderTyped
  BY <1>1, TenderTypedInit DEF Init
<1>3. TenderInv /\ TenderTyped /\ [Next]_vars => TenderTyped'
  BY <1>1, TenderTypedNext, Steps DEF TenderInv
<1>4. TenderInv /\ TenderTyped => Tender!TypeOK
  BY TenderTypeOK DEF TenderInv
<1> QED
  BY <1>2, <1>3, <1>4, TenderAlways, PTL DEF Spec

LEMMA CampaignTypesHold == Spec => []Campaign!TypeOK
<1>1. Init => CampaignTyped
  BY CampaignTypedInit DEF Init
<1>2. CampaignTyped /\ [Next]_vars => CampaignTyped'
  BY CampaignTypedNext, Steps
<1>3. CampaignInv /\ CampaignTyped => Campaign!TypeOK
  BY CampaignTypeOK DEF CampaignInv
<1> QED
  BY <1>1, <1>2, <1>3, CampaignAlways, PTL DEF Spec

LEMMA DigestTypesHold == Spec => []Digest!TypeOK
<1>1. Digest!MailDigestAssumption
  BY ComponentsAssumption
<1>2. Init => DigestTyped
  BY <1>1, DigestTypedInit DEF Init
<1>3. DigestInv /\ DigestInv' /\ DigestTyped /\ [Next]_vars => DigestTyped'
  BY <1>1, DigestTypedNext, Steps
<1>4. DigestInv /\ DigestTyped => Digest!TypeOK
  BY DigestTypeOK
<1> QED
  BY <1>2, <1>3, <1>4, DigestAlways, PTL DEF Spec

LEMMA ActivityTypesHold == Spec => []Activity!TypeOK
<1>1. Activity!ActivityLogAssumption
  BY ComponentsAssumption
<1>2. Init => ActivityTyped
  BY <1>1, ActivityTypedInit DEF Init
<1>3. PagesInv /\ PagesInv' /\ ActivityTyped /\ [Next]_vars => ActivityTyped'
  <2>1. ASSUME PagesInv, PagesInv', ActivityTyped, Next \/ UNCHANGED vars PROVE ActivityTyped'
    <3>1. IsFiniteSet(log) /\ IsFiniteSet(visible)
      BY <2>1, VisibleFinite DEF PagesInv, LogTrue
    <3> QED
      BY <1>1, <2>1, <3>1, ActivityTypedNext, Steps DEF PagesInv, PagesTrue, PlaceTrue
  <2> QED
    BY <2>1
<1>4. PagesInv /\ ActivityTyped => Activity!TypeOK
  <2>1. ASSUME PagesInv, ActivityTyped PROVE Activity!TypeOK
    <3>1. \A i \in DOMAIN pages : pages[i] \subseteq visible
      BY <2>1 DEF PagesInv, PagesTrue
    <3> QED
      BY <2>1, <3>1 DEF PagesInv, PagesTrue, LogTrue, ActivityTyped, Activity!TypeOK
  <2> QED
    BY <2>1
<1> QED
  BY <1>2, <1>3, <1>4, PagesAlways, PTL DEF Spec

\* A user whose last socket is gone, with its handlers through, is announced to be
\* offline and listed nowhere (user.gateway.ts), unless one of the user's own sockets
\* went astray; every mail between the base line and the cursor is announced, in hand or
\* known to be lost, and none twice (mail-reader.service.ts); a mail of a campaign carries
\* the attachments of one start, all of them, and none from before the start its text is
\* of (mailing.service.ts, mailing.processor.ts).
THEOREM NewsIsTold == Spec => []NewsTold
<1>1. OnlineInv => Online!OfflineTold
  BY ComponentsAssumption, OnlineSound
<1>2. OnlineInv /\ MailboxInv /\ CampaignInv => NewsTold
  BY <1>1, CampaignSound DEF NewsTold, MailboxInv
<1> QED
  BY <1>2, OnlineAlways, MailboxAlways, CampaignAlways, PTL
=============================================================================
