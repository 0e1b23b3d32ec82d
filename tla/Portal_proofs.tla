---------------------------- MODULE Portal_proofs ----------------------------
(* Proofs about the backend of the portal, for any sets and bounds: the       *)
(* inductive invariants of the documentation, the conversations, the          *)
(* questions, the reports and, from Documents_proofs, the library of          *)
(* documents, and what all the invariants mean for the whole.                 *)
EXTENDS Library_proofs

(***************************************************************************)
(* The documentation of Oracle (oracle-schema-docs.service.ts).            *)
(***************************************************************************)
Refreshing(r) == check[r].pc \in {"fingerprint", "harvest", "meta"}

\* There is at most one snapshot, and it has read as much as it says.
SnapshotTyped ==
  \A s \in file : /\ s.seen \in Nat /\ s.tables \subseteq Objects
                  /\ s.history \in Seq(Docs!Change)
                  /\ \A x \in file : x = s

RequestTyped(r) ==
  /\ DOMAIN check[r] = {"pc", "asked", "fingerprint", "previous", "tables", "columns", "read", "got"}
  /\ check[r].pc \in {"new", "fingerprint", "harvest", "meta", "done"}
  /\ check[r].asked \in 0..ddl /\ check[r].tables \subseteq Objects
  /\ \A q \in DOMAIN check[r].read : check[r].read[q] \in check[r].asked..ddl

\* What a refresh stands on: at first a fingerprint that matches nothing, then the
\* snapshot it compares with, at last the one it wrote.
RefreshTrue(r) ==
  /\ check[r].pc \in {"new", "fingerprint"} => DOMAIN check[r].read = {}
  /\ check[r].pc = "fingerprint" => snapMeta \in {{}, {Docs!Forced}}
  /\ check[r].pc = "harvest" => check[r].previous = Docs!Load
  /\ check[r].pc = "meta" => file # {} /\ \A s \in file : s.seen >= check[r].asked
  /\ check[r].pc # "done" => check[r].got = None
  /\ check[r].got # None => check[r].got >= check[r].asked

\* One refresh at a time, while isRunning is set.
OneRefreshes ==
  \A r \in Refreshes : Refreshing(r) => /\ running
                                        /\ \A o \in Refreshes : Refreshing(o) => o = r

DocsInv ==
  /\ DOMAIN check = Refreshes /\ ddl \in Nat /\ SnapshotTyped /\ OneRefreshes
  /\ \A r \in Refreshes : RequestTyped(r) /\ RefreshTrue(r)

LEMMA DocsInit == ASSUME Docs!SchemaDocsAssumption, Docs!Init PROVE DocsInv
<1>1. \A r \in Refreshes : check[r] = Docs!NewRequest
  BY DEF Docs!Init
<1>2. \A r \in Refreshes : RequestTyped(r) /\ RefreshTrue(r)
  BY <1>1 DEF Docs!Init, RequestTyped, RefreshTrue, Docs!NewRequest
<1>3. OneRefreshes
  BY <1>1 DEF OneRefreshes, Refreshing, Docs!NewRequest
<1> QED
  BY <1>2, <1>3 DEF Docs!Init, DocsInv, SnapshotTyped

\* A request that ends leaves nothing but its answer.
LEMMA DocsEnds ==
  ASSUME DOMAIN check = Refreshes, NEW r \in Refreshes, NEW g, Docs!Ends(r, g)
  PROVE  /\ DOMAIN check' = Refreshes /\ \A o \in Refreshes \ {r} : check'[o] = check[o]
         /\ DOMAIN check'[r] = {"pc", "asked", "fingerprint", "previous", "tables", "columns", "read", "got"}
         /\ check'[r].pc = "done" /\ check'[r].asked = check[r].asked /\ check'[r].got = g
         /\ check'[r].tables = {} /\ DOMAIN check'[r].read = {}
<1>1. check'[r] = [Docs!NewRequest EXCEPT !.pc = "done", !.asked = check[r].asked, !.got = g]
  BY DEF Docs!Ends
<1>2. DOMAIN check' = Refreshes /\ \A o \in Refreshes \ {r} : check'[o] = check[o]
  BY DEF Docs!Ends
<1> QED
  BY <1>1, <1>2 DEF Docs!NewRequest

\* It ends soundly when the answer has read what it was asked for.
LEMMA DocsEndsSoundly ==
  ASSUME DocsInv, NEW r \in Refreshes, NEW g, Docs!Ends(r, g),
         g # None => g >= check[r].asked,
         UNCHANGED <<ddl, file, secret>>,
         Refreshing(r) \/ running' \in {running, TRUE},
         Refreshing(r) \/ snapMeta' \in {snapMeta, {}, {Docs!Forced}}
  PROVE  DocsInv'
<1> USE DEF DocsInv
<1>1. /\ DOMAIN check' = Refreshes /\ \A o \in Refreshes \ {r} : check'[o] = check[o]
      /\ DOMAIN check'[r] = {"pc", "asked", "fingerprint", "previous", "tables", "columns", "read", "got"}
      /\ check'[r].pc = "done" /\ check'[r].asked = check[r].asked /\ check'[r].got = g
      /\ check'[r].tables = {} /\ DOMAIN check'[r].read = {}
  BY DocsEnds
<1>2. OneRefreshes'
  <2>1. \A o \in Refreshes : Refreshing(o)' => o # r /\ Refreshing(o)
    BY <1>1 DEF Refreshing
  <2>2. \A o \in Refreshes : Refreshing(o) /\ o # r => ~Refreshing(r) /\ running
    BY DEF OneRefreshes
  <2>3. ASSUME NEW o \in Refreshes, Refreshing(o)' PROVE running'
    <3>1. running /\ running' \in {running, TRUE}
      BY <2>1, <2>2, <2>3
    <3> QED
      BY <3>1
  <2> QED
    BY <2>1, <2>3 DEF OneRefreshes
<1>3. ASSUME NEW o \in Refreshes PROVE RequestTyped(o)'
  BY <1>1 DEF RequestTyped
<1>4. ASSUME NEW o \in Refreshes PROVE RefreshTrue(o)'
  <2>1. CASE o = r
    BY <1>1, <2>1 DEF RefreshTrue
  <2>2. CASE o # r
    <3>1. check'[o] = check[o] /\ Docs!Load' = Docs!Load
      BY <1>1, <2>2 DEF Docs!Load
    <3>2. check[o].pc = "fingerprint" => ~Refreshing(r)
      BY <2>2 DEF OneRefreshes, Refreshing
    <3> QED
      BY <3>1, <3>2 DEF RefreshTrue
  <2> QED
    BY <2>1, <2>2
<1>5. SnapshotTyped'
  BY DEF SnapshotTyped
<1> QED
  BY <1>1, <1>2, <1>3, <1>4, <1>5

\* forceRefresh sets isRunning, and nothing matches the fingerprint any more.
LEMMA DocsForces ==
  ASSUME DocsInv, NEW r \in Refreshes, Docs!ForceRefresh(r) \/ Docs!ForceRefreshFails(r)
  PROVE  DocsInv'
<1> USE DEF DocsInv
<1>0. check[r].pc = "new" /\ ~Refreshing(r) /\ UNCHANGED <<ddl, file, secret>>
  BY DEF Docs!ForceRefresh, Docs!ForceRefreshFails, Refreshing, Docs!schemaVars, Docs!diskVars
<1>1. CASE Docs!Ends(r, None)
  <2>1. running' \in {running, TRUE} /\ snapMeta' \in {snapMeta, {}, {Docs!Forced}}
    BY DEF Docs!ForceRefresh, Docs!ForceRefreshFails
  <2> QED
    BY <1>0, <1>1, <2>1, DocsEndsSoundly
<1>2. CASE ~Docs!Ends(r, None)
  <2>1. /\ check' = [check EXCEPT ![r] = [@ EXCEPT !.pc = "fingerprint", !.asked = ddl]]
        /\ ~running /\ running' = TRUE /\ snapMeta' \in {{}, {Docs!Forced}}
    BY <1>2 DEF Docs!ForceRefresh, Docs!ForceRefreshFails
  <2>2. /\ DOMAIN check' = Refreshes /\ \A o \in Refreshes \ {r} : check'[o] = check[o]
        /\ DOMAIN check'[r] = DOMAIN check[r]
        /\ check'[r].pc = "fingerprint" /\ check'[r].asked = ddl /\ check'[r].got = check[r].got
        /\ check'[r].tables = check[r].tables /\ check'[r].read = check[r].read
    BY <2>1 DEF RequestTyped
  <2>3. OneRefreshes'
    BY <2>1, <2>2 DEF OneRefreshes, Refreshing
  <2>4. ASSUME NEW o \in Refreshes PROVE RequestTyped(o)' /\ RefreshTrue(o)'
    <3>1. CASE o = r
      BY <1>0, <2>1, <2>2, <3>1 DEF RequestTyped, RefreshTrue
    <3>2. CASE o # r
      BY <1>0, <2>1, <2>2, <3>2 DEF RequestTyped, RefreshTrue, Docs!Load
    <3> QED
      BY <3>1, <3>2
  <2>5. SnapshotTyped'
    BY <1>0 DEF SnapshotTyped
  <2> QED
    BY <1>0, <2>2, <2>3, <2>4, <2>5
<1> QED
  BY <1>1, <1>2

\* No check of today finds its fingerprint; it takes the snapshot it will compare with.
LEMMA DocsChecks ==
  ASSUME DocsInv, NEW r \in Refreshes, Docs!Check(r)
  PROVE  DocsInv'
<1> USE DEF DocsInv
<1>0. /\ check[r].pc = "fingerprint" /\ Refreshing(r) /\ UNCHANGED <<ddl, file, secret, snapMeta>>
      /\ snapMeta # {Docs!Fingerprint}
  <2>1. Docs!Fingerprint # Docs!Forced
    BY DEF Docs!Fingerprint, Docs!Forced
  <2> QED
    BY <2>1 DEF Docs!Check, Refreshing, RefreshTrue, Docs!schemaVars, Docs!diskVars
<1>1. /\ check' = [check EXCEPT ![r] = [@ EXCEPT !.pc = "harvest", !.fingerprint = Docs!Fingerprint,
                                              !.previous = Docs!Load]]
      /\ UNCHANGED running
  BY <1>0 DEF Docs!Check
<1>2. /\ DOMAIN check' = Refreshes /\ \A o \in Refreshes \ {r} : check'[o] = check[o]
      /\ DOMAIN check'[r] = DOMAIN check[r]
      /\ check'[r].pc = "harvest" /\ check'[r].previous = Docs!Load
      /\ check'[r].asked = check[r].asked /\ check'[r].got = check[r].got
      /\ check'[r].tables = check[r].tables /\ check'[r].read = check[r].read
  BY <1>1 DEF RequestTyped
<1>3. OneRefreshes'
  BY <1>0, <1>1, <1>2 DEF OneRefreshes, Refreshing
<1>4. ASSUME NEW o \in Refreshes PROVE RequestTyped(o)' /\ RefreshTrue(o)'
  <2>1. Docs!Load' = Docs!Load
    BY <1>0 DEF Docs!Load
  <2>2. CASE o = r
    BY <1>0, <1>2, <2>1, <2>2 DEF RequestTyped, RefreshTrue
  <2>3. CASE o # r
    BY <1>0, <1>2, <2>1, <2>3 DEF RequestTyped, RefreshTrue
  <2> QED
    BY <2>2, <2>3
<1> QED
  BY <1>0, <1>2, <1>3, <1>4 DEF SnapshotTyped

\* A query reads at its time, after the refresh was asked for.
LEMMA DocsHarvests ==
  ASSUME DocsInv, NEW r \in Refreshes, NEW q \in Docs!Queries, Docs!Harvest(r, q)
  PROVE  DocsInv'
<1> USE DEF DocsInv
<1>0. check[r].pc = "harvest" /\ Refreshing(r) /\ UNCHANGED <<ddl, file, secret, snapMeta, running>>
  BY DEF Docs!Harvest, Refreshing, Docs!schemaVars, Docs!diskVars
<1>1. check' = [check EXCEPT ![r] = [@ EXCEPT
        !.tables = IF q = "tables" THEN Docs!Live ELSE check[r].tables,
        !.columns = IF q = "columns" THEN schema ELSE check[r].columns,
        !.read = [p \in DOMAIN check[r].read \cup {q} |->
                    IF p = q THEN ddl ELSE check[r].read[p]]]]
  BY DEF Docs!Harvest
<1>2. /\ DOMAIN check' = Refreshes /\ \A o \in Refreshes \ {r} : check'[o] = check[o]
      /\ DOMAIN check'[r] = DOMAIN check[r]
      /\ check'[r].pc = check[r].pc /\ check'[r].previous = check[r].previous
      /\ check'[r].asked = check[r].asked /\ check'[r].got = check[r].got
  BY <1>1 DEF RequestTyped
<1>3. /\ check'[r].tables \in {check[r].tables, Docs!Live}
      /\ check'[r].read = [p \in DOMAIN check[r].read \cup {q} |->
                             IF p = q THEN ddl ELSE check[r].read[p]]
  BY <1>1 DEF RequestTyped
<1>4. OneRefreshes'
  BY <1>0, <1>1, <1>2 DEF OneRefreshes, Refreshing
<1>5. ASSUME NEW o \in Refreshes PROVE RequestTyped(o)' /\ RefreshTrue(o)'
  <2>1. Docs!Load' = Docs!Load
    BY <1>0 DEF Docs!Load
  <2>2. CASE o = r
    <3>1. check'[r].tables \subseteq Objects
      BY <1>3 DEF RequestTyped, Docs!Live
    <3>2. \A p \in DOMAIN check'[r].read : check'[r].read[p] \in check'[r].asked..ddl'
      BY <1>0, <1>2, <1>3 DEF RequestTyped
    <3> QED
      BY <1>0, <1>2, <2>1, <2>2, <3>1, <3>2 DEF RequestTyped, RefreshTrue
  <2>3. CASE o # r
    BY <1>0, <1>2, <2>1, <2>3 DEF RequestTyped, RefreshTrue
  <2> QED
    BY <2>2, <2>3
<1> QED
  BY <1>0, <1>2, <1>4, <1>5 DEF SnapshotTyped

\* The smaller of two numbers.
LEMMA MinOfTwo ==
  ASSUME NEW a \in Nat, NEW b \in Nat
  PROVE  Docs!Min({a, b}) = IF a <= b THEN a ELSE b
<1> DEFINE m == IF a <= b THEN a ELSE b
<1>1. m \in {a, b} /\ \A y \in {a, b} : m <= y
  OBVIOUS
<1>2. \A x \in {a, b} : (\A y \in {a, b} : x <= y) => x = m
  OBVIOUS
<1> HIDE DEF m
<1>3. Docs!Min({a, b}) = m
  BY <1>1, <1>2 DEF Docs!Min
<1> QED
  BY <1>3 DEF m

\* A story that was cut to a limit begins with what is new and goes on with the old one.
LEMMA StoryGoesOn ==
  ASSUME NEW S, NEW d \in S, NEW h \in Seq(S), NEW n \in 1..Len(h) + 1
  PROVE  /\ SubSeq(<<d>> \o h, 1, n) \in Seq(S) /\ Len(SubSeq(<<d>> \o h, 1, n)) = n
         /\ Head(SubSeq(<<d>> \o h, 1, n)) = d
         /\ Tail(SubSeq(<<d>> \o h, 1, n)) = SubSeq(h, 1, n - 1)
<1> DEFINE s == <<d>> \o h
<1>1. s \in Seq(S) /\ Len(s) = Len(h) + 1 /\ s[1] = d
      /\ \A i \in 2..Len(h) + 1 : s[i] = h[i - 1]
  <2>1. <<d>> \in Seq(S) /\ Len(<<d>>) = 1 /\ <<d>>[1] = d
    OBVIOUS
  <2> QED
    BY <2>1, ConcatProperties
<1> HIDE DEF s
<1>2. SubSeq(s, 1, n) \in Seq(S) /\ Len(SubSeq(s, 1, n)) = n
  BY <1>1, SubSeqProperties
<1>3. Head(SubSeq(s, 1, n)) = s[1] /\ Tail(SubSeq(s, 1, n)) = SubSeq(s, 2, n)
  BY <1>1, HeadTailOfSubSeq
<1>4. SubSeq(s, 2, n) = SubSeq(h, 1, n - 1)
  <2>1. /\ SubSeq(s, 2, n) \in Seq(S)
        /\ Len(SubSeq(s, 2, n)) = IF 2 <= n THEN n - 2 + 1 ELSE 0
        /\ \A i \in 1..n - 2 + 1 : SubSeq(s, 2, n)[i] = s[2 + i - 1]
    BY <1>1, SubSeqProperties
  <2>2. /\ SubSeq(h, 1, n - 1) \in Seq(S)
        /\ Len(SubSeq(h, 1, n - 1)) = IF 1 <= n - 1 THEN n - 1 - 1 + 1 ELSE 0
        /\ \A i \in 1..n - 1 - 1 + 1 : SubSeq(h, 1, n - 1)[i] = h[1 + i - 1]
    BY SubSeqProperties
  <2>3. Len(SubSeq(s, 2, n)) = n - 1 /\ Len(SubSeq(h, 1, n - 1)) = n - 1
    BY <2>1, <2>2
  <2>4. ASSUME NEW i \in 1..n - 1 PROVE SubSeq(s, 2, n)[i] = SubSeq(h, 1, n - 1)[i]
    <3>1. SubSeq(s, 2, n)[i] = s[i + 1]
      BY <2>1
    <3>2. SubSeq(h, 1, n - 1)[i] = h[i]
      BY <2>2
    <3>3. s[i + 1] = h[i]
      BY <1>1
    <3> QED
      BY <3>1, <3>2, <3>3
  <2> QED
    BY <2>1, <2>2, <2>3, <2>4, SeqEqual
<1> QED
  BY <1>1, <1>2, <1>3, <1>4 DEF s

\* What is written has read what it was asked for, and continues the one it takes the
\* place of.
LEMMA DocsTaken ==
  ASSUME Docs!SchemaDocsAssumption, DocsInv, NEW r \in Refreshes,
         check[r].pc = "harvest", DOMAIN check[r].read = Docs!Queries
  PROVE  LET new == Docs!Taken(r)
         IN /\ new.seen \in Nat /\ new.seen >= check[r].asked
            /\ new.tables \subseteq Objects /\ new.history \in Seq(Docs!Change)
            /\ \A old \in file : old.key = secret =>
                 /\ Head(new.history) = Docs!Diff(old, new)
                 /\ Tail(new.history) = SubSeq(old.history, 1, Len(new.history) - 1)
<1> DEFINE columns == [o \in Objects |-> IF o \in check[r].tables THEN check[r].columns[o] ELSE 0]
           bare == [tables |-> check[r].tables, columns |-> columns]
           new == Docs!Taken(r)
<1>0. check[r].tables \subseteq Objects /\ check[r].previous = Docs!Load /\ HistoryLimit \in Nat \ {0}
  BY DEF DocsInv, RequestTyped, RefreshTrue, Docs!SchemaDocsAssumption
<1>1. new.seen \in Nat /\ new.seen >= check[r].asked
  <2>1. /\ check[r].read["tables"] \in Nat /\ check[r].read["tables"] >= check[r].asked
        /\ check[r].read["columns"] \in Nat /\ check[r].read["columns"] >= check[r].asked
    BY DEF DocsInv, RequestTyped, Docs!Queries
  <2>2. {check[r].read[q] : q \in Docs!Queries} = {check[r].read["tables"], check[r].read["columns"]}
    BY DEF Docs!Queries
  <2>3. new.seen = Docs!Min({check[r].read["tables"], check[r].read["columns"]})
    BY <2>2 DEF Docs!Taken
  <2> HIDE DEF new
  <2> QED
    BY <2>1, <2>3, MinOfTwo
<1>2. new.tables = check[r].tables /\ new.columns = columns /\ new.key = secret
  BY DEF Docs!Taken
<1>3. \A old \in file : Docs!Diff(old, new) = Docs!Diff(old, bare)
  <2> HIDE DEF new, columns
  <2> QED
    BY <1>2 DEF Docs!Diff
<1>4. CASE check[r].previous = {}
  <2>1. new.history = SubSeq(<<Docs!NoChange>>, 1, Docs!Min({HistoryLimit, Len(<<Docs!NoChange>>)}))
    BY <1>4 DEF Docs!Taken
  <2>2. Docs!Min({HistoryLimit, Len(<<Docs!NoChange>>)}) = 1
    BY <1>0, MinOfTwo
  <2>3. Docs!NoChange \in Docs!Change
    BY DEF Docs!NoChange, Docs!Change
  <2>4. new.history \in Seq(Docs!Change)
    <3> DEFINE one == <<Docs!NoChange>>
    <3>1. \A i \in 1..1 : one[i] \in Docs!Change
      BY <2>3
    <3> HIDE DEF new, one
    <3>2. SubSeq(one, 1, 1) \in Seq(Docs!Change)
      BY <3>1, SubSeqProperties
    <3> QED
      BY <2>1, <2>2, <3>2 DEF one
  <2>5. \A old \in file : old.key # secret
    BY <1>0, <1>4 DEF Docs!Load
  <2> QED
    BY <1>0, <1>1, <1>2, <2>4, <2>5
<1>5. ASSUME NEW old \in file, old.key = secret
      PROVE  /\ new.history \in Seq(Docs!Change)
             /\ Head(new.history) = Docs!Diff(old, new)
             /\ Tail(new.history) = SubSeq(old.history, 1, Len(new.history) - 1)
  <2>1. check[r].previous = {old} /\ old.history \in Seq(Docs!Change) /\ old.tables \subseteq Objects
    BY <1>0, <1>5 DEF Docs!Load, DocsInv, SnapshotTyped
  <2> DEFINE story == <<Docs!Diff(old, bare)>> \o old.history
             n == Docs!Min({HistoryLimit, Len(story)})
  <2>2. new.history = SubSeq(story, 1, n)
    <3>1. (CHOOSE s \in check[r].previous : TRUE) = old /\ check[r].previous # {}
      BY <2>1
    <3> QED
      BY <3>1 DEF Docs!Taken
  <2>3. Docs!Diff(old, bare) \in Docs!Change
    BY <1>0, <2>1 DEF Docs!Diff, Docs!Change
  <2>4. Len(story) = Len(old.history) + 1
    BY <2>1, <2>3
  <2>5. n \in 1..Len(old.history) + 1
    <3>1. Len(old.history) \in Nat
      BY <2>1
    <3> HIDE DEF story
    <3> QED
      BY <1>0, <2>4, <3>1, MinOfTwo
  <2> HIDE DEF n, new, bare
  <2>6. /\ SubSeq(story, 1, n) \in Seq(Docs!Change) /\ Len(SubSeq(story, 1, n)) = n
        /\ Head(SubSeq(story, 1, n)) = Docs!Diff(old, bare)
        /\ Tail(SubSeq(story, 1, n)) = SubSeq(old.history, 1, n - 1)
    BY <2>1, <2>3, <2>5, StoryGoesOn
  <2> QED
    BY <1>3, <2>2, <2>6
<1>6. CASE check[r].previous # {}
  <2>1. PICK old \in file : old.key = secret
    BY <1>0, <1>6 DEF Docs!Load
  <2>2. \A x \in file : x = old
    BY DEF DocsInv, SnapshotTyped
  <2> QED
    BY <1>0, <1>1, <1>2, <1>5, <2>1, <2>2
<1> QED
  BY <1>4, <1>6

\* The snapshot is replaced by what was read, by the one refresh there is.
LEMMA DocsPersists ==
  ASSUME Docs!SchemaDocsAssumption, DocsInv, NEW r \in Refreshes, Docs!Persist(r)
  PROVE  DocsInv' /\ Docs!HistoryKept
<1> USE DEF DocsInv
<1>0. /\ check[r].pc = "harvest" /\ DOMAIN check[r].read = Docs!Queries /\ Refreshing(r)
      /\ file' = {Docs!Taken(r)} /\ check' = [check EXCEPT ![r].pc = "meta"]
      /\ UNCHANGED <<ddl, secret, snapMeta, running>>
  BY DEF Docs!Persist, Refreshing, Docs!schemaVars
<1> DEFINE new == Docs!Taken(r)
<1>1. /\ new.seen \in Nat /\ new.seen >= check[r].asked
      /\ new.tables \subseteq Objects /\ new.history \in Seq(Docs!Change)
      /\ \A old \in file : old.key = secret =>
           /\ Head(new.history) = Docs!Diff(old, new)
           /\ Tail(new.history) = SubSeq(old.history, 1, Len(new.history) - 1)
  BY <1>0, DocsTaken
<1>2. new.key = secret
  BY DEF Docs!Taken
<1> HIDE DEF new
<1>3. file' = {new}
  BY <1>0 DEF new
<1>4. Docs!HistoryKept
  BY <1>1, <1>2, <1>3 DEF Docs!HistoryKept
<1>5. SnapshotTyped'
  BY <1>1, <1>3 DEF SnapshotTyped
<1>6. /\ DOMAIN check' = Refreshes /\ \A o \in Refreshes \ {r} : check'[o] = check[o]
      /\ DOMAIN check'[r] = DOMAIN check[r] /\ check'[r].pc = "meta"
      /\ check'[r].asked = check[r].asked /\ check'[r].got = check[r].got
      /\ check'[r].tables = check[r].tables /\ check'[r].read = check[r].read
  BY <1>0 DEF RequestTyped
<1>7. OneRefreshes'
  BY <1>0, <1>6 DEF OneRefreshes, Refreshing
<1>8. ASSUME NEW o \in Refreshes PROVE RequestTyped(o)' /\ RefreshTrue(o)'
  <2>1. CASE o = r
    BY <1>0, <1>1, <1>3, <1>6, <2>1 DEF RequestTyped, RefreshTrue
  <2>2. CASE o # r
    <3>1. check'[o] = check[o] /\ ~Refreshing(o)
      BY <1>0, <1>6, <2>2 DEF OneRefreshes
    <3> QED
      BY <1>0, <3>1 DEF RequestTyped, RefreshTrue, Refreshing
  <2> QED
    BY <2>1, <2>2
<1> QED
  BY <1>0, <1>4, <1>5, <1>6, <1>7, <1>8

\* The schema changes and the backend restarts beside it.
LEMMA DocsRests ==
  ASSUME DocsInv, Docs!Restart \/ Docs!Tick \/ Docs!GetDocs \/ \E o \in Objects : Docs!DDL(o)
  PROVE  DocsInv' /\ file' = file
<1> USE DEF DocsInv
<1>1. CASE Docs!Restart
  <2>1. UNCHANGED <<ddl, file>>
        /\ check' = [r \in Refreshes |->
                       IF check[r].pc = "new" THEN check[r]
                       ELSE [Docs!NewRequest EXCEPT !.pc = "done", !.asked = check[r].asked,
                                                    !.got = check[r].got]]
    BY <1>1 DEF Docs!Restart, Docs!schemaVars
  <2>2. ASSUME NEW r \in Refreshes
        PROVE  \/ check'[r] = check[r] /\ check[r].pc = "new"
               \/ /\ DOMAIN check'[r] = DOMAIN Docs!NewRequest /\ check'[r].pc = "done"
                  /\ check'[r].asked = check[r].asked /\ check'[r].got = check[r].got
                  /\ check'[r].tables = {} /\ DOMAIN check'[r].read = {}
    BY <2>1 DEF Docs!NewRequest
  <2>3. OneRefreshes'
    BY <2>2 DEF OneRefreshes, Refreshing
  <2>4. ASSUME NEW r \in Refreshes PROVE RequestTyped(r)' /\ RefreshTrue(r)'
    <3>1. RequestTyped(r)'
      <4>1. RequestTyped(r) /\ ddl' = ddl
        BY <2>1
      <4>2. CASE check'[r] = check[r]
        BY <4>1, <4>2 DEF RequestTyped
      <4>3. CASE /\ DOMAIN check'[r] = DOMAIN Docs!NewRequest /\ check'[r].pc = "done"
                 /\ check'[r].asked = check[r].asked
                 /\ check'[r].tables = {} /\ DOMAIN check'[r].read = {}
        <5>1. DOMAIN check'[r] = {"pc", "asked", "fingerprint", "previous", "tables", "columns",
                                  "read", "got"}
          BY <4>3 DEF Docs!NewRequest
        <5>2. check'[r].asked \in 0..ddl'
          BY <4>1, <4>3 DEF RequestTyped
        <5> QED
          BY <4>3, <5>1, <5>2 DEF RequestTyped
      <4> QED
        BY <2>2, <4>2, <4>3
    <3>2. RefreshTrue(r)'
      <4>1. check'[r].asked = check[r].asked /\ check'[r].got = check[r].got
            /\ (check[r].got # None => check[r].got >= check[r].asked)
        BY <2>2 DEF RefreshTrue
      <4>2. \/ check'[r].pc = "new" /\ check[r].got = None /\ DOMAIN check'[r].read = {}
            \/ check'[r].pc = "done"
        BY <2>2 DEF RefreshTrue
      <4> QED
        BY <4>1, <4>2 DEF RefreshTrue
    <3> QED
      BY <3>1, <3>2
  <2> QED
    BY <2>1, <2>3, <2>4 DEF SnapshotTyped
<1>2. ASSUME UNCHANGED <<file, secret, snapMeta, running, check>>, ddl' \in {ddl, ddl + 1}
      PROVE  DocsInv' /\ file' = file
  <2>1. OneRefreshes' /\ SnapshotTyped'
    BY <1>2 DEF OneRefreshes, Refreshing, SnapshotTyped
  <2>2. ASSUME NEW r \in Refreshes PROVE RequestTyped(r)' /\ RefreshTrue(r)'
    <3>1. RequestTyped(r)'
      BY <1>2 DEF RequestTyped
    <3>2. RefreshTrue(r)'
      BY <1>2 DEF RefreshTrue, Docs!Load
    <3> QED
      BY <3>1, <3>2
  <2> QED
    BY <1>2, <2>1, <2>2
<1> QED
  BY <1>1, <1>2 DEF Docs!Tick, Docs!GetDocs, Docs!DDL, Docs!schemaVars, Docs!diskVars

LEMMA DocsNext ==
  ASSUME Docs!SchemaDocsAssumption, DocsInv, Docs!Next \/ UNCHANGED docsVars
  PROVE  DocsInv' /\ Docs!HistoryKept
<1>0. file' = file => Docs!HistoryKept
  BY DEF DocsInv, SnapshotTyped, Docs!HistoryKept
<1>1. ASSUME NEW r \in Refreshes, Docs!ForceRefresh(r) \/ Docs!ForceRefreshFails(r) \/ Docs!Check(r)
      PROVE  DocsInv' /\ Docs!HistoryKept
  <2>1. file' = file
    BY <1>1 DEF Docs!ForceRefresh, Docs!ForceRefreshFails, Docs!Check, Docs!diskVars
  <2> QED
    BY <1>0, <1>1, <2>1, DocsForces, DocsChecks
<1>2. ASSUME NEW r \in Refreshes, NEW q \in Docs!Queries, Docs!Harvest(r, q)
      PROVE  DocsInv' /\ Docs!HistoryKept
  <2>1. file' = file
    BY <1>2 DEF Docs!Harvest, Docs!diskVars
  <2> QED
    BY <1>0, <1>2, <2>1, DocsHarvests
<1>3. ASSUME NEW r \in Refreshes, Docs!CheckFails(r) \/ Docs!WriteMeta(r) \/ Docs!WriteMetaFails(r)
      PROVE  DocsInv' /\ Docs!HistoryKept
  <2>1. Refreshing(r) /\ UNCHANGED <<file, ddl, secret>>
    BY <1>3 DEF Docs!CheckFails, Docs!WriteMeta, Docs!WriteMetaFails, Refreshing,
                Docs!schemaVars, Docs!diskVars
  <2>2. PICK g \in {None} \cup {s.seen : s \in file} :
          Docs!Ends(r, g) /\ (g # None => g >= check[r].asked)
    <3>1. CASE Docs!Ends(r, None)
      BY <3>1
    <3>2. CASE ~Docs!Ends(r, None)
      <4>1. Docs!WriteMeta(r)
        BY <1>3, <3>2 DEF Docs!CheckFails, Docs!WriteMetaFails, Docs!Throws
      <4>2. file # {} /\ \A s \in file : s.seen >= check[r].asked
        BY <4>1 DEF Docs!WriteMeta, DocsInv, RefreshTrue
      <4>3. (CHOOSE s \in file : TRUE) \in file
        BY <4>2
      <4> QED
        BY <4>1, <4>2, <4>3 DEF Docs!WriteMeta
    <3> QED
      BY <3>1, <3>2
  <2>3. DocsInv'
    BY <2>1, <2>2, DocsEndsSoundly
  <2> QED
    BY <1>0, <2>1, <2>3
<1>4. ASSUME NEW r \in Refreshes, Docs!Persist(r) PROVE DocsInv' /\ Docs!HistoryKept
  BY <1>4, DocsPersists
<1>5. ASSUME Docs!Restart \/ Docs!Tick \/ Docs!GetDocs \/ \E o \in Objects : Docs!DDL(o)
      PROVE  DocsInv' /\ Docs!HistoryKept
  BY <1>0, <1>5, DocsRests
<1>6. CASE UNCHANGED docsVars
  <2>1. UNCHANGED <<file, ddl, secret, snapMeta, running, check>>
    BY <1>6 DEF docsVars
  <2>2. DocsInv'
    BY <2>1 DEF DocsInv, SnapshotTyped, OneRefreshes, Refreshing, RequestTyped, RefreshTrue, Docs!Load
  <2> QED
    BY <1>0, <2>1, <2>2
<1> QED
  BY <1>1, <1>2, <1>3, <1>4, <1>5, <1>6 DEF Docs!Next, Docs!Progress

(***************************************************************************)
(* Conversations with the assistant (redis-chat-history.store.ts).         *)
(***************************************************************************)
Message(r, role) == [of |-> r, role |-> role]

\* r has still to say what it says as role; r has said its question.
Unsaid(r, role) ==
  /\ req[r].step \notin {"done", "failed"}
  /\ IF role = "user"
     THEN req[r].role = "user" /\ req[r].step \in {"idle", "look", "create", "index", "card",
                                                   "range", "trim", "get", "push"}
     ELSE req[r].role = "user" \/ req[r].step \in {"get", "push"}
Said(r) ==
  /\ req[r].kind = "chat"
  /\ req[r].role = "assistant" \/ req[r].step \in {"set", "zadd", "route", "tool"}

\* Where the commands of a request stand, and on which conversation.
ChatTyped(r) ==
  /\ DOMAIN req[r] = {"kind", "step", "s", "role", "branch", "ids", "over", "count"}
  /\ req[r].ids \subseteq chats /\ req[r].role \in {"user", "assistant"}
  /\ req[r].step \in Chats!Steps
  /\ req[r].step \in {"look", "create", "index", "push", "route", "tool"} => req[r].kind = "chat"
  /\ req[r].step = "get" => req[r].kind \in {"chat", "rename"}
  /\ (\/ req[r].step \in {"index", "get", "push", "set", "zadd", "route", "tool"}
      \/ req[r].step \in {"card", "range", "trim"} /\ req[r].kind = "chat")
     => req[r].s \in Sessions
  /\ IF req[r].step = "index" THEN req[r].s \notin chats ELSE req[r].s \in chats \cup {None}
  /\ req[r].step \notin {"get", "push", "set", "zadd"} => req[r].role = "user"

\* Nobody else knows of a conversation that is not in the index yet.
ChatOwns(r) ==
  req[r].step = "index" => \A x \in ChatRequests \ {r} : req[x].s # req[r].s

StoreTyped ==
  /\ DOMAIN req = ChatRequests /\ DOMAIN meta = Sessions
  /\ DOMAIN msgs = Sessions /\ \A s \in Sessions : msgs[s] \in Seq(Chats!Messages)
  /\ chats \subseteq Sessions /\ quiet \subseteq chats
  /\ Chats!Listed(index) \subseteq chats

\* What was removed while nobody was saving to it is still saved to by nobody.
QuietTrue ==
  \A s \in quiet : /\ meta[s] = None /\ msgs[s] = <<>> /\ s \notin Chats!Listed(index)
                   /\ ~Chats!Saving(s)

\* A message has one place at most, and none before it is said and after it is gone.
MessagesTrue ==
  /\ \A s, t \in Sessions : \A i \in 1..Len(msgs[s]), j \in 1..Len(msgs[t]) :
       msgs[s][i] = msgs[t][j] => s = t /\ i = j
  /\ \A s \in Sessions : \A i \in 1..Len(msgs[s]) : msgs[s][i] \notin gone
  /\ \A r \in ChatRequests, role \in Chats!Roles : Unsaid(r, role) =>
       /\ Message(r, role) \notin gone
       /\ \A s \in Sessions : \A i \in 1..Len(msgs[s]) : msgs[s][i] # Message(r, role)

\* The question of an answer, said or to come, stands before it, or is gone.
QuestionsTrue ==
  /\ \A s \in Sessions : \A i \in 1..Len(msgs[s]) :
       LET q == Message(msgs[s][i].of, "user")
       IN q \in gone \/ \E j \in 1..i : msgs[s][j] = q
  /\ \A r \in ChatRequests : Said(r) =>
       LET q == Message(r, "user")
       IN q \in gone \/ \E j \in 1..Len(msgs[req[r].s]) : msgs[req[r].s][j] = q

ChatsInv ==
  /\ StoreTyped /\ QuietTrue /\ MessagesTrue /\ QuestionsTrue
  /\ \A r \in ChatRequests : ChatTyped(r) /\ ChatOwns(r)

LEMMA ChatsInit == ASSUME Chats!AssistantAssumption, Chats!Init PROVE ChatsInv
<1> USE DEF Chats!Init, Chats!Fresh, Chats!AssistantAssumption
<1>1. StoreTyped
  <2>1. index \subseteq Old \X Old
    OBVIOUS
  <2>2. Chats!Listed(index) \subseteq Old
    BY <2>1 DEF Chats!Listed
  <2>3. ASSUME NEW s \in Sessions PROVE msgs[s] \in Seq(Chats!Messages)
    <3>1. CASE s \in Old
      <4>1. /\ [of |-> s, role |-> "user"] \in Chats!Messages
            /\ [of |-> s, role |-> "assistant"] \in Chats!Messages
        BY <3>1 DEF Chats!Messages, Chats!Roles
      <4>2. msgs[s] = <<[of |-> s, role |-> "user"], [of |-> s, role |-> "assistant"]>>
        BY <3>1
      <4> HIDE DEF Chats!Init
      <4> QED
        BY <4>1, <4>2
    <3>2. CASE s \notin Old
      BY <3>2
    <3> QED
      BY <3>1, <3>2
  <2> QED
    BY <2>2, <2>3 DEF StoreTyped
<1>2. QuietTrue
  BY DEF QuietTrue
<1>3. \A s \in Sessions : \A i \in 1..Len(msgs[s]) :
        /\ s \in Old /\ Len(msgs[s]) = 2 /\ i \in {1, 2}
        /\ msgs[s][i].of = s /\ msgs[s][i].role = (IF i = 1 THEN "user" ELSE "assistant")
        /\ msgs[s][1] = Message(s, "user")
  BY DEF Message
<1>4. MessagesTrue
  <2>1. ASSUME NEW r \in ChatRequests, NEW role \in Chats!Roles, NEW s \in Sessions,
               NEW i \in 1..Len(msgs[s])
        PROVE  msgs[s][i] # Message(r, role)
    BY <1>3 DEF Message
  <2>2. ASSUME NEW s \in Sessions, NEW t \in Sessions, NEW i \in 1..Len(msgs[s]),
               NEW j \in 1..Len(msgs[t]), msgs[s][i] = msgs[t][j]
        PROVE  s = t /\ i = j
    BY <1>3, <2>2
  <2> QED
    BY <2>1, <2>2 DEF MessagesTrue
<1>5. QuestionsTrue
  <2>1. \A r \in ChatRequests : ~Said(r)
    BY DEF Said
  <2>2. ASSUME NEW s \in Sessions, NEW i \in 1..Len(msgs[s])
        PROVE  \E j \in 1..i : msgs[s][j] = Message(msgs[s][i].of, "user")
    BY <1>3
  <2> QED
    BY <2>1, <2>2 DEF QuestionsTrue
<1>6. ASSUME NEW r \in ChatRequests PROVE ChatTyped(r) /\ ChatOwns(r)
  BY DEF ChatTyped, ChatOwns, Chats!Steps
<1> QED
  BY <1>1, <1>2, <1>4, <1>5, <1>6 DEF ChatsInv

\* Request r goes to a step p, and to what it holds there: its kind, its conversation, the
\* side it speaks for, the conversations it works on.
Went(r, p, k, t, o, ids) ==
  /\ DOMAIN req' = ChatRequests
  /\ \A x \in ChatRequests \ {r} : req'[x] = req[x]
  /\ DOMAIN req'[r] = {"kind", "step", "s", "role", "branch", "ids", "over", "count"}
  /\ req'[r].step = p /\ req'[r].kind = k /\ req'[r].s = t /\ req'[r].role = o
  /\ req'[r].ids = ids

\* That is what request r may hold at step p.
Fits(r, p, k, t, o, ids) ==
  /\ p \in Chats!Steps /\ o \in {"user", "assistant"} /\ ids \subseteq chats'
  /\ p \in {"look", "create", "index", "push", "route", "tool"} => k = "chat"
  /\ p = "get" => k \in {"chat", "rename"}
  /\ (\/ p \in {"index", "get", "push", "set", "zadd", "route", "tool"}
      \/ p \in {"card", "range", "trim"} /\ k = "chat") => t \in Sessions
  /\ IF p = "index" THEN t \notin chats' /\ \A x \in ChatRequests \ {r} : req[x].s # t
     ELSE t \in chats' \cup {None}
  /\ p \notin {"get", "push", "set", "zadd"} => o = "user"
  /\ t = req[r].s \/ t \in chats \cup {None} \/ p = "index"

\* Conversations come into the index, none that another request is making.
ChatsGrow(r) ==
  /\ chats \subseteq chats' /\ chats' \subseteq Sessions
  /\ \A x \in ChatRequests \ {r} : req[x].step = "index" => req[x].s \notin chats'

LEMMA ChatGoes ==
  ASSUME ChatsInv, None \notin Sessions, NEW r \in ChatRequests, NEW p, NEW k, NEW t, NEW o,
         NEW ids, Went(r, p, k, t, o, ids), Fits(r, p, k, t, o, ids), ChatsGrow(r)
  PROVE  /\ DOMAIN req' = ChatRequests
         /\ \A x \in ChatRequests : ChatTyped(x)' /\ ChatOwns(x)'
<1> USE DEF Went, ChatsInv, Fits, ChatsGrow
<1>1. ChatTyped(r)'
  BY DEF ChatTyped
<1>2. ASSUME NEW x \in ChatRequests \ {r} PROVE ChatTyped(x)'
  BY DEF ChatTyped
<1>3. ChatOwns(r)'
  BY DEF ChatOwns
<1>4. ASSUME NEW x \in ChatRequests \ {r}, req[x].step = "index"
      PROVE  req[x].s # t /\ \A y \in ChatRequests \ {x, r} : req[y].s # req[x].s
  <2>1. req[x].s \in Sessions /\ req[x].s \notin chats /\ req[x].s # req[r].s
    BY <1>4 DEF ChatTyped, ChatOwns
  <2>2. req[x].s # t
    BY <1>4, <2>1
  <2> QED
    BY <1>4, <2>2 DEF ChatOwns
<1>5. ASSUME NEW x \in ChatRequests \ {r} PROVE ChatOwns(x)'
  BY <1>4 DEF ChatOwns
<1> QED
  BY <1>1, <1>2, <1>3, <1>5

\* No request takes a message of its own back, nor says one in a conversation by this step.
Onward ==
  \A x \in ChatRequests :
    /\ \A o \in Chats!Roles : Unsaid(x, o)' => Unsaid(x, o)
    /\ Said(x)' => Said(x) /\ req'[x].s = req[x].s

\* Messages leave with their conversations.
LEMMA MessagesLeave ==
  ASSUME ChatsInv, NEW ids \in SUBSET Sessions, Onward,
         \A s \in Sessions : msgs'[s] = (IF s \in ids THEN <<>> ELSE msgs[s]),
         gone' = gone \cup UNION {Range(msgs[s]) : s \in ids}
  PROVE  MessagesTrue' /\ QuestionsTrue'
<1> USE DEF ChatsInv
<1>1. \A s \in Sessions : /\ s \notin ids => msgs'[s] = msgs[s]
                          /\ s \in ids => msgs'[s] = <<>> /\ Len(msgs'[s]) = 0
  OBVIOUS
<1>2. \A m : m \in gone' <=> m \in gone \/ \E s \in ids : \E i \in 1..Len(msgs[s]) : m = msgs[s][i]
  <2>1. \A s \in ids : Range(msgs[s]) = {msgs[s][i] : i \in 1..Len(msgs[s])}
    BY DEF Range, StoreTyped
  <2>2. ASSUME NEW m
        PROVE  m \in UNION {Range(msgs[s]) : s \in ids} <=> \E s \in ids : m \in Range(msgs[s])
    OBVIOUS
  <2>3. ASSUME NEW m, NEW s \in ids
        PROVE  m \in Range(msgs[s]) <=> \E i \in 1..Len(msgs[s]) : m = msgs[s][i]
    BY <2>1
  <2>4. ASSUME NEW m
        PROVE  m \in gone' <=> m \in gone \/ \E s \in ids : m \in Range(msgs[s])
    BY <2>2
  <2> QED
    BY ONLY <2>3, <2>4
<1>3. ASSUME NEW s \in Sessions, NEW i \in 1..Len(msgs'[s])
      PROVE  s \notin ids /\ i \in 1..Len(msgs[s]) /\ msgs'[s] = msgs[s] /\ msgs[s][i] \notin gone'
  <2>1. s \notin ids /\ msgs'[s] = msgs[s]
    BY <1>1
  <2> QED
    BY <1>2, <2>1 DEF MessagesTrue
<1>4. MessagesTrue'
  <2>1. ASSUME NEW r \in ChatRequests, NEW role \in Chats!Roles, Unsaid(r, role)'
        PROVE  /\ Message(r, role) \notin gone'
               /\ \A s \in Sessions : \A i \in 1..Len(msgs'[s]) : msgs'[s][i] # Message(r, role)
    <3>1. Unsaid(r, role)
      BY <2>1 DEF Onward
    <3> QED
      BY <1>2, <1>3, <3>1 DEF MessagesTrue
  <2> QED
    BY <1>3, <2>1 DEF MessagesTrue, Message
<1>5. ASSUME NEW s \in Sessions, NEW i \in 1..Len(msgs'[s])
      PROVE  LET q == Message(msgs'[s][i].of, "user")
             IN q \in gone' \/ \E j \in 1..i : msgs'[s][j] = q
  BY <1>2, <1>3 DEF QuestionsTrue
<1>6. ASSUME NEW r \in ChatRequests, Said(r)'
      PROVE  LET q == Message(r, "user")
             IN q \in gone' \/ \E j \in 1..Len(msgs'[req'[r].s]) : msgs'[req'[r].s][j] = q
  <2>1. Said(r) /\ req'[r].s = req[r].s /\ req[r].s \in Sessions
    BY <1>6 DEF Onward, Said, ChatTyped, Chats!Steps
  <2> QED
    BY <1>1, <1>2, <2>1 DEF QuestionsTrue
<1> QED
  BY <1>4, <1>5, <1>6 DEF QuestionsTrue, Message

\* Who is removed while nobody saves to it, stays away: others save to what they found there.
LEMMA QuietStays ==
  ASSUME ChatsInv, NEW r \in ChatRequests, NEW p, NEW k, NEW t, NEW o, NEW ids,
         Went(r, p, k, t, o, ids), NEW away \in SUBSET chats, quiet' = quiet \cup away,
         p \in {"push", "set", "zadd"} => t \notin quiet',
         \A s \in quiet' : meta'[s] = None /\ msgs'[s] = <<>> /\ s \notin Chats!Listed(index'),
         \A s \in away : ~Chats!Saving(s)
  PROVE  QuietTrue'
<1>1. \A s \in quiet' : ~Chats!Saving(s)
  BY DEF ChatsInv, QuietTrue
<1>2. \A s \in quiet' : ~Chats!Saving(s)'
  BY <1>1 DEF Chats!Saving, Went
<1> QED
  BY <1>2 DEF QuietTrue

\* A request goes on, and no message comes or goes.
LEMMA TalkRests ==
  ASSUME ChatsInv, None \notin Sessions, NEW r \in ChatRequests, NEW p, NEW k, NEW t, NEW o,
         NEW ids, Went(r, p, k, t, o, ids), Fits(r, p, k, t, o, ids), ChatsGrow(r), Onward,
         UNCHANGED <<msgs, gone, quiet>>,
         DOMAIN meta' = Sessions, Chats!Listed(index') \subseteq chats',
         \A s \in quiet : meta'[s] = None /\ s \notin Chats!Listed(index'),
         p \in {"push", "set", "zadd"} => t \notin quiet
  PROVE  ChatsInv'
<1>1. /\ DOMAIN req' = ChatRequests
      /\ \A x \in ChatRequests : ChatTyped(x)' /\ ChatOwns(x)'
  BY ChatGoes
<1>2. StoreTyped'
  BY <1>1 DEF ChatsInv, StoreTyped, ChatsGrow
<1>3. QuietTrue'
  <2>1. quiet' = quiet \cup {} /\ \A s \in quiet' : msgs'[s] = <<>>
    BY DEF ChatsInv, QuietTrue
  <2> QED
    BY <2>1, QuietStays
<1>4. MessagesTrue' /\ QuestionsTrue'
  <2>1. \A s \in Sessions : msgs'[s] = (IF s \in {} THEN <<>> ELSE msgs[s])
    OBVIOUS
  <2>2. gone' = gone \cup UNION {Range(msgs[s]) : s \in {}}
    OBVIOUS
  <2> QED
    BY <2>1, <2>2, MessagesLeave
<1> QED
  BY <1>1, <1>2, <1>3, <1>4 DEF ChatsInv

\* A request goes on, and nothing else changes.
LEMMA StoreRests ==
  ASSUME ChatsInv, None \notin Sessions, NEW r \in ChatRequests, NEW p \in Chats!Steps, NEW k,
         NEW t, NEW o \in {"user", "assistant"}, NEW ids, Went(r, p, k, t, o, ids), Onward,
         UNCHANGED Chats!store, ids \subseteq chats,
         p \in {"look", "create", "index", "push", "route", "tool"} => k = "chat",
         p = "get" => k \in {"chat", "rename"},
         (\/ p \in {"index", "get", "push", "set", "zadd", "route", "tool"}
          \/ p \in {"card", "range", "trim"} /\ k = "chat") => t \in Sessions,
         p # "index", t \in chats \cup {None},
         p \notin {"get", "push", "set", "zadd"} => o = "user",
         p \in {"push", "set", "zadd"} => meta[t] # None
  PROVE  ChatsInv'
<1>1. UNCHANGED <<msgs, gone, quiet, chats, meta, index>>
  BY DEF Chats!store
<1>2. /\ DOMAIN meta = Sessions /\ Chats!Listed(index) \subseteq chats /\ chats \subseteq Sessions
      /\ \A s \in quiet : meta[s] = None /\ s \notin Chats!Listed(index)
      /\ \A x \in ChatRequests \ {r} : req[x].step = "index" => req[x].s \notin chats
  BY DEF ChatsInv, StoreTyped, QuietTrue, ChatTyped
<1>3. /\ DOMAIN meta' = Sessions /\ Chats!Listed(index') \subseteq chats'
      /\ \A s \in quiet : meta'[s] = None /\ s \notin Chats!Listed(index')
      /\ \A x \in ChatRequests \ {r} : req[x].step = "index" => req[x].s \notin chats'
  BY <1>1, <1>2
<1>4. p \in {"push", "set", "zadd"} => t \notin quiet
  BY <1>2
<1>5. ChatsGrow(r) /\ Fits(r, p, k, t, o, ids)
  BY <1>1, <1>2, <1>3 DEF ChatsGrow, Fits
<1> QED
  BY <1>1, <1>3, <1>4, <1>5, TalkRests

\* Requests arrive.
LEMMA ChatArrives ==
  ASSUME ChatsInv, None \notin Sessions, NEW r \in ChatRequests,
         Chats!Chat(r) \/ Chats!List(r) \/ Chats!Rename(r) \/ Chats!ClearRead(r)
  PROVE  ChatsInv'
<1>1. /\ ChatTyped(r) /\ DOMAIN req = ChatRequests /\ req[r].step = "idle"
      /\ req[r].role = "user" /\ req[r].s \in chats \cup {None} /\ req[r].ids \subseteq chats
      /\ Chats!Listed(index) \subseteq chats /\ chats \subseteq Sessions
      /\ DOMAIN req[r] = {"kind", "step", "s", "role", "branch", "ids", "over", "count"}
  BY DEF ChatsInv, StoreTyped, ChatTyped, Chats!Chat, Chats!List, Chats!Rename,
         Chats!ClearRead, Chats!At
<1>2. CASE Chats!Chat(r)
  <2>1. PICK s \in chats \cup {None} : Went(r, "look", "chat", s, "user", req[r].ids)
    BY <1>1, <1>2 DEF Chats!Chat, Chats!Becomes, Went
  <2>2. Onward
    BY <1>1, <2>1 DEF Onward, Went, Unsaid, Said
  <2>3. UNCHANGED Chats!store
    BY <1>2 DEF Chats!Chat
  <2> QED
    BY <1>1, <2>1, <2>2, <2>3, StoreRests DEF Chats!Steps
<1>3. CASE Chats!List(r)
  <2>1. Went(r, "card", "list", req[r].s, "user", req[r].ids)
    BY <1>1, <1>3 DEF Chats!List, Chats!Becomes, Went
  <2>2. Onward
    BY <1>1, <2>1 DEF Onward, Went, Unsaid, Said
  <2>3. UNCHANGED Chats!store
    BY <1>3 DEF Chats!List
  <2> QED
    BY <1>1, <2>1, <2>2, <2>3, StoreRests DEF Chats!Steps
<1>4. CASE Chats!Rename(r)
  <2>1. PICK s \in chats : Went(r, "get", "rename", s, "user", req[r].ids)
    BY <1>1, <1>4 DEF Chats!Rename, Chats!Becomes, Went
  <2>2. Onward
    BY <1>1, <2>1 DEF Onward, Went, Unsaid, Said
  <2>3. UNCHANGED Chats!store
    BY <1>4 DEF Chats!Rename
  <2>4. s \in Sessions
    BY <1>1
  <2> QED
    BY <1>1, <2>1, <2>2, <2>3, <2>4, StoreRests DEF Chats!Steps
<1>5. CASE Chats!ClearRead(r)
  <2>1. \/ Went(r, "done", "chat", None, "user", {})
        \/ Went(r, "purge", "clear", req[r].s, "user", Chats!Listed(index))
    BY <1>1, <1>5 DEF Chats!ClearRead, Chats!Becomes, Chats!Ended, Chats!Fresh, Went
  <2>2. Onward
    BY <1>1, <2>1 DEF Onward, Went, Unsaid, Said
  <2>3. UNCHANGED Chats!store
    BY <1>5 DEF Chats!ClearRead
  <2>4. CASE Went(r, "done", "chat", None, "user", {})
    BY <1>1, <2>2, <2>3, <2>4, StoreRests DEF Chats!Steps
  <2>5. CASE Went(r, "purge", "clear", req[r].s, "user", Chats!Listed(index))
    BY <1>1, <2>2, <2>3, <2>5, StoreRests DEF Chats!Steps
  <2> QED
    BY <2>1, <2>4, <2>5
<1> QED
  BY <1>2, <1>3, <1>4, <1>5

\* A request reads the store, asks the model or the database, and goes on.
LEMMA ChatReads ==
  ASSUME ChatsInv, None \notin Sessions, NEW r \in ChatRequests,
         Chats!Look(r) \/ Chats!TrimCard(r) \/ Chats!TrimRange(r) \/ Chats!Get(r)
         \/ Chats!Route(r) \/ Chats!Tool(r) \/ Chats!ListRange(r) \/ Chats!ListGet(r)
  PROVE  ChatsInv'
<1>1. /\ ChatTyped(r) /\ DOMAIN req = ChatRequests
      /\ req[r].ids \subseteq chats /\ Chats!Listed(index) \subseteq chats /\ chats \subseteq Sessions
      /\ Chats!Oldest(index, req[r].over) \subseteq chats
      /\ DOMAIN req[r] = {"kind", "step", "s", "role", "branch", "ids", "over", "count"}
  BY DEF ChatsInv, StoreTyped, ChatTyped, Chats!Oldest
<1>2. /\ req[r].role \in {"user", "assistant"}
      /\ req[r].step \in {"look", "push", "route", "tool"} => req[r].kind = "chat"
      /\ req[r].step = "get" => req[r].kind \in {"chat", "rename"}
      /\ req[r].step \in {"get", "push", "route", "tool"} => req[r].s \in Sessions
      /\ req[r].step \in {"card", "range", "trim"} /\ req[r].kind = "chat" => req[r].s \in Sessions
      /\ req[r].step # "index" => req[r].s \in chats \cup {None}
      /\ req[r].step \notin {"get", "push", "set", "zadd"} => req[r].role = "user"
  BY <1>1 DEF ChatTyped
<1>3. CASE Chats!Look(r)
  <2>1. \/ Went(r, "get", "chat", req[r].s, "user", req[r].ids) /\ req[r].s \in Sessions
        \/ Went(r, "create", "chat", req[r].s, "user", req[r].ids)
    BY <1>1, <1>2, <1>3 DEF Chats!Look, Chats!At, Chats!Becomes, Chats!Goes, Went
  <2>2. Onward /\ UNCHANGED Chats!store
    BY <1>1, <1>2, <1>3, <2>1 DEF Chats!Look, Chats!At, Onward, Went, Unsaid, Said
  <2>3. CASE Went(r, "get", "chat", req[r].s, "user", req[r].ids) /\ req[r].s \in Sessions
    <3>1. /\ "get" \in Chats!Steps /\ req[r].ids \subseteq chats /\ req[r].s \in Sessions
          /\ req[r].s \in chats \cup {None}
      BY <1>1, <1>2, <1>3, <2>3 DEF Chats!Steps, Chats!Look, Chats!At
    <3> QED
      BY <2>2, <2>3, <3>1, StoreRests, SMTT(60)
  <2>4. CASE Went(r, "create", "chat", req[r].s, "user", req[r].ids)
    BY <1>1, <1>2, <1>3, <2>2, <2>4, StoreRests DEF Chats!Steps, Chats!Look, Chats!At
  <2> QED
    BY <2>1, <2>3, <2>4
<1>4. CASE Chats!TrimCard(r)
  <2>1. \/ Went(r, "get", "chat", req[r].s, "user", req[r].ids) /\ req[r].s \in Sessions
        \/ Went(r, "read", req[r].kind, req[r].s, "user", req[r].ids)
        \/ Went(r, "range", req[r].kind, req[r].s, "user", req[r].ids)
    BY <1>1, <1>2, <1>4 DEF Chats!TrimCard, Chats!At, Chats!Becomes, Chats!Goes, Went
  <2>2. Onward /\ UNCHANGED Chats!store
    BY <1>1, <1>2, <1>4, <2>1 DEF Chats!TrimCard, Chats!At, Onward, Went, Unsaid, Said
  <2>3. CASE Went(r, "get", "chat", req[r].s, "user", req[r].ids) /\ req[r].s \in Sessions
    <3>1. /\ "get" \in Chats!Steps /\ req[r].ids \subseteq chats /\ req[r].s \in Sessions
          /\ req[r].s \in chats \cup {None}
      BY <1>1, <1>2, <1>4, <2>3 DEF Chats!Steps, Chats!TrimCard, Chats!At
    <3> QED
      BY <2>2, <2>3, <3>1, StoreRests, SMTT(60)
  <2>4. CASE Went(r, "read", req[r].kind, req[r].s, "user", req[r].ids)
    BY <1>1, <1>2, <1>4, <2>2, <2>4, StoreRests DEF Chats!Steps, Chats!TrimCard, Chats!At
  <2>5. CASE Went(r, "range", req[r].kind, req[r].s, "user", req[r].ids)
    BY <1>1, <1>2, <1>4, <2>2, <2>5, StoreRests DEF Chats!Steps, Chats!TrimCard, Chats!At
  <2> QED
    BY <2>1, <2>3, <2>4, <2>5
<1>5. CASE Chats!TrimRange(r)
  <2>1. Went(r, "trim", req[r].kind, req[r].s, "user", Chats!Oldest(index, req[r].over))
    BY <1>1, <1>2, <1>5 DEF Chats!TrimRange, Chats!At, Chats!Becomes, Went
  <2>2. Onward /\ UNCHANGED Chats!store
    BY <1>1, <1>2, <1>5, <2>1 DEF Chats!TrimRange, Chats!At, Onward, Went, Unsaid, Said
  <2> QED
    BY <1>1, <1>2, <1>5, <2>1, <2>2, StoreRests DEF Chats!Steps, Chats!TrimRange, Chats!At
<1>6. CASE Chats!Get(r)
  <2>1. PICK k, t, o, ids : k = req[r].kind /\ t = req[r].s /\ o = req[r].role /\ ids = req[r].ids
    OBVIOUS
  <2>2. \/ k = "rename" /\ meta[t] # None /\ Went(r, "set", k, t, o, ids)
        \/ k = "chat" /\ meta[t] # None /\ Went(r, "push", k, t, o, ids)
        \/ Went(r, "get", k, t, o, ids)
        \/ Went(r, "failed", "chat", None, "user", {})
    BY <1>1, <1>2, <1>6, <2>1 DEF Chats!Get, Chats!At, Chats!Becomes, Chats!Ended, Chats!Fresh, Went
  <2>3. Onward /\ UNCHANGED Chats!store
    BY <1>1, <1>2, <1>6, <2>1, <2>2 DEF Chats!Get, Chats!At, Onward, Went, Unsaid, Said
  <2>4. /\ k \in {"chat", "rename"} /\ o \in {"user", "assistant"} /\ ids \subseteq chats
        /\ t \in Sessions /\ t \in chats \cup {None}
    BY <1>1, <1>2, <1>6, <2>1 DEF Chats!Get, Chats!At
  <2>5. CASE meta[t] # None /\ Went(r, "set", k, t, o, ids)
    BY <2>3, <2>4, <2>5, StoreRests, SMTT(60) DEF Chats!Steps
  <2>6. CASE k = "chat" /\ meta[t] # None /\ Went(r, "push", k, t, o, ids)
    BY <2>3, <2>4, <2>6, StoreRests, SMTT(60) DEF Chats!Steps
  <2>7. CASE Went(r, "get", k, t, o, ids)
    BY <2>3, <2>4, <2>7, StoreRests, SMTT(60) DEF Chats!Steps
  <2>8. CASE Went(r, "failed", "chat", None, "user", {})
    BY <2>3, <2>8, StoreRests DEF Chats!Steps
  <2> QED
    BY <2>2, <2>5, <2>6, <2>7, <2>8
<1>7. CASE Chats!Route(r)
  <2>1. \/ Went(r, "get", "chat", req[r].s, "assistant", req[r].ids)
        \/ Went(r, "tool", "chat", req[r].s, "user", req[r].ids)
    BY <1>1, <1>2, <1>7 DEF Chats!Route, Chats!At, Chats!Becomes, Went
  <2>2. Onward /\ UNCHANGED Chats!store
    BY <1>1, <1>2, <1>7, <2>1 DEF Chats!Route, Chats!At, Onward, Went, Unsaid, Said
  <2>3. CASE Went(r, "get", "chat", req[r].s, "assistant", req[r].ids)
    BY <1>1, <1>2, <1>7, <2>2, <2>3, StoreRests DEF Chats!Steps, Chats!Route, Chats!At
  <2>4. CASE Went(r, "tool", "chat", req[r].s, "user", req[r].ids)
    BY <1>1, <1>2, <1>7, <2>2, <2>4, StoreRests DEF Chats!Steps, Chats!Route, Chats!At
  <2> QED
    BY <2>1, <2>3, <2>4
<1>8. CASE Chats!Tool(r)
  <2>1. Went(r, "get", "chat", req[r].s, "assistant", req[r].ids)
    BY <1>1, <1>2, <1>8 DEF Chats!Tool, Chats!At, Chats!Becomes, Went
  <2>2. Onward /\ UNCHANGED Chats!store
    BY <1>1, <1>2, <1>8, <2>1 DEF Chats!Tool, Chats!At, Onward, Went, Unsaid, Said
  <2> QED
    BY <1>1, <1>2, <1>8, <2>1, <2>2, StoreRests DEF Chats!Steps, Chats!Tool, Chats!At
<1>9. CASE Chats!ListRange(r)
  <2>1. \E ids \in SUBSET Chats!Listed(index) :
          Went(r, "mget", req[r].kind, req[r].s, "user", ids)
    BY <1>1, <1>2, <1>9 DEF Chats!ListRange, Chats!At, Chats!Becomes, Went
  <2>2. Onward /\ UNCHANGED Chats!store
    BY <1>1, <1>2, <1>9, <2>1 DEF Chats!ListRange, Chats!At, Onward, Went, Unsaid, Said
  <2> QED
    BY <1>1, <1>2, <1>9, <2>1, <2>2, StoreRests DEF Chats!Steps, Chats!ListRange, Chats!At
<1>10. CASE Chats!ListGet(r)
  <2>1. \/ Went(r, "done", "chat", None, "user", {})
        \/ \E ids \in SUBSET chats : Went(r, "zrem", req[r].kind, req[r].s, "user", ids)
    BY <1>1, <1>2, <1>10 DEF Chats!ListGet, Chats!At, Chats!Becomes, Chats!Ended, Chats!Fresh, Went
  <2>2. Onward /\ UNCHANGED Chats!store
    BY <1>1, <1>2, <1>10, <2>1 DEF Chats!ListGet, Chats!At, Onward, Went, Unsaid, Said
  <2>3. CASE Went(r, "done", "chat", None, "user", {})
    BY <1>1, <1>2, <1>10, <2>2, <2>3, StoreRests DEF Chats!Steps, Chats!ListGet, Chats!At
  <2>4. CASE \E ids \in SUBSET chats : Went(r, "zrem", req[r].kind, req[r].s, "user", ids)
    BY <1>1, <1>2, <1>10, <2>2, <2>4, StoreRests DEF Chats!Steps, Chats!ListGet, Chats!At
  <2> QED
    BY <2>1, <2>3, <2>4
<1> QED
  BY <1>3, <1>4, <1>5, <1>6, <1>7, <1>8, <1>9, <1>10

\* ZREM and ZADD on the index.
LEMMA IndexTrue ==
  ASSUME NEW i, NEW ids, NEW s
  PROVE  /\ Chats!Listed(Chats!Without(i, ids)) \subseteq Chats!Listed(i) \ ids
         /\ Chats!Listed(Chats!Newest(i, s)) \subseteq Chats!Listed(i) \cup {s}
<1>1. Chats!Listed(Chats!Without(i, ids)) \subseteq Chats!Listed(i) \ ids
  BY DEF Chats!Listed, Chats!Without
<1>2. \A x \in Chats!Listed(i) \cup {s} : <<x, s>>[1] = x
  OBVIOUS
<1>3. Chats!Listed(Chats!Newest(i, s)) \subseteq Chats!Listed(i) \cup {s}
  BY <1>2 DEF Chats!Listed, Chats!Newest, Chats!Without
<1> QED
  BY <1>1, <1>3

\* Conversations are removed with what they hold, and the request goes on.
LEMMA ChatsLeave ==
  ASSUME ChatsInv, None \notin Sessions, NEW r \in ChatRequests, NEW t,
         NEW p \in {"get", "read", "done"}, NEW k, NEW away \in SUBSET chats,
         Went(r, p, k, t, "user", {}), Chats!Remove(away), UNCHANGED chats, Onward,
         p = "get" => k = "chat" /\ t \in Sessions, t \in chats \cup {None}
  PROVE  ChatsInv'
<1>1. \A x \in ChatRequests \ {r} : req[x].step = "index" => req[x].s \notin chats
  BY DEF ChatsInv, ChatTyped
<1>2. /\ DOMAIN req' = ChatRequests
      /\ \A x \in ChatRequests : ChatTyped(x)' /\ ChatOwns(x)'
  <2>1. Fits(r, p, k, t, "user", {}) /\ ChatsGrow(r)
    BY <1>1 DEF Fits, ChatsGrow, Chats!Steps, ChatsInv, StoreTyped
  <2> QED
    BY <2>1, ChatGoes
<1>3. /\ DOMAIN meta' = Sessions /\ DOMAIN msgs' = Sessions
      /\ \A s \in Sessions : s \in away => meta'[s] = None /\ msgs'[s] = <<>>
      /\ \A s \in Sessions : s \notin away => meta'[s] = meta[s] /\ msgs'[s] = msgs[s]
      /\ Chats!Listed(index') \subseteq Chats!Listed(index) \ away
  BY IndexTrue DEF Chats!Remove
<1>4. quiet' \subseteq quiet \cup away /\ chats \subseteq Sessions /\ quiet \subseteq chats
  BY DEF Chats!Remove, ChatsInv, StoreTyped
<1>5. StoreTyped'
  <2>1. ASSUME NEW s \in Sessions PROVE msgs'[s] \in Seq(Chats!Messages)
    <3>1. msgs[s] \in Seq(Chats!Messages) /\ <<>> \in Seq(Chats!Messages)
      BY DEF ChatsInv, StoreTyped
    <3>2. msgs'[s] = <<>> \/ msgs'[s] = msgs[s]
      BY <1>3
    <3> QED
      BY <3>1, <3>2
  <2>2. Chats!Messages' = Chats!Messages
    BY DEF Chats!Messages
  <2> QED
    BY <1>2, <1>3, <1>4, <2>1, <2>2 DEF ChatsInv, StoreTyped
<1>6. QuietTrue'
  <2>1. PICK new \in SUBSET away : new = {s \in away : ~Chats!Saving(s)}
    OBVIOUS
  <2>2. quiet' = quiet \cup new /\ \A s \in new : ~Chats!Saving(s)
    BY <2>1 DEF Chats!Remove
  <2>3. \A s \in quiet' : meta'[s] = None /\ msgs'[s] = <<>> /\ s \notin Chats!Listed(index')
    BY <1>3, <1>4 DEF ChatsInv, QuietTrue
  <2> QED
    BY <2>2, <2>3, QuietStays
<1>7. MessagesTrue' /\ QuestionsTrue'
  <2>1. gone' = gone \cup UNION {Range(msgs[s]) : s \in away}
    BY DEF Chats!Remove, Range, Chats!Range
  <2>2. \A s \in Sessions : msgs'[s] = (IF s \in away THEN <<>> ELSE msgs[s])
    BY DEF Chats!Remove
  <2> QED
    BY <1>4, <2>1, <2>2, MessagesLeave
<1> QED
  BY <1>2, <1>5, <1>6, <1>7 DEF ChatsInv

LEMMA ChatRemoves ==
  ASSUME ChatsInv, None \notin Sessions, NEW r \in ChatRequests,
         Chats!Delete(r) \/ Chats!ClearRemove(r) \/ Chats!TrimRemove(r)
  PROVE  ChatsInv'
<1>1. /\ DOMAIN req = ChatRequests /\ req[r].ids \subseteq chats
      /\ DOMAIN req[r] = {"kind", "step", "s", "role", "branch", "ids", "over", "count"}
      /\ req[r].step = "trim" /\ req[r].kind = "chat" => req[r].s \in Sessions
      /\ req[r].step # "index" => req[r].s \in chats \cup {None}
      /\ req[r].step \in {"idle", "trim", "purge"} => req[r].role = "user"
  BY DEF ChatsInv, StoreTyped, ChatTyped
<1>2. CASE Chats!Delete(r)
  <2>1. PICK s \in chats : Chats!Remove({s})
    BY <1>2 DEF Chats!Delete
  <2>2. Went(r, "done", "chat", None, "user", {}) /\ UNCHANGED chats
    BY <1>1, <1>2 DEF Chats!Delete, Chats!Ended, Chats!Fresh, Went
  <2>3. Onward
    BY <2>2 DEF Onward, Went, Unsaid, Said
  <2> QED
    BY <2>1, <2>2, <2>3, ChatsLeave
<1>3. CASE Chats!ClearRemove(r)
  <2>1. PICK ids \in SUBSET chats : Chats!Remove(ids)
    BY <1>1, <1>3 DEF Chats!ClearRemove
  <2>2. Went(r, "done", "chat", None, "user", {}) /\ UNCHANGED chats
    BY <1>1, <1>3 DEF Chats!ClearRemove, Chats!Ended, Chats!Fresh, Went
  <2>3. Onward
    BY <2>2 DEF Onward, Went, Unsaid, Said
  <2> QED
    BY <2>1, <2>2, <2>3, ChatsLeave
<1>4. CASE Chats!TrimRemove(r)
  <2>1. PICK ids \in SUBSET chats : Chats!Remove(ids)
    BY <1>1, <1>4 DEF Chats!TrimRemove
  <2>2. PICK k, t : k = req[r].kind /\ t = req[r].s
    OBVIOUS
  <2>3. PICK p : p = (IF k = "chat" THEN "get" ELSE "read")
    OBVIOUS
  <2>4. Went(r, p, k, t, "user", {}) /\ UNCHANGED chats
    BY <1>1, <1>4, <2>2, <2>3 DEF Chats!TrimRemove, Chats!At, Chats!Becomes, Went
  <2>5. Onward
    BY <1>1, <1>4, <2>2, <2>3, <2>4 DEF Chats!TrimRemove, Chats!At, Onward, Went, Unsaid, Said
  <2>6. p \in {"get", "read"} /\ (p = "get" => k = "chat" /\ t \in Sessions) /\ t \in chats \cup {None}
    BY <1>1, <1>4, <2>2, <2>3 DEF Chats!TrimRemove, Chats!At
  <2> QED
    BY <2>1, <2>4, <2>5, <2>6, ChatsLeave
<1> QED
  BY <1>2, <1>3, <1>4

\* A conversation is made: its metadata,
LEMMA ChatCreates ==
  ASSUME ChatsInv, None \notin Sessions, NEW r \in ChatRequests, Chats!Create(r)
  PROVE  ChatsInv'
<1>1. PICK ids : ids = req[r].ids
  OBVIOUS
<1>2. /\ DOMAIN req = ChatRequests /\ ids \subseteq chats /\ req[r].step = "create"
      /\ req[r].kind = "chat" /\ req[r].role = "user"
      /\ DOMAIN req[r] = {"kind", "step", "s", "role", "branch", "ids", "over", "count"}
      /\ DOMAIN meta = Sessions /\ chats \subseteq Sessions /\ Chats!Listed(index) \subseteq chats
      /\ quiet \subseteq chats /\ \A s \in quiet : meta[s] = None /\ s \notin Chats!Listed(index)
  BY <1>1 DEF ChatsInv, StoreTyped, ChatTyped, QuietTrue, Chats!Create, Chats!At
<1>3. PICK t \in Sessions \ chats :
        /\ \A x \in ChatRequests : req[x].s # t
        /\ meta' = [meta EXCEPT ![t] = 0]
        /\ Chats!Becomes(r, [step |-> "index", s |-> t])
  BY DEF Chats!Create
<1>4. Went(r, "index", "chat", t, "user", ids)
  BY <1>1, <1>2, <1>3 DEF Chats!Becomes, Went
<1>5. UNCHANGED <<msgs, index, chats, gone, quiet>>
  BY DEF Chats!Create
<1>6. Onward
  BY <1>2, <1>4 DEF Onward, Went, Unsaid, Said
<1>7. \A x \in ChatRequests \ {r} : req[x].step = "index" => req[x].s \notin chats'
  BY <1>5 DEF ChatsInv, ChatTyped
<1>8. /\ DOMAIN meta' = Sessions /\ Chats!Listed(index') \subseteq chats'
      /\ \A s \in quiet : meta'[s] = None /\ s \notin Chats!Listed(index')
  BY <1>2, <1>3, <1>5
<1>9. t \notin chats' /\ t \in Sessions /\ ids \subseteq chats' /\ chats \subseteq chats' /\ chats' \subseteq Sessions
  BY <1>2, <1>3, <1>5
<1>10. Fits(r, "index", "chat", t, "user", ids) /\ ChatsGrow(r)
  BY <1>3, <1>7, <1>9 DEF Fits, ChatsGrow, Chats!Steps
<1> QED
  BY <1>4, <1>5, <1>6, <1>8, <1>10, TalkRests

\* and its place in the index.
LEMMA ChatIsListed ==
  ASSUME ChatsInv, None \notin Sessions, NEW r \in ChatRequests, Chats!CreateIndex(r)
  PROVE  ChatsInv'
<1>1. PICK t, ids : t = req[r].s /\ ids = req[r].ids
  OBVIOUS
<1>2. /\ DOMAIN req = ChatRequests /\ ids \subseteq chats /\ req[r].step = "index"
      /\ req[r].kind = "chat" /\ req[r].role = "user" /\ t \in Sessions \ chats
      /\ DOMAIN req[r] = {"kind", "step", "s", "role", "branch", "ids", "over", "count"}
      /\ DOMAIN meta = Sessions /\ chats \subseteq Sessions /\ Chats!Listed(index) \subseteq chats
      /\ quiet \subseteq chats /\ \A s \in quiet : meta[s] = None /\ s \notin Chats!Listed(index)
      /\ \A x \in ChatRequests \ {r} : req[x].s # t
  BY <1>1 DEF ChatsInv, StoreTyped, ChatTyped, ChatOwns, QuietTrue, Chats!CreateIndex, Chats!At
<1>3. Went(r, "card", "chat", t, "user", ids)
  BY <1>1, <1>2 DEF Chats!CreateIndex, Chats!Goes, Went
<1>4. UNCHANGED <<meta, msgs, gone, quiet>> /\ chats' = chats \cup {t}
  BY <1>1 DEF Chats!CreateIndex
<1>5. Onward
  BY <1>1, <1>2, <1>3 DEF Onward, Went, Unsaid, Said
<1>6. \A x \in ChatRequests \ {r} : req[x].step = "index" => req[x].s \notin chats'
  BY <1>2, <1>4 DEF ChatsInv, ChatTyped
<1>7. Chats!Listed(index') \subseteq Chats!Listed(index) \cup {t}
  BY <1>1, IndexTrue DEF Chats!CreateIndex
<1>8. /\ DOMAIN meta' = Sessions /\ Chats!Listed(index') \subseteq chats'
      /\ \A s \in quiet : meta'[s] = None /\ s \notin Chats!Listed(index')
  BY <1>2, <1>4, <1>7
<1>9. /\ t \in chats' \cup {None} /\ t \in Sessions /\ ids \subseteq chats'
      /\ chats \subseteq chats' /\ chats' \subseteq Sessions
  BY <1>2, <1>4
<1>10. Fits(r, "card", "chat", t, "user", ids) /\ ChatsGrow(r)
  BY <1>1, <1>6, <1>9 DEF Fits, ChatsGrow, Chats!Steps
<1> QED
  BY <1>3, <1>4, <1>5, <1>8, <1>10, TalkRests

\* Who saves a message or a title writes the metadata and moves the conversation to the end
\* of the index; who lists takes those without metadata out of it.
LEMMA ChatSaves ==
  ASSUME ChatsInv, None \notin Sessions, NEW r \in ChatRequests,
         Chats!Save(r) \/ Chats!SaveIndex(r) \/ Chats!ListRemove(r)
  PROVE  ChatsInv'
<1>1. PICK k, t, o, ids : k = req[r].kind /\ t = req[r].s /\ o = req[r].role /\ ids = req[r].ids
  OBVIOUS
<1>2. /\ DOMAIN req = ChatRequests /\ ids \subseteq chats /\ o \in {"user", "assistant"}
      /\ DOMAIN req[r] = {"kind", "step", "s", "role", "branch", "ids", "over", "count"}
      /\ req[r].step \in {"set", "zadd"} => t \in Sessions /\ t \in chats \cup {None}
      /\ DOMAIN meta = Sessions /\ chats \subseteq Sessions /\ Chats!Listed(index) \subseteq chats
      /\ \A s \in quiet : meta[s] = None /\ s \notin Chats!Listed(index)
      /\ \A x \in ChatRequests \ {r} : req[x].step = "index" => req[x].s \notin chats
  BY <1>1 DEF ChatsInv, StoreTyped, ChatTyped, QuietTrue
<1>3. UNCHANGED <<msgs, gone, quiet, chats>>
  BY DEF Chats!Save, Chats!SaveIndex, Chats!ListRemove
<1>4. req[r].step \in {"set", "zadd"} => t \in chats /\ t \notin quiet
  BY <1>1, <1>2 DEF ChatsInv, QuietTrue, Chats!Saving
<1>5. ChatsGrow(r) /\ ids \subseteq chats'
  BY <1>2, <1>3 DEF ChatsGrow
<1>6. CASE Chats!Save(r)
  <2>1. req[r].step = "set" /\ meta' = [meta EXCEPT ![t] = req[r].count] /\ UNCHANGED index
    BY <1>1, <1>6 DEF Chats!Save, Chats!At
  <2>2. Went(r, "zadd", k, t, o, ids)
    BY <1>1, <1>2, <1>6 DEF Chats!Save, Chats!Goes, Went
  <2>3. Onward
    BY <1>1, <2>1, <2>2 DEF Onward, Went, Unsaid, Said
  <2>4. /\ DOMAIN meta' = Sessions /\ Chats!Listed(index') \subseteq chats'
        /\ \A s \in quiet : meta'[s] = None /\ s \notin Chats!Listed(index')
    BY <1>2, <1>3, <1>4, <2>1
  <2>5. t \in Sessions /\ t \in chats' /\ t \notin quiet
    BY <1>2, <1>3, <1>4, <2>1
  <2>6. Fits(r, "zadd", k, t, o, ids)
    BY <1>1, <1>2, <1>5, <2>5 DEF Fits, Chats!Steps
  <2> QED
    BY <1>3, <1>5, <2>2, <2>3, <2>4, <2>5, <2>6, TalkRests
<1>7. CASE Chats!SaveIndex(r)
  <2>1. req[r].step = "zadd" /\ UNCHANGED meta
    BY <1>7 DEF Chats!SaveIndex, Chats!At
  <2>2. Chats!Listed(index') \subseteq Chats!Listed(index) \cup {t}
    BY <1>1, <1>7, IndexTrue DEF Chats!SaveIndex
  <2>3. /\ DOMAIN meta' = Sessions /\ Chats!Listed(index') \subseteq chats'
        /\ \A s \in quiet : meta'[s] = None /\ s \notin Chats!Listed(index')
    BY <1>2, <1>3, <1>4, <2>1, <2>2
  <2>4. \/ k = "chat" /\ o = "user" /\ Went(r, "route", k, t, o, ids)
        \/ Went(r, "done", "chat", None, "user", {})
    BY <1>1, <1>2, <1>7 DEF Chats!SaveIndex, Chats!Becomes, Chats!Ended, Chats!Fresh, Went
  <2>5. Onward
    BY <1>1, <2>1, <2>4 DEF Onward, Went, Unsaid, Said
  <2>6. t \in Sessions /\ t \in chats'
    BY <1>2, <1>3, <1>4, <2>1
  <2>7. CASE k = "chat" /\ o = "user" /\ Went(r, "route", k, t, o, ids)
    <3>1. Fits(r, "route", k, t, o, ids)
      BY <1>1, <1>5, <2>6, <2>7 DEF Fits, Chats!Steps
    <3> QED
      BY <1>3, <1>5, <2>3, <2>5, <2>7, <3>1, TalkRests
  <2>8. CASE Went(r, "done", "chat", None, "user", {})
    <3>1. Fits(r, "done", "chat", None, "user", {})
      BY DEF Fits, Chats!Steps
    <3> QED
      BY <1>3, <1>5, <2>3, <2>5, <2>8, <3>1, TalkRests
  <2> QED
    BY <2>4, <2>7, <2>8
<1>8. CASE Chats!ListRemove(r)
  <2>1. UNCHANGED meta
    BY <1>8 DEF Chats!ListRemove
  <2>2. Chats!Listed(index') \subseteq Chats!Listed(index)
    BY <1>8, IndexTrue DEF Chats!ListRemove
  <2>3. /\ DOMAIN meta' = Sessions /\ Chats!Listed(index') \subseteq chats'
        /\ \A s \in quiet : meta'[s] = None /\ s \notin Chats!Listed(index')
    BY <1>2, <1>3, <2>1, <2>2
  <2>4. Went(r, "done", "chat", None, "user", {})
    BY <1>2, <1>8 DEF Chats!ListRemove, Chats!Ended, Chats!Fresh, Went
  <2>5. Onward
    BY <2>4 DEF Onward, Went, Unsaid, Said
  <2>6. Fits(r, "done", "chat", None, "user", {})
    BY DEF Fits, Chats!Steps
  <2> QED
    BY <1>3, <1>5, <2>3, <2>4, <2>5, <2>6, TalkRests
<1> QED
  BY <1>6, <1>7, <1>8

\* LTRIM: the tail of a list.
LEMMA TailOf ==
  ASSUME NEW S, NEW all \in Seq(S), NEW lo \in 1..Len(all)
  PROVE  /\ SubSeq(all, lo, Len(all)) \in Seq(S)
         /\ Len(SubSeq(all, lo, Len(all))) = Len(all) - lo + 1
         /\ \A i \in 1..Len(all) - lo + 1 : SubSeq(all, lo, Len(all))[i] = all[lo + i - 1]
<1>1. lo \in Int /\ Len(all) \in Int /\ \A i \in lo..Len(all) : all[i] \in S
  OBVIOUS
<1>2. /\ SubSeq(all, lo, Len(all)) \in Seq(S)
      /\ Len(SubSeq(all, lo, Len(all))) = IF lo <= Len(all) THEN Len(all) - lo + 1 ELSE 0
      /\ \A i \in 1..Len(all) - lo + 1 : SubSeq(all, lo, Len(all))[i] = all[lo + i - 1]
  BY <1>1, SubSeqProperties
<1> QED
  BY <1>2

\* RPUSH and LTRIM: the tail of a list and the new message behind it.
LEMMA TailIsKept ==
  ASSUME NEW S, NEW q \in Seq(S), NEW m \in S, NEW cut \in 0..Len(q), NEW all, all = Append(q, m),
         NEW new, new = SubSeq(all, cut + 1, Len(all))
  PROVE  /\ new \in Seq(S) /\ Len(new) = Len(q) + 1 - cut
         /\ \A i \in 1..Len(new) : new[i] = (IF cut + i <= Len(q) THEN q[cut + i] ELSE m)
<1>1. all \in Seq(S) /\ Len(all) = Len(q) + 1 /\ all[Len(q) + 1] = m
  OBVIOUS
<1>2. \A i \in 1..Len(q) : all[i] = q[i]
  OBVIOUS
<1>3. PICK n \in Nat : n = Len(q)
  OBVIOUS
<1>4. cut \in 0..n /\ cut + 1 \in 1..Len(all) /\ Len(all) = n + 1
  BY <1>1, <1>3
<1>5. /\ new \in Seq(S) /\ Len(new) = Len(all) - (cut + 1) + 1
      /\ \A i \in 1..Len(all) - (cut + 1) + 1 : new[i] = all[cut + 1 + i - 1]
  BY <1>1, <1>4, TailOf
<1>6. Len(new) = n + 1 - cut
  <2>1. PICK k \in Int : k = cut
    BY <1>4
  <2>2. n + 1 - (k + 1) + 1 = n + 1 - k
    OBVIOUS
  <2>3. Len(new) = n + 1 - (k + 1) + 1
    BY <1>4, <1>5, <2>1
  <2> QED
    BY <2>1, <2>2, <2>3
<1>7. ASSUME NEW i \in 1..Len(new)
      PROVE  new[i] = (IF cut + i <= n THEN q[cut + i] ELSE m)
  <2>1. i \in Nat /\ cut \in Nat /\ cut + i <= n + 1 /\ cut + i >= 1
    BY <1>4, <1>6
  <2>2. new[i] = all[cut + i]
    <3>1. i \in 1..Len(all) - (cut + 1) + 1 /\ cut + 1 + i - 1 = cut + i
      BY <1>4, <1>6, <2>1
    <3> QED
      BY <1>5, <3>1
  <2>3. CASE cut + i <= n
    BY <1>2, <1>3, <2>1, <2>2, <2>3
  <2>4. CASE cut + i > n
    <3>1. cut + i = n + 1
      BY <2>1, <2>4
    <3>2. ~(cut + i <= n)
      BY <2>1, <2>4
    <3> QED
      BY <1>1, <1>3, <2>2, <3>1, <3>2
  <2> QED
    BY <2>1, <2>3, <2>4
<1> QED
  BY <1>3, <1>5, <1>6, <1>7

\* A message is pushed: it stands at the end of its conversation, whose first ones go.
LEMMA ChatPushes ==
  ASSUME ChatsInv, Chats!AssistantAssumption, NEW r \in ChatRequests, Chats!Push(r)
  PROVE  ChatsInv'
<1>1. PICK k, t, o, ids : k = req[r].kind /\ t = req[r].s /\ o = req[r].role /\ ids = req[r].ids
  OBVIOUS
<1>2. /\ DOMAIN req = ChatRequests /\ ids \subseteq chats /\ o \in {"user", "assistant"}
      /\ DOMAIN req[r] = {"kind", "step", "s", "role", "branch", "ids", "over", "count"}
      /\ req[r].step = "push" /\ k = "chat" /\ t \in Sessions /\ t \in chats /\ None \notin Sessions
      /\ DOMAIN meta = Sessions /\ chats \subseteq Sessions /\ DOMAIN msgs = Sessions
      /\ \A x \in ChatRequests \ {r} : req[x].step = "index" => req[x].s \notin chats
      /\ o = "assistant" => Said(r)
      /\ Unsaid(r, o)
  BY <1>1 DEF ChatsInv, StoreTyped, ChatTyped, Chats!Push, Chats!At, Chats!AssistantAssumption,
              Said, Unsaid
<1>3. t \notin quiet
  BY <1>1, <1>2 DEF ChatsInv, QuietTrue, Chats!Saving
<1>4. PICK q, m, cut : /\ q = msgs[t] /\ m = Message(r, o)
                       /\ cut = (IF Len(Append(q, m)) > MaxMessages
                                 THEN Len(Append(q, m)) - MaxMessages ELSE 0)
  OBVIOUS
<1>5. q \in Seq(Chats!Messages) /\ m \in Chats!Messages
  BY <1>1, <1>2, <1>4 DEF ChatsInv, StoreTyped, Message, Chats!Messages, Chats!Roles
<1>6. Len(Append(q, m)) = Len(q) + 1 /\ Len(q) \in Nat
  BY <1>5
<1>7. cut \in 0..Len(q)
  BY <1>4, <1>6 DEF Chats!AssistantAssumption
<1>8. PICK all, new : all = Append(q, m) /\ new = SubSeq(all, cut + 1, Len(all))
  OBVIOUS
<1>9. /\ new \in Seq(Chats!Messages) /\ Len(new) = Len(q) + 1 - cut
      /\ \A i \in 1..Len(new) : new[i] = (IF cut + i <= Len(q) THEN q[cut + i] ELSE m)
  BY <1>5, <1>7, <1>8, TailIsKept
<1>10. /\ msgs' = [msgs EXCEPT ![t] = new]
       /\ gone' = gone \cup {Append(q, m)[i] : i \in 1..cut}
       /\ UNCHANGED <<meta, index, chats, quiet>>
  BY <1>1, <1>4, <1>8 DEF Chats!Push, Message
<1>11. Went(r, "set", k, t, o, ids)
  BY <1>1, <1>2 DEF Chats!Push, Chats!Becomes, Went
<1>12. /\ DOMAIN req' = ChatRequests
       /\ \A x \in ChatRequests : ChatTyped(x)' /\ ChatOwns(x)'
  <2>1. Fits(r, "set", k, t, o, ids) /\ ChatsGrow(r)
    BY <1>1, <1>2, <1>10 DEF Fits, ChatsGrow, Chats!Steps
  <2> QED
    BY <1>2, <1>11, <2>1, ChatGoes
<1>13. StoreTyped'
  <2>1. Chats!Messages' = Chats!Messages
    BY DEF Chats!Messages
  <2> QED
    BY <1>2, <1>9, <1>10, <1>12, <2>1 DEF ChatsInv, StoreTyped
<1>14. QuietTrue'
  <2>1. quiet' = quiet \cup {}
    BY <1>10
  <2>2. \A s \in quiet' : meta'[s] = None /\ msgs'[s] = <<>> /\ s \notin Chats!Listed(index')
    BY <1>2, <1>3, <1>10 DEF ChatsInv, StoreTyped, QuietTrue
  <2>3. t \notin quiet' /\ \A s \in {} : ~Chats!Saving(s)
    BY <1>3, <1>10
  <2>4. PICK away \in SUBSET chats : away = {}
    OBVIOUS
  <2>5. quiet' = quiet \cup away /\ \A s \in away : ~Chats!Saving(s)
    BY <2>1, <2>4
  <2> QED
    BY <1>11, <2>2, <2>3, <2>5, QuietStays
\* What is gone now was gone, or was among the first of this conversation.
<1>15. \A x : x \in gone' <=> x \in gone \/ \E i \in 1..cut : x = q[i]
  <2>1. \A i \in 1..cut : Append(q, m)[i] = q[i]
    BY <1>5, <1>6, <1>7
  <2> QED
    BY <1>10, <2>1
\* Where a message was that is there now.
<1>16. ASSUME NEW s \in Sessions, NEW i \in 1..Len(msgs'[s])
       PROVE  \/ s = t /\ msgs'[s][i] = m /\ cut + i = Len(q) + 1
              \/ \E l \in 1..Len(msgs[s]) :
                   /\ msgs'[s][i] = msgs[s][l]
                   /\ l = (IF s = t THEN cut + i ELSE i)
  <2>1. CASE s = t
    <3>1. msgs'[s] = new /\ msgs[s] = q /\ i \in Nat /\ cut \in Nat
      BY <1>2, <1>4, <1>7, <1>10, <2>1
    <3>2. CASE cut + i <= Len(q)
      <4>1. cut + i \in 1..Len(q)
        BY <1>6, <1>7, <3>1, <3>2
      <4> QED
        BY <1>9, <2>1, <3>1, <3>2, <4>1
    <3>3. CASE cut + i > Len(q)
      <4>1. i \in 1..Len(new) /\ cut + i = Len(q) + 1
        BY <1>6, <1>7, <1>9, <3>1, <3>3
      <4>2. new[i] = m
        BY <1>6, <1>9, <3>1, <3>3, <4>1
      <4> QED
        BY <2>1, <3>1, <4>1, <4>2
    <3> QED
      BY <1>6, <3>1, <3>2, <3>3
  <2>2. CASE s # t
    BY <1>2, <1>10, <2>2
  <2> QED
    BY <2>1, <2>2
\* Where a message is now that was there, and where the new one is.
<1>17. ASSUME NEW s \in Sessions, NEW l \in 1..Len(msgs[s]), msgs[s][l] \notin gone'
       PROVE  \E i \in 1..Len(msgs'[s]) :
                msgs'[s][i] = msgs[s][l] /\ l = (IF s = t THEN cut + i ELSE i)
  <2>1. CASE s = t
    <3>1. msgs'[s] = new /\ msgs[s] = q /\ l \in Nat /\ cut \in Nat
      BY <1>2, <1>4, <1>7, <1>10, <2>1
    <3>2. ~(l \in 1..cut)
      BY <1>15, <1>17, <3>1
    <3>3. l - cut \in 1..Len(new) /\ cut + (l - cut) = l
      BY <1>6, <1>7, <1>9, <3>1, <3>2
    <3>4. new[l - cut] = q[l]
      BY <1>6, <1>9, <3>1, <3>3
    <3> QED
      BY <2>1, <3>1, <3>3, <3>4
  <2>2. CASE s # t
    BY <1>2, <1>10, <2>2
  <2> QED
    BY <2>1, <2>2
<1>18. \E i \in 1..Len(msgs'[t]) : msgs'[t][i] = m /\ cut + i = Len(q) + 1
  <2>1. msgs'[t] = new
    BY <1>2, <1>10
  <2>2. Len(new) \in 1..Len(new) /\ cut + Len(new) = Len(q) + 1
    BY <1>6, <1>7, <1>9
  <2> QED
    BY <1>6, <1>9, <2>1, <2>2
<1>19. m \notin gone' /\ \A s \in Sessions : \A i \in 1..Len(msgs[s]) : msgs[s][i] # m
  <2>1. m \notin gone /\ \A s \in Sessions : \A i \in 1..Len(msgs[s]) : msgs[s][i] # m
    BY <1>2, <1>4 DEF ChatsInv, MessagesTrue, Chats!Roles
  <2> QED
    BY <1>2, <1>4, <1>6, <1>7, <1>15, <2>1
<1>20. ASSUME NEW s \in Sessions, NEW l \in 1..Len(msgs[s]), (s = t => l > cut)
       PROVE  msgs[s][l] \notin gone'
  <2>1. \A j \in 1..cut : j \in 1..Len(msgs[t]) /\ (msgs[t][j] = msgs[s][l] => s = t /\ j = l)
    BY <1>2, <1>4, <1>6, <1>7 DEF ChatsInv, MessagesTrue
  <2>2. \A j \in 1..cut : q[j] # msgs[s][l]
    BY <1>4, <1>7, <1>20, <2>1
  <2>3. msgs[s][l] \notin gone
    BY DEF ChatsInv, MessagesTrue
  <2> QED
    BY <1>15, <2>2, <2>3
<1>21. MessagesTrue'
  <2>1. ASSUME NEW s \in Sessions, NEW u \in Sessions, NEW i \in 1..Len(msgs'[s]),
               NEW j \in 1..Len(msgs'[u]), msgs'[s][i] = msgs'[u][j]
        PROVE  s = u /\ i = j
    <3>1. i \in Nat /\ j \in Nat /\ cut \in Nat
      BY <1>7
    <3>2. CASE msgs'[s][i] = m
      <4>1. s = t /\ cut + i = Len(q) + 1
        <5>1. CASE s = t /\ msgs'[s][i] = m /\ cut + i = Len(q) + 1
          BY <5>1
        <5>2. CASE \E l \in 1..Len(msgs[s]) : msgs'[s][i] = msgs[s][l]
          BY <1>19, <3>2, <5>2
        <5> QED
          BY <1>16, <5>1, <5>2
      <4>2. msgs'[u][j] = m
        BY <2>1, <3>2
      <4>3. u = t /\ cut + j = Len(q) + 1
        <5>1. CASE u = t /\ msgs'[u][j] = m /\ cut + j = Len(q) + 1
          BY <5>1
        <5>2. CASE \E l \in 1..Len(msgs[u]) : msgs'[u][j] = msgs[u][l]
          BY <1>19, <4>2, <5>2
        <5> QED
          BY <1>16, <5>1, <5>2
      <4> QED
        BY <1>6, <3>1, <4>1, <4>3
    <3>3. CASE msgs'[s][i] # m
      <4>1. PICK l \in 1..Len(msgs[s]) : /\ msgs'[s][i] = msgs[s][l]
                                         /\ l = (IF s = t THEN cut + i ELSE i)
        BY <1>16, <3>3
      <4>2. PICK n \in 1..Len(msgs[u]) : /\ msgs'[u][j] = msgs[u][n]
                                         /\ n = (IF u = t THEN cut + j ELSE j)
        BY <1>16, <2>1, <3>3
      <4>3. msgs[s][l] = msgs[u][n]
        BY <2>1, <4>1, <4>2
      <4>4. s = u /\ l = n
        <5>1. \A a, b \in Sessions : \A e \in 1..Len(msgs[a]), h \in 1..Len(msgs[b]) :
                msgs[a][e] = msgs[b][h] => a = b /\ e = h
          BY DEF ChatsInv, MessagesTrue
        <5> QED
          BY <4>3, <5>1
      <4> QED
        BY <3>1, <4>1, <4>2, <4>4
    <3> QED
      BY <3>2, <3>3
  <2>2. ASSUME NEW s \in Sessions, NEW i \in 1..Len(msgs'[s])
        PROVE  msgs'[s][i] \notin gone'
    <3>1. CASE msgs'[s][i] = m
      BY <1>19, <3>1
    <3>2. CASE msgs'[s][i] # m
      <4>1. PICK l \in 1..Len(msgs[s]) : /\ msgs'[s][i] = msgs[s][l]
                                         /\ l = (IF s = t THEN cut + i ELSE i)
        BY <1>16, <3>2
      <4>2. s = t => l > cut
        BY <1>7, <4>1
      <4> QED
        BY <1>20, <4>1, <4>2
    <3> QED
      BY <3>1, <3>2
  <2>3. ASSUME NEW x \in ChatRequests, NEW role \in Chats!Roles, Unsaid(x, role)'
        PROVE  /\ Message(x, role) \notin gone'
               /\ \A s \in Sessions : \A i \in 1..Len(msgs'[s]) : msgs'[s][i] # Message(x, role)
    <3>1. Unsaid(x, role) /\ (x = r => role # o)
      BY <1>1, <1>2, <1>11, <2>3 DEF Unsaid, Went, Chats!Roles
    <3>2. Message(x, role) # m
      BY <1>4, <3>1 DEF Message
    <3>3. /\ Message(x, role) \notin gone
          /\ \A s \in Sessions : \A i \in 1..Len(msgs[s]) : msgs[s][i] # Message(x, role)
      BY <3>1 DEF ChatsInv, MessagesTrue
    <3>4. Message(x, role) \notin gone'
      BY <1>2, <1>4, <1>6, <1>7, <1>15, <3>3
    <3> QED
      BY <1>16, <3>2, <3>3, <3>4
  <2> QED
    BY <2>1, <2>2, <2>3 DEF MessagesTrue, Message
<1>22. ASSUME NEW s \in Sessions, NEW l \in 1..Len(msgs[s])
       PROVE  LET a == Message(msgs[s][l].of, "user")
              IN a \in gone' \/ \E j \in 1..l : msgs[s][j] = a /\ msgs[s][j] \notin gone'
  BY <1>15 DEF ChatsInv, QuestionsTrue
\* The question of r is there, or gone, or what r says.
<1>23. LET a == Message(r, "user")
       IN a \in gone' \/ \E i \in 1..Len(msgs'[t]) : msgs'[t][i] = a
  <2>1. CASE o = "user"
    BY <1>4, <1>18, <2>1
  <2>2. CASE o = "assistant"
    BY <1>1, <1>2, <1>15, <1>17, <2>2 DEF ChatsInv, QuestionsTrue
  <2> QED
    BY <1>2, <2>1, <2>2
<1>24. QuestionsTrue'
  <2>1. ASSUME NEW s \in Sessions, NEW i \in 1..Len(msgs'[s])
        PROVE  LET a == Message(msgs'[s][i].of, "user")
               IN a \in gone' \/ \E j \in 1..i : msgs'[s][j] = a
    <3>1. CASE msgs'[s][i] = m
      <4>1. s = t /\ cut + i = Len(q) + 1 /\ msgs'[s][i].of = r
        BY <1>4, <1>16, <1>19, <3>1 DEF Message
      <4>2. \A j \in 1..Len(msgs'[t]) : j <= i
        BY <1>2, <1>6, <1>7, <1>9, <1>10, <4>1
      <4> QED
        BY <1>23, <4>1, <4>2
    <3>2. CASE msgs'[s][i] # m
      <4>1. PICK l \in 1..Len(msgs[s]) : /\ msgs'[s][i] = msgs[s][l]
                                         /\ l = (IF s = t THEN cut + i ELSE i)
        BY <1>16, <3>2
      <4>2. PICK a : a = Message(msgs[s][l].of, "user")
        OBVIOUS
      <4>3. CASE a \in gone'
        BY <4>1, <4>2, <4>3
      <4>4. CASE a \notin gone'
        <5>1. PICK j \in 1..l : msgs[s][j] = a /\ j \in 1..Len(msgs[s])
          BY <1>22, <4>2, <4>4
        <5>2. PICK n \in 1..Len(msgs'[s]) : msgs'[s][n] = a /\ j = (IF s = t THEN cut + n ELSE n)
          BY <1>17, <4>4, <5>1
        <5>3. n \in 1..i
          BY <1>7, <4>1, <5>1, <5>2
        <5> QED
          BY <4>1, <4>2, <5>2, <5>3
      <4> QED
        BY <4>3, <4>4
    <3> QED
      BY <3>1, <3>2
  <2>2. ASSUME NEW x \in ChatRequests, Said(x)'
        PROVE  LET a == Message(x, "user")
               IN a \in gone' \/ \E j \in 1..Len(msgs'[req'[x].s]) : msgs'[req'[x].s][j] = a
    <3>1. CASE x = r
      BY <1>11, <1>23, <3>1 DEF Went
    <3>2. CASE x # r
      <4>1. Said(x) /\ req'[x].s = req[x].s /\ req[x].s \in Sessions
        BY <1>11, <2>2, <3>2 DEF Said, Went, ChatsInv, ChatTyped, Chats!Steps
      <4>2. PICK u \in Sessions : u = req[x].s
        BY <4>1
      <4>3. LET a == Message(x, "user")
            IN a \in gone \/ \E j \in 1..Len(msgs[u]) : msgs[u][j] = a
        BY <4>1, <4>2 DEF ChatsInv, QuestionsTrue
      <4> QED
        BY <1>15, <1>17, <4>1, <4>2, <4>3
    <3> QED
      BY <3>1, <3>2
  <2> QED
    BY <2>1, <2>2 DEF QuestionsTrue, Message
<1> QED
  BY <1>12, <1>13, <1>14, <1>21, <1>24 DEF ChatsInv

\* A key reaches its TTL.
LEMMA ChatExpires ==
  ASSUME ChatsInv, NEW s \in Sessions, Chats!Expire(s)
  PROVE  ChatsInv'
<1>1. UNCHANGED <<index, req, chats, quiet>>
  BY DEF Chats!Expire
<1>2. /\ DOMAIN meta' = Sessions /\ DOMAIN msgs' = Sessions
      /\ \A x \in Sessions : meta'[x] \in {meta[x], None} /\ msgs'[x] \in {msgs[x], <<>>}
  BY DEF Chats!Expire, ChatsInv, StoreTyped
<1>3. Chats!Messages' = Chats!Messages
  BY DEF Chats!Messages
<1>4. StoreTyped'
  <2>1. ASSUME NEW x \in Sessions PROVE msgs'[x] \in Seq(Chats!Messages)
    <3>1. msgs[x] \in Seq(Chats!Messages) /\ <<>> \in Seq(Chats!Messages)
      BY DEF ChatsInv, StoreTyped
    <3> QED
      BY <1>2, <3>1
  <2> QED
    BY <1>1, <1>2, <1>3, <2>1 DEF ChatsInv, StoreTyped
<1>5. QuietTrue'
  <2>1. \A x \in Sessions : Chats!Saving(x)' = Chats!Saving(x)
    BY <1>1 DEF Chats!Saving
  <2>2. quiet \subseteq Sessions
    BY DEF ChatsInv, StoreTyped
  <2> QED
    BY <1>1, <1>2, <2>1, <2>2 DEF ChatsInv, QuietTrue
<1>6. \A r \in ChatRequests : ChatTyped(r)' /\ ChatOwns(r)'
  BY <1>1 DEF ChatsInv, ChatTyped, ChatOwns
<1>7. MessagesTrue' /\ QuestionsTrue'
  <2>1. Onward
    BY <1>1 DEF Onward, Unsaid, Said
  <2>2. CASE UNCHANGED <<msgs, gone>>
    <3>1. /\ \A x \in Sessions : msgs'[x] = (IF x \in {} THEN <<>> ELSE msgs[x])
          /\ gone' = gone \cup UNION {Range(msgs[x]) : x \in {}}
      BY <2>2
    <3> QED
      BY <2>1, <3>1, MessagesLeave
  <2>3. CASE msgs' = [msgs EXCEPT ![s] = <<>>] /\ gone' = gone \cup Range(msgs[s])
    <3>1. \A x \in Sessions : msgs'[x] = (IF x \in {s} THEN <<>> ELSE msgs[x])
      BY <2>3 DEF ChatsInv, StoreTyped
    <3>2. gone' = gone \cup UNION {Range(msgs[x]) : x \in {s}}
      BY <2>3
    <3> QED
      BY <2>1, <3>1, <3>2, MessagesLeave
  <2> QED
    BY <2>2, <2>3 DEF Chats!Expire, Range, Chats!Range
<1> QED
  BY <1>4, <1>5, <1>6, <1>7 DEF ChatsInv

LEMMA ChatsNext ==
  ASSUME Chats!AssistantAssumption, ChatsInv, Chats!Next \/ UNCHANGED assistantVars
  PROVE  ChatsInv'
<1>1. None \notin Sessions
  BY DEF Chats!AssistantAssumption
<1>2. ASSUME NEW r \in ChatRequests,
             Chats!Chat(r) \/ Chats!List(r) \/ Chats!Rename(r) \/ Chats!Delete(r)
             \/ Chats!ClearRead(r) \/ Chats!Progress(r)
      PROVE  ChatsInv'
  BY <1>1, <1>2, ChatArrives, ChatReads, ChatRemoves, ChatCreates, ChatIsListed, ChatSaves,
     ChatPushes DEF Chats!Progress
<1>3. ASSUME NEW s \in Sessions, Chats!Expire(s) PROVE ChatsInv'
  BY <1>3, ChatExpires
<1>4. CASE UNCHANGED assistantVars
  <2>1. StoreTyped' /\ QuietTrue'
    BY <1>4 DEF assistantVars, ChatsInv, StoreTyped, QuietTrue, Chats!Messages, Chats!Saving
  <2>2. MessagesTrue'
    BY <1>4 DEF assistantVars, ChatsInv, MessagesTrue, Unsaid, Message
  <2>3. QuestionsTrue'
    BY <1>4 DEF assistantVars, ChatsInv, QuestionsTrue, Said, Message
  <2>4. \A r \in ChatRequests : ChatTyped(r)' /\ ChatOwns(r)'
    BY <1>4 DEF assistantVars, ChatsInv, ChatTyped, ChatOwns
  <2> QED
    BY <2>1, <2>2, <2>3, <2>4 DEF ChatsInv
<1> QED
  BY <1>2, <1>3, <1>4 DEF Chats!Next

LEMMA ChatsSound ==
  ASSUME ChatsInv PROVE Chats!ErasedStaysErased /\ Chats!AnswerFollows
<1>1. \A s \in Sessions : msgs[s] \in Seq(Chats!Messages) /\ DOMAIN msgs[s] = 1..Len(msgs[s])
  BY DEF ChatsInv, StoreTyped
<1>2. ASSUME NEW s \in Sessions PROVE Chats!Range(msgs[s]) \cap gone = {}
  BY <1>1 DEF ChatsInv, MessagesTrue, Chats!Range
<1>3. \A s \in quiet : meta[s] = None /\ msgs[s] = <<>> /\ s \notin Chats!Listed(index)
  BY DEF ChatsInv, QuietTrue
<1>4. Chats!AnswerFollows
  BY <1>1 DEF ChatsInv, QuestionsTrue, Message, Chats!AnswerFollows
<1> QED
  BY <1>2, <1>3, <1>4 DEF Chats!ErasedStaysErased

(***************************************************************************)
(* Questions to the assistant (tool-registry.service.ts, sql-query-tool.   *)
(* service.ts, read-only-query.service.ts), and the catalogue they go by   *)
(* (schema-catalog.service.ts).                                            *)
(***************************************************************************)
\* A question holds a connection from BEGIN to ROLLBACK.
HoldsTrue(q) == q.conn # None <=> q.step \in {"begin", "select", "rollback"}

\* Rows were cut off by a query that went through, and whoever asked is told.
CutTold(q) ==
  q.rows < q.size =>
    /\ q.step = "answered" \/ (q.step = "rollback" /\ q.ok)
    /\ q.tool # "generateReport" => \/ q.told
                                    \/ q.sql.limit # None /\ q.rows = q.sql.limit

\* A connection is in the hands of one question, or idle.
PoolTrue ==
  /\ \A x, y \in QueryQuestions :
       question[x].conn = question[y].conn /\ question[x].conn # None => x = y
  /\ \A c \in Conns : pool[c] # "idle" <=> \E x \in QueryQuestions : question[x].conn = c

QueriesInv ==
  /\ question \in [QueryQuestions -> QuestionType] /\ pool \in [Conns -> {"idle", "clean", "tx"}]
  /\ PoolTrue /\ \A x \in QueryQuestions : HoldsTrue(question[x]) /\ CutTold(question[x])

LEMMA QueriesInit == ASSUME Queries!AssistantQueriesAssumption, Queries!Init PROVE QueriesInv
<1> USE DEF Queries!Init
<1>1. Queries!NoQuery \in Generated
  BY DEF Queries!NoQuery, Queries!AssistantQueriesAssumption
<1>2. question \in [QueryQuestions -> QuestionType]
  BY <1>1 DEF QuestionType, Queries!Steps, Queries!Tools, Queries!AssistantQueriesAssumption
<1>3. \A x \in QueryQuestions : /\ question[x].conn = None /\ question[x].step = "idle"
                                 /\ question[x].rows = 0 /\ question[x].size = 0
  OBVIOUS
<1>4. None \notin Conns /\ pool \in [Conns -> {"idle", "clean", "tx"}] /\ ~(0 < 0)
      /\ \A c \in Conns : pool[c] = "idle"
  BY DEF Queries!AssistantQueriesAssumption
<1>5. PoolTrue /\ \A x \in QueryQuestions : HoldsTrue(question[x]) /\ CutTold(question[x])
  BY ONLY <1>3, <1>4 DEF PoolTrue, HoldsTrue, CutTold
<1> QED
  BY <1>2, <1>4, <1>5 DEF QueriesInv

\* Question x becomes q, and the pool follows what it holds.
Asks(x, q) ==
  /\ q \in QuestionType /\ question' = [question EXCEPT ![x] = q]
  /\ HoldsTrue(q) /\ CutTold(q)
  /\ pool' \in [Conns -> {"idle", "clean", "tx"}]
  /\ q.conn \in Conns => /\ q.conn = question[x].conn \/ pool[q.conn] = "idle"
                         /\ pool'[q.conn] # "idle"
  /\ \A c \in Conns \ {q.conn} : pool'[c] = IF c = question[x].conn THEN "idle" ELSE pool[c]

LEMMA QuestionAsks ==
  ASSUME None \notin Conns, QueriesInv, NEW x \in QueryQuestions, NEW q, Asks(x, q)
  PROVE  QueriesInv'
<1> USE DEF QueriesInv, Asks
<1>1. /\ question'[x] = q /\ \A y \in QueryQuestions \ {x} : question'[y] = question[y]
      /\ question' \in [QueryQuestions -> QuestionType]
  OBVIOUS
<1>2. \A y \in QueryQuestions : question[y].conn \in Conns \cup {None}
  BY DEF QuestionType
<1>3. q.conn \in Conns \cup {None}
  BY DEF QuestionType
<1>4. \A y \in QueryQuestions : HoldsTrue(question'[y]) /\ CutTold(question'[y])
  BY <1>1
<1>5. ASSUME NEW y \in QueryQuestions \ {x}, question[y].conn = q.conn PROVE q.conn = None
  BY <1>2, <1>3, <1>5 DEF PoolTrue
<1>6. PoolTrue'
  <2>1. ASSUME NEW y \in QueryQuestions, NEW z \in QueryQuestions,
               question'[y].conn = question'[z].conn, question'[y].conn # None
        PROVE  y = z
    BY <1>1, <1>5, <2>1 DEF PoolTrue
  <2>2. ASSUME NEW c \in Conns
        PROVE  pool'[c] # "idle" <=> \E y \in QueryQuestions : question'[y].conn = c
    <3>1. CASE c = q.conn
      BY <1>1, <3>1
    <3>2. CASE c # q.conn /\ c = question[x].conn
      BY <1>1, <3>2 DEF PoolTrue
    <3>3. CASE c # q.conn /\ c # question[x].conn
      BY <1>1, <3>3 DEF PoolTrue
    <3> QED
      BY <3>1, <3>2, <3>3
  <2> QED
    BY <2>1, <2>2 DEF PoolTrue
<1> QED
  BY <1>1, <1>4, <1>6

\* A step that leaves the connections alone.
LEMMA QuestionGoes ==
  ASSUME QueriesInv, NEW x \in QueryQuestions, NEW q \in QuestionType, UNCHANGED pool,
         question' = [question EXCEPT ![x] = q], q.conn = question[x].conn, HoldsTrue(q), CutTold(q)
  PROVE  Asks(x, q)
<1>1. q.conn \in Conns => pool[q.conn] # "idle"
  BY DEF QueriesInv, PoolTrue
<1>2. \A c \in Conns \ {q.conn} : c # question[x].conn
  OBVIOUS
<1> QED
  BY <1>1, <1>2 DEF Asks, QueriesInv

LEMMA QuestionTries ==
  ASSUME NEW q \in QuestionType
  PROVE  /\ Queries!Retry(q) \in QuestionType
         /\ Queries!Retry(q).step \in {"generate", "failed"}
         /\ Queries!Retry(q).conn = q.conn /\ Queries!Retry(q).rows = q.rows
         /\ Queries!Retry(q).size = q.size
<1> USE DEF QuestionType, Queries!Steps
<1>1. CASE Queries!Retry(q) = [q EXCEPT !.step = "generate", !.attempt = 2]
  <2>1. PICK two : two = 2 /\ two \in 1..2
    OBVIOUS
  <2>2. Queries!Retry(q) = [q EXCEPT !.step = "generate", !.attempt = two]
    BY <1>1, <2>1
  <2> QED
    BY <2>1, <2>2
<1>2. CASE Queries!Retry(q) = [q EXCEPT !.step = "failed"]
  BY <1>2
<1> QED
  BY <1>1, <1>2 DEF Queries!Retry

\* The steps without a connection.
LEMMA QuestionThinks ==
  ASSUME Queries!AssistantQueriesAssumption, QueriesInv, NEW x \in QueryQuestions,
         \/ \E tool \in Queries!Tools, ict \in BOOLEAN : Queries!Execute(x, tool, ict)
         \/ Queries!SearchesNothing(x) \/ Queries!BuildPrompt(x)
         \/ \E q \in Generated : Queries!Generate(x, q)
         \/ Queries!NothingToQuery(x) \/ Queries!ModelFails(x) \/ Queries!Validate(x)
  PROVE  \E q : Asks(x, q)
<1> DEFINE q == question'[x]
<1>1. question[x] \in QuestionType /\ HoldsTrue(question[x]) /\ CutTold(question[x])
  BY DEF QueriesInv
<1>2. question[x].conn \in Conns \cup {None} /\ DOMAIN question = QueryQuestions
  BY <1>1 DEF QuestionType, QueriesInv
<1> SUFFICES /\ UNCHANGED pool /\ question' = [question EXCEPT ![x] = q] /\ q \in QuestionType
             /\ q.conn = question[x].conn /\ HoldsTrue(q) /\ CutTold(q)
  BY QuestionGoes
<1> USE DEF HoldsTrue, CutTold
<1>3. ASSUME NEW tool \in Queries!Tools, NEW ict \in BOOLEAN, Queries!Execute(x, tool, ict)
      PROVE  /\ UNCHANGED pool /\ question' = [question EXCEPT ![x] = q] /\ q \in QuestionType
             /\ q.conn = question[x].conn /\ HoldsTrue(q) /\ CutTold(q)
  <2>1. PICK goal \in {"failed", "generate", "run"},
             words \in Generated \cup {FixedQuery[t] : t \in DOMAIN FixedQuery} :
          question' = [question EXCEPT ![x] = [question[x] EXCEPT !.tool = tool, !.step = goal,
                                                                  !.sql = words]]
    <3> DEFINE goal == IF tool \in Queries!Guarded /\ ~ict THEN "failed"
                       ELSE IF tool = "runSqlQuery" THEN "generate" ELSE "run"
               words == IF tool = "runSqlQuery" THEN question[x].sql ELSE FixedQuery[tool]
    <3>1. goal \in {"failed", "generate", "run"}
      OBVIOUS
    <3>2. words \in Generated \cup {FixedQuery[t] : t \in DOMAIN FixedQuery}
      BY <1>1 DEF QuestionType, Queries!Tools
    <3>3. question' = [question EXCEPT ![x] = [question[x] EXCEPT !.tool = tool, !.step = goal,
                                                                  !.sql = words]]
      BY <1>3 DEF Queries!Execute
    <3> HIDE DEF goal, words
    <3> QED
      BY <3>1, <3>2, <3>3
  <2>2. q = [question[x] EXCEPT !.tool = tool, !.step = goal, !.sql = words]
    BY <1>2, <2>1
  <2>3. question[x].step = "idle" /\ UNCHANGED pool
    BY <1>3 DEF Queries!Execute
  <2>4. q \in QuestionType
    BY <1>1, <2>2 DEF QuestionType, Queries!Steps
  <2> HIDE DEF q
  <2>5. /\ q.conn = question[x].conn /\ q.step = goal /\ q.rows = question[x].rows
        /\ q.size = question[x].size
    BY <1>1, <2>2 DEF QuestionType
  <2>6. question[x].conn = None /\ ~(question[x].rows < question[x].size)
    BY <1>1, <2>3
  <2>7. HoldsTrue(q) /\ CutTold(q)
    BY <2>1, <2>5, <2>6
  <2> QED
    BY <2>1, <2>2, <2>3, <2>4, <2>5, <2>7
<1>4. CASE Queries!SearchesNothing(x)
  <2>1. q = [question[x] EXCEPT !.tool = "searchDocuments", !.step = "answered", !.ok = TRUE]
    BY <1>2, <1>4 DEF Queries!SearchesNothing
  <2>2. question' = [question EXCEPT ![x] = q] /\ question[x].step = "idle" /\ UNCHANGED pool
    BY <1>2, <1>4 DEF Queries!SearchesNothing
  <2>3. "searchDocuments" \in Queries!Tools
    BY DEF Queries!AssistantQueriesAssumption, Queries!Tools
  <2> HIDE DEF q
  <2>4. q \in QuestionType
    BY <1>1, <2>1, <2>3 DEF QuestionType, Queries!Steps
  <2>5. /\ q.conn = question[x].conn /\ q.step = "answered" /\ q.rows = question[x].rows
        /\ q.size = question[x].size
    BY <1>1, <2>1 DEF QuestionType
  <2> QED
    BY <1>1, <2>2, <2>4, <2>5
<1>5. CASE Queries!BuildPrompt(x)
  BY <1>1, <1>2, <1>5 DEF Queries!BuildPrompt, Queries!Goes, QuestionType, Queries!Steps
<1>6. ASSUME NEW s \in Generated, Queries!Generate(x, s)
      PROVE  /\ UNCHANGED pool /\ question' = [question EXCEPT ![x] = q] /\ q \in QuestionType
             /\ q.conn = question[x].conn /\ HoldsTrue(q) /\ CutTold(q)
  BY <1>1, <1>2, <1>6 DEF Queries!Generate, QuestionType, Queries!Steps
<1>7. CASE Queries!NothingToQuery(x)
  BY <1>1, <1>2, <1>7 DEF Queries!NothingToQuery, QuestionType, Queries!Steps
<1>8. CASE Queries!ModelFails(x)
  BY <1>1, <1>2, <1>8 DEF Queries!ModelFails, Queries!Goes, QuestionType, Queries!Steps
<1>9. CASE Queries!Validate(x)
  BY <1>1, <1>2, <1>9, QuestionTries DEF Queries!Validate, QuestionType, Queries!Steps
<1> QED
  BY <1>3, <1>4, <1>5, <1>6, <1>7, <1>8, <1>9

\* The steps with one.
LEMMA QuestionReads ==
  ASSUME Queries!AssistantQueriesAssumption, QueriesInv, NEW x \in QueryQuestions,
         \/ \E c \in Conns : Queries!Connect(x, c)
         \/ Queries!Begin(x) \/ Queries!BeginFails(x)
         \/ \E n \in 0..MaxSize : Queries!Select(x, n)
         \/ Queries!SelectFails(x) \/ Queries!Release(x)
  PROVE  \E q : Asks(x, q)
<1> DEFINE q == question'[x]
<1>1. question[x] \in QuestionType /\ HoldsTrue(question[x]) /\ CutTold(question[x])
  BY DEF QueriesInv
<1>2. /\ question[x].conn \in Conns \cup {None} /\ DOMAIN question = QueryQuestions
      /\ pool \in [Conns -> {"idle", "clean", "tx"}] /\ None \notin Conns
      /\ MaxSize \in Nat /\ QueryRows \in Nat \ {0}
  BY <1>1 DEF QuestionType, QueriesInv, Queries!AssistantQueriesAssumption
<1> USE DEF HoldsTrue, CutTold
<1>3. ASSUME NEW c \in Conns, Queries!Connect(x, c) PROVE Asks(x, q)
  <2>1. q \in QuestionType /\ HoldsTrue(q) /\ CutTold(q) /\ q.conn = c
    BY <1>1, <1>2, <1>3 DEF Queries!Connect, QuestionType, Queries!Steps
  <2>2. question' = [question EXCEPT ![x] = q] /\ question[x].conn = None
    BY <1>1, <1>2, <1>3 DEF Queries!Connect
  <2>3. pool' = [pool EXCEPT ![c] = "clean"] /\ pool[c] = "idle"
    BY <1>3 DEF Queries!Connect
  <2> QED
    BY <1>2, <2>1, <2>2, <2>3 DEF Asks
<1>4. CASE Queries!Begin(x)
  <2>1. q \in QuestionType /\ HoldsTrue(q) /\ CutTold(q) /\ q.conn = question[x].conn
    BY <1>1, <1>2, <1>4 DEF Queries!Begin, Queries!Goes, QuestionType, Queries!Steps
  <2>2. question' = [question EXCEPT ![x] = q] /\ question[x].conn \in Conns
    BY <1>1, <1>2, <1>4 DEF Queries!Begin, Queries!Goes
  <2>3. pool' = [pool EXCEPT ![question[x].conn] = "tx"]
    BY <1>4 DEF Queries!Begin
  <2> QED
    BY <1>2, <2>1, <2>2, <2>3 DEF Asks
<1>5. CASE Queries!BeginFails(x) \/ Queries!SelectFails(x)
  <2>1. /\ UNCHANGED pool /\ question' = [question EXCEPT ![x] = q] /\ q \in QuestionType
        /\ q.conn = question[x].conn /\ HoldsTrue(q) /\ CutTold(q)
    <3>1. q = [question[x] EXCEPT !.step = "rollback", !.ok = FALSE]
      BY <1>2, <1>5 DEF Queries!BeginFails, Queries!SelectFails
    <3>2. /\ question' = [question EXCEPT ![x] = q] /\ UNCHANGED pool
          /\ question[x].step \in {"begin", "select"}
      BY <1>2, <1>5 DEF Queries!BeginFails, Queries!SelectFails
    <3> HIDE DEF q
    <3>3. q \in QuestionType
      BY <1>1, <3>1 DEF QuestionType, Queries!Steps
    <3>4. /\ q.conn = question[x].conn /\ q.step = "rollback" /\ q.rows = question[x].rows
          /\ q.size = question[x].size
      BY <1>1, <3>1 DEF QuestionType
    <3> QED
      BY <1>1, <3>2, <3>3, <3>4
  <2> QED
    BY <2>1, QuestionGoes
<1>6. ASSUME NEW n \in 0..MaxSize, Queries!Select(x, n) PROVE Asks(x, q)
  <2>1. question[x].sql.limit \in Nat \cup {None} /\ None \notin Nat
    BY <1>1 DEF QuestionType, Queries!AssistantQueriesAssumption, Queries!Query
  <2>2. PICK limit \in Nat : limit = Queries!RowLimit(question[x].sql)
    BY <1>2, <2>1 DEF Queries!RowLimit, Queries!AtMost
  <2>3. PICK cut \in 0..n : cut = Queries!AtMost(n, limit)
    BY <1>2, <2>2 DEF Queries!AtMost
  <2>4. cut < n => cut = limit
    BY <2>3 DEF Queries!AtMost
  <2>5. ASSUME cut < n
        PROVE  cut >= QueryRows \/ (question[x].sql.limit # None /\ cut = question[x].sql.limit)
    BY <1>2, <2>1, <2>2, <2>4, <2>5 DEF Queries!RowLimit, Queries!AtMost
  <2> PICK warned \in BOOLEAN : warned = (cut >= QueryRows /\ question[x].tool # "generateReport")
    OBVIOUS
  <2>6. /\ question' = [question EXCEPT ![x] = [@ EXCEPT !.step = "rollback", !.ok = TRUE, !.size = n,
                                                      !.rows = cut, !.told = warned]]
        /\ question[x].step = "select" /\ UNCHANGED pool
    BY <1>6, <2>2, <2>3 DEF Queries!Select
  <2>7. n \in 0..MaxSize /\ cut \in 0..MaxSize
    BY <1>2
  <2>8. /\ question' = [question EXCEPT ![x] = q] /\ q \in QuestionType
        /\ q.conn = question[x].conn /\ HoldsTrue(q)
    <3>1. q = [question[x] EXCEPT !.step = "rollback", !.ok = TRUE, !.size = n, !.rows = cut,
                                  !.told = warned]
      BY <1>2, <2>6
    <3>2. q \in QuestionType
      BY ONLY <1>1, <2>7, <3>1, warned \in BOOLEAN DEF QuestionType, Queries!Steps
    <3>3. question' = [question EXCEPT ![x] = q]
      BY <1>2, <2>6
    <3>4. q.step = "rollback" /\ q.conn = question[x].conn
      BY <1>1, <3>1 DEF QuestionType
    <3>5. HoldsTrue(q)
      BY <1>1, <2>6, <3>4
    <3> QED
      BY <3>2, <3>3, <3>4, <3>5
  <2>9. CutTold(q)
    BY <1>1, <1>2, <2>5, <2>6 DEF QuestionType
  <2> QED
    BY <2>6, <2>8, <2>9, QuestionGoes
<1>7. CASE Queries!Release(x)
  <2>1. PICK p : p = [question[x] EXCEPT !.conn = None]
    OBVIOUS
  <2>2. p \in QuestionType /\ p.conn = None /\ p.ok = question[x].ok /\ CutTold(p)
        /\ p.step = "rollback"
    BY <1>1, <1>7, <2>1 DEF QuestionType, Queries!Release
  <2>3. q = IF p.ok THEN [p EXCEPT !.step = "answered"] ELSE Queries!Retry(p)
    BY <1>2, <1>7, <2>1 DEF Queries!Release
  <2>4. q \in QuestionType /\ HoldsTrue(q) /\ CutTold(q) /\ q.conn = None
    BY <2>2, <2>3, QuestionTries DEF QuestionType, Queries!Steps
  <2>5. question' = [question EXCEPT ![x] = q] /\ pool' = [pool EXCEPT ![question[x].conn] = "idle"]
    BY <1>2, <1>7 DEF Queries!Release
  <2> QED
    BY <1>2, <2>4, <2>5 DEF Asks
<1> QED
  BY <1>3, <1>4, <1>5, <1>6, <1>7

LEMMA QueriesNext ==
  ASSUME Queries!AssistantQueriesAssumption, QueriesInv, Queries!Next \/ UNCHANGED queryVars
  PROVE  QueriesInv'
<1>1. None \notin Conns
  BY DEF Queries!AssistantQueriesAssumption
<1>2. ASSUME NEW x \in QueryQuestions, NEW q, Asks(x, q) PROVE QueriesInv'
  BY <1>1, <1>2, QuestionAsks
<1>3. ASSUME UNCHANGED <<question, pool>> PROVE QueriesInv'
  BY <1>3 DEF QueriesInv, PoolTrue
<1>4. ASSUME NEW x \in QueryQuestions,
             \/ \E tool \in Queries!Tools, ict \in BOOLEAN : Queries!Execute(x, tool, ict)
             \/ Queries!SearchesNothing(x) \/ Queries!Progress(x)
      PROVE  QueriesInv'
  BY <1>2, <1>4, QuestionThinks, QuestionReads DEF Queries!Progress
<1>5. ASSUME NEW t \in Tables, Queries!Migrate(t) PROVE QueriesInv'
  BY <1>3, <1>5 DEF Queries!Migrate
<1> QED
  BY <1>3, <1>4, <1>5 DEF Queries!Next, queryVars

LEMMA QueriesSound == ASSUME QueriesInv PROVE Queries!TruncatedTold /\ Queries!PoolClean
BY DEF QueriesInv, PoolTrue, HoldsTrue, CutTold, Queries!TruncatedTold, Queries!PoolClean

\* What is shown to the model is the catalogue or is still to be written.
LEMMA PromptInit ==
  ASSUME Queries!AssistantQueriesAssumption, Queries!Init \/ Catalog!Init
  PROVE  Queries!PromptTrue
BY DEF Queries!AssistantQueriesAssumption, Queries!Init, Catalog!Init, Queries!PromptTrue

LEMMA PromptNext ==
  ASSUME Queries!PromptTrue, Queries!Next \/ Catalog!Next \/ UNCHANGED queryVars
  PROVE  Queries!PromptTrue'
<1> USE DEF Queries!PromptTrue, Queries!Among
<1>1. ASSUME UNCHANGED <<catalog, prompt>> PROVE Queries!PromptTrue'
  BY <1>1
<1>2. ASSUME prompt' = (IF prompt = None THEN catalog ELSE prompt), UNCHANGED catalog
      PROVE  Queries!PromptTrue'
  BY <1>2
<1>3. CASE Queries!Next
  <2>1. ASSUME NEW x \in QueryQuestions, Queries!Progress(x)
        PROVE  \/ UNCHANGED <<catalog, prompt>>
               \/ prompt' = (IF prompt = None THEN catalog ELSE prompt) /\ UNCHANGED catalog
    BY <2>1 DEF Queries!Progress, Queries!BuildPrompt, Queries!Generate, Queries!NothingToQuery,
       Queries!ModelFails, Queries!Validate, Queries!Connect, Queries!Begin, Queries!BeginFails,
       Queries!Select, Queries!SelectFails, Queries!Release, Queries!others
  <2> QED
    BY <1>1, <1>2, <1>3, <2>1 DEF Queries!Next, Queries!Execute, Queries!SearchesNothing,
       Queries!others, Queries!Migrate
<1>4. CASE Catalog!Next
  <2>1. ASSUME NEW x \in CatalogQuestions, Catalog!Progress(x)
        PROVE  \/ UNCHANGED <<catalog, prompt>>
               \/ prompt' = (IF prompt = None THEN catalog ELSE prompt) /\ UNCHANGED catalog
    BY <2>1 DEF Catalog!Progress, Catalog!BuildPrompt, Catalog!Generate, Catalog!NothingToQuery,
       Catalog!ModelFails, Catalog!Validate, Catalog!Connect, Catalog!Begin, Catalog!BeginFails,
       Catalog!Select, Catalog!SelectFails, Catalog!Release, Catalog!others
  <2>2. ASSUME NEW x \in CatalogRefreshers, Catalog!Publish(x) PROVE Queries!PromptTrue'
    <3>1. PICK shown : shown = refresh[x] \ Denied
      OBVIOUS
    <3>2. PICK linked : linked = Catalog!Relations(refresh[x])
      OBVIOUS
    <3>3. /\ catalog' = [tables |-> shown, relations |-> linked \cap Catalog!Among(shown)]
          /\ prompt' = None
      BY <2>2, <3>1, <3>2 DEF Catalog!Publish
    <3> QED
      BY <3>1, <3>3 DEF Catalog!Among
  <2> QED
    BY <1>1, <1>2, <1>4, <2>1, <2>2 DEF Catalog!Next, Catalog!Execute, Catalog!SearchesNothing,
       Catalog!others, Catalog!Migrate, Catalog!ReadTables, Catalog!RefreshFails
<1> QED
  BY <1>1, <1>3, <1>4 DEF queryVars

(***************************************************************************)
(* Questions of the bot (ai.service.ts, telegram.update.ts) and the pool of *)
(* Oracle sessions they share with the rest (database-oracle.service.ts).  *)
(***************************************************************************)
SessionType ==
  [holder : Jobs \cup {None}, alive : BOOLEAN, tag : Jobs \cup {None}, mark : Jobs \cup {None},
   txn : {"none", "readonly", "open"}]
JobType ==
  [pc : {"idle", "queued", "alter", "mode", "execute", "untag", "rollback", "close", "ended"},
   writes : BOOLEAN, failed : BOOLEAN]

\* A job at one of these steps holds a session.
Serving == {"alter", "mode", "execute", "untag", "rollback", "close"}

\* A session s: clean while nobody holds it; otherwise with the tag of its holder, if that
\* is a block, from the first round trip to the ping after it, and with none for anybody
\* else; and read-only where the statement of the model runs.
SessionTrue(s, jobs) ==
  IF s.holder = None
  THEN s.tag = None /\ s.mark = None /\ s.txn = "none"
  ELSE LET pc == jobs[s.holder].pc
           kind == JobKind[s.holder]
       IN /\ pc \in Serving
          /\ pc = "untag" => kind = "plsql"
          /\ pc \in {"mode", "rollback"} => kind = "readonly"
          /\ kind # "plsql" => s.tag = None /\ s.mark = None
          /\ kind = "plsql" /\ pc = "alter" => s.mark = s.holder
          /\ kind = "plsql" /\ pc = "execute" => s.tag = s.holder
          /\ kind = "plsql" /\ pc = "close" => s.mark = None /\ (s.alive => s.tag = None)
          /\ kind = "readonly" /\ pc = "execute" => s.txn = "readonly"

\* A statement of the model that would change data has failed when it is through.
WorkTrue(j, k) ==
  JobKind[j] = "readonly" /\ k.pc \in {"rollback", "close", "ended"} /\ ~k.failed => ~k.writes

HoldersTrue ==
  /\ \A c, d \in OracleConns : conn[c].holder = conn[d].holder /\ conn[c].holder # None => c = d
  /\ \A j \in Jobs : dbJob[j].pc \in Serving => \E c \in OracleConns : conn[c].holder = j

\* What the question waits for is a statement of its own; what it tells was read.
AskTrue(q) ==
  /\ ask[q].pc = "running" => /\ ask[q].base = "oracle" /\ dbJob[Run[q]].pc # "idle"
                              /\ (dbJob[Run[q]].writes <=> ask[q].statement # "select")
  /\ ask[q].pc = "format" \/ ask[q].answer \in {"words", "raw"} =>
       /\ ask[q].statement = "select"
       /\ ask[q].base = "oracle" => dbJob[Run[q]].pc = "ended" /\ ~dbJob[Run[q]].failed
  /\ ask[q].answer \in {"words", "raw"} => ask[q].pc = "answered"

SessionsInv ==
  /\ conn \in [OracleConns -> SessionType] /\ dbJob \in [Jobs -> JobType]
  /\ HoldersTrue
  /\ \A c \in OracleConns : SessionTrue(conn[c], dbJob)
  /\ \A j \in Jobs : WorkTrue(j, dbJob[j])
  /\ DOMAIN ranAs = Jobs
  /\ \A j \in Jobs : ranAs[j] \subseteq {IF JobKind[j] = "plsql" THEN j ELSE None}
  /\ \A j \in changed : JobKind[j] # "readonly"

AskInv ==
  /\ SessionsInv /\ \A q \in AskQuestions : AskTrue(q)
  /\ DOMAIN ask = AskQuestions
  /\ \A q \in AskQuestions : DOMAIN ask[q] = {"pc", "voice", "text", "base", "report", "schema",
                                              "statement", "answer"}

LEMMA AskInit == ASSUME Ask!AskDatabaseAssumption, Ask!AskInit PROVE AskInv
<1> USE DEF Ask!AskInit, Ask!Init, Ask!Fresh
<1>1. /\ conn \in [OracleConns -> SessionType] /\ dbJob \in [Jobs -> JobType]
      /\ \A c \in OracleConns : SessionTrue(conn[c], dbJob)
      /\ \A j \in Jobs : dbJob[j].pc = "idle" /\ WorkTrue(j, dbJob[j])
      /\ \A c \in OracleConns : conn[c].holder = None
  BY DEF SessionType, JobType, SessionTrue, WorkTrue
<1>2. SessionsInv
  BY <1>1 DEF SessionsInv, HoldersTrue, Serving
<1>3. \A q \in AskQuestions : AskTrue(q)
  BY DEF AskTrue, Ask!NewQuestion
<1> QED
  BY <1>2, <1>3 DEF AskInv, Ask!NewQuestion

\* Job j becomes k and session c, which it holds, takes or gives back, becomes s.
Serves(j, k, c, s) ==
  /\ k \in JobType /\ s \in SessionType
  /\ dbJob' = [dbJob EXCEPT ![j] = k] /\ conn' = [conn EXCEPT ![c] = s]
  /\ conn[c].holder = j \/ (conn[c].holder = None /\ dbJob[j].pc \notin Serving)
  /\ IF k.pc \in Serving THEN s.holder = j ELSE s.holder = None
  /\ SessionTrue(s, dbJob') /\ WorkTrue(j, k)

LEMMA SessionServes ==
  ASSUME None \notin Jobs, SessionsInv, NEW j \in Jobs, NEW k, NEW c \in OracleConns, NEW s,
         Serves(j, k, c, s)
  PROVE  /\ conn' \in [OracleConns -> SessionType] /\ dbJob' \in [Jobs -> JobType]
         /\ HoldersTrue'
         /\ \A d \in OracleConns : SessionTrue(conn[d], dbJob)'
         /\ \A i \in Jobs : WorkTrue(i, dbJob[i])'
<1> USE DEF SessionsInv, Serves
<1>1. /\ dbJob'[j] = k /\ \A i \in Jobs \ {j} : dbJob'[i] = dbJob[i]
      /\ conn'[c] = s /\ \A d \in OracleConns \ {c} : conn'[d] = conn[d]
      /\ conn' \in [OracleConns -> SessionType] /\ dbJob' \in [Jobs -> JobType]
  OBVIOUS
<1>2. \A d \in OracleConns : conn[d].holder \in Jobs \cup {None}
  BY DEF SessionType
<1>3. ASSUME NEW d \in OracleConns \ {c} PROVE conn[d].holder # j
  <2>1. conn[d].holder # None => dbJob[conn[d].holder].pc \in Serving
    BY DEF SessionTrue
  <2> QED
    BY <2>1 DEF HoldersTrue
<1>4. \A d \in OracleConns : SessionTrue(conn[d], dbJob)'
  <2>1. ASSUME NEW d \in OracleConns \ {c} PROVE SessionTrue(conn[d], dbJob')
    <3>1. SessionTrue(conn[d], dbJob) /\ (conn[d].holder # None => conn[d].holder \in Jobs \ {j})
      BY <1>2, <1>3
    <3> QED
      BY <1>1, <3>1 DEF SessionTrue
  <2> QED
    BY <1>1, <2>1
<1>5. \A i \in Jobs : WorkTrue(i, dbJob[i])'
  <2>1. ASSUME NEW i \in Jobs PROVE WorkTrue(i, dbJob'[i])
    BY <1>1
  <2> QED
    BY <2>1 DEF WorkTrue
<1>6. HoldersTrue'
  <2>1. ASSUME NEW d \in OracleConns, NEW e \in OracleConns, conn'[d].holder = conn'[e].holder,
               conn'[d].holder # None
        PROVE  d = e
    BY <1>1, <1>3, <2>1 DEF HoldersTrue
  <2>2. ASSUME NEW i \in Jobs, dbJob'[i].pc \in Serving
        PROVE  \E d \in OracleConns : conn'[d].holder = i
    <3>1. CASE i = j
      BY <1>1, <2>2, <3>1
    <3>2. CASE i # j
      <4>1. PICK d \in OracleConns : conn[d].holder = i
        BY <1>1, <2>2, <3>2 DEF HoldersTrue
      <4>2. d # c
        BY <3>2, <4>1
      <4> QED
        BY <1>1, <4>1, <4>2
    <3> QED
      BY <3>1, <3>2
  <2> QED
    BY <2>1, <2>2 DEF HoldersTrue
<1> QED
  BY <1>1, <1>4, <1>5, <1>6

\* The session a job holds is the one that says so.
LEMMA HeldSession ==
  ASSUME None \notin Jobs, SessionsInv, NEW j \in Jobs, dbJob[j].pc \in Serving
  PROVE  /\ Ask!Held(j) \in OracleConns /\ conn[Ask!Held(j)].holder = j
         /\ conn[Ask!Held(j)] \in SessionType /\ SessionTrue(conn[Ask!Held(j)], dbJob)
<1>1. PICK c \in OracleConns : conn[c].holder = j
  BY DEF SessionsInv, HoldersTrue
<1> QED
  BY <1>1 DEF Ask!Held, SessionsInv

\* What a call was asked for stays, and a call that is over is left alone.
JobsGo ==
  \A j \in Jobs :
    /\ dbJob[j].pc # "idle" => dbJob'[j].pc # "idle" /\ (dbJob'[j].writes <=> dbJob[j].writes)
    /\ dbJob[j].pc = "ended" => dbJob'[j] = dbJob[j]

\* A step of a job without a session.
LEMMA JobWaits ==
  ASSUME None \notin Jobs, SessionsInv, NEW j \in Jobs, NEW k \in JobType,
         dbJob' = [dbJob EXCEPT ![j] = k], UNCHANGED <<conn, ranAs, changed>>,
         dbJob[j].pc \in {"idle", "queued"}, k.pc \in {"queued", "ended"},
         dbJob[j].pc = "queued" => (k.writes <=> dbJob[j].writes),
         k.pc = "ended" => k.failed
  PROVE  SessionsInv' /\ JobsGo
<1> USE DEF SessionsInv
<1>1. /\ dbJob'[j] = k /\ \A i \in Jobs \ {j} : dbJob'[i] = dbJob[i]
      /\ dbJob' \in [Jobs -> JobType]
  OBVIOUS
<1>2. \A c \in OracleConns : conn[c].holder # j /\ conn[c].holder \in Jobs \cup {None}
  <2>1. ASSUME NEW c \in OracleConns PROVE conn[c].holder # j
    BY DEF SessionTrue, Serving
  <2> QED
    BY <2>1 DEF SessionType
<1>3. \A c \in OracleConns : SessionTrue(conn[c], dbJob)'
  <2>1. ASSUME NEW c \in OracleConns PROVE SessionTrue(conn[c], dbJob')
    BY <1>1, <1>2 DEF SessionTrue
  <2> QED
    BY <2>1
<1>4. \A i \in Jobs : WorkTrue(i, dbJob[i])'
  <2>1. ASSUME NEW i \in Jobs PROVE WorkTrue(i, dbJob'[i])
    BY <1>1 DEF WorkTrue
  <2> QED
    BY <2>1 DEF WorkTrue
<1>5. HoldersTrue'
  BY <1>1 DEF HoldersTrue, Serving
<1>6. JobsGo
  BY <1>1 DEF JobsGo
<1> QED
  BY <1>1, <1>3, <1>4, <1>5, <1>6

\* A step of job j that leaves the call what it was.
LEMMA JobGoes ==
  ASSUME SessionsInv, NEW j \in Jobs, NEW k, dbJob' = [dbJob EXCEPT ![j] = k],
         dbJob[j].pc # "ended", k.pc # "idle", k.writes <=> dbJob[j].writes
  PROVE  JobsGo
BY DEF SessionsInv, JobsGo

\* The steps that run no statement.
LEMMA SessionMoves ==
  ASSUME Ask!OraclePoolAssumption, SessionsInv, NEW j \in Jobs, NEW k, NEW c \in OracleConns, NEW s,
         Serves(j, k, c, s), UNCHANGED <<ranAs, changed>>, dbJob[j].pc # "ended", k.pc # "idle",
         k.writes <=> dbJob[j].writes
  PROVE  SessionsInv' /\ JobsGo
<1>1. None \notin Jobs
  BY DEF Ask!OraclePoolAssumption
<1>2. JobsGo
  BY JobGoes DEF Serves
<1> QED
  BY <1>1, <1>2, SessionServes DEF SessionsInv

LEMMA SessionTaken ==
  ASSUME Ask!OraclePoolAssumption, SessionsInv, NEW j \in Jobs, NEW c \in OracleConns,
         Ask!GetConnection(j, c)
  PROVE  SessionsInv' /\ JobsGo
<1> DEFINE k == [dbJob[j] EXCEPT !.pc = "alter"]
           s == [conn[c] EXCEPT !.holder = j, !.mark = IF JobKind[j] = "plsql" THEN j ELSE @]
<1>1. /\ dbJob \in [Jobs -> JobType] /\ conn \in [OracleConns -> SessionType]
      /\ conn[c].holder = None /\ dbJob[j].pc = "queued" /\ SessionTrue(conn[c], dbJob)
      /\ None \notin Jobs
  BY DEF SessionsInv, Ask!GetConnection, Ask!OraclePoolAssumption
<1>2. dbJob' = [dbJob EXCEPT ![j] = k] /\ conn' = [conn EXCEPT ![c] = s]
      /\ UNCHANGED <<ranAs, changed>>
  BY <1>1 DEF Ask!GetConnection, Ask!Goes, Ask!HistoryUnchanged
<1>3. k \in JobType /\ k.pc = "alter" /\ k.writes = dbJob[j].writes /\ dbJob'[j] = k
  BY <1>1, <1>2 DEF JobType
<1>4. /\ s \in SessionType /\ s.holder = j /\ s.tag = None
      /\ s.mark = IF JobKind[j] = "plsql" THEN j ELSE None
  BY <1>1 DEF SessionType, SessionTrue
<1>5. SessionTrue(s, dbJob') /\ WorkTrue(j, k)
  BY <1>1, <1>3, <1>4 DEF SessionTrue, WorkTrue, Serving
<1>6. Serves(j, k, c, s)
  BY <1>1, <1>2, <1>3, <1>4, <1>5 DEF Serves, Serving
<1> QED
  BY <1>1, <1>2, <1>3, <1>6, SessionMoves

\* What is known of the session c of a job at a step of its own.
LEMMA SessionOf ==
  ASSUME Ask!OraclePoolAssumption, SessionsInv, NEW j \in Jobs, dbJob[j].pc \in Serving
  PROVE  \E c \in OracleConns :
           /\ c = Ask!Held(j) /\ conn[c].holder = j /\ conn[c] \in SessionType
           /\ SessionTrue(conn[c], dbJob)
           /\ conn \in [OracleConns -> SessionType] /\ dbJob \in [Jobs -> JobType]
           /\ None \notin Jobs /\ dbJob[j] \in JobType /\ WorkTrue(j, dbJob[j])
           /\ JobKind[j] \in {"query", "procedure", "plsql", "readonly"}
BY HeldSession DEF Ask!OraclePoolAssumption, SessionsInv

\* A statement or a preparation of it fails.
LEMMA SessionFails ==
  ASSUME Ask!OraclePoolAssumption, SessionsInv, NEW j \in Jobs,
         dbJob[j].pc \in {"alter", "mode", "execute"}, Ask!Fails(j),
         UNCHANGED <<conn, ranAs, changed>>
  PROVE  SessionsInv' /\ JobsGo
<1>1. PICK c \in OracleConns :
           /\ c = Ask!Held(j) /\ conn[c].holder = j /\ conn[c] \in SessionType
           /\ SessionTrue(conn[c], dbJob)
           /\ conn \in [OracleConns -> SessionType] /\ dbJob \in [Jobs -> JobType]
           /\ None \notin Jobs /\ dbJob[j] \in JobType /\ WorkTrue(j, dbJob[j])
           /\ JobKind[j] \in {"query", "procedure", "plsql", "readonly"}
  BY SessionOf DEF Serving
<1> DEFINE k == [dbJob[j] EXCEPT !.pc = Ask!Finally(j), !.failed = TRUE]
<1>2. dbJob' = [dbJob EXCEPT ![j] = k]
  BY <1>1 DEF Ask!Fails
<1>3. Ask!Finally(j) \in {"untag", "rollback", "close"}
  BY DEF Ask!Finally
<1>4. k \in JobType /\ k.pc = Ask!Finally(j) /\ k.failed /\ k.writes = dbJob[j].writes
      /\ dbJob'[j] = k
  BY <1>1, <1>2, <1>3 DEF JobType
<1>5. SessionTrue(conn[c], dbJob') /\ WorkTrue(j, k)
  BY <1>1, <1>3, <1>4 DEF SessionTrue, WorkTrue, Serving, Ask!Finally
<1>6. conn' = [conn EXCEPT ![c] = conn[c]]
  BY <1>1
<1>7. Serves(j, k, c, conn[c])
  BY <1>1, <1>2, <1>3, <1>4, <1>5, <1>6 DEF Serves, Serving
<1> QED
  BY <1>1, <1>3, <1>4, <1>7, SessionMoves

LEMMA SessionPrepares ==
  ASSUME Ask!OraclePoolAssumption, SessionsInv, NEW j \in Jobs, Ask!Alter(j) \/ Ask!SetReadOnly(j)
  PROVE  SessionsInv' /\ JobsGo
<1>1. PICK c \in OracleConns :
           /\ c = Ask!Held(j) /\ conn[c].holder = j /\ conn[c] \in SessionType
           /\ SessionTrue(conn[c], dbJob)
           /\ conn \in [OracleConns -> SessionType] /\ dbJob \in [Jobs -> JobType]
           /\ None \notin Jobs /\ dbJob[j] \in JobType /\ WorkTrue(j, dbJob[j])
           /\ JobKind[j] \in {"query", "procedure", "plsql", "readonly"}
  BY SessionOf DEF Serving, Ask!Alter, Ask!SetReadOnly
<1>2. UNCHANGED <<ranAs, changed>>
  BY DEF Ask!Alter, Ask!SetReadOnly, Ask!HistoryUnchanged
<1>3. CASE Ask!Fails(j) /\ UNCHANGED conn
  BY <1>2, <1>3, SessionFails DEF Ask!Alter, Ask!SetReadOnly
<1>4. CASE dbJob[j].pc = "alter" /\ conn' = [conn EXCEPT ![c].tag = conn[c].mark]
           /\ Ask!Goes(j, IF JobKind[j] = "readonly" THEN "mode" ELSE "execute")
  <2>1. PICK p \in {"mode", "execute"} : p = IF JobKind[j] = "readonly" THEN "mode" ELSE "execute"
    OBVIOUS
  <2> DEFINE k == [dbJob[j] EXCEPT !.pc = p]
             s == [conn[c] EXCEPT !.tag = conn[c].mark]
  <2>2. dbJob' = [dbJob EXCEPT ![j] = k] /\ conn' = [conn EXCEPT ![c] = s]
    BY <1>1, <1>4, <2>1 DEF Ask!Goes
  <2>3. k \in JobType /\ k.pc = p /\ k.writes = dbJob[j].writes /\ dbJob'[j] = k
    BY <1>1, <2>2 DEF JobType
  <2>4. s \in SessionType /\ s.holder = j /\ s.tag = conn[c].mark /\ s.mark = conn[c].mark
    BY <1>1 DEF SessionType
  <2>5. SessionTrue(s, dbJob') /\ WorkTrue(j, k)
    <3>1. WorkTrue(j, k)
      BY <2>3 DEF WorkTrue
    <3>2. j # None /\ (JobKind[j] # "plsql" => conn[c].mark = None)
          /\ (JobKind[j] = "plsql" => conn[c].mark = j)
      BY <1>1, <1>4 DEF SessionTrue
    <3> QED
      BY <2>1, <2>3, <2>4, <3>1, <3>2 DEF SessionTrue, Serving
  <2>6. Serves(j, k, c, s)
    BY <1>1, <2>2, <2>3, <2>4, <2>5 DEF Serves, Serving
  <2> QED
    BY <1>2, <1>4, <2>3, <2>6, SessionMoves
<1>5. CASE dbJob[j].pc = "mode" /\ conn' = [conn EXCEPT ![c].txn = "readonly"]
           /\ Ask!Goes(j, "execute")
  <2> DEFINE k == [dbJob[j] EXCEPT !.pc = "execute"]
             s == [conn[c] EXCEPT !.txn = "readonly"]
  <2>2. dbJob' = [dbJob EXCEPT ![j] = k] /\ conn' = [conn EXCEPT ![c] = s]
    BY <1>1, <1>5 DEF Ask!Goes
  <2>3. k \in JobType /\ k.pc = "execute" /\ k.writes = dbJob[j].writes /\ dbJob'[j] = k
    BY <1>1, <2>2 DEF JobType
  <2>4. s \in SessionType /\ s.holder = j /\ s.tag = conn[c].tag /\ s.mark = conn[c].mark
        /\ s.txn = "readonly"
    BY <1>1 DEF SessionType
  <2>5. SessionTrue(s, dbJob') /\ WorkTrue(j, k)
    BY <1>1, <1>5, <2>3, <2>4 DEF SessionTrue, WorkTrue, Serving
  <2>6. Serves(j, k, c, s)
    BY <1>1, <2>2, <2>3, <2>4, <2>5 DEF Serves, Serving
  <2> QED
    BY <1>2, <1>5, <2>3, <2>6, SessionMoves
<1> QED
  BY <1>1, <1>3, <1>4, <1>5 DEF Ask!Alter, Ask!SetReadOnly

LEMMA SessionExecutes ==
  ASSUME Ask!OraclePoolAssumption, SessionsInv, NEW j \in Jobs, Ask!Execute(j)
  PROVE  SessionsInv' /\ JobsGo
<1>1. PICK c \in OracleConns :
           /\ c = Ask!Held(j) /\ conn[c].holder = j /\ conn[c] \in SessionType
           /\ SessionTrue(conn[c], dbJob)
           /\ conn \in [OracleConns -> SessionType] /\ dbJob \in [Jobs -> JobType]
           /\ None \notin Jobs /\ dbJob[j] \in JobType /\ WorkTrue(j, dbJob[j])
           /\ JobKind[j] \in {"query", "procedure", "plsql", "readonly"}
  BY SessionOf DEF Serving, Ask!Execute
<1>2. dbJob[j].pc = "execute"
  BY DEF Ask!Execute
<1>3. CASE Ask!Fails(j) /\ UNCHANGED <<conn, ranAs, changed>>
  BY <1>2, <1>3, SessionFails
<1>4. ASSUME NEW t \in {"none", "open", "readonly"},
             dbJob[j].writes => conn[c].txn # "readonly", conn' = [conn EXCEPT ![c].txn = t],
             changed' = IF dbJob[j].writes THEN changed \cup {j} ELSE changed,
             ranAs' = [ranAs EXCEPT ![j] = {conn[c].tag}], Ask!Goes(j, Ask!Finally(j))
      PROVE  SessionsInv' /\ JobsGo
  <2> DEFINE k == [dbJob[j] EXCEPT !.pc = Ask!Finally(j)]
             s == [conn[c] EXCEPT !.txn = t]
  <2>1. Ask!Finally(j) \in {"untag", "rollback", "close"}
    BY DEF Ask!Finally
  <2>2. dbJob' = [dbJob EXCEPT ![j] = k] /\ conn' = [conn EXCEPT ![c] = s]
    BY <1>1, <1>4 DEF Ask!Goes
  <2>3. k \in JobType /\ k.pc = Ask!Finally(j) /\ k.writes = dbJob[j].writes /\ dbJob'[j] = k
    BY <1>1, <2>1, <2>2 DEF JobType
  <2>4. s \in SessionType /\ s.holder = j /\ s.tag = conn[c].tag /\ s.mark = conn[c].mark
    BY <1>1, <1>4 DEF SessionType
  <2>5. JobKind[j] = "readonly" => ~dbJob[j].writes
    BY <1>1, <1>2, <1>4 DEF SessionTrue
  <2>6. SessionTrue(s, dbJob') /\ WorkTrue(j, k)
    <3>1. WorkTrue(j, k)
      BY <2>3, <2>5 DEF WorkTrue
    <3>2. j # None /\ (JobKind[j] # "plsql" => conn[c].tag = None /\ conn[c].mark = None)
      BY <1>1 DEF SessionTrue
    <3>3. /\ k.pc = "untag" <=> JobKind[j] = "plsql"
          /\ k.pc = "rollback" => JobKind[j] = "readonly"
          /\ k.pc \in {"untag", "rollback", "close"}
      BY <1>1, <2>3 DEF Ask!Finally
    <3> QED
      BY <2>3, <2>4, <3>1, <3>2, <3>3 DEF SessionTrue, Serving
  <2>7. Serves(j, k, c, s)
    BY <1>1, <2>1, <2>2, <2>3, <2>4, <2>6 DEF Serves, Serving
  <2>8. JobsGo
    BY <1>2, <2>1, <2>2, <2>3, JobGoes
  <2>9. conn[c].tag = IF JobKind[j] = "plsql" THEN j ELSE None
    BY <1>1, <1>2 DEF SessionTrue
  <2>10. DOMAIN ranAs' = Jobs /\ \A i \in Jobs :
           ranAs'[i] \subseteq {IF JobKind[i] = "plsql" THEN i ELSE None}
    BY <1>4, <2>9 DEF SessionsInv
  <2>11. \A i \in changed' : JobKind[i] # "readonly"
    BY <1>4, <2>5 DEF SessionsInv
  <2> QED
    BY <1>1, <2>7, <2>8, <2>10, <2>11, SessionServes DEF SessionsInv
<1>5. conn[c].txn \in {"none", "open", "readonly"}
  BY <1>1 DEF SessionType
<1> QED
  BY <1>1, <1>3, <1>4, <1>5 DEF Ask!Execute

LEMMA SessionEnds ==
  ASSUME Ask!OraclePoolAssumption, SessionsInv, NEW j \in Jobs,
         Ask!Untag(j) \/ Ask!Rollback(j) \/ Ask!Close(j)
  PROVE  SessionsInv' /\ JobsGo
<1>1. PICK c \in OracleConns :
           /\ c = Ask!Held(j) /\ conn[c].holder = j /\ conn[c] \in SessionType
           /\ SessionTrue(conn[c], dbJob)
           /\ conn \in [OracleConns -> SessionType] /\ dbJob \in [Jobs -> JobType]
           /\ None \notin Jobs /\ dbJob[j] \in JobType /\ WorkTrue(j, dbJob[j])
           /\ JobKind[j] \in {"query", "procedure", "plsql", "readonly"}
  BY SessionOf DEF Serving, Ask!Untag, Ask!Rollback, Ask!Close
<1>2. UNCHANGED <<ranAs, changed>> /\ Ask!Alive(j) = conn[c].alive
  BY <1>1 DEF Ask!Untag, Ask!Rollback, Ask!Close, Ask!HistoryUnchanged, Ask!Alive
<1>3. CASE Ask!Untag(j)
  <2> DEFINE k == [dbJob[j] EXCEPT !.pc = "close"]
             s == [conn[c] EXCEPT !.mark = None, !.tag = IF conn[c].alive THEN None ELSE @]
  <2>1. dbJob' = [dbJob EXCEPT ![j] = k] /\ conn' = [conn EXCEPT ![c] = s]
        /\ dbJob[j].pc = "untag"
    BY <1>1, <1>2, <1>3 DEF Ask!Goes, Ask!Untag
  <2>2. k \in JobType /\ k.pc = "close" /\ k.writes = dbJob[j].writes /\ k.failed = dbJob[j].failed
        /\ dbJob'[j] = k
    BY <1>1, <2>1 DEF JobType
  <2>3. s \in SessionType /\ s.holder = j /\ s.mark = None /\ (s.alive => s.tag = None)
    BY <1>1 DEF SessionType
  <2>4. SessionTrue(s, dbJob') /\ WorkTrue(j, k)
    BY <1>1, <2>1, <2>2, <2>3 DEF SessionTrue, WorkTrue, Serving
  <2>5. Serves(j, k, c, s)
    BY <1>1, <2>1, <2>2, <2>3, <2>4 DEF Serves, Serving
  <2> QED
    BY <1>2, <2>1, <2>2, <2>5, SessionMoves
<1>4. CASE Ask!Rollback(j)
  <2> DEFINE k == [dbJob[j] EXCEPT !.pc = "close"]
             s == [conn[c] EXCEPT !.txn = IF conn[c].alive THEN "none" ELSE @]
  <2>1. dbJob' = [dbJob EXCEPT ![j] = k] /\ conn' = [conn EXCEPT ![c] = s]
        /\ dbJob[j].pc = "rollback"
    BY <1>1, <1>2, <1>4 DEF Ask!Goes, Ask!Rollback
  <2>2. k \in JobType /\ k.pc = "close" /\ k.writes = dbJob[j].writes /\ k.failed = dbJob[j].failed
        /\ dbJob'[j] = k
    BY <1>1, <2>1 DEF JobType
  <2>3. s \in SessionType /\ s.holder = j /\ s.mark = conn[c].mark /\ s.tag = conn[c].tag
    BY <1>1 DEF SessionType
  <2>4. SessionTrue(s, dbJob') /\ WorkTrue(j, k)
    BY <1>1, <2>1, <2>2, <2>3 DEF SessionTrue, WorkTrue, Serving
  <2>5. Serves(j, k, c, s)
    BY <1>1, <2>1, <2>2, <2>3, <2>4 DEF Serves, Serving
  <2> QED
    BY <1>2, <2>1, <2>2, <2>5, SessionMoves
<1>5. CASE Ask!Close(j)
  <2> DEFINE k == [dbJob[j] EXCEPT !.pc = "ended"]
             s == IF conn[c].alive THEN [conn[c] EXCEPT !.holder = None, !.txn = "none"]
                  ELSE Ask!Fresh
  <2>1. dbJob' = [dbJob EXCEPT ![j] = k] /\ conn' = [conn EXCEPT ![c] = s]
        /\ dbJob[j].pc = "close"
    BY <1>1, <1>2, <1>5 DEF Ask!Goes, Ask!Close
  <2>2. k \in JobType /\ k.pc = "ended" /\ k.writes = dbJob[j].writes /\ k.failed = dbJob[j].failed
        /\ dbJob'[j] = k
    BY <1>1, <2>1 DEF JobType
  <2>3. conn[c].alive => conn[c].tag = None /\ conn[c].mark = None
    BY <1>1, <2>1 DEF SessionTrue
  <2>4. s \in SessionType /\ s.holder = None /\ s.mark = None /\ s.tag = None /\ s.txn = "none"
    BY <1>1, <2>3 DEF SessionType, Ask!Fresh
  <2>5. SessionTrue(s, dbJob') /\ WorkTrue(j, k)
    BY <1>1, <2>1, <2>2, <2>4 DEF SessionTrue, WorkTrue
  <2>6. Serves(j, k, c, s)
    BY <1>1, <2>1, <2>2, <2>4, <2>5 DEF Serves, Serving
  <2> QED
    BY <1>2, <2>1, <2>2, <2>6, SessionMoves
<1> QED
  BY <1>3, <1>4, <1>5

LEMMA JobWorks ==
  ASSUME Ask!OraclePoolAssumption, SessionsInv, NEW j \in Jobs, Ask!Work(j)
  PROVE  SessionsInv' /\ JobsGo
<1>1. CASE Ask!QueueTimeout(j)
  <2> DEFINE k == [dbJob[j] EXCEPT !.pc = "ended", !.failed = TRUE]
  <2>1. dbJob' = [dbJob EXCEPT ![j] = k] /\ UNCHANGED <<conn, ranAs, changed>>
        /\ dbJob[j].pc = "queued" /\ dbJob[j] \in JobType /\ None \notin Jobs
    BY <1>1 DEF Ask!QueueTimeout, Ask!HistoryUnchanged, SessionsInv, Ask!OraclePoolAssumption
  <2>2. k \in JobType /\ k.pc = "ended" /\ k.failed /\ k.writes = dbJob[j].writes
    BY <2>1 DEF JobType
  <2> QED
    BY <2>1, <2>2, JobWaits
<1> QED
  BY <1>1, SessionTaken, SessionPrepares, SessionExecutes, SessionEnds DEF Ask!Work

LEMMA JobIsCalled ==
  ASSUME Ask!OraclePoolAssumption, SessionsInv, NEW j \in Jobs, NEW w \in BOOLEAN, Ask!Call(j, w)
  PROVE  SessionsInv' /\ JobsGo /\ dbJob'[j].pc = "queued" /\ (dbJob'[j].writes <=> w)
<1> DEFINE k == [dbJob[j] EXCEPT !.pc = "queued", !.writes = w]
<1>1. dbJob' = [dbJob EXCEPT ![j] = k] /\ UNCHANGED <<conn, ranAs, changed>>
      /\ dbJob[j].pc = "idle" /\ dbJob[j] \in JobType /\ None \notin Jobs
      /\ dbJob \in [Jobs -> JobType]
  BY DEF Ask!Call, Ask!HistoryUnchanged, SessionsInv, Ask!OraclePoolAssumption
<1>2. k \in JobType /\ k.pc = "queued" /\ (k.writes <=> w) /\ dbJob'[j] = k
  BY <1>1 DEF JobType
<1> QED
  BY <1>1, <1>2, JobWaits

LEMMA SessionDies ==
  ASSUME SessionsInv, NEW c \in OracleConns, Ask!Die(c)
  PROVE  SessionsInv' /\ JobsGo
<1> USE DEF SessionsInv
<1>1. conn' = [conn EXCEPT ![c].alive = FALSE] /\ UNCHANGED <<dbJob, ranAs, changed>>
  BY DEF Ask!Die
<1>2. /\ conn' \in [OracleConns -> SessionType]
      /\ \A d \in OracleConns : /\ conn'[d].holder = conn[d].holder /\ conn'[d].tag = conn[d].tag
                                /\ conn'[d].mark = conn[d].mark /\ conn'[d].txn = conn[d].txn
                                /\ conn'[d].alive => conn[d].alive
  <2> DEFINE dead == [conn[c] EXCEPT !.alive = FALSE]
  <2>1. conn \in [OracleConns -> SessionType]
    OBVIOUS
  <2>2. conn[c] \in SessionType
    BY <2>1
  <2>3. /\ dead \in SessionType
        /\ dead.holder = conn[c].holder /\ dead.tag = conn[c].tag
        /\ dead.mark = conn[c].mark /\ dead.txn = conn[c].txn /\ ~dead.alive
    BY <2>2 DEF SessionType
  <2>4. conn' = [conn EXCEPT ![c] = dead]
    BY <1>1
  <2> HIDE DEF dead
  <2>5. conn'[c] = dead /\ \A d \in OracleConns : d # c => conn'[d] = conn[d]
    BY <2>1, <2>4
  <2> QED
    BY <2>1, <2>3, <2>4, <2>5
<1>3. \A d \in OracleConns : SessionTrue(conn[d], dbJob)'
  <2>1. ASSUME NEW d \in OracleConns PROVE SessionTrue(conn'[d], dbJob')
    BY <1>1, <1>2 DEF SessionTrue
  <2> QED
    BY <2>1
<1>4. \A i \in Jobs : WorkTrue(i, dbJob[i])'
  BY <1>1 DEF WorkTrue
<1>5. HoldersTrue' /\ JobsGo
  BY <1>1, <1>2 DEF HoldersTrue, JobsGo
<1> QED
  BY <1>1, <1>2, <1>3, <1>4, <1>5

\* Question q goes on and no other does.
AskGoes(q) ==
  /\ DOMAIN ask' = AskQuestions /\ DOMAIN ask'[q] = DOMAIN ask[q]
  /\ \A x \in AskQuestions \ {q} : ask'[x] = ask[x]

LEMMA AskKept ==
  ASSUME AskInv, JobsGo, NEW q \in AskQuestions, Run[q] \in Jobs, ask'[q] = ask[q]
  PROVE  AskTrue(q)'
<1>1. AskTrue(q)
  BY DEF AskInv
<1> QED
  BY <1>1 DEF AskTrue, JobsGo

LEMMA AskNextOne ==
  ASSUME Ask!AskDatabaseAssumption, AskInv, NEW q \in AskQuestions, AskGoes(q), AskTrue(q)',
         SessionsInv', JobsGo
  PROVE  AskInv'
<1>1. \A x \in AskQuestions : Run[x] \in Jobs
  BY DEF Ask!AskDatabaseAssumption
<1>2. \A x \in AskQuestions : AskTrue(x)'
  BY <1>1, AskKept DEF AskGoes
<1>3. \A x \in AskQuestions : DOMAIN ask'[x] = {"pc", "voice", "text", "base", "report", "schema",
                                                "statement", "answer"}
  BY DEF AskInv, AskGoes
<1> QED
  BY <1>2, <1>3 DEF AskInv, AskGoes

LEMMA PoolRests == ASSUME SessionsInv, UNCHANGED <<conn, dbJob, ranAs, changed>>
                   PROVE  SessionsInv' /\ JobsGo
BY DEF SessionsInv, HoldersTrue, SessionTrue, WorkTrue, JobsGo

\* The model and the person: nothing is run.
LEMMA AskThinks ==
  ASSUME AskInv, NEW q \in AskQuestions,
         \/ Ask!Ask(q) \/ Ask!CheckRoles(q) \/ Ask!Transcribe(q) \/ Ask!ReadColumns(q)
         \/ Ask!ChoosePostgresTables(q) \/ Ask!ReadPostgresColumns(q) \/ Ask!Generate(q)
         \/ Ask!Validate(q)
  PROVE  AskGoes(q) /\ AskTrue(q)' /\ UNCHANGED <<conn, dbJob, ranAs, changed>>
<1> USE DEF Ask!poolVars, Ask!At, Ask!Moves, Ask!Answers, AskGoes, AskTrue
<1>1. /\ DOMAIN ask = AskQuestions
      /\ DOMAIN ask[q] = {"pc", "voice", "text", "base", "report", "schema", "statement", "answer"}
      /\ ask[q].answer \in {"words", "raw"} => ask[q].pc = "answered"
  BY DEF AskInv
<1>2. CASE Ask!Ask(q)
  <2>1. PICK db \in {"postgres", "oracle"}, report, voice \in BOOLEAN :
          ask' = [ask EXCEPT ![q] = [@ EXCEPT !.pc = "roles", !.base = db, !.report = report,
                                           !.voice = voice, !.text = ~voice]]
    BY <1>2, Zenon DEF Ask!Ask
  <2>2. PICK text : text = ~voice
    OBVIOUS
  <2>3. ask[q].pc = "new" /\ UNCHANGED <<conn, dbJob, ranAs, changed>>
    BY <1>2 DEF Ask!Ask
  <2> QED
    BY <1>1, <2>1, <2>2, <2>3
<1>a. ASSUME NEW a \in {"denied", "noVoice", "reply", "unclear", "rejected"}, Ask!Answers(q, a)
      PROVE  AskGoes(q) /\ ask'[q].pc = "answered" /\ ask'[q].answer = a
  BY <1>1, <1>a
<1>m. ASSUME NEW pc, Ask!Moves(q, pc)
      PROVE  AskGoes(q) /\ ask'[q].pc = pc /\ ask'[q].answer = ask[q].answer
  BY <1>1, <1>m
<1>3. CASE Ask!CheckRoles(q)
  <2>1. ask[q].pc = "roles" /\ UNCHANGED <<conn, dbJob, ranAs, changed>>
    BY <1>3 DEF Ask!CheckRoles
  <2>2. CASE Ask!Answers(q, "denied")
    <3>1. AskGoes(q) /\ ask'[q].pc = "answered" /\ ask'[q].answer = "denied"
      BY <2>2, <1>a
    <3> QED
      BY <2>1, <3>1
  <2>3. CASE \E pc \in {"voice", "choose"} : Ask!Moves(q, pc)
    <3>1. PICK pc \in {"voice", "choose"} : Ask!Moves(q, pc)
      BY <2>3
    <3>2. AskGoes(q) /\ ask'[q].pc = pc /\ ask'[q].answer = ask[q].answer
      BY <3>1, <1>m
    <3> QED
      BY <1>1, <2>1, <3>2
  <2> HIDE DEF Ask!Moves, Ask!Answers, AskGoes, AskTrue
  <2> QED
    BY <1>3, <2>2, <2>3 DEF Ask!CheckRoles
<1>4. CASE Ask!Transcribe(q)
  <2>1. ask[q].pc = "voice" /\ UNCHANGED <<conn, dbJob, ranAs, changed>>
    BY <1>4 DEF Ask!Transcribe
  <2>2. CASE Ask!Answers(q, "noVoice")
    <3>1. AskGoes(q) /\ ask'[q].pc = "answered" /\ ask'[q].answer = "noVoice"
      BY <2>2, <1>a
    <3> QED
      BY <2>1, <3>1
  <2>3. CASE \E text \in BOOLEAN :
               ask' = [ask EXCEPT ![q] = [@ EXCEPT !.pc = "choose", !.text = text]]
    BY <1>1, <2>1, <2>3
  <2> HIDE DEF Ask!Moves, Ask!Answers, AskGoes, AskTrue
  <2> QED
    BY <1>4, <2>2, <2>3 DEF Ask!Transcribe
<1>5. CASE Ask!ReadColumns(q)
  <2>1. PICK which : ask' = [ask EXCEPT ![q] = [@ EXCEPT !.pc = "generate", !.schema = which]]
    BY <1>5 DEF Ask!ReadColumns
  <2>2. ask[q].pc = "columns" /\ UNCHANGED <<conn, dbJob, ranAs, changed>>
    BY <1>5 DEF Ask!ReadColumns
  <2> QED
    BY <1>1, <2>1, <2>2
<1>6. CASE Ask!ChoosePostgresTables(q) \/ Ask!ReadPostgresColumns(q)
  BY <1>1, <1>6 DEF Ask!ChoosePostgresTables, Ask!ReadPostgresColumns
<1>7. CASE Ask!Generate(q)
  <2>1. ask[q].pc = "generate" /\ UNCHANGED <<conn, dbJob, ranAs, changed>>
    BY <1>7 DEF Ask!Generate
  <2>2. CASE \E a \in {"reply", "unclear"} : Ask!Answers(q, a)
    <3>1. PICK a \in {"reply", "unclear"} : Ask!Answers(q, a)
      BY <2>2
    <3>2. AskGoes(q) /\ ask'[q].pc = "answered" /\ ask'[q].answer = a
      BY <3>1, <1>a
    <3> QED
      BY <2>1, <3>2
  <2>3. CASE \E db, s : ask' = [ask EXCEPT ![q] = [@ EXCEPT !.pc = "validate", !.base = db,
                                                           !.statement = s]]
    BY <1>1, <2>1, <2>3
  <2> HIDE DEF Ask!Moves, Ask!Answers, AskGoes, AskTrue
  <2> QED
    BY <1>7, <2>2, <2>3 DEF Ask!Generate
<1>8. CASE Ask!Validate(q)
  BY <1>1, <1>8 DEF Ask!Validate
<1> QED
  BY <1>2, <1>3, <1>4, <1>5, <1>6, <1>7, <1>8

\* What was read is told.
LEMMA AskTells ==
  ASSUME Ask!AskDatabaseAssumption, AskInv, NEW q \in AskQuestions,
         Ask!OracleRan(q) \/ Ask!RunPostgres(q) \/ Ask!FormatAnswer(q)
  PROVE  AskGoes(q) /\ AskTrue(q)' /\ UNCHANGED <<conn, dbJob, ranAs, changed>>
<1> USE DEF Ask!poolVars, Ask!At, Ask!Moves, Ask!Answers, AskGoes, AskTrue
<1>1. /\ DOMAIN ask = AskQuestions
      /\ DOMAIN ask[q] = {"pc", "voice", "text", "base", "report", "schema", "statement", "answer"}
      /\ ask[q].answer \in {"words", "raw"} => ask[q].pc = "answered"
      /\ AskTrue(q) /\ Run[q] \in Jobs /\ JobKind[Run[q]] = "readonly"
      /\ WorkTrue(Run[q], dbJob[Run[q]])
  BY DEF AskInv, SessionsInv, Ask!AskDatabaseAssumption
<1>2. CASE Ask!OracleRan(q)
  <2>1. ~dbJob[Run[q]].failed => ask[q].statement = "select"
    BY <1>1, <1>2 DEF Ask!OracleRan, WorkTrue
  <2> QED
    BY <1>1, <1>2, <2>1 DEF Ask!OracleRan
<1>3. CASE Ask!RunPostgres(q)
  BY <1>1, <1>3 DEF Ask!RunPostgres
<1>4. CASE Ask!FormatAnswer(q)
  BY <1>1, <1>4 DEF Ask!FormatAnswer
<1> QED
  BY <1>2, <1>3, <1>4

LEMMA AskCalls ==
  ASSUME Ask!AskDatabaseAssumption, AskInv, NEW q \in AskQuestions,
         Ask!ChooseOracleTables(q) \/ Ask!RunOracle(q)
  PROVE  AskInv'
<1> USE DEF Ask!poolVars, Ask!At, Ask!Moves, AskGoes
<1>1. /\ DOMAIN ask = AskQuestions
      /\ DOMAIN ask[q] = {"pc", "voice", "text", "base", "report", "schema", "statement", "answer"}
      /\ ask[q].answer \in {"words", "raw"} => ask[q].pc = "answered"
      /\ Run[q] \in Jobs /\ LookUp[q] \in Jobs /\ SessionsInv /\ Ask!OraclePoolAssumption
  BY DEF AskInv, AskTrue, Ask!AskDatabaseAssumption
<1>2. CASE Ask!ChooseOracleTables(q)
  <2>1. SessionsInv' /\ JobsGo
    BY <1>1, <1>2, JobIsCalled, PoolRests DEF Ask!ChooseOracleTables
  <2>2. AskGoes(q) /\ AskTrue(q)'
    BY <1>1, <1>2 DEF Ask!ChooseOracleTables, AskTrue
  <2> QED
    BY <2>1, <2>2, AskNextOne
<1>3. CASE Ask!RunOracle(q)
  <2>1. PICK w \in BOOLEAN : w <=> ask[q].statement # "select"
    OBVIOUS
  <2>2. Ask!Call(Run[q], w)
    BY <1>3, <2>1 DEF Ask!RunOracle, Ask!Call
  <2>3. SessionsInv' /\ JobsGo /\ dbJob'[Run[q]].pc = "queued" /\ (dbJob'[Run[q]].writes <=> w)
    BY <1>1, <2>2, JobIsCalled
  <2>4. AskGoes(q) /\ AskTrue(q)'
    BY <1>1, <1>3, <2>1, <2>3 DEF Ask!RunOracle, AskTrue
  <2> QED
    BY <2>3, <2>4, AskNextOne
<1> QED
  BY <1>2, <1>3

LEMMA AskNext ==
  ASSUME Ask!AskDatabaseAssumption, AskInv, Ask!Next \/ UNCHANGED askVars
  PROVE  AskInv'
<1>1. /\ SessionsInv /\ Ask!OraclePoolAssumption /\ Callers \subseteq Jobs
      /\ \A x \in AskQuestions : Run[x] \in Jobs
  BY DEF AskInv, Ask!AskDatabaseAssumption
<1>2. ASSUME NEW q \in AskQuestions, Ask!Ask(q) \/ Ask!Handle(q) PROVE AskInv'
  <2>1. CASE UNCHANGED <<conn, dbJob, ranAs, changed>> /\ AskGoes(q) /\ AskTrue(q)'
    BY <1>1, <2>1, PoolRests, AskNextOne
  <2> QED
    BY <1>2, <2>1, AskThinks, AskTells, AskCalls DEF Ask!Handle
<1>3. ASSUME SessionsInv', JobsGo, UNCHANGED ask PROVE AskInv'
  <2>1. \A q \in AskQuestions : AskTrue(q)'
    BY <1>1, <1>3, AskKept
  <2> QED
    BY <1>3, <2>1 DEF AskInv
<1>4. ASSUME NEW j \in Callers, NEW w \in BOOLEAN, Ask!Call(j, w), UNCHANGED ask PROVE AskInv'
  BY <1>1, <1>3, <1>4, JobIsCalled
<1>5. ASSUME NEW j \in Jobs, Ask!Work(j), UNCHANGED ask PROVE AskInv'
  BY <1>1, <1>3, <1>5, JobWorks
<1>6. ASSUME NEW c \in OracleConns, Ask!Die(c), UNCHANGED ask PROVE AskInv'
  BY <1>1, <1>3, <1>6, SessionDies
<1>7. CASE UNCHANGED askVars
  BY <1>1, <1>3, <1>7, PoolRests DEF askVars
<1> QED
  BY <1>2, <1>4, <1>5, <1>6, <1>7 DEF Ask!Next, Ask!Serve, Ask!askVars

LEMMA AskSound == ASSUME AskInv PROVE Ask!SessionsClean /\ Ask!RowsAreRead
<1>1. Ask!SessionsClean
  BY DEF AskInv, SessionsInv, SessionTrue, Ask!SessionsClean
<1>2. Ask!RowsAreRead
  BY DEF AskInv, AskTrue, Ask!RowsAreRead
<1> QED
  BY <1>1, <1>2

(***************************************************************************)
(* The debts of clients (logistics-tools.service.ts, getClientDebt).       *)
(***************************************************************************)
\* A list that was read has sums of firms, none larger than in the books since.
ListRead(firms, sums) ==
  firms # None => /\ DOMAIN firms \subseteq Firms
                  /\ \A f \in DOMAIN firms : firms[f] \in Nat /\ firms[f] <= sums[f]

DebtsInv ==
  /\ acts \in [Firms -> Nat] /\ payments \in [Firms -> Nat]
  /\ DOMAIN read = {"billed", "paid"} /\ DOMAIN call = {"tool", "args", "step", "from", "to"}
  /\ ListRead(read.billed, acts) /\ ListRead(read.paid, payments)
  /\ call.step = "answered" /\ call.tool = "getClientDebt" =>
       /\ read.billed # None /\ read.paid # None
       /\ answer = [f \in DOMAIN read.billed \cup DOMAIN read.paid |->
                      Reports!Of(read.billed, f) - Reports!Of(read.paid, f)]

LEMMA DebtsInit == ASSUME Reports!Init PROVE DebtsInv
BY DEF Reports!Init, Reports!NoCall, DebtsInv, ListRead

LEMMA DebtsNext ==
  ASSUME Reports!LogisticsReportsAssumption, DebtsInv, Reports!Next \/ UNCHANGED reportVars
  PROVE  DebtsInv'
<1> USE DEF DebtsInv
<1>1. ASSUME NEW sums \in [Firms -> Nat], NEW firms \in Reports!Lists(sums)
      PROVE  ListRead(firms, sums)
  BY <1>1 DEF Reports!Lists, ListRead
<1>2. ASSUME NEW tool \in Reports!Tools, Reports!Call(tool) PROVE DebtsInv'
  BY <1>2 DEF Reports!Call
<1>3. CASE Reports!Select
  <2>1. call.tool # "getClientDebt"
    BY <1>3 DEF Reports!Select, Reports!ByPeriod
  <2>2. PICK p : p = Reports!ResolvePeriod(call.args)
    OBVIOUS
  <2>3. /\ UNCHANGED <<acts, payments, read, answer>>
        /\ call' = IF call.tool = "profit" /\ ~oracle THEN [call EXCEPT !.step = "refused"]
                   ELSE [call EXCEPT !.step = "answered", !.from = p.from, !.to = p.to]
    BY <1>3, <2>2 DEF Reports!Select
  <2> QED
    BY <2>1, <2>3
<1>4. CASE Reports!TellLatest
  <2>1. call.tool # "getClientDebt"
    BY <1>4 DEF Reports!TellLatest, Reports!LogisticsReportsAssumption
  <2>2. UNCHANGED <<acts, payments, read>> /\ call' = [call EXCEPT !.step = "answered"]
    BY <1>4 DEF Reports!TellLatest
  <2> QED
    BY <2>1, <2>2
<1>5. CASE Reports!ReadBilled
  <2>1. PICK firms \in Reports!Lists(acts) : read' = [read EXCEPT !.billed = firms]
    BY <1>5 DEF Reports!ReadBilled
  <2>2. UNCHANGED <<call, acts, payments, answer>> /\ call.step = "called"
    BY <1>5 DEF Reports!ReadBilled, Reports!Debts
  <2> QED
    BY <1>1, <2>1, <2>2
<1>6. CASE Reports!ReadPaid
  <2>1. PICK firms \in Reports!Lists(payments) : read' = [read EXCEPT !.paid = firms]
    BY <1>6 DEF Reports!ReadPaid
  <2>2. UNCHANGED <<call, acts, payments, answer>> /\ call.step = "called"
    BY <1>6 DEF Reports!ReadPaid, Reports!Debts
  <2> QED
    BY <1>1, <2>1, <2>2
<1>7. CASE Reports!Merge
  BY <1>7 DEF Reports!Merge, Reports!Of
<1>8. CASE Reports!Enter
  <2>1. /\ acts' \in [Firms -> Nat] /\ payments' \in [Firms -> Nat]
        /\ \A f \in Firms : acts[f] <= acts'[f] /\ payments[f] <= payments'[f]
    BY <1>8 DEF Reports!Enter
  <2>2. UNCHANGED <<call, read, answer>> /\ call.step = "called"
    BY <1>8 DEF Reports!Enter, Reports!Debts
  <2>3. ListRead(read.billed, acts') /\ ListRead(read.paid, payments')
    BY <2>1 DEF ListRead
  <2> QED
    BY <2>1, <2>2, <2>3
<1>9. CASE Reports!Fails
  BY <1>9 DEF Reports!Fails
<1>10. CASE UNCHANGED reportVars
  BY <1>10 DEF reportVars, Reports!Of
<1> QED
  BY <1>2, <1>3, <1>4, <1>5, <1>6, <1>7, <1>8, <1>9, <1>10 DEF Reports!Next

LEMMA DebtsSound == ASSUME DebtsInv PROVE Reports!DebtsTrue
BY DEF DebtsInv, ListRead, Reports!DebtsTrue, Reports!Of

(***************************************************************************)
(* The days of a report (period.util.ts).                                  *)
(***************************************************************************)
\* Days before the first of a year.
First(y) == 365 * y + ((y - 1) \div 4) - ((y - 1) \div 100) + ((y - 1) \div 400)

LEMMA YearLonger ==
  ASSUME NEW y \in Nat \ {0}
  PROVE  First(y) \in Int /\ First(y + 1) = First(y) + 365 + IF Reports!Leap(y) THEN 1 ELSE 0
<1>1. (y \div 4) = ((y - 1) \div 4) + IF y % 4 = 0 THEN 1 ELSE 0
  OBVIOUS
<1>2. (y \div 100) = ((y - 1) \div 100) + IF y % 100 = 0 THEN 1 ELSE 0
  OBVIOUS
<1>3. (y \div 400) = ((y - 1) \div 400) + IF y % 400 = 0 THEN 1 ELSE 0
  OBVIOUS
<1>4. (y % 400 = 0 => y % 100 = 0) /\ (y % 100 = 0 => y % 4 = 0)
  OBVIOUS
<1>5. (y + 1) - 1 = y
  OBVIOUS
<1> QED
  BY <1>1, <1>2, <1>3, <1>4, <1>5 DEF First, Reports!Leap

LEMMA YearsGrow ==
  ASSUME NEW y \in Nat \ {0}, NEW z \in Nat \ {0}, y <= z
  PROVE  First(y) + 365 * (z - y) <= First(z)
<1> DEFINE a == y - 1
           b == z - 1
<1>1. a \in Nat /\ b \in Nat /\ a <= b
  OBVIOUS
<1> HIDE DEF a, b
<1>2. (a \div 4) - (a \div 100) + (a \div 400) <= (b \div 4) - (b \div 100) + (b \div 400)
  BY <1>1
<1> QED
  BY <1>1, <1>2 DEF First, a, b

LEMMA YearsOrdered ==
  ASSUME NEW y \in Nat \ {0}, NEW z \in Nat \ {0}, y < z
  PROVE  First(y + 1) <= First(z)
<1>1. y + 1 \in Nat \ {0} /\ y + 1 <= z /\ 365 * (z - (y + 1)) >= 0
  OBVIOUS
<1>2. First(y + 1) \in Int /\ First(z) \in Int
  BY <1>1, YearLonger
<1> QED
  BY <1>1, <1>2, YearsGrow

\* The days of the months add up.
LEMMA MonthLonger ==
  ASSUME NEW y \in Nat \ {0}
  PROVE  /\ Reports!MonthDays(y, 1) = 0
         /\ \A m \in Reports!Months : Reports!MonthDays(y, m + 1)
              = Reports!MonthDays(y, m) + Reports!Length(y, m)
<1> DEFINE w == [k \in Reports!Months |-> Reports!Length(y, k)]
           things == [k \in Reports!Months |-> {k} \X (1..Reports!Length(y, k))]
           Is(f, S) == f = [s \in SUBSET S |->
                         IF s = {} THEN 0
                         ELSE Reports!Length(y, CHOOSE x \in s : TRUE) + f[s \ {CHOOSE x \in s : TRUE}]]
<1>1. \A k \in Reports!Months : Reports!Length(y, k) \in Nat
  BY DEF Reports!Length
<1>2. ASSUME NEW k \in Reports!Months
      PROVE  /\ things[k] = {k} \X (1..Reports!Length(y, k)) /\ w[k] = Reports!Length(y, k)
             /\ IsFiniteSet(things[k]) /\ Cardinality(things[k]) = w[k]
  <2>1. IsFiniteSet({k}) /\ Cardinality({k}) = 1
    BY FS_Singleton
  <2>2. IsFiniteSet(1..Reports!Length(y, k))
          /\ Cardinality(1..Reports!Length(y, k)) = Reports!Length(y, k)
    BY <1>1, FS_Interval
  <2> DEFINE A == {k}
             B == 1..Reports!Length(y, k)
  <2>3. IsFiniteSet(A) /\ IsFiniteSet(B) /\ Cardinality(A) = 1
          /\ Cardinality(B) = Reports!Length(y, k)
    BY <2>1, <2>2
  <2>4. things[k] = A \X B /\ w[k] = Reports!Length(y, k)
    OBVIOUS
  <2> HIDE DEF A, B
  <2>5. IsFiniteSet(A \X B) /\ Cardinality(A \X B) = Cardinality(A) * Cardinality(B)
    BY <2>3, FS_Product
  <2>6. Cardinality(A \X B) = Reports!Length(y, k)
    <3>1. Cardinality(A \X B) = 1 * Reports!Length(y, k)
      BY <2>3, <2>5
    <3> QED
      BY <1>1, <3>1
  <2>7. things[k] = {k} \X (1..Reports!Length(y, k))
    OBVIOUS
  <2> HIDE DEF things, w
  <2> QED
    BY <2>4, <2>5, <2>6, <2>7
<1>3. \A k, j \in Reports!Months : k # j => things[k] \cap things[j] = {}
  OBVIOUS
<1>4. ASSUME NEW m \in 1..13
      PROVE  /\ IsFiniteSet(Together(1..(m - 1), things))
             /\ Reports!MonthDays(y, m) = Cardinality(Together(1..(m - 1), things))
  <2> DEFINE S == 1..(m - 1)
  <2>1. S \in SUBSET Reports!Months /\ IsFiniteSet(S)
    BY FS_Interval DEF Reports!Months
  <2>2. Reports!MonthDays(y, m) = (CHOOSE f : Is(f, S))[S]
    BY DEF Reports!MonthDays, Reports!MapThenSumSet, Reports!MapThenFoldSet
  <2>3. ASSUME NEW f PROVE Is(f, S) <=> Adds(f, w, S)
    <3>1. ASSUME NEW s \in SUBSET S, s # {}
          PROVE  w[CHOOSE x \in s : TRUE] = Reports!Length(y, CHOOSE x \in s : TRUE)
      <4>1. (CHOOSE x \in s : TRUE) \in s
        BY <3>1
      <4>2. (CHOOSE x \in s : TRUE) \in Reports!Months
        BY <2>1, <4>1
      <4> QED
        BY <4>2
    <3> HIDE DEF w, S
    <3>2. [s \in SUBSET S |-> IF s = {} THEN 0
            ELSE w[CHOOSE x \in s : TRUE] + f[s \ {CHOOSE x \in s : TRUE}]]
          = [s \in SUBSET S |-> IF s = {} THEN 0
              ELSE Reports!Length(y, CHOOSE x \in s : TRUE) + f[s \ {CHOOSE x \in s : TRUE}]]
      BY <3>1
    <3> QED
      BY <3>2 DEF Adds
  <2>4. Counts(w, S, things)
    <3> HIDE DEF w, S, things
    <3> QED
      BY <1>2, <1>3, <2>1 DEF Counts
  <2>5. Adds(CHOOSE f : Is(f, S), w, S)
    <3> HIDE DEF Is, w, S
    <3> QED
      BY <2>1, <2>3, AddsExists
  <2> HIDE DEF Is, w, things, S
  <2>6. IsFiniteSet(Together(S, things))
          /\ Reports!MonthDays(y, m) = Cardinality(Together(S, things))
    BY <2>2, <2>4, <2>5, SumCounts
  <2> QED
    BY <2>6 DEF S
<1>5. Reports!MonthDays(y, 1) = 0
  <2>1. Together(1..(1 - 1), things) = {}
    BY DEF Together
  <2> HIDE DEF things
  <2> QED
    BY <1>4, <2>1, FS_EmptySet
<1>6. ASSUME NEW m \in Reports!Months
      PROVE  Reports!MonthDays(y, m + 1) = Reports!MonthDays(y, m) + Reports!Length(y, m)
  <2> DEFINE A == Together(1..(m - 1), things)
  <2>1. m \in 1..13 /\ m + 1 \in 1..13 /\ (m + 1) - 1 = m /\ 1..m = (1..(m - 1)) \cup {m}
          /\ 1..m \subseteq Reports!Months
    BY DEF Reports!Months
  <2>2. Together(1..m, things) = A \cup things[m]
    <3> HIDE DEF things
    <3> QED
      BY <2>1 DEF Together
  <2>3. A \cap things[m] = {}
    <3>1. \A k \in 1..(m - 1) : k \in Reports!Months /\ k # m
      BY <2>1
    <3> HIDE DEF things
    <3> QED
      BY <1>3, <3>1 DEF Together
  <2> HIDE DEF A, things, w
  <2>4. IsFiniteSet(A) /\ Reports!MonthDays(y, m) = Cardinality(A)
    BY <1>4, <2>1 DEF A
  <2>5. Reports!MonthDays(y, m + 1) = Cardinality(A \cup things[m])
    BY <1>4, <2>1, <2>2
  <2>6. Cardinality(A \cup things[m])
          = Cardinality(A) + Cardinality(things[m]) - Cardinality(A \cap things[m])
    BY <1>2, <2>4, FS_Union
  <2>7. Cardinality(A \cap things[m]) = 0 /\ Cardinality(A) \in Nat
          /\ Cardinality(things[m]) = Reports!Length(y, m)
    BY <1>2, <2>3, <2>4, FS_EmptySet, FS_CardinalityType
  <2> QED
    BY <1>1, <2>4, <2>5, <2>6, <2>7
<1> QED
  BY <1>5, <1>6

LEMMA MonthTable ==
  ASSUME NEW y \in Nat \ {0}
  PROVE  LET l == Reports!Length(y, 2) IN
         /\ l = IF Reports!Leap(y) THEN 29 ELSE 28
         /\ Reports!MonthDays(y, 1) = 0 /\ Reports!MonthDays(y, 2) = 31
         /\ Reports!MonthDays(y, 3) = 31 + l
         /\ Reports!MonthDays(y, 4) = 62 + l /\ Reports!MonthDays(y, 5) = 92 + l
         /\ Reports!MonthDays(y, 6) = 123 + l
         /\ Reports!MonthDays(y, 7) = 153 + l /\ Reports!MonthDays(y, 8) = 184 + l
         /\ Reports!MonthDays(y, 9) = 215 + l
         /\ Reports!MonthDays(y, 10) = 245 + l /\ Reports!MonthDays(y, 11) = 276 + l
         /\ Reports!MonthDays(y, 12) = 306 + l
         /\ Reports!MonthDays(y, 13) = 337 + l
<1>1. /\ Reports!Length(y, 1) = 31 /\ Reports!Length(y, 3) = 31 /\ Reports!Length(y, 4) = 30
      /\ Reports!Length(y, 5) = 31 /\ Reports!Length(y, 6) = 30 /\ Reports!Length(y, 7) = 31
      /\ Reports!Length(y, 8) = 31
      /\ Reports!Length(y, 9) = 30 /\ Reports!Length(y, 10) = 31 /\ Reports!Length(y, 11) = 30
      /\ Reports!Length(y, 12) = 31
      /\ Reports!Length(y, 2) = IF Reports!Leap(y) THEN 29 ELSE 28
  BY DEF Reports!Length
<1>2. /\ Reports!MonthDays(y, 1) = 0
      /\ \A m \in {1, 2, 3, 4, 5, 6, 7, 8, 9, 10, 11, 12} : Reports!MonthDays(y, m + 1)
           = Reports!MonthDays(y, m) + Reports!Length(y, m)
  BY MonthLonger DEF Reports!Months
<1>3. /\ Reports!MonthDays(y, 2) = Reports!MonthDays(y, 1) + Reports!Length(y, 1)
      /\ Reports!MonthDays(y, 3) = Reports!MonthDays(y, 2) + Reports!Length(y, 2)
      /\ Reports!MonthDays(y, 4) = Reports!MonthDays(y, 3) + Reports!Length(y, 3)
      /\ Reports!MonthDays(y, 5) = Reports!MonthDays(y, 4) + Reports!Length(y, 4)
      /\ Reports!MonthDays(y, 6) = Reports!MonthDays(y, 5) + Reports!Length(y, 5)
      /\ Reports!MonthDays(y, 7) = Reports!MonthDays(y, 6) + Reports!Length(y, 6)
      /\ Reports!MonthDays(y, 8) = Reports!MonthDays(y, 7) + Reports!Length(y, 7)
      /\ Reports!MonthDays(y, 9) = Reports!MonthDays(y, 8) + Reports!Length(y, 8)
      /\ Reports!MonthDays(y, 10) = Reports!MonthDays(y, 9) + Reports!Length(y, 9)
      /\ Reports!MonthDays(y, 11) = Reports!MonthDays(y, 10) + Reports!Length(y, 10)
      /\ Reports!MonthDays(y, 12) = Reports!MonthDays(y, 11) + Reports!Length(y, 11)
      /\ Reports!MonthDays(y, 13) = Reports!MonthDays(y, 12) + Reports!Length(y, 12)
  BY <1>2
<1>4. Reports!Length(y, 2) \in Nat
  BY <1>1
<1> QED
  BY <1>1, <1>2, <1>3, <1>4

\* The number of a day, and of the days before and after a year's.
LEMMA DayNumbers ==
  ASSUME NEW y \in Nat \ {0}, NEW d \in Int
  PROVE  /\ \A m \in 1..13 : Reports!DayNumber(y, m, d) = First(y) + Reports!MonthDays(y, m) + d
         /\ y - 1 \in Nat \ {0} => Reports!DayNumber(y, 0, d)
              = First(y - 1) + Reports!MonthDays(y - 1, 12) + d
         /\ First(y + 1) = First(y) + Reports!MonthDays(y, 13)
<1>1. First(y) \in Int /\ First(y + 1) = First(y) + 365 + IF Reports!Leap(y) THEN 1 ELSE 0
  BY YearLonger
<1>2. First(y + 1) = First(y) + Reports!MonthDays(y, 13)
  BY <1>1, MonthTable
<1>3. ASSUME NEW m \in Reports!Months
      PROVE  Reports!DayNumber(y, m, d) = First(y) + Reports!MonthDays(y, m) + d
  <2>1. ((m - 1) \div 12) = 0 /\ ((m - 1) % 12) + 1 = m
    BY DEF Reports!Months
  <2>2. y + 0 = y
    OBVIOUS
  <2> QED
    BY <2>1, <2>2 DEF Reports!DayNumber, First
<1>4. Reports!DayNumber(y, 13, d) = First(y) + Reports!MonthDays(y, 13) + d
  <2>1. ((13 - 1) \div 12) = 1 /\ ((13 - 1) % 12) + 1 = 1
    OBVIOUS
  <2>2. Reports!MonthDays(y + 1, 1) = 0
    BY MonthLonger
  <2>3. Reports!DayNumber(y, 13, d) = First(y + 1) + Reports!MonthDays(y + 1, 1) + d
    BY <2>1 DEF Reports!DayNumber, First
  <2>4. First(y + 1) \in Int
    BY YearLonger
  <2> QED
    BY <1>2, <2>2, <2>3, <2>4
<1>5. ASSUME y - 1 \in Nat \ {0}, NEW m \in Int, m = 0
      PROVE  Reports!DayNumber(y, m, d) = First(y - 1) + Reports!MonthDays(y - 1, 12) + d
  <2> DEFINE z == m - 1
             back == z \div 12
  <2>1. z \in Int /\ z + 1 = 0
    BY <1>5
  <2>2. back \in Int /\ back + 1 = 0 /\ (z % 12) + 1 = 12
    <3> HIDE DEF z
    <3> QED
      BY <2>1
  <2>3. y + back = y - 1
    <3> HIDE DEF back
    <3> QED
      BY <2>2
  <2> QED
    BY <2>2, <2>3 DEF Reports!DayNumber, First
<1>6. \A m \in 1..13 : m \in Reports!Months \/ m = 13
  BY DEF Reports!Months
<1> QED
  BY <1>2, <1>3, <1>4, <1>5, <1>6

LEMMA MonthsOrdered ==
  ASSUME NEW y \in Nat \ {0}, NEW m \in 1..13
  PROVE  /\ Reports!MonthDays(y, m) \in Nat
         /\ \A k \in 1..13 : m < k => Reports!MonthDays(y, m) + Reports!Length(y, m) <= Reports!MonthDays(y, k)
<1>1. Reports!Length(y, 2) \in Nat /\ Reports!Length(y, 2) >= 28
  BY DEF Reports!Length
<1>2. m \in {1, 2, 3, 4, 5, 6, 7, 8, 9, 10, 11, 12, 13}
  OBVIOUS
<1>3. Reports!MonthDays(y, m) \in Nat
  BY <1>1, <1>2, MonthTable
<1>4. ASSUME NEW j \in 1..13, NEW k \in 1..13, j <= k
      PROVE  Reports!MonthDays(y, j) <= Reports!MonthDays(y, k)
  <2>1. j \in {1, 2, 3, 4, 5, 6, 7, 8, 9, 10, 11, 12, 13}
    OBVIOUS
  <2>2. k \in {1, 2, 3, 4, 5, 6, 7, 8, 9, 10, 11, 12, 13}
    OBVIOUS
  <2> QED
    BY <1>1, <1>4, <2>1, <2>2, MonthTable
<1>5. ASSUME NEW k \in 1..13, m < k
      PROVE  Reports!MonthDays(y, m) + Reports!Length(y, m) <= Reports!MonthDays(y, k)
  <2>1. m \in Reports!Months /\ m + 1 \in 1..13 /\ m + 1 <= k
    BY <1>5 DEF Reports!Months
  <2>2. Reports!MonthDays(y, m + 1) = Reports!MonthDays(y, m) + Reports!Length(y, m)
    BY <2>1, MonthLonger
  <2> QED
    BY <1>4, <2>1, <2>2
<1> QED
  BY <1>3, <1>5

Num(day) == Reports!DayNumber(day[1], day[2], day[3])

LEMMA DateOf ==
  ASSUME NEW p \in Reports!Dates
  PROVE  /\ p = <<p[1], p[2], p[3]>> /\ p[1] \in Years /\ p[2] \in Reports!Months
         /\ p[3] \in 1..31 /\ p[3] <= Reports!Length(p[1], p[2])
<1>1. ASSUME NEW A, NEW B, NEW C, NEW t \in A \X B \X C
      PROVE  t = <<t[1], t[2], t[3]>> /\ t[1] \in A /\ t[2] \in B /\ t[3] \in C
  OBVIOUS
<1>2. p \in Years \X Reports!Months \X (1..31) /\ p[3] <= Reports!Length(p[1], p[2])
  BY DEF Reports!Dates
<1> QED
  BY <1>1, <1>2

LEMMA NumOf ==
  ASSUME Years \subseteq Nat \ {0}, NEW p \in Reports!Dates
  PROVE  /\ p[1] \in Years /\ p[1] \in Nat \ {0} /\ p[2] \in Reports!Months /\ p[2] \in 1..13
         /\ p[3] \in 1..Reports!Length(p[1], p[2]) /\ p = <<p[1], p[2], p[3]>>
         /\ First(p[1]) \in Int /\ Reports!MonthDays(p[1], p[2]) \in Nat /\ Num(p) \in Int
         /\ Num(p) = First(p[1]) + Reports!MonthDays(p[1], p[2]) + p[3]
         /\ First(p[1]) < Num(p) /\ Num(p) <= First(p[1] + 1)
<1>1. /\ p[1] \in Years /\ p[1] \in Nat \ {0} /\ p[2] \in Reports!Months /\ p[2] \in 1..13
      /\ p[3] \in Nat /\ 1 <= p[3] /\ p[3] <= Reports!Length(p[1], p[2]) /\ p = <<p[1], p[2], p[3]>>
  BY DateOf DEF Reports!Months
<1>2. Reports!Length(p[1], p[2]) \in Nat
  BY DEF Reports!Length
<1>3. First(p[1]) \in Int /\ First(p[1] + 1) = First(p[1]) + Reports!MonthDays(p[1], 13)
  BY <1>1, YearLonger, DayNumbers
<1>4. Num(p) = First(p[1]) + Reports!MonthDays(p[1], p[2]) + p[3]
  BY <1>1, DayNumbers DEF Num
<1>5. /\ Reports!MonthDays(p[1], p[2]) \in Nat /\ Reports!MonthDays(p[1], 13) \in Nat
      /\ Reports!MonthDays(p[1], p[2]) + Reports!Length(p[1], p[2]) <= Reports!MonthDays(p[1], 13)
  BY <1>1, MonthsOrdered DEF Reports!Months
<1> QED
  BY <1>1, <1>2, <1>3, <1>4, <1>5

\* The calendar goes by the numbers of the days.
LEMMA NumOrder ==
  ASSUME Years \subseteq Nat \ {0}, NEW p \in Reports!Dates, NEW q \in Reports!Dates
  PROVE  /\ Reports!EarlierOrSame(p, q) <=> Num(p) <= Num(q)
         /\ Num(p) = Num(q) => p = q
<1> DEFINE Before(a, b) == \/ a[1] < b[1]
                           \/ a[1] = b[1] /\ a[2] < b[2]
                           \/ a[1] = b[1] /\ a[2] = b[2] /\ a[3] < b[3]
<1>1. ASSUME NEW a \in Reports!Dates, NEW b \in Reports!Dates, Before(a, b) PROVE Num(a) < Num(b)
  <2>1. CASE a[1] < b[1]
    <3>1. First(a[1] + 1) <= First(b[1])
      BY <2>1, NumOf, YearsOrdered
    <3>2. First(a[1] + 1) \in Int
      BY NumOf, YearLonger
    <3> QED
      BY <3>1, <3>2, NumOf
  <2>2. CASE a[1] = b[1] /\ a[2] < b[2]
    <3>1. Reports!MonthDays(a[1], a[2]) + Reports!Length(a[1], a[2]) <= Reports!MonthDays(a[1], b[2])
      BY <2>2, NumOf, MonthsOrdered
    <3>2. Reports!Length(a[1], a[2]) \in Nat
      BY DEF Reports!Length
    <3> QED
      BY <2>2, <3>1, <3>2, NumOf
  <2>3. CASE a[1] = b[1] /\ a[2] = b[2] /\ a[3] < b[3]
    <3>1. a[3] \in Nat /\ b[3] \in Nat
      BY DEF Reports!Dates
    <3> QED
      BY <2>3, <3>1, NumOf
  <2> QED
    BY <1>1, <2>1, <2>2, <2>3
<1>2. /\ p[1] \in Nat /\ p[2] \in Nat /\ p[3] \in Nat /\ p = <<p[1], p[2], p[3]>>
      /\ q[1] \in Nat /\ q[2] \in Nat /\ q[3] \in Nat /\ q = <<q[1], q[2], q[3]>>
  BY DateOf DEF Reports!Months
<1>3. Before(p, q) \/ Before(q, p) \/ p = q
  BY <1>2
<1>4. Reports!EarlierOrSame(p, q) <=> Before(p, q) \/ p = q
  BY <1>2 DEF Reports!EarlierOrSame
<1>5. Num(p) \in Int /\ Num(q) \in Int
  BY NumOf
<1>6. (Before(p, q) => Num(p) < Num(q)) /\ (Before(q, p) => Num(q) < Num(p))
  BY <1>1
<1> HIDE DEF Before
<1> QED
  BY <1>3, <1>4, <1>5, <1>6

\* A day of a year the calendar knows is found by its number.
LEMMA IsoOf ==
  ASSUME Years \subseteq Nat \ {0}, NEW y \in Years, NEW n \in Int,
         First(y) < n, n <= First(y + 1)
  PROVE  Reports!ToIso(n) \in Reports!Dates /\ Num(Reports!ToIso(n)) = n
<1> DEFINE InYear(year) == Reports!DayNumber(year, 1, 1) <= n
      /\ n < Reports!DayNumber(year + 1, 1, 1)
           year == CHOOSE z \in Years : InYear(z)
           InMonth(month) == Reports!DayNumber(y, month, 1) <= n
             /\ n < Reports!DayNumber(y, month + 1, 1)
           m == CHOOSE month \in Reports!Months : InMonth(month)
<1>1. ASSUME NEW z \in Years
      PROVE  /\ z \in Nat \ {0} /\ z + 1 \in Nat \ {0} /\ First(z) \in Int /\ First(z + 1) \in Int
             /\ InYear(z) <=> First(z) < n /\ n <= First(z + 1)
  <2>1. z \in Nat \ {0} /\ z + 1 \in Nat \ {0}
    OBVIOUS
  <2>2. First(z) \in Int /\ First(z + 1) \in Int
    BY <2>1, YearLonger
  <2>3. Reports!DayNumber(z, 1, 1) = First(z) + 0 + 1
          /\ Reports!DayNumber(z + 1, 1, 1) = First(z + 1) + 0 + 1
    BY <2>1, DayNumbers, MonthTable
  <2> QED
    BY <2>1, <2>2, <2>3
<1>2. year = y
  <2>1. InYear(y)
    BY <1>1
  <2>2. ASSUME NEW z \in Years, InYear(z) PROVE z = y
    <3>1. z < y \/ z = y \/ y < z
      BY <1>1
    <3>2. z < y => First(z + 1) <= First(y)
      BY <1>1, YearsOrdered
    <3>3. y < z => First(y + 1) <= First(z)
      BY <1>1, YearsOrdered
    <3> HIDE DEF InYear
    <3> QED
      BY <1>1, <2>2, <3>1, <3>2, <3>3
  <2> HIDE DEF InYear
  <2> QED
    BY <2>1, <2>2
<1>3. ASSUME NEW k \in Reports!Months
      PROVE  /\ Reports!MonthDays(y, k) \in Nat
             /\ InMonth(k) <=> /\ Reports!MonthDays(y, k) < n - First(y)
                               /\ n - First(y) <= Reports!MonthDays(y, k) + Reports!Length(y, k)
  <2>1. k \in 1..13 /\ k + 1 \in 1..13 /\ Reports!Length(y, k) \in Nat
    BY DEF Reports!Months, Reports!Length
  <2>2. Reports!DayNumber(y, k, 1) = First(y) + Reports!MonthDays(y, k) + 1
    BY <1>1, <2>1, DayNumbers
  <2>3. Reports!DayNumber(y, k + 1, 1) = First(y) + Reports!MonthDays(y, k + 1) + 1
    BY <1>1, <2>1, DayNumbers
  <2>4. Reports!MonthDays(y, k + 1) = Reports!MonthDays(y, k) + Reports!Length(y, k)
          /\ Reports!MonthDays(y, k) \in Nat
    BY <1>1, <2>1, MonthLonger, MonthsOrdered
  <2> QED
    BY <1>1, <2>1, <2>2, <2>3, <2>4
<1>4. m \in Reports!Months /\ InMonth(m)
  <2>1. \E k \in {1, 2, 3, 4, 5, 6, 7, 8, 9, 10, 11, 12} :
          Reports!MonthDays(y, k) < n - First(y) /\ n - First(y) <= Reports!MonthDays(y, k + 1)
    <3>1. n - First(y) \in Int /\ 0 < n - First(y) /\ n - First(y) <= Reports!MonthDays(y, 13)
      <4>1. y \in Nat \ {0} /\ 0 \in Int /\ First(y) \in Int
        BY <1>1
      <4>2. First(y + 1) = First(y) + Reports!MonthDays(y, 13) /\ Reports!MonthDays(y, 13) \in Nat
        BY <4>1, DayNumbers, MonthsOrdered
      <4> QED
        BY <4>1, <4>2
    <3>2. \A k \in 1..13 : Reports!MonthDays(y, k) \in Nat
      BY <1>1, MonthsOrdered
    <3>3. Reports!MonthDays(y, 1) = 0
      BY <1>1, MonthLonger
    <3> QED
      BY <3>1, <3>2, <3>3
  <2>2. \E k \in Reports!Months : InMonth(k)
    <3>1. \A k \in Reports!Months : Reports!MonthDays(y, k + 1)
            = Reports!MonthDays(y, k) + Reports!Length(y, k)
      BY <1>1, MonthLonger
    <3> HIDE DEF InMonth
    <3> QED
      BY <1>3, <2>1, <3>1 DEF Reports!Months
  <2> HIDE DEF InMonth
  <2> QED
    BY <2>2
<1>5. Reports!ToIso(n) = <<y, m, n - Reports!DayNumber(y, m, 1) + 1>>
  BY <1>2 DEF Reports!ToIso
<1> HIDE DEF m, year, InYear, InMonth
<1> DEFINE d == n - Reports!DayNumber(y, m, 1) + 1
<1>6. Reports!DayNumber(y, m, 1) = First(y) + Reports!MonthDays(y, m) + 1
        /\ Reports!Length(y, m) \in Nat /\ Reports!Length(y, m) <= 31
  <2>1. m \in 1..13
    BY <1>4 DEF Reports!Months
  <2> QED
    BY <1>1, <2>1, DayNumbers DEF Reports!Length
<1>7. d \in Int /\ d = n - First(y) - Reports!MonthDays(y, m) /\ 1 <= d /\ d <= Reports!Length(y, m)
  BY <1>1, <1>3, <1>4, <1>6
<1>8. Reports!ToIso(n) \in Reports!Dates
  BY <1>4, <1>5, <1>6, <1>7 DEF Reports!Dates
<1>9. Num(Reports!ToIso(n)) = First(y) + Reports!MonthDays(y, m) + d
  <2>1. m \in 1..13
    BY <1>4 DEF Reports!Months
  <2> HIDE DEF d
  <2> QED
    BY <1>1, <1>5, <1>7, <2>1, DayNumbers DEF Num, d
<1> QED
  BY <1>1, <1>3, <1>4, <1>7, <1>8, <1>9

\* A set of numbers has a least one.
LEMMA IsoOfNum == ASSUME Years \subseteq Nat \ {0}, NEW p \in Reports!Dates
PROVE  Reports!ToIso(Num(p)) = p
<1>1. Reports!ToIso(Num(p)) \in Reports!Dates /\ Num(Reports!ToIso(Num(p))) = Num(p)
  BY NumOf, IsoOf
<1> QED
  BY <1>1, NumOrder

\* The day before, by the calendar, is the one with the number before.
LEMMA DayBeforeIs ==
  ASSUME Years \subseteq Nat \ {0}, NEW p \in Reports!Dates, NEW q \in Reports!Dates, Num(q)
    = Num(p) - 1
  PROVE  Reports!DayBefore(p) = q
<1> DEFINE y == p[1]
           m == p[2]
           d == p[3]
<1>1. /\ y \in Years /\ y \in Nat \ {0} /\ m \in Reports!Months /\ m \in 1..13 /\ d \in 1..31
      /\ d <= Reports!Length(y, m) /\ p = <<y, m, d>> /\ First(y) \in Int
      /\ Reports!MonthDays(y, m) \in Nat
      /\ Num(p) \in Int /\ Num(p) = First(y) + Reports!MonthDays(y, m) + d
  BY NumOf, DateOf
<1> HIDE DEF y, m, d
<1>2. ASSUME NEW r \in Reports!Dates, Num(r) = Num(p) - 1 PROVE r = q
  BY <1>2, NumOrder
<1>3. CASE d > 1
  <2> DEFINE r == <<y, m, d - 1>>
  <2>1. Reports!Length(y, m) \in Nat
    BY <1>1 DEF Reports!Length, Reports!Months
  <2>2. d - 1 \in 1..31 /\ d - 1 <= Reports!Length(y, m)
    BY <1>1, <1>3, <2>1
  <2>3. r \in Reports!Dates
    BY <1>1, <2>2 DEF Reports!Dates
  <2>4. Num(r) = First(y) + Reports!MonthDays(y, m) + (d - 1)
    BY <1>1, <1>3, DayNumbers DEF Num
  <2>5. Reports!DayBefore(p) = r
    BY <1>3 DEF Reports!DayBefore, y, m, d
  <2> QED
    BY <1>1, <1>2, <2>3, <2>4, <2>5
<1>4. CASE d = 1 /\ m > 1
  <2> DEFINE l == Reports!Length(y, m - 1)
             r == <<y, m - 1, l>>
  <2>1. m - 1 \in Reports!Months /\ m - 1 \in 1..13 /\ l \in 1..31 /\ (m - 1) + 1 = m
    BY <1>1, <1>4 DEF Reports!Length, Reports!Months
  <2> HIDE DEF l
  <2>2. r \in Reports!Dates
    BY <1>1, <2>1 DEF Reports!Dates, l
  <2>3. Num(r) = First(y) + Reports!MonthDays(y, m - 1) + l
    BY <1>1, <2>1, DayNumbers DEF Num
  <2>4. Reports!MonthDays(y, m) = Reports!MonthDays(y, m - 1) + l
    BY <1>1, <2>1, MonthLonger DEF l
  <2>5. Reports!DayBefore(p) = r
    BY <1>4 DEF Reports!DayBefore, y, m, d, l
  <2>6. Reports!MonthDays(y, m - 1) \in Nat
    BY <1>1, <2>1, MonthsOrdered
  <2> QED
    BY <1>1, <1>2, <1>4, <2>1, <2>2, <2>3, <2>4, <2>5, <2>6
<1>5. CASE d = 1 /\ ~(m > 1)
  <2>1. m = 1 /\ Num(p) = First(y) + 1
    <3>1. m = 1
      BY <1>1, <1>5 DEF Reports!Months
    <3>2. Reports!MonthDays(y, 1) = 0
      BY <1>1, MonthLonger
    <3> QED
      BY <1>1, <1>5, <3>1, <3>2
  <2> DEFINE z == q[1]
  <2>2. /\ z \in Years /\ z \in Nat \ {0} /\ First(z) < First(y) /\ First(y) <= First(z + 1)
        /\ First(z) \in Int
    BY <1>1, <2>1, NumOf
  <2> HIDE DEF z
  <2>3. First(z + 1) \in Int
    BY <2>2, YearLonger
  <2>4. z < y
    BY <1>1, <2>2, YearsOrdered, YearLonger, YearsGrow
  <2>5. z + 1 = y
    <3>1. ASSUME z + 1 < y PROVE FALSE
      <4> DEFINE x == z + 1
      <4>0. x \in Nat \ {0} /\ x < y
        BY <2>2, <3>1
      <4> HIDE DEF x
      <4>1. First(x + 1) <= First(y) /\ First(x) < First(x + 1)
        BY <1>1, <4>0, YearsOrdered, YearLonger
      <4>2. First(x + 1) \in Int /\ First(x) \in Int
        BY <4>0, YearLonger
      <4> QED
        BY <1>1, <2>2, <4>1, <4>2 DEF x
    <3> QED
      BY <1>1, <2>2, <2>4, <3>1
  <2> DEFINE r == <<z, 12, 31>>
  <2>6. r \in Reports!Dates
    BY <2>2 DEF Reports!Dates, Reports!Months, Reports!Length
  <2>7. Num(r) = First(z) + Reports!MonthDays(z, 12) + 31
    BY <2>2, DayNumbers DEF Num
  <2>8. First(y) = First(z) + Reports!MonthDays(z, 13)
    BY <2>2, <2>5, DayNumbers
  <2>9. Reports!MonthDays(z, 13) = Reports!MonthDays(z, 12) + 31 /\ Reports!MonthDays(z, 12) \in Nat
    <3>1. Reports!Length(z, 12) = 31 /\ 12 \in Reports!Months /\ 12 \in 1..13 /\ 12 + 1 = 13
      BY DEF Reports!Length, Reports!Months
    <3> QED
      BY <2>2, <3>1, MonthLonger, MonthsOrdered
  <2>10. Num(r) = Num(p) - 1
    BY <1>1, <2>1, <2>2, <2>7, <2>8, <2>9
  <2>11. Reports!DayBefore(p) = r
    <3>1. y - 1 = z
      BY <1>1, <2>2, <2>5
    <3>2. Reports!DayBefore(p) = <<y - 1, 12, 31>>
      BY <1>5 DEF Reports!DayBefore, y, m, d
    <3> QED
      BY <3>1, <3>2
  <2> QED
    BY <1>2, <2>6, <2>10, <2>11
<1>6. d \in Int /\ m \in Int
  BY <1>1
<1> QED
  BY <1>1, <1>3, <1>4, <1>5

\* The days that may be asked for from a day of year y on.
LEMMA BackOf ==
  ASSUME Years \subseteq Nat \ {0}, NEW p \in Reports!Dates, p[1] - 1 \in Years,
         NEW n \in Int, Num(p) - 366 < n, n <= Num(p)
  PROVE  Reports!ToIso(n) \in Reports!Dates /\ Num(Reports!ToIso(n)) = n
<1> DEFINE y == p[1]
<1>1. /\ y \in Nat \ {0} /\ y \in Years /\ First(y) \in Int /\ First(y) < Num(p)
      /\ Num(p) <= First(y + 1) /\ Num(p) \in Int
  BY NumOf
<1>2. y - 1 \in Years /\ y - 1 \in Nat \ {0} /\ (y - 1) + 1 = y
  BY <1>1
<1> HIDE DEF y
<1>3. First(y - 1) \in Int /\ First(y) >= First(y - 1) + 365
  BY <1>2, YearLonger
<1>4. First(y + 1) \in Int
  BY <1>1, YearLonger
<1>5. CASE n <= First(y)
  <2>1. First(y - 1) < n
    BY <1>1, <1>3
  <2> QED
    BY <1>2, <1>5, <2>1, IsoOf
<1>6. CASE First(y) < n
  <2>1. n <= First(y + 1)
    BY <1>1, <1>4
  <2> QED
    BY <1>1, <1>6, <2>1, IsoOf
<1> QED
  BY <1>1, <1>5, <1>6

\* The days between two numbers.
Between(n, k) == {day \in Reports!Dates : n <= Num(day) /\ Num(day) <= k}

LEMMA LastDaysAre ==
  ASSUME Years \subseteq Nat \ {0}, today \in Reports!Dates, today[1] - 1 \in Years, NEW k \in 1..31
  PROVE  Reports!LastDays(k) = Between(Num(today) - (k - 1), Num(today))
<1> DEFINE n == Num(today)
           g == [i \in 0..k |-> Reports!ToIso(n - i)]
           Is(f) == f = [i \in 0..k |-> IF i = 0 THEN today ELSE Reports!DayBefore(f[i - 1])]
           back == CHOOSE f : Is(f)
           T == {i \in 0..k : back[i] # g[i]}
<1>1. n \in Int
  BY NumOf
<1>2. ASSUME NEW i \in 0..k
      PROVE  g[i] = Reports!ToIso(n - i) /\ g[i] \in Reports!Dates /\ Num(g[i]) = n - i
  <2>1. g[i] = Reports!ToIso(n - i)
    OBVIOUS
  <2>2. i \in Int /\ n - i \in Int /\ n - 366 < n - i /\ n - i <= n
    BY <1>1
  <2> HIDE DEF g
  <2> QED
    BY <2>1, <2>2, BackOf
<1>3. g[0] = today
  <2>1. Reports!ToIso(n) = today
    BY IsoOfNum
  <2>2. g[0] = Reports!ToIso(n - 0) /\ n - 0 = n
    BY <1>1
  <2> HIDE DEF g, n
  <2> QED
    BY <2>1, <2>2
<1>4. ASSUME NEW i \in 1..k PROVE g[i] = Reports!DayBefore(g[i - 1])
  <2>1. i \in 0..k /\ i - 1 \in 0..k
    OBVIOUS
  <2> HIDE DEF g, n
  <2>2. Num(g[i]) = Num(g[i - 1]) - 1
    BY <1>1, <1>2, <2>1
  <2> QED
    BY <1>2, <2>1, <2>2, DayBeforeIs
<1>5. Is(g)
  <2>1. \A i \in 0..k : g[i] = IF i = 0 THEN today ELSE Reports!DayBefore(g[i - 1])
    <3> HIDE DEF g
    <3> QED
      BY <1>3, <1>4
  <2>2. g = [i \in 0..k |-> g[i]]
    OBVIOUS
  <2> HIDE DEF g
  <2> QED
    BY <2>1, <2>2
<1>6. Is(back)
  <2> HIDE DEF Is, g
  <2> QED
    BY <1>5
<1>7. back[0] = today /\ \A i \in 1..k : back[i] = Reports!DayBefore(back[i - 1])
  <2> HIDE DEF back
  <2>1. \A i \in 0..k : back[i] = IF i = 0 THEN today ELSE Reports!DayBefore(back[i - 1])
    BY <1>6
  <2> QED
    BY <2>1
<1>8. ASSUME T # {} PROVE FALSE
  <2>1. PICK i \in T : \A j \in T : i <= j
    <3>1. T \in SUBSET Nat
      OBVIOUS
    <3> HIDE DEF T
    <3> QED
      BY <1>8, <3>1, LeastOf
  <2>2. i \in 0..k /\ back[i] # g[i]
    OBVIOUS
  <2>3. i \in 1..k /\ i - 1 \in 0..k /\ ~(i <= i - 1)
    <3> HIDE DEF g, back
    <3> QED
      BY <1>3, <1>7, <2>2
  <2>4. back[i - 1] = g[i - 1]
    <3> HIDE DEF g, back
    <3> QED
      BY <2>1, <2>3
  <2> HIDE DEF g, back
  <2> QED
    BY <1>4, <1>7, <2>2, <2>3, <2>4
<1>9. \A i \in 0..k : back[i] = g[i]
  BY <1>8
<1>10. Reports!LastDays(k) = {back[i] : i \in 0..(k - 1)}
  BY DEF Reports!LastDays
<1> HIDE DEF g, back, n
<1>11. ASSUME NEW i \in 0..(k - 1) PROVE back[i] \in Between(n - (k - 1), n)
  <2>1. i \in 0..k
    OBVIOUS
  <2> QED
    BY <1>1, <1>2, <1>9, <2>1 DEF Between
<1>12. ASSUME NEW day \in Between(n - (k - 1), n) PROVE \E i \in 0..(k - 1) : back[i] = day
  <2>1. day \in Reports!Dates /\ n - (k - 1) <= Num(day) /\ Num(day) <= n /\ Num(day) \in Int
    BY NumOf DEF Between
  <2> DEFINE i == n - Num(day)
  <2>2. i \in 0..(k - 1) /\ i \in 0..k /\ n - i = Num(day)
    BY <1>1, <2>1
  <2> HIDE DEF i
  <2>3. back[i] = day
    BY <1>2, <1>9, <2>1, <2>2, NumOrder
  <2> QED
    BY <2>2, <2>3
<1> QED
  BY <1>10, <1>11, <1>12 DEF n

\* The period of a report is the days it means.
LEMMA PeriodMeant ==
  ASSUME Reports!LogisticsReportsAssumption, today \in Todays, NEW args \in Asked
  PROVE  LET p == Reports!ResolvePeriod(args) IN
         /\ p.from \in Reports!Dates /\ p.to \in Reports!Dates
         /\ {day \in Reports!Dates :
               Reports!EarlierOrSame(p.from, day) /\ Reports!EarlierOrSame(day, p.to)} = Reports!Meant(args)
<1> DEFINE p == Reports!ResolvePeriod(args)
           Days(a, b) == {day \in Reports!Dates :
                            Reports!EarlierOrSame(a, day) /\ Reports!EarlierOrSame(day, b)}
           y == today[1]
           m == today[2]
           n == Num(today)
<1>1. /\ Years \subseteq Nat \ {0} /\ today \in Reports!Dates /\ y - 1 \in Years
           /\ None \notin Reports!Dates
      /\ args.period \in Reports!Keywords \cup {"unknown"}
      /\ args.from \in Reports!Dates \cup {None} /\ args.to \in Reports!Dates \cup {None}
  BY DEF Reports!LogisticsReportsAssumption
<1>2. /\ y \in Years /\ y \in Nat \ {0} /\ m \in Reports!Months /\ m \in 1..13 /\ today[3] \in 1..31
      /\ today[3] <= Reports!Length(y, m) /\ today = <<y, m, today[3]>> /\ n \in Int
      /\ First(y) \in Int /\ n = First(y) + Reports!MonthDays(y, m) + today[3]
      /\ Reports!MonthDays(y, m) \in Nat /\ Reports!Length(y, m) \in 28..31
  <2>1. Reports!Length(y, m) \in 28..31
    BY DEF Reports!Length
  <2> QED
    BY <1>1, <2>1, NumOf, DateOf
<1>3. ASSUME NEW a \in Reports!Dates, NEW b \in Reports!Dates
      PROVE  Days(a, b) = Between(Num(a), Num(b))
  BY <1>1, NumOrder DEF Between
<1>4. ASSUME NEW a \in Reports!Dates PROVE Days(a, a) = {a}
  <2>1. \A day \in Reports!Dates : Reports!EarlierOrSame(a, day)
          /\ Reports!EarlierOrSame(day, a) <=> day = a
    <3> TAKE day \in Reports!Dates
    <3>1. Num(a) \in Int /\ Num(day) \in Int
      BY <1>1, NumOf
    <3> QED
      BY <1>1, <3>1, NumOrder
  <2> QED
    BY <2>1
<1>5. Reports!ToIso(n) = today
  BY <1>1, IsoOfNum
<1>6. Reports!DayNumber(today[1], today[2], today[3]) = n
  BY DEF Num
<1>7. ASSUME NEW k \in 1..31, p.from = Reports!ToIso(n - (k - 1)), p.to = Reports!ToIso(n)
      PROVE  p.from \in Reports!Dates /\ p.to \in Reports!Dates
        /\ Days(p.from, p.to) = Reports!LastDays(k)
  <2> DEFINE j == n - (k - 1)
  <2>1. j \in Int /\ n - 366 < j /\ j <= n
    BY <1>2
  <2> HIDE DEF j, n
  <2>2. Reports!ToIso(j) \in Reports!Dates /\ Num(Reports!ToIso(j)) = j
    BY <1>1, <2>1, BackOf DEF n
  <2>3. p.from \in Reports!Dates /\ p.to \in Reports!Dates /\ Num(p.from) = j /\ Num(p.to) = n
    BY <1>1, <1>5, <1>7, <2>2 DEF j, n
  <2> HIDE DEF p, Days
  <2>4. Days(p.from, p.to) = Between(j, n)
    BY <1>3, <2>3
  <2>5. Reports!LastDays(k) = Between(j, n)
    BY <1>1, LastDaysAre DEF j, n
  <2> QED
    BY <2>3, <2>4, <2>5
\* Dates that were given.
<1>10. CASE args.from # None \/ args.to # None
  <2>1. /\ p.from = IF args.from # None THEN args.from ELSE args.to
        /\ p.to = IF args.to # None THEN args.to ELSE args.from
    BY <1>10 DEF Reports!ResolvePeriod
  <2>2. p.from \in Reports!Dates /\ p.to \in Reports!Dates
    BY <1>1, <1>10, <2>1
  <2>3. CASE args.from # None /\ args.to # None
    <3>1. Reports!Meant(args) = Days(args.from, args.to)
      BY <2>3 DEF Reports!Meant
    <3> QED
      BY <2>1, <2>2, <2>3, <3>1
  <2>4. CASE args.from # None /\ args.to = None
    <3>1. Reports!Meant(args) = {args.from}
      BY <2>4 DEF Reports!Meant
    <3> HIDE DEF p, Days
    <3>2. Days(p.from, p.to) = {args.from}
      BY <1>1, <1>4, <2>1, <2>4
    <3> QED
      BY <2>2, <3>1, <3>2 DEF p, Days
  <2>5. CASE args.from = None /\ args.to # None
    <3>1. Reports!Meant(args) = {args.to}
      BY <2>5 DEF Reports!Meant
    <3> HIDE DEF p, Days
    <3>2. Days(p.from, p.to) = {args.to}
      BY <1>1, <1>4, <2>1, <2>5
    <3> QED
      BY <2>2, <3>1, <3>2 DEF p, Days
  <2> QED
    BY <1>10, <2>3, <2>4, <2>5
<1>11. CASE args.from = None /\ args.to = None
  <2> DEFINE UpTo(s) == {day \in s : Reports!EarlierOrSame(day, today)}
  <2>1. CASE args.period = "yesterday"
    <3>1. p.from = Reports!ToIso(n - 1) /\ p.to = Reports!ToIso(n - 1)
            /\ Reports!Meant(args) = {Reports!DayBefore(today)}
      BY <1>6, <1>11, <2>1 DEF Reports!ResolvePeriod, Reports!Meant
    <3> DEFINE j == n - 1
    <3>2. j \in Int /\ n - 366 < j /\ j <= n
      BY <1>2
    <3> HIDE DEF j, n
    <3>3. Reports!ToIso(j) \in Reports!Dates /\ Num(Reports!ToIso(j)) = j
      BY <1>1, <3>2, BackOf DEF n
    <3>4. Reports!DayBefore(today) = Reports!ToIso(j)
      BY <1>1, <3>3, DayBeforeIs DEF n, j
    <3>5. p.from = Reports!ToIso(j) /\ p.to = Reports!ToIso(j)
      BY <3>1 DEF j
    <3> HIDE DEF p, Days
    <3>6. Days(p.from, p.to) = {Reports!ToIso(j)}
      BY <1>4, <3>3, <3>5
    <3> QED
      BY <3>1, <3>3, <3>4, <3>5, <3>6 DEF p, Days
  <2>2. CASE args.period = "last_7_days"
    <3>1. p.from = Reports!ToIso(n - 6) /\ p.to = Reports!ToIso(n)
            /\ Reports!Meant(args) = Reports!LastDays(7)
      BY <1>6, <1>11, <2>2 DEF Reports!ResolvePeriod, Reports!Meant
    <3>2. 7 - 1 = 6 /\ 7 \in 1..31
      OBVIOUS
    <3> HIDE DEF p, n, Days
    <3>3. p.from \in Reports!Dates /\ p.to \in Reports!Dates
            /\ Days(p.from, p.to) = Reports!LastDays(7)
      BY <1>7, <3>1, <3>2
    <3> QED
      BY <3>1, <3>3 DEF p, Days
  <2>3. CASE args.period = "last_30_days"
    <3>1. p.from = Reports!ToIso(n - 29) /\ p.to = Reports!ToIso(n)
            /\ Reports!Meant(args) = Reports!LastDays(30)
      BY <1>6, <1>11, <2>3 DEF Reports!ResolvePeriod, Reports!Meant
    <3>2. 30 - 1 = 29 /\ 30 \in 1..31
      OBVIOUS
    <3> HIDE DEF p, n, Days
    <3>3. p.from \in Reports!Dates /\ p.to \in Reports!Dates
            /\ Days(p.from, p.to) = Reports!LastDays(30)
      BY <1>7, <3>1, <3>2
    <3> QED
      BY <3>1, <3>3 DEF p, Days
  <2>4. CASE args.period = "this_month"
    <3> DEFINE first == <<y, m, 1>>
    <3>1. /\ p.from = Reports!ToIso(Reports!DayNumber(y, m, 1)) /\ p.to = Reports!ToIso(n)
          /\ Reports!Meant(args) = UpTo({<<y, m, d>> : d \in 1..Reports!Length(y, m)})
      BY <1>6, <1>11, <2>4 DEF Reports!ResolvePeriod, Reports!Meant
    <3>2. first \in Reports!Dates /\ Num(first) = Reports!DayNumber(y, m, 1)
      BY <1>2 DEF Reports!Dates, Num
    <3>3. p.from = first /\ p.to = today
      <4> HIDE DEF first, p, n
      <4> QED
        BY <1>1, <1>5, <3>1, <3>2, IsoOfNum
    <3>4. Days(first, today) = UpTo({<<y, m, d>> : d \in 1..Reports!Length(y, m)})
      <4>1. ASSUME NEW day \in Days(first, today)
            PROVE  day \in UpTo({<<y, m, d>> : d \in 1..Reports!Length(y, m)})
        <5>1. /\ day = <<day[1], day[2], day[3]>> /\ day[1] \in Years /\ day[2] \in Reports!Months
              /\ day[3] \in 1..31 /\ day[3] <= Reports!Length(day[1], day[2])
          BY DateOf
        <5>2. day[1] \in Nat /\ day[2] \in Nat /\ day[3] \in Nat /\ m \in Nat
          BY <1>1, <1>2, <5>1 DEF Reports!Months
        <5>3. day[1] = y /\ day[2] = m
          BY <1>2, <5>2 DEF Reports!EarlierOrSame
        <5>4. day[3] \in 1..Reports!Length(y, m)
          BY <1>2, <5>1, <5>3
        <5> QED
          BY <5>1, <5>3, <5>4
      <4>2. ASSUME NEW d \in 1..Reports!Length(y, m)
            PROVE  <<y, m, d>> \in Reports!Dates /\ Reports!EarlierOrSame(first, <<y, m, d>>)
        BY <1>2 DEF Reports!Dates, Reports!EarlierOrSame
      <4> HIDE DEF first
      <4> QED
        BY <4>1, <4>2
    <3> QED
      BY <1>1, <3>1, <3>2, <3>3, <3>4
  <2>5. CASE args.period = "last_month"
    <3> DEFINE first == <<y, m, 1>>
               last == Reports!DayBefore(first)
               begin == <<last[1], last[2], 1>>
    <3>1. /\ p.from = Reports!ToIso(Reports!DayNumber(y, m - 1, 1))
               /\ p.to = Reports!ToIso(Reports!DayNumber(y, m, 0))
          /\ Reports!Meant(args) = {<<last[1], last[2], d>> : d \in 1..last[3]}
      BY <1>6, <1>11, <2>5 DEF Reports!ResolvePeriod, Reports!Meant
    <3>2. first \in Reports!Dates /\ Num(first) = First(y) + Reports!MonthDays(y, m) + 1
      <4>1. first \in Reports!Dates
        BY <1>2 DEF Reports!Dates
      <4>2. Reports!DayNumber(y, m, 1) = First(y) + Reports!MonthDays(y, m) + 1
        <5>1. ASSUME NEW d \in Int
              PROVE  Reports!DayNumber(y, m, d) = First(y) + Reports!MonthDays(y, m) + d
          <6>1. y \in Nat \ {0} /\ m \in 1..13
            BY <1>2
          <6> HIDE DEF y, m
          <6> QED
            BY <6>1, DayNumbers
        <5>2. 1 \in Int
          OBVIOUS
        <5> QED
          BY <5>1, <5>2
      <4> QED
        BY <4>1, <4>2 DEF Num
    <3> DEFINE j == Num(first) - 1
    <3>3. Reports!DayNumber(y, m, 0) = j /\ j \in Int /\ Num(first) - 366 < j /\ j <= Num(first)
      <4>1. Reports!DayNumber(y, m, 0) = First(y) + Reports!MonthDays(y, m) + 0
        <5>1. ASSUME NEW d \in Int
              PROVE  Reports!DayNumber(y, m, d) = First(y) + Reports!MonthDays(y, m) + d
          <6>1. y \in Nat \ {0} /\ m \in 1..13
            BY <1>2
          <6> HIDE DEF y, m
          <6> QED
            BY <6>1, DayNumbers
        <5>2. 0 \in Int
          OBVIOUS
        <5> QED
          BY <5>1, <5>2
      <4> HIDE DEF first
      <4> QED
        BY <1>2, <3>2, <4>1
    <3>4. first[1] - 1 \in Years
      BY <1>1
    <3>5. Reports!ToIso(j) \in Reports!Dates /\ Num(Reports!ToIso(j)) = j
      <4> HIDE DEF j, first
      <4> QED
        BY <1>1, <3>2, <3>3, <3>4, BackOf
    <3>6. last = Reports!ToIso(j)
      <4> HIDE DEF first
      <4> QED
        BY <1>1, <3>2, <3>5, DayBeforeIs
    <3>7. p.to = last /\ last \in Reports!Dates
      <4> HIDE DEF j, last, p
      <4> QED
        BY <3>1, <3>3, <3>5, <3>6
    <3>8. begin \in Reports!Dates /\ Num(begin) = Reports!DayNumber(last[1], last[2], 1)
      <4>1. last[1] \in Years /\ last[2] \in Reports!Months
        BY <3>7, DateOf
      <4>2. Reports!Length(last[1], last[2]) \in 28..31
        BY DEF Reports!Length
      <4> HIDE DEF last
      <4> QED
        BY <4>1, <4>2 DEF Reports!Dates, Num
    <3>9. Reports!DayNumber(y, m - 1, 1) = Reports!DayNumber(last[1], last[2], 1)
      <4>1. CASE m > 1
        <5>1. last[1] = y /\ last[2] = m - 1
          BY <4>1 DEF Reports!DayBefore
        <5> HIDE DEF last
        <5> QED
          BY <5>1
      <4>2. CASE m = 1
        <5>1. last[1] = y - 1 /\ last[2] = 12
          BY <4>2 DEF Reports!DayBefore
        <5>2. m - 1 = 0 /\ y - 1 \in Nat \ {0} /\ 1 \in Int /\ 12 \in 1..13
          <6>1. y - 1 \in Nat \ {0}
            BY <1>1
          <6>2. m - 1 = 0
            BY <4>2
          <6> QED
            BY <6>1, <6>2
        <5>3. Reports!DayNumber(y, 0, 1) = First(y - 1) + Reports!MonthDays(y - 1, 12) + 1
          BY <1>2, <5>2, DayNumbers
        <5>4. Reports!DayNumber(y - 1, 12, 1) = First(y - 1) + Reports!MonthDays(y - 1, 12) + 1
          BY <5>2, DayNumbers
        <5> HIDE DEF last
        <5> QED
          BY <5>1, <5>2, <5>3, <5>4
      <4> QED
        BY <1>2, <4>1, <4>2
    <3>10. p.from = begin
      <4> HIDE DEF begin, last, p, m, y
      <4> QED
        BY <1>1, <3>1, <3>8, <3>9, IsoOfNum
    <3> HIDE DEF last
    <3>11. Days(begin, last) = {<<last[1], last[2], d>> : d \in 1..last[3]}
      <4>1. /\ last[1] \in Years /\ last[2] \in Reports!Months /\ last[3] \in 1..31
            /\ last[3] <= Reports!Length(last[1], last[2]) /\ last[1] \in Nat
            /\ last = <<last[1], last[2], last[3]>>
        BY <1>1, <3>7, DateOf
      <4>2. ASSUME NEW day \in Days(begin, last)
            PROVE  day \in {<<last[1], last[2], d>> : d \in 1..last[3]}
        <5>1. /\ day = <<day[1], day[2], day[3]>> /\ day[1] \in Years /\ day[2] \in Reports!Months
              /\ day[3] \in 1..31
          BY DateOf
        <5>2. /\ day[1] \in Nat /\ day[2] \in Nat /\ day[3] \in Nat
              /\ last[2] \in Nat /\ last[3] \in Nat
          BY <1>1, <4>1, <5>1 DEF Reports!Months
        <5>3. day[1] = last[1] /\ day[2] = last[2] /\ day[3] <= last[3]
          BY <4>1, <5>2 DEF Reports!EarlierOrSame
        <5>4. day[3] \in 1..last[3]
          BY <5>1, <5>2, <5>3
        <5> QED
          BY <5>1, <5>3, <5>4
      <4>3. ASSUME NEW d \in 1..last[3]
            PROVE  <<last[1], last[2], d>> \in Days(begin, last)
        <5>1. d \in 1..31 /\ d <= Reports!Length(last[1], last[2]) /\ 1 <= d /\ d <= last[3]
          <6>1. Reports!Length(last[1], last[2]) \in Nat
            BY DEF Reports!Length
          <6> QED
            BY <4>1, <6>1
        <5>2. <<last[1], last[2], d>> \in Reports!Dates
          BY <4>1, <5>1 DEF Reports!Dates
        <5> QED
          BY <4>1, <5>1, <5>2 DEF Reports!EarlierOrSame
      <4> QED
        BY <4>2, <4>3
    <3> HIDE DEF p, begin, Days
    <3>12. /\ p.from \in Reports!Dates /\ p.to \in Reports!Dates
           /\ Days(p.from, p.to) = {<<last[1], last[2], d>> : d \in 1..last[3]}
      BY <3>7, <3>8, <3>10, <3>11
    <3> QED
      BY <3>1, <3>12 DEF p, Days
  <2>6. CASE args.period = "this_year"
    <3> DEFINE first == <<y, 1, 1>>
    <3>1. /\ p.from = Reports!ToIso(Reports!DayNumber(y, 1, 1)) /\ p.to = Reports!ToIso(n)
          /\ Reports!Meant(args) = UpTo({day \in Reports!Dates : day[1] = y})
      BY <1>6, <1>11, <2>6 DEF Reports!ResolvePeriod, Reports!Meant
    <3>2. first \in Reports!Dates /\ Num(first) = Reports!DayNumber(y, 1, 1)
      BY <1>2 DEF Reports!Dates, Num, Reports!Months, Reports!Length
    <3>3. p.from = first /\ p.to = today
      <4> HIDE DEF first, p, n
      <4> QED
        BY <1>1, <1>5, <3>1, <3>2, IsoOfNum
    <3>4. ASSUME NEW day \in Reports!Dates
          PROVE  Reports!EarlierOrSame(first, day) /\ Reports!EarlierOrSame(day, today)
                 <=> day[1] = y /\ Reports!EarlierOrSame(day, today)
      <4>1. /\ day[1] \in Nat /\ day[2] \in Nat /\ day[3] \in Nat /\ 1 <= day[2] /\ 1 <= day[3]
        BY <1>1, DateOf DEF Reports!Months
      <4> QED
        BY <1>2, <4>1 DEF Reports!EarlierOrSame
    <3>5. Days(first, today) = UpTo({day \in Reports!Dates : day[1] = y})
      <4> HIDE DEF first
      <4> QED
        BY <3>4
    <3> QED
      BY <1>1, <3>1, <3>2, <3>3, <3>5
  <2>7. CASE args.period \notin {"yesterday", "last_7_days", "last_30_days", "this_month",
                                 "last_month", "this_year"}
    <3>1. p.from = Reports!ToIso(n) /\ p.to = Reports!ToIso(n) /\ Reports!Meant(args) = {today}
      BY <1>6, <1>11, <2>7 DEF Reports!ResolvePeriod, Reports!Meant
    <3>2. p.from = today /\ p.to = today
      BY <1>5, <3>1
    <3> HIDE DEF p, Days
    <3>3. Days(p.from, p.to) = {today}
      BY <1>1, <1>4, <3>2
    <3> QED
      BY <1>1, <3>1, <3>2, <3>3 DEF p, Days
  <2> QED
    BY <2>1, <2>2, <2>3, <2>4, <2>5, <2>6, <2>7
<1> QED
  BY <1>10, <1>11

\* A report that was answered has the days its period means.
AnsweredTrue ==
  /\ call.args \in Asked /\ call.from \in Reports!Dates /\ call.to \in Reports!Dates
  /\ {day \in Reports!Dates :
        Reports!EarlierOrSame(call.from, day) /\ Reports!EarlierOrSame(day, call.to)}
       = Reports!Meant(call.args)

PeriodInv ==
  /\ today \in Todays /\ DOMAIN call = {"tool", "args", "step", "from", "to"}
  /\ call.step = "called" /\ call.tool \in Reports!ByPeriod => call.args \in Asked
  /\ call.step = "answered" /\ call.tool \in Reports!ByPeriod => AnsweredTrue

LEMMA PeriodInit == ASSUME Reports!Init PROVE PeriodInv
BY DEF Reports!Init, Reports!NoCall, PeriodInv

LEMMA PeriodNext ==
  ASSUME Reports!LogisticsReportsAssumption, PeriodInv, Reports!Next \/ UNCHANGED reportVars
  PROVE  PeriodInv'
<1>1. today' = today /\ today \in Todays
  BY DEF Reports!Next, reportVars, Reports!Call, Reports!Select, Reports!TellLatest,
     Reports!ReadBilled, Reports!ReadPaid, Reports!Merge, Reports!Enter, Reports!Fails, PeriodInv
<1>2. ASSUME UNCHANGED call PROVE PeriodInv'
  <2>1. \A args : Reports!Meant(args)' = Reports!Meant(args)
    BY <1>1 DEF Reports!Meant, Reports!LastDays
  <2> QED
    BY <1>1, <1>2, <2>1 DEF PeriodInv, AnsweredTrue
<1>3. ASSUME NEW tool \in Reports!Tools, Reports!Call(tool) PROVE PeriodInv'
  <2>1. PICK args \in IF tool \in Reports!ByPeriod THEN Asked ELSE {None} :
          call' = [call EXCEPT !.tool = tool, !.args = args,
                               !.step = IF tool \in Reports!GetTools THEN "called" ELSE "refused"]
    BY <1>3 DEF Reports!Call
  <2>2. /\ DOMAIN call' = {"tool", "args", "step", "from", "to"}
        /\ call'.tool = tool /\ call'.args = args /\ call'.step \in {"called", "refused"}
    BY <2>1 DEF PeriodInv
  <2> QED
    BY <1>1, <2>1, <2>2 DEF PeriodInv
<1>4. CASE Reports!Select
  <2>1. PICK p : p = Reports!ResolvePeriod(call.args)
    OBVIOUS
  <2>2. /\ call.step = "called" /\ call.tool \in Reports!ByPeriod /\ call.args \in Asked
        /\ DOMAIN call = {"tool", "args", "step", "from", "to"}
        /\ call' = IF call.tool = "profit" /\ ~oracle THEN [call EXCEPT !.step = "refused"]
                   ELSE [call EXCEPT !.step = "answered", !.from = p.from, !.to = p.to]
    BY <1>4, <2>1 DEF Reports!Select, PeriodInv
  <2>3. /\ p.from \in Reports!Dates /\ p.to \in Reports!Dates
        /\ {day \in Reports!Dates :
              Reports!EarlierOrSame(p.from, day) /\ Reports!EarlierOrSame(day, p.to)} = Reports!Meant(call.args)
    BY <1>1, <2>1, <2>2, PeriodMeant
  <2>4. \A args : Reports!Meant(args)' = Reports!Meant(args)
    BY <1>1 DEF Reports!Meant, Reports!LastDays
  <2>5. CASE call' = [call EXCEPT !.step = "refused"]
    BY <1>1, <2>2, <2>5 DEF PeriodInv
  <2>6. CASE call' = [call EXCEPT !.step = "answered", !.from = p.from, !.to = p.to]
    <3>1. /\ call'.from = p.from /\ call'.to = p.to /\ call'.args = call.args
          /\ call'.step = "answered" /\ DOMAIN call' = {"tool", "args", "step", "from", "to"}
      BY <2>2, <2>6
    <3>2. AnsweredTrue'
      BY <2>2, <2>3, <2>4, <3>1 DEF AnsweredTrue
    <3> QED
      BY <1>1, <3>1, <3>2 DEF PeriodInv
  <2> QED
    BY <2>2, <2>5, <2>6
<1>5. ASSUME call.tool \notin Reports!ByPeriod \/ call'.step = "failed",
             \E s \in {"answered", "failed"} : call' = [call EXCEPT !.step = s]
      PROVE  PeriodInv'
  BY <1>1, <1>5 DEF PeriodInv
<1>6. CASE Reports!TellLatest
  <2>1. call.tool \notin Reports!ByPeriod
    BY <1>6 DEF Reports!TellLatest, Reports!ByPeriod, Reports!LogisticsReportsAssumption
  <2> QED
    BY <1>5, <1>6, <2>1 DEF Reports!TellLatest
<1>7. CASE Reports!Merge
  BY <1>5, <1>7 DEF Reports!Merge, Reports!Debts, Reports!ByPeriod
<1>8. CASE Reports!Fails
  <2>1. call' = [call EXCEPT !.step = "failed"] /\ call'.step = "failed"
    BY <1>8 DEF Reports!Fails, PeriodInv
  <2> QED
    BY <1>5, <2>1
<1>9. ASSUME Reports!ReadBilled \/ Reports!ReadPaid \/ Reports!Enter \/ UNCHANGED reportVars
      PROVE  UNCHANGED call
  BY <1>9 DEF Reports!ReadBilled, Reports!ReadPaid, Reports!Enter, reportVars
<1> QED
  BY <1>2, <1>3, <1>4, <1>6, <1>7, <1>8, <1>9 DEF Reports!Next

LEMMA PeriodSound == ASSUME Reports!LogisticsReportsAssumption, PeriodInv PROVE Reports!PeriodsTrue
<1> SUFFICES ASSUME call.step = "answered", call.tool \in Reports!ByPeriod
             PROVE  /\ Reports!Selected(FALSE) = Reports!Meant(call.args)
                    /\ call.tool # "getOrders" => Reports!Selected(TRUE) = Reports!Meant(call.args)
  BY DEF Reports!PeriodsTrue
<1>1. {day \in Reports!Dates :
         Reports!EarlierOrSame(call.from, day) /\ Reports!EarlierOrSame(day, call.to)}
        = Reports!Meant(call.args)
  BY DEF PeriodInv, AnsweredTrue
<1>2. Reports!Selected(FALSE)
        = {day \in Reports!Dates :
             Reports!EarlierOrSame(call.from, day) /\ Reports!EarlierOrSame(day, call.to)}
  BY DEF Reports!Selected, Reports!Where
<1>3. call.tool # "getOrders" =>
        Reports!Selected(TRUE)
          = {day \in Reports!Dates :
               Reports!EarlierOrSame(call.from, day) /\ Reports!EarlierOrSame(day, call.to)}
  BY DEF Reports!Selected, Reports!Where
<1> QED
  BY <1>1, <1>2, <1>3

(***************************************************************************)
(* What the invariants leave open of the types: questions of the bot, the  *)
(* reports, the log of activities, conversations and the documentation.    *)
(***************************************************************************)
AskType ==
  [pc : {"new", "roles", "voice", "choose", "columns", "pgColumns", "generate", "validate", "run",
         "running", "format", "answered"},
   voice : BOOLEAN, text : BOOLEAN, base : {"postgres", "oracle"}, report : BOOLEAN,
   schema : {"static", "chosen"}, statement : Ask!Statements,
   answer : {"none", "denied", "noVoice", "reply", "unclear", "rejected", "dbError",
             "words", "raw"}]

AskTyped ==
  /\ deaths \in 0..MaxDeaths /\ changed \subseteq Jobs
  /\ ranAs \in [Jobs -> SUBSET (Jobs \cup {None})]
  /\ known \subseteq AskTables /\ ask \in [AskQuestions -> AskType]

LEMMA AskTypedInit == ASSUME Ask!AskDatabaseAssumption, Ask!AskInit PROVE AskTyped
<1>1. Ask!NewQuestion \in AskType
  BY DEF Ask!NewQuestion, AskType, Ask!Statements
<1>2. 0 \in 0..MaxDeaths
  BY DEF Ask!AskDatabaseAssumption, Ask!OraclePoolAssumption
<1> QED
  BY <1>1, <1>2 DEF Ask!AskInit, Ask!Init, AskTyped

\* Each step of a question puts it at another place of its type.
LEMMA QuestionTyped ==
  ASSUME AskTyped, NEW q \in AskQuestions, Ask!Ask(q) \/ Ask!Handle(q)
  PROVE  known' = known /\ ask' \in [AskQuestions -> AskType]
<1> DEFINE Typed == known' = known /\ ask' \in [AskQuestions -> AskType]
<1>1. ask \in [AskQuestions -> AskType] /\ ask[q] \in AskType
  BY DEF AskTyped
<1>n. ASSUME NEW n \in AskType, ask' = [ask EXCEPT ![q] = n], known' = known PROVE Typed
  BY <1>1, <1>n
<1>a. ASSUME NEW a \in {"denied", "noVoice", "reply", "unclear", "rejected", "dbError",
                         "words", "raw"}, Ask!Answers(q, a)
      PROVE  Typed
  <2>1. [ask[q] EXCEPT !.pc = "answered", !.answer = a] \in AskType
    BY <1>1 DEF AskType
  <2> QED
    BY <1>a, <1>n, <2>1 DEF Ask!Answers
<1>m. ASSUME NEW pc \in {"voice", "choose", "columns", "pgColumns", "generate", "run",
                          "running", "format"}, Ask!Moves(q, pc)
      PROVE  Typed
  <2>1. [ask[q] EXCEPT !.pc = pc] \in AskType
    BY <1>1 DEF AskType
  <2>2. ask' = [ask EXCEPT ![q] = [ask[q] EXCEPT !.pc = pc]] /\ known' = known
    BY <1>m DEF Ask!Moves
  <2> QED
    BY <1>n, <2>1, <2>2
<1> SUFFICES Typed
  OBVIOUS
<1> HIDE DEF Typed
<1>2. CASE Ask!Ask(q)
  <2>1. PICK db \in {"postgres", "oracle"}, report, voice \in BOOLEAN :
          ask' = [ask EXCEPT ![q] = [@ EXCEPT !.pc = "roles", !.base = db, !.report = report,
                                              !.voice = voice, !.text = ~voice]]
    BY <1>2, Zenon DEF Ask!Ask
  <2>2. PICK text \in BOOLEAN : text = ~voice
    OBVIOUS
  <2>3. [ask[q] EXCEPT !.pc = "roles", !.base = db, !.report = report, !.voice = voice,
                       !.text = text] \in AskType
    BY <1>1 DEF AskType
  <2>4. known' = known
    BY <1>2 DEF Ask!Ask
  <2> QED
    BY <1>n, <2>1, <2>2, <2>3, <2>4
<1>3. CASE Ask!CheckRoles(q) \/ Ask!ChoosePostgresTables(q) \/ Ask!ReadPostgresColumns(q)
  BY <1>3, <1>a, <1>m DEF Ask!CheckRoles, Ask!ChoosePostgresTables, Ask!ReadPostgresColumns
<1>4. CASE Ask!Transcribe(q)
  <2>1. CASE Ask!Answers(q, "noVoice")
    BY <2>1, <1>a
  <2>2. ASSUME NEW text \in BOOLEAN,
               ask' = [ask EXCEPT ![q] = [@ EXCEPT !.pc = "choose", !.text = text]],
               known' = known
        PROVE  Typed
    <3>1. [ask[q] EXCEPT !.pc = "choose", !.text = text] \in AskType
      BY <1>1 DEF AskType
    <3> QED
      BY <1>n, <2>2, <3>1
  <2> QED
    BY <1>4, <2>1, <2>2 DEF Ask!Transcribe
<1>5. CASE Ask!ChooseOracleTables(q)
  BY <1>5, <1>m DEF Ask!ChooseOracleTables
<1>6. CASE Ask!ReadColumns(q)
  <2>1. PICK which \in {"static", "chosen"} :
          ask' = [ask EXCEPT ![q] = [@ EXCEPT !.pc = "generate", !.schema = which]]
    BY <1>6 DEF Ask!ReadColumns
  <2>2. [ask[q] EXCEPT !.pc = "generate", !.schema = which] \in AskType
    BY <1>1 DEF AskType
  <2> QED
    BY <1>6, <1>n, <2>1, <2>2 DEF Ask!ReadColumns
<1>7. CASE Ask!Generate(q)
  <2>1. CASE Ask!Answers(q, "reply") \/ Ask!Answers(q, "unclear")
    BY <2>1, <1>a
  <2>2. ASSUME NEW db \in {"postgres", "oracle"}, NEW s \in Ask!Statements,
               ask' = [ask EXCEPT ![q] = [@ EXCEPT !.pc = "validate", !.base = db,
                                                   !.statement = s]],
               known' = known
        PROVE  Typed
    <3>1. [ask[q] EXCEPT !.pc = "validate", !.base = db, !.statement = s] \in AskType
      BY <1>1 DEF AskType
    <3> QED
      BY <1>n, <2>2, <3>1
  <2> QED
    BY <1>7, <2>1, <2>2 DEF Ask!Generate
<1>8. CASE Ask!Validate(q)
  BY <1>8, <1>a, <1>m DEF Ask!Validate
<1>9. CASE Ask!RunOracle(q) \/ Ask!OracleRan(q)
  BY <1>9, <1>a, <1>m DEF Ask!RunOracle, Ask!OracleRan
<1>10. CASE Ask!RunPostgres(q) \/ Ask!FormatAnswer(q)
  BY <1>10, <1>a, <1>m DEF Ask!RunPostgres, Ask!FormatAnswer
<1> QED
  BY <1>2, <1>3, <1>4, <1>5, <1>6, <1>7, <1>8, <1>9, <1>10 DEF Ask!Handle

\* A question leaves the history of the pool alone; so does a call of a job.
LEMMA QuestionKeepsPool ==
  ASSUME NEW q \in AskQuestions, Ask!Ask(q) \/ Ask!Handle(q)
  PROVE  UNCHANGED <<deaths, ranAs, changed>>
<1> USE DEF Ask!poolVars, Ask!Call, Ask!HistoryUnchanged
<1>1. CASE Ask!ChooseOracleTables(q) \/ Ask!RunOracle(q)
  BY <1>1 DEF Ask!ChooseOracleTables, Ask!RunOracle
<1> QED
  BY <1>1 DEF Ask!Ask, Ask!Handle, Ask!CheckRoles, Ask!Transcribe, Ask!ReadColumns,
     Ask!ChoosePostgresTables, Ask!ReadPostgresColumns, Ask!Generate, Ask!Validate,
     Ask!OracleRan, Ask!RunPostgres, Ask!FormatAnswer

LEMMA AskTypedNext ==
  ASSUME Ask!AskDatabaseAssumption, AskTyped, conn \in [OracleConns -> SessionType],
         \A j \in Jobs : dbJob[j].pc = "execute" /\ Ask!Alive(j) => Ask!Held(j) \in OracleConns,
         Ask!Next \/ UNCHANGED askVars
  PROVE  AskTyped'
<1> USE DEF Ask!HistoryUnchanged
<1>1. ASSUME NEW q \in AskQuestions, Ask!Ask(q) \/ Ask!Handle(q) PROVE AskTyped'
  BY <1>1, QuestionTyped, QuestionKeepsPool DEF AskTyped
<1>2. ASSUME NEW j \in Callers, NEW w \in BOOLEAN, Ask!Call(j, w), UNCHANGED Ask!askVars
      PROVE  AskTyped'
  BY <1>2 DEF Ask!Call, Ask!askVars, AskTyped
<1>3. ASSUME NEW c \in OracleConns, Ask!Die(c), UNCHANGED Ask!askVars PROVE AskTyped'
  <2>1. deaths' \in 0..MaxDeaths
    BY <1>3 DEF Ask!Die, AskTyped, Ask!AskDatabaseAssumption, Ask!OraclePoolAssumption
  <2> QED
    BY <1>3, <2>1 DEF Ask!Die, Ask!askVars, AskTyped
<1>4. ASSUME NEW j \in Jobs, Ask!Execute(j), UNCHANGED Ask!askVars PROVE AskTyped'
  <2>1. CASE UNCHANGED <<ranAs, changed>>
    BY <1>4, <2>1 DEF Ask!Execute, Ask!askVars, AskTyped
  <2>2. CASE /\ Ask!Alive(j) /\ ranAs' = [ranAs EXCEPT ![j] = {conn[Ask!Held(j)].tag}]
             /\ changed' \in {changed, changed \cup {j}}
    <3>1. dbJob[j].pc = "execute"
      BY <1>4 DEF Ask!Execute
    <3>2. conn[Ask!Held(j)].tag \in Jobs \cup {None}
      BY <2>2, <3>1 DEF SessionType
    <3> QED
      BY <1>4, <2>2, <3>2 DEF Ask!Execute, Ask!askVars, AskTyped
  <2> QED
    BY <1>4, <2>1, <2>2 DEF Ask!Execute
<1>5. ASSUME NEW j \in Jobs, Ask!Work(j), UNCHANGED Ask!askVars PROVE AskTyped'
  <2>1. CASE UNCHANGED <<deaths, ranAs, changed>>
    BY <1>5, <2>1 DEF Ask!askVars, AskTyped
  <2> QED
    BY <1>4, <1>5, <2>1 DEF Ask!Work, Ask!GetConnection, Ask!QueueTimeout, Ask!Alter,
       Ask!SetReadOnly, Ask!Untag, Ask!Rollback, Ask!Close
<1>6. CASE UNCHANGED askVars
  BY <1>6 DEF askVars, AskTyped
<1> QED
  BY <1>1, <1>2, <1>3, <1>5, <1>6 DEF Ask!Next, Ask!Serve

\* What PeriodInv and DebtsInv leave open.
ReportsTyped ==
  /\ oracle \in BOOLEAN /\ call.tool \in Reports!Tools \cup {"none"}
  /\ call.args \in Asked \cup {None}
  /\ call.step \in {"idle", "called", "answered", "refused", "failed"}
  /\ {call.from, call.to} \subseteq Reports!Dates \cup {None}
  /\ acts \in [Firms -> 0..MaxDocs] /\ payments \in [Firms -> 0..MaxDocs]
LEMMA ReportsTypedInit ==
  ASSUME Reports!LogisticsReportsAssumption, Reports!Init PROVE ReportsTyped
<1>1. 0 \in 0..MaxDocs
  BY DEF Reports!LogisticsReportsAssumption
<1> QED
  BY <1>1 DEF Reports!Init, Reports!NoCall, ReportsTyped

LEMMA ReportsTypedNext ==
  ASSUME Reports!LogisticsReportsAssumption, ReportsTyped,
         DOMAIN call = {"tool", "args", "step", "from", "to"},
         call.step = "called" /\ call.tool \in Reports!ByPeriod => 
           LET p == Reports!ResolvePeriod(call.args) IN {p.from, p.to} \subseteq Reports!Dates,
         Reports!Next \/ UNCHANGED reportVars
  PROVE  ReportsTyped'
<1> USE DEF ReportsTyped
<1>1. ASSUME NEW tool \in Reports!Tools, Reports!Call(tool) PROVE ReportsTyped'
  BY <1>1 DEF Reports!Call
<1>2. CASE Reports!Select
  <2>1. PICK p : p = Reports!ResolvePeriod(call.args)
    OBVIOUS
  <2>2. {p.from, p.to} \subseteq Reports!Dates
    BY <1>2, <2>1 DEF Reports!Select
  <2>3. \/ call' = [call EXCEPT !.step = "refused"]
        \/ call' = [call EXCEPT !.step = "answered", !.from = p.from, !.to = p.to]
    BY <1>2, <2>1 DEF Reports!Select
  <2> QED
    BY <1>2, <2>2, <2>3 DEF Reports!Select
<1>3. CASE Reports!TellLatest \/ Reports!Merge \/ Reports!Fails
  BY <1>3 DEF Reports!TellLatest, Reports!Merge, Reports!Fails
<1>4. CASE Reports!ReadBilled \/ Reports!ReadPaid \/ UNCHANGED reportVars
  BY <1>4 DEF Reports!ReadBilled, Reports!ReadPaid, reportVars
<1>5. CASE Reports!Enter
  <2>1. PICK f \in Firms :
       \/ acts[f] < MaxDocs /\ acts' = [acts EXCEPT ![f] = @ + 1] /\ UNCHANGED payments
       \/ payments[f] < MaxDocs /\ payments' = [payments EXCEPT ![f] = @ + 1] /\ UNCHANGED acts
    BY <1>5 DEF Reports!Enter
  <2>2. MaxDocs \in Nat /\ acts[f] \in 0..MaxDocs /\ payments[f] \in 0..MaxDocs
    BY DEF Reports!LogisticsReportsAssumption
  <2>3. /\ acts[f] < MaxDocs => acts[f] + 1 \in 0..MaxDocs
        /\ payments[f] < MaxDocs => payments[f] + 1 \in 0..MaxDocs
    BY <2>2
  <2>4. acts' \in [Firms -> 0..MaxDocs] /\ payments' \in [Firms -> 0..MaxDocs]
    BY <2>1, <2>3
  <2> QED
    BY <1>5, <2>4 DEF Reports!Enter
<1> QED
  BY <1>1, <1>2, <1>3, <1>4, <1>5 DEF Reports!Next

\* Conversations in line: each one's place is that before the next, none has two.
InLine(i) ==
  /\ i \subseteq Sessions \X Sessions
  /\ \A x, y \in Sessions : <<x, y>> \in i => <<x, x>> \in i /\ <<y, y>> \in i
  /\ \A x, y \in Chats!Listed(i) : <<x, y>> \in i \/ <<y, x>> \in i
  /\ \A x, y \in Sessions : <<x, y>> \in i /\ <<y, x>> \in i => x = y
  /\ \A x, y, z \in Sessions : <<x, y>> \in i /\ <<y, z>> \in i => <<x, z>> \in i

LEMMA ListedAre ==
  ASSUME NEW i, InLine(i)
  PROVE  /\ Chats!Listed(i) \subseteq Sessions
         /\ \A x : x \in Chats!Listed(i) <=> x \in Sessions /\ <<x, x>> \in i
         /\ \A x, y : <<x, y>> \in i => x \in Chats!Listed(i) /\ y \in Chats!Listed(i)
<1>1. ASSUME NEW x, NEW y, <<x, y>> \in i PROVE x \in Chats!Listed(i) /\ y \in Chats!Listed(i)
  <2>1. <<x, y>> \in Sessions \X Sessions
    BY <1>1 DEF InLine
  <2>2. x \in Sessions /\ y \in Sessions
    BY <2>1
  <2>3. <<y, y>> \in i
    BY <1>1, <2>2 DEF InLine
  <2>4. <<x, y>>[1] = x /\ <<y, y>>[1] = y
    OBVIOUS
  <2> QED
    BY <1>1, <2>3, <2>4 DEF Chats!Listed
<1>2. ASSUME NEW x \in Chats!Listed(i) PROVE x \in Sessions /\ <<x, x>> \in i
  <2>1. PICK p \in i : x = p[1]
    BY DEF Chats!Listed
  <2>2. p \in Sessions \X Sessions
    BY DEF InLine
  <2>3. p = <<p[1], p[2]>> /\ p[1] \in Sessions /\ p[2] \in Sessions
    BY <2>2
  <2>4. <<p[1], p[2]>> \in i
    BY <2>3
  <2> QED
    BY <2>1, <2>3, <2>4 DEF InLine
<1> QED
  BY <1>1, <1>2

LEMMA WithoutInLine ==
  ASSUME NEW i, InLine(i), NEW ids
  PROVE  InLine(Chats!Without(i, ids))
<1> DEFINE j == Chats!Without(i, ids)
<1>1. j \subseteq i
  BY DEF Chats!Without
<1>2. ASSUME NEW x, NEW y PROVE <<x, y>> \in j <=> <<x, y>> \in i /\ x \notin ids /\ y \notin ids
  BY DEF Chats!Without
<1>3. \A x : x \in Chats!Listed(j) => x \in Chats!Listed(i) /\ x \notin ids
  BY <1>1 DEF Chats!Listed, Chats!Without
<1> HIDE DEF j
<1>4. j \subseteq Sessions \X Sessions
  BY <1>1 DEF InLine
<1>5. \A x, y \in Sessions : <<x, y>> \in j => <<x, x>> \in j /\ <<y, y>> \in j
  BY <1>2 DEF InLine
<1>6. \A x, y \in Chats!Listed(j) : <<x, y>> \in j \/ <<y, x>> \in j
  BY <1>2, <1>3 DEF InLine
<1>7. \A x, y \in Sessions : <<x, y>> \in j /\ <<y, x>> \in j => x = y
  BY <1>2 DEF InLine
<1>8. \A x, y, z \in Sessions : <<x, y>> \in j /\ <<y, z>> \in j => <<x, z>> \in j
  BY <1>2 DEF InLine
<1>9. InLine(j)
  BY <1>4, <1>5, <1>6, <1>7, <1>8 DEF InLine
<1> QED
  BY <1>9 DEF j

LEMMA NewestInLine ==
  ASSUME NEW i, InLine(i), NEW s \in Sessions
  PROVE  InLine(Chats!Newest(i, s))
<1> DEFINE w == Chats!Without(i, {s})
           j == Chats!Newest(i, s)
<1>1. InLine(w) /\ InLine(i)
  BY WithoutInLine
<1>2. ASSUME NEW x, NEW y PROVE <<x, y>> \in w <=> <<x, y>> \in i /\ x # s /\ y # s
  BY DEF Chats!Without
<1>3. j = w \cup {<<x, s>> : x \in Chats!Listed(i) \cup {s}}
  BY DEF Chats!Newest
<1>4. ASSUME NEW x, NEW y
      PROVE  <<x, y>> \in j <=> <<x, y>> \in w \/ (y = s /\ (x = s \/ x \in Chats!Listed(i)))
  BY <1>3
<1>5. j \subseteq Sessions \X Sessions
  BY <1>1, <1>3, ListedAre DEF InLine
<1>6. \A x : x \in Chats!Listed(w) <=> x \in Chats!Listed(i) /\ x # s
  <2> HIDE DEF w
  <2> QED
    BY <1>1, <1>2, ListedAre
<1>7. \A x : x \in Chats!Listed(j) => x = s \/ x \in Chats!Listed(w)
  <2> TAKE x
  <2> HAVE x \in Chats!Listed(j)
  <2> HIDE DEF j, w
  <2>1. PICK p \in j : x = p[1]
    BY DEF Chats!Listed
  <2>2. p \in w => p[1] \in Chats!Listed(w)
    BY DEF Chats!Listed
  <2>3. p \notin w => p[1] = s \/ p[1] \in Chats!Listed(i)
    BY <1>3
  <2> QED
    BY <1>6, <2>1, <2>2, <2>3
<1> HIDE DEF w, j
<1>8. \A x, y \in Sessions : <<x, y>> \in j => <<x, x>> \in j /\ <<y, y>> \in j
  BY <1>1, <1>4, <1>6, ListedAre
<1>9. \A x, y \in Chats!Listed(j) : <<x, y>> \in j \/ <<y, x>> \in j
  BY <1>1, <1>4, <1>6, <1>7 DEF InLine
<1>10. \A x, y \in Sessions : <<x, y>> \in j /\ <<y, x>> \in j => x = y
  BY <1>1, <1>2, <1>4 DEF InLine
<1>11. \A x, y, z \in Sessions : <<x, y>> \in j /\ <<y, z>> \in j => <<x, z>> \in j
  <2> TAKE x, y, z \in Sessions
  <2> HAVE <<x, y>> \in j /\ <<y, z>> \in j
  <2>1. <<x, y>> \in w => x \in Chats!Listed(i)
    BY <1>1, <1>6, ListedAre
  <2>2. CASE <<x, y>> \in w /\ <<y, z>> \in w
    BY <1>1, <1>4, <2>2 DEF InLine
  <2> QED
    BY <1>2, <1>4, <2>1, <2>2
<1>12. InLine(j)
  BY <1>5, <1>8, <1>9, <1>10, <1>11 DEF InLine
<1> QED
  BY <1>12 DEF j

\* The numbers of those as old as each are the numbers of the places.
LEMMA PlacesInLine ==
  ASSUME NEW i, InLine(i), IsFiniteSet(Sessions)
  PROVE  {Cardinality(Chats!UpTo(i, s)) : s \in Chats!Listed(i)} = 1..Cardinality(Chats!Listed(i))
<1> DEFINE all == Chats!Listed(i)
           before == {p \in i : p[1] # p[2]}
           t == Digest!InOrder(all, before)
           n == Cardinality(all)
<1>1. all \subseteq Sessions /\ IsFiniteSet(all)
  BY ListedAre, FS_Subset
<1>2. \A x, y : <<x, y>> \in before <=> <<x, y>> \in i /\ x # y
  OBVIOUS
<1>3. Orders(before, all)
  <2> HIDE DEF before
  <2>1. all \subseteq Sessions
    BY <1>1
  <2> HIDE DEF all
  <2>2. \A x, y \in all : x # y => <<x, y>> \in before \/ <<y, x>> \in before
    BY <1>2 DEF InLine, all
  <2>3. \A x, y, z \in all : <<x, y>> \in before /\ <<y, z>> \in before => <<x, z>> \in before
    BY <1>2, <2>1 DEF InLine
  <2> QED
    BY <1>2, <2>2, <2>3 DEF Orders
<1> HIDE DEF before, all
<1>4. n \in Nat /\ Arranges(t, all, before)
  BY <1>1, <1>3, Arranged
<1> HIDE DEF t
<1>5. ASSUME NEW k \in 1..n
      PROVE  t[k] \in all /\ Cardinality(Chats!UpTo(i, t[k])) = k
  <2> DEFINE w == Chats!UpTo(i, t[k])
  <2>1. k \in DOMAIN t /\ t[k] \in all
    BY <1>4 DEF Arranges
  <2>2. \A x : x \in w <=> x \in all /\ <<x, t[k]>> \in i
    BY DEF Chats!UpTo, all
  <2>3. w \subseteq all
    BY <2>2
  <2>4. ASSUME NEW j \in 1..n PROVE t[j] \in all /\ (<<t[j], t[k]>> \in i <=> j <= k)
    <3>1. t[j] \in all /\ j \in DOMAIN t
      BY <1>4 DEF Arranges
    <3>2. CASE j = k
      BY <2>1, <3>2, ListedAre DEF all
    <3>3. CASE j < k
      BY <1>2, <1>4, <2>1, <3>1, <3>3 DEF Arranges
    <3>4. CASE j > k
      <4>1. <<t[k], t[j]>> \in i /\ t[k] # t[j]
        BY <1>2, <1>4, <2>1, <3>1, <3>4 DEF Arranges
      <4>2. <<t[j], t[k]>> \notin i
        BY <1>1, <2>1, <3>1, <4>1 DEF InLine
      <4> QED
        BY <1>4, <3>1, <3>4, <4>2
    <3> QED
      BY <1>4, <3>1, <3>2, <3>3, <3>4
  <2>5. {j \in DOMAIN t : t[j] \in w} = 1..k
    <3>1. DOMAIN t = 1..n
      BY <1>4 DEF Arranges
    <3>2. ASSUME NEW j \in 1..n PROVE t[j] \in w <=> j <= k
      BY <2>2, <2>4
    <3> HIDE DEF w, n
    <3> QED
      BY <1>4, <3>1, <3>2
  <2>6. Cardinality({j \in DOMAIN t : t[j] \in w}) = Cardinality(w)
    BY <1>1, <1>4, <2>3, PlacesOf
  <2>7. Cardinality(1..k) = k
    BY <1>4, FS_Interval
  <2> QED
    BY <2>1, <2>5, <2>6, <2>7
<1>6. \A s \in all : \E k \in 1..n : t[k] = s
  BY <1>4 DEF Arranges
<1>7. {Cardinality(Chats!UpTo(i, s)) : s \in all} = 1..n
  BY <1>5, <1>6
<1> QED
  BY <1>7 DEF all

ChatForm ==
  [kind : Chats!Kinds, step : Chats!Steps, s : Sessions \cup {None}, role : Chats!Roles,
   branch : {"reply", "tool", "caught"}, ids : SUBSET Sessions,
   over : 0..Cardinality(Sessions), count : Nat]

LEMMA AsForm ==
  ASSUME NEW n, n = [x \in DOMAIN n |-> n[x]],
         DOMAIN n = {"kind", "step", "s", "role", "branch", "ids", "over", "count"},
         n.kind \in Chats!Kinds, n.step \in Chats!Steps, n.s \in Sessions \cup {None},
         n.role \in Chats!Roles, n.branch \in {"reply", "tool", "caught"},
         n.ids \in SUBSET Sessions, n.over \in 0..Cardinality(Sessions), n.count \in Nat
  PROVE  n \in ChatForm
<1>1. n = [kind |-> n.kind, step |-> n.step, s |-> n.s, role |-> n.role, branch |-> n.branch,
           ids |-> n.ids, over |-> n.over, count |-> n.count]
  OBVIOUS
<1> QED
  BY <1>1 DEF ChatForm

LEMMA BecomesForm ==
  ASSUME NEW r \in ChatRequests, req \in [ChatRequests -> ChatForm], NEW f, Chats!Becomes(r, f),
         DOMAIN f \subseteq {"kind", "step", "s", "role", "branch", "ids", "over", "count"}
  PROVE  \E n : /\ req' = [req EXCEPT ![r] = n]
                /\ n = [x \in DOMAIN n |-> n[x]]
                /\ DOMAIN n = {"kind", "step", "s", "role", "branch", "ids", "over", "count"}
                /\ \A x \in DOMAIN n : n[x] = IF x \in DOMAIN f THEN f[x] ELSE req[r][x]
<1>1. DOMAIN req[r] = {"kind", "step", "s", "role", "branch", "ids", "over", "count"}
  BY DEF ChatForm
<1> DEFINE n == [x \in DOMAIN req[r] |-> IF x \in DOMAIN f THEN f[x] ELSE req[r][x]]
<1>2. req' = [req EXCEPT ![r] = n]
  BY DEF Chats!Becomes
<1>3. n = [x \in DOMAIN n |-> n[x]]
  OBVIOUS
<1> QED
  BY <1>1, <1>2, <1>3

\* What the requests have said, or say no more; what counts no more than was said.
Told == {p \in ChatRequests \X Chats!Roles : ~Unsaid(p[1], p[2])}
Bounded(v) == v \in Nat /\ v <= Cardinality(Told) + 2

TalkTyped ==
  req \in [ChatRequests -> ChatForm] /\ \A r \in ChatRequests : Bounded(req[r].count)
StoreFits ==
  /\ meta \in [Sessions -> {None} \cup Nat]
  /\ \A s \in Sessions : meta[s] = None \/ Bounded(meta[s])
  /\ \A s \in Sessions : Len(msgs[s]) <= MaxMessages
  /\ InLine(index) /\ expiries \in 0..MaxExpiries /\ gone \subseteq Chats!Messages
ChatsTyped == TalkTyped /\ StoreFits

LEMMA TwoRoles == IsFiniteSet(Chats!Roles) /\ Cardinality(Chats!Roles) = 2
<1>1. Chats!Roles = {"user"} \cup {"assistant"}
  BY DEF Chats!Roles
<1>2. IsFiniteSet({"user"}) /\ Cardinality({"user"}) = 1
  BY FS_Singleton
<1> QED
  BY <1>1, <1>2, FS_AddElement

LEMMA ToldMany ==
  ASSUME IsFiniteSet(ChatRequests)
  PROVE  /\ IsFiniteSet(Told) /\ Cardinality(Told) \in Nat
         /\ Cardinality(ChatRequests) \in Nat
         /\ Cardinality(Told) <= 2 * Cardinality(ChatRequests)
<1>1. IsFiniteSet(Chats!Roles) /\ Cardinality(Chats!Roles) = 2
  BY TwoRoles
<1>2. /\ IsFiniteSet(ChatRequests \X Chats!Roles)
      /\ Cardinality(ChatRequests \X Chats!Roles) = Cardinality(ChatRequests) * 2
  BY <1>1, FS_Product
<1>3. Cardinality(ChatRequests) \in Nat
  BY FS_CardinalityType
<1>4. Told \subseteq ChatRequests \X Chats!Roles
  BY DEF Told
<1>5. /\ IsFiniteSet(Told) /\ Cardinality(Told) \in Nat
      /\ Cardinality(Told) <= Cardinality(ChatRequests \X Chats!Roles)
  BY <1>2, <1>4, FS_Subset, FS_CardinalityType
<1> QED
  BY <1>2, <1>3, <1>5

\* Nothing is taken back.
LEMMA ToldGrows ==
  ASSUME IsFiniteSet(ChatRequests),
         \A x \in ChatRequests : \A o \in Chats!Roles : Unsaid(x, o)' => Unsaid(x, o)
  PROVE  /\ Cardinality(Told') \in Nat /\ Cardinality(Told) <= Cardinality(Told')
         /\ \A v : Bounded(v) => Bounded(v)'
<1>1. Told \subseteq Told' /\ Told' \subseteq ChatRequests \X Chats!Roles
  BY DEF Told
<1>2. IsFiniteSet(Chats!Roles)
  BY TwoRoles
<1>3. IsFiniteSet(ChatRequests \X Chats!Roles)
  BY <1>2, FS_Product
<1>4. IsFiniteSet(Told') /\ Cardinality(Told') \in Nat
  BY <1>1, <1>3, FS_Subset, FS_CardinalityType
<1>5. Cardinality(Told) \in Nat /\ Cardinality(Told) <= Cardinality(Told')
  BY <1>1, <1>4, FS_Subset, FS_CardinalityType
<1> QED
  BY <1>4, <1>5 DEF Bounded

\* A message that is said makes one more.
LEMMA ToldOneMore ==
  ASSUME IsFiniteSet(ChatRequests), NEW r \in ChatRequests, NEW o \in Chats!Roles,
         Unsaid(r, o), ~Unsaid(r, o)',
         \A x \in ChatRequests : \A q \in Chats!Roles : Unsaid(x, q)' => Unsaid(x, q)
  PROVE  \A v : Bounded(v) => Bounded(v + 1)'
<1>1. /\ Told \cup {<<r, o>>} \subseteq Told' /\ <<r, o>> \notin Told
      /\ Told' \subseteq ChatRequests \X Chats!Roles
  BY DEF Told
<1>2. IsFiniteSet(Chats!Roles)
  BY TwoRoles
<1>3. IsFiniteSet(ChatRequests \X Chats!Roles)
  BY <1>2, FS_Product
<1>4. IsFiniteSet(Told') /\ IsFiniteSet(Told) /\ Cardinality(Told') \in Nat
  BY <1>1, <1>3, FS_Subset, FS_CardinalityType
<1>5. /\ Cardinality(Told \cup {<<r, o>>}) = Cardinality(Told) + 1
      /\ Cardinality(Told) \in Nat /\ Cardinality(Told \cup {<<r, o>>}) <= Cardinality(Told')
  BY <1>1, <1>4, FS_AddElement, FS_Subset, FS_CardinalityType
<1> QED
  BY <1>4, <1>5 DEF Bounded

Fields == {"kind", "step", "s", "role", "branch", "ids", "over", "count"}

\* What a step writes into the record of its request has the right types.
FormTyped(f) ==
  /\ DOMAIN f \subseteq Fields
  /\ "kind" \in DOMAIN f => f["kind"] \in Chats!Kinds
  /\ "step" \in DOMAIN f => f["step"] \in Chats!Steps
  /\ "s" \in DOMAIN f => f["s"] \in Sessions \cup {None}
  /\ "role" \in DOMAIN f => f["role"] \in Chats!Roles
  /\ "branch" \in DOMAIN f => f["branch"] \in {"reply", "tool", "caught"}
  /\ "ids" \in DOMAIN f => f["ids"] \in SUBSET Sessions
  /\ "over" \in DOMAIN f => f["over"] \in 0..Cardinality(Sessions)
  /\ "count" \in DOMAIN f => f["count"] \in Nat

LEMMA BecomesTyped ==
  ASSUME NEW r \in ChatRequests, req \in [ChatRequests -> ChatForm], NEW f, Chats!Becomes(r, f),
         FormTyped(f)
  PROVE  \E n \in ChatForm :
           /\ req' = [req EXCEPT ![r] = n]
           /\ \A x \in Fields : n[x] = IF x \in DOMAIN f THEN f[x] ELSE req[r][x]
<1>1. PICK n : /\ req' = [req EXCEPT ![r] = n]
               /\ n = [x \in DOMAIN n |-> n[x]] /\ DOMAIN n = Fields
               /\ \A x \in DOMAIN n : n[x] = IF x \in DOMAIN f THEN f[x] ELSE req[r][x]
  BY BecomesForm DEF Fields, FormTyped
<1>2. /\ req[r].kind \in Chats!Kinds /\ req[r].step \in Chats!Steps
      /\ req[r].s \in Sessions \cup {None} /\ req[r].role \in Chats!Roles
      /\ req[r].branch \in {"reply", "tool", "caught"} /\ req[r].ids \in SUBSET Sessions
      /\ req[r].over \in 0..Cardinality(Sessions) /\ req[r].count \in Nat
  BY DEF ChatForm
<1>3. /\ n.kind \in Chats!Kinds /\ n.step \in Chats!Steps
      /\ n.s \in Sessions \cup {None} /\ n.role \in Chats!Roles
      /\ n.branch \in {"reply", "tool", "caught"} /\ n.ids \in SUBSET Sessions
      /\ n.over \in 0..Cardinality(Sessions) /\ n.count \in Nat
  <2> HIDE DEF Chats!Becomes
  <2> QED
    BY <1>1, <1>2 DEF FormTyped, Fields
<1>4. n \in ChatForm
  BY <1>1, <1>3, AsForm DEF Fields
<1> QED
  BY <1>1, <1>4

\* A request takes another record, which counts no more than was said.
Turns(r) ==
  \E n \in ChatForm :
    /\ req' = [req EXCEPT ![r] = n] /\ Bounded(n.count)
    /\ \A o \in Chats!Roles : Unsaid(r, o)' => Unsaid(r, o)

LEMMA ChatEnds ==
  ASSUME NEW r \in ChatRequests, ChatsTyped, IsFiniteSet(ChatRequests), IsFiniteSet(Sessions),
         NEW p \in {"done", "failed"}, Chats!Ended(r, p)
  PROVE  Turns(r)
<1> DEFINE n == [Chats!Fresh EXCEPT !.step = p]
<1>1. Cardinality(Sessions) \in Nat /\ Cardinality(Told) \in Nat
  BY ToldMany, FS_CardinalityType
<1>2. n \in ChatForm /\ n.count = 0 /\ n.step = p
  BY <1>1 DEF ChatForm, Chats!Fresh, Chats!Kinds, Chats!Steps, Chats!Roles
<1>3. req' = [req EXCEPT ![r] = n] /\ req[r] \in ChatForm /\ DOMAIN req = ChatRequests
  BY DEF Chats!Ended, ChatsTyped, TalkTyped
<1> HIDE DEF n
<1>4. req'[r] = n
  BY <1>3
<1>5. \A o : ~Unsaid(r, o)'
  BY <1>2, <1>4 DEF Unsaid
<1>6. Bounded(n.count)
  BY <1>1, <1>2 DEF Bounded
<1> QED
  BY <1>2, <1>3, <1>5, <1>6 DEF Turns

LEMMA ChatArrivesTyped ==
  ASSUME NEW r \in ChatRequests, ChatsTyped, ChatsInv, IsFiniteSet(ChatRequests),
         IsFiniteSet(Sessions),
         Chats!Chat(r) \/ Chats!List(r) \/ Chats!Rename(r) \/ Chats!ClearRead(r)
  PROVE  Turns(r) /\ UNCHANGED Chats!store
<1>1. /\ req \in [ChatRequests -> ChatForm] /\ req[r].step = "idle" /\ req[r].role = "user"
      /\ chats \subseteq Sessions /\ Chats!Listed(index) \subseteq chats
      /\ Bounded(req[r].count)
  BY DEF ChatsTyped, TalkTyped, StoreFits, ChatsInv, StoreTyped, ChatTyped, Chats!Chat, Chats!List, Chats!Rename,
         Chats!ClearRead, Chats!At
<1>2. ASSUME NEW f, FormTyped(f), Chats!Becomes(r, f),
             "role" \notin DOMAIN f /\ "count" \notin DOMAIN f
      PROVE  Turns(r)
  <2>1. PICK n \in ChatForm :
          /\ req' = [req EXCEPT ![r] = n]
          /\ \A x \in Fields : n[x] = IF x \in DOMAIN f THEN f[x] ELSE req[r][x]
    BY <1>1, <1>2, BecomesTyped
  <2>2. n.role = "user" /\ n.count = req[r].count /\ req'[r] = n
    BY <1>1, <1>2, <2>1 DEF Fields
  <2>3. \A o \in Chats!Roles : Unsaid(r, o)
    BY <1>1 DEF Unsaid, Chats!Roles
  <2> QED
    BY <1>1, <2>1, <2>2, <2>3 DEF Turns
<1>3. UNCHANGED Chats!store
  BY DEF Chats!Chat, Chats!List, Chats!Rename, Chats!ClearRead
<1>4. CASE Chats!Chat(r)
  <2>1. PICK s \in chats \cup {None} :
          Chats!Becomes(r, [kind |-> "chat", step |-> "look", s |-> s])
    BY <1>4 DEF Chats!Chat
  <2>2. FormTyped([kind |-> "chat", step |-> "look", s |-> s])
    BY <1>1 DEF FormTyped, Fields, Chats!Kinds, Chats!Steps
  <2> QED
    BY <1>2, <1>3, <2>1, <2>2
<1>5. CASE Chats!List(r)
  <2>1. FormTyped([kind |-> "list", step |-> "card"])
    BY DEF FormTyped, Fields, Chats!Kinds, Chats!Steps
  <2> QED
    BY <1>2, <1>3, <1>5, <2>1 DEF Chats!List
<1>6. CASE Chats!Rename(r)
  <2>1. PICK s \in chats : Chats!Becomes(r, [kind |-> "rename", step |-> "get", s |-> s])
    BY <1>6 DEF Chats!Rename
  <2>2. FormTyped([kind |-> "rename", step |-> "get", s |-> s])
    BY <1>1 DEF FormTyped, Fields, Chats!Kinds, Chats!Steps
  <2> QED
    BY <1>2, <1>3, <2>1, <2>2
<1>7. CASE Chats!ClearRead(r)
  <2>1. \/ Chats!Ended(r, "done")
        \/ Chats!Becomes(r, [kind |-> "clear", ids |-> Chats!Listed(index), step |-> "purge"])
    BY <1>7 DEF Chats!ClearRead
  <2>2. FormTyped([kind |-> "clear", ids |-> Chats!Listed(index), step |-> "purge"])
    BY <1>1 DEF FormTyped, Fields, Chats!Kinds, Chats!Steps
  <2>3. CASE Chats!Ended(r, "done")
    BY <1>3, <2>3, ChatEnds
  <2> QED
    BY <1>2, <1>3, <2>1, <2>2, <2>3
<1> QED
  BY <1>4, <1>5, <1>6, <1>7

\* What a step of r writes, when it says nothing and takes its count from where it may.
CountTyped(r, f) ==
  FormTyped(f) /\ ("count" \in DOMAIN f => Bounded(f["count"]))

StepOf(r, f) == IF "step" \in DOMAIN f THEN f["step"] ELSE req[r].step
RoleOf(r, f) == IF "role" \in DOMAIN f THEN f["role"] ELSE req[r].role

\* With that r has not again to say what it has said.
Forward(r, f) ==
  LET p == StepOf(r, f)  o == RoleOf(r, f) IN
  p \notin {"done", "failed"} =>
    /\ o = "user" /\ p \in {"idle", "look", "create", "index", "card", "range", "trim", "get", "push"}
         => Unsaid(r, "user")
    /\ o = "user" \/ p \in {"get", "push"} => Unsaid(r, "assistant")

LEMMA ChatTurns ==
  ASSUME NEW r \in ChatRequests, ChatsTyped, NEW f, Chats!Becomes(r, f), CountTyped(r, f),
         Forward(r, f)
  PROVE  Turns(r)
<1>1. req \in [ChatRequests -> ChatForm] /\ Bounded(req[r].count)
  BY DEF ChatsTyped, TalkTyped, StoreFits
<1>2. PICK n \in ChatForm :
        /\ req' = [req EXCEPT ![r] = n]
        /\ \A x \in Fields : n[x] = IF x \in DOMAIN f THEN f[x] ELSE req[r][x]
  BY <1>1, BecomesTyped DEF CountTyped
<1>3. n.step = StepOf(r, f) /\ n.role = RoleOf(r, f)
  BY <1>2 DEF Fields, StepOf, RoleOf
<1>4. Bounded(n.count)
  BY <1>1, <1>2 DEF Fields, CountTyped
<1>5. req'[r] = n
  BY <1>1, <1>2
<1>6. \A q \in Chats!Roles : Unsaid(r, q)' => Unsaid(r, q)
  BY <1>3, <1>5 DEF Unsaid, Chats!Roles, Forward
<1> QED
  BY <1>2, <1>4, <1>6 DEF Turns

LEMMA ChatGoesTo ==
  ASSUME NEW r \in ChatRequests, ChatsTyped, NEW q, Chats!Goes(r, q)
  PROVE  Chats!Becomes(r, [step |-> q])
<1>1. [req[r] EXCEPT !.step = q]
        = [x \in DOMAIN req[r] |-> IF x \in DOMAIN [step |-> q] THEN [step |-> q][x] ELSE req[r][x]]
  BY DEF ChatForm, ChatsTyped, TalkTyped
<1> QED
  BY <1>1 DEF Chats!Goes, Chats!Becomes, ChatsTyped, TalkTyped

LEMMA ChatReadsTyped ==
  ASSUME NEW r \in ChatRequests, ChatsTyped, ChatsInv, Chats!AssistantAssumption,
         IsFiniteSet(ChatRequests), IsFiniteSet(Sessions),
         Chats!Look(r) \/ Chats!TrimCard(r) \/ Chats!TrimRange(r) \/ Chats!Get(r)
         \/ Chats!Route(r) \/ Chats!Tool(r) \/ Chats!ListRange(r) \/ Chats!ListGet(r)
  PROVE  Turns(r) /\ UNCHANGED Chats!store
<1> DEFINE k == req[r].kind
           p == req[r].step
<1>1. /\ ChatTyped(r) /\ req[r].ids \subseteq Sessions /\ chats \subseteq Sessions
      /\ Chats!Listed(index) \subseteq Sessions
      /\ req[r] \in ChatForm
  BY DEF ChatsTyped, TalkTyped, StoreFits, ChatsInv, StoreTyped, ChatTyped
<1>2. /\ req[r].role \in {"user", "assistant"}
      /\ p \in {"look", "push", "route", "tool"} => k = "chat"
      /\ p = "get" => k \in {"chat", "rename"}
      /\ p \in {"get", "push", "route", "tool"} => req[r].s \in Sessions
      /\ p \notin {"get", "push", "set", "zadd"} => req[r].role = "user"
  BY <1>1 DEF ChatTyped
<1>3. Bounded(0) /\ Cardinality(Sessions) \in Nat /\ IsFiniteSet(Chats!Listed(index))
      /\ Cardinality(Chats!Listed(index)) \in 0..Cardinality(Sessions)
  BY <1>1, ToldMany, FS_CardinalityType, FS_Subset DEF Bounded
<1>4. UNCHANGED Chats!store
  BY DEF Chats!Look, Chats!TrimCard, Chats!TrimRange, Chats!Get, Chats!Route, Chats!Tool,
         Chats!ListRange, Chats!ListGet
<1>5. /\ p \in {"look", "card", "range", "read", "mget", "route", "tool"} /\ req[r].role = "user"
           => Unsaid(r, "assistant")
      /\ p \in {"look", "card", "range", "get"} /\ req[r].role = "user" => Unsaid(r, "user")
      /\ p = "get" => Unsaid(r, "assistant")
  BY DEF Unsaid
<1>6. ASSUME NEW q, Chats!Goes(r, q) PROVE Chats!Becomes(r, [step |-> q])
  BY <1>6, ChatGoesTo
<1>7. CASE Chats!Look(r)
  <2>1. p = "look" /\ \/ Chats!Becomes(r, [step |-> "get"]) \/ Chats!Becomes(r, [step |-> "create"])
    BY <1>6, <1>7 DEF Chats!Look, Chats!At
  <2>2. CountTyped(r, [step |-> "get"]) /\ CountTyped(r, [step |-> "create"])
    BY DEF CountTyped, FormTyped, Fields, Chats!Steps
  <2>3. CASE Chats!Becomes(r, [step |-> "get"])
    BY <1>2, <1>4, <1>5, <2>1, <2>2, <2>3, ChatTurns DEF Forward, StepOf, RoleOf
  <2>4. CASE Chats!Becomes(r, [step |-> "create"])
    BY <1>2, <1>4, <1>5, <2>1, <2>2, <2>4, ChatTurns DEF Forward, StepOf, RoleOf
  <2> QED
    BY <1>4, <2>1, <2>3, <2>4
<1>8. CASE Chats!TrimCard(r)
  <2> DEFINE total == Chats!Cardinality(Chats!Listed(index))
  <2>1. p = "card" /\ (\/ \E q \in {"get", "read"} : Chats!Becomes(r, [step |-> q])
                       \/ /\ ~(total <= MaxSessions)
                          /\ Chats!Becomes(r, [step |-> "range", over |-> total - MaxSessions]))
    BY <1>6, <1>8 DEF Chats!TrimCard, Chats!At
  <2>2. ASSUME NEW q \in {"get", "read"}, Chats!Becomes(r, [step |-> q])
        PROVE  Turns(r)
    <3>1. CountTyped(r, [step |-> q])
      BY DEF CountTyped, FormTyped, Fields, Chats!Steps
    <3> QED
      BY <1>2, <1>5, <2>1, <2>2, <3>1, ChatTurns DEF Forward, StepOf, RoleOf
  <2>3. ASSUME ~(total <= MaxSessions),
               Chats!Becomes(r, [step |-> "range", over |-> total - MaxSessions])
        PROVE  Turns(r)
    <3>1. total - MaxSessions \in 0..Cardinality(Sessions)
      BY <1>3, <2>3 DEF Chats!Cardinality, Cardinality, Chats!AssistantAssumption
    <3> HIDE DEF total
    <3>2. CountTyped(r, [step |-> "range", over |-> total - MaxSessions])
      BY <3>1 DEF CountTyped, FormTyped, Fields, Chats!Steps
    <3> QED
      BY <1>2, <1>5, <2>1, <2>3, <3>2, ChatTurns DEF Forward, StepOf, RoleOf
  <2> QED
    BY <1>4, <2>1, <2>2, <2>3
<1>9. CASE Chats!TrimRange(r)
  <2> DEFINE ids == Chats!Oldest(index, req[r].over)
             f == [step |-> "trim", over |-> 0, ids |-> ids]
  <2>1. p = "range" /\ Chats!Becomes(r, f)
    BY <1>9 DEF Chats!TrimRange, Chats!At
  <2>2. ids \in SUBSET Sessions
    BY <1>1 DEF Chats!Oldest
  <2> HIDE DEF ids
  <2>3. CountTyped(r, f)
    BY <1>3, <2>2 DEF CountTyped, FormTyped, Fields, Chats!Steps
  <2>4. "step" \in DOMAIN f /\ f["step"] = "trim" /\ "role" \notin DOMAIN f
    OBVIOUS
  <2> HIDE DEF f
  <2> QED
    BY <1>2, <1>4, <1>5, <2>1, <2>3, <2>4, ChatTurns DEF Forward, StepOf, RoleOf
<1>10. CASE Chats!Get(r)
  <2> DEFINE m == meta[req[r].s]
             f == [step |-> IF k = "rename" THEN "set" ELSE "push", count |-> m]
  <2>1. p = "get" /\ (\/ m # None /\ Chats!Becomes(r, f)
                      \/ Chats!Becomes(r, [branch |-> "caught"])
                      \/ Chats!Ended(r, "failed"))
    BY <1>10 DEF Chats!Get, Chats!At
  <2>2. ASSUME m # None, Chats!Becomes(r, f) PROVE Turns(r)
    <3>1. Bounded(m)
      BY <1>2, <2>1, <2>2 DEF ChatsTyped, TalkTyped, StoreFits
    <3> HIDE DEF m
    <3>2. CountTyped(r, f)
      BY <3>1 DEF CountTyped, FormTyped, Fields, Chats!Steps, Bounded
    <3>3. "step" \in DOMAIN f /\ f["step"] \in {"set", "push"} /\ "role" \notin DOMAIN f
          /\ (f["step"] = "push" <=> k # "rename")
      OBVIOUS
    <3> HIDE DEF f
    <3> QED
      BY <1>2, <1>5, <2>1, <2>2, <3>2, <3>3, ChatTurns DEF Forward, StepOf, RoleOf
  <2>3. ASSUME Chats!Becomes(r, [branch |-> "caught"]) PROVE Turns(r)
    <3>1. CountTyped(r, [branch |-> "caught"])
      BY DEF CountTyped, FormTyped, Fields
    <3> QED
      BY <1>2, <1>5, <2>1, <2>3, <3>1, ChatTurns DEF Forward, StepOf, RoleOf
  <2> QED
    BY <1>4, <2>1, <2>2, <2>3, ChatEnds
<1>11. CASE Chats!Route(r)
  <2> DEFINE f == [branch |-> "reply", role |-> "assistant", step |-> "get"]
             g == [branch |-> "tool", step |-> "tool"]
  <2>1. p = "route" /\ (Chats!Becomes(r, f) \/ Chats!Becomes(r, g))
    BY <1>11 DEF Chats!Route, Chats!At
  <2>2. CountTyped(r, f) /\ CountTyped(r, g)
    BY DEF CountTyped, FormTyped, Fields, Chats!Steps, Chats!Roles
  <2>3. /\ "step" \in DOMAIN f /\ f["step"] = "get" /\ "role" \in DOMAIN f /\ f["role"] = "assistant"
        /\ "step" \in DOMAIN g /\ g["step"] = "tool" /\ "role" \notin DOMAIN g
    OBVIOUS
  <2> HIDE DEF f, g
  <2>4. CASE Chats!Becomes(r, f)
    BY <1>2, <1>4, <1>5, <2>1, <2>2, <2>3, <2>4, ChatTurns DEF Forward, StepOf, RoleOf
  <2>5. CASE Chats!Becomes(r, g)
    BY <1>2, <1>4, <1>5, <2>1, <2>2, <2>3, <2>5, ChatTurns DEF Forward, StepOf, RoleOf
  <2> QED
    BY <1>4, <2>1, <2>4, <2>5
<1>12. CASE Chats!Tool(r)
  <2>1. PICK branch \in {"tool", "caught"} :
          Chats!Becomes(r, [branch |-> branch, role |-> "assistant", step |-> "get"])
    BY <1>12 DEF Chats!Tool
  <2> DEFINE f == [branch |-> branch, role |-> "assistant", step |-> "get"]
  <2>2. CountTyped(r, f) /\ p = "tool"
    BY <1>12 DEF CountTyped, FormTyped, Fields, Chats!Steps, Chats!Roles, Chats!Tool, Chats!At
  <2>3. "step" \in DOMAIN f /\ f["step"] = "get" /\ "role" \in DOMAIN f /\ f["role"] = "assistant"
    OBVIOUS
  <2>4. Chats!Becomes(r, f)
    BY <2>1
  <2> HIDE DEF f
  <2> QED
    BY <1>2, <1>4, <1>5, <2>2, <2>3, <2>4, ChatTurns DEF Forward, StepOf, RoleOf
<1>13. CASE Chats!ListRange(r)
  <2>1. PICK ids \in SUBSET Chats!Listed(index) : Chats!Becomes(r, [step |-> "mget", ids |-> ids])
    BY <1>13 DEF Chats!ListRange
  <2> DEFINE f == [step |-> "mget", ids |-> ids]
  <2>2. CountTyped(r, f) /\ p = "read"
    BY <1>1, <1>13 DEF CountTyped, FormTyped, Fields, Chats!Steps, Chats!ListRange, Chats!At
  <2>3. "step" \in DOMAIN f /\ f["step"] = "mget" /\ "role" \notin DOMAIN f
    OBVIOUS
  <2>4. Chats!Becomes(r, f)
    BY <2>1
  <2> HIDE DEF f
  <2> QED
    BY <1>2, <1>4, <1>5, <2>2, <2>3, <2>4, ChatTurns DEF Forward, StepOf, RoleOf
<1>14. CASE Chats!ListGet(r)
  <2> DEFINE ids == {s \in req[r].ids : meta[s] = None}
             f == [step |-> "zrem", ids |-> ids]
  <2>1. p = "mget" /\ (Chats!Ended(r, "done") \/ Chats!Becomes(r, f))
    BY <1>14 DEF Chats!ListGet, Chats!At
  <2>2. ids \in SUBSET Sessions
    BY <1>1
  <2> HIDE DEF ids
  <2>3. CountTyped(r, f)
    BY <2>2 DEF CountTyped, FormTyped, Fields, Chats!Steps
  <2>4. "step" \in DOMAIN f /\ f["step"] = "zrem" /\ "role" \notin DOMAIN f
    OBVIOUS
  <2> HIDE DEF f
  <2>5. CASE Chats!Becomes(r, f)
    BY <1>2, <1>4, <1>5, <2>1, <2>3, <2>4, <2>5, ChatTurns DEF Forward, StepOf, RoleOf
  <2> QED
    BY <1>4, <2>1, <2>5, ChatEnds
<1> QED
  BY <1>7, <1>8, <1>9, <1>10, <1>11, <1>12, <1>13, <1>14

LEMMA TurnsTyped ==
  ASSUME NEW r \in ChatRequests, ChatsTyped, IsFiniteSet(ChatRequests), Turns(r)
  PROVE  TalkTyped' /\ \A v : Bounded(v) => Bounded(v)'
<1>1. PICK n \in ChatForm :
        /\ req' = [req EXCEPT ![r] = n] /\ Bounded(n.count)
        /\ \A o \in Chats!Roles : Unsaid(r, o)' => Unsaid(r, o)
  BY DEF Turns
<1>2. /\ \A x \in ChatRequests \ {r} : req'[x] = req[x]
      /\ req' \in [ChatRequests -> ChatForm] /\ req'[r] = n
  BY <1>1 DEF ChatsTyped, TalkTyped
<1>3. \A x \in ChatRequests : \A o \in Chats!Roles : Unsaid(x, o)' => Unsaid(x, o)
  BY <1>1, <1>2 DEF Unsaid
<1>4. \A v : Bounded(v) => Bounded(v)'
  BY <1>3, ToldGrows
<1>5. ASSUME NEW x \in ChatRequests PROVE Bounded(req[x].count)'
  <2>1. PICK c : c = req'[x].count
    OBVIOUS
  <2>2. Bounded(c)
    BY <1>1, <1>2, <2>1 DEF ChatsTyped, TalkTyped
  <2>3. Bounded(c)'
    BY <1>4, <2>2
  <2> QED
    BY <2>1, <2>3 DEF Bounded
<1>6. TalkTyped'
  BY <1>2, <1>5 DEF TalkTyped, ChatForm
<1> QED
  BY <1>4, <1>6

\* What the store may become while requests turn.
LEMMA StoreFitsNow ==
  ASSUME ChatsTyped, ChatsInv, \A v : Bounded(v) => Bounded(v)',
         meta' = meta \/ /\ meta' \in [Sessions -> {None} \cup Nat]
                         /\ \A s \in Sessions : \/ meta'[s] = None \/ meta'[s] = meta[s]
                                                \/ Bounded(meta'[s]),
         msgs' = msgs \/ \A s \in Sessions : Len(msgs'[s]) <= MaxMessages,
         index' = index \/ InLine(index'),
         expiries' = expiries \/ expiries' \in 0..MaxExpiries,
         gone' = gone \/ gone' \subseteq Chats!Messages
  PROVE  StoreFits'
<1>1. meta' \in [Sessions -> {None} \cup Nat]
  BY DEF ChatsTyped, StoreFits
<1>2. ASSUME NEW s \in Sessions PROVE (meta[s] = None \/ Bounded(meta[s]))'
  <2>1. PICK c : c = meta'[s]
    OBVIOUS
  <2>2. c = None \/ Bounded(c)
    BY <2>1 DEF ChatsTyped, StoreFits
  <2>3. c = None \/ Bounded(c)'
    BY <2>2
  <2> QED
    BY <2>1, <2>3 DEF Bounded
<1>3. InLine(index)'
  BY DEF ChatsTyped, StoreFits, InLine, Chats!Listed
<1>4. gone' \subseteq Chats!Messages'
  BY DEF ChatsTyped, StoreFits, Chats!Messages, Chats!Roles
<1>5. (\A s \in Sessions : Len(msgs[s]) <= MaxMessages)' /\ (expiries \in 0..MaxExpiries)'
  BY DEF ChatsTyped, StoreFits
<1> QED
  BY <1>1, <1>2, <1>3, <1>4, <1>5 DEF StoreFits

LEMMA ChatRemovesTyped ==
  ASSUME NEW r \in ChatRequests, ChatsTyped, ChatsInv, Chats!AssistantAssumption,
         NEW ids \in SUBSET Sessions, Chats!Remove(ids), Turns(r), UNCHANGED expiries
  PROVE  ChatsTyped'
<1>1. IsFiniteSet(ChatRequests) /\ MaxMessages \in Nat
  BY DEF Chats!AssistantAssumption, Chats!IsFiniteSet, IsFiniteSet
<1>2. TalkTyped' /\ \A v : Bounded(v) => Bounded(v)'
  BY <1>1, TurnsTyped
<1>3. /\ meta' = [s \in Sessions |-> IF s \in ids THEN None ELSE meta[s]]
      /\ msgs' = [s \in Sessions |-> IF s \in ids THEN <<>> ELSE msgs[s]]
      /\ index' = Chats!Without(index, ids)
      /\ gone' = gone \cup UNION {Chats!Range(msgs[s]) : s \in ids}
  BY DEF Chats!Remove
<1>4. /\ meta' \in [Sessions -> {None} \cup Nat]
      /\ \A s \in Sessions : meta'[s] = None \/ meta'[s] = meta[s]
  BY <1>3 DEF ChatsTyped, StoreFits
<1>5. \A s \in Sessions : Len(msgs'[s]) <= MaxMessages
  BY <1>1, <1>3 DEF ChatsTyped, StoreFits
<1>6. InLine(index')
  BY <1>3, WithoutInLine DEF ChatsTyped, StoreFits
<1>7. gone' \subseteq Chats!Messages
  <2>1. ASSUME NEW s \in ids PROVE Chats!Range(msgs[s]) \subseteq Chats!Messages
    <3>1. msgs[s] \in Seq(Chats!Messages)
      BY DEF ChatsInv, StoreTyped
    <3> QED
      BY <3>1 DEF Chats!Range
  <2> QED
    BY <1>3, <2>1 DEF ChatsTyped, StoreFits
<1>8. StoreFits'
  BY <1>2, <1>4, <1>5, <1>6, <1>7, StoreFitsNow
<1> QED
  BY <1>2, <1>8 DEF ChatsTyped

LEMMA ChatChangesTyped ==
  ASSUME NEW r \in ChatRequests, ChatsTyped, ChatsInv, Chats!AssistantAssumption,
         \/ Chats!Create(r) \/ Chats!CreateIndex(r) \/ Chats!Save(r) \/ Chats!SaveIndex(r)
         \/ Chats!ListRemove(r)
  PROVE  ChatsTyped'
<1> DEFINE k == req[r].kind
           p == req[r].step
           s == req[r].s
<1>1. IsFiniteSet(ChatRequests) /\ IsFiniteSet(Sessions) /\ MaxMessages \in Nat
  BY DEF Chats!AssistantAssumption, Chats!IsFiniteSet, IsFiniteSet
<1>2. /\ ChatTyped(r) /\ InLine(index)
      /\ p \in {"index", "set", "zadd"} => s \in Sessions
      /\ p \in {"create", "index"} => req[r].role = "user"
  BY DEF ChatsTyped, StoreFits, ChatsInv, ChatTyped
<1>3. Bounded(0)
  BY <1>1, ToldMany DEF Bounded
<1>4. /\ p \in {"create", "index"} /\ req[r].role = "user" => Unsaid(r, "user") /\ Unsaid(r, "assistant")
      /\ p \in {"set", "zadd"} /\ req[r].role = "user" => Unsaid(r, "assistant")
  BY DEF Unsaid
<1>5. ASSUME Turns(r) PROVE TalkTyped' /\ \A v : Bounded(v) => Bounded(v)'
  BY <1>1, <1>5, TurnsTyped
<1>6. CASE Chats!Create(r)
  <2>1. PICK t \in Sessions : /\ meta' = [meta EXCEPT ![t] = 0]
                              /\ Chats!Becomes(r, [step |-> "index", s |-> t])
    BY <1>6 DEF Chats!Create
  <2> DEFINE f == [step |-> "index", s |-> t]
  <2>2. CountTyped(r, f) /\ p = "create"
    BY <1>6 DEF CountTyped, FormTyped, Fields, Chats!Steps, Chats!Create, Chats!At
  <2>3. "step" \in DOMAIN f /\ f["step"] = "index" /\ "role" \notin DOMAIN f
    OBVIOUS
  <2>4. Chats!Becomes(r, f)
    BY <2>1
  <2> HIDE DEF f
  <2>5. Turns(r)
    BY <1>2, <1>4, <2>2, <2>3, <2>4, ChatTurns DEF Forward, StepOf, RoleOf
  <2>6. /\ meta' \in [Sessions -> {None} \cup Nat]
        /\ \A x \in Sessions : meta'[x] = meta[x] \/ Bounded(meta'[x])
    BY <1>3, <2>1 DEF ChatsTyped, StoreFits
  <2>7. UNCHANGED <<msgs, index, expiries, gone>>
    BY <1>6 DEF Chats!Create
  <2>8. StoreFits'
    BY <1>5, <2>5, <2>6, <2>7, StoreFitsNow
  <2> QED
    BY <1>5, <2>5, <2>8 DEF ChatsTyped
<1>7. CASE Chats!CreateIndex(r)
  <2>1. p = "index" /\ Chats!Becomes(r, [step |-> "card"]) /\ index' = Chats!Newest(index, s)
    BY <1>7, ChatGoesTo DEF Chats!CreateIndex, Chats!At
  <2>2. CountTyped(r, [step |-> "card"])
    BY DEF CountTyped, FormTyped, Fields, Chats!Steps
  <2>3. Turns(r)
    BY <1>2, <1>4, <2>1, <2>2, ChatTurns DEF Forward, StepOf, RoleOf
  <2>4. InLine(index')
    BY <1>2, <2>1, NewestInLine
  <2>5. UNCHANGED <<meta, msgs, expiries, gone>>
    BY <1>7 DEF Chats!CreateIndex
  <2>6. StoreFits'
    BY <1>5, <2>3, <2>4, <2>5, StoreFitsNow
  <2> QED
    BY <1>5, <2>3, <2>6 DEF ChatsTyped
<1>8. CASE Chats!Save(r)
  <2>1. /\ p = "set" /\ Chats!Becomes(r, [step |-> "zadd"])
        /\ meta' = [meta EXCEPT ![s] = req[r].count]
    BY <1>8, ChatGoesTo DEF Chats!Save, Chats!At
  <2>2. CountTyped(r, [step |-> "zadd"])
    BY DEF CountTyped, FormTyped, Fields, Chats!Steps
  <2>3. Turns(r)
    BY <1>2, <1>4, <2>1, <2>2, ChatTurns DEF Forward, StepOf, RoleOf
  <2>4. Bounded(req[r].count) /\ req[r].count \in Nat
    BY DEF ChatsTyped, TalkTyped, Bounded
  <2>5. /\ meta' \in [Sessions -> {None} \cup Nat]
        /\ \A x \in Sessions : meta'[x] = meta[x] \/ Bounded(meta'[x])
    BY <2>1, <2>4 DEF ChatsTyped, StoreFits
  <2>6. UNCHANGED <<msgs, index, expiries, gone>>
    BY <1>8 DEF Chats!Save
  <2>7. StoreFits'
    BY <1>5, <2>3, <2>5, <2>6, StoreFitsNow
  <2> QED
    BY <1>5, <2>3, <2>7 DEF ChatsTyped
<1>9. CASE Chats!SaveIndex(r)
  <2>1. /\ p = "zadd" /\ index' = Chats!Newest(index, s)
        /\ \/ Chats!Ended(r, "done")
           \/ req[r].role = "user" /\ Chats!Becomes(r, [step |-> "route", count |-> 0])
    BY <1>9 DEF Chats!SaveIndex, Chats!At
  <2> DEFINE f == [step |-> "route", count |-> 0]
  <2>2. CountTyped(r, f)
    BY <1>3 DEF CountTyped, FormTyped, Fields, Chats!Steps
  <2>3. "step" \in DOMAIN f /\ f["step"] = "route" /\ "role" \notin DOMAIN f
    OBVIOUS
  <2> HIDE DEF f
  <2>4. ASSUME req[r].role = "user", Chats!Becomes(r, f) PROVE Turns(r)
    BY <1>4, <2>1, <2>2, <2>3, <2>4, ChatTurns DEF Forward, StepOf, RoleOf
  <2>5. Turns(r)
    BY <1>1, <2>1, <2>4, ChatEnds DEF f
  <2>6. InLine(index')
    BY <1>2, <2>1, NewestInLine
  <2>7. UNCHANGED <<meta, msgs, expiries, gone>>
    BY <1>9 DEF Chats!SaveIndex
  <2>8. StoreFits'
    BY <1>5, <2>5, <2>6, <2>7, StoreFitsNow
  <2> QED
    BY <1>5, <2>5, <2>8 DEF ChatsTyped
<1>10. CASE Chats!ListRemove(r)
  <2>1. Turns(r)
    BY <1>1, <1>10, ChatEnds DEF Chats!ListRemove
  <2>2. InLine(index') /\ UNCHANGED <<meta, msgs, expiries, gone>>
    BY <1>2, <1>10, WithoutInLine DEF Chats!ListRemove
  <2>3. StoreFits'
    BY <1>5, <2>1, <2>2, StoreFitsNow
  <2> QED
    BY <1>5, <2>1, <2>3 DEF ChatsTyped
<1> QED
  BY <1>6, <1>7, <1>8, <1>9, <1>10

LEMMA ChatPushesTyped ==
  ASSUME NEW r \in ChatRequests, ChatsTyped, ChatsInv, Chats!AssistantAssumption, Chats!Push(r)
  PROVE  ChatsTyped'
<1> DEFINE s == req[r].s
           o == req[r].role
           all == Append(msgs[s], [of |-> r, role |-> o])
           cut == IF Len(all) > MaxMessages THEN Len(all) - MaxMessages ELSE 0
           f == [step |-> "set", count |-> req[r].count + 1]
<1>1. IsFiniteSet(ChatRequests) /\ IsFiniteSet(Sessions) /\ MaxMessages \in Nat
  BY DEF Chats!AssistantAssumption, Chats!IsFiniteSet, IsFiniteSet
<1>2. /\ req[r].step = "push" /\ s \in Sessions /\ o \in {"user", "assistant"}
      /\ req \in [ChatRequests -> ChatForm] /\ Bounded(req[r].count) /\ req[r].count \in Nat
      /\ DOMAIN msgs = Sessions /\ msgs[s] \in Seq(Chats!Messages)
  BY DEF Chats!Push, Chats!At, ChatsInv, ChatTyped, StoreTyped, ChatsTyped, TalkTyped, Bounded
<1>3. /\ msgs' = [msgs EXCEPT ![s] = SubSeq(all, cut + 1, Len(all))]
      /\ gone' = gone \cup {all[i] : i \in 1..cut}
      /\ Chats!Becomes(r, f) /\ UNCHANGED <<meta, index, expiries>>
  BY DEF Chats!Push
<1>4. all \in Seq(Chats!Messages) /\ Len(all) \in Nat
  <2>1. [of |-> r, role |-> o] \in Chats!Messages
    BY <1>2 DEF Chats!Messages, Chats!Roles
  <2> QED
    BY <1>2, <2>1
<1>5. cut \in 0..Len(all) /\ Len(all) - cut <= MaxMessages
  <2> HIDE DEF all
  <2> QED
    BY <1>1, <1>4
<1> HIDE DEF all, cut
<1>6. \A x \in Sessions : Len(msgs'[x]) <= MaxMessages
  <2>1. Len(SubSeq(all, cut + 1, Len(all))) <= MaxMessages
    BY <1>1, <1>4, <1>5
  <2> QED
    BY <1>2, <1>3, <2>1 DEF ChatsTyped, StoreFits
<1>7. gone' \subseteq Chats!Messages
  BY <1>3, <1>4, <1>5 DEF ChatsTyped, StoreFits
<1>8. PICK n \in ChatForm :
        /\ req' = [req EXCEPT ![r] = n]
        /\ \A x \in Fields : n[x] = IF x \in DOMAIN f THEN f[x] ELSE req[r][x]
  <2>1. FormTyped(f)
    BY <1>2 DEF FormTyped, Fields, Chats!Steps
  <2> QED
    BY <1>2, <1>3, <2>1, BecomesTyped
<1>9. n.step = "set" /\ n.role = o /\ n.count = req[r].count + 1 /\ req'[r] = n
      /\ req' \in [ChatRequests -> ChatForm]
      /\ \A x \in ChatRequests \ {r} : req'[x] = req[x]
  BY <1>2, <1>8 DEF Fields
<1>10. PICK who \in Chats!Roles : who = o
  BY <1>2 DEF Chats!Roles
<1>11. \A x \in ChatRequests : \A q \in Chats!Roles : Unsaid(x, q)' => Unsaid(x, q)
  BY <1>2, <1>9 DEF Unsaid, Chats!Roles
<1>12. /\ \A v : Bounded(v) => Bounded(v)'
       /\ \A v : Bounded(v) => Bounded(v + 1)'
  <2>1. Unsaid(r, who) /\ ~Unsaid(r, who)'
    BY <1>2, <1>9, <1>10 DEF Unsaid
  <2>2. \A v : Bounded(v) => Bounded(v)'
    BY <1>1, <1>11, ToldGrows
  <2>3. \A v : Bounded(v) => Bounded(v + 1)'
    BY <1>1, <1>11, <2>1, ToldOneMore
  <2> QED
    BY <2>2, <2>3
<1>13. ASSUME NEW x \in ChatRequests PROVE Bounded(req[x].count)'
  <2>1. PICK c : c = req[x].count
    OBVIOUS
  <2>2. Bounded(c)' /\ Bounded(c + 1)'
    BY <1>12, <2>1 DEF ChatsTyped, TalkTyped
  <2>3. req'[x].count = c \/ req'[x].count = c + 1
    BY <1>9, <2>1
  <2> QED
    BY <2>2, <2>3 DEF Bounded
<1>14. TalkTyped'
  <2>1. req' \in [ChatRequests -> ChatForm]
    BY <1>9
  <2>2. ChatForm' = ChatForm
    BY DEF ChatForm
  <2> QED
    BY <1>13, <2>1, <2>2 DEF TalkTyped
<1>15. StoreFits'
  BY <1>3, <1>6, <1>7, <1>12, StoreFitsNow
<1> QED
  BY <1>14, <1>15 DEF ChatsTyped

LEMMA ChatsTypedNext ==
  ASSUME Chats!AssistantAssumption, ChatsInv, ChatsTyped, Chats!Next \/ UNCHANGED assistantVars
  PROVE  ChatsTyped'
<1>1. IsFiniteSet(ChatRequests) /\ IsFiniteSet(Sessions) /\ MaxMessages \in Nat
  BY DEF Chats!AssistantAssumption, Chats!IsFiniteSet, IsFiniteSet
<1>2. ASSUME NEW r \in ChatRequests, Turns(r), UNCHANGED Chats!store PROVE ChatsTyped'
  <2>1. UNCHANGED <<meta, msgs, index, expiries, gone>>
    BY <1>2 DEF Chats!store
  <2>2. TalkTyped' /\ \A v : Bounded(v) => Bounded(v)'
    BY <1>1, <1>2, TurnsTyped
  <2>3. StoreFits'
    BY <2>1, <2>2, StoreFitsNow
  <2> QED
    BY <2>2, <2>3 DEF ChatsTyped
<1>3. ASSUME NEW r \in ChatRequests, Chats!Delete(r) \/ Chats!ClearRemove(r) \/ Chats!TrimRemove(r)
      PROVE  ChatsTyped'
  <2>1. chats \subseteq Sessions /\ ChatTyped(r) /\ req[r].ids \subseteq Sessions
    BY DEF ChatsInv, StoreTyped, ChatTyped
  <2>2. CASE Chats!Delete(r)
    BY <1>1, <2>1, <2>2, ChatEnds, ChatRemovesTyped DEF Chats!Delete
  <2>3. CASE Chats!ClearRemove(r)
    BY <1>1, <2>1, <2>3, ChatEnds, ChatRemovesTyped DEF Chats!ClearRemove
  <2>4. CASE Chats!TrimRemove(r)
    <3> DEFINE f == [ids |-> {}, step |-> IF req[r].kind = "chat" THEN "get" ELSE "read"]
    <3>1. /\ req[r].step = "trim" /\ Chats!Remove(req[r].ids) /\ Chats!Becomes(r, f)
          /\ UNCHANGED expiries
      BY <2>4 DEF Chats!TrimRemove, Chats!At
    <3>2. CountTyped(r, f)
      BY DEF CountTyped, FormTyped, Fields, Chats!Steps
    <3>3. "step" \in DOMAIN f /\ f["step"] \in {"get", "read"} /\ "role" \notin DOMAIN f
      OBVIOUS
    <3>4. req[r].role = "user" /\ Unsaid(r, "user") /\ Unsaid(r, "assistant")
      BY <2>1, <3>1 DEF ChatTyped, Unsaid
    <3> HIDE DEF f
    <3>5. Turns(r)
      BY <3>1, <3>2, <3>3, <3>4, ChatTurns DEF Forward, StepOf, RoleOf
    <3> QED
      BY <2>1, <3>1, <3>5, ChatRemovesTyped
  <2> QED
    BY <1>3, <2>2, <2>3, <2>4
<1>4. ASSUME NEW s \in Sessions, Chats!Expire(s) PROVE ChatsTyped'
  <2>1. /\ UNCHANGED <<req, index>> /\ expiries' = expiries + 1 /\ expiries < MaxExpiries
        /\ MaxExpiries \in Nat /\ expiries' \in 0..MaxExpiries
    BY <1>4 DEF Chats!Expire, Chats!AssistantAssumption, ChatsTyped, StoreFits
  <2>2. TalkTyped' /\ \A v : Bounded(v) => Bounded(v)'
    <3>1. \A x \in ChatRequests : \A o \in Chats!Roles : Unsaid(x, o)' => Unsaid(x, o)
      BY <2>1 DEF Unsaid
    <3>2. \A v : Bounded(v) => Bounded(v)'
      BY <1>1, <3>1, ToldGrows
    <3>3. ASSUME NEW x \in ChatRequests PROVE Bounded(req[x].count)'
      <4>1. PICK c : c = req[x].count
        OBVIOUS
      <4>2. Bounded(c)'
        BY <3>2, <4>1 DEF ChatsTyped, TalkTyped
      <4> QED
        BY <2>1, <4>1, <4>2 DEF Bounded
    <3> QED
      BY <2>1, <3>2, <3>3 DEF ChatsTyped, TalkTyped, ChatForm, Chats!Kinds, Chats!Steps, Chats!Roles
  <2>3. \/ meta' = [meta EXCEPT ![s] = None] /\ UNCHANGED <<msgs, gone>>
        \/ /\ msgs' = [msgs EXCEPT ![s] = <<>>]
           /\ gone' = gone \cup Chats!Range(msgs[s]) /\ UNCHANGED meta
    BY <1>4 DEF Chats!Expire
  <2>4. msgs[s] \in Seq(Chats!Messages) /\ DOMAIN msgs = Sessions
    BY DEF ChatsInv, StoreTyped
  <2>5. Chats!Range(msgs[s]) \subseteq Chats!Messages
    BY <2>4 DEF Chats!Range
  <2>6. CASE meta' = [meta EXCEPT ![s] = None] /\ UNCHANGED <<msgs, gone>>
    <3>1. /\ meta' \in [Sessions -> {None} \cup Nat]
          /\ \A x \in Sessions : meta'[x] = None \/ meta'[x] = meta[x]
      BY <2>6 DEF ChatsTyped, StoreFits
    <3>2. StoreFits'
      BY <2>1, <2>2, <2>6, <3>1, StoreFitsNow
    <3> QED
      BY <2>2, <3>2 DEF ChatsTyped
  <2>7. CASE /\ msgs' = [msgs EXCEPT ![s] = <<>>]
             /\ gone' = gone \cup Chats!Range(msgs[s]) /\ UNCHANGED meta
    <3>1. \A x \in Sessions : Len(msgs'[x]) <= MaxMessages
      BY <1>1, <2>4, <2>7 DEF ChatsTyped, StoreFits
    <3>2. gone' \subseteq Chats!Messages
      BY <2>5, <2>7 DEF ChatsTyped, StoreFits
    <3>3. StoreFits'
      BY <2>1, <2>2, <2>7, <3>1, <3>2, StoreFitsNow
    <3> QED
      BY <2>2, <3>3 DEF ChatsTyped
  <2> QED
    BY <2>3, <2>6, <2>7
<1>5. CASE UNCHANGED assistantVars
  <2>1. UNCHANGED <<meta, msgs, index, req, expiries, gone>>
    BY <1>5 DEF assistantVars
  <2>2. Told' = Told
    BY <2>1 DEF Told, Unsaid
  <2>3. TalkTyped'
    BY <2>1, <2>2 DEF ChatsTyped, TalkTyped, Bounded, ChatForm, Chats!Kinds, Chats!Steps, Chats!Roles
  <2>4. \A v : Bounded(v) => Bounded(v)'
    BY <2>2 DEF Bounded
  <2>5. StoreFits'
    BY <2>1, <2>4, StoreFitsNow
  <2> QED
    BY <2>3, <2>5 DEF ChatsTyped
<1>6. ASSUME NEW r \in ChatRequests,
             Chats!Chat(r) \/ Chats!List(r) \/ Chats!Rename(r) \/ Chats!Delete(r)
             \/ Chats!ClearRead(r) \/ Chats!Progress(r)
      PROVE  ChatsTyped'
  BY <1>1, <1>2, <1>3, <1>6, ChatArrivesTyped, ChatReadsTyped, ChatChangesTyped, ChatPushesTyped
  DEF Chats!Progress
<1> QED
  BY <1>4, <1>5, <1>6 DEF Chats!Next

LEMMA ChatsTypedInit ==
  ASSUME Chats!AssistantAssumption, Chats!Init PROVE ChatsTyped
<1>1. /\ IsFiniteSet(ChatRequests) /\ IsFiniteSet(Sessions)
      /\ MaxMessages \in Nat /\ MaxMessages >= 2 /\ MaxExpiries \in Nat
      /\ Old \subseteq Sessions
  BY DEF Chats!AssistantAssumption, Chats!IsFiniteSet, IsFiniteSet
<1>2. IsFiniteSet(Told) /\ Cardinality(Told) \in Nat /\ Cardinality(Sessions) \in Nat
  BY <1>1, ToldMany, FS_CardinalityType
<1>3. TalkTyped
  <2>1. Chats!Fresh \in ChatForm /\ Chats!Fresh.count = 0
    BY <1>2 DEF ChatForm, Chats!Fresh, Chats!Kinds, Chats!Steps, Chats!Roles
  <2>2. req = [r \in ChatRequests |-> Chats!Fresh]
    BY DEF Chats!Init
  <2>3. Bounded(0)
    BY <1>2 DEF Bounded
  <2> QED
    BY <2>1, <2>2, <2>3 DEF TalkTyped
<1>4. /\ meta \in [Sessions -> {None} \cup Nat]
      /\ \A s \in Sessions : meta[s] = None \/ Bounded(meta[s])
  BY <1>2 DEF Chats!Init, Bounded
<1>5. \A s \in Sessions : Len(msgs[s]) <= MaxMessages
  BY <1>1 DEF Chats!Init
<1>6. InLine(index)
  <2> DEFINE n == Chats!Cardinality(Old)
  <2>1. PICK place \in Chats!Bijection(Old, 1..n) :
          index = {p \in Old \X Old : place[p[1]] <= place[p[2]]}
    BY DEF Chats!Init
  <2>2. n \in Nat
    <3>1. IsFiniteSet(Old) /\ n = Cardinality(Old)
      BY <1>1, FS_Subset DEF Chats!Cardinality, Cardinality
    <3> HIDE DEF n
    <3> QED
      BY <3>1, FS_CardinalityType
  <2> HIDE DEF n
  <2>3. \A x \in Old : place[x] \in Int
    BY <2>1, <2>2 DEF Chats!Bijection, Chats!Injection
  <2>4. \A x, y \in Old : place[x] = place[y] => x = y
    BY <2>1 DEF Chats!Bijection, Chats!Injection, Chats!IsInjective
  <2>5. ASSUME NEW x, NEW y
        PROVE  <<x, y>> \in index <=> x \in Old /\ y \in Old /\ place[x] <= place[y]
    BY <2>1
  <2>6. Chats!Listed(index) \subseteq Old
    BY <2>1 DEF Chats!Listed
  <2>7. index \subseteq Sessions \X Sessions
    BY <1>1, <2>1
  <2> QED
    BY <1>1, <2>3, <2>4, <2>5, <2>6, <2>7 DEF InLine
<1>7. expiries \in 0..MaxExpiries /\ gone \subseteq Chats!Messages
  BY <1>1 DEF Chats!Init
<1> QED
  BY <1>3, <1>4, <1>5, <1>6, <1>7 DEF ChatsTyped, StoreFits

LEMMA ChatsTypeOK ==
  ASSUME Chats!AssistantAssumption, ChatsInv, ChatsTyped
  PROVE  Chats!TypeOK
<1>1. /\ IsFiniteSet(ChatRequests) /\ IsFiniteSet(Sessions)
      /\ Chats!Cardinality(Sessions) = Cardinality(Sessions)
      /\ Chats!Cardinality(ChatRequests) = Cardinality(ChatRequests)
      /\ Chats!Cardinality(Chats!Listed(index)) = Cardinality(Chats!Listed(index))
      /\ \A s : Chats!Cardinality(Chats!UpTo(index, s)) = Cardinality(Chats!UpTo(index, s))
  BY DEF Chats!AssistantAssumption, Chats!IsFiniteSet, IsFiniteSet, Chats!Cardinality, Cardinality
<1> DEFINE most == 2 * Cardinality(ChatRequests) + 2
<1>2. /\ Cardinality(ChatRequests) \in Nat /\ Cardinality(Told) \in Nat
      /\ \A v : Bounded(v) => v \in 0..most
  BY <1>1, ToldMany DEF Bounded
<1>3. {Cardinality(Chats!UpTo(index, s)) : s \in Chats!Listed(index)}
        = 1..Cardinality(Chats!Listed(index))
  BY <1>1, PlacesInLine DEF ChatsTyped, StoreFits
<1>4. meta \in [Sessions -> {None} \cup 0..most]
  BY <1>2 DEF ChatsTyped, StoreFits
<1>5. req \in [ChatRequests ->
        [kind : Chats!Kinds, step : Chats!Steps, s : Sessions \cup {None}, role : Chats!Roles,
         branch : {"reply", "tool", "caught"}, ids : SUBSET Sessions,
         over : 0..Cardinality(Sessions), count : 0..most]]
  <2>1. \A r \in ChatRequests : req[r] \in ChatForm /\ req[r].count \in 0..most
    BY <1>2 DEF ChatsTyped, TalkTyped
  <2> HIDE DEF most
  <2> QED
    BY <2>1 DEF ChatForm, ChatsTyped, TalkTyped
<1>6. /\ index \subseteq Sessions \X Sessions /\ expiries \in 0..MaxExpiries
      /\ gone \subseteq Chats!Messages
      /\ \A s \in Sessions : msgs[s] \in Seq(Chats!Messages) /\ Len(msgs[s]) <= MaxMessages
      /\ chats \subseteq Sessions /\ quiet \subseteq chats
  BY DEF ChatsTyped, StoreFits, InLine, ChatsInv, StoreTyped
<1> QED
  BY <1>1, <1>3, <1>4, <1>5, <1>6 DEF Chats!TypeOK

(***************************************************************************)
(* The types of the documentation.                                         *)
(***************************************************************************)
OneOf(T) == {{}} \cup {{t} : t \in T}
Moment   == 0..MaxDDL
Imprint  == {Docs!Forced} \cup ((0..Cardinality(Objects)) \X (0..MaxTicks))
DocsCheck ==
  [pc : {"new", "fingerprint", "harvest", "meta", "done"}, asked : Moment, fingerprint : Imprint,
   previous : OneOf(Docs!Snapshot), tables : SUBSET Objects, columns : [Objects -> Moment],
   read : UNION {[D -> Moment] : D \in SUBSET Docs!Queries}, got : Moment \cup {None}]

DocsTyped ==
  /\ schema \in [Objects -> Moment] /\ changedAt \in [Objects -> 0..MaxTicks]
  /\ ddl \in Moment /\ tick \in 0..MaxTicks /\ restarts \in 0..MaxRestarts
  /\ secret \in Keys \cup {None} /\ running \in BOOLEAN
  /\ file \in OneOf(Docs!Snapshot) /\ cached \in OneOf(Docs!Snapshot)
  /\ snapMeta \in OneOf(Imprint)
  /\ check \in [Refreshes -> DocsCheck]
  /\ \A r \in Refreshes : /\ Refreshing(r) => secret \in Keys
                          /\ check[r].pc = "meta" => file # {}

LEMMA DocsCounts == \A s : Docs!Cardinality(s) = Cardinality(s) /\ (Docs!IsFiniteSet(s) <=> IsFiniteSet(s))
BY DEF Docs!Cardinality, Cardinality, Docs!IsFiniteSet, IsFiniteSet

LEMMA DocsTypeOK == ASSUME DocsTyped PROVE Docs!TypeOK
<1>1. ASSUME NEW T, NEW S \in OneOf(T) PROVE Docs!Cardinality(S) <= 1 /\ \A x \in S : x \in T
  <2>1. CASE S = {}
    <3>1. Cardinality({}) = 0
      BY FS_EmptySet
    <3>2. Docs!Cardinality(S) = 0
      BY <2>1, <3>1, DocsCounts
    <3> QED
      BY <2>1, <3>2
  <2>2. ASSUME NEW t \in T, S = {t} PROVE Docs!Cardinality(S) <= 1 /\ \A x \in S : x \in T
    <3>1. Cardinality({t}) = 1
      BY FS_Singleton
    <3>2. Docs!Cardinality(S) = 1
      BY <2>2, <3>1, DocsCounts
    <3> QED
      BY <2>2, <3>2
  <2> QED
    BY <2>1, <2>2 DEF OneOf
<1>2. \A f \in Imprint : Docs!IsFingerprint(f)
  BY DocsCounts DEF Imprint, Docs!IsFingerprint
<1>3. \A s \in {file, cached} : Docs!Cardinality(s) <= 1 /\ \A x \in s : x \in Docs!Snapshot
  BY <1>1 DEF DocsTyped
<1>4. Docs!Cardinality(snapMeta) <= 1 /\ \A x \in snapMeta : Docs!IsFingerprint(x)
  BY <1>1, <1>2 DEF DocsTyped
<1>5. ASSUME NEW r \in Refreshes
      PROVE  /\ check[r].pc \in {"new", "fingerprint", "harvest", "meta", "done"}
             /\ check[r].asked \in 0..MaxDDL /\ Docs!IsFingerprint(check[r].fingerprint)
             /\ Docs!Cardinality(check[r].previous) <= 1
             /\ \A x \in check[r].previous : x \in Docs!Snapshot
             /\ check[r].tables \subseteq Objects
             /\ check[r].columns \in [Objects -> 0..MaxDDL]
             /\ DOMAIN check[r].read \subseteq Docs!Queries
             /\ \A q \in DOMAIN check[r].read : check[r].read[q] \in 0..MaxDDL
             /\ check[r].got \in (0..MaxDDL) \cup {None}
  <2>1. check[r] \in DocsCheck
    BY DEF DocsTyped
  <2>2. Docs!Cardinality(check[r].previous) <= 1 /\ \A x \in check[r].previous : x \in Docs!Snapshot
    BY <1>1, <2>1 DEF DocsCheck
  <2>3. PICK D \in SUBSET Docs!Queries : check[r].read \in [D -> Moment]
    BY <2>1 DEF DocsCheck
  <2>4. Docs!IsFingerprint(check[r].fingerprint)
    BY <1>2, <2>1 DEF DocsCheck
  <2> QED
    BY <2>1, <2>2, <2>3, <2>4 DEF DocsCheck, Moment
<1> QED
  BY <1>3, <1>4, <1>5 DEF DocsTyped, Docs!TypeOK, Docs!IsOne, Moment

\* The latest of some moments.
LEMMA LatestOf ==
  ASSUME NEW n \in Nat, NEW S \in SUBSET (0..n), S # {}
  PROVE  Docs!Max(S) \in S
<1> DEFINE T == {n - x : x \in S}
<1>1. \A x \in S : x \in 0..n
  OBVIOUS
<1>2. T \in SUBSET Nat /\ T # {}
  <2>1. \A x \in S : n - x \in Nat
    BY <1>1
  <2> QED
    BY <2>1
<1>3. PICK t \in T : \A y \in T : t <= y
  <2> HIDE DEF T
  <2> QED
    BY <1>2, LeastOf
<1>4. PICK m \in S : t = n - m
  BY <1>3
<1>5. ASSUME NEW y \in S PROVE m >= y
  <2>1. n - y \in T
    OBVIOUS
  <2>2. n - m <= n - y
    BY <1>3, <1>4, <2>1
  <2> QED
    BY <1>1, <2>2
<1>6. \E x \in S : \A y \in S : x >= y
  BY <1>5
<1> QED
  BY <1>6 DEF Docs!Max

LEMMA PrintTyped ==
  ASSUME Docs!SchemaDocsAssumption, DocsTyped
  PROVE  Docs!Fingerprint \in Imprint
<1>1. MaxTicks \in Nat /\ MaxDDL \in Nat /\ IsFiniteSet(Objects)
  BY DocsCounts DEF Docs!SchemaDocsAssumption
<1>2. Docs!Live \subseteq Objects
  BY DEF Docs!Live
<1>3. Docs!Cardinality(Docs!Live) \in 0..Cardinality(Objects)
  <2>1. IsFiniteSet(Docs!Live) /\ Cardinality(Docs!Live) <= Cardinality(Objects)
    BY <1>1, <1>2, FS_Subset
  <2>2. Cardinality(Docs!Live) \in Nat /\ Cardinality(Objects) \in Nat
    BY <1>1, <2>1, FS_CardinalityType
  <2> QED
    BY <2>1, <2>2, DocsCounts
<1>4. Docs!Max({0} \cup {changedAt[o] : o \in Docs!Live}) \in 0..MaxTicks
  <2> DEFINE S == {0} \cup {changedAt[o] : o \in Docs!Live}
  <2>1. S \in SUBSET (0..MaxTicks) /\ S # {}
    BY <1>1, <1>2 DEF DocsTyped
  <2> HIDE DEF S
  <2>2. Docs!Max(S) \in 0..MaxTicks
    BY <1>1, <2>1, LatestOf
  <2> QED
    BY <2>2 DEF S
<1> QED
  BY <1>3, <1>4 DEF Docs!Fingerprint, Imprint

LEMMA DocsTypedInit ==
  ASSUME Docs!SchemaDocsAssumption, Docs!Init PROVE DocsTyped
<1>1. 0 \in Moment /\ 0 \in 0..MaxTicks /\ 0 \in 0..MaxRestarts
  BY DEF Docs!SchemaDocsAssumption, Moment
<1>2. [q \in {} |-> 0] \in UNION {[D -> Moment] : D \in SUBSET Docs!Queries}
  <2>1. [q \in {} |-> 0] \in [{} -> Moment] /\ {} \in SUBSET Docs!Queries
    OBVIOUS
  <2> QED
    BY <2>1
<1>3. Docs!NewRequest \in DocsCheck
  BY <1>1, <1>2 DEF Docs!NewRequest, DocsCheck, OneOf, Imprint
<1>4. /\ file = {} /\ cached = {} /\ snapMeta = {} /\ check = [r \in Refreshes |-> Docs!NewRequest]
  BY DEF Docs!Init
<1>5. \A r \in Refreshes : check[r].pc = "new"
  BY <1>4 DEF Docs!NewRequest
<1> QED
  BY <1>1, <1>3, <1>4, <1>5 DEF Docs!Init, DocsTyped, OneOf, Refreshing

\* A request changes alone.
LEMMA CheckTyped ==
  ASSUME DocsTyped, NEW r \in Refreshes, NEW q \in DocsCheck,
         check' = [check EXCEPT ![r] = q],
         UNCHANGED <<schema, changedAt, ddl, tick, restarts, secret>>, running' \in BOOLEAN,
         file' \in OneOf(Docs!Snapshot), cached' \in OneOf(Docs!Snapshot),
         snapMeta' \in OneOf(Imprint), file # {} => file' # {},
         q.pc \in {"fingerprint", "harvest", "meta"} => secret \in Keys,
         q.pc = "meta" => file' # {}
  PROVE  DocsTyped'
<1>1. check' \in [Refreshes -> DocsCheck] /\ \A o \in Refreshes \ {r} : check'[o] = check[o]
  BY DEF DocsTyped
<1>2. ASSUME NEW o \in Refreshes
      PROVE  Refreshing(o)' => secret' \in Keys
  <2>1. CASE o = r
    BY <2>1 DEF DocsTyped, Refreshing
  <2>2. CASE o # r
    BY <1>1, <2>2 DEF DocsTyped, Refreshing
  <2> QED
    BY <2>1, <2>2
<1>3. ASSUME NEW o \in Refreshes PROVE check'[o].pc = "meta" => file' # {}
  <2>1. CASE o = r
    BY <2>1 DEF DocsTyped
  <2>2. CASE o # r
    BY <1>1, <2>2 DEF DocsTyped
  <2> QED
    BY <2>1, <2>2
<1>4. /\ schema' \in [Objects -> Moment] /\ changedAt' \in [Objects -> 0..MaxTicks]
      /\ ddl' \in Moment /\ tick' \in 0..MaxTicks /\ restarts' \in 0..MaxRestarts
      /\ secret' \in Keys \cup {None}
  BY DEF DocsTyped
<1> HIDE DEF Refreshing
<1> QED
  BY <1>1, <1>2, <1>3, <1>4 DEF DocsTyped

EndedRequest(r, g) == [Docs!NewRequest EXCEPT !.pc = "done", !.asked = check[r].asked, !.got = g]
LEMMA EndTyped ==
  ASSUME Docs!SchemaDocsAssumption, DocsTyped, NEW r \in Refreshes, NEW g \in Moment \cup {None}
  PROVE  EndedRequest(r, g) \in DocsCheck
<1>1. check[r].asked \in Moment /\ 0 \in Moment
  BY DEF DocsTyped, DocsCheck, Docs!SchemaDocsAssumption, Moment
<1>2. [q \in {} |-> 0] \in UNION {[D -> Moment] : D \in SUBSET Docs!Queries}
  <2>1. [q \in {} |-> 0] \in [{} -> Moment] /\ {} \in SUBSET Docs!Queries
    OBVIOUS
  <2> QED
    BY <2>1
<1>3. Docs!NewRequest \in DocsCheck
  BY <1>1, <1>2 DEF Docs!NewRequest, DocsCheck, OneOf, Imprint
<1> HIDE DEF Docs!NewRequest
<1> QED
  BY <1>1, <1>3 DEF EndedRequest, DocsCheck

LEMMA DocsEndsTyped ==
  ASSUME Docs!SchemaDocsAssumption, DocsTyped, NEW r \in Refreshes, NEW g \in Moment \cup {None},
         Docs!Ends(r, g),
         UNCHANGED <<schema, changedAt, ddl, tick, restarts, secret, file>>, running' \in BOOLEAN,
         cached' \in {cached, file}, snapMeta' \in OneOf(Imprint)
  PROVE  DocsTyped'
<1>1. check' = [check EXCEPT ![r] = EndedRequest(r, g)]
  BY DEF Docs!Ends, EndedRequest
<1>2. EndedRequest(r, g) \in DocsCheck
  BY EndTyped
<1>3. EndedRequest(r, g).pc = "done"
  BY DEF EndedRequest, Docs!NewRequest
<1>4. file' \in OneOf(Docs!Snapshot) /\ cached' \in OneOf(Docs!Snapshot)
  BY DEF DocsTyped
<1> QED
  BY <1>1, <1>2, <1>3, <1>4, CheckTyped

\* The snapshot that is stored has its moment.
LEMMA SeenTyped ==
  ASSUME DocsTyped, file # {} PROVE (CHOOSE s \in file : TRUE).seen \in Moment
<1>1. PICK s \in Docs!Snapshot : file = {s}
  BY DEF DocsTyped, OneOf
<1>2. (CHOOSE x \in file : TRUE) = s
  BY <1>1
<1> QED
  BY <1>1, <1>2 DEF Docs!Snapshot, Moment

LEMMA DocsForcesTyped ==
  ASSUME Docs!SchemaDocsAssumption, DocsTyped, NEW r \in Refreshes,
         Docs!ForceRefresh(r) \/ Docs!ForceRefreshFails(r)
  PROVE  DocsTyped'
<1>0. UNCHANGED <<schema, changedAt, ddl, tick, restarts, secret, file, cached>>
  BY DEF Docs!ForceRefresh, Docs!ForceRefreshFails, Docs!schemaVars
<1>1. snapMeta' \in OneOf(Imprint) /\ running' \in BOOLEAN
  <2>1. snapMeta' \in {snapMeta, {}, {Docs!Forced}} /\ running' \in {running, TRUE}
    BY DEF Docs!ForceRefresh, Docs!ForceRefreshFails
  <2> QED
    BY <2>1 DEF DocsTyped, OneOf, Imprint
<1>2. CASE Docs!Ends(r, None)
  BY <1>0, <1>1, <1>2, DocsEndsTyped
<1>3. CASE /\ check' = [check EXCEPT ![r] = [@ EXCEPT !.pc = "fingerprint", !.asked = ddl]]
           /\ secret # None
  <2>1. [check[r] EXCEPT !.pc = "fingerprint", !.asked = ddl] \in DocsCheck
    BY DEF DocsTyped, DocsCheck
  <2>2. [check[r] EXCEPT !.pc = "fingerprint", !.asked = ddl].pc = "fingerprint"
    BY DEF DocsTyped, DocsCheck
  <2>3. secret \in Keys /\ check' = [check EXCEPT ![r] = [check[r] EXCEPT !.pc = "fingerprint", !.asked = ddl]]
    BY <1>3 DEF DocsTyped
  <2>4. file' \in OneOf(Docs!Snapshot) /\ cached' \in OneOf(Docs!Snapshot) /\ file' = file
    BY <1>0 DEF DocsTyped
  <2> QED
    BY <1>0, <1>1, <2>1, <2>2, <2>3, <2>4, CheckTyped
<1> QED
  BY <1>2, <1>3 DEF Docs!ForceRefresh, Docs!ForceRefreshFails

LEMMA DocsChecksTyped ==
  ASSUME Docs!SchemaDocsAssumption, DocsTyped, NEW r \in Refreshes,
         Docs!Check(r) \/ Docs!CheckFails(r)
  PROVE  DocsTyped'
<1>0. /\ UNCHANGED <<schema, changedAt, ddl, tick, restarts, secret, file, snapMeta, cached>>
      /\ running' \in BOOLEAN /\ snapMeta' \in OneOf(Imprint) /\ cached' \in {cached, file}
      /\ file' \in OneOf(Docs!Snapshot) /\ cached' \in OneOf(Docs!Snapshot)
      /\ check[r].pc \in {"fingerprint", "harvest"}
  BY DEF DocsTyped, Docs!Check, Docs!CheckFails, Docs!schemaVars, Docs!diskVars, Docs!Throws
<1>1. CASE Docs!Ends(r, None)
  BY <1>0, <1>1, DocsEndsTyped
<1>2. CASE Docs!Ends(r, (CHOOSE s \in file : TRUE).seen) /\ file # {}
  BY <1>0, <1>2, SeenTyped, DocsEndsTyped
<1>3. CASE check' = [check EXCEPT ![r] = [@ EXCEPT !.pc = "harvest",
                                            !.fingerprint = Docs!Fingerprint, !.previous = Docs!Load]]
  <2> DEFINE q == [check[r] EXCEPT !.pc = "harvest", !.fingerprint = Docs!Fingerprint,
                                   !.previous = Docs!Load]
  <2>1. Docs!Fingerprint \in Imprint
    BY PrintTyped
  <2>2. Docs!Load \in OneOf(Docs!Snapshot)
    BY DEF Docs!Load, DocsTyped, OneOf
  <2>3. q \in DocsCheck /\ q.pc = "harvest"
    BY <2>1, <2>2 DEF DocsTyped, DocsCheck
  <2>4. secret \in Keys
    BY <1>0 DEF DocsTyped, Refreshing
  <2>5. check' = [check EXCEPT ![r] = q]
    BY <1>3
  <2> HIDE DEF q
  <2> QED
    BY <1>0, <2>3, <2>4, <2>5, CheckTyped
<1> QED
  BY <1>1, <1>2, <1>3 DEF Docs!Check, Docs!CheckFails, Docs!Throws

LEMMA DocsHarvestsTyped ==
  ASSUME Docs!SchemaDocsAssumption, DocsTyped, NEW r \in Refreshes, NEW which \in Docs!Queries,
         Docs!Harvest(r, which)
  PROVE  DocsTyped'
<1>0. /\ UNCHANGED <<schema, changedAt, ddl, tick, restarts, secret, file, snapMeta, cached, running>>
      /\ check[r].pc = "harvest" /\ check[r] \in DocsCheck
  BY DEF DocsTyped, Docs!Harvest, Docs!schemaVars, Docs!diskVars
<1>1. PICK ts : ts = IF which = "tables" THEN Docs!Live ELSE check[r].tables
  OBVIOUS
<1>2. PICK cs : cs = IF which = "columns" THEN schema ELSE check[r].columns
  OBVIOUS
<1>3. PICK rd : rd = [p \in DOMAIN check[r].read \cup {which} |->
                        IF p = which THEN ddl ELSE check[r].read[p]]
  OBVIOUS
<1>4. check' = [check EXCEPT ![r] = [@ EXCEPT !.tables = ts, !.columns = cs, !.read = rd]]
  BY <1>1, <1>2, <1>3 DEF Docs!Harvest
<1>5. ts \subseteq Objects /\ cs \in [Objects -> Moment]
  BY <1>0, <1>1, <1>2 DEF Docs!Live, DocsTyped, DocsCheck
<1>6. rd \in UNION {[D -> Moment] : D \in SUBSET Docs!Queries}
  <2>1. PICK D \in SUBSET Docs!Queries : check[r].read \in [D -> Moment]
    BY <1>0 DEF DocsCheck
  <2>2. rd \in [D \cup {which} -> Moment] /\ D \cup {which} \in SUBSET Docs!Queries
    BY <1>3, <2>1 DEF DocsTyped
  <2> QED
    BY <2>2
<1> DEFINE q == [check[r] EXCEPT !.tables = ts, !.columns = cs, !.read = rd]
<1>7. q \in DocsCheck /\ q.pc = "harvest"
  BY <1>0, <1>5, <1>6 DEF DocsCheck
<1>8. check' = [check EXCEPT ![r] = q] /\ secret \in Keys
  BY <1>0, <1>4 DEF DocsTyped, Refreshing
<1>9. /\ running' \in BOOLEAN /\ snapMeta' \in OneOf(Imprint)
      /\ file' \in OneOf(Docs!Snapshot) /\ cached' \in OneOf(Docs!Snapshot)
  BY <1>0 DEF DocsTyped
<1> HIDE DEF q
<1> QED
  BY <1>0, <1>7, <1>8, <1>9, CheckTyped

LEMMA DocsMetaTyped ==
  ASSUME Docs!SchemaDocsAssumption, DocsTyped, NEW r \in Refreshes,
         Docs!WriteMeta(r) \/ Docs!WriteMetaFails(r)
  PROVE  DocsTyped'
<1>0. /\ UNCHANGED <<schema, changedAt, ddl, tick, restarts, secret, file>>
      /\ running' \in BOOLEAN /\ cached' \in {cached, file} /\ check[r].pc = "meta"
  BY DEF Docs!WriteMeta, Docs!WriteMetaFails, Docs!schemaVars, Docs!Throws
<1>1. snapMeta' \in OneOf(Imprint)
  <2>1. check[r].fingerprint \in Imprint /\ snapMeta \in OneOf(Imprint)
    BY DEF DocsTyped, DocsCheck
  <2>2. snapMeta' \in {snapMeta, {}, {check[r].fingerprint}}
    BY DEF Docs!WriteMeta, Docs!WriteMetaFails
  <2> QED
    BY <2>1, <2>2 DEF OneOf
<1>2. file # {}
  BY <1>0 DEF DocsTyped
<1>3. (CHOOSE s \in file : TRUE).seen \in Moment
  BY <1>2, SeenTyped
<1>4. Docs!Ends(r, None) \/ Docs!Ends(r, (CHOOSE s \in file : TRUE).seen)
  BY DEF Docs!WriteMeta, Docs!WriteMetaFails, Docs!Throws
<1> QED
  BY <1>0, <1>1, <1>3, <1>4, DocsEndsTyped

\* The snapshot of what was read.
LEMMA TakenTyped ==
  ASSUME Docs!SchemaDocsAssumption, DocsTyped, NEW r \in Refreshes,
         check[r].pc = "harvest", DOMAIN check[r].read = Docs!Queries
  PROVE  Docs!Taken(r) \in Docs!Snapshot
<1> DEFINE columns == [o \in Objects |-> IF o \in check[r].tables THEN check[r].columns[o] ELSE 0]
           bare == [tables |-> check[r].tables, columns |-> columns]
           new == Docs!Taken(r)
<1>0. /\ check[r] \in DocsCheck /\ HistoryLimit \in Nat \ {0} /\ 0 \in Moment /\ MaxDDL \in Nat
      /\ secret \in Keys /\ check[r].tables \subseteq Objects
  BY DEF DocsTyped, DocsCheck, Docs!SchemaDocsAssumption, Moment, Refreshing
<1>1. columns \in [Objects -> Moment]
  BY <1>0 DEF DocsCheck
<1>2. Docs!Min({check[r].read[q] : q \in Docs!Queries}) \in Moment
  <2>1. PICK D \in SUBSET Docs!Queries : check[r].read \in [D -> Moment]
    BY <1>0 DEF DocsCheck
  <2>2. PICK a, b \in Moment : a = check[r].read["tables"] /\ b = check[r].read["columns"]
    BY <2>1 DEF Docs!Queries
  <2>3. {check[r].read[q] : q \in Docs!Queries} = {a, b}
    BY <2>2 DEF Docs!Queries
  <2>4. Docs!Min({a, b}) \in {a, b}
    BY <1>0, MinOfTwo DEF Moment
  <2> QED
    BY <2>3, <2>4
<1>3. ASSUME NEW h \in Seq(Docs!Change), NEW n \in 1..HistoryLimit, Len(h) = n
      PROVE  h \in UNION {[1..m -> Docs!Change] : m \in 1..HistoryLimit}
  <2>1. h \in [1..n -> Docs!Change]
    BY <1>3
  <2> QED
    BY <2>1
<1>4. new.history \in UNION {[1..m -> Docs!Change] : m \in 1..HistoryLimit}
  <2>1. CASE check[r].previous = {}
    <3>1. new.history = SubSeq(<<Docs!NoChange>>, 1, Docs!Min({HistoryLimit, Len(<<Docs!NoChange>>)}))
      BY <2>1 DEF Docs!Taken
    <3>2. Docs!Min({HistoryLimit, Len(<<Docs!NoChange>>)}) = 1
      BY <1>0, MinOfTwo
    <3>3. Docs!NoChange \in Docs!Change
      BY DEF Docs!NoChange, Docs!Change
    <3> DEFINE one == <<Docs!NoChange>>
    <3>4. \A i \in 1..1 : one[i] \in Docs!Change
      BY <3>3
    <3>5. one \in Seq(Docs!Change) /\ Len(one) = 1
      BY <3>3
    <3> HIDE DEF new, one
    <3>6. SubSeq(one, 1, 1) \in Seq(Docs!Change) /\ Len(SubSeq(one, 1, 1)) = 1
      BY <3>4, <3>5, SubSeqProperties
    <3>7. new.history \in Seq(Docs!Change) /\ Len(new.history) = 1
      BY <3>1, <3>2, <3>6 DEF one
    <3>8. 1 \in 1..HistoryLimit
      BY <1>0
    <3> QED
      BY <1>3, <3>7, <3>8
  <2>2. CASE check[r].previous # {}
    <3>1. PICK old \in Docs!Snapshot : check[r].previous = {old}
      BY <1>0, <2>2 DEF DocsCheck, OneOf
    <3> DEFINE story == <<Docs!Diff(old, bare)>> \o old.history
               n == Docs!Min({HistoryLimit, Len(story)})
    <3>2. new.history = SubSeq(story, 1, n)
      <4>1. (CHOOSE s \in check[r].previous : TRUE) = old /\ check[r].previous # {}
        BY <3>1
      <4> QED
        BY <4>1 DEF Docs!Taken
    <3>3. Docs!Diff(old, bare) \in Docs!Change
      BY <1>0, <3>1 DEF Docs!Diff, Docs!Change, Docs!Snapshot
    <3>4. old.history \in Seq(Docs!Change)
      <4>1. PICK m \in 1..HistoryLimit : old.history \in [1..m -> Docs!Change]
        BY <3>1 DEF Docs!Snapshot
      <4>2. m \in Nat
        BY <1>0
      <4> QED
        BY <4>1, <4>2
    <3>5. Len(story) = Len(old.history) + 1 /\ Len(old.history) \in Nat
      BY <3>3, <3>4
    <3>6. n \in 1..Len(old.history) + 1 /\ n \in 1..HistoryLimit
      <4> HIDE DEF story
      <4> QED
        BY <1>0, <3>5, MinOfTwo
    <3> HIDE DEF n, new, bare
    <3>7. SubSeq(story, 1, n) \in Seq(Docs!Change) /\ Len(SubSeq(story, 1, n)) = n
      BY <3>3, <3>4, <3>6, StoryGoesOn
    <3> QED
      BY <1>3, <3>2, <3>6, <3>7
  <2> QED
    BY <2>1, <2>2
<1>5. new = [key |-> secret, tables |-> check[r].tables, columns |-> columns,
             seen |-> Docs!Min({check[r].read[q] : q \in Docs!Queries}), history |-> new.history]
  BY DEF Docs!Taken
<1>6. PICK h, last : h = new.history /\ last = Docs!Min({check[r].read[q] : q \in Docs!Queries})
  OBVIOUS
<1> HIDE DEF new, columns
<1>7. new = [key |-> secret, tables |-> check[r].tables, columns |-> columns, seen |-> last,
             history |-> h]
  BY <1>5, <1>6
<1>8. /\ h \in UNION {[1..m -> Docs!Change] : m \in 1..HistoryLimit} /\ last \in Moment
      /\ check[r].tables \in SUBSET Objects
  BY <1>0, <1>2, <1>4, <1>6
<1>9. new \in Docs!Snapshot
  BY <1>0, <1>1, <1>7, <1>8 DEF Docs!Snapshot, Moment
<1> QED
  BY <1>9 DEF new

LEMMA DocsPersistsTyped ==
  ASSUME Docs!SchemaDocsAssumption, DocsTyped, NEW r \in Refreshes, Docs!Persist(r)
  PROVE  DocsTyped'
<1>0. /\ UNCHANGED <<schema, changedAt, ddl, tick, restarts, secret, snapMeta, cached, running>>
      /\ check[r].pc = "harvest" /\ DOMAIN check[r].read = Docs!Queries
      /\ file' = {Docs!Taken(r)} /\ check' = [check EXCEPT ![r].pc = "meta"]
  BY DEF Docs!Persist, Docs!schemaVars
<1>1. PICK new \in Docs!Snapshot : file' = {new}
  BY <1>0, TakenTyped
<1> DEFINE q == [check[r] EXCEPT !.pc = "meta"]
<1>2. q \in DocsCheck /\ q.pc = "meta" /\ check' = [check EXCEPT ![r] = q]
  <2>1. check \in [Refreshes -> DocsCheck] /\ check[r] \in DocsCheck
    BY DEF DocsTyped
  <2>2. q \in DocsCheck /\ q.pc = "meta"
    BY <2>1 DEF DocsCheck
  <2>3. check' = [check EXCEPT ![r] = q]
    BY <1>0, <2>1
  <2> QED
    BY <2>2, <2>3
<1>3. /\ running' \in BOOLEAN /\ snapMeta' \in OneOf(Imprint) /\ cached' \in OneOf(Docs!Snapshot)
      /\ secret \in Keys
  BY <1>0 DEF DocsTyped, Refreshing
<1>4. file' \in OneOf(Docs!Snapshot) /\ file' # {}
  BY <1>1 DEF OneOf
<1> HIDE DEF q
<1> QED
  BY <1>0, <1>2, <1>3, <1>4, CheckTyped

LEMMA DocsRestartsTyped ==
  ASSUME Docs!SchemaDocsAssumption, DocsTyped, Docs!Restart PROVE DocsTyped'
<1>1. \A r \in Refreshes : \/ check'[r] = check[r] /\ check[r].pc = "new"
                           \/ check'[r] = EndedRequest(r, check[r].got)
  BY DEF Docs!Restart, EndedRequest
<1>2. \A r \in Refreshes : check[r] \in DocsCheck /\ EndedRequest(r, check[r].got) \in DocsCheck
                             /\ EndedRequest(r, check[r].got).pc = "done"
  <2>1. ASSUME NEW r \in Refreshes
        PROVE  check[r] \in DocsCheck /\ check[r].got \in Moment \cup {None}
    BY DEF DocsTyped, DocsCheck
  <2>2. \A r \in Refreshes : EndedRequest(r, check[r].got).pc = "done"
    BY DEF EndedRequest, Docs!NewRequest
  <2> QED
    BY <2>1, <2>2, EndTyped
<1>3. check' \in [Refreshes -> DocsCheck]
  <2>1. DOMAIN check' = Refreshes /\ check' = [r \in Refreshes |-> check'[r]]
    BY DEF Docs!Restart
  <2> QED
    BY <1>1, <1>2, <2>1
<1>4. \A r \in Refreshes : check'[r].pc \in {"new", "done"}
  BY <1>1, <1>2
<1>5. /\ schema' \in [Objects -> Moment] /\ changedAt' \in [Objects -> 0..MaxTicks]
      /\ ddl' \in Moment /\ tick' \in 0..MaxTicks /\ secret' \in Keys \cup {None}
      /\ running' \in BOOLEAN /\ file' \in OneOf(Docs!Snapshot)
  BY DEF Docs!Restart, Docs!schemaVars, DocsTyped
<1>6. restarts' \in 0..MaxRestarts
  <2>1. restarts < MaxRestarts /\ restarts' = restarts + 1 /\ restarts \in 0..MaxRestarts
    BY DEF Docs!Restart, DocsTyped
  <2>2. MaxRestarts \in Nat
    BY DEF Docs!SchemaDocsAssumption
  <2> QED
    BY <2>1, <2>2
<1>7. cached' \in OneOf(Docs!Snapshot) /\ snapMeta' \in OneOf(Imprint)
  <2>1. snapMeta' \in {snapMeta, {}} /\ cached' = {}
    BY DEF Docs!Restart
  <2> QED
    BY <2>1 DEF DocsTyped, OneOf
<1> QED
  BY <1>3, <1>4, <1>5, <1>6, <1>7 DEF DocsTyped, Refreshing

LEMMA DocsTypedNext ==
  ASSUME Docs!SchemaDocsAssumption, DocsTyped, Docs!Next \/ UNCHANGED docsVars
  PROVE  DocsTyped'
<1>0. {MaxDDL, MaxTicks} \subseteq Nat
  BY DEF Docs!SchemaDocsAssumption
<1>1. ASSUME NEW r \in Refreshes, Docs!Progress(r) PROVE DocsTyped'
  BY <1>1, DocsForcesTyped, DocsChecksTyped, DocsHarvestsTyped, DocsPersistsTyped, DocsMetaTyped
  DEF Docs!Progress
<1>2. CASE Docs!GetDocs
  <2>1. /\ UNCHANGED <<schema, changedAt, ddl, tick, restarts, secret, file, snapMeta, running, check>>
        /\ cached' = Docs!Load
    BY <1>2 DEF Docs!GetDocs, Docs!schemaVars, Docs!diskVars
  <2>2. Docs!Load \in OneOf(Docs!Snapshot)
    BY DEF Docs!Load, DocsTyped, OneOf
  <2> QED
    BY <2>1, <2>2 DEF DocsTyped, Refreshing
<1>3. CASE Docs!Tick
  <2>1. /\ UNCHANGED <<schema, changedAt, ddl, restarts, secret, file, snapMeta, running, check, cached>>
        /\ tick' = tick + 1 /\ tick < MaxTicks
    BY <1>3 DEF Docs!Tick, Docs!diskVars
  <2>2. tick' \in 0..MaxTicks
    BY <1>0, <2>1 DEF DocsTyped
  <2> QED
    BY <2>1, <2>2 DEF DocsTyped, Refreshing
<1>4. ASSUME NEW o \in Objects, Docs!DDL(o) PROVE DocsTyped'
  <2>1. /\ UNCHANGED <<tick, restarts, secret, file, snapMeta, running, check, cached>>
        /\ ddl' = ddl + 1 /\ ddl < MaxDDL
    BY <1>4 DEF Docs!DDL, Docs!diskVars
  <2>2. ddl' \in Moment
    BY <1>0, <2>1 DEF DocsTyped, Moment
  <2>3. PICK n \in {ddl + 1, 0} : schema' = [schema EXCEPT ![o] = n]
    BY <1>4 DEF Docs!DDL
  <2>4. n \in Moment
    BY <1>0, <2>1, <2>2, <2>3 DEF Moment, DocsTyped
  <2>5. PICK t \in {0, tick} : changedAt' = [changedAt EXCEPT ![o] = t]
    BY <1>4 DEF Docs!DDL
  <2>6. t \in 0..MaxTicks
    BY <1>0, <2>5 DEF DocsTyped
  <2>7. schema' \in [Objects -> Moment] /\ changedAt' \in [Objects -> 0..MaxTicks]
    BY <2>3, <2>4, <2>5, <2>6 DEF DocsTyped
  <2> QED
    BY <2>1, <2>2, <2>7 DEF DocsTyped, Refreshing
<1>5. CASE UNCHANGED docsVars
  BY <1>5 DEF docsVars, DocsTyped, Refreshing
<1> QED
  BY <1>1, <1>2, <1>3, <1>4, <1>5, DocsRestartsTyped DEF Docs!Next

(***************************************************************************)
(* The whole (Steps is in Library_proofs).                                 *)
(***************************************************************************)
LEMMA ChatsAlways == Spec => []ChatsInv
<1>1. Chats!AssistantAssumption
  BY ComponentsAssumption
<1>2. Init => ChatsInv
  BY <1>1, ChatsInit DEF Init
<1>3. ChatsInv /\ [Next]_vars => ChatsInv'
  BY <1>1, ChatsNext, Steps
<1> QED
  BY <1>2, <1>3, PTL DEF Spec

LEMMA PromptAlways == Spec => []Queries!PromptTrue
<1>1. Queries!AssistantQueriesAssumption
  BY ComponentsAssumption
<1>2. Init => Queries!PromptTrue
  BY <1>1, PromptInit DEF Init
<1>3. Queries!PromptTrue /\ [Next]_vars => Queries!PromptTrue'
  <2>1. ASSUME Next \/ UNCHANGED vars
        PROVE  Queries!Next \/ Catalog!Next \/ UNCHANGED queryVars
    BY <2>1 DEF Next, Rest, Keep, vars
  <2> QED
    BY <2>1, PromptNext
<1> QED
  BY <1>2, <1>3, PTL DEF Spec

LEMMA QueriesAlways == Spec => [](focus = "queries" => QueriesInv)
<1>1. Queries!AssistantQueriesAssumption
  BY ComponentsAssumption
<1>2. Init => (focus = "queries" => QueriesInv)
  BY <1>1, QueriesInit DEF Init
<1>3. (focus = "queries" => QueriesInv) /\ [Next]_vars => (focus = "queries" => QueriesInv)'
  <2>1. ASSUME Next \/ UNCHANGED vars, focus' = "queries"
        PROVE  focus = "queries" /\ (Queries!Next \/ UNCHANGED queryVars)
    BY <2>1 DEF Next, Rest, Keep, vars
  <2> QED
    BY <1>1, <2>1, QueriesNext
<1> QED
  BY <1>2, <1>3, PTL DEF Spec

LEMMA AskAlways == Spec => []AskInv
<1>1. Ask!AskDatabaseAssumption
  BY ComponentsAssumption
<1>2. Init => AskInv
  BY <1>1, AskInit DEF Init
<1>3. AskInv /\ [Next]_vars => AskInv'
  BY <1>1, AskNext, Steps
<1> QED
  BY <1>2, <1>3, PTL DEF Spec

LEMMA DebtsAlways == Spec => []DebtsInv
<1>1. Reports!LogisticsReportsAssumption
  BY ComponentsAssumption
<1>2. Init => DebtsInv
  BY DebtsInit DEF Init
<1>3. DebtsInv /\ [Next]_vars => DebtsInv'
  BY <1>1, DebtsNext, Steps
<1> QED
  BY <1>2, <1>3, PTL DEF Spec

LEMMA PeriodsAlways == Spec => []PeriodInv
<1>1. Reports!LogisticsReportsAssumption
  BY ComponentsAssumption
<1>2. Init => PeriodInv
  BY PeriodInit DEF Init
<1>3. PeriodInv /\ [Next]_vars => PeriodInv'
  BY <1>1, PeriodNext, Steps
<1> QED
  BY <1>2, <1>3, PTL DEF Spec

LEMMA ChatsTypesHold == Spec => []Chats!TypeOK
<1>1. Chats!AssistantAssumption
  BY ComponentsAssumption
<1>2. Init => ChatsTyped
  BY <1>1, ChatsTypedInit DEF Init
<1>3. ChatsInv /\ ChatsTyped /\ [Next]_vars => ChatsTyped'
  BY <1>1, ChatsTypedNext, Steps
<1>4. ChatsInv /\ ChatsTyped => Chats!TypeOK
  BY <1>1, ChatsTypeOK
<1> QED
  BY <1>2, <1>3, <1>4, ChatsAlways, PTL DEF Spec

LEMMA AskTypesHold == Spec => []Ask!AskTypeOK
<1>1. Ask!AskDatabaseAssumption
  BY ComponentsAssumption
<1>2. Init => AskTyped
  BY <1>1, AskTypedInit DEF Init
<1>3. AskInv /\ AskTyped /\ [Next]_vars => AskTyped'
  <2>1. ASSUME AskInv, AskTyped, Next \/ UNCHANGED vars PROVE AskTyped'
    <3>1. \A j \in Jobs : dbJob[j].pc = "execute" /\ Ask!Alive(j) => Ask!Held(j) \in OracleConns
      BY <1>1, <2>1, HeldSession DEF AskInv, Serving, Ask!AskDatabaseAssumption,
         Ask!OraclePoolAssumption
    <3> QED
      BY <1>1, <2>1, <3>1, AskTypedNext, Steps DEF AskInv, SessionsInv
  <2> QED
    BY <2>1
<1>4. AskInv /\ AskTyped => Ask!AskTypeOK
  BY DEF AskInv, SessionsInv, SessionType, JobType, AskTyped, AskType, Ask!TypeOK, Ask!AskTypeOK
<1> QED
  BY <1>2, <1>3, <1>4, AskAlways, PTL DEF Spec

LEMMA DocsTypesHold == Spec => []Docs!TypeOK
<1>1. Docs!SchemaDocsAssumption
  BY ComponentsAssumption
<1>2. Init => DocsTyped
  BY <1>1, DocsTypedInit DEF Init
<1>3. DocsTyped /\ [Next]_vars => DocsTyped'
  BY <1>1, DocsTypedNext, Steps
<1> QED
  BY <1>2, <1>3, DocsTypeOK, PTL DEF Spec

LEMMA ReportsTypesHold == Spec => []Reports!TypeOK
<1>1. Reports!LogisticsReportsAssumption
  BY ComponentsAssumption
<1>2. Init => ReportsTyped
  BY <1>1, ReportsTypedInit DEF Init
<1>3. PeriodInv /\ ReportsTyped /\ [Next]_vars => ReportsTyped'
  BY <1>1, ReportsTypedNext, PeriodMeant, Steps DEF PeriodInv
<1>4. PeriodInv /\ DebtsInv /\ ReportsTyped => Reports!TypeOK
  BY DEF PeriodInv, DebtsInv, ReportsTyped, Reports!TypeOK
<1> QED
  BY <1>2, <1>3, <1>4, PeriodsAlways, DebtsAlways, PTL DEF Spec

\* Nothing of a conversation that was deleted, cleared, trimmed or expired is stored again,
\* one removed while nobody was saving to it leaves no key and no place in the index, and
\* an answer stands behind its question (redis-chat-history.store.ts), whichever tabs ask,
\* rename, delete and list beside each other.
THEOREM ErasedIsErased == Spec => []ErasedStaysErased
<1>1. ChatsInv => ErasedStaysErased
  BY ChatsSound DEF ErasedStaysErased
<1> QED
  BY <1>1, ChatsAlways, PTL

\* The prompt of the assistant names only what may be read, a list cut at the limit is
\* called cut, no connection of Postgres is left inside a transaction, none of Oracle with
\* a transaction or the mark of a person, and the rows an answer tells come of statements
\* that only read; debts are those of the books whenever neither list was cut; and who
\* reads the log of activities to its end sees no row twice, the younger first, and misses
\* none but those of the millisecond a page ended in: for any questions, refreshes,
\* migrations, connections, deaths of sessions, firms, rows and pages.
THEOREM AnswersAreSound == Spec => []AnswersSound
<1>1. Queries!PromptTrue => Catalog!PromptTrue
  BY DEF Queries!PromptTrue, Catalog!PromptTrue, Queries!Among, Catalog!Among
<1>2. /\ Queries!PromptTrue /\ (focus = "queries" => QueriesInv) /\ AskInv /\ DebtsInv
      /\ PagesInv
      => AnswersSound
  BY <1>1, QueriesSound, AskSound, DebtsSound, PagesAreSound DEF AnswersSound
<1> QED
  BY <1>2, PromptAlways, QueriesAlways, AskAlways, DebtsAlways, PagesAlways, PTL

\* A report selects exactly the days its period means, across the ends of months, leap
\* years and years (period.util.ts); the totals of the logins are those of the log, each
\* login of an external user once, whatever the period (user-activity.repository.ts); and
\* the digest has the newest unread mails, each once, with its own verdict and in order of
\* importance and age, none of the suspicious ones as work (mail-reader.service.ts,
\* formatUnreadDigest): for any dates, users, companies, mails and verdicts.
THEOREM ReportsAreTrue == Spec => []ReportsTrue
<1>1. PeriodInv => Reports!PeriodsTrue
  BY ComponentsAssumption, PeriodSound
<1>2. ASSUME PagesInv PROVE Activity!ReportAddsUp
  <2>1. ASSUME NEW since, NEW until
        PROVE  LET logins == LoginsIn(since, until)
                   totals == Activity!Totals(since, until)
               IN  /\ totals.logins = Activity!Cardinality(logins)
                   /\ totals.users = Activity!Cardinality(External)
                   /\ totals.active = Activity!Cardinality(WhoLogged(logins))
                   /\ totals.activeCompanies = Activity!Cardinality(FirmsOf(logins))
    BY <1>2, ComponentsAssumption, ReportTrue, LogCounts DEF PagesInv
  <2> QED
    BY <2>1 DEF Activity!ReportAddsUp, LoginsIn, WhoLogged, FirmsOf
<1>3. DigestInv => Digest!DigestSound
  BY DEF DigestInv
<1>4. PeriodInv /\ PagesInv /\ DigestInv => ReportsTrue
  BY <1>1, <1>2, <1>3 DEF ReportsTrue
<1> QED
  BY <1>4, PeriodsAlways, PagesAlways, DigestAlways, PTL

\* A refresh that is answered has read every change made before it was asked for, and a
\* snapshot that takes the place of another tells how they differ and keeps what that one
\* told (oracle-schema-docs.service.ts), whatever queries, failures, changes of the schema
\* and restarts come between.
THEOREM DocsAreTrue == Spec => DocsTrue
<1>1. Docs!SchemaDocsAssumption
  BY ComponentsAssumption
<1>2. Init => DocsInv
  BY <1>1, DocsInit DEF Init
<1>3. DocsInv /\ [Next]_vars => DocsInv' /\ Docs!HistoryKept
  BY <1>1, DocsNext, Steps
<1>4. DocsInv' => Docs!RefreshSees'
  BY DEF DocsInv, RefreshTrue, Docs!RefreshSees
<1>5. DocsInv /\ DocsInv' /\ [Next]_vars => [Docs!HistoryKept /\ Docs!RefreshSees']_(Docs!vars)
  BY <1>3, <1>4
<1> QED
  BY <1>2, <1>3, <1>5, PTL DEF Spec, DocsTrue, Docs!DocsTrue

(***************************************************************************)
(* The library of documents (documents.service.ts), for both of its        *)
(* instances.                                                              *)
(***************************************************************************)
TreeP == INSTANCE Documents_proofs WITH
  Folders <- TreeFolders, Files <- TreeFiles, Names <- FolderNames, Paths <- TreePaths,
  MaxDepth <- TreeDepth, MaxCrashes <- DocumentCrashes, known <- listed, crashes <- docCrashes
LibraryP == INSTANCE Documents_proofs WITH
  Folders <- LibraryFolders, Files <- LibraryFiles, Names <- FolderNames, Paths <- LibraryPaths,
  MaxDepth <- LibraryDepth, MaxCrashes <- DocumentCrashes, known <- listed, crashes <- docCrashes

\* The component that Portal composes and the one that was proved about have the same
\* definitions.
LEMMA SameTree ==
  /\ Tree!DocumentsAssumption => TreeP!DocumentsAssumption
  /\ Tree!Init => TreeP!Init
  /\ Tree!Next => TreeP!Next
  /\ TreeP!TreeSound => Tree!TreeSound
  /\ TreeP!NoDangling => Tree!NoDangling
BY DEF Tree!vars, Tree!NotSweeping, Tree!FolderDepth, Tree!Descendants, Tree!SubtreeHeight,
         Tree!Siblings, Tree!Taken, Tree!Placements, Tree!NewFolder, Tree!Added,
         Tree!TooDeep, Tree!StepInto, Tree!Walk, Tree!Init, Tree!DiskUnchanged,
         Tree!CreateFolder, Tree!UpdateFolder, Tree!DeleteFolder, Tree!Receive, Tree!Upload,
         Tree!UploadFails, Tree!UpdateFile, Tree!MoveFiles, Tree!DeleteFiles, Tree!Unlink,
         Tree!SweepStart, Tree!SweepFile, Tree!SweepEnd, Tree!Age, Tree!Crash, Tree!Next,
         Tree!TypeOK, Tree!TreeSound, Tree!NoDangling, Tree!DocumentsAssumption,
         Tree!Cardinality, Tree!IsFiniteSet, Tree!Max, Tree!Injection, Tree!IsInjective,
         Tree!Restrict, Tree!Range, TreeP!vars, TreeP!NotSweeping, TreeP!FolderDepth,
         TreeP!Descendants, TreeP!SubtreeHeight, TreeP!Siblings, TreeP!Taken,
         TreeP!Placements, TreeP!NewFolder, TreeP!Added, TreeP!TooDeep, TreeP!StepInto,
         TreeP!Walk, TreeP!Init, TreeP!DiskUnchanged, TreeP!CreateFolder,
         TreeP!UpdateFolder, TreeP!DeleteFolder, TreeP!Receive, TreeP!Upload,
         TreeP!UploadFails, TreeP!UpdateFile, TreeP!MoveFiles, TreeP!DeleteFiles,
         TreeP!Unlink, TreeP!SweepStart, TreeP!SweepFile, TreeP!SweepEnd, TreeP!Age,
         TreeP!Crash, TreeP!Next, TreeP!TypeOK, TreeP!TreeSound, TreeP!NoDangling,
         TreeP!DocumentsAssumption, TreeP!Cardinality, TreeP!IsFiniteSet, TreeP!Max,
         TreeP!Injection, TreeP!IsInjective, TreeP!Restrict, TreeP!Range

LEMMA SameLibrary ==
  /\ Library!DocumentsAssumption => LibraryP!DocumentsAssumption
  /\ Library!Init => LibraryP!Init
  /\ Library!Next => LibraryP!Next
  /\ LibraryP!TreeSound => Library!TreeSound
  /\ LibraryP!NoDangling => Library!NoDangling
BY DEF Library!vars, Library!NotSweeping, Library!FolderDepth, Library!Descendants,
         Library!SubtreeHeight, Library!Siblings, Library!Taken, Library!Placements,
         Library!NewFolder, Library!Added, Library!TooDeep, Library!StepInto, Library!Walk,
         Library!Init, Library!DiskUnchanged, Library!CreateFolder, Library!UpdateFolder,
         Library!DeleteFolder, Library!Receive, Library!Upload, Library!UploadFails,
         Library!UpdateFile, Library!MoveFiles, Library!DeleteFiles, Library!Unlink,
         Library!SweepStart, Library!SweepFile, Library!SweepEnd, Library!Age,
         Library!Crash, Library!Next, Library!TypeOK, Library!TreeSound, Library!NoDangling,
         Library!DocumentsAssumption, Library!Cardinality, Library!IsFiniteSet, Library!Max,
         Library!Injection, Library!IsInjective, Library!Restrict, Library!Range,
         LibraryP!vars, LibraryP!NotSweeping, LibraryP!FolderDepth, LibraryP!Descendants,
         LibraryP!SubtreeHeight, LibraryP!Siblings, LibraryP!Taken, LibraryP!Placements,
         LibraryP!NewFolder, LibraryP!Added, LibraryP!TooDeep, LibraryP!StepInto,
         LibraryP!Walk, LibraryP!Init, LibraryP!DiskUnchanged, LibraryP!CreateFolder,
         LibraryP!UpdateFolder, LibraryP!DeleteFolder, LibraryP!Receive, LibraryP!Upload,
         LibraryP!UploadFails, LibraryP!UpdateFile, LibraryP!MoveFiles,
         LibraryP!DeleteFiles, LibraryP!Unlink, LibraryP!SweepStart, LibraryP!SweepFile,
         LibraryP!SweepEnd, LibraryP!Age, LibraryP!Crash, LibraryP!Next, LibraryP!TypeOK,
         LibraryP!TreeSound, LibraryP!NoDangling, LibraryP!DocumentsAssumption,
         LibraryP!Cardinality, LibraryP!IsFiniteSet, LibraryP!Max, LibraryP!Injection,
         LibraryP!IsInjective, LibraryP!Restrict, LibraryP!Range

\* The instance that is in focus, or else the one of the files.
DocumentsInv == IF focus = "tree" THEN TreeP!LibraryInv ELSE LibraryP!LibraryInv

LEMMA DocumentsInit == ASSUME Init PROVE DocumentsInv
<1>1. CASE focus = "tree"
  BY <1>1, ComponentsAssumption, SameTree, TreeP!LibraryInit DEF Init, DocumentsInv
<1>2. CASE focus # "tree"
  BY <1>2, ComponentsAssumption, SameLibrary, LibraryP!LibraryInit DEF Init, DocumentsInv
<1> QED
  BY <1>1, <1>2

LEMMA DocumentsNext == ASSUME DocumentsInv, Next \/ UNCHANGED vars PROVE DocumentsInv'
<1>1. /\ focus = "tree" => Tree!Next \/ UNCHANGED documentVars
      /\ focus # "tree" => Library!Next \/ UNCHANGED documentVars
      /\ focus' = focus
  BY DEF Next, Rest, Keep, vars
<1>2. UNCHANGED documentVars => UNCHANGED TreeP!vars /\ UNCHANGED LibraryP!vars
  BY DEF documentVars, TreeP!vars, LibraryP!vars
<1>3. CASE focus = "tree"
  <2>1. TreeP!Next \/ UNCHANGED TreeP!vars
    BY <1>1, <1>2, <1>3, SameTree
  <2> QED
    BY <1>1, <1>3, <2>1, ComponentsAssumption, SameTree, TreeP!LibraryNext DEF DocumentsInv
<1>4. CASE focus # "tree"
  <2>1. LibraryP!Next \/ UNCHANGED LibraryP!vars
    BY <1>1, <1>2, <1>4, SameLibrary
  <2> QED
    BY <1>1, <1>4, <2>1, ComponentsAssumption, SameLibrary, LibraryP!LibraryNext
       DEF DocumentsInv
<1> QED
  BY <1>3, <1>4

LEMMA DocumentsSound ==
  ASSUME DocumentsInv
  PROVE  /\ focus = "tree" => Tree!TreeSound /\ Tree!NoDangling
         /\ focus = "library" => Library!TreeSound /\ Library!NoDangling
<1>1. CASE focus = "tree"
  BY <1>1, SameTree, TreeP!LibrarySound DEF DocumentsInv
<1>2. CASE focus # "tree"
  BY <1>2, SameLibrary, LibraryP!LibrarySound DEF DocumentsInv
<1> QED
  BY <1>1, <1>2

LEMMA DocumentsTypeOK ==
  ASSUME DocumentsInv
  PROVE  (focus = "tree" => Tree!TypeOK) /\ (focus # "tree" => Library!TypeOK)
<1>1. TreeP!TypeOK => Tree!TypeOK
  BY DEF TreeP!TypeOK, Tree!TypeOK, TreeP!NotSweeping, Tree!NotSweeping
<1>2. LibraryP!TypeOK => Library!TypeOK
  BY DEF LibraryP!TypeOK, Library!TypeOK, LibraryP!NotSweeping, Library!NotSweeping
<1>3. CASE focus = "tree"
  BY <1>1, <1>3, TreeP!LibrarySound DEF DocumentsInv
<1>4. CASE focus # "tree"
  BY <1>2, <1>4, LibraryP!LibrarySound DEF DocumentsInv
<1> QED
  BY <1>3, <1>4

LEMMA DocumentsAlways == Spec => []DocumentsInv
<1>1. Init => DocumentsInv
  BY DocumentsInit
<1>2. DocumentsInv /\ [Next]_vars => DocumentsInv'
  BY DocumentsNext
<1> QED
  BY <1>1, <1>2, PTL DEF Spec

\* The folders of documents are a tree within the depth allowed, every file is in one of
\* them, and a document that is listed is on the disk and about to be unlinked by nobody
\* (documents.service.ts); a listed video has every chunk, and its file unless it was
\* completed a day late (training.service.ts); rows and objects of the files of a tender
\* belong together and a save that met no failure leaves what its form said
\* (files.service.ts): whatever requests, sweeps and restarts interleave.
THEOREM LibraryIsSound == Spec => []LibrarySound
<1>1. TenderInv /\ VideoInv /\ DocumentsInv => LibrarySound
  BY TenderSound, VideoSound, DocumentsSound DEF LibrarySound
<1> QED
  BY <1>1, TenderAlways, VideoAlways, DocumentsAlways, PTL

InFocus ==
  focus \in {"chats", "queries", "catalog", "online", "tree", "library", "training",
             "mailbox", "logins", "ask", "docs", "digest", "reports", "campaign", "tender",
             "activity"}

\* In every component the state is of the kind the code can make of it: a request is at a
\* step of its handler, a key names a conversation, a question, a user, a folder, a video,
\* a mail, a session, a table or a file that there is, what counts stays within its bound,
\* and what is stored fits the database it is stored in, whatever component is looked at.
THEOREM TypesAreRight == Spec => []TypeOK
<1>1. Init => InFocus
  BY DEF Init, InFocus
<1>f. InFocus /\ [Next]_vars => InFocus'
  BY DEF Next, Rest, vars, InFocus
<1>2. OnlineInv => Online!TypeOK
  BY DEF OnlineInv
<1>3. VideoInv => Training!TypeOK
  BY DEF VideoInv
<1>4. MailboxInv => Mailbox!TypeOK
  BY DEF MailboxInv
<1>5. LoginsInv => Logins!TypeOK
  BY DEF LoginsInv
<1>6. /\ InFocus /\ Chats!TypeOK /\ QuestionTypes /\ OnlineInv /\ DocumentsInv /\ VideoInv
      /\ MailboxInv /\ LoginsInv /\ Ask!AskTypeOK /\ Docs!TypeOK /\ Digest!TypeOK
      /\ Reports!TypeOK /\ Campaign!TypeOK /\ Tender!TypeOK /\ Activity!TypeOK
      => TypeOK
  BY <1>2, <1>3, <1>4, <1>5, DocumentsTypeOK DEF InFocus, QuestionTypes, TypeOK
<1> QED
  BY <1>1, <1>f, <1>6, ChatsTypesHold, QuestionTypesHold, OnlineAlways, DocumentsAlways,
     VideoAlways, MailboxAlways, LoginsAlways, AskTypesHold, DocsTypesHold, DigestTypesHold,
     ReportsTypesHold, CampaignTypesHold, TenderTypesHold, ActivityTypesHold, PTL DEF Spec
=============================================================================
