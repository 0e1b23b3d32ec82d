----------------------------- MODULE MailDigest -----------------------------
(***************************************************************************)
(* The digest of unread mail the bot shows to its chief (mail-reader/      *)
(* mail-reader.service.ts, ai/ai.service.ts, telegram/telegram.update.ts). *)
(* The newest unread mails are fetched without being marked as read, the   *)
(* model classifies them by their index in the list, and the bot tells     *)
(* them by importance, or only counts them under their sender.  Texts and  *)
(* subjects are left out; a verdict is an importance with two flags.       *)
(***************************************************************************)
EXTENDS Naturals, Sequences, FiniteSets, FiniteSetsExt, Functions

CONSTANTS
  MaxUid,      \* bound: the mailbox has the mails 1..MaxUid
  Sender,      \* [1..MaxUid -> sender]: senderKey of a mail
  Verdicts,    \* the verdicts the model gives, among those of Verdict
  Limit        \* mails of a digest (15 in the code)

Importances == {"high", "medium", "low"}
Rank == [high |-> 0, medium |-> 1, low |-> 2]
Verdict == [importance : Importances, spam : BOOLEAN, suspicious : BOOLEAN]

MailDigestAssumption ==
  /\ MaxUid \in Nat /\ Limit \in Nat \ {0}
  /\ DOMAIN Sender = 1..MaxUid
  /\ Verdicts \subseteq Verdict

VARIABLES
  unread,    \* uids of the mailbox without \Seen
  present,   \* uids of the mailbox
  pc,        \* the step of the request
  uids,      \* the uids that were searched and cut to the limit
  mails,     \* the mails fetched, in the order they came until they are sorted
  given,     \* the list the model was given
  byIndex,   \* its answer: verdicts by index, some missing
  items,     \* the digest: mails with their verdicts, most important first
  screen     \* what the chief sees

vars == <<unread, present, pc, uids, mails, given, byIndex, items, screen>>

\* A mail without a verdict counts as medium and harmless.
Unjudged == [importance |-> "medium", spam |-> FALSE, suspicious |-> FALSE]
Nothing  == [listed |-> <<>>, counted |-> <<>>]

Init ==
  /\ present = 1..MaxUid /\ unread \in SUBSET present
  /\ pc = "asked" /\ uids = {} /\ mails = <<>> /\ given = <<>>
  /\ byIndex = <<>> /\ items = <<>> /\ screen = Nothing

\* The newest of a set of uids, at most Limit of them.
Newest(s) == {u \in s : Cardinality({v \in s : v > u}) < Limit}

\* The mailbox is opened read-only and searched for unread mail; none ends it.
Search ==
  /\ pc = "asked"
  /\ uids' = Newest(unread)
  /\ pc' = IF unread = {} THEN "shown" ELSE "fetching"
  /\ UNCHANGED <<unread, present, mails, given, byIndex, items, screen>>

\* The server sends the mails asked for in an order of its own; one that was expunged
\* meanwhile is not sent, one that was read elsewhere is.
Fetch ==
  /\ pc = "fetching"
  /\ \E u \in (uids \cap present) \ Range(mails) : mails' = Append(mails, u)
  /\ UNCHANGED <<unread, present, pc, uids, given, byIndex, items, screen>>

\* The members of a set in the order of a relation: each has as many places before it
\* as there are members that come before it.
InOrder(s, before) ==
  [i \in 1..Cardinality(s) |->
     CHOOSE x \in s : Cardinality({y \in s : <<y, x>> \in before}) = i - 1]

\* Mutant: the mails stay in the order they came.
AsTheyCame(s) == s

Descending(s) == InOrder(Range(s), {p \in Range(s) \X Range(s) : p[1] > p[2]})

\* Every mail has come: the newest first, they are given to the model.
Give ==
  /\ pc = "fetching" /\ uids \cap present \subseteq Range(mails)
  /\ mails' = Descending(mails) /\ given' = mails'
  /\ pc' = IF mails = <<>> THEN "shown" ELSE "classifying"
  /\ UNCHANGED <<unread, present, uids, byIndex, items, screen>>

\* The model judges the mails it was given, by their index, and may leave some out;
\* a failure or an answer that is no JSON is an empty answer.
Classify ==
  /\ pc = "classifying"
  /\ \E judged \in SUBSET DOMAIN given : byIndex' \in [judged -> Verdicts]
  /\ pc' = "merging"
  /\ UNCHANGED <<unread, present, uids, mails, given, items, screen>>

\* Every mail of the list meets the verdict of its index.
Merged ==
  [i \in DOMAIN mails |->
     LET verdict == IF i \in DOMAIN byIndex THEN byIndex[i] ELSE Unjudged
     IN [uid |-> mails[i], importance |-> verdict.importance,
         spam |-> verdict.spam, suspicious |-> verdict.suspicious]]

\* A stable sort by importance.
ByImportance ==
  {p \in (DOMAIN mails) \X (DOMAIN mails) :
     LET r == Rank[Merged[p[1]].importance]  s == Rank[Merged[p[2]].importance]
     IN r < s \/ (r = s /\ p[1] < p[2])}

Merge ==
  /\ pc = "merging"
  /\ LET order == InOrder(DOMAIN mails, ByImportance)
     IN items' = [k \in DOMAIN order |-> Merged[order[k]]]
  /\ pc' = "formatting"
  /\ UNCHANGED <<unread, present, uids, mails, given, byIndex, screen>>

From(it) == Sender[it.uid]
CountOf(s, sender) == Cardinality({i \in DOMAIN s : From(s[i]) = sender})

\* A mail is counted and not told when it is spam, looks suspicious, or is unimportant
\* and its sender, whatever else he wrote, has several mails in the digest.
Collapsed(it) ==
  it.spam \/ it.suspicious \/ (it.importance = "low" /\ CountOf(items, From(it)) >= 2)

\* What a list has at some of its places.
Those(s, places) ==
  LET order == InOrder(places, {p \in places \X places : p[1] < p[2]})
  IN [k \in DOMAIN order |-> s[order[k]]]

Out == Those(items, {i \in DOMAIN items : Collapsed(items[i])})

\* A row for every sender of the mails left out, flagged when one of them is suspicious.
RowOf(sender) ==
  [sender |-> sender, count |-> CountOf(Out, sender),
   suspicious |-> \E i \in DOMAIN Out : From(Out[i]) = sender /\ Out[i].suspicious]
RowsOut == {RowOf(From(Out[i])) : i \in DOMAIN Out}

\* The suspicious ones come first, then those with more mails, then the one whose mail
\* was met first.
First(sender) == Min({i \in DOMAIN Out : From(Out[i]) = sender})
Before(r, s) ==
  \/ r.suspicious /\ ~s.suspicious
  \/ r.suspicious = s.suspicious /\ r.count > s.count
  \/ r.suspicious = s.suspicious /\ r.count = s.count /\ First(r.sender) < First(s.sender)

\* formatUnreadDigest: the mails told one by one, in the order of the items, and the
\* rows of the senders of the others.
Format ==
  /\ pc = "formatting"
  /\ screen' = [listed  |-> Those(items, {i \in DOMAIN items : ~Collapsed(items[i])}),
                counted |-> InOrder(RowsOut, {p \in RowsOut \X RowsOut : Before(p[1], p[2])})]
  /\ pc' = "shown"
  /\ UNCHANGED <<unread, present, uids, mails, given, byIndex, items>>

\* The server cannot be reached, the connection breaks, or Telegram takes no edit, as
\* when the text was cut inside a tag: the chief is told that the mail cannot be had.
Fails ==
  /\ pc \in {"asked", "fetching", "formatting"}
  /\ pc' = "failed"
  /\ UNCHANGED <<unread, present, uids, mails, given, byIndex, items, screen>>

\* Somebody deletes a mail in another program while the mails are fetched.
Elsewhere ==
  /\ pc = "fetching"
  /\ \E u \in uids \cap present : present' = present \ {u} /\ unread' = unread \ {u}
  /\ UNCHANGED <<pc, uids, mails, given, byIndex, items, screen>>

Handle == Search \/ Fetch \/ Give \/ Classify \/ Merge \/ Format
Next == Handle \/ Fails \/ Elsewhere
Spec == Init /\ [][Next]_vars

TypeOK ==
  /\ unread \subseteq present /\ present \subseteq 1..MaxUid
  /\ pc \in {"asked", "fetching", "classifying", "merging", "formatting", "shown", "failed"}
  /\ uids \subseteq 1..MaxUid /\ Cardinality(uids) <= Limit
  /\ Range(mails) \subseteq uids /\ Range(given) \subseteq uids
  /\ DOMAIN byIndex \subseteq DOMAIN given
  /\ \A i \in DOMAIN byIndex : byIndex[i] \in Verdict
  /\ \A i \in DOMAIN items : items[i].uid \in uids
  /\ DOMAIN screen = {"listed", "counted"}

-----------------------------------------------------------------------------
\* What the model said of a mail: the mail it saw, not the place it has now.
Judged(u, says(_)) == \E i \in DOMAIN byIndex : given[i] = u /\ says(byIndex[i])
MailsOf(sender) == Cardinality({u \in Range(mails) : Sender[u] = sender})
Rows(sender) == {i \in DOMAIN screen.counted : screen.counted[i].sender = sender}

\* The digest the chief sees is true of the mailbox: it has the newest unread mails,
\* every one of them once - told, or counted under its sender -, every verdict is that
\* of its own mail, nothing judged spam or suspicious is told as work, the mails are in
\* order of importance and age, and a sender is flagged exactly when one of his mails
\* looks suspicious (mail-reader.service.ts, getUnreadDigest; formatUnreadDigest).
DigestSound ==
  pc = "shown" =>
    LET told == screen.listed
        listed(u) == \E i \in DOMAIN told : told[i].uid = u
    IN /\ uids \cap present \subseteq Range(mails)
       /\ \A sender \in {Sender[u] : u \in Range(mails)} :
            LET rows == Rows(sender)
            IN /\ \A i, j \in rows : i = j
               /\ rows = {} => CountOf(told, sender) = MailsOf(sender)
               /\ \A i \in rows :
                    CountOf(told, sender) + screen.counted[i].count = MailsOf(sender)
               /\ (\E i \in rows : screen.counted[i].suspicious)
                    <=> \E u \in Range(mails) :
                          Sender[u] = sender /\ Judged(u, LAMBDA v : v.suspicious)
       /\ \A i \in DOMAIN told :
            /\ ~Judged(told[i].uid, LAMBDA v : v.spam \/ v.suspicious)
            /\ ~Judged(told[i].uid, LAMBDA v : v.importance # told[i].importance)
       /\ \A u \in Range(mails) :
            Judged(u, LAMBDA v : v.importance = "high" /\ ~v.spam /\ ~v.suspicious) => listed(u)
       /\ \A i, j \in DOMAIN told :
            i < j => \/ told[i].importance # told[j].importance
                     \/ told[i].uid > told[j].uid
       /\ \A i, j \in DOMAIN told : i < j => told[i].importance # "low" \/ told[j].importance = "low"
       /\ \A i, j \in DOMAIN told : i < j => told[j].importance # "high" \/ told[i].importance = "high"
=============================================================================
