----------------------------- MODULE Assistant ------------------------------
(***************************************************************************)
(* Conversations with the assistant in Redis: LocalAiService.chat over     *)
(* RedisChatHistoryStore, for one user with several tabs.                  *)
(*                                                                         *)
(* A conversation has three keys: its metadata (here the number of         *)
(* messages it counts), the list of its messages, and its place in the     *)
(* index, a sorted set scored with the time of the last change.  Every     *)
(* command is a step; DEL and ZREM of one removal are written to the       *)
(* connection together and are one step.  A score is the time at which the *)
(* change was made, a moment before it is stored; here the index is the    *)
(* order in which the changes are stored: the pairs of an older and a      *)
(* newer conversation, and of each one with itself.                        *)
(***************************************************************************)
EXTENDS Naturals, Sequences, FiniteSets, Functions

CONSTANTS
  Sessions,    \* identifiers of conversations
  Old,         \* those that are there from earlier, each with a question of its own answered
  Requests,    \* requests of the tabs, each handled once
  MaxSessions, \* LOCAL_AI_MAX_SESSIONS
  MaxMessages, \* LOCAL_AI_HISTORY_MAX_MESSAGES
  None,        \* no conversation, no metadata
  MaxExpiries  \* bound: keys that reach their TTL

AssistantAssumption ==
  /\ MaxSessions \in Nat \ {0} /\ MaxMessages \in Nat \ {0} /\ MaxExpiries \in Nat
  /\ None \notin Sessions \cup Nat
  /\ Old \subseteq Sessions /\ Cardinality(Old) <= MaxSessions /\ MaxMessages >= 2
  /\ Old \cap Requests = {} /\ IsFiniteSet(Sessions) /\ IsFiniteSet(Requests)

VARIABLES
  meta,     \* ai:session:<user>:<id>
  msgs,     \* ai:messages:<user>:<id>
  index,    \* ai:sessions:<user>: <<s, t>> when the score of s is not above that of t
  req,      \* a request and how far it is
  expiries,
  (* history *)
  known,    \* identifiers handed out
  gone,     \* messages that were removed with their conversation, by the limit, or by TTL
  quiet     \* conversations that were removed while nobody was saving to them

vars == <<meta, msgs, index, req, expiries, known, gone, quiet>>

Roles    == {"user", "assistant"}
Messages == [of : Requests \cup Old, role : Roles]
Kinds    == {"chat", "list", "clear", "rename"}
Steps    == {"idle", "look", "create", "index", "card", "range", "trim", "get", "push", "set",
             "zadd", "route", "tool", "read", "mget", "zrem", "purge", "done", "failed"}

\* The conversations of an index, and those that are as old as s or older.
Listed(i)      == {p[1] : p \in i}
UpTo(i, s)     == {x \in Listed(i) : <<x, s>> \in i}
Oldest(i, n)   == {s \in Listed(i) : Cardinality(UpTo(i, s)) <= n}

\* ZREM of ids; ZADD of s with the time of now.
Without(i, ids) == {p \in i : p[1] \notin ids /\ p[2] \notin ids}
Newest(i, s)    == Without(i, {s}) \cup {<<x, s>> : x \in Listed(i) \cup {s}}

TypeOK ==
  /\ meta \in [Sessions -> {None} \cup 0..(2 * Cardinality(Requests) + 2)]
  /\ \A s \in Sessions : msgs[s] \in Seq(Messages) /\ Len(msgs[s]) <= MaxMessages
  /\ index \subseteq Sessions \X Sessions
  /\ {Cardinality(UpTo(index, s)) : s \in Listed(index)} = 1..Cardinality(Listed(index))
  /\ expiries \in 0..MaxExpiries
  /\ req \in [Requests -> [kind : Kinds, step : Steps, s : Sessions \cup {None},
                           role : Roles, branch : {"reply", "tool", "caught"},
                           ids : SUBSET Sessions, over : 0..Cardinality(Sessions),
                           count : 0..(2 * Cardinality(Requests) + 2)]]
  /\ known \subseteq Sessions /\ gone \subseteq Messages /\ quiet \subseteq known

Fresh == [kind |-> "chat", step |-> "idle", s |-> None, role |-> "user", branch |-> "reply",
          ids |-> {}, over |-> 0, count |-> 0]

Init ==
  /\ meta = [s \in Sessions |-> IF s \in Old THEN 2 ELSE None]
  /\ msgs = [s \in Sessions |-> IF s \in Old
               THEN <<[of |-> s, role |-> "user"], [of |-> s, role |-> "assistant"]>>
               ELSE <<>>]
  /\ \E place \in Bijection(Old, 1..Cardinality(Old)) :
       index = {p \in Old \X Old : place[p[1]] <= place[p[2]]}
  /\ expiries = 0 /\ known = Old /\ gone = {} /\ quiet = {}
  /\ req = [r \in Requests |-> Fresh]

store == <<meta, msgs, index, expiries, known, gone, quiet>>
At(r, step)      == req[r].step = step
Becomes(r, f)    == req' = [req EXCEPT ![r] =
                              [x \in DOMAIN @ |-> IF x \in DOMAIN f THEN f[x] ELSE @[x]]]
Goes(r, step)    == req' = [req EXCEPT ![r].step = step]
Ended(r, step)   == req' = [req EXCEPT ![r] = [Fresh EXCEPT !.step = step]]

Saving(s) == \E r \in Requests : req[r].s = s /\ req[r].step \in {"push", "set", "zadd"}

\* removeSessions: both keys of each conversation and its place in the index.
Remove(ids) ==
  /\ meta' = [s \in Sessions |-> IF s \in ids THEN None ELSE meta[s]]
  /\ msgs' = [s \in Sessions |-> IF s \in ids THEN <<>> ELSE msgs[s]]
  /\ index' = Without(index, ids)
  /\ gone' = gone \cup UNION {Range(msgs[s]) : s \in ids}
  /\ quiet' = quiet \cup {s \in ids : ~Saving(s)}

----------------------------------------------------------------------------
(* Requests arrive. *)

\* A question, in a conversation the tab knows of or in a new one.
Chat(r) ==
  /\ At(r, "idle")
  /\ \E s \in known \cup {None} : Becomes(r, [kind |-> "chat", step |-> "look", s |-> s])
  /\ UNCHANGED store

\* The first page of the list: the oldest beyond the limit are removed first.
List(r) ==
  /\ At(r, "idle") /\ Becomes(r, [kind |-> "list", step |-> "card"]) /\ UNCHANGED store

Rename(r) ==
  /\ At(r, "idle")
  /\ \E s \in known : Becomes(r, [kind |-> "rename", step |-> "get", s |-> s])
  /\ UNCHANGED store

Delete(r) ==
  /\ At(r, "idle")
  /\ \E s \in known : Remove({s})
  /\ Ended(r, "done")
  /\ UNCHANGED <<expiries, known>>

\* deleteAllSessions reads the index and removes what it read.
ClearRead(r) ==
  /\ At(r, "idle")
  /\ IF index = {} THEN Ended(r, "done")
     ELSE Becomes(r, [kind |-> "clear", ids |-> Listed(index), step |-> "purge"])
  /\ UNCHANGED store

ClearRemove(r) ==
  /\ At(r, "purge") /\ Remove(req[r].ids) /\ Ended(r, "done")
  /\ UNCHANGED <<expiries, known>>

----------------------------------------------------------------------------
(* The conversation of a question. *)

\* A conversation that is not there any more is replaced by a new one.
Look(r) ==
  /\ At(r, "look")
  /\ IF req[r].s # None /\ meta[req[r].s] # None THEN Goes(r, "get") ELSE Goes(r, "create")
  /\ UNCHANGED store

\* createSession: the metadata,
Create(r) ==
  /\ At(r, "create")
  /\ \E s \in Sessions \ known :
       /\ \A x \in Requests : req[x].s # s
       /\ meta' = [meta EXCEPT ![s] = 0]
       /\ Becomes(r, [step |-> "index", s |-> s])
  /\ UNCHANGED <<msgs, index, expiries, known, gone, quiet>>

\* and its place in the index, where the other tabs see it,
CreateIndex(r) ==
  /\ At(r, "index")
  /\ known' = known \cup {req[r].s}
  /\ index' = Newest(index, req[r].s)
  /\ Goes(r, "card")
  /\ UNCHANGED <<meta, msgs, expiries, gone, quiet>>

\* then trimOldSessions: ZCARD,
TrimCard(r) ==
  /\ At(r, "card")
  /\ LET total == Cardinality(Listed(index)) IN
     IF total <= MaxSessions
     THEN Goes(r, IF req[r].kind = "chat" THEN "get" ELSE "read")
     ELSE Becomes(r, [step |-> "range", over |-> total - MaxSessions])
  /\ UNCHANGED store

\* ZRANGE from the lowest score,
TrimRange(r) ==
  /\ At(r, "range")
  /\ Becomes(r, [step |-> "trim", over |-> 0, ids |-> Oldest(index, req[r].over)])
  /\ UNCHANGED store

\* DEL and ZREM.
TrimRemove(r) ==
  /\ At(r, "trim")
  /\ Remove(req[r].ids)
  /\ Becomes(r, [ids |-> {}, step |-> IF req[r].kind = "chat" THEN "get" ELSE "read"])
  /\ UNCHANGED <<expiries, known>>

----------------------------------------------------------------------------
(* A message or a new title is saved. *)

\* Mutant: a conversation that is gone is made anew under its identifier.
GetOrRevive(r) ==
  /\ At(r, "get")
  /\ Becomes(r, [step |-> IF req[r].kind = "rename" THEN "set" ELSE "push",
                 count |-> IF meta[req[r].s] = None THEN 0 ELSE meta[req[r].s]])
  /\ UNCHANGED store

\* requireSession.  An answer built from data that cannot be saved is tried once more,
\* as a message about the error; anything else is a 404.
Get(r) ==
  LET s == req[r].s IN
  /\ At(r, "get")
  /\ IF meta[s] # None
     THEN Becomes(r, [step |-> IF req[r].kind = "rename" THEN "set" ELSE "push",
                      count |-> meta[s]])
     ELSE IF req[r].branch = "tool" THEN Becomes(r, [branch |-> "caught"])
     ELSE Ended(r, "failed")
  /\ UNCHANGED store

\* RPUSH; LTRIM keeps the tail.
Push(r) ==
  LET s == req[r].s
      all == Append(msgs[s], [of |-> r, role |-> req[r].role])
      cut == IF Len(all) > MaxMessages THEN Len(all) - MaxMessages ELSE 0 IN
  /\ At(r, "push")
  /\ msgs' = [msgs EXCEPT ![s] = SubSeq(all, cut + 1, Len(all))]
  /\ gone' = gone \cup {all[i] : i \in 1..cut}
  /\ Becomes(r, [step |-> "set", count |-> req[r].count + 1])
  /\ UNCHANGED <<meta, index, expiries, known, quiet>>

\* saveSession writes back the metadata that were read before,
Save(r) ==
  /\ At(r, "set")
  /\ meta' = [meta EXCEPT ![req[r].s] = req[r].count]
  /\ Goes(r, "zadd")
  /\ UNCHANGED <<msgs, index, expiries, known, gone, quiet>>

\* and the time of the change.
SaveIndex(r) ==
  /\ At(r, "zadd")
  /\ index' = Newest(index, req[r].s)
  /\ IF req[r].kind = "chat" /\ req[r].role = "user"
     THEN Becomes(r, [step |-> "route", count |-> 0]) ELSE Ended(r, "done")
  /\ UNCHANGED <<meta, msgs, expiries, known, gone, quiet>>

----------------------------------------------------------------------------
(* The answer. *)

\* The router decides between an answer of its own and a tool; a router that fails or
\* answers no JSON makes for a reply too.
Route(r) ==
  /\ At(r, "route")
  /\ \/ Becomes(r, [branch |-> "reply", role |-> "assistant", step |-> "get"])
     \/ Becomes(r, [branch |-> "tool", step |-> "tool"])
  /\ UNCHANGED store

\* The tool finds data, which are told in the words of the model or in a dry summary; or it
\* throws, and the error becomes the answer.
Tool(r) ==
  /\ At(r, "tool")
  /\ \E branch \in {"tool", "caught"} :
       Becomes(r, [branch |-> branch, role |-> "assistant", step |-> "get"])
  /\ UNCHANGED store

----------------------------------------------------------------------------
(* The list. *)

\* ZCARD and ZRANGE of the page, at most MaxSessions from the newest;
ListRange(r) ==
  /\ At(r, "read")
  /\ Becomes(r, [step |-> "mget",
                 ids |-> {s \in Listed(index) :
                           Cardinality(Listed(index) \ UpTo(index, s)) < MaxSessions}])
  /\ UNCHANGED store

\* MGET of their metadata;
ListGet(r) ==
  /\ At(r, "mget")
  /\ LET orphans == {s \in req[r].ids : meta[s] = None} IN
     IF orphans = {} THEN Ended(r, "done") ELSE Becomes(r, [step |-> "zrem", ids |-> orphans])
  /\ UNCHANGED store

\* and those without metadata leave the index.
ListRemove(r) ==
  /\ At(r, "zrem")
  /\ index' = Without(index, req[r].ids)
  /\ Ended(r, "done")
  /\ UNCHANGED <<meta, msgs, expiries, known, gone, quiet>>

----------------------------------------------------------------------------
\* A key reaches its TTL: the metadata or the messages.
Expire(s) ==
  /\ expiries < MaxExpiries /\ expiries' = expiries + 1
  /\ \/ /\ meta[s] # None /\ meta' = [meta EXCEPT ![s] = None] /\ UNCHANGED <<msgs, gone>>
     \/ /\ msgs[s] # <<>> /\ msgs' = [msgs EXCEPT ![s] = <<>>]
        /\ gone' = gone \cup Range(msgs[s]) /\ UNCHANGED meta
  /\ UNCHANGED <<index, req, known, quiet>>

\* The steps a request takes once it is there; the model and the database answer or time out.
Progress(r) ==
  \/ Look(r) \/ Create(r) \/ CreateIndex(r) \/ TrimCard(r) \/ TrimRange(r) \/ TrimRemove(r)
  \/ Get(r) \/ Push(r) \/ Save(r) \/ SaveIndex(r) \/ Route(r) \/ Tool(r)
  \/ ListRange(r) \/ ListGet(r) \/ ListRemove(r) \/ ClearRemove(r)

Next ==
  \/ \E r \in Requests :
       Chat(r) \/ List(r) \/ Rename(r) \/ Delete(r) \/ ClearRead(r) \/ Progress(r)
  \/ \E s \in Sessions : Expire(s)

Spec == Init /\ [][Next]_vars /\ \A r \in Requests : WF_vars(Progress(r))

----------------------------------------------------------------------------
(* Properties *)

\* What was removed does not come back: no message that left with its conversation, the
\* limit or the TTL is stored again, and a conversation removed while nobody was saving
\* to it leaves nothing behind, whichever tabs still hold its identifier.
ErasedStaysErased ==
  /\ \A s \in Sessions : Range(msgs[s]) \cap gone = {}
  /\ \A s \in quiet : meta[s] = None /\ msgs[s] = <<>> /\ s \notin Listed(index)

\* An answer never stands in a conversation without its question before it, unless the
\* question was removed.
AnswerFollows ==
  \A s \in Sessions : \A i \in DOMAIN msgs[s] :
    LET q == [of |-> msgs[s][i].of, role |-> "user"] IN
    q \in gone \/ \E j \in 1..i : msgs[s][j] = q

\* In the end no request is under way.
Idle(r) == req[r].step \in {"idle", "done", "failed"}
=============================================================================
