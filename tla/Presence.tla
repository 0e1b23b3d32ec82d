------------------------------ MODULE Presence ------------------------------
(***************************************************************************)
(* Who is online: the gateways of socket.io (user, load, tender, chat)     *)
(* keep in Redis a set of sockets per user, a key per socket and a tracker *)
(* of active users.  Every handler is a sequence of Redis commands, each   *)
(* awaited, so that handlers of different sockets, and the disconnect of a *)
(* socket with its own connect, interleave between the commands.           *)
(***************************************************************************)
EXTENDS Naturals, Sequences, FiniteSets

CONSTANTS
  Users,      \* users of the portal
  NoUser,     \* no user
  Sockets,    \* connections; an id is used once
  Claim,      \* Claim[s]: the user the handshake of s names
  Cookie,     \* Cookie[s]: the user of the session whose signed cookie came with s
  Gateways,   \* the gateways a behaviour may be about
  MaxFaults   \* bound on restarts of the backend and on keys that reach their time to live

PresenceAssumption ==
  /\ NoUser \notin Users
  /\ Claim \in [Sockets -> Users \cup {NoUser}] /\ Cookie \in [Sockets -> Users \cup {NoUser}]
  /\ Gateways \subseteq {"user", "load", "tender", "chat"}
  /\ MaxFaults \in Nat

VARIABLES
  gateway,    \* the gateway of this behaviour
  open,       \* sockets that are connected
  closed,     \* sockets that were connected once
  joined,     \* joined[s]: commands of handleConnection done for s
  left,       \* left[s]: commands of handleDisconnect done for s
  key,        \* sockets with a key socket_user:<id>
  sets,       \* sets[u]: user_sockets:<u>
  tracked,    \* users with a mark of the last two minutes in the tracker
  said,       \* said[u]: the last user_status_change about u
  faults,     \* restarts and expiries so far
  astray      \* sockets whose disconnect overtook the connect, or whose records
              \* expired or outlived a restart

vars == <<gateway, open, closed, joined, left, key, sets, tracked, said, faults, astray>>

\* The commands of handleConnection: those of one element are sent at once.  The
\* last of user and load counts the sockets and announces the first one.
Connect ==
  [user   |-> <<{"key"}, {"add"}, {"track"}, {"count"}>>,
   load   |-> <<{"add", "key", "track"}, {"count"}>>,
   tender |-> <<{"add"}, {"key"}>>,
   chat   |-> <<{"add"}>>]

\* Mutant: the sockets that remain are counted before this one is taken out.
DisconnectCountsFirst ==
  [user   |-> <<"find", "count", "remove", "forget", "untrack">>,
   load   |-> <<"find", "count", "remove", "forget", "untrack">>,
   tender |-> <<"find", "remove", "forget">>,
   chat   |-> <<"remove">>]

\* The commands of handleDisconnect.  "find" reads the key of the socket and ends the
\* handler when there is none; "count" ends it when sockets remain.
Disconnect ==
  [user   |-> <<"find", "remove", "forget", "count", "untrack">>,
   load   |-> <<"find", "remove", "forget", "count", "untrack">>,
   tender |-> <<"find", "remove", "forget">>,
   chat   |-> <<"remove">>]

\* Whom a socket belongs to: only the user gateway looks at the session, and it
\* prefers it to what the client says.
Owner(s) == IF gateway = "user" /\ Cookie[s] # NoUser THEN Cookie[s] ELSE Claim[s]

Joining(s) == s \in open \cup closed /\ Owner(s) # NoUser /\ joined[s] < Len(Connect[gateway])
Leaving(s) == s \in closed /\ Owner(s) # NoUser /\ left[s] < Len(Disconnect[gateway])
Gone(s)    == left[s] = Len(Disconnect[gateway])
Settled(u) == \A s \in Sockets : Owner(s) = u => ~Joining(s) /\ ~Leaving(s)

Init ==
  /\ gateway \in Gateways
  /\ open = {} /\ closed = {}
  /\ joined = [s \in Sockets |-> 0] /\ left = [s \in Sockets |-> 0]
  /\ key = {} /\ sets = [u \in Users |-> {}] /\ tracked = {}
  /\ said = [u \in Users |-> "nothing"]
  /\ faults = 0 /\ astray = {}

\* A socket connects; one that names no user is closed (by chat, only ignored).
Open(s) ==
  /\ s \notin open \cup closed
  /\ IF Owner(s) = NoUser /\ gateway # "chat"
     THEN closed' = closed \cup {s} /\ UNCHANGED open
     ELSE open' = open \cup {s} /\ UNCHANGED closed
  /\ UNCHANGED <<gateway, joined, left, key, sets, tracked, said, faults, astray>>

Join(s) ==
  /\ Joining(s)
  /\ LET u == Owner(s)
         now == Connect[gateway][joined[s] + 1]
     IN /\ key' = IF "key" \in now THEN key \cup {s} ELSE key
        /\ sets' = IF "add" \in now THEN [sets EXCEPT ![u] = @ \cup {s}] ELSE sets
        /\ tracked' = IF "track" \in now THEN tracked \cup {u} ELSE tracked
        /\ said' = IF "count" \in now /\ Cardinality(sets[u]) = 1
                   THEN [said EXCEPT ![u] = "online"] ELSE said
  /\ joined' = [joined EXCEPT ![s] = @ + 1]
  /\ UNCHANGED <<gateway, open, closed, left, faults, astray>>

\* A socket closes; its disconnect does not wait for what its connect still does.
Close(s) ==
  /\ s \in open
  /\ open' = open \ {s} /\ closed' = closed \cup {s}
  /\ astray' = IF Joining(s) THEN astray \cup {s} ELSE astray
  /\ UNCHANGED <<gateway, joined, left, key, sets, tracked, said, faults>>

\* One command of handleDisconnect.
Leave(s) ==
  /\ Leaving(s)
  /\ LET u == Owner(s)
         now == Disconnect[gateway][left[s] + 1]
         ends == \/ now = "find" /\ s \notin key
                 \/ now = "count" /\ sets[u] # {}
     IN /\ left' = [left EXCEPT ![s] = IF ends THEN Len(Disconnect[gateway]) ELSE @ + 1]
        /\ sets' = IF now = "remove" THEN [sets EXCEPT ![u] = @ \ {s}] ELSE sets
        /\ key' = IF now = "forget" THEN key \ {s} ELSE key
        /\ tracked' = IF now = "untrack" THEN tracked \ {u} ELSE tracked
        /\ said' = IF now = "untrack" THEN [said EXCEPT ![u] = "offline"] ELSE said
  /\ UNCHANGED <<gateway, open, closed, joined, faults, astray>>

\* The client's heartbeat marks the user as active, whatever the set says.
Heartbeat(s) ==
  /\ s \in open /\ gateway \in {"user", "load"} /\ Owner(s) # NoUser
  /\ tracked' = tracked \cup {Owner(s)}
  /\ UNCHANGED <<gateway, open, closed, joined, left, key, sets, said, faults, astray>>

\* Two minutes pass without a mark: get_online_users removes the user from the
\* tracker, and the lists of users leave him out.
Lapse(u) ==
  /\ u \in tracked
  /\ tracked' = tracked \ {u}
  /\ UNCHANGED <<gateway, open, closed, joined, left, key, sets, said, faults, astray>>

\* The key of a socket lives as long as it was given at the start, and no heartbeat
\* prolongs it: a connection can outlive it.
KeyExpires(s) ==
  /\ s \in key /\ faults < MaxFaults
  /\ key' = key \ {s} /\ astray' = astray \cup {s}
  /\ faults' = faults + 1
  /\ UNCHANGED <<gateway, open, closed, joined, left, sets, tracked, said>>

\* The set of a user expires as well; the heartbeats of the user gateway prolong it,
\* the other gateways do so only at the next connect.
SetExpires(u) ==
  /\ sets[u] # {} /\ faults < MaxFaults
  /\ gateway = "user" => \A s \in sets[u] : s \notin open
  /\ sets' = [sets EXCEPT ![u] = {}] /\ astray' = astray \cup sets[u]
  /\ faults' = faults + 1
  /\ UNCHANGED <<gateway, open, closed, joined, left, key, tracked, said>>

\* The backend restarts: every connection breaks and no handler runs for it; Redis
\* keeps what it has.
Crash ==
  /\ faults < MaxFaults
  /\ faults' = faults + 1
  /\ open' = {} /\ closed' = closed \cup open
  /\ astray' = astray \cup {s \in open \cup closed : Joining(s) \/ ~Gone(s)}
  /\ joined' = [s \in Sockets |-> IF s \in open \cup closed THEN Len(Connect[gateway]) ELSE 0]
  /\ left' = [s \in Sockets |-> IF s \in open \cup closed THEN Len(Disconnect[gateway]) ELSE 0]
  /\ UNCHANGED <<gateway, key, sets, tracked, said>>

Next ==
  \/ \E s \in Sockets : Open(s) \/ Join(s) \/ Close(s) \/ Leave(s) \/ Heartbeat(s) \/ KeyExpires(s)
  \/ \E u \in Users : Lapse(u) \/ SetExpires(u)
  \/ Crash

-----------------------------------------------------------------------------

TypeOK ==
  /\ gateway \in Gateways
  /\ open \subseteq Sockets /\ closed \subseteq Sockets \ open
  /\ joined \in [Sockets -> 0..Len(Connect[gateway])]
  /\ left \in [Sockets -> 0..Len(Disconnect[gateway])]
  /\ key \subseteq Sockets /\ sets \in [Users -> SUBSET Sockets]
  /\ tracked \subseteq Users /\ said \in [Users -> {"nothing", "online", "offline"}]
  /\ faults \in 0..MaxFaults /\ astray \subseteq Sockets

\* When the last connection of a user has gone and its handlers are through, the
\* portal has been told that he is offline and no longer lists him, and Redis keeps
\* nothing of him; and while one of his connections is settled his set holds it.  Of
\* users none of whose connections went astray: user.gateway.ts, load.gateway.ts.
OfflineTold ==
  \A u \in Users :
    /\ Settled(u)
    /\ \A s \in astray : Owner(s) # u
    => /\ sets[u] = {s \in open : Owner(s) = u}
       /\ sets[u] = {} => /\ said[u] # "online"
                          /\ u \notin tracked
=============================================================================
