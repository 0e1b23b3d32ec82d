------------------------------- MODULE Videos -------------------------------
(***************************************************************************)
(* Training videos: a large video comes in chunks that are written to      *)
(* their places in one .part file; the session beside it remembers which   *)
(* have arrived.  When all have, the file is moved to the videos and       *)
(* recorded.  Requests of one upload run at the same time, a nightly sweep *)
(* removes what was given up, and the backend can restart at any step.     *)
(***************************************************************************)
EXTENDS Naturals, FiniteSets

CONSTANTS
  Uploads,    \* uploads, and the files they become
  Chunks,     \* the chunks of a video
  Sends,      \* requests that send a chunk
  Upload,     \* Upload[r]: the upload r belongs to
  Chunk,      \* Chunk[r]: the chunk r brings
  Completes,  \* requests that complete an upload (any of them)
  None,       \* no file, no session, nothing
  MaxCrashes  \* bound on restarts

VideosAssumption ==
  /\ Upload \in [Sends -> Uploads] /\ Chunk \in [Sends -> Chunks]
  /\ None \notin Uploads /\ MaxCrashes \in Nat
  /\ Chunks # {}   \* initUpload refuses a file without bytes

VARIABLES
  part,       \* part[u]: "none", "fresh" or "old" (a day since the last chunk)
  written,    \* written[u]: chunks whose bytes are in the file, wherever it is
  meta,       \* meta[u]: chunks the session remembers, None or Torn
  tmp,        \* tmp[u]: the session file being written, the same for every request
  send,       \* send[r]: where r stands, what it has read, what its open file is called now
  complete,   \* complete[c]: where c stands, with which upload
  video,      \* video[u]: "none", "fresh" or "old"
  saving,     \* videos in place whose record is to come
  records,    \* the list of videos in trainings.json
  doomed,     \* videos a handler is about to unlink
  known,      \* the names the sweep has read, NotSweeping between sweeps
  crashes,
  overdue     \* uploads completed more than a day after their last chunk

vars == <<part, written, meta, tmp, send, complete, video, saving, records, doomed, known,
          crashes, overdue>>

Torn        == {"torn"}
NotSweeping == {"not sweeping"}
Waiting     == [at |-> "waiting", seen |-> {}, fd |-> "closed"]
Ended       == [at |-> "ended", seen |-> {}, fd |-> "closed"]
Idle        == [at |-> "idle", of |-> None]

Init ==
  /\ part = [u \in Uploads |-> "none"] /\ written = [u \in Uploads |-> {}]
  /\ meta = [u \in Uploads |-> None] /\ tmp = [u \in Uploads |-> None]
  /\ send = [r \in Sends |-> Waiting] /\ complete = [c \in Completes |-> Idle]
  /\ video = [u \in Uploads |-> "none"]
  /\ saving = {} /\ records = {} /\ doomed = {} /\ known = NotSweeping
  /\ crashes = 0 /\ overdue = {}

\* readSession finds the session and can read it.
Readable(u) == meta[u] # None /\ meta[u] # Torn

FilesUnchanged  == UNCHANGED <<part, written, video>>
ListUnchanged   == UNCHANGED <<saving, records, doomed, known, crashes, overdue>>
UploadUnchanged == UNCHANGED <<part, written, meta, tmp, send, complete>>

\* An upload begins with a file of the full size, all holes; its session comes next.
New(u) == video[u] = "none" /\ written[u] = {} /\ u \notin saving \cup records \cup doomed

InitPart(u) ==
  /\ New(u) /\ part[u] = "none" /\ meta[u] = None
  /\ part' = [part EXCEPT ![u] = "fresh"]
  /\ UNCHANGED <<written, meta, tmp, send, complete, video>> /\ ListUnchanged

InitMeta(u) ==
  /\ New(u) /\ part[u] = "fresh" /\ meta[u] = None
  /\ meta' = [meta EXCEPT ![u] = {}]
  /\ UNCHANGED <<tmp, send, complete>> /\ FilesUnchanged /\ ListUnchanged

-----------------------------------------------------------------------------
(* uploadChunk *)

Goes(r, at, seen, fd) == send' = [send EXCEPT ![r] = [at |-> at, seen |-> seen, fd |-> fd]]

ReadFirst(r) ==
  /\ send[r] = Waiting /\ Readable(Upload[r])
  /\ Goes(r, "stream", {}, "closed")
  /\ UNCHANGED <<meta, tmp, complete>> /\ FilesUnchanged /\ ListUnchanged

\* The bytes arrive at their place; written short of the end, they do not count and
\* the request fails, as it does when the file has gone.
Stream(r) ==
  /\ send[r].at = "stream"
  /\ \/ /\ part[Upload[r]] # "none"
        /\ written' = [written EXCEPT ![Upload[r]] = @ \cup {Chunk[r]}]
        /\ part' = [part EXCEPT ![Upload[r]] = "fresh"]
        /\ Goes(r, "reread", {}, "closed")
     \/ send' = [send EXCEPT ![r] = Ended] /\ UNCHANGED <<written, part>>
  /\ UNCHANGED <<meta, tmp, complete, video>> /\ ListUnchanged

\* The session is read again, for it may have been removed meanwhile.
Reread(r) ==
  /\ send[r].at = "reread"
  /\ IF Readable(Upload[r]) THEN Goes(r, "open", meta[Upload[r]] \cup {Chunk[r]}, "closed")
     ELSE send' = [send EXCEPT ![r] = Ended]
  /\ UNCHANGED <<meta, tmp, complete>> /\ FilesUnchanged /\ ListUnchanged

\* writeSession opens the temporary file, which empties it, ...
OpenTmp(r) ==
  /\ send[r].at = "open"
  /\ tmp' = [tmp EXCEPT ![Upload[r]] = Torn]
  /\ Goes(r, "write", send[r].seen, "tmp")
  /\ UNCHANGED <<meta, complete>> /\ FilesUnchanged /\ ListUnchanged

\* ... writes it, under whatever name another request has given it by now, ...
WriteTmp(r) ==
  /\ send[r].at = "write"
  /\ tmp' = IF send[r].fd = "tmp" THEN [tmp EXCEPT ![Upload[r]] = send[r].seen] ELSE tmp
  /\ meta' = IF send[r].fd = "meta" THEN [meta EXCEPT ![Upload[r]] = send[r].seen] ELSE meta
  /\ Goes(r, "rename", send[r].seen, "closed")
  /\ UNCHANGED complete /\ FilesUnchanged /\ ListUnchanged

\* ... and renames it; when another request has done so, this one fails.
RenameTmp(r) ==
  LET u == Upload[r]
      moved == [tmp |-> "meta", meta |-> "gone", gone |-> "gone", closed |-> "closed"]
  IN /\ send[r].at = "rename"
     /\ IF tmp[u] = None
        THEN send' = [send EXCEPT ![r] = Ended] /\ UNCHANGED <<meta, tmp>>
        ELSE /\ meta' = [meta EXCEPT ![u] = tmp[u]] /\ tmp' = [tmp EXCEPT ![u] = None]
             /\ send' = [s \in Sends |->
                           CASE s = r -> Ended
                             [] s # r /\ Upload[s] = u -> [send[s] EXCEPT !.fd = moved[@]]
                             [] OTHER -> send[s]]
     /\ UNCHANGED complete /\ FilesUnchanged /\ ListUnchanged

\* What is left of the session's files is removed; an open file loses its name.
DropSession(u, with) ==
  /\ meta' = [meta EXCEPT ![u] = None]
  /\ send' = [s \in Sends |-> IF Upload[s] = u /\ send[s].fd = "meta"
                              THEN [send[s] EXCEPT !.fd = "gone"] ELSE send[s]]
  /\ part' = IF with THEN [part EXCEPT ![u] = "none"] ELSE part

Abort(u) ==
  /\ Readable(u)
  /\ DropSession(u, TRUE)
  /\ UNCHANGED <<written, tmp, complete, video>> /\ ListUnchanged

-----------------------------------------------------------------------------
(* completeUpload, and create for a video that comes in one piece *)

CompleteRead(c, u) ==
  /\ complete[c] = Idle /\ Readable(u)
  /\ meta[u] = Chunks
  /\ complete' = [complete EXCEPT ![c] = [at |-> "move", of |-> u]]
  /\ UNCHANGED <<meta, tmp, send>> /\ FilesUnchanged /\ ListUnchanged

\* The file has the full size whatever is in it, so what counts is that it is there.
CompleteMove(c) ==
  LET u == complete[c].of
  IN /\ complete[c].at = "move"
     /\ IF part[u] = "none"
        THEN complete' = [complete EXCEPT ![c] = Idle] /\ UNCHANGED <<part, video, overdue>>
        ELSE /\ part' = [part EXCEPT ![u] = "none"] /\ video' = [video EXCEPT ![u] = part[u]]
             /\ overdue' = IF part[u] = "old" THEN overdue \cup {u} ELSE overdue
             /\ complete' = [complete EXCEPT ![c].at = "drop"]
     /\ UNCHANGED <<written, meta, tmp, send, saving, records, doomed, known, crashes>>

CompleteDrop(c) ==
  LET u == complete[c].of
  IN /\ complete[c].at = "drop"
     /\ DropSession(u, TRUE)
     /\ complete' = [complete EXCEPT ![c] = Idle]
     /\ saving' = saving \cup {u}
     /\ UNCHANGED <<written, tmp, video, records, doomed, known, crashes, overdue>>

Create(u) ==
  /\ New(u) /\ part[u] = "none" /\ meta[u] = None
  /\ video' = [video EXCEPT ![u] = "fresh"] /\ written' = [written EXCEPT ![u] = Chunks]
  /\ saving' = saving \cup {u}
  /\ UNCHANGED <<part, meta, tmp, send, complete, records, doomed, known, crashes, overdue>>

\* The record is written, or that fails and the file is removed.
SaveRecord(u) ==
  /\ u \in saving
  /\ saving' = saving \ {u}
  /\ \/ records' = records \cup {u} /\ UNCHANGED doomed
     \/ doomed' = doomed \cup {u} /\ UNCHANGED records
  /\ UNCHANGED <<video, known, crashes, overdue>> /\ UploadUnchanged

Remove(u) ==
  /\ u \in records
  /\ records' = records \ {u} /\ doomed' = doomed \cup {u}
  /\ UNCHANGED <<video, saving, known, crashes, overdue>> /\ UploadUnchanged

RemoveFile(u) ==
  /\ u \in doomed
  /\ doomed' = doomed \ {u} /\ video' = [video EXCEPT ![u] = "none"]
  /\ UNCHANGED <<saving, records, known, crashes, overdue>> /\ UploadUnchanged

-----------------------------------------------------------------------------
(* The sweep, time and restarts *)

SweepStart ==
  /\ known = NotSweeping /\ known' = records
  /\ UNCHANGED <<video, saving, records, doomed, crashes, overdue>> /\ UploadUnchanged

SweepVideo(u) ==
  /\ known # NotSweeping /\ u \notin known /\ video[u] = "old"
  /\ video' = [video EXCEPT ![u] = "none"]
  /\ UNCHANGED <<saving, records, doomed, known, crashes, overdue>> /\ UploadUnchanged

\* The sweep goes over the parts when it is through with the videos: the file and the
\* session of an upload are looked at one by one.  (The session of an upload that has no
\* file any more is taken to be old.)
SweepPart(u) ==
  /\ known # NotSweeping /\ part[u] = "old"
  /\ part' = [part EXCEPT ![u] = "none"]
  /\ UNCHANGED <<written, meta, tmp, send, complete, video>> /\ ListUnchanged

SweepMeta(u) ==
  /\ known # NotSweeping /\ part[u] # "fresh" /\ meta[u] # None
  /\ \A r \in Sends : Upload[r] = u => send[r] \in {Waiting, Ended}
  /\ DropSession(u, FALSE)
  /\ UNCHANGED <<written, tmp, complete, video>> /\ ListUnchanged

SweepEnd ==
  /\ known # NotSweeping /\ known' = NotSweeping
  /\ UNCHANGED <<video, saving, records, doomed, crashes, overdue>> /\ UploadUnchanged

\* A day passes over the files of an upload; no request and no sweep lasts that long.
Age(u) ==
  /\ known = NotSweeping /\ u \notin saving
  /\ part[u] = "fresh" \/ video[u] = "fresh"
  /\ \A r \in Sends : Upload[r] = u => send[r] \in {Waiting, Ended}
  /\ \A c \in Completes : complete[c].of # u
  /\ part' = [part EXCEPT ![u] = IF @ = "fresh" THEN "old" ELSE @]
  /\ video' = [video EXCEPT ![u] = IF @ = "fresh" THEN "old" ELSE @]
  /\ UNCHANGED <<written, meta, tmp, send, complete>> /\ ListUnchanged

\* The backend restarts: requests and the sweep end where they stand.
Crash ==
  /\ crashes < MaxCrashes
  /\ crashes' = crashes + 1
  /\ send' = [r \in Sends |-> IF send[r] = Waiting THEN Waiting ELSE Ended]
  /\ complete' = [c \in Completes |-> Idle]
  /\ saving' = {} /\ doomed' = {} /\ known' = NotSweeping
  /\ UNCHANGED <<part, written, meta, tmp, video, records, overdue>>

Next ==
  \/ \E u \in Uploads :
       \/ InitPart(u) \/ InitMeta(u) \/ Abort(u) \/ Create(u) \/ SaveRecord(u) \/ Remove(u)
       \/ RemoveFile(u) \/ SweepVideo(u) \/ SweepPart(u) \/ SweepMeta(u) \/ Age(u)
       \/ \E c \in Completes : CompleteRead(c, u)
  \/ \E r \in Sends :
       ReadFirst(r) \/ Stream(r) \/ Reread(r) \/ OpenTmp(r) \/ WriteTmp(r) \/ RenameTmp(r)
  \/ \E c \in Completes : CompleteMove(c) \/ CompleteDrop(c)
  \/ SweepStart \/ SweepEnd \/ Crash

Spec == Init /\ [][Next]_vars

-----------------------------------------------------------------------------

TypeOK ==
  /\ part \in [Uploads -> {"none", "fresh", "old"}]
  /\ video \in [Uploads -> {"none", "fresh", "old"}]
  /\ written \in [Uploads -> SUBSET Chunks]
  /\ meta \in [Uploads -> (SUBSET Chunks) \cup {None, Torn}]
  /\ tmp \in [Uploads -> (SUBSET Chunks) \cup {None, Torn}]
  /\ send \in [Sends -> [at : {"waiting", "stream", "reread", "open", "write", "rename", "ended"},
                         seen : SUBSET Chunks, fd : {"closed", "tmp", "meta", "gone"}]]
  /\ complete \in [Completes -> [at : {"idle", "move", "drop"}, of : Uploads \cup {None}]]
  /\ saving \subseteq Uploads /\ records \subseteq Uploads /\ doomed \subseteq Uploads
  /\ known = NotSweeping \/ known \subseteq Uploads
  /\ crashes \in 0..MaxCrashes /\ overdue \subseteq Uploads

\* A video of the list has all of its bytes, and its file is there: no order of chunks,
\* repeats, cancels, sweeps and restarts lists one with a hole.  The one exception is an
\* upload completed a day after its last chunk, which the sweep can take for one that
\* was given up.  uploadChunk, completeUpload, cleanupOrphanVideos of training.service.ts.
WholeVideos ==
  \A u \in records : /\ written[u] = Chunks
                     /\ video[u] # "none" \/ u \in overdue
                     /\ u \notin doomed
=============================================================================
