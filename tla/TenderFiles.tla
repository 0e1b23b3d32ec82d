---------------------------- MODULE TenderFiles ----------------------------
(***************************************************************************)
(* The files of one tender: rows of the table files, objects in S3, and    *)
(* the saves of the form that bring both in line with what its user keeps  *)
(* and adds (TenderService.save, FilesService.syncFiles, S3Service).  The  *)
(* calls go out one after the other and each may fail; the failure of a    *)
(* file is logged and the next one is taken up.                            *)
(***************************************************************************)
EXTENDS Naturals, FiniteSets

CONSTANTS
  Files,      \* files; the key in S3 is random, one to one with the file
  Saves,      \* submissions of the form
  Uploads,    \* Uploads[s]: the new files save s brings
  Nothing,    \* no file
  MaxFaults   \* bound: calls that fail, and restarts

TenderFilesAssumption ==
  /\ Uploads \in [Saves -> SUBSET Files]
  /\ \A s, t \in Saves : s # t => Uploads[s] \cap Uploads[t] = {}
  /\ Nothing \notin Files /\ MaxFaults \in Nat

VARIABLES
  rows,    \* ids in the table files
  bucket,  \* objects in S3
  save,    \* save[s]: [at, keep, drop, add, file]: next step, current_file_ids, the files
           \* still to delete and to upload, the one in hand
  faults,
  halves,  \* history: files of which one call of two has failed
  loaded   \* history: loaded[s]: [alone, faults] since the form was opened: no other save
           \* has touched the tender; the faults by then

vars == <<rows, bucket, save, faults, halves, loaded>>

Form(at, keep, drop, add, file) ==
  [at |-> at, keep |-> keep, drop |-> drop, add |-> add, file |-> file]

Init ==
  /\ rows \in SUBSET (Files \ UNION {Uploads[s] : s \in Saves}) /\ bucket = rows
  /\ save = [s \in Saves |-> Form("new", {}, {}, {}, Nothing)]
  /\ faults = 0 /\ halves = {}
  /\ loaded = [s \in Saves |-> [alone |-> FALSE, faults |-> 0]]

At(s, step) == save[s].at = step
Goes(s, step, f) == save' = [save EXCEPT ![s] = [@ EXCEPT !.at = step, !.file = f]]
Fault(f) == faults < MaxFaults /\ faults' = faults + 1 /\ halves' = halves \cup {f}
NoFault  == UNCHANGED <<faults, halves>>
\* A save that changes a file ends the solitude of the others.
Touches(s) == loaded' = [t \in Saves |-> IF t = s THEN loaded[t] ELSE [loaded[t] EXCEPT !.alone = FALSE]]

-----------------------------------------------------------------------------
\* The user opens the form and chooses what to keep of what he sees.
OpenForm(s) ==
  /\ At(s, "new")
  /\ \E keep \in SUBSET rows : save' = [save EXCEPT ![s] = Form("open", keep, {}, Uploads[s], Nothing)]
  /\ loaded' = [loaded EXCEPT ![s] =
                  [alone |-> \A t \in Saves : save[t].at \in {"new", "open", "done"}, faults |-> faults]]
  /\ UNCHANGED <<rows, bucket>> /\ NoFault

\* tender_save has gone through: the rows that the form does not keep are to go.
ListFiles(s) ==
  /\ At(s, "open")
  /\ save' = [save EXCEPT ![s] = [@ EXCEPT !.at = "delete", !.drop = rows \ save[s].keep]]
  /\ Touches(s)
  /\ UNCHANGED <<rows, bucket>> /\ NoFault

\* tender_save rejects: the files stay as they are.
SaveFails(s) ==
  /\ At(s, "open")
  /\ Goes(s, "done", Nothing)
  /\ faults < MaxFaults /\ faults' = faults + 1
  /\ UNCHANGED <<rows, bucket, halves, loaded>>

DeleteObject(s) ==
  /\ At(s, "delete")
  /\ \E f \in save[s].drop :
       /\ save' = [save EXCEPT ![s] = [@ EXCEPT
            !.at = "deleteRow", !.drop = save[s].drop \ {f}, !.file = f]]
       /\ bucket' = bucket \ {f}
  /\ UNCHANGED <<rows, loaded>> /\ NoFault

\* The row keeps naming the object, which is there.
DeleteObjectFails(s) ==
  /\ At(s, "delete")
  /\ faults < MaxFaults /\ faults' = faults + 1
  /\ \E f \in save[s].drop : save' = [save EXCEPT ![s].drop = @ \ {f}]
  /\ UNCHANGED <<rows, bucket, halves, loaded>>

DeleteRow(s) ==
  /\ At(s, "deleteRow")
  /\ rows' = rows \ {save[s].file}
  /\ Goes(s, "delete", Nothing)
  /\ UNCHANGED <<bucket, loaded>> /\ NoFault

DeleteRowFails(s) ==
  /\ At(s, "deleteRow")
  /\ Fault(save[s].file)
  /\ Goes(s, "delete", Nothing)
  /\ UNCHANGED <<rows, bucket, loaded>>

Upload(s) ==
  /\ At(s, "delete") /\ save[s].drop = {}
  /\ \E f \in save[s].add :
       /\ save' = [save EXCEPT ![s] = [@ EXCEPT
            !.at = "saveRow", !.add = save[s].add \ {f}, !.file = f]]
       /\ bucket' = bucket \cup {f}
  /\ UNCHANGED <<rows, loaded>> /\ NoFault

UploadFails(s) ==
  /\ At(s, "delete") /\ save[s].drop = {}
  /\ faults < MaxFaults /\ faults' = faults + 1
  /\ \E f \in save[s].add : save' = [save EXCEPT ![s].add = @ \ {f}]
  /\ UNCHANGED <<rows, bucket, halves, loaded>>

SaveRow(s) ==
  /\ At(s, "saveRow")
  /\ rows' = rows \cup {save[s].file}
  /\ Goes(s, "delete", Nothing)
  /\ Touches(s)
  /\ UNCHANGED bucket /\ NoFault

\* Nothing takes the object out of S3 again.
SaveRowFails(s) ==
  /\ At(s, "saveRow")
  /\ Fault(save[s].file)
  /\ Goes(s, "delete", Nothing)
  /\ UNCHANGED <<rows, bucket, loaded>>

Answer(s) ==
  /\ At(s, "delete") /\ save[s].drop = {} /\ save[s].add = {}
  /\ Goes(s, "done", Nothing)
  /\ UNCHANGED <<rows, bucket, loaded>> /\ NoFault

\* A restart ends the saves where they are.
Crash ==
  /\ faults < MaxFaults /\ faults' = faults + 1
  /\ halves' = halves \cup ({save[s].file : s \in Saves} \ {Nothing})
  /\ save' = [s \in Saves |-> IF save[s].at \in {"new", "open"} THEN save[s]
                              ELSE [save[s] EXCEPT !.at = "done", !.file = Nothing]]
  /\ UNCHANGED <<rows, bucket, loaded>>

Next ==
  \/ \E s \in Saves : \/ OpenForm(s) \/ ListFiles(s) \/ SaveFails(s)
                      \/ DeleteObject(s) \/ DeleteObjectFails(s) \/ DeleteRow(s) \/ DeleteRowFails(s)
                      \/ Upload(s) \/ UploadFails(s) \/ SaveRow(s) \/ SaveRowFails(s) \/ Answer(s)
  \/ Crash

-----------------------------------------------------------------------------
(* Properties *)

\* The rows, objects and requests are what the code can make of them.
TypeOK ==
  /\ rows \subseteq Files /\ bucket \subseteq Files /\ halves \subseteq Files
  /\ \A s \in Saves :
       /\ save[s].at \in {"new", "open", "delete", "deleteRow", "saveRow", "done"}
       /\ save[s].keep \cup save[s].drop \cup save[s].add \subseteq Files
       /\ save[s].file \in Files \cup {Nothing}
       /\ save[s].file # Nothing <=> save[s].at \in {"deleteRow", "saveRow"}
  /\ faults \in 0..MaxFaults

\* A row names an object that is in S3, and an object has its row, but for the file a
\* request has in hand and those of which the second call failed (syncFiles, under
\* two saves of one tender).
RowsHaveObjects ==
  \A f \in Files : (f \in rows) # (f \in bucket) =>
    f \in halves \/ \E s \in Saves : save[s].file = f

\* A save that nothing disturbed, neither a fault nor another save since its form was
\* opened, leaves what the form kept and what it brought.
SaveExact ==
  \A s \in Saves : At(s, "done") /\ loaded[s].alone /\ loaded[s].faults = faults =>
    rows = save[s].keep \cup Uploads[s]
=============================================================================
