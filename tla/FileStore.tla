----------------------------- MODULE FileStore -----------------------------
(***************************************************************************)
(* Uploaded files: rows in uploaded_files and contents in a directory.      *)
(*                                                                         *)
(* An upload stores the content, then the row; a deletion marks the row,   *)
(* then removes the content.  So do retention runs, for every file that is *)
(* older than the setting file_retention_days, which they read through the *)
(* cache of SettingsCache.  Nothing ties a row to its content but the      *)
(* order of these steps.                                                   *)
(***************************************************************************)
EXTENDS SettingsCache

CONSTANTS
  Files,      \* ids of uploads; each is used once
  Deleters,   \* goroutines of users' deletions
  MaxAge      \* bound: the days a file may grow old

\* Readers are the goroutines of retention runs, Values days; 0 means for ever.
ASSUME FileConstants == Values \subseteq Nat /\ MaxAge \in Nat /\ NoValue \notin Files

VARIABLES
  row,        \* uploaded_files.status, or none
  content,    \* the files whose content is in the directory
  age,        \* whole days since created_at
  upload,     \* where the upload of a file is: new, insert, reread, discard,
              \* acked, refused, lost
  deletion,   \* where each deletion is: idle, mark, remove
  target,     \* its file
  run,        \* where each retention run is: idle, setting, purge, remove
  batch,      \* the files it has listed and not yet dealt with
  purged,     \* the file whose content it removes
  reported,   \* history: how often a file was reported as deleted
  mishap      \* history: files whose row and content a failure has parted

fileVars == <<row, content, age, upload, deletion, target, run, batch, purged,
              reported, mishap>>
vars == <<settingVars, fileVars>>

Init ==
  /\ SettingInit
  /\ row = [f \in Files |-> "none"] /\ content = {}
  /\ age = [f \in Files |-> 0]
  /\ upload = [f \in Files |-> "new"]
  /\ deletion = [d \in Deleters |-> "idle"] /\ target = [d \in Deleters |-> NoValue]
  /\ run = [r \in Readers |-> "idle"]
  /\ batch = [r \in Readers |-> {}] /\ purged = [r \in Readers |-> NoValue]
  /\ reported = [f \in Files |-> 0] /\ mishap = {}

-----------------------------------------------------------------------------
(* handleUploadFile. *)

\* Permission, size, type or scan speak against it, or Put fails and removes
\* what it has written; an error of that removal is dropped.
RefuseUpload(f) ==
  /\ upload[f] = "new"
  /\ upload' = [upload EXCEPT ![f] = "refused"]
  /\ \/ UNCHANGED <<content, mishap>>
     \/ Faults /\ content' = content \cup {f} /\ mishap' = mishap \cup {f}
  /\ UNCHANGED <<row, age, deletion, target, run, batch, purged, reported>>

Put(f) ==
  /\ upload[f] = "new"
  /\ content' = content \cup {f}
  /\ upload' = [upload EXCEPT ![f] = "insert"]
  /\ UNCHANGED <<row, age, deletion, target, run, batch, purged, reported, mishap>>

InsertRow(f) ==
  /\ upload[f] = "insert"
  /\ row' = [row EXCEPT ![f] = "uploaded"]
  /\ upload' = [upload EXCEPT ![f] = "reread"]
  /\ UNCHANGED <<content, age, deletion, target, run, batch, purged, reported, mishap>>

InsertRowFails(f) ==
  /\ Faults /\ upload[f] = "insert"
  /\ upload' = [upload EXCEPT ![f] = "discard"]
  /\ UNCHANGED <<row, content, age, deletion, target, run, batch, purged, reported, mishap>>

\* The row is there, but its connection is lost.
InsertRowUnacked(f) ==
  /\ Faults /\ upload[f] = "insert"
  /\ row' = [row EXCEPT ![f] = "uploaded"]
  /\ upload' = [upload EXCEPT ![f] = "discard"]
  /\ mishap' = mishap \cup {f}
  /\ UNCHANGED <<content, age, deletion, target, run, batch, purged, reported>>

\* CreateFileRecord reads the row back: 201, or an error if it is deleted.
RereadRow(f) ==
  /\ upload[f] = "reread"
  /\ upload' = [upload EXCEPT ![f] = IF row[f] = "uploaded" THEN "acked" ELSE "discard"]
  /\ UNCHANGED <<row, content, age, deletion, target, run, batch, purged, reported, mishap>>

\* To the handler this is as if there were no row.
RereadRowFails(f) ==
  /\ Faults /\ upload[f] = "reread"
  /\ upload' = [upload EXCEPT ![f] = "discard"]
  /\ mishap' = mishap \cup {f}
  /\ UNCHANGED <<row, content, age, deletion, target, run, batch, purged, reported>>

\* Mutated form: the content of a refused upload stays.
DiscardNothing(f) ==
  /\ upload[f] = "discard"
  /\ upload' = [upload EXCEPT ![f] = "refused"]
  /\ UNCHANGED <<row, content, age, deletion, target, run, batch, purged, reported, mishap>>

\* The content is removed, and the upload answered with 500.
Discard(f) ==
  /\ upload[f] = "discard"
  /\ content' = content \ {f}
  /\ upload' = [upload EXCEPT ![f] = "refused"]
  /\ UNCHANGED <<row, age, deletion, target, run, batch, purged, reported, mishap>>

\* The error is dropped.
DiscardFails(f) ==
  /\ Faults /\ upload[f] = "discard"
  /\ upload' = [upload EXCEPT ![f] = "refused"]
  /\ mishap' = mishap \cup {f}
  /\ UNCHANGED <<row, content, age, deletion, target, run, batch, purged, reported>>

Upload(f) ==
  \/ RefuseUpload(f) \/ Put(f)
  \/ InsertRow(f) \/ InsertRowFails(f) \/ InsertRowUnacked(f)
  \/ RereadRow(f) \/ RereadRowFails(f) \/ Discard(f) \/ DiscardFails(f)

-----------------------------------------------------------------------------
(* handleDeleteFile. *)

\* DeleteFileRecord finds the row...
FindRow(d, f) ==
  /\ deletion[d] = "idle" /\ row[f] = "uploaded"
  /\ deletion' = [deletion EXCEPT ![d] = "mark"]
  /\ target' = [target EXCEPT ![d] = f]
  /\ UNCHANGED <<row, content, age, upload, run, batch, purged, reported, mishap>>

\* Mutated form: the row is marked whatever its status is by now.
MarkRowAgain(d) ==
  /\ deletion[d] = "mark"
  /\ row' = [row EXCEPT ![target[d]] = "deleted"]
  /\ deletion' = [deletion EXCEPT ![d] = "remove"]
  /\ reported' = [reported EXCEPT ![target[d]] = @ + 1]
  /\ UNCHANGED <<content, age, upload, target, run, batch, purged, mishap>>

\* ... and marks it, unless somebody else has: then the answer is 404.
MarkRow(d) ==
  /\ deletion[d] = "mark"
  /\ IF row[target[d]] = "uploaded"
       THEN /\ row' = [row EXCEPT ![target[d]] = "deleted"]
            /\ deletion' = [deletion EXCEPT ![d] = "remove"]
            /\ reported' = [reported EXCEPT ![target[d]] = @ + 1]
            /\ UNCHANGED target
       ELSE /\ deletion' = [deletion EXCEPT ![d] = "idle"]
            /\ target' = [target EXCEPT ![d] = NoValue]
            /\ UNCHANGED <<row, reported>>
  /\ UNCHANGED <<content, age, upload, run, batch, purged, mishap>>

\* A failing mark may have taken effect; the answer is 404 all the same.
MarkRowFails(d) ==
  /\ Faults /\ deletion[d] = "mark"
  /\ \/ UNCHANGED <<row, mishap>>
     \/ /\ row[target[d]] = "uploaded"
        /\ row' = [row EXCEPT ![target[d]] = "deleted"]
        /\ mishap' = mishap \cup {target[d]}
  /\ deletion' = [deletion EXCEPT ![d] = "idle"]
  /\ target' = [target EXCEPT ![d] = NoValue]
  /\ UNCHANGED <<content, age, upload, run, batch, purged, reported>>

\* The content is removed; an error of the removal is dropped.
RemoveContent(d) ==
  /\ deletion[d] = "remove"
  /\ \/ content' = content \ {target[d]} /\ UNCHANGED mishap
     \/ Faults /\ mishap' = mishap \cup {target[d]} /\ UNCHANGED content
  /\ deletion' = [deletion EXCEPT ![d] = "idle"]
  /\ target' = [target EXCEPT ![d] = NoValue]
  /\ UNCHANGED <<row, age, upload, run, batch, purged, reported>>

Delete(d) ==
  (\E f \in Files : FindRow(d, f)) \/ MarkRow(d) \/ MarkRowFails(d) \/ RemoveContent(d)

-----------------------------------------------------------------------------
(* adminRunFileRetention. *)

BeginRun(r) ==
  /\ run[r] = "idle"
  /\ BeginRead(r)
  /\ run' = [run EXCEPT ![r] = "setting"]
  /\ UNCHANGED <<row, content, age, upload, deletion, target, batch, purged, reported, mishap>>

\* GetSetting runs; its error ends the run.
ReadSetting(r) ==
  /\ run[r] = "setting"
  /\ ReadStep(r)
  /\ run' = [run EXCEPT ![r] = IF reading'[r] = "idle" THEN "idle" ELSE "setting"]
  /\ UNCHANGED <<row, content, age, upload, deletion, target, batch, purged, reported, mishap>>

Expired(days) == {f \in Files : row[f] = "uploaded" /\ age[f] >= days}

\* ListExpiredFileRecords: none if the setting is 0.
ListExpired(r) ==
  /\ run[r] = "setting" /\ reading[r] = "got" /\ answer[r] # 0
  /\ batch' = [batch EXCEPT ![r] = Expired(answer[r])]
  /\ run' = [run EXCEPT ![r] = "purge"]
  /\ UNCHANGED settingVars
  /\ UNCHANGED <<row, content, age, upload, deletion, target, purged, reported, mishap>>

\* MarkFileRecordDeletedByID.  A file that somebody else has deleted is passed over.
MarkExpired(r, f) ==
  /\ run[r] = "purge" /\ f \in batch[r]
  /\ batch' = [batch EXCEPT ![r] = @ \ {f}]
  /\ IF row[f] = "uploaded"
       THEN /\ row' = [row EXCEPT ![f] = "deleted"]
            /\ run' = [run EXCEPT ![r] = "remove"]
            /\ purged' = [purged EXCEPT ![r] = f]
            /\ reported' = [reported EXCEPT ![f] = @ + 1]
       ELSE UNCHANGED <<row, run, purged, reported>>
  /\ UNCHANGED settingVars
  /\ UNCHANGED <<content, age, upload, deletion, target, mishap>>

\* A failing mark passes the file over, though it may have taken effect.
MarkExpiredFails(r, f) ==
  /\ Faults /\ run[r] = "purge" /\ f \in batch[r]
  /\ batch' = [batch EXCEPT ![r] = @ \ {f}]
  /\ \/ UNCHANGED <<row, mishap>>
     \/ /\ row[f] = "uploaded"
        /\ row' = [row EXCEPT ![f] = "deleted"]
        /\ mishap' = mishap \cup {f}
  /\ UNCHANGED settingVars
  /\ UNCHANGED <<content, age, upload, deletion, target, run, purged, reported>>

\* A failing removal is logged, and not tried again.
RemoveExpired(r) ==
  /\ run[r] = "remove"
  /\ \/ content' = content \ {purged[r]} /\ UNCHANGED mishap
     \/ Faults /\ mishap' = mishap \cup {purged[r]} /\ UNCHANGED content
  /\ run' = [run EXCEPT ![r] = "purge"]
  /\ purged' = [purged EXCEPT ![r] = NoValue]
  /\ UNCHANGED settingVars
  /\ UNCHANGED <<row, age, upload, deletion, target, batch, reported>>

\* The list is done, or was never made: a dry run, a setting of 0, an error.
EndRun(r) ==
  /\ \/ run[r] = "purge" /\ batch[r] = {}
     \/ run[r] = "setting"
  /\ EndRead(r)
  /\ run' = [run EXCEPT ![r] = "idle"]
  /\ UNCHANGED <<row, content, age, upload, deletion, target, batch, purged, reported, mishap>>

Retain(r) ==
  \/ BeginRun(r) \/ ReadSetting(r) \/ ListExpired(r)
  \/ \E f \in Files : MarkExpired(r, f) \/ MarkExpiredFails(r, f)
  \/ RemoveExpired(r) \/ EndRun(r)

-----------------------------------------------------------------------------
Ended == {"acked", "refused", "lost"}

\* A day is over for a file; handlers do not take that long.
GrowOld(f) ==
  /\ row[f] # "none" /\ upload[f] \in Ended /\ age[f] < MaxAge
  /\ age' = [age EXCEPT ![f] = @ + 1]
  /\ UNCHANGED settingVars
  /\ UNCHANGED <<row, content, upload, deletion, target, run, batch, purged, reported, mishap>>

\* Files that some handler is at work on, between two of its steps.
InHand ==
  {f \in Files : upload[f] \in {"insert", "reread", "discard"}}
    \cup {target[d] : d \in {e \in Deleters : deletion[e] = "remove"}}
    \cup {purged[r] : r \in {e \in Readers : run[e] = "remove"}}

\* The process dies with every handler in it.
Crash ==
  /\ Faults
  /\ SettingCrash
  /\ upload' = [f \in Files |-> IF upload[f] \in {"insert", "reread", "discard"}
                                THEN "lost" ELSE upload[f]]
  /\ deletion' = [d \in Deleters |-> "idle"] /\ target' = [d \in Deleters |-> NoValue]
  /\ run' = [r \in Readers |-> "idle"]
  /\ batch' = [r \in Readers |-> {}] /\ purged' = [r \in Readers |-> NoValue]
  /\ mishap' = mishap \cup InHand
  /\ UNCHANGED <<row, content, age, reported>>

Next ==
  \/ \E f \in Files : (Upload(f) /\ UNCHANGED settingVars) \/ GrowOld(f)
  \/ \E d \in Deleters : Delete(d) /\ UNCHANGED settingVars
  \/ \E r \in Readers : Retain(r)
  \/ \E w \in Writers : WriteStep(w) /\ UNCHANGED fileVars
  \/ Tick /\ UNCHANGED fileVars
  \/ Crash

Spec == Init /\ [][Next]_vars

-----------------------------------------------------------------------------
(* Properties. *)

TypeOK ==
  /\ SettingTypeOK
  /\ row \in [Files -> {"none", "uploaded", "deleted"}]
  /\ content \subseteq Files
  /\ age \in [Files -> 0 .. MaxAge]
  /\ upload \in [Files -> {"new", "insert", "reread", "discard"} \cup Ended]
  /\ deletion \in [Deleters -> {"idle", "mark", "remove"}]
  /\ target \in [Deleters -> Files \cup {NoValue}]
  /\ run \in [Readers -> {"idle", "setting", "purge", "remove"}]
  /\ batch \in [Readers -> SUBSET Files]
  /\ purged \in [Readers -> Files \cup {NoValue}]
  /\ reported \in [Files -> Nat]
  /\ mishap \subseteq Files

\* A file whose upload was acknowledged has its content as long as its row is
\* not deleted, whatever deletions, retention runs, faults and crashes there are.
AckedHasContent ==
  \A f \in Files : upload[f] = "acked" /\ row[f] = "uploaded" => f \in content

\* A file that no handler is at work on and that none of the listed failures
\* has met has content if and only if its row is there and not deleted.
ContentFollowsRow ==
  \A f \in Files \ (InHand \cup mishap) : f \in content <=> row[f] = "uploaded"

\* Of a deletion, other deletions and retention runs that race for a file, one
\* at most reports that it deleted it.
ReportedOnce == \A f \in Files : reported[f] <= 1

=============================================================================
