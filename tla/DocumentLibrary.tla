---------------------------- MODULE DocumentLibrary ----------------------------
(***************************************************************************)
(* The documents of one project: a row in the table assets and a file in    *)
(* the project's directory for each.  An upload saves the file and then     *)
(* inserts the row; deleting a document, or the project, removes files and  *)
(* then rows.  Requests overlap, fail and die between these steps.  File    *)
(* names are unique, so rows and files of different projects never meet.    *)
(***************************************************************************)
EXTENDS FiniteSets

CONSTANTS
  Documents,  \* documents, each uploaded at most once
  Slots,      \* requests served at the same time
  NoDocument  \* no document

ASSUME LibraryAssumption == NoDocument \notin Documents

VARIABLES
  project,     \* the project's row exists
  directory,   \* its directory exists
  files,       \* the documents with a file in it
  assets,      \* the documents with a row
  uploaded,    \* documents whose upload has begun
  dispatched,  \* documents whose processing task was queued
  work,        \* the requests being served
  botched,     \* history: documents left over by a deletion that ended half-way
  overlapped   \* history: documents whose upload failed, or overlapped the project's deletion

libraryVars ==
  <<project, directory, files, assets, uploaded, dispatched, work, botched, overlapped>>

Work == [kind : {"none", "upload", "delete", "delete_project"}, doc : Documents \cup {NoDocument},
         at : {"idle", "received", "checked", "opening", "saved", "inserted", "found", "emptied"}]

NoWork == [kind |-> "none", doc |-> NoDocument, at |-> "idle"]

Doing(kind, stage) == {s \in Slots : work[s].kind = kind /\ work[s].at = stage}

Uploading == {work[s].doc : s \in {t \in Slots : work[t].kind = "upload"}}

\* Some deletion of the project has removed the files and not yet the row.
Emptied == Doing("delete_project", "emptied") # {}

InitLibrary ==
  /\ project = TRUE
  /\ directory = FALSE
  /\ files = {}
  /\ assets = {}
  /\ uploaded = {}
  /\ dispatched = {}
  /\ work = [s \in Slots |-> NoWork]
  /\ botched = {}
  /\ overlapped = {}

At(s, kind, stage) == work[s].kind = kind /\ work[s].at = stage

Proceed(s, stage) == work' = [work EXCEPT ![s].at = stage]

Answer(s) == work' = [work EXCEPT ![s] = NoWork]

(***************************************************************************)
(* Upload.                                                                  *)
(***************************************************************************)

\* The request finds the project and reads the content, at most one byte beyond the limit.
ReceiveUpload(s, d) ==
  /\ work[s] = NoWork
  /\ project
  /\ d \notin uploaded
  /\ uploaded' = uploaded \cup {d}
  /\ work' = [work EXCEPT ![s] = [kind |-> "upload", doc |-> d, at |-> "received"]]
  /\ overlapped' = IF Emptied THEN overlapped \cup {d} ELSE overlapped
  /\ UNCHANGED <<project, directory, files, assets, dispatched, botched>>

\* The name, the size, the declared type and the first bytes are checked; a file that fails is
\* refused (and, if it looks malicious, its owner blocked: AccountStatus).  The project is then
\* looked up again.
ValidateUpload(s) ==
  /\ At(s, "upload", "received")
  /\ \/ project /\ Proceed(s, "checked")
     \/ Answer(s)
  /\ UNCHANGED <<project, directory, files, assets, uploaded, dispatched, botched, overlapped>>

\* The directory is created if needed, and the file is opened in a thread.
MakeDirectory(s) ==
  /\ At(s, "upload", "checked")
  /\ directory' = TRUE
  /\ Proceed(s, "opening")
  /\ UNCHANGED <<project, files, assets, uploaded, dispatched, botched, overlapped>>

\* Opening creates the file, unless the directory has gone.
SaveFile(s) ==
  /\ At(s, "upload", "opening")
  /\ IF directory
     THEN files' = files \cup {work[s].doc} /\ Proceed(s, "saved")
     ELSE Answer(s) /\ UNCHANGED files
  /\ UNCHANGED <<project, directory, assets, uploaded, dispatched, botched, overlapped>>

\* The foreign key refuses a row without its project; the file stays.
InsertAsset(s) ==
  /\ At(s, "upload", "saved")
  /\ IF project
     THEN assets' = assets \cup {work[s].doc} /\ Proceed(s, "inserted") /\ UNCHANGED overlapped
     ELSE Answer(s) /\ overlapped' = overlapped \cup {work[s].doc} /\ UNCHANGED assets
  /\ UNCHANGED <<project, directory, files, uploaded, dispatched, botched>>

DispatchProcessing(s) ==
  /\ At(s, "upload", "inserted")
  /\ dispatched' = dispatched \cup {work[s].doc}
  /\ Answer(s)
  /\ UNCHANGED <<project, directory, files, assets, uploaded, botched, overlapped>>

\* A manual start for a document that is there.
ProcessAgain(d) ==
  /\ d \in assets
  /\ dispatched' = dispatched \cup {d}
  /\ UNCHANGED <<project, directory, files, assets, uploaded, work, botched, overlapped>>

(***************************************************************************)
(* Deletion.                                                                *)
(***************************************************************************)

FindDocument(s, d) ==
  /\ work[s] = NoWork
  /\ d \in assets
  /\ work' = [work EXCEPT ![s] = [kind |-> "delete", doc |-> d, at |-> "found"]]
  /\ UNCHANGED <<project, directory, files, assets, uploaded, dispatched, botched, overlapped>>

\* A file that is missing is only logged.
DeleteFile_Skipped(s) ==
  /\ At(s, "delete", "found")
  /\ UNCHANGED files
  /\ Proceed(s, "emptied")
  /\ UNCHANGED <<project, directory, assets, uploaded, dispatched, botched, overlapped>>

DeleteFile(s) ==
  /\ At(s, "delete", "found")
  /\ files' = files \ {work[s].doc}
  /\ Proceed(s, "emptied")
  /\ UNCHANGED <<project, directory, assets, uploaded, dispatched, botched, overlapped>>

DeleteAsset(s) ==
  /\ At(s, "delete", "emptied")
  /\ assets' = assets \ {work[s].doc}
  /\ Answer(s)
  /\ UNCHANGED <<project, directory, files, uploaded, dispatched, botched, overlapped>>

FindProject(s) ==
  /\ work[s] = NoWork
  /\ project
  /\ work' = [work EXCEPT ![s] = [kind |-> "delete_project", doc |-> NoDocument, at |-> "found"]]
  /\ UNCHANGED <<project, directory, files, assets, uploaded, dispatched, botched, overlapped>>

\* rmtree; uploads that are under way overlap it.
DeleteProjectFiles(s) ==
  /\ At(s, "delete_project", "found")
  /\ files' = {}
  /\ directory' = FALSE
  /\ Proceed(s, "emptied")
  /\ overlapped' = overlapped \cup Uploading
  /\ UNCHANGED <<project, assets, uploaded, dispatched, botched>>

\* The removal of the tree stops at a file it cannot remove, or at one that an upload creates
\* at that moment.
TreeRemains(s) ==
  /\ At(s, "delete_project", "found")
  /\ files' \in SUBSET files
  /\ Answer(s)
  /\ botched' = botched \cup (Documents \ files')
  /\ UNCHANGED <<project, directory, assets, uploaded, dispatched, overlapped>>

\* The rows of its documents go with the project's.
DeleteProject(s) ==
  /\ At(s, "delete_project", "emptied")
  /\ project' = FALSE
  /\ assets' = {}
  /\ Answer(s)
  /\ UNCHANGED <<directory, files, uploaded, dispatched, botched, overlapped>>

\* A request raises, or dies with the process.
RequestFails(s) ==
  /\ work[s] # NoWork
  /\ Answer(s)
  /\ botched' = CASE At(s, "delete", "emptied") -> botched \cup {work[s].doc}
                  [] At(s, "delete_project", "emptied") -> botched \cup (Documents \ files)
                  [] OTHER -> botched
  /\ overlapped' = IF At(s, "upload", "saved") THEN overlapped \cup {work[s].doc} ELSE overlapped
  /\ UNCHANGED <<project, directory, files, assets, uploaded, dispatched>>

NextLibrary ==
  \/ \E s \in Slots :
       \/ \E d \in Documents : ReceiveUpload(s, d) \/ FindDocument(s, d)
       \/ ValidateUpload(s) \/ MakeDirectory(s) \/ SaveFile(s) \/ InsertAsset(s)
       \/ DispatchProcessing(s)
       \/ DeleteFile(s) \/ DeleteAsset(s)
       \/ FindProject(s) \/ DeleteProjectFiles(s) \/ TreeRemains(s) \/ DeleteProject(s)
       \/ RequestFails(s)
  \/ \E d \in Documents : ProcessAgain(d)

LibrarySpec == InitLibrary /\ [][NextLibrary]_libraryVars

LibraryTypeOK ==
  /\ project \in BOOLEAN /\ directory \in BOOLEAN
  /\ files \subseteq uploaded
  /\ assets \subseteq uploaded
  /\ uploaded \subseteq Documents
  /\ dispatched \subseteq uploaded
  /\ work \in [Slots -> Work]
  /\ \A s \in Slots : work[s].kind = "upload" => work[s].doc \in uploaded
  /\ botched \subseteq Documents /\ overlapped \subseteq Documents

\* Rows and files agree.  A document that is listed has its file, unless a deletion has removed
\* the file and is still under way, or ended half-way; a file belongs to a document that is
\* listed or being uploaded, unless its upload failed or overlapped the deletion of the project;
\* and no row is left of a deleted project (controllers/document_controller.py,
\* controllers/project_controller.py).
RowsAndFilesAgree ==
  /\ \A d \in assets :
       \/ d \in files \/ d \in botched \/ Emptied
       \/ \E s \in Doing("delete", "emptied") : work[s].doc = d
  /\ files \subseteq assets \cup Uploading \cup overlapped
  /\ ~project => assets = {}
================================================================================
