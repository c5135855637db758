------------------------------- MODULE Fornix -------------------------------
(***************************************************************************)
(* The shared files of a workspace and its vault: rows in the database,    *)
(* mirrored to a directory the instances mount.  The file and vault routes *)
(* of api/v1/central_hubs.py and services/fornix_sync.py.  A request reads *)
(* and checks, then touches the disk, then commits; others run in between. *)
(* The directory is there from the start; one is enough for every case.    *)
(***************************************************************************)
EXTENDS Naturals, FiniteSets

CONSTANTS Files,          \* rows of fornix_files that are no directory
          FileNames,      \* names of files
          DirNames,       \* names the directory may have
          FileRequests,   \* concurrent API requests
          MaxArchivals,   \* bound: how often a file is archived
          CommitsFail     \* whether the database may be lost at a commit

VARIABLES file,           \* the rows of the files
          dir,            \* the row of the directory
          entry,          \* live vault entries of a file
          disk,           \* the mirror: paths of files, names of directories
          fileLock,       \* rows held FOR UPDATE
          freq,           \* per request: what it has checked and will do
          archivals,      \* history: how often a file went to the vault
          removed         \* history: files a user deleted

fornixVars == <<file, dir, entry, disk, fileLock, freq, archivals, removed>>

Root == "root"
Dir == "directory"
Parents == DirNames \cup {Root}
FornixFiles == [state : {"none", "live", "deleted"}, parent : Parents, name : FileNames]
FreeRow == "free"

\* A file that is given the name of a directory is not modelled.
ASSUME NamesAssumption == FileNames \cap Parents = {} /\ Root \notin DirNames
ASSUME RowsAssumption == Dir \notin Files /\ FreeRow \notin FileRequests

Nowhere == <<Root, Root>>
NoRequest == [op |-> "idle", row |-> Dir, from |-> Nowhere, to |-> Nowhere, synced |-> FALSE]

FornixTypeOK ==
    /\ file \in [Files -> FornixFiles]
    /\ dir \in [state : {"live", "deleted"}, name : DirNames]
    /\ entry \in [Files -> Nat]
    /\ disk \subseteq (Parents \X FileNames) \cup {<<Root, d>> : d \in DirNames}
    /\ fileLock \in [Files \cup {Dir} -> FileRequests \cup {FreeRow}]
    /\ \A r \in FileRequests : freq[r].op \in {"idle", "create", "update", "delete", "archive", "restore"}
    \* uq_fornix_files_path; parent_path is NULL at the root, where the index
    \* does not compare
    /\ \A f, g \in Files : f # g /\ file[f].state = "live" /\ file[g].state = "live" /\ file[f].parent # Root
                           => <<file[f].parent, file[f].name>> # <<file[g].parent, file[g].name>>

FornixInit ==
    /\ \E n \in FileNames : file = [f \in Files |-> [state |-> "none", parent |-> Root, name |-> n]]
    /\ dir \in [state : {"live"}, name : DirNames]
    /\ entry = [f \in Files |-> 0]
    /\ disk = {<<Root, dir.name>>}
    /\ fileLock = [x \in Files \cup {Dir} |-> FreeRow]
    /\ freq = [r \in FileRequests |-> NoRequest]
    /\ archivals = [f \in Files |-> 0]
    /\ removed = {}

LiveFile(f) == file[f].state = "live"
Path(f) == <<file[f].parent, file[f].name>>
LiveAt(p) == {f \in Files : LiveFile(f) /\ Path(f) = p}

-----------------------------------------------------------------------------
(* What a request reads and checks                                         *)

\* _validate_parent_directory: the directory, FOR UPDATE (404 when missing).
HoldParent(r, parent) ==
    IF parent = Root THEN UNCHANGED fileLock
    ELSE /\ dir.state = "live" /\ dir.name = parent /\ fileLock[Dir] = FreeRow
         /\ fileLock' = [fileLock EXCEPT ![Dir] = r]

\* The request keeps the path it read and the one it will write.
Ask(r, op, row, from, to) ==
    /\ freq[r].op = "idle"
    /\ freq' = [freq EXCEPT ![r] = [op |-> op, row |-> row, from |-> from, to |-> to, synced |-> FALSE]]
    /\ UNCHANGED <<file, dir, entry, disk, archivals, removed>>

\* create_file: nothing live may be at the path (409).
AskCreate(r, f, parent, name) ==
    /\ file[f].state = "none" /\ \A q \in FileRequests : freq[q].row # f
    /\ LiveAt(<<parent, name>>) = {}
    /\ HoldParent(r, parent)
    /\ Ask(r, "create", f, Nowhere, <<parent, name>>)

\* update_file: a new parent is looked up, what is at the new path is not.
AskUpdate(r, f, parent, name) ==
    /\ LiveFile(f) /\ Path(f) # <<parent, name>>
    /\ IF parent = file[f].parent THEN UNCHANGED fileLock ELSE HoldParent(r, parent)
    /\ Ask(r, "update", f, Path(f), <<parent, name>>)

\* update_file renaming the directory: the rows below it are not touched.
RenameDirectory(r, d) ==
    /\ dir.state = "live" /\ d # dir.name /\ Ask(r, "update", Dir, <<Root, dir.name>>, <<Root, d>>) /\ UNCHANGED fileLock

\* delete_file: a directory must be empty (409).
AskDelete(r, x) ==
    /\ IF x = Dir THEN dir.state = "live" /\ \A f \in Files : ~(LiveFile(f) /\ file[f].parent = dir.name)
       ELSE LiveFile(x)
    /\ LET p == IF x = Dir THEN <<Root, dir.name>> ELSE Path(x) IN Ask(r, "delete", x, p, p)
    /\ UNCHANGED fileLock

\* As a mutant: the file to archive is read without FOR UPDATE.
AskArchiveUnlocked(r, f) ==
    /\ LiveFile(f) /\ archivals[f] < MaxArchivals
    /\ Ask(r, "archive", f, Path(f), Path(f)) /\ UNCHANGED fileLock

\* archive_file_to_vault: the row is held FOR UPDATE.
AskArchive(r, f) ==
    /\ LiveFile(f) /\ archivals[f] < MaxArchivals /\ fileLock[f] = FreeRow
    /\ fileLock' = [fileLock EXCEPT ![f] = r]
    /\ Ask(r, "archive", f, Path(f), Path(f))

\* restore_vault_entry: to where the row was, unless another file is there.
AskRestore(r, f) ==
    /\ entry[f] > 0 /\ LiveAt(Path(f)) \ {f} = {}
    /\ Ask(r, "restore", f, Path(f), Path(f)) /\ UNCHANGED fileLock

-----------------------------------------------------------------------------
(* The disk                                                                *)

Below(path) == {p \in disk : path[1] = Root /\ p[1] = path[2]}

\* sync_write, with the parents
SyncWrite(r) ==
    disk \cup {freq[r].to} \cup (IF freq[r].to[1] = Root THEN {} ELSE {<<Root, freq[r].to[1]>>})

\* sync_move: a directory takes what is below it along.
SyncMove(r) ==
    (SyncWrite(r) \ ({freq[r].from} \cup Below(freq[r].from)))
        \cup {<<freq[r].to[2], p[2]>> : p \in Below(freq[r].from)}

\* sync_remove, a directory with all that is below
SyncRemove(r) == disk \ ({freq[r].to} \cup Below(freq[r].to))

\* The path a row gets: an update writes the columns it changes.
NewPath(r) ==
    LET f == freq[r].row  from == freq[r].from  to == freq[r].to IN
    CASE freq[r].op = "create" -> to
      [] freq[r].op = "update" -> <<IF to[1] # from[1] THEN to[1] ELSE file[f].parent,
                                    IF to[2] # from[2] THEN to[2] ELSE file[f].name>>
      [] OTHER -> Path(f)

\* The path index refuses a second live row in a directory.
IndexRefuses(r) ==
    /\ freq[r].op \in {"create", "update", "restore"} /\ freq[r].row # Dir
    /\ freq[r].op = "update" => LiveFile(freq[r].row)
    /\ NewPath(r)[1] # Root /\ LiveAt(NewPath(r)) \ {freq[r].row} # {}

Finish(r) ==
    /\ freq' = [freq EXCEPT ![r] = NoRequest]
    /\ fileLock' = [x \in Files \cup {Dir} |-> IF fileLock[x] = r THEN FreeRow ELSE fileLock[x]]

\* The mirror is written before the commit.  create_file flushes its row
\* first, so a refused row writes nothing; a move needs its source.
Sync(r) ==
    /\ freq[r].op # "idle" /\ ~freq[r].synced
    /\ freq[r].op = "create" => ~IndexRefuses(r)
    /\ freq[r].op = "update" => freq[r].from \in disk
    /\ disk' = CASE freq[r].op \in {"create", "restore"} -> SyncWrite(r)
                 [] freq[r].op = "update" -> SyncMove(r)
                 [] freq[r].op \in {"delete", "archive"} -> SyncRemove(r)
    /\ freq' = [freq EXCEPT ![r].synced = TRUE]
    /\ UNCHANGED <<file, dir, entry, fileLock, archivals, removed>>

\* _raise_sync_failed: the disk refuses, which it may at any time, or the
\* index did; rolled back, 5xx.
SyncFails(r) ==
    /\ freq[r].op # "idle" /\ ~freq[r].synced
    /\ Finish(r)
    /\ UNCHANGED <<file, dir, entry, disk, archivals, removed>>

-----------------------------------------------------------------------------
(* The commit                                                              *)

RowFree(r) == fileLock[freq[r].row] \in {FreeRow, r}

CommitDirectory(r) ==
    /\ freq[r].synced /\ freq[r].row = Dir /\ RowFree(r)
    /\ dir' = IF freq[r].op = "delete" THEN [dir EXCEPT !.state = "deleted"]
              ELSE [dir EXCEPT !.name = freq[r].to[2]]
    /\ Finish(r)
    /\ UNCHANGED <<file, entry, disk, archivals, removed>>

CommitFile(r) ==
    LET f == freq[r].row IN
    /\ freq[r].synced /\ f # Dir /\ RowFree(r) /\ freq[r].op \in {"create", "update", "delete"} /\ ~IndexRefuses(r)
    /\ file' = [file EXCEPT ![f] = [parent |-> NewPath(r)[1], name |-> NewPath(r)[2],
                                    state |-> CASE freq[r].op = "create" -> "live"
                                                [] freq[r].op = "update" -> @.state
                                                [] freq[r].op = "delete" -> "deleted"]]
    /\ removed' = IF freq[r].op = "delete" THEN removed \cup {f} ELSE removed
    /\ Finish(r)
    /\ UNCHANGED <<dir, entry, disk, archivals>>

\* An entry with the content, and the row is soft-deleted.
CommitArchive(r) ==
    LET f == freq[r].row IN
    /\ freq[r].synced /\ freq[r].op = "archive"
    /\ file' = [file EXCEPT ![f].state = "deleted"]
    /\ entry' = [entry EXCEPT ![f] = @ + 1]
    /\ archivals' = IF LiveFile(f) THEN [archivals EXCEPT ![f] = @ + 1] ELSE archivals
    /\ Finish(r)
    /\ UNCHANGED <<dir, disk, removed>>

\* As a mutant: the entry is deleted on its own, before the row is back.
CommitRestoreEntryOnly(r) ==
    LET f == freq[r].row IN
    /\ freq[r].synced /\ freq[r].op = "restore" /\ RowFree(r)
    /\ entry' = [entry EXCEPT ![f] = IF @ > 0 THEN @ - 1 ELSE 0]
    /\ file' = IF IndexRefuses(r) THEN file ELSE [file EXCEPT ![f].state = "live"]
    /\ Finish(r)
    /\ UNCHANGED <<dir, disk, archivals, removed>>

\* The row is live again and the entry soft-deleted (twice is once).
CommitRestore(r) ==
    LET f == freq[r].row IN
    /\ freq[r].synced /\ freq[r].op = "restore" /\ RowFree(r) /\ ~IndexRefuses(r)
    /\ entry' = [entry EXCEPT ![f] = IF @ > 0 THEN @ - 1 ELSE 0]
    /\ file' = [file EXCEPT ![f].state = "live"]
    /\ Finish(r)
    /\ UNCHANGED <<dir, disk, archivals, removed>>

\* The flush is refused, or the connection is lost: rolled back, the disk is not.
CommitLost(r) ==
    /\ freq[r].synced
    /\ IndexRefuses(r) \/ CommitsFail
    /\ Finish(r)
    /\ UNCHANGED <<file, dir, entry, disk, archivals, removed>>

FornixNext ==
    \E r \in FileRequests :
        \/ \E f \in Files, parent \in Parents, n \in FileNames : AskCreate(r, f, parent, n) \/ AskUpdate(r, f, parent, n)
        \/ \E d \in DirNames : RenameDirectory(r, d)
        \/ \E f \in Files : AskDelete(r, f) \/ AskArchive(r, f) \/ AskRestore(r, f)
        \/ AskDelete(r, Dir)
        \/ Sync(r) \/ SyncFails(r)
        \/ CommitDirectory(r) \/ CommitFile(r) \/ CommitArchive(r) \/ CommitRestore(r) \/ CommitLost(r)

-----------------------------------------------------------------------------
(* Properties                                                              *)

\* A file that was created and that nobody deleted is live or in the vault,
\* whatever archives, restores, moves and failures overlap.
NeverLost ==
    \A f \in Files \ removed : file[f].state # "none" => LiveFile(f) \/ entry[f] > 0

\* The vault never holds more entries of a file than times it was archived:
\* two overlapping archive requests make one entry.
OneEntryPerArchive == \A f \in Files : entry[f] <= archivals[f]

\* The tree and the vault keep their types, and no file is archived twice at once.
FilesConsistent == FornixTypeOK /\ OneEntryPerArchive

\* fornix_sync: "never a silent DB-only or file-only write": with no request
\* under way, the mirror holds the paths of the live rows.
MirrorMatches ==
    (\A r \in FileRequests : freq[r].op = "idle")
        => disk = {Path(f) : f \in {g \in Files : LiveFile(g)}}
                  \cup (IF dir.state = "live" THEN {<<Root, dir.name>>} ELSE {})
=============================================================================
