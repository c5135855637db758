----------------------------- MODULE HubProofs -----------------------------
(***************************************************************************)
(* What a workspace shares, for any number of files, entities and          *)
(* requests.  Files of the hub (Fornix): no file that nobody deleted is    *)
(* lost between the tree and the vault, and overlapping archive requests   *)
(* make one entry.  Messages (Directives): the parser keeps what a message *)
(* says, who is told that it was mentioned is who got the turn, and every  *)
(* directive that can be delivered is.  The catalog (Catalog): requests    *)
(* that overlap leave it consistent, and one that no commit overlapped     *)
(* leaves the fingerprints, the copies and the registry right.             *)
(***************************************************************************)
EXTENDS Fornix, MCCatalog, TLAPS, FiniteSetTheorems, WellFoundedInduction

-----------------------------------------------------------------------------
(* The files of the hub                                                    *)

FornixSpec == FornixInit /\ [][FornixNext]_fornixVars

Paths == Parents \X (FileNames \cup DirNames \cup {Root})
FileOps == {"idle", "create", "update", "delete", "archive", "restore"}
Asked == [op : FileOps, row : Files \cup {Dir}, from : Paths, to : Paths, synced : BOOLEAN]

Shape ==
    /\ file \in [Files -> FornixFiles]
    /\ dir \in [state : {"live", "deleted"}, name : DirNames]
    /\ entry \in [Files -> Nat]
    /\ archivals \in [Files -> Nat]
    /\ fileLock \in [Files \cup {Dir} -> FileRequests \cup {FreeRow}]
    /\ freq \in [FileRequests -> Asked]
    /\ \A r \in FileRequests :
          freq[r].op \in {"create", "update"} /\ freq[r].row \in Files => freq[r].to \in Parents \X FileNames
    /\ \A r \in FileRequests : freq[r].op = "restore" => freq[r].row \in Files
    /\ \A r \in FileRequests : freq[r].op = "update" /\ freq[r].row = Dir => freq[r].to[2] \in DirNames
    /\ \A r \in FileRequests : freq[r].row = Dir => freq[r].op \in {"idle", "update", "delete"}
    /\ \A r \in FileRequests : freq[r].op = "idle" => ~freq[r].synced

\* An archive request holds its row FOR UPDATE, and the row stays live until it ends.
ArchiveHolds ==
    \A r \in FileRequests : freq[r].op = "archive" =>
        freq[r].row \in Files /\ fileLock[freq[r].row] = r /\ LiveFile(freq[r].row)

IInv == Shape /\ ArchiveHolds /\ NeverLost /\ OneEntryPerArchive

LEMMA InitInv == FornixInit => IInv
  <1> SUFFICES ASSUME FornixInit PROVE IInv
    OBVIOUS
  <1>1. NoRequest \in Asked
    BY DEF NoRequest, Asked, FileOps, Nowhere, Paths, Parents
  <1>2. freq \in [FileRequests -> Asked] /\ \A r \in FileRequests : freq[r].op = "idle" /\ ~freq[r].synced
    BY <1>1 DEF FornixInit, NoRequest
  <1>3. file \in [Files -> FornixFiles] /\ \A f \in Files : file[f].state = "none"
    BY DEF FornixInit, FornixFiles, Parents
  <1>4. /\ dir \in [state : {"live", "deleted"}, name : DirNames]
        /\ entry \in [Files -> Nat] /\ archivals \in [Files -> Nat]
        /\ fileLock \in [Files \cup {Dir} -> FileRequests \cup {FreeRow}]
    BY DEF FornixInit
  <1>5. Shape
    BY <1>2, <1>3, <1>4 DEF Shape
  <1>6. ArchiveHolds /\ NeverLost /\ OneEntryPerArchive
    BY <1>2, <1>3 DEF FornixInit, ArchiveHolds, NeverLost, OneEntryPerArchive
  <1> QED
    BY <1>5, <1>6 DEF IInv

\* A request that has read and checked: it may have locked a row that was free.
LEMMA AskStep ==
    ASSUME IInv, NEW r \in FileRequests, NEW op \in FileOps, NEW row \in Files \cup {Dir},
           NEW from \in Paths, NEW to \in Paths,
           Ask(r, op, row, from, to),
           op \in {"create", "update"} /\ row \in Files => to \in Parents \X FileNames,
           op = "restore" => row \in Files,
           row = Dir => op \in {"update", "delete"} /\ to[2] \in DirNames,
           \/ fileLock' = fileLock
           \/ \E x \in Files \cup {Dir} : fileLock[x] = FreeRow /\ fileLock' = [fileLock EXCEPT ![x] = r],
           op = "archive" => row \in Files /\ fileLock'[row] = r /\ LiveFile(row)
    PROVE  IInv'
  <1> DEFINE asked == [op |-> op, row |-> row, from |-> from, to |-> to, synced |-> FALSE]
  <1>1. freq' = [freq EXCEPT ![r] = asked] /\ UNCHANGED <<file, dir, entry, disk, archivals, removed>>
    BY DEF Ask
  <1>2. asked \in Asked
    BY DEF Asked
  <1>3. \A q \in FileRequests : freq'[q] = IF q = r THEN asked ELSE freq[q]
    BY <1>1 DEF IInv, Shape
  <1>4. /\ fileLock' \in [Files \cup {Dir} -> FileRequests \cup {FreeRow}]
        /\ \A x \in Files \cup {Dir} : fileLock[x] # FreeRow => fileLock'[x] = fileLock[x]
    BY DEF IInv, Shape
  <1>5. Shape'
    BY <1>1, <1>2, <1>3, <1>4 DEF IInv, Shape
  <1>6. ArchiveHolds'
    <2> SUFFICES ASSUME NEW q \in FileRequests, freq'[q].op = "archive"
                 PROVE  freq'[q].row \in Files /\ fileLock'[freq'[q].row] = q
                         /\ file'[freq'[q].row].state = "live"
      BY DEF ArchiveHolds, LiveFile
    <2>1. CASE q = r
      BY <1>1, <1>3, <2>1 DEF LiveFile
    <2>2. CASE q # r
      <3>1. freq[q].row \in Files /\ fileLock[freq[q].row] = q /\ LiveFile(freq[q].row) /\ freq'[q] = freq[q]
        BY <1>3, <2>2 DEF IInv, ArchiveHolds
      <3>2. q # FreeRow
        BY RowsAssumption
      <3> QED
        BY <1>1, <1>4, <3>1, <3>2 DEF LiveFile
    <2> QED BY <2>1, <2>2
  <1>7. NeverLost' /\ OneEntryPerArchive'
    BY <1>1 DEF IInv, NeverLost, LiveFile, OneEntryPerArchive
  <1> QED
    BY <1>5, <1>6, <1>7 DEF IInv

\* A request that ends, by a commit or a rollback, gives back its locks; the rows that
\* others hold for their archiving stay as they are.
LEMMA FinishStep ==
    ASSUME IInv, NEW r \in FileRequests, Finish(r),
           file' \in [Files -> FornixFiles],
           dir' \in [state : {"live", "deleted"}, name : DirNames],
           entry' \in [Files -> Nat], archivals' \in [Files -> Nat],
           \A q \in FileRequests \ {r} : \A f \in Files :
               fileLock[f] = q /\ LiveFile(f) => LiveFile(f)'
    PROVE  Shape' /\ ArchiveHolds'
  <1>1. NoRequest \in Asked /\ NoRequest.op = "idle" /\ ~NoRequest.synced
    BY DEF NoRequest, Asked, FileOps, Nowhere, Paths, Parents
  <1>2. \A q \in FileRequests : freq'[q] = IF q = r THEN NoRequest ELSE freq[q]
    BY DEF Finish, IInv, Shape
  <1>3. freq' \in [FileRequests -> Asked]
    BY <1>1 DEF Finish, IInv, Shape
  <1>4. /\ fileLock' \in [Files \cup {Dir} -> FileRequests \cup {FreeRow}]
        /\ \A x \in Files \cup {Dir} : fileLock[x] # r => fileLock'[x] = fileLock[x]
    BY DEF Finish, IInv, Shape
  <1>5. Shape'
    BY <1>1, <1>2, <1>3, <1>4 DEF IInv, Shape
  <1>6. ArchiveHolds'
    BY <1>1, <1>2, <1>4 DEF IInv, ArchiveHolds
  <1> QED
    BY <1>5, <1>6

\* Locking the parent directory takes a row that was free, or none.
LEMMA HoldParentLocks ==
    ASSUME NEW r, NEW parent, HoldParent(r, parent)
    PROVE  \/ fileLock' = fileLock
           \/ \E x \in Files \cup {Dir} : fileLock[x] = FreeRow /\ fileLock' = [fileLock EXCEPT ![x] = r]
  BY DEF HoldParent

LEMMA PathTyped == ASSUME Shape, NEW f \in Files PROVE Path(f) \in Parents \X FileNames
  <1>1. file[f] \in FornixFiles
    BY DEF Shape
  <1> QED
    BY <1>1 DEF Path, FornixFiles

\* Every way a request begins.
LEMMA AskedStep ==
    ASSUME IInv, NEW r \in FileRequests,
           \/ \E f \in Files, parent \in Parents, n \in FileNames : AskCreate(r, f, parent, n) \/ AskUpdate(r, f, parent, n)
           \/ \E d \in DirNames : RenameDirectory(r, d)
           \/ \E f \in Files : AskDelete(r, f) \/ AskArchive(r, f) \/ AskRestore(r, f)
           \/ AskDelete(r, Dir)
    PROVE  IInv'
  <1>0. Nowhere \in Paths /\ Parents \X FileNames \subseteq Paths /\ \A d \in DirNames : <<Root, d>> \in Paths
    BY DEF Nowhere, Paths, Parents
  <1>a. Shape /\ dir.name \in DirNames /\ \A f \in Files : f # Dir
    BY RowsAssumption DEF IInv, Shape
  <1>1. CASE \E f \in Files, parent \in Parents, n \in FileNames : AskCreate(r, f, parent, n)
    <2>1. PICK f \in Files, parent \in Parents, n \in FileNames : AskCreate(r, f, parent, n)
      BY <1>1
    <2>2. <<parent, n>> \in Parents \X FileNames
      OBVIOUS
    <2>3. Ask(r, "create", f, Nowhere, <<parent, n>>) /\ HoldParent(r, parent)
      BY <2>1 DEF AskCreate
    <2>4. "create" \in FileOps /\ <<parent, n>> \in Paths
      BY <1>0, <2>2 DEF FileOps
    <2> QED
      BY <1>0, <1>a, <2>2, <2>3, <2>4, HoldParentLocks, AskStep
  <1>2. CASE \E f \in Files, parent \in Parents, n \in FileNames : AskUpdate(r, f, parent, n)
    <2>1. PICK f \in Files, parent \in Parents, n \in FileNames : AskUpdate(r, f, parent, n)
      BY <1>2
    <2>2. <<parent, n>> \in Parents \X FileNames
      OBVIOUS
    <2>3. /\ Ask(r, "update", f, Path(f), <<parent, n>>)
          /\ fileLock' = fileLock \/ HoldParent(r, parent)
      BY <2>1 DEF AskUpdate
    <2>4. "update" \in FileOps /\ <<parent, n>> \in Paths /\ Path(f) \in Paths
      BY <1>0, <1>a, <2>2, PathTyped DEF FileOps
    <2> QED
      BY <1>0, <1>a, <2>2, <2>3, <2>4, HoldParentLocks, AskStep
  <1>3. CASE \E d \in DirNames : RenameDirectory(r, d)
    <2>1. PICK d \in DirNames : RenameDirectory(r, d)
      BY <1>3
    <2>2. Ask(r, "update", Dir, <<Root, dir.name>>, <<Root, d>>) /\ fileLock' = fileLock
      BY <2>1 DEF RenameDirectory
    <2>3. "update" \in FileOps /\ <<Root, dir.name>> \in Paths /\ <<Root, d>> \in Paths /\ Dir \notin Files
      BY <1>0, <1>a DEF FileOps
    <2> QED
      BY <1>a, <2>2, <2>3, AskStep
  <1>4. CASE \E f \in Files : AskDelete(r, f)
    <2>1. PICK f \in Files : AskDelete(r, f)
      BY <1>4
    <2>2. Ask(r, "delete", f, Path(f), Path(f)) /\ fileLock' = fileLock
      BY <1>a, <2>1 DEF AskDelete
    <2>3. "delete" \in FileOps /\ Path(f) \in Paths
      BY <1>0, <1>a, PathTyped DEF FileOps
    <2> QED
      BY <1>a, <2>2, <2>3, AskStep
  <1>5. CASE AskDelete(r, Dir)
    <2>1. Ask(r, "delete", Dir, <<Root, dir.name>>, <<Root, dir.name>>) /\ fileLock' = fileLock
      BY <1>5 DEF AskDelete
    <2>2. "delete" \in FileOps /\ <<Root, dir.name>> \in Paths
      BY <1>0, <1>a DEF FileOps
    <2> QED
      BY <1>a, <2>1, <2>2, AskStep
  <1>6. CASE \E f \in Files : AskArchive(r, f)
    <2>1. PICK f \in Files : AskArchive(r, f)
      BY <1>6
    <2>2. /\ Ask(r, "archive", f, Path(f), Path(f)) /\ LiveFile(f)
          /\ fileLock[f] = FreeRow /\ fileLock' = [fileLock EXCEPT ![f] = r]
      BY <2>1 DEF AskArchive
    <2>3. "archive" \in FileOps /\ Path(f) \in Paths /\ fileLock'[f] = r
      BY <1>0, <1>a, <2>2, PathTyped DEF FileOps, Shape
    <2> QED
      BY <1>a, <2>2, <2>3, AskStep
  <1>7. CASE \E f \in Files : AskRestore(r, f)
    <2>1. PICK f \in Files : AskRestore(r, f)
      BY <1>7
    <2>2. Ask(r, "restore", f, Path(f), Path(f)) /\ fileLock' = fileLock
      BY <2>1 DEF AskRestore
    <2>3. "restore" \in FileOps /\ Path(f) \in Paths
      BY <1>0, <1>a, PathTyped DEF FileOps
    <2> QED
      BY <1>a, <2>2, <2>3, AskStep
  <1> QED
    BY <1>1, <1>2, <1>3, <1>4, <1>5, <1>6, <1>7

\* Writing the mirror touches no row.
LEMMA SyncStep == ASSUME IInv, NEW r \in FileRequests, Sync(r) PROVE IInv'
  <1>1. freq' = [freq EXCEPT ![r].synced = TRUE] /\ UNCHANGED <<file, dir, entry, fileLock, archivals, removed>>
    BY DEF Sync
  <1>2. freq' \in [FileRequests -> Asked]
    <2>1. freq[r] \in Asked
      BY DEF IInv, Shape
    <2>2. [freq[r] EXCEPT !.synced = TRUE] \in Asked
      BY <2>1 DEF Asked
    <2> QED
      BY <1>1, <2>2 DEF IInv, Shape
  <1>3. /\ \A q \in FileRequests : freq'[q].op = freq[q].op /\ freq'[q].row = freq[q].row /\ freq'[q].to = freq[q].to
        /\ \A q \in FileRequests : freq[q].op = "idle" => ~freq'[q].synced
    BY <1>1 DEF IInv, Shape, Asked, Sync
  <1>4. Shape'
    BY <1>1, <1>2, <1>3 DEF IInv, Shape
  <1>5. ArchiveHolds'
    BY <1>1, <1>3 DEF IInv, ArchiveHolds, LiveFile
  <1>6. NeverLost' /\ OneEntryPerArchive'
    BY <1>1 DEF IInv, NeverLost, LiveFile, OneEntryPerArchive
  <1> QED
    BY <1>4, <1>5, <1>6 DEF IInv

\* A rollback, or a commit of the directory, leaves the rows of the files.
LEMMA RowsKept ==
    ASSUME IInv, NEW r \in FileRequests, SyncFails(r) \/ CommitLost(r) \/ CommitDirectory(r)
    PROVE  IInv'
  <1>1. Finish(r) /\ UNCHANGED <<file, entry, archivals, removed>>
    BY DEF SyncFails, CommitLost, CommitDirectory
  <1>2. dir' \in [state : {"live", "deleted"}, name : DirNames]
    <2>1. CASE dir' = dir
      BY <2>1 DEF IInv, Shape
    <2>2. CASE dir' = [dir EXCEPT !.state = "deleted"]
      BY <2>2 DEF IInv, Shape
    <2>3. CASE dir' = [dir EXCEPT !.name = freq[r].to[2]] /\ freq[r].row = Dir /\ freq[r].op # "delete"
                  /\ freq[r].synced
      <3>1. freq[r].to[2] \in DirNames
        BY <2>3 DEF IInv, Shape
      <3> QED
        BY <2>3, <3>1 DEF IInv, Shape
    <2> QED
      BY <2>1, <2>2, <2>3 DEF SyncFails, CommitLost, CommitDirectory
  <1>3. Shape' /\ ArchiveHolds'
    BY <1>1, <1>2, FinishStep DEF IInv, Shape, LiveFile
  <1>4. NeverLost' /\ OneEntryPerArchive'
    BY <1>1 DEF IInv, NeverLost, LiveFile, OneEntryPerArchive
  <1> QED
    BY <1>3, <1>4 DEF IInv

\* The path a file's row is given is one of a file.
LEMMA NewPathTyped ==
    ASSUME IInv, NEW r \in FileRequests, freq[r].row \in Files, freq[r].op \in {"create", "update", "delete"}
    PROVE  NewPath(r)[1] \in Parents /\ NewPath(r)[2] \in FileNames
  <1>1. file[freq[r].row] \in FornixFiles
    BY DEF IInv, Shape
  <1>2. CASE freq[r].op \in {"create", "update"}
    <2>1. freq[r].to \in Parents \X FileNames
      BY <1>2 DEF IInv, Shape
    <2> QED
      BY <1>1, <1>2, <2>1 DEF NewPath, FornixFiles
  <1>3. CASE freq[r].op = "delete"
    BY <1>1, <1>3 DEF NewPath, Path, FornixFiles
  <1> QED
    BY <1>2, <1>3

LEMMA CommitFileStep == ASSUME IInv, NEW r \in FileRequests, CommitFile(r) PROVE IInv'
  <1> DEFINE f == freq[r].row
             new == [parent |-> NewPath(r)[1], name |-> NewPath(r)[2],
                     state |-> CASE freq[r].op = "create" -> "live"
                                 [] freq[r].op = "update" -> file[f].state
                                 [] freq[r].op = "delete" -> "deleted"]
  <1>1. /\ freq[r].op \in {"create", "update", "delete"} /\ RowFree(r) /\ Finish(r)
        /\ f \in Files
        /\ removed' = IF freq[r].op = "delete" THEN removed \cup {f} ELSE removed
        /\ UNCHANGED <<dir, entry, archivals>>
    BY DEF CommitFile, IInv, Shape, Asked
  <1>2. \A g \in Files : file'[g] = IF g = f THEN new ELSE file[g]
    BY <1>1 DEF CommitFile, IInv, Shape
  <1>3. file[f] \in FornixFiles
    BY <1>1 DEF IInv, Shape
  <1>4. new \in FornixFiles
    BY <1>1, <1>3, NewPathTyped DEF FornixFiles
  <1>5. file' \in [Files -> FornixFiles]
    BY <1>4 DEF CommitFile, IInv, Shape
  <1>6. \A q \in FileRequests \ {r} : \A g \in Files : fileLock[g] = q /\ LiveFile(g) => LiveFile(g)'
    BY <1>1, <1>2, RowsAssumption DEF RowFree, LiveFile
  <1>7. Shape' /\ ArchiveHolds'
    BY <1>1, <1>5, <1>6, FinishStep DEF IInv, Shape
  <1>8. NeverLost'
    BY <1>1, <1>2 DEF IInv, NeverLost, LiveFile
  <1>9. OneEntryPerArchive'
    BY <1>1 DEF IInv, OneEntryPerArchive
  <1> QED
    BY <1>7, <1>8, <1>9 DEF IInv

\* The lock makes the archived row live at its commit: the entry it adds is paid for.
LEMMA CommitArchiveStep == ASSUME IInv, NEW r \in FileRequests, CommitArchive(r) PROVE IInv'
  <1> DEFINE f == freq[r].row
  <1>1. /\ f \in Files /\ fileLock[f] = r /\ LiveFile(f) /\ Finish(r)
        /\ file' = [file EXCEPT ![f].state = "deleted"]
        /\ entry' = [entry EXCEPT ![f] = @ + 1]
        /\ archivals' = [archivals EXCEPT ![f] = @ + 1]
        /\ UNCHANGED <<dir, removed>>
    BY DEF CommitArchive, IInv, ArchiveHolds
  <1>2. \A g \in Files : /\ entry[g] \in Nat /\ archivals[g] \in Nat
                         /\ entry'[g] = IF g = f THEN entry[g] + 1 ELSE entry[g]
                         /\ archivals'[g] = IF g = f THEN archivals[g] + 1 ELSE archivals[g]
    BY <1>1 DEF IInv, Shape
  <1>3. entry' \in [Files -> Nat] /\ archivals' \in [Files -> Nat]
    BY <1>1, <1>2 DEF IInv, Shape
  <1>4. file[f] \in FornixFiles /\ \A g \in Files \ {f} : file'[g] = file[g]
    BY <1>1 DEF IInv, Shape
  <1>5. [file[f] EXCEPT !.state = "deleted"] \in FornixFiles
    BY <1>4 DEF FornixFiles
  <1>6. file' \in [Files -> FornixFiles]
    BY <1>1, <1>5 DEF IInv, Shape
  <1>7. Shape' /\ ArchiveHolds'
    <2>1. \A q \in FileRequests \ {r} : \A g \in Files : fileLock[g] = q /\ LiveFile(g) => LiveFile(g)'
      BY <1>1, <1>4 DEF LiveFile
    <2> QED
      BY <1>1, <1>3, <1>6, <2>1, FinishStep DEF IInv, Shape
  <1>8. NeverLost'
    <2> SUFFICES ASSUME NEW g \in Files \ removed, file'[g].state # "none"
                 PROVE  file'[g].state = "live" \/ entry'[g] > 0
      BY <1>1 DEF NeverLost, LiveFile
    <2>1. CASE g = f
      BY <1>2, <2>1
    <2>2. CASE g # f
      BY <1>2, <1>4, <2>2 DEF IInv, NeverLost, LiveFile
    <2> QED
      BY <2>1, <2>2
  <1>9. OneEntryPerArchive'
    BY <1>2 DEF IInv, OneEntryPerArchive
  <1> QED
    BY <1>7, <1>8, <1>9 DEF IInv

LEMMA CommitRestoreStep == ASSUME IInv, NEW r \in FileRequests, CommitRestore(r) PROVE IInv'
  <1> DEFINE f == freq[r].row
  <1>1. /\ f \in Files /\ Finish(r)
        /\ file' = [file EXCEPT ![f].state = "live"]
        /\ entry' = [entry EXCEPT ![f] = IF @ > 0 THEN @ - 1 ELSE 0]
        /\ UNCHANGED <<dir, archivals, removed>>
    BY DEF CommitRestore, IInv, Shape
  <1>2. \A g \in Files : /\ entry[g] \in Nat /\ archivals[g] \in Nat
                         /\ entry'[g] = IF g # f THEN entry[g] ELSE IF entry[g] > 0 THEN entry[g] - 1 ELSE 0
    BY <1>1 DEF IInv, Shape
  <1>3. entry' \in [Files -> Nat]
    BY <1>1, <1>2 DEF IInv, Shape
  <1>4. file[f] \in FornixFiles /\ file'[f].state = "live" /\ \A g \in Files \ {f} : file'[g] = file[g]
    BY <1>1 DEF IInv, Shape, FornixFiles
  <1>5. [file[f] EXCEPT !.state = "live"] \in FornixFiles
    BY <1>4 DEF FornixFiles
  <1>6. file' \in [Files -> FornixFiles]
    BY <1>1, <1>5 DEF IInv, Shape
  <1>7. Shape' /\ ArchiveHolds'
    <2>1. \A q \in FileRequests \ {r} : \A g \in Files : fileLock[g] = q /\ LiveFile(g) => LiveFile(g)'
      BY <1>4 DEF LiveFile
    <2> QED
      BY <1>1, <1>3, <1>6, <2>1, FinishStep DEF IInv, Shape
  <1>8. NeverLost'
    BY <1>1, <1>2, <1>4 DEF IInv, NeverLost, LiveFile
  <1>9. OneEntryPerArchive'
    BY <1>1, <1>2 DEF IInv, OneEntryPerArchive
  <1> QED
    BY <1>7, <1>8, <1>9 DEF IInv

LEMMA InvStep == IInv /\ [FornixNext]_fornixVars => IInv'
  <1> SUFFICES ASSUME IInv, [FornixNext]_fornixVars PROVE IInv'
    OBVIOUS
  <1>1. CASE FornixNext
    <2>1. PICK r \in FileRequests :
              \/ \E f \in Files, parent \in Parents, n \in FileNames :
                    AskCreate(r, f, parent, n) \/ AskUpdate(r, f, parent, n)
              \/ \E d \in DirNames : RenameDirectory(r, d)
              \/ \E f \in Files : AskDelete(r, f) \/ AskArchive(r, f) \/ AskRestore(r, f)
              \/ AskDelete(r, Dir)
              \/ Sync(r) \/ SyncFails(r)
              \/ CommitDirectory(r) \/ CommitFile(r) \/ CommitArchive(r) \/ CommitRestore(r) \/ CommitLost(r)
      BY <1>1 DEF FornixNext
    <2> QED
      BY <2>1, AskedStep, SyncStep, RowsKept, CommitFileStep, CommitArchiveStep, CommitRestoreStep
  <1>2. CASE UNCHANGED fornixVars
    BY <1>2 DEF fornixVars, IInv, Shape, ArchiveHolds, NeverLost, OneEntryPerArchive, LiveFile
  <1> QED
    BY <1>1, <1>2

-----------------------------------------------------------------------------
(* Paths of the tree and of the mirror                                     *)

FilePaths == Parents \X FileNames
DirPaths == {<<Root, d>> : d \in DirNames}

\* What a request under way read and will write are paths of its kind of row.
PathsAsked ==
    \A r \in FileRequests : freq[r].op # "idle" =>
        \/ freq[r].row = Dir /\ freq[r].from \in DirPaths /\ freq[r].to \in DirPaths
        \/ freq[r].row \in Files /\ freq[r].to \in FilePaths /\ (freq[r].op # "create" => freq[r].from \in FilePaths)

\* The path index: below the root no two live rows share a path.
PathsApart ==
    \A f, g \in Files : f # g /\ file[f].state = "live" /\ file[g].state = "live" /\ file[f].parent # Root
                        => <<file[f].parent, file[f].name>> # <<file[g].parent, file[g].name>>

PathsInv == disk \subseteq FilePaths \cup DirPaths /\ PathsAsked /\ PathsApart

LEMMA PathsInit == FornixInit => PathsInv
  <1> SUFFICES ASSUME FornixInit PROVE PathsInv
    OBVIOUS
  <1>1. \A r \in FileRequests : freq[r].op = "idle"
    BY DEF FornixInit, NoRequest
  <1>2. \A f \in Files : file[f].state = "none"
    BY DEF FornixInit
  <1>3. disk \subseteq FilePaths \cup DirPaths
    BY DEF FornixInit, DirPaths
  <1> QED
    BY <1>1, <1>2, <1>3 DEF PathsInv, PathsAsked, PathsApart

LEMMA AskPaths ==
    ASSUME IInv, PathsInv, NEW r \in FileRequests, NEW op, NEW row, NEW from, NEW to, Ask(r, op, row, from, to),
           \/ row = Dir /\ from \in DirPaths /\ to \in DirPaths
           \/ row \in Files /\ to \in FilePaths /\ (op # "create" => from \in FilePaths)
    PROVE  PathsInv'
  <1> DEFINE asked == [op |-> op, row |-> row, from |-> from, to |-> to, synced |-> FALSE]
  <1>1. freq' = [freq EXCEPT ![r] = asked] /\ UNCHANGED <<file, disk>>
    BY DEF Ask
  <1>2. \A q \in FileRequests : freq'[q] = IF q = r THEN asked ELSE freq[q]
    BY <1>1 DEF IInv, Shape
  <1>3. PathsAsked'
    BY <1>2 DEF PathsInv, PathsAsked
  <1> QED
    BY <1>1, <1>3 DEF PathsInv, PathsApart

LEMMA AskedPaths ==
    ASSUME IInv, PathsInv, NEW r \in FileRequests,
           \/ \E f \in Files, parent \in Parents, n \in FileNames : AskCreate(r, f, parent, n) \/ AskUpdate(r, f, parent, n)
           \/ \E d \in DirNames : RenameDirectory(r, d)
           \/ \E f \in Files : AskDelete(r, f) \/ AskArchive(r, f) \/ AskRestore(r, f)
           \/ AskDelete(r, Dir)
    PROVE  PathsInv'
  <1>0. /\ \A f \in Files : Path(f) \in FilePaths /\ f # Dir
        /\ dir.name \in DirNames
        /\ \A d \in DirNames : <<Root, d>> \in DirPaths
        /\ \A parent \in Parents, n \in FileNames : <<parent, n>> \in FilePaths
    BY PathTyped, RowsAssumption DEF IInv, Shape, FilePaths, DirPaths
  <1>1. ASSUME NEW f \in Files, NEW parent \in Parents, NEW n \in FileNames,
               AskCreate(r, f, parent, n) \/ AskUpdate(r, f, parent, n)
        PROVE  PathsInv'
    BY <1>0, <1>1, AskPaths DEF AskCreate, AskUpdate
  <1>2. ASSUME NEW d \in DirNames, RenameDirectory(r, d) PROVE PathsInv'
    BY <1>0, <1>2, AskPaths DEF RenameDirectory
  <1>3. ASSUME NEW f \in Files, AskDelete(r, f) PROVE PathsInv'
    <2>1. Ask(r, "delete", f, Path(f), Path(f))
      BY <1>0, <1>3 DEF AskDelete
    <2> QED
      BY <1>0, <2>1, AskPaths
  <1>4. ASSUME NEW f \in Files, AskArchive(r, f) \/ AskRestore(r, f) PROVE PathsInv'
    BY <1>0, <1>4, AskPaths DEF AskArchive, AskRestore
  <1>5. CASE AskDelete(r, Dir)
    <2>1. Ask(r, "delete", Dir, <<Root, dir.name>>, <<Root, dir.name>>)
      BY <1>5 DEF AskDelete
    <2> QED
      BY <1>0, <2>1, AskPaths
  <1> QED
    BY <1>1, <1>2, <1>3, <1>4, <1>5

\* What is below a path of the mirror is below a directory.
LEMMA BelowDirectory ==
    ASSUME disk \subseteq FilePaths \cup DirPaths, NEW path
    PROVE  /\ path \in FilePaths => Below(path) = {}
           /\ path \in DirPaths => Below(path) \subseteq FilePaths
  <1>1. \A p \in disk : p[1] \in Parents /\ p[1] \notin FileNames
    BY NamesAssumption DEF FilePaths, DirPaths, Parents
  <1>2. path \in FilePaths => Below(path) = {}
    BY <1>1 DEF FilePaths, Below
  <1>3. path \in DirPaths => path[2] # Root
    BY NamesAssumption DEF DirPaths
  <1>4. path \in DirPaths => Below(path) \subseteq FilePaths
    BY <1>3 DEF Below, DirPaths
  <1> QED BY <1>2, <1>4

LEMMA SyncPaths == ASSUME IInv, PathsInv, NEW r \in FileRequests, Sync(r) PROVE PathsInv'
  <1> DEFINE from == freq[r].from
             to == freq[r].to
  <1>1. freq' = [freq EXCEPT ![r].synced = TRUE] /\ file' = file
    BY DEF Sync
  <1>2. \A q \in FileRequests : /\ freq'[q].op = freq[q].op /\ freq'[q].row = freq[q].row
                                /\ freq'[q].from = freq[q].from /\ freq'[q].to = freq[q].to
    BY <1>1 DEF IInv, Shape, Asked
  <1>3. PathsAsked'
    BY <1>2 DEF PathsInv, PathsAsked
  <1>4. PathsApart'
    BY <1>1 DEF PathsInv, PathsApart
  <1>5. freq[r].op # "idle" /\ to \in FilePaths \cup DirPaths
    BY DEF Sync, PathsInv, PathsAsked
  <1>6. SyncWrite(r) \subseteq FilePaths \cup DirPaths
    BY <1>5 DEF PathsInv, SyncWrite, FilePaths, DirPaths, Parents
  <1>7. freq[r].op = "update" => SyncMove(r) \subseteq FilePaths \cup DirPaths
    <2> SUFFICES ASSUME freq[r].op = "update" PROVE SyncMove(r) \subseteq FilePaths \cup DirPaths
      OBVIOUS
    <2>1. CASE from \in FilePaths
      <3>1. Below(from) = {}
        BY <2>1, BelowDirectory DEF PathsInv
      <3> QED
        BY <1>6, <3>1 DEF SyncMove
    <2>2. CASE from \in DirPaths /\ to \in DirPaths
      <3>1. \A p \in Below(from) : <<to[2], p[2]>> \in FilePaths
        BY <2>2, BelowDirectory DEF PathsInv, FilePaths, DirPaths, Parents
      <3> QED
        BY <1>6, <3>1 DEF SyncMove
    <2> QED
      BY <1>5, <2>1, <2>2 DEF PathsInv, PathsAsked
  <1>8. SyncRemove(r) \subseteq FilePaths \cup DirPaths
    BY DEF SyncRemove, PathsInv
  <1>9. freq[r].op \in FileOps
    BY DEF IInv, Shape, Asked
  <1>10. disk' \subseteq FilePaths \cup DirPaths
    BY <1>5, <1>6, <1>7, <1>8, <1>9 DEF Sync, FileOps
  <1> QED
    BY <1>3, <1>4, <1>10 DEF PathsInv

LEMMA FinishPaths ==
    ASSUME IInv, PathsInv, NEW r \in FileRequests, Finish(r), disk' = disk, PathsApart'
    PROVE  PathsInv'
  <1>1. \A q \in FileRequests : freq'[q] = IF q = r THEN NoRequest ELSE freq[q]
    BY DEF Finish, IInv, Shape
  <1>2. PathsAsked'
    BY <1>1 DEF PathsInv, PathsAsked, NoRequest
  <1> QED
    BY <1>2 DEF PathsInv

\* A row that is live at a path the index has let through, or that is not live.
LEMMA PathWritten ==
    ASSUME IInv, PathsInv, NEW f \in Files, NEW new,
           \A g \in Files : file'[g] = IF g = f THEN new ELSE file[g],
           new.state = "live" => new.parent = Root \/ LiveAt(<<new.parent, new.name>>) \ {f} = {}
    PROVE  PathsApart'
  <1> SUFFICES ASSUME NEW g \in Files, NEW h \in Files, g # h, file'[g].state = "live", file'[h].state = "live",
                      file'[g].parent # Root, <<file'[g].parent, file'[g].name>> = <<file'[h].parent, file'[h].name>>
               PROVE  FALSE
    BY DEF PathsApart
  <1>0. file'[h].parent = file'[g].parent /\ file'[h].name = file'[g].name
    OBVIOUS
  <1>1. CASE g # f /\ h # f
    BY <1>1 DEF PathsInv, PathsApart
  <1>2. CASE g = f
    <2>1. file'[h] = file[h] /\ file'[g] = new
      BY <1>2
    <2>2. h \in LiveAt(<<new.parent, new.name>>) \ {f}
      BY <1>0, <1>2, <2>1 DEF LiveAt, LiveFile, Path
    <2> QED BY <2>1, <2>2
  <1>3. CASE h = f
    <2>1. file'[g] = file[g] /\ file'[h] = new
      BY <1>3
    <2>2. g \in LiveAt(<<new.parent, new.name>>) \ {f}
      BY <1>0, <1>3, <2>1 DEF LiveAt, LiveFile, Path
    <2> QED BY <1>0, <2>1, <2>2
  <1> QED BY <1>1, <1>2, <1>3

LEMMA CommitFilePaths == ASSUME IInv, PathsInv, NEW r \in FileRequests, CommitFile(r) PROVE PathsInv'
  <1> DEFINE f == freq[r].row
             p == NewPath(r)
             new == [parent |-> p[1], name |-> p[2],
                     state |-> CASE freq[r].op = "create" -> "live"
                                 [] freq[r].op = "update" -> file[f].state
                                 [] freq[r].op = "delete" -> "deleted"]
  <1>1. /\ freq[r].op \in {"create", "update", "delete"} /\ Finish(r) /\ f \in Files /\ disk' = disk
        /\ ~IndexRefuses(r) /\ f # Dir
    BY DEF CommitFile, IInv, Shape, Asked
  <1>2. \A g \in Files : file'[g] = IF g = f THEN new ELSE file[g]
    BY <1>1 DEF CommitFile, IInv, Shape
  <1>3. new.parent = p[1] /\ new.name = p[2] /\ (new.state = "live" => freq[r].op = "create" \/ (freq[r].op = "update" /\ LiveFile(f)))
    BY <1>1 DEF LiveFile
  <1>4. freq[r].op \in {"create", "update"} => p = <<p[1], p[2]>>
    BY DEF NewPath, PathsInv, PathsAsked, FilePaths, IInv, Shape
  <1> HIDE DEF new, p
  <1>5. new.state = "live" => new.parent = Root \/ LiveAt(<<new.parent, new.name>>) \ {f} = {}
    BY <1>1, <1>3, <1>4 DEF IndexRefuses, p
  <1>6. PathsApart'
    BY <1>1, <1>2, <1>5, PathWritten
  <1> QED
    BY <1>1, <1>6, FinishPaths

LEMMA CommitArchivePaths == ASSUME IInv, PathsInv, NEW r \in FileRequests, CommitArchive(r) PROVE PathsInv'
  <1> DEFINE f == freq[r].row
             new == [file[f] EXCEPT !.state = "deleted"]
  <1>1. f \in Files /\ Finish(r) /\ disk' = disk /\ file' = [file EXCEPT ![f].state = "deleted"]
    BY DEF CommitArchive, IInv, ArchiveHolds
  <1>2. \A g \in Files : file'[g] = IF g = f THEN new ELSE file[g]
    BY <1>1 DEF IInv, Shape
  <1>3. new.state # "live"
    BY <1>1 DEF IInv, Shape, FornixFiles
  <1> HIDE DEF new
  <1>4. PathsApart'
    BY <1>1, <1>2, <1>3, PathWritten
  <1> QED
    BY <1>1, <1>4, FinishPaths

LEMMA CommitRestorePaths == ASSUME IInv, PathsInv, NEW r \in FileRequests, CommitRestore(r) PROVE PathsInv'
  <1> DEFINE f == freq[r].row
             new == [file[f] EXCEPT !.state = "live"]
  <1>1. /\ f \in Files /\ f # Dir /\ Finish(r) /\ disk' = disk /\ file' = [file EXCEPT ![f].state = "live"]
        /\ freq[r].op = "restore" /\ ~IndexRefuses(r)
    BY RowsAssumption DEF CommitRestore, IInv, Shape
  <1>2. \A g \in Files : file'[g] = IF g = f THEN new ELSE file[g]
    BY <1>1 DEF IInv, Shape
  <1>3. new.parent = file[f].parent /\ new.name = file[f].name
    BY <1>1 DEF IInv, Shape, FornixFiles
  <1>4. NewPath(r) = <<file[f].parent, file[f].name>>
    BY <1>1 DEF NewPath, Path
  <1> HIDE DEF new
  <1>5. new.parent = Root \/ LiveAt(<<new.parent, new.name>>) \ {f} = {}
    BY <1>1, <1>3, <1>4 DEF IndexRefuses
  <1>6. PathsApart'
    BY <1>1, <1>2, <1>5, PathWritten
  <1> QED
    BY <1>1, <1>6, FinishPaths

LEMMA PathsStep == IInv /\ PathsInv /\ [FornixNext]_fornixVars => PathsInv'
  <1> SUFFICES ASSUME IInv, PathsInv, [FornixNext]_fornixVars PROVE PathsInv'
    OBVIOUS
  <1>1. ASSUME NEW r \in FileRequests, SyncFails(r) \/ CommitLost(r) \/ CommitDirectory(r) PROVE PathsInv'
    <2>1. Finish(r) /\ UNCHANGED <<file, disk>>
      BY <1>1 DEF SyncFails, CommitLost, CommitDirectory
    <2>2. PathsApart'
      BY <2>1 DEF PathsInv, PathsApart
    <2> QED BY <2>1, <2>2, FinishPaths
  <1>2. CASE FornixNext
    <2>1. PICK r \in FileRequests :
              \/ \E f \in Files, parent \in Parents, n \in FileNames :
                    AskCreate(r, f, parent, n) \/ AskUpdate(r, f, parent, n)
              \/ \E d \in DirNames : RenameDirectory(r, d)
              \/ \E f \in Files : AskDelete(r, f) \/ AskArchive(r, f) \/ AskRestore(r, f)
              \/ AskDelete(r, Dir)
              \/ Sync(r) \/ SyncFails(r)
              \/ CommitDirectory(r) \/ CommitFile(r) \/ CommitArchive(r) \/ CommitRestore(r) \/ CommitLost(r)
      BY <1>2 DEF FornixNext
    <2> QED
      BY <1>1, <2>1, AskedPaths, SyncPaths, CommitFilePaths, CommitArchivePaths, CommitRestorePaths
  <1>3. CASE UNCHANGED fornixVars
    BY <1>3 DEF fornixVars, PathsInv, PathsAsked, PathsApart
  <1> QED
    BY <1>2, <1>3

-----------------------------------------------------------------------------
(* The theorems                                                            *)

\* Whatever creates, moves, deletions, archivings, restores, disk failures and lost
\* commits overlap, a file that nobody deleted is live in the tree or kept in the vault.
THEOREM FilesNeverLost == FornixSpec => []NeverLost
  <1>1. IInv => NeverLost
    BY DEF IInv
  <1> QED
    BY <1>1, InitInv, InvStep, PTL DEF FornixSpec

\* FOR UPDATE in archive_file_to_vault is enough: every entry of the vault stands for
\* one archiving of a live file.
THEOREM EntriesCounted == FornixSpec => []OneEntryPerArchive
  <1>1. IInv => OneEntryPerArchive
    BY DEF IInv
  <1> QED
    BY <1>1, InitInv, InvStep, PTL DEF FornixSpec

\* Below the root no two live files share a path, the mirror holds nothing but paths of
\* files and directories, and every entry of the vault is paid for by an archiving.
THEOREM FilesAlwaysConsistent == FornixSpec => []FilesConsistent
  <1>1. IInv /\ PathsInv => FilesConsistent
    BY DEF IInv, PathsInv, FilesConsistent, FornixTypeOK, Shape, Asked, FileOps, FilePaths, DirPaths, PathsApart
  <1> QED
    BY <1>1, InitInv, InvStep, PathsInit, PathsStep, PTL DEF FornixSpec

-----------------------------------------------------------------------------
(* Messages: a parsed message is a list of directives                      *)

\* A sequence, whatever its elements are
IsList(s) == Len(s) \in Nat /\ DOMAIN s = 1 .. Len(s) /\ s \in Seq({s[i] : i \in 1 .. Len(s)})

LEMMA ListOfLength ==
    ASSUME NEW n \in Nat, NEW s, DOMAIN s = 1 .. n, s = [i \in 1 .. n |-> s[i]]
    PROVE  IsList(s) /\ Len(s) = n
  <1>1. s \in [1 .. n -> {s[i] : i \in 1 .. n}]
    OBVIOUS
  <1>2. s \in Seq({s[i] : i \in 1 .. n})
    BY <1>1
  <1>3. Len(s) = n
    BY <1>2
  <1> QED
    BY <1>2, <1>3 DEF IsList

LEMMA SeqIsList ==
    ASSUME NEW S, NEW s \in Seq(S)
    PROVE  IsList(s)
  <1>1. Len(s) \in Nat /\ DOMAIN s = 1 .. Len(s) /\ s = [i \in 1 .. Len(s) |-> s[i]]
    OBVIOUS
  <1> QED
    BY <1>1, ListOfLength

LEMMA ListsConcatenate ==
    ASSUME NEW s, NEW t, IsList(s), IsList(t)
    PROVE  IsList(s \o t)
  <1> DEFINE S == {s[i] : i \in 1 .. Len(s)} \cup {t[i] : i \in 1 .. Len(t)}
  <1>1. s \in Seq(S) /\ t \in Seq(S)
    BY SMTT(30) DEF IsList
  <1>2. s \o t \in Seq(S)
    BY <1>1
  <1> HIDE DEF S
  <1> QED
    BY <1>2, SeqIsList

\* The least natural number with a property
LEMMA LeastNumber ==
    ASSUME NEW X, X \subseteq Nat, X # {}
    PROVE  \E n \in X : \A m \in X : ~(m < n)
  <1>1. PICK x \in X : \A y \in X : ~(<<y, x>> \in OpToRel(<, Nat))
    BY NatLessThanWellFounded, WFMin
  <1> QED
    BY <1>1 DEF OpToRel

\* f is how FlattenSeq builds its result, an element at a time.
Builds(f, seqs) ==
    f = [i \in 1 .. Len(seqs) |-> IF i = 1 THEN seqs[i] ELSE f[i - 1] \o seqs[i]]

LEMMA FlattenBuilds ==
    ASSUME NEW seqs, IsList(seqs), Len(seqs) # 0
    PROVE  \E f : Builds(f, seqs) /\ FlattenSeq(seqs) = f[Len(seqs)]
  <1> DEFINE Step(f, n) == [i \in 1 .. n |-> IF i = 1 THEN seqs[i] ELSE f[i - 1] \o seqs[i]]
             Solved(f, n) == f = Step(f, n)
             T == {n \in 1 .. Len(seqs) : ~\E f : Solved(f, n)}
  <1>0. Len(seqs) \in Nat
    BY DEF IsList
  <1>2. T = {}
    <2> SUFFICES ASSUME T # {} PROVE FALSE
      OBVIOUS
    <2>0. T \subseteq Nat
      <3> HIDE DEF Solved
      <3> QED
        BY <1>0
    <2>1. PICK n \in T : \A m \in T : ~(m < n)
      <3> HIDE DEF T
      <3> QED
        BY <2>0, LeastNumber
    <2>2. n \in 1 .. Len(seqs) /\ ~\E f : Solved(f, n)
      BY <2>1
    <2>3. CASE n = 1
      <3> DEFINE f == [i \in 1 .. 1 |-> seqs[i]]
      <3>1. Solved(f, 1)
        BY <1>0
      <3> QED
        BY <3>1, <2>2, <2>3
    <2>4. CASE n # 1
      <3>1. n - 1 \in 1 .. Len(seqs) /\ n - 1 < n
        BY <2>2, <2>4, <1>0
      <3>2. n - 1 \notin T
        BY <2>1, <3>1
      <3>3. PICK f : Solved(f, n - 1)
        BY <3>1, <3>2
      <3> DEFINE g == [i \in 1 .. n |-> IF i = n THEN f[n - 1] \o seqs[n] ELSE f[i]]
      <3>4. \A i \in 1 .. n - 1 : f[i] = IF i = 1 THEN seqs[i] ELSE f[i - 1] \o seqs[i]
        BY <3>3
      <3>5. \A i \in 1 .. n : g[i] = IF i = 1 THEN seqs[i] ELSE g[i - 1] \o seqs[i]
        BY <3>4, <2>2, <2>4, <1>0
      <3>6. Solved(g, n)
        BY <3>5
      <3> QED
        BY <3>6, <2>2
    <2> QED
      BY <2>3, <2>4
  <1>3. Len(seqs) \in 1 .. Len(seqs) /\ Len(seqs) \notin T
    <2> HIDE DEF T
    <2> QED
      BY <1>2, <1>0
  <1>4. \E f : Solved(f, Len(seqs))
    <2> HIDE DEF Solved
    <2> QED
      BY <1>3
  <1> DEFINE f == CHOOSE x : Solved(x, Len(seqs))
  <1>5. Solved(f, Len(seqs))
    BY <1>4
  <1>6. FlattenSeq(seqs) = f[Len(seqs)]
    BY DEF FlattenSeq
  <1>7. Builds(f, seqs)
    BY <1>5 DEF Builds
  <1> HIDE DEF f
  <1> QED
    BY <1>6, <1>7

LEMMA BuildsValue ==
    ASSUME NEW seqs, NEW f, Builds(f, seqs), NEW i \in 1 .. Len(seqs)
    PROVE  f[i] = IF i = 1 THEN seqs[i] ELSE f[i - 1] \o seqs[i]
  BY DEF Builds

LEMMA BuildsLists ==
    ASSUME NEW seqs, IsList(seqs), \A k \in 1 .. Len(seqs) : IsList(seqs[k]), NEW f, Builds(f, seqs)
    PROVE  \A i \in 1 .. Len(seqs) : IsList(f[i])
  <1> DEFINE U == {i \in 1 .. Len(seqs) : ~IsList(f[i])}
  <1>0. Len(seqs) \in Nat
    BY DEF IsList
  <1> SUFFICES ASSUME U # {} PROVE FALSE
    OBVIOUS
  <1>1. U \subseteq Nat
    BY <1>0
  <1>2. PICK n \in U : \A m \in U : ~(m < n)
    <2> HIDE DEF U
    <2> QED
      BY <1>1, LeastNumber
  <1>3. n \in 1 .. Len(seqs) /\ ~IsList(f[n])
    BY <1>2
  <1>4. f[n] = IF n = 1 THEN seqs[n] ELSE f[n - 1] \o seqs[n]
    BY <1>3, BuildsValue
  <1>5. CASE n = 1
    BY <1>5, <1>3, <1>4
  <1>6. CASE n # 1
    <2>1. n - 1 \in 1 .. Len(seqs) /\ n - 1 < n
      BY <1>3, <1>6, <1>0
    <2>2. IsList(f[n - 1])
      BY <1>2, <2>1
    <2> QED
      BY <2>2, <1>3, <1>4, <1>6, ListsConcatenate
  <1> QED
    BY <1>5, <1>6

LEMMA FlattenIsList ==
    ASSUME NEW seqs, IsList(seqs), \A k \in 1 .. Len(seqs) : IsList(seqs[k])
    PROVE  IsList(FlattenSeq(seqs))
  <1>1. CASE Len(seqs) = 0
    BY <1>1 DEF FlattenSeq
  <1>2. CASE Len(seqs) # 0
    <2>1. PICK f : Builds(f, seqs) /\ FlattenSeq(seqs) = f[Len(seqs)]
      BY <1>2, FlattenBuilds
    <2>2. Len(seqs) \in 1 .. Len(seqs)
      BY <1>2 DEF IsList
    <2> QED
      BY <2>1, <2>2, BuildsLists
  <1> QED
    BY <1>1, <1>2

LEMMA FlattenEmpty == FlattenSeq(<<>>) = <<>>
  BY DEF FlattenSeq

LEMMA FlattenOne ==
    ASSUME NEW x
    PROVE  FlattenSeq(<<x>>) = x
  <1> DEFINE s == <<x>>
  <1>1. IsList(s) /\ Len(s) = 1 /\ s[1] = x
    <2>1. s \in Seq({x})
      OBVIOUS
    <2> QED
      BY <2>1, SeqIsList
  <1> HIDE DEF s
  <1>2. PICK f : Builds(f, s) /\ FlattenSeq(s) = f[Len(s)]
    BY <1>1, FlattenBuilds
  <1>3. 1 \in 1 .. Len(s)
    BY <1>1
  <1>4. f[1] = s[1]
    BY <1>2, <1>3, BuildsValue
  <1>5. FlattenSeq(s) = x
    BY <1>1, <1>2, <1>4
  <1> QED
    BY <1>5 DEF s

\* FlattenSeq of one more element is that of the others and then the element.
LEMMA FlattenLast ==
    ASSUME NEW s, NEW t, IsList(s), IsList(t), Len(s) # 0, Len(t) = Len(s) + 1,
           \A i \in 1 .. Len(s) : t[i] = s[i]
    PROVE  FlattenSeq(t) = FlattenSeq(s) \o t[Len(t)]
  <1>0. Len(s) \in Nat /\ Len(t) \in Nat
    BY DEF IsList
  <1>1. PICK f : Builds(f, s) /\ FlattenSeq(s) = f[Len(s)]
    BY FlattenBuilds
  <1>2. PICK g : Builds(g, t) /\ FlattenSeq(t) = g[Len(t)]
    BY <1>0, FlattenBuilds
  <1> DEFINE U == {i \in 1 .. Len(s) : f[i] # g[i]}
  <1>3. U = {}
    <2> SUFFICES ASSUME U # {} PROVE FALSE
      OBVIOUS
    <2>1. U \subseteq Nat
      BY <1>0
    <2>2. PICK n \in U : \A m \in U : ~(m < n)
      <3> HIDE DEF U
      <3> QED
        BY <2>1, LeastNumber
    <2>3. n \in 1 .. Len(s) /\ n \in 1 .. Len(t) /\ f[n] # g[n]
      BY <2>2, <1>0
    <2>4. f[n] = IF n = 1 THEN s[n] ELSE f[n - 1] \o s[n]
      BY <1>1, <2>3, BuildsValue
    <2>5. g[n] = IF n = 1 THEN t[n] ELSE g[n - 1] \o t[n]
      BY <1>2, <2>3, BuildsValue
    <2>6. CASE n = 1
      BY <2>3, <2>4, <2>5, <2>6
    <2>7. CASE n # 1
      <3>1. n - 1 \in 1 .. Len(s) /\ n - 1 < n
        BY <2>3, <2>7, <1>0
      <3>2. f[n - 1] = g[n - 1]
        BY <2>2, <3>1
      <3> QED
        BY <2>3, <2>4, <2>5, <2>7, <3>2
    <2> QED
      BY <2>6, <2>7
  <1>4. Len(s) \in 1 .. Len(s) /\ Len(t) \in 1 .. Len(t) /\ Len(t) # 1 /\ Len(t) - 1 = Len(s)
    BY <1>0
  <1>5. g[Len(t)] = g[Len(s)] \o t[Len(t)]
    <2>1. g[Len(t)] = IF Len(t) = 1 THEN t[Len(t)] ELSE g[Len(t) - 1] \o t[Len(t)]
      BY <1>2, <1>4, BuildsValue
    <2> QED
      BY <2>1, <1>4
  <1>6. f[Len(s)] = g[Len(s)]
    BY <1>3, <1>4
  <1> QED
    BY <1>1, <1>2, <1>5, <1>6

LEMMA ConcatLists ==
    ASSUME NEW s, NEW t, IsList(s), IsList(t)
    PROVE  /\ Len(s \o t) = Len(s) + Len(t)
           /\ \A i \in 1 .. Len(s) : (s \o t)[i] = s[i]
           /\ \A i \in 1 .. Len(t) : (s \o t)[Len(s) + i] = t[i]
  <1> DEFINE S == {s[i] : i \in 1 .. Len(s)} \cup {t[i] : i \in 1 .. Len(t)}
  <1>1. s \in Seq(S) /\ t \in Seq(S)
    BY SMTT(30) DEF IsList
  <1> HIDE DEF S
  <1>2. Len(s \o t) = Len(s) + Len(t)
    BY <1>1
  <1>3. \A i \in 1 .. Len(s) : (s \o t)[i] = s[i]
    BY <1>1
  <1>4. \A i \in 1 .. Len(t) : (s \o t)[Len(s) + i] = t[i]
    BY <1>1
  <1> QED
    BY <1>2, <1>3, <1>4

LEMMA ListsEqual ==
    ASSUME NEW s, NEW t, IsList(s), IsList(t), Len(s) = Len(t), \A i \in 1 .. Len(s) : s[i] = t[i]
    PROVE  s = t
  <1> DEFINE S == {s[i] : i \in 1 .. Len(s)} \cup {t[i] : i \in 1 .. Len(t)}
  <1>1. s \in Seq(S) /\ t \in Seq(S)
    BY SMTT(30) DEF IsList
  <1> HIDE DEF S
  <1> QED
    BY <1>1

LEMMA EmptyIsList == IsList(<<>>) /\ Len(<<>>) = 0
  <1>1. <<>> \in Seq({})
    OBVIOUS
  <1> QED
    BY <1>1, SeqIsList

LEMMA EmptyList ==
    ASSUME NEW s, IsList(s), Len(s) = 0
    PROVE  s = <<>>
  BY EmptyIsList, ListsEqual

LEMMA ConcatEmptyRight ==
    ASSUME NEW s, IsList(s)
    PROVE  s \o <<>> = s
  <1>1. IsList(s \o <<>>)
    BY EmptyIsList, ListsConcatenate
  <1>2. Len(s \o <<>>) = Len(s) /\ \A i \in 1 .. Len(s) : (s \o <<>>)[i] = s[i]
    BY EmptyIsList, ConcatLists DEF IsList
  <1> QED
    BY <1>1, <1>2, ListsEqual

LEMMA ConcatEmptyLeft ==
    ASSUME NEW s, IsList(s)
    PROVE  <<>> \o s = s
  <1> DEFINE e == <<>>
  <1>0. IsList(e) /\ Len(e) = 0
    BY EmptyIsList
  <1> HIDE DEF e
  <1>1. IsList(e \o s)
    BY <1>0, ListsConcatenate
  <1>2. Len(e \o s) = Len(s) /\ \A i \in 1 .. Len(s) : (e \o s)[0 + i] = s[i]
    BY <1>0, ConcatLists DEF IsList
  <1>3. \A i \in 1 .. Len(s) : 0 + i = i
    BY DEF IsList
  <1>4. e \o s = s
    BY <1>1, <1>2, <1>3, ListsEqual
  <1> QED
    BY <1>4 DEF e

Join(s, t) == s \o t

LEMMA JoinAssociates ==
    ASSUME NEW r, NEW s, NEW t, IsList(r), IsList(s), IsList(t)
    PROVE  Join(Join(r, s), t) = Join(r, Join(s, t))
  <1> DEFINE S == {r[i] : i \in 1 .. Len(r)} \cup {s[i] : i \in 1 .. Len(s)} \cup {t[i] : i \in 1 .. Len(t)}
  <1>1. r \in Seq(S) /\ s \in Seq(S) /\ t \in Seq(S)
    BY SMTT(30) DEF IsList
  <1> HIDE DEF S
  <1> QED
    BY <1>1 DEF Join

\* FlattenSeq of one more element is that of the others and then the element.
LEMMA FlattenNext ==
    ASSUME NEW s, NEW t, IsList(s), IsList(t), Len(t) = Len(s) + 1,
           \A i \in 1 .. Len(s) : t[i] = s[i], IsList(t[Len(t)])
    PROVE  FlattenSeq(t) = FlattenSeq(s) \o t[Len(t)]
  <1>0. Len(s) \in Nat
    BY DEF IsList
  <1>1. CASE Len(s) = 0
    <2>1. s = <<>> /\ Len(t) = 1
      BY <1>1, EmptyList
    <2>2. t = <<t[1]>>
      <3> DEFINE x == t[1]
      <3>1. <<x>> \in Seq({x})
        OBVIOUS
      <3>2. IsList(<<x>>) /\ Len(<<x>>) = 1 /\ <<x>>[1] = x
        BY <3>1, SeqIsList
      <3> QED
        BY <2>1, <3>2, ListsEqual
    <2>3. FlattenSeq(t) = t[1]
      BY <2>2, FlattenOne
    <2>4. FlattenSeq(s) = <<>>
      BY <2>1, FlattenEmpty
    <2> QED
      BY <2>1, <2>3, <2>4, ConcatEmptyLeft
  <1>2. CASE Len(s) # 0
    BY <1>2, FlattenLast
  <1> QED
    BY <1>1, <1>2

Firsts(s, n) == [i \in 1 .. n |-> s[i]]

LEMMA FirstsIsList ==
    ASSUME NEW s, NEW n \in Nat
    PROVE  IsList(Firsts(s, n)) /\ Len(Firsts(s, n)) = n
  <1> DEFINE f == Firsts(s, n)
  <1>1. DOMAIN f = 1 .. n /\ f = [i \in 1 .. n |-> f[i]]
    BY DEF Firsts
  <1> HIDE DEF f
  <1>2. IsList(f) /\ Len(f) = n
    BY <1>1, ListOfLength
  <1> QED
    BY <1>2 DEF f

LEMMA FirstsOfAll ==
    ASSUME NEW s, IsList(s)
    PROVE  Firsts(s, Len(s)) = s
  <1>1. Len(s) \in Nat
    BY DEF IsList
  <1>2. \A i \in 1 .. Len(s) : Firsts(s, Len(s))[i] = s[i]
    BY DEF Firsts
  <1> QED
    BY <1>1, <1>2, FirstsIsList, ListsEqual

LEMMA FlattenFirsts ==
    ASSUME NEW t, IsList(t), \A k \in 1 .. Len(t) : IsList(t[k]), NEW m \in 1 .. Len(t)
    PROVE  FlattenSeq(Firsts(t, m)) = FlattenSeq(Firsts(t, m - 1)) \o t[m]
  <1>1. m \in Nat /\ m - 1 \in Nat /\ m = (m - 1) + 1
    BY DEF IsList
  <1>2. /\ IsList(Firsts(t, m)) /\ Len(Firsts(t, m)) = m
        /\ IsList(Firsts(t, m - 1)) /\ Len(Firsts(t, m - 1)) = m - 1
    BY <1>1, FirstsIsList
  <1>3. \A i \in 1 .. m - 1 : Firsts(t, m)[i] = Firsts(t, m - 1)[i]
    BY <1>1 DEF Firsts
  <1>4. Firsts(t, m)[m] = t[m]
    BY <1>1 DEF Firsts
  <1> DEFINE a == Firsts(t, m - 1)
             b == Firsts(t, m)
  <1>5. IsList(a) /\ IsList(b) /\ Len(b) = Len(a) + 1 /\ b[Len(b)] = t[m] /\ IsList(b[Len(b)])
    BY <1>1, <1>2, <1>4
  <1>6. \A i \in 1 .. Len(a) : b[i] = a[i]
    BY <1>2, <1>3
  <1> HIDE DEF a, b
  <1>7. FlattenSeq(b) = FlattenSeq(a) \o b[Len(b)]
    BY <1>5, <1>6, FlattenNext
  <1> QED
    BY <1>5, <1>7 DEF a, b

LEMMA FlattenConcat ==
    ASSUME NEW s, NEW t, IsList(s), IsList(t), \A k \in 1 .. Len(s) : IsList(s[k]), \A k \in 1 .. Len(t) : IsList(t[k])
    PROVE  FlattenSeq(s \o t) = FlattenSeq(s) \o FlattenSeq(t)
  <1> DEFINE F(m) == Firsts(t, m)
             Wrong == {m \in 0 .. Len(t) : FlattenSeq(s \o F(m)) # FlattenSeq(s) \o FlattenSeq(F(m))}
  <1>0. Len(s) \in Nat /\ Len(t) \in Nat
    BY DEF IsList
  <1>1. IsList(FlattenSeq(s))
    BY FlattenIsList
  <1>2. ASSUME NEW m \in Nat PROVE IsList(F(m)) /\ Len(F(m)) = m
    BY FirstsIsList
  <1>3. Wrong = {}
    <2> SUFFICES ASSUME Wrong # {} PROVE FALSE
      OBVIOUS
    <2>1. Wrong \subseteq Nat
      BY <1>0
    <2>2. PICK m \in Wrong : \A k \in Wrong : ~(k < m)
      <3> HIDE DEF Wrong
      <3> QED
        BY <2>1, LeastNumber
    <2>3. m \in 0 .. Len(t) /\ m \in Nat /\ FlattenSeq(s \o F(m)) # FlattenSeq(s) \o FlattenSeq(F(m))
      BY <2>2, <1>0
    <2>4. CASE m = 0
      <3>1. F(m) = <<>>
        <4>1. IsList(F(m)) /\ Len(F(m)) = 0
          BY <1>2, <2>3, <2>4
        <4> HIDE DEF F
        <4> QED
          BY <4>1, EmptyList
      <3> HIDE DEF F
      <3>2. FlattenSeq(s \o F(m)) = FlattenSeq(s)
        BY <3>1, ConcatEmptyRight
      <3>3. FlattenSeq(s) \o FlattenSeq(F(m)) = FlattenSeq(s)
        BY <3>1, <1>1, FlattenEmpty, ConcatEmptyRight
      <3> QED
        BY <2>3, <3>2, <3>3
    <2>5. CASE m # 0
      <3>1. m \in 1 .. Len(t) /\ m - 1 \in 0 .. Len(t) /\ m - 1 < m /\ m - 1 \in Nat
        BY <2>3, <2>5, <1>0
      <3>2. FlattenSeq(s \o F(m - 1)) = FlattenSeq(s) \o FlattenSeq(F(m - 1))
        BY <2>2, <3>1
      <3>3. FlattenSeq(F(m)) = FlattenSeq(F(m - 1)) \o t[m]
        BY <3>1, FlattenFirsts
      <3>4. IsList(F(m)) /\ IsList(F(m - 1)) /\ Len(F(m)) = m /\ Len(F(m - 1)) = m - 1
        BY <1>2, <2>3, <3>1
      <3>5. F(m)[m] = t[m] /\ \A i \in 1 .. m - 1 : F(m)[i] = F(m - 1)[i]
        BY <3>1 DEF Firsts
      <3>6. \A k \in 1 .. m - 1 : IsList(F(m - 1)[k])
        <4>1. \A k \in 1 .. m - 1 : F(m - 1)[k] = t[k] /\ k \in 1 .. Len(t)
          BY <3>1 DEF Firsts
        <4> QED
          BY <4>1
      <3>7. IsList(t[m])
        BY <3>1
      <3> HIDE DEF F
      <3> DEFINE a == s \o F(m - 1)
                 b == s \o F(m)
      <3>8. IsList(a) /\ IsList(b)
        BY <3>4, ListsConcatenate
      <3>9. Len(a) = Len(s) + (m - 1) /\ Len(b) = Len(s) + m
        BY <3>4, ConcatLists
      <3>10. b[Len(b)] = t[m]
        <4>1. m \in 1 .. Len(F(m))
          BY <3>4, <3>1
        <4>2. b[Len(s) + m] = F(m)[m]
          BY <3>4, <4>1, ConcatLists
        <4> QED
          BY <4>2, <3>5, <3>9
      <3>11. \A i \in 1 .. Len(a) : b[i] = a[i]
        <4> SUFFICES ASSUME NEW i \in 1 .. Len(a) PROVE b[i] = a[i]
          OBVIOUS
        <4>1. CASE i \in 1 .. Len(s)
          BY <4>1, <3>4, ConcatLists
        <4>2. CASE i \notin 1 .. Len(s)
          <5> DEFINE k == i - Len(s)
          <5>1. k \in 1 .. m - 1 /\ k \in 1 .. m /\ Len(s) + k = i
            BY <4>2, <3>9, <3>1, <1>0
          <5> HIDE DEF k
          <5>2. a[Len(s) + k] = F(m - 1)[k] /\ b[Len(s) + k] = F(m)[k]
            BY <5>1, <3>4, ConcatLists
          <5> QED
            BY <5>1, <5>2, <3>5
        <4> QED
          BY <4>1, <4>2
      <3>12. Len(b) = Len(a) + 1
        BY <3>9, <3>1, <1>0
      <3> HIDE DEF a, b
      <3>13. FlattenSeq(b) = FlattenSeq(a) \o t[m]
        <4>1. IsList(b[Len(b)])
          BY <3>7, <3>10
        <4>2. FlattenSeq(b) = FlattenSeq(a) \o b[Len(b)]
          BY <4>1, <3>8, <3>11, <3>12, FlattenNext
        <4> QED
          BY <4>2, <3>10
      <3>14. IsList(FlattenSeq(F(m - 1)))
        BY <3>4, <3>6, FlattenIsList
      <3>15. FlattenSeq(b) = FlattenSeq(s) \o (FlattenSeq(F(m - 1)) \o t[m])
        <4>1. FlattenSeq(b) = (FlattenSeq(s) \o FlattenSeq(F(m - 1))) \o t[m]
          BY <3>13, <3>2 DEF a
        <4> DEFINE p == FlattenSeq(s)
                   q == FlattenSeq(F(m - 1))
                   r == t[m]
        <4>2. IsList(p) /\ IsList(q) /\ IsList(r)
          BY <1>1, <3>14, <3>7
        <4>3. FlattenSeq(b) = (p \o q) \o r
          BY <4>1
        <4> HIDE DEF p, q, r
        <4>4. Join(Join(p, q), r) = Join(p, Join(q, r))
          BY <4>2, JoinAssociates
        <4> QED
          BY <4>3, <4>4 DEF p, q, r, Join
      <3> QED
        BY <2>3, <3>3, <3>15 DEF b
    <2> QED
      BY <2>4, <2>5
  <1>4. FlattenSeq(s \o F(Len(t))) = FlattenSeq(s) \o FlattenSeq(F(Len(t)))
    BY <1>3, <1>0
  <1> QED
    BY <1>4, FirstsOfAll

\* The mentions of a line are numbered without gaps.
LEMMA PositionsIsList ==
    ASSUME NEW line, IsList(line)
    PROVE  IsList(Positions(line, Mention))
  <1> DEFINE S == {i \in DOMAIN line : Mention(line[i])}
             n == Cardinality(S)
             s == [k \in 1 .. n |-> CHOOSE i \in S : Cardinality({j \in S : j =< i}) = k]
  <1>1. IsFiniteSet(1 .. Len(line))
    BY FS_Interval DEF IsList
  <1>2. IsFiniteSet(S)
    BY <1>1, FS_Subset DEF IsList
  <1>3. n \in Nat
    BY <1>2, FS_CardinalityType
  <1>4. Positions(line, Mention) = s
    BY DEF Positions
  <1> HIDE DEF n, S
  <1>5. DOMAIN s = 1 .. n /\ s = [i \in 1 .. n |-> s[i]]
    OBVIOUS
  <1>6. IsList(s)
    BY <1>3, <1>5, ListOfLength
  <1> QED
    BY <1>4, <1>6

LEMMA LineParsesToList ==
    ASSUME NEW line, IsList(line)
    PROVE  IsList(ParseLine(line))
  <1>1. CASE Expands(line)
    <2> DEFINE at == Positions(line, Mention)
               s == [k \in 1 .. Len(at) |-> Directive(line[at[k]][2], "", UpToNext(line, at, k))]
    <2>1. IsList(at)
      BY PositionsIsList
    <2>2. ParseLine(line) = s
      BY <1>1, <2>1 DEF ParseLine, ExpandInlineChatMentions, IsList
    <2>3. Len(at) \in Nat
      BY <2>1 DEF IsList
    <2> HIDE DEF at
    <2>4. DOMAIN s = 1 .. Len(at) /\ s = [i \in 1 .. Len(at) |-> s[i]]
      OBVIOUS
    <2>5. IsList(s)
      BY <2>3, <2>4, ListOfLength
    <2> QED
      BY <2>2, <2>5
  <1>2. CASE ~Expands(line)
    <2>1. ASSUME NEW d PROVE IsList(<<d>>)
      <3>1. <<d>> \in Seq({d})
        OBVIOUS
      <3> QED
        BY <3>1, SeqIsList
    <2>2. IsList(<<>>)
      <3>1. <<>> \in Seq({})
        OBVIOUS
      <3> QED
        BY <3>1, SeqIsList
    <2>3. ParseLine(line) = <<>> \/ \E d : ParseLine(line) = <<d>>
      BY <1>2 DEF ParseLine, ParseDirective
    <2> QED
      BY <2>1, <2>2, <2>3
  <1> QED
    BY <1>1, <1>2

\* ParseTurn gives a list of directives for every message.
LEMMA MessageParsesToList ==
    ASSUME NEW text \in Texts
    PROVE  IsList(ParseTurn(text))
  <1>1. IsList(text)
    BY TextsAssumption, SeqIsList
  <1>2. ASSUME NEW k \in DOMAIN text PROVE IsList(text[k])
    <2>1. text[k] \in Seq({"at", "ref", "file", "cmd", "path", "mail", "word"} \X STRING)
      BY TextsAssumption
    <2> QED
      BY <2>1, SeqIsList
  <1> DEFINE s == [k \in 1 .. Len(text) |-> ParseLine(text[k])]
  <1>3. Len(text) \in Nat /\ DOMAIN text = 1 .. Len(text)
    BY <1>1 DEF IsList
  <1>4. IsList(s) /\ Len(s) = Len(text)
    <2>1. DOMAIN s = 1 .. Len(text) /\ s = [i \in 1 .. Len(text) |-> s[i]]
      OBVIOUS
    <2> QED
      BY <1>3, <2>1, ListOfLength
  <1>5. \A k \in 1 .. Len(s) : IsList(s[k])
    BY <1>2, <1>3, <1>4, LineParsesToList
  <1>6. IsList(FlattenSeq(s))
    <2> HIDE DEF s
    <2> QED
      BY <1>4, <1>5, FlattenIsList
  <1>7. ParseTurn(text) = FlattenSeq(s)
    BY <1>3 DEF ParseTurn
  <1> QED
    BY <1>6, <1>7

-----------------------------------------------------------------------------
(* Messages: what a line says                                              *)

WordsOf(s) == [i \in DOMAIN s |-> Words(s[i])]

LEMMA OneIsList ==
    ASSUME NEW x
    PROVE  IsList(<<x>>) /\ Len(<<x>>) = 1 /\ <<x>>[1] = x
  <1>1. <<x>> \in Seq({x})
    OBVIOUS
  <1> QED
    BY <1>1, SeqIsList

LEMMA WordsIsList ==
    ASSUME NEW t
    PROVE  IsList(Words(t))
  BY OneIsList, EmptyIsList DEF Words

LEMMA WordsOfIsList ==
    ASSUME NEW s, IsList(s)
    PROVE  /\ IsList(WordsOf(s)) /\ Len(WordsOf(s)) = Len(s)
           /\ \A i \in 1 .. Len(s) : WordsOf(s)[i] = Words(s[i]) /\ IsList(WordsOf(s)[i])
  <1>1. Len(s) \in Nat /\ DOMAIN s = 1 .. Len(s)
    BY DEF IsList
  <1> DEFINE w == WordsOf(s)
  <1>2. DOMAIN w = 1 .. Len(s) /\ w = [i \in 1 .. Len(s) |-> w[i]] /\ \A i \in 1 .. Len(s) : w[i] = Words(s[i])
    BY <1>1 DEF WordsOf
  <1> HIDE DEF w
  <1>3. IsList(w) /\ Len(w) = Len(s)
    BY <1>1, <1>2, ListOfLength
  <1>4. \A i \in 1 .. Len(s) : w[i] = Words(s[i]) /\ IsList(w[i])
    BY <1>2, WordsIsList
  <1> QED
    BY <1>3, <1>4 DEF w

LEMMA SaidIs ==
    ASSUME NEW s
    PROVE  Said(s) = FlattenSeq(WordsOf(s))
  BY DEF Said, WordsOf

LEMMA SaidIsList ==
    ASSUME NEW s, IsList(s)
    PROVE  IsList(Said(s))
  BY SaidIs, WordsOfIsList, FlattenIsList

LEMMA SaidConcat ==
    ASSUME NEW s, NEW t, IsList(s), IsList(t)
    PROVE  Said(s \o t) = Said(s) \o Said(t)
  <1> DEFINE u == s \o t
             x == WordsOf(s)
             y == WordsOf(t)
             z == WordsOf(u)
  <1>1. IsList(u)
    BY ListsConcatenate
  <1>2. Len(u) = Len(s) + Len(t) /\ Len(s) \in Nat /\ Len(t) \in Nat
    BY ConcatLists DEF IsList
  <1>3. \A i \in 1 .. Len(s) : u[i] = s[i]
    BY ConcatLists
  <1>4. \A i \in 1 .. Len(t) : u[Len(s) + i] = t[i]
    BY ConcatLists
  <1>5. IsList(x) /\ Len(x) = Len(s) /\ \A i \in 1 .. Len(s) : x[i] = Words(s[i]) /\ IsList(x[i])
    BY WordsOfIsList
  <1>6. IsList(y) /\ Len(y) = Len(t) /\ \A i \in 1 .. Len(t) : y[i] = Words(t[i]) /\ IsList(y[i])
    BY WordsOfIsList
  <1> HIDE DEF u
  <1>7. IsList(z) /\ Len(z) = Len(u) /\ \A i \in 1 .. Len(u) : z[i] = Words(u[i])
    BY <1>1, WordsOfIsList
  <1> HIDE DEF x, y, z
  <1>8. IsList(x \o y) /\ Len(x \o y) = Len(s) + Len(t)
    BY <1>5, <1>6, ListsConcatenate, ConcatLists
  <1>9. ASSUME NEW i \in 1 .. Len(z) PROVE z[i] = (x \o y)[i]
    <2>1. CASE i \in 1 .. Len(s)
      <3>1. (x \o y)[i] = x[i]
        BY <2>1, <1>5, <1>6, ConcatLists
      <3> QED
        BY <2>1, <3>1, <1>3, <1>5, <1>7
    <2>2. CASE i \notin 1 .. Len(s)
      <3> DEFINE k == i - Len(s)
      <3>1. k \in 1 .. Len(t) /\ Len(s) + k = i /\ i \in 1 .. Len(u)
        BY <2>2, <1>2, <1>7
      <3> HIDE DEF k
      <3>2. (x \o y)[Len(s) + k] = y[k]
        BY <3>1, <1>5, <1>6, ConcatLists
      <3>3. u[i] = t[k]
        BY <3>1, <1>4
      <3> QED
        BY <3>1, <3>2, <3>3, <1>6, <1>7
    <2> QED
      BY <2>1, <2>2
  <1>10. z = x \o y
    BY <1>2, <1>7, <1>8, <1>9, ListsEqual
  <1>11. FlattenSeq(x \o y) = FlattenSeq(x) \o FlattenSeq(y)
    BY <1>5, <1>6, FlattenConcat
  <1>12. Said(u) = FlattenSeq(z) /\ Said(s) = FlattenSeq(x) /\ Said(t) = FlattenSeq(y)
    BY SaidIs DEF x, y, z
  <1>13. Said(u) = Said(s) \o Said(t)
    BY <1>10, <1>11, <1>12
  <1> QED
    BY <1>13 DEF u

LEMMA SaidNothing == Said(<<>>) = <<>>
  <1>1. WordsOf(<<>>) = <<>>
    <2>1. IsList(WordsOf(<<>>)) /\ Len(WordsOf(<<>>)) = 0
      BY EmptyIsList, WordsOfIsList
    <2> QED
      BY <2>1, EmptyList
  <1> QED
    BY <1>1, SaidIs, FlattenEmpty

LEMMA SaidOne ==
    ASSUME NEW t
    PROVE  Said(<<t>>) = Words(t)
  <1> DEFINE s == <<t>>
             w == WordsOf(s)
             x == <<Words(t)>>
  <1>1. IsList(s) /\ Len(s) = 1 /\ s[1] = t
    BY OneIsList
  <1>2. IsList(x) /\ Len(x) = 1 /\ x[1] = Words(t)
    BY OneIsList
  <1> HIDE DEF s
  <1>3. IsList(w) /\ Len(w) = 1 /\ w[1] = Words(t)
    BY <1>1, WordsOfIsList
  <1> HIDE DEF x
  <1>4. w = x
    <2> HIDE DEF w
    <2> QED
      BY <1>2, <1>3, ListsEqual
  <1>5. Said(s) = FlattenSeq(x)
    BY <1>4, SaidIs
  <1> QED
    BY <1>5, FlattenOne DEF s, x

\* Taking the references out of a word, or the command, leaves what it says.
LEMMA WithoutRefSays ==
    ASSUME NEW t
    PROVE  IsList(WithoutRef(t)) /\ Said(WithoutRef(t)) = Words(t)
  <1>1. CASE t[1] \in {"ref", "file"}
    <2>1. WithoutRef(t) = <<>> /\ Words(t) = <<>>
      BY <1>1 DEF WithoutRef, Words
    <2> QED
      BY <2>1, EmptyIsList, SaidNothing
  <1>2. CASE t[1] = "mail"
    <2> DEFINE p == <<"part", t[2]>>
    <2>1. WithoutRef(t) = <<p>>
      BY <1>2 DEF WithoutRef
    <2>2. Words(t) = <<t[2]>> /\ Words(p) = <<t[2]>>
      BY <1>2 DEF Words
    <2> HIDE DEF p
    <2> QED
      BY <2>1, <2>2, SaidOne, OneIsList
  <1>3. CASE t[1] \notin {"ref", "file", "mail"}
    <2>1. WithoutRef(t) = <<t>>
      BY <1>3 DEF WithoutRef
    <2> QED
      BY <2>1, SaidOne, OneIsList
  <1> QED
    BY <1>1, <1>2, <1>3

LEMMA CutSays ==
    ASSUME NEW t, Slashed(t)
    PROVE  IsList(Cut(t)) /\ Said(Cut(t)) = Words(t)
  <1>1. CASE t[1] = "path"
    <2> DEFINE p == <<"stem", t[2]>>
    <2>1. Cut(t) = <<p>>
      BY <1>1 DEF Cut
    <2>2. Words(t) = <<t[2]>> /\ Words(p) = <<t[2]>>
      BY <1>1 DEF Words
    <2> HIDE DEF p
    <2> QED
      BY <2>1, <2>2, SaidOne, OneIsList
  <1>2. CASE t[1] = "file"
    <2> DEFINE p == <<"ref", t[2]>>
    <2>1. Cut(t) = <<p>>
      BY <1>2 DEF Cut
    <2>2. Words(t) = <<>> /\ Words(p) = <<>>
      BY <1>2 DEF Words
    <2> HIDE DEF p
    <2> QED
      BY <2>1, <2>2, SaidOne, OneIsList
  <1>3. CASE t[1] = "cmd"
    <2>1. Cut(t) = <<>> /\ Words(t) = <<>>
      BY <1>3 DEF Cut, Words
    <2> QED
      BY <2>1, EmptyIsList, SaidNothing
  <1> QED
    BY <1>1, <1>2, <1>3 DEF Slashed

RefsOf(s) == [i \in DOMAIN s |-> WithoutRef(s[i])]

LEMMA RefsOfIsList ==
    ASSUME NEW s, IsList(s)
    PROVE  /\ IsList(RefsOf(s)) /\ Len(RefsOf(s)) = Len(s)
           /\ \A i \in 1 .. Len(s) : RefsOf(s)[i] = WithoutRef(s[i]) /\ IsList(RefsOf(s)[i])
  <1>1. Len(s) \in Nat /\ DOMAIN s = 1 .. Len(s)
    BY DEF IsList
  <1> DEFINE w == RefsOf(s)
  <1>2. /\ DOMAIN w = 1 .. Len(s) /\ w = [i \in 1 .. Len(s) |-> w[i]]
        /\ \A i \in 1 .. Len(s) : w[i] = WithoutRef(s[i])
    BY <1>1 DEF RefsOf
  <1> HIDE DEF w
  <1>3. IsList(w) /\ Len(w) = Len(s)
    BY <1>1, <1>2, ListOfLength
  <1>4. \A i \in 1 .. Len(s) : IsList(w[i])
    BY <1>2, WithoutRefSays
  <1> QED
    BY <1>2, <1>3, <1>4 DEF w

\* References say nothing.
LEMMA SaidWithoutRefs ==
    ASSUME NEW s, IsList(s)
    PROVE  Said(WithoutRefs(s)) = Said(s) /\ IsList(WithoutRefs(s))
  <1> DEFINE r == RefsOf(s)
             w == WordsOf(s)
             R(m) == FlattenSeq(Firsts(r, m))
             W(m) == FlattenSeq(Firsts(w, m))
             Wrong == {m \in 0 .. Len(s) : Said(R(m)) # W(m)}
  <1>0. Len(s) \in Nat
    BY DEF IsList
  <1>1. /\ IsList(r) /\ Len(r) = Len(s) /\ \A i \in 1 .. Len(s) : IsList(r[i])
        /\ \A i \in 1 .. Len(s) : r[i] = WithoutRef(s[i])
    BY RefsOfIsList
  <1>2. IsList(w) /\ Len(w) = Len(s) /\ \A i \in 1 .. Len(s) : w[i] = Words(s[i]) /\ IsList(w[i])
    BY WordsOfIsList
  <1>3. WithoutRefs(s) = FlattenSeq(r)
    BY DEF WithoutRefs, RefsOf
  <1>4. Said(s) = FlattenSeq(w)
    BY SaidIs
  <1> HIDE DEF r, w
  <1>5. IsList(WithoutRefs(s))
    BY <1>1, <1>3, FlattenIsList
  <1>6. Wrong = {}
    <2> SUFFICES ASSUME Wrong # {} PROVE FALSE
      OBVIOUS
    <2>1. Wrong \subseteq Nat
      BY <1>0
    <2>2. PICK m \in Wrong : \A k \in Wrong : ~(k < m)
      <3> HIDE DEF Wrong
      <3> QED
        BY <2>1, LeastNumber
    <2>3. m \in 0 .. Len(s) /\ m \in Nat /\ Said(R(m)) # W(m)
      BY <2>2, <1>0
    <2>4. CASE m = 0
      <3>1. Firsts(r, 0) = <<>> /\ Firsts(w, 0) = <<>>
        BY FirstsIsList, EmptyList
      <3> QED
        BY <2>3, <2>4, <3>1, FlattenEmpty, SaidNothing
    <2>5. CASE m # 0
      <3>1. m \in 1 .. Len(s) /\ m - 1 \in 0 .. Len(s) /\ m - 1 < m /\ m - 1 \in Nat
        BY <2>3, <2>5, <1>0
      <3>2. Said(R(m - 1)) = W(m - 1)
        BY <2>2, <3>1
      <3>3. R(m) = R(m - 1) \o r[m]
        BY <3>1, <1>1, FlattenFirsts
      <3>4. W(m) = W(m - 1) \o w[m]
        BY <3>1, <1>2, FlattenFirsts
      <3>5. IsList(R(m - 1)) /\ IsList(r[m])
        <4>1. IsList(Firsts(r, m - 1)) /\ Len(Firsts(r, m - 1)) = m - 1
          BY <3>1, FirstsIsList
        <4>2. \A k \in 1 .. m - 1 : IsList(Firsts(r, m - 1)[k])
          <5>1. \A k \in 1 .. m - 1 : Firsts(r, m - 1)[k] = r[k] /\ k \in 1 .. Len(s)
            BY <3>1 DEF Firsts
          <5> QED
            BY <5>1, <1>1
        <4> QED
          BY <4>1, <4>2, <3>1, <1>1, FlattenIsList
      <3>6. Said(r[m]) = w[m]
        BY <3>1, <1>1, <1>2, WithoutRefSays
      <3> HIDE DEF R, W
      <3>7. Said(R(m - 1) \o r[m]) = Said(R(m - 1)) \o Said(r[m])
        BY <3>5, SaidConcat
      <3> QED
        BY <2>3, <3>2, <3>3, <3>4, <3>6, <3>7
    <2> QED
      BY <2>4, <2>5
  <1>7. Said(R(Len(s))) = W(Len(s))
    BY <1>0, <1>6
  <1>8. R(Len(s)) = FlattenSeq(r) /\ W(Len(s)) = FlattenSeq(w)
    BY <1>1, <1>2, FirstsOfAll
  <1>9. Said(FlattenSeq(r)) = FlattenSeq(w)
    BY <1>7, <1>8
  <1> QED
    BY <1>3, <1>4, <1>5, <1>9

Ranked(S) == [k \in 1 .. Cardinality(S) |-> CHOOSE i \in S : Cardinality({j \in S : j =< i}) = k]

\* The elements of a finite set of numbers, in order
LEMMA RankedInOrder ==
    ASSUME NEW n \in Nat, NEW S \in SUBSET (1 .. n)
    PROVE  /\ IsList(Ranked(S)) /\ Len(Ranked(S)) = Cardinality(S)
           /\ \A k \in 1 .. Cardinality(S) : Ranked(S)[k] \in S
           /\ \A k, l \in 1 .. Cardinality(S) : k < l => Ranked(S)[k] < Ranked(S)[l]
  <1> DEFINE B(i) == {j \in S : j =< i}
             rank == [i \in S |-> Cardinality(B(i))]
             c == Cardinality(S)
             at == Ranked(S)
  <1>0. \A i \in S : i \in Nat
    OBVIOUS
  <1>1. IsFiniteSet(S)
    <2>1. IsFiniteSet(1 .. n)
      BY FS_Interval
    <2> QED
      BY <2>1, FS_Subset
  <1>2. c \in Nat /\ IsFiniteSet(1 .. c) /\ Cardinality(1 .. c) = c
    <2>1. c \in Nat
      BY <1>1, FS_CardinalityType
    <2> HIDE DEF c
    <2> QED
      BY <2>1, FS_Interval
  <1>3. ASSUME NEW i \in S PROVE IsFiniteSet(B(i)) /\ Cardinality(B(i)) \in 1 .. c
    <2>1. B(i) \in SUBSET S /\ i \in B(i)
      OBVIOUS
    <2>2. IsFiniteSet(B(i)) /\ Cardinality(B(i)) =< c
      BY <1>1, <2>1, FS_Subset
    <2>3. Cardinality(B(i)) \in Nat
      BY <2>2, FS_CardinalityType
    <2>4. Cardinality(B(i)) # 0
      BY <2>1, <2>2, FS_EmptySet
    <2> HIDE DEF c, B
    <2> QED
      BY <1>2, <2>2, <2>3, <2>4
  <1>4. ASSUME NEW i \in S, NEW j \in S, i < j PROVE Cardinality(B(i)) < Cardinality(B(j))
    <2>1. B(i) \in SUBSET B(j) /\ j \in B(j) /\ j \notin B(i)
      <3>1. i \in Nat /\ j \in Nat /\ \A x \in S : x \in Nat
        BY <1>0
      <3>2. (\A x \in S : x =< i => x =< j) /\ j =< j /\ ~(j =< i)
        BY <3>1, <1>4
      <3> QED
        BY <3>2
    <2>2. Cardinality(B(i)) =< Cardinality(B(j)) /\ (Cardinality(B(j)) = Cardinality(B(i)) => B(j) = B(i))
      BY <1>3, <2>1, FS_Subset
    <2>3. B(j) # B(i)
      BY <2>1
    <2>4. Cardinality(B(i)) \in 1 .. c /\ Cardinality(B(j)) \in 1 .. c
      BY <1>3
    <2> HIDE DEF c, B
    <2> QED
      BY <1>2, <2>2, <2>3, <2>4
  <1>5. rank \in Injection(S, 1 .. c)
    <2>1. rank \in [S -> 1 .. c]
      <3> HIDE DEF c, B
      <3> QED
        BY <1>3
    <2>2. ASSUME NEW i \in S, NEW j \in S, i # j PROVE rank[i] # rank[j]
      <3>1. i \in Nat /\ j \in Nat
        OBVIOUS
      <3>2. i < j \/ j < i
        BY <2>2, <3>1
      <3>3. Cardinality(B(i)) \in 1 .. c /\ Cardinality(B(j)) \in 1 .. c
        BY <1>3
      <3>4. Cardinality(B(i)) < Cardinality(B(j)) \/ Cardinality(B(j)) < Cardinality(B(i))
        BY <1>4, <3>2
      <3> HIDE DEF c, B
      <3> QED
        BY <1>2, <3>3, <3>4
    <2> HIDE DEF rank
    <2> QED
      BY <2>1, <2>2 DEF Injection, IsInjective
  <1>6. rank \in Surjection(S, 1 .. c)
    <2> HIDE DEF rank
    <2>1. Cardinality(S) = Cardinality(1 .. c) <=> rank \in Surjection(S, 1 .. c)
      BY <1>2, <1>5, FS_Injection
    <2> QED
      BY <1>2, <2>1
  <1>7. \A k \in 1 .. c : \E i \in S : Cardinality(B(i)) = k
    BY <1>6 DEF Surjection
  <1>8. at = [k \in 1 .. c |-> CHOOSE i \in S : Cardinality(B(i)) = k]
    BY DEF Ranked
  <1> HIDE DEF B, c
  <1>9. \A k \in 1 .. c : at[k] \in S /\ Cardinality(B(at[k])) = k
    BY <1>7, <1>8
  <1>10. DOMAIN at = 1 .. c /\ at = [k \in 1 .. c |-> at[k]]
    BY <1>8
  <1> HIDE DEF at
  <1>11. IsList(at) /\ Len(at) = c
    BY <1>2, <1>10, ListOfLength
  <1>12. ASSUME NEW k \in 1 .. c, NEW l \in 1 .. c, k < l PROVE at[k] < at[l]
    <2> SUFFICES ASSUME ~(at[k] < at[l]) PROVE FALSE
      OBVIOUS
    <2>1. at[k] \in S /\ at[l] \in S /\ Cardinality(B(at[k])) = k /\ Cardinality(B(at[l])) = l
      BY <1>9
    <2>2. at[l] < at[k] \/ at[l] = at[k]
      <3>1. at[k] \in Nat /\ at[l] \in Nat
        BY <1>0, <2>1
      <3> QED
        BY <3>1
    <2>3. l < k \/ l = k
      BY <1>4, <2>1, <2>2
    <2> QED
      BY <1>2, <1>12, <2>3
  <1> QED
    BY <1>9, <1>11, <1>12 DEF at, c

LEMMA MentionsInOrder ==
    ASSUME NEW line, IsList(line), NEW at, at = Positions(line, Mention)
    PROVE  /\ IsList(at)
           /\ \A k \in 1 .. Len(at) : at[k] \in 1 .. Len(line) /\ Mention(line[at[k]])
           /\ \A k, l \in 1 .. Len(at) : k < l => at[k] < at[l]
  <1> DEFINE S == {i \in DOMAIN line : Mention(line[i])}
  <1>1. Len(line) \in Nat /\ DOMAIN line = 1 .. Len(line)
    BY DEF IsList
  <1>2. S \in SUBSET (1 .. Len(line)) /\ \A i \in S : Mention(line[i])
    BY <1>1
  <1>3. at = Ranked(S)
    BY DEF Positions, Ranked
  <1> HIDE DEF S
  <1>4. IsList(at) /\ Len(at) = Cardinality(S)
    BY <1>1, <1>2, <1>3, RankedInOrder
  <1>5. \A k \in 1 .. Cardinality(S) : at[k] \in S
    BY <1>1, <1>2, <1>3, RankedInOrder
  <1>6. \A k, l \in 1 .. Cardinality(S) : k < l => at[k] < at[l]
    BY <1>1, <1>2, <1>3, RankedInOrder
  <1> QED
    BY <1>2, <1>4, <1>5, <1>6

LEMMA FirstSlash ==
    ASSUME NEW line, IsList(line), NEW at, at = Positions(line, Slashed), at # <<>>
    PROVE  at[1] \in 1 .. Len(line) /\ Slashed(line[at[1]])
  <1> DEFINE S == {i \in DOMAIN line : Slashed(line[i])}
  <1>1. Len(line) \in Nat /\ DOMAIN line = 1 .. Len(line)
    BY DEF IsList
  <1>2. S \in SUBSET (1 .. Len(line)) /\ \A i \in S : Slashed(line[i])
    BY <1>1
  <1>3. at = Ranked(S)
    BY DEF Positions, Ranked
  <1> HIDE DEF S
  <1>4. IsList(at) /\ Len(at) = Cardinality(S)
    BY <1>1, <1>2, <1>3, RankedInOrder
  <1>5. \A k \in 1 .. Cardinality(S) : at[k] \in S
    BY <1>1, <1>2, <1>3, RankedInOrder
  <1>6. Len(at) \in Nat /\ Len(at) # 0
    BY <1>4, EmptyList DEF IsList
  <1>7. 1 \in 1 .. Cardinality(S)
    BY <1>4, <1>6
  <1>8. at[1] \in S
    BY <1>5, <1>7
  <1> QED
    BY <1>2, <1>8

LEMMA SpanIs ==
    ASSUME NEW s, IsList(s), NEW a \in Nat \ {0}, NEW b \in Nat, a =< b + 1, b =< Len(s)
    PROVE  /\ IsList(SubSeq(s, a, b)) /\ Len(SubSeq(s, a, b)) = b - a + 1
           /\ \A i \in 1 .. b - a + 1 : SubSeq(s, a, b)[i] = s[a + i - 1]
  <1> DEFINE S == {s[i] : i \in 1 .. Len(s)}
             u == SubSeq(s, a, b)
  <1>1. s \in Seq(S) /\ Len(s) \in Nat
    BY DEF IsList
  <1> HIDE DEF S
  <1>2. u \in Seq(S)
    BY <1>1
  <1>3. Len(u) = b - a + 1
    BY <1>1
  <1>4. \A i \in 1 .. b - a + 1 : u[i] = s[a + i - 1]
    BY <1>1
  <1> QED
    BY <1>2, <1>3, <1>4, SeqIsList

LEMMA SpansJoin ==
    ASSUME NEW s, IsList(s), NEW a \in Nat \ {0}, NEW b \in Nat, NEW c \in Nat, a =< b + 1, b =< c, c =< Len(s)
    PROVE  SubSeq(s, a, c) = SubSeq(s, a, b) \o SubSeq(s, b + 1, c)
  <1> DEFINE x == SubSeq(s, a, b)
             y == SubSeq(s, b + 1, c)
             z == SubSeq(s, a, c)
  <1>0. Len(s) \in Nat /\ b =< Len(s) /\ a =< c + 1 /\ b + 1 =< c + 1 /\ b + 1 \in Nat \ {0}
    BY DEF IsList
  <1>1. IsList(x) /\ Len(x) = b - a + 1 /\ \A i \in 1 .. b - a + 1 : x[i] = s[a + i - 1]
    BY <1>0, SpanIs
  <1>2. IsList(y) /\ Len(y) = c - b /\ \A i \in 1 .. c - b : y[i] = s[b + i]
    <2> DEFINE d == b + 1
    <2>1. d \in Nat \ {0} /\ d =< c + 1 /\ c - d + 1 = c - b /\ \A i \in Nat : d + i - 1 = b + i
      OBVIOUS
    <2> HIDE DEF d
    <2>2. LET w == SubSeq(s, d, c) IN IsList(w) /\ Len(w) = c - d + 1 /\ \A i \in 1 .. c - d + 1 : w[i] = s[d + i - 1]
      BY <2>1, SpanIs
    <2> QED
      BY <2>1, <2>2 DEF d
  <1>3. IsList(z) /\ Len(z) = c - a + 1 /\ \A i \in 1 .. c - a + 1 : z[i] = s[a + i - 1]
    BY <1>0, SpanIs
  <1> HIDE DEF x, y, z
  <1>4. IsList(x \o y) /\ Len(x \o y) = c - a + 1
    <2>1. Len(x \o y) = Len(x) + Len(y)
      BY <1>1, <1>2, ConcatLists
    <2>2. IsList(x \o y)
      BY <1>1, <1>2, ListsConcatenate
    <2> QED
      BY <1>0, <1>1, <1>2, <2>1, <2>2
  <1>5. ASSUME NEW i \in 1 .. Len(z) PROVE z[i] = (x \o y)[i]
    <2>1. CASE i \in 1 .. Len(x)
      <3>1. (x \o y)[i] = x[i]
        BY <2>1, <1>1, <1>2, ConcatLists
      <3> QED
        BY <2>1, <3>1, <1>1, <1>3
    <2>2. CASE i \notin 1 .. Len(x)
      <3> DEFINE k == i - Len(x)
      <3>1. k \in 1 .. Len(y) /\ Len(x) + k = i /\ b + k = a + i - 1
        BY <2>2, <1>1, <1>2, <1>3
      <3> HIDE DEF k
      <3>2. (x \o y)[Len(x) + k] = y[k]
        BY <3>1, <1>1, <1>2, ConcatLists
      <3>3. y[k] = s[b + k]
        BY <3>1, <1>2
      <3>4. z[i] = s[a + i - 1]
        BY <1>3
      <3> QED
        BY <3>1, <3>2, <3>3, <3>4
    <2> QED
      BY <2>1, <2>2
  <1>6. z = x \o y
    BY <1>3, <1>4, <1>5, ListsEqual
  <1> QED
    BY <1>6 DEF x, y, z

LEMMA SpanOfAll ==
    ASSUME NEW s, IsList(s)
    PROVE  SubSeq(s, 1, Len(s)) = s
  <1>1. Len(s) \in Nat
    BY DEF IsList
  <1>2. IsList(SubSeq(s, 1, Len(s))) /\ Len(SubSeq(s, 1, Len(s))) = Len(s)
    BY <1>1, SpanIs
  <1>3. \A i \in 1 .. Len(s) : SubSeq(s, 1, Len(s))[i] = s[i]
    <2>1. \A i \in 1 .. Len(s) - 1 + 1 : SubSeq(s, 1, Len(s))[i] = s[1 + i - 1]
      BY <1>1, SpanIs
    <2> QED
      BY <2>1, <1>1
  <1> QED
    BY <1>2, <1>3, ListsEqual

LEMMA SpanOfOne ==
    ASSUME NEW s, IsList(s), NEW p \in 1 .. Len(s)
    PROVE  SubSeq(s, p, p) = <<s[p]>>
  <1> DEFINE u == SubSeq(s, p, p)
  <1>1. p \in Nat \ {0} /\ p =< Len(s) /\ p =< p + 1 /\ p - p + 1 = 1
    BY DEF IsList
  <1>2. IsList(u) /\ Len(u) = p - p + 1
    BY <1>1, SpanIs
  <1>3. \A i \in 1 .. p - p + 1 : u[i] = s[p + i - 1]
    BY <1>1, SpanIs
  <1> HIDE DEF u
  <1>4. Len(u) = 1 /\ u[1] = s[p]
    BY <1>1, <1>2, <1>3
  <1>5. u = <<s[p]>>
    <2> DEFINE y == <<s[p]>>
    <2>1. IsList(y) /\ Len(y) = 1 /\ y[1] = s[p]
      BY OneIsList
    <2> HIDE DEF y
    <2>2. u = y
      BY <1>2, <1>4, <2>1, ListsEqual
    <2> QED
      BY <2>2 DEF y
  <1> QED
    BY <1>5 DEF u

\* What a span says: what stands before p, the word at p, what comes after
LEMMA SaidAround ==
    ASSUME NEW s, IsList(s), NEW a \in Nat \ {0}, NEW p \in 1 .. Len(s), NEW u \in Nat, a =< p, p =< u, u =< Len(s)
    PROVE  Said(SubSeq(s, a, u)) = (Said(SubSeq(s, a, p - 1)) \o Words(s[p])) \o Said(SubSeq(s, p + 1, u))
  <1> DEFINE x == SubSeq(s, a, p - 1)
             y == <<s[p]>>
             z == SubSeq(s, p + 1, u)
             q == p - 1
  <1>0. p \in Nat /\ q \in Nat /\ p - 1 = q /\ q + 1 = p /\ a =< q + 1 /\ q =< p /\ p =< Len(s) /\ q =< Len(s) /\ Len(s) \in Nat /\ a =< p + 1
    BY DEF IsList
  <1>1. SubSeq(s, a, u) = SubSeq(s, a, p) \o z
    BY <1>0, SpansJoin
  <1>2. SubSeq(s, a, p) = x \o y
    <2> HIDE DEF q
    <2>1. SubSeq(s, a, p) = SubSeq(s, a, q) \o SubSeq(s, q + 1, p)
      BY <1>0, SpansJoin
    <2> QED
      BY <1>0, <2>1, SpanOfOne
  <1>3. IsList(x)
    BY <1>0, SpanIs
  <1>4. IsList(y)
    BY OneIsList
  <1>5. IsList(z)
    <2> DEFINE d == p + 1
    <2>1. d \in Nat \ {0} /\ d =< u + 1
      BY <1>0
    <2> HIDE DEF d
    <2>2. IsList(SubSeq(s, d, u))
      BY <2>1, SpanIs
    <2> QED
      BY <2>2 DEF d
  <1>6. Said(y) = Words(s[p])
    BY SaidOne
  <1> HIDE DEF x, y, z
  <1>7. IsList(x \o y)
    BY <1>3, <1>4, ListsConcatenate
  <1>8. Said((x \o y) \o z) = Said(x \o y) \o Said(z)
    BY <1>5, <1>7, SaidConcat
  <1>9. Said(x \o y) = Said(x) \o Said(y)
    BY <1>3, <1>4, SaidConcat
  <1>10. Said(SubSeq(s, a, u)) = (Said(x) \o Words(s[p])) \o Said(z)
    BY <1>1, <1>2, <1>6, <1>8, <1>9
  <1> QED
    BY <1>10 DEF x, z

LEMMA WordsOfMarks ==
    ASSUME NEW t
    PROVE  t[1] \in {"at", "ref"} => Words(t) = <<>>
  BY DEF Words

\* The arguments of a line with one directive say what the line says.
LEMMA ParseSays ==
    ASSUME NEW line, IsList(line), NEW d, ParseDirective(line) = <<d>>
    PROVE  Said(d.args) = Said(line)
  <1> DEFINE aimed == Len(line) > 0 /\ line[1][1] \in {"at", "ref"}
             rest == IF aimed THEN Tail(line) ELSE line
             at == Positions(rest, Slashed)
             word == Cut(rest[at[1]])
             left == SubSeq(rest, 1, at[1] - 1) \o word \o SubSeq(rest, at[1] + 1, Len(rest))
  <1>0. Len(line) \in Nat /\ DOMAIN line = 1 .. Len(line)
    BY DEF IsList
  <1>1. IsList(rest) /\ Said(rest) = Said(line)
    <2>1. CASE aimed
      <3>1. 1 \in 1 .. Len(line)
        BY <1>0, <2>1
      <3>2. Said(SubSeq(line, 1, Len(line))) = (Said(SubSeq(line, 1, 0)) \o Words(line[1])) \o Said(SubSeq(line, 2, Len(line)))
        <4> DEFINE p == 1
        <4>1. p \in Nat \ {0} /\ p \in 1 .. Len(line) /\ p =< p /\ p =< Len(line) /\ Len(line) =< Len(line)
          BY <1>0, <3>1
        <4>2. p - 1 = 0 /\ p + 1 = 2
          OBVIOUS
        <4> HIDE DEF p
        <4>3. Said(SubSeq(line, p, Len(line))) = (Said(SubSeq(line, p, p - 1)) \o Words(line[p])) \o Said(SubSeq(line, p + 1, Len(line)))
          BY <1>0, <4>1, SaidAround
        <4> QED
          BY <4>2, <4>3 DEF p
      <3>3. SubSeq(line, 1, 0) = <<>>
        <4>1. IsList(SubSeq(line, 1, 0)) /\ Len(SubSeq(line, 1, 0)) = 0
          BY <1>0, SpanIs
        <4> QED
          BY <4>1, EmptyList
      <3>4. Words(line[1]) = <<>>
        BY <2>1, WordsOfMarks
      <3>5. Tail(line) = SubSeq(line, 2, Len(line)) /\ IsList(Tail(line))
        <4>1. IsList(SubSeq(line, 2, Len(line)))
          BY <1>0, <3>1, SpanIs
        <4>2. Tail(line) = SubSeq(line, 2, Len(line))
          <5>1. line \in Seq({line[i] : i \in 1 .. Len(line)})
            BY DEF IsList
          <5> QED
            BY <5>1, <3>1
        <4> QED
          BY <4>1, <4>2
      <3>6. Said(Tail(line)) = Said(line)
        <4>1. Said(line) = (<<>> \o <<>>) \o Said(Tail(line))
          BY <3>2, <3>3, <3>4, <3>5, SpanOfAll, SaidNothing
        <4>2. <<>> \o <<>> = <<>>
          BY EmptyIsList, ConcatEmptyLeft
        <4>3. IsList(Said(Tail(line)))
          BY <3>5, SaidIsList
        <4> QED
          BY <4>1, <4>2, <4>3, ConcatEmptyLeft
      <3> QED
        BY <2>1, <3>5, <3>6
    <2>2. CASE ~aimed
      BY <2>2
    <2> QED
      BY <2>1, <2>2
  <1>2. CASE at # <<>>
    <2> DEFINE p == at[1]
    <2>1. p \in 1 .. Len(rest) /\ Slashed(rest[p])
      <3> HIDE DEF rest
      <3> QED
        BY <1>1, <1>2, FirstSlash
    <2>2. d.args = WithoutRefs(left)
      <3>1. ParseDirective(line) = <<Directive(IF aimed THEN line[1][2] ELSE NoTarget, rest[at[1]][2], WithoutRefs(left))>>
        BY <1>2 DEF ParseDirective
      <3> HIDE DEF left, rest, at, aimed
      <3>2. d = Directive(IF aimed THEN line[1][2] ELSE NoTarget, rest[at[1]][2], WithoutRefs(left))
        BY <3>1
      <3> QED
        BY <3>2 DEF Directive
    <2>3. left = SubSeq(rest, 1, p - 1) \o word \o SubSeq(rest, p + 1, Len(rest))
      OBVIOUS
    <2>4. IsList(word) /\ Said(word) = Words(rest[p])
      <3> DEFINE t == rest[p]
      <3>1. Slashed(t) /\ word = Cut(t)
        BY <2>1
      <3>2. IsList(word) /\ Said(word) = Words(t)
        <4> HIDE DEF t, word
        <4> QED
          BY <3>1, CutSays
      <3> QED
        BY <3>2
    <2> HIDE DEF left, word, p, at, rest
    <2> DEFINE x == SubSeq(rest, 1, p - 1)
               z == SubSeq(rest, p + 1, Len(rest))
    <2>5. Len(rest) \in Nat /\ p \in Nat /\ p - 1 \in Nat /\ 1 =< p /\ p =< Len(rest) /\ Len(rest) =< Len(rest)
      BY <1>1, <2>1 DEF IsList
    <2>6. IsList(x)
      <3> DEFINE q == p - 1
      <3>1. q \in Nat /\ 1 =< q + 1 /\ q =< Len(rest)
        BY <2>5
      <3> HIDE DEF q
      <3>2. IsList(SubSeq(rest, 1, q))
        BY <1>1, <3>1, SpanIs
      <3> QED
        BY <3>2 DEF q
    <2>7. IsList(z)
      <3> DEFINE q == p + 1
      <3>1. q \in Nat \ {0} /\ q =< Len(rest) + 1
        BY <2>5
      <3> HIDE DEF q
      <3>2. IsList(SubSeq(rest, q, Len(rest)))
        BY <1>1, <2>5, <3>1, SpanIs
      <3> QED
        BY <3>2 DEF q
    <2>8. Said(rest) = (Said(x) \o Words(rest[p])) \o Said(z)
      <3> DEFINE n == Len(rest)
                 a == 1
      <3>1. a \in Nat \ {0} /\ n \in Nat /\ a =< p /\ p =< n /\ n =< Len(rest) /\ p \in 1 .. Len(rest)
        BY <2>1, <2>5
      <3> HIDE DEF n, a
      <3>2. Said(SubSeq(rest, a, n)) = (Said(SubSeq(rest, a, p - 1)) \o Words(rest[p])) \o Said(SubSeq(rest, p + 1, n))
        BY <1>1, <3>1, SaidAround
      <3>3. SubSeq(rest, a, n) = rest
        BY <1>1, SpanOfAll DEF a, n
      <3> QED
        BY <3>2, <3>3 DEF a, n
    <2>9. left = (x \o word) \o z
      BY <2>3
    <2> HIDE DEF x, z
    <2>10. IsList(x \o word)
      BY <2>4, <2>6, ListsConcatenate
    <2>11. IsList(left)
      BY <2>7, <2>9, <2>10, ListsConcatenate
    <2>12. Said((x \o word) \o z) = Said(x \o word) \o Said(z)
      BY <2>7, <2>10, SaidConcat
    <2>13. Said(x \o word) = Said(x) \o Said(word)
      BY <2>4, <2>6, SaidConcat
    <2>14. Said(left) = Said(rest)
      BY <2>4, <2>8, <2>9, <2>12, <2>13
    <2> QED
      BY <1>1, <2>2, <2>11, <2>14, SaidWithoutRefs
  <1>3. CASE at = <<>>
    <2>1. ParseDirective(line) = IF aimed THEN <<Directive(line[1][2], "", rest)>> ELSE <<>>
      BY <1>3 DEF ParseDirective
    <2> HIDE DEF rest, at, aimed
    <2>2. aimed
      <3>1. <<>> # <<d>>
        BY OneIsList, EmptyIsList
      <3> QED
        BY <2>1, <3>1
    <2>3. d = Directive(line[1][2], "", rest)
      <3> DEFINE e == Directive(line[1][2], "", rest)
      <3>1. <<d>> = <<e>>
        BY <2>1, <2>2
      <3> HIDE DEF e
      <3>2. d = e
        BY <3>1
      <3> QED
        BY <3>2 DEF e
    <2>4. d.args = rest
      BY <2>3 DEF Directive
    <2> QED
      BY <1>1, <2>4
  <1> QED
    BY <1>2, <1>3

\* After several mentions, the directives together say what stands from the first on.
LEMMA MentionsSay ==
    ASSUME NEW line, IsList(line), Expands(line)
    PROVE  FlattenSeq([j \in DOMAIN ParseLine(line) |-> Said(ParseLine(line)[j].args)])
           = Said(SubSeq(line, Positions(line, Mention)[1], Len(line)))
  <1> DEFINE at == Positions(line, Mention)
             n == Len(at)
             L == Len(line)
             upto(m) == IF m < n THEN at[m + 1] - 1 ELSE L
             G == [j \in 1 .. n |-> Said(SubSeq(line, at[j] + 1, upto(j)))]
             F(m) == Firsts(G, m)
             Wrong == {m \in 0 .. n : FlattenSeq(F(m)) # Said(SubSeq(line, at[1], upto(m)))}
  <1>1. /\ IsList(at) /\ n \in Nat /\ n > 1
        /\ \A k \in 1 .. n : at[k] \in 1 .. L /\ Mention(line[at[k]])
        /\ \A k, l \in 1 .. n : k < l => at[k] < at[l]
    <2>1. IsList(at)
      BY MentionsInOrder
    <2>2. \A k \in 1 .. n : at[k] \in 1 .. L /\ Mention(line[at[k]])
      BY MentionsInOrder
    <2>3. \A k, l \in 1 .. n : k < l => at[k] < at[l]
      BY MentionsInOrder
    <2>4. n > 1
      BY DEF Expands
    <2>5. n \in Nat
      BY <2>1 DEF IsList
    <2> QED
      BY <2>1, <2>2, <2>3, <2>4, <2>5
  <1>2. DOMAIN at = 1 .. n /\ L \in Nat
    BY <1>1 DEF IsList
  <1>3. [j \in DOMAIN ParseLine(line) |-> Said(ParseLine(line)[j].args)] = G
    <2>1. ParseLine(line) = [k \in 1 .. n |-> Directive(line[at[k]][2], "", UpToNext(line, at, k))]
      BY <1>2 DEF ParseLine, ExpandInlineChatMentions
    <2>2. \A k \in 1 .. n : UpToNext(line, at, k) = SubSeq(line, at[k] + 1, upto(k))
      BY DEF UpToNext
    <2> HIDE DEF at, n, L, upto
    <2>3. \A k \in 1 .. n : ParseLine(line)[k].args = SubSeq(line, at[k] + 1, upto(k))
      <3> SUFFICES ASSUME NEW k \in 1 .. n PROVE ParseLine(line)[k].args = SubSeq(line, at[k] + 1, upto(k))
        OBVIOUS
      <3>1. ParseLine(line)[k] = Directive(line[at[k]][2], "", UpToNext(line, at, k))
        BY <2>1
      <3> DEFINE x == line[at[k]][2]
                 y == UpToNext(line, at, k)
      <3>2. ParseLine(line)[k] = Directive(x, "", y)
        BY <3>1
      <3> HIDE DEF x, y
      <3>3. Directive(x, "", y).args = y
        BY DEF Directive
      <3>4. ParseLine(line)[k].args = y
        BY <3>2, <3>3
      <3> QED
        BY <2>2, <3>4 DEF y
    <2>4. DOMAIN ParseLine(line) = 1 .. n
      BY <2>1
    <2> QED
      BY <2>3, <2>4
  <1> HIDE DEF at, n, L
  <1>4. ASSUME NEW m \in 0 .. n PROVE upto(m) \in Nat /\ upto(m) =< L /\ upto(m) =< Len(line)
    <2>1. CASE m < n
      <3>1. m + 1 \in 1 .. n
        BY <1>1, <2>1
      <3>2. at[m + 1] \in 1 .. L
        BY <1>1, <3>1
      <3> QED
        BY <1>2, <2>1, <3>2 DEF L
    <2>2. CASE ~(m < n)
      BY <1>2, <2>2 DEF L
    <2> QED
      BY <2>1, <2>2
  <1>5. ASSUME NEW m \in 1 .. n
        PROVE  /\ at[1] \in Nat \ {0} /\ at[m] \in 1 .. L /\ at[1] =< at[m] /\ at[m] =< upto(m)
               /\ upto(m - 1) = at[m] - 1 /\ Words(line[at[m]]) = <<>>
    <2>1. at[1] \in 1 .. L /\ at[m] \in 1 .. L /\ Mention(line[at[m]])
      BY <1>1
    <2>2. at[1] =< at[m]
      <3>1. CASE m = 1
        BY <2>1, <3>1
      <3>2. CASE m # 1
        <4>1. 1 \in 1 .. n /\ 1 < m
          BY <1>1, <3>2
        <4>2. at[1] < at[m]
          BY <1>1, <4>1
        <4> QED
          BY <2>1, <4>2
      <3> QED
        BY <3>1, <3>2
    <2>3. at[m] =< upto(m)
      <3>1. CASE m < n
        <4>1. m + 1 \in 1 .. n /\ m < m + 1
          BY <1>1, <3>1
        <4>2. at[m] < at[m + 1] /\ at[m + 1] \in 1 .. L
          BY <1>1, <4>1
        <4> QED
          BY <2>1, <3>1, <4>2
      <3>2. CASE ~(m < n)
        BY <1>2, <2>1, <3>2
      <3> QED
        BY <3>1, <3>2
    <2>4. upto(m - 1) = at[m] - 1
      <3>1. m - 1 < n /\ (m - 1) + 1 = m
        BY <1>1
      <3> QED
        BY <3>1
    <2>5. Words(line[at[m]]) = <<>>
      BY <2>1, WordsOfMarks DEF Mention
    <2> QED
      BY <2>1, <2>2, <2>3, <2>4, <2>5
  <1>6. IsList(G) /\ Len(G) = n /\ \A k \in 1 .. n : IsList(G[k])
    <2>1. DOMAIN G = 1 .. n /\ G = [j \in 1 .. n |-> G[j]]
      OBVIOUS
    <2>2. ASSUME NEW k \in 1 .. n PROVE IsList(G[k])
      <3> DEFINE a == at[k] + 1
                 b == upto(k)
      <3>1. a \in Nat \ {0} /\ b \in Nat /\ a =< b + 1 /\ b =< Len(line)
        <4>1. k \in 0 .. n
          BY <1>1
        <4>2. at[k] \in 1 .. L /\ at[k] =< upto(k)
          BY <1>5
        <4> QED
          BY <1>4, <4>1, <4>2
      <3>2. G[k] = Said(SubSeq(line, a, b))
        OBVIOUS
      <3> HIDE DEF a, b, G
      <3>3. IsList(SubSeq(line, a, b))
        BY <3>1, SpanIs
      <3> QED
        BY <3>2, <3>3, SaidIsList
    <2> HIDE DEF G
    <2> QED
      BY <1>1, <2>1, <2>2, ListOfLength
  <1>7. \A m \in 1 .. n : G[m] = Said(SubSeq(line, at[m] + 1, upto(m)))
    OBVIOUS
  <1> HIDE DEF G
  <1>8. Wrong = {}
    <2> SUFFICES ASSUME Wrong # {} PROVE FALSE
      OBVIOUS
    <2>1. Wrong \subseteq Nat
      BY <1>1
    <2>2. PICK m \in Wrong : \A k \in Wrong : ~(k < m)
      <3> HIDE DEF Wrong
      <3> QED
        BY <2>1, LeastNumber
    <2>3. m \in 0 .. n /\ m \in Nat /\ FlattenSeq(F(m)) # Said(SubSeq(line, at[1], upto(m)))
      BY <2>2, <1>1
    <2>4. CASE m = 0
      <3>1. F(0) = <<>>
        BY FirstsIsList, EmptyList
      <3>2. upto(0) = at[1] - 1
        <4>1. 1 \in 1 .. n
          BY <1>1
        <4>2. upto(1 - 1) = at[1] - 1
          BY <1>5, <4>1
        <4> QED
          BY <1>1
      <3>3. SubSeq(line, at[1], upto(0)) = <<>>
        <4> DEFINE a == at[1]
                   b == at[1] - 1
        <4>1. a \in Nat \ {0} /\ b \in Nat /\ a =< b + 1 /\ b =< Len(line) /\ b - a + 1 = 0
          <5>1. at[1] \in 1 .. L /\ L = Len(line) /\ L \in Nat
            BY <1>1, <1>2 DEF L
          <5> QED
            BY <5>1
        <4> HIDE DEF a, b
        <4>2. IsList(SubSeq(line, a, b)) /\ Len(SubSeq(line, a, b)) = 0
          BY <4>1, SpanIs
        <4>3. SubSeq(line, a, b) = <<>>
          BY <4>2, EmptyList
        <4> QED
          BY <3>2, <4>3 DEF a, b
      <3> QED
        BY <2>3, <2>4, <3>1, <3>3, FlattenEmpty, SaidNothing
    <2>5. CASE m # 0
      <3>1. m \in 1 .. n /\ m - 1 \in 0 .. n /\ m - 1 < m
        BY <2>3, <2>5, <1>1
      <3>2. FlattenSeq(F(m - 1)) = Said(SubSeq(line, at[1], upto(m - 1)))
        BY <2>2, <3>1
      <3>3. FlattenSeq(F(m)) = FlattenSeq(F(m - 1)) \o G[m]
        BY <1>6, <3>1, FlattenFirsts
      <3> DEFINE a == at[1]
                 p == at[m]
                 u == upto(m)
      <3>4. /\ a \in Nat \ {0} /\ p \in 1 .. Len(line) /\ u \in Nat /\ a =< p /\ p =< u /\ u =< Len(line)
            /\ upto(m - 1) = p - 1 /\ Words(line[p]) = <<>>
        BY <1>4, <1>5, <2>3, <3>1 DEF L
      <3>5. G[m] = Said(SubSeq(line, p + 1, u))
        BY <1>7, <3>1
      <3>6. FlattenSeq(F(m - 1)) = Said(SubSeq(line, a, p - 1))
        BY <3>2, <3>4
      <3>7. FlattenSeq(F(m)) # Said(SubSeq(line, a, u))
        BY <2>3
      <3> HIDE DEF a, p, u, upto, F
      <3>8. Said(SubSeq(line, a, u)) = (Said(SubSeq(line, a, p - 1)) \o Words(line[p])) \o Said(SubSeq(line, p + 1, u))
        BY <3>4, SaidAround
      <3>9. Said(SubSeq(line, a, p - 1)) \o <<>> = Said(SubSeq(line, a, p - 1))
        <4> DEFINE q == p - 1
        <4>1. q \in Nat /\ a =< q + 1 /\ q =< Len(line)
          BY <3>4
        <4> HIDE DEF q
        <4>2. IsList(SubSeq(line, a, q))
          BY <3>4, <4>1, SpanIs
        <4>3. Said(SubSeq(line, a, q)) \o <<>> = Said(SubSeq(line, a, q))
          BY <4>2, SaidIsList, ConcatEmptyRight
        <4> QED
          BY <4>3 DEF q
      <3> QED
        BY <3>3, <3>4, <3>5, <3>6, <3>7, <3>8, <3>9
    <2> QED
      BY <2>4, <2>5
  <1>9. n \in 0 .. n /\ upto(n) = L
    BY <1>1
  <1>10. FlattenSeq(F(n)) = Said(SubSeq(line, at[1], upto(n)))
    BY <1>8, <1>9
  <1>11. F(n) = G
    BY <1>6, FirstsOfAll
  <1>12. FlattenSeq(G) = Said(SubSeq(line, at[1], L))
    BY <1>9, <1>10, <1>11
  <1> QED
    BY <1>3, <1>12 DEF at, L

LEMMA LineKept ==
    ASSUME NEW line, IsList(line), ParseLine(line) # <<>>
    PROVE  FlattenSeq([j \in DOMAIN ParseLine(line) |-> Said(ParseLine(line)[j].args)])
           = Said(SubSeq(line, IF Expands(line) THEN Positions(line, Mention)[1] ELSE 1, Len(line)))
  <1>1. CASE Expands(line)
    BY <1>1, MentionsSay
  <1>2. CASE ~Expands(line)
    <2>1. ParseLine(line) = ParseDirective(line)
      BY <1>2 DEF ParseLine
    <2>2. PICK d : ParseDirective(line) = <<d>>
      <3>1. ParseDirective(line) = <<>> \/ \E d : ParseDirective(line) = <<d>>
        BY DEF ParseDirective
      <3> QED
        BY <2>1, <3>1
    <2> DEFINE s == <<d>>
               f == [j \in DOMAIN s |-> Said(s[j].args)]
               g == <<Said(line)>>
    <2>3. DOMAIN s = 1 .. 1 /\ s[1] = d
      OBVIOUS
    <2>4. Said(d.args) = Said(line)
      BY <2>2, ParseSays
    <2>5. IsList(g) /\ Len(g) = 1 /\ g[1] = Said(line)
      BY OneIsList
    <2> HIDE DEF s, g
    <2>6. DOMAIN f = 1 .. 1 /\ f = [j \in 1 .. 1 |-> f[j]] /\ f[1] = Said(line)
      BY <2>3, <2>4
    <2> HIDE DEF f
    <2>7. IsList(f) /\ Len(f) = 1
      BY <2>6, ListOfLength
    <2>8. f = g
      BY <2>5, <2>6, <2>7, ListsEqual
    <2>9. FlattenSeq(f) = Said(line)
      BY <2>8, FlattenOne DEF g
    <2>10. SubSeq(line, 1, Len(line)) = line
      BY SpanOfAll
    <2>11. ParseLine(line) = s
      BY <2>1, <2>2 DEF s
    <2> QED
      BY <1>2, <2>9, <2>10, <2>11 DEF f
  <1> QED
    BY <1>1, <1>2

-----------------------------------------------------------------------------
(* Messages: what the arguments are made of                                *)

\* An argument is a word of the line or what parsing has cut out of one.
Made(t, line, cmd) == (\E x \in 1 .. Len(line) : t = line[x]) \/ t = <<"stem", cmd>> \/ t[1] \in {"ref", "part"}
AllMade(s, line, cmd) == IsList(s) /\ \A i \in 1 .. Len(s) : Made(s[i], line, cmd)

LEMMA MadeConcat ==
    ASSUME NEW s, NEW t, NEW line, NEW cmd, AllMade(s, line, cmd), AllMade(t, line, cmd)
    PROVE  AllMade(s \o t, line, cmd)
  <1>1. IsList(s) /\ IsList(t)
    BY DEF AllMade
  <1>2. Len(s \o t) = Len(s) + Len(t) /\ Len(s) \in Nat /\ Len(t) \in Nat
    BY <1>1, ConcatLists DEF IsList
  <1>3. ASSUME NEW i \in 1 .. Len(s \o t) PROVE Made((s \o t)[i], line, cmd)
    <2>1. CASE i \in 1 .. Len(s)
      <3>1. (s \o t)[i] = s[i]
        BY <1>1, <2>1, ConcatLists
      <3> QED
        BY <2>1, <3>1 DEF AllMade
    <2>2. CASE i \notin 1 .. Len(s)
      <3> DEFINE k == i - Len(s)
      <3>1. k \in 1 .. Len(t) /\ Len(s) + k = i
        BY <1>2, <2>2
      <3> HIDE DEF k
      <3>2. (s \o t)[Len(s) + k] = t[k]
        BY <1>1, <3>1, ConcatLists
      <3> QED
        BY <3>1, <3>2 DEF AllMade
    <2> QED
      BY <2>1, <2>2
  <1>4. IsList(s \o t)
    BY <1>1, ListsConcatenate
  <1> QED
    BY <1>3, <1>4 DEF AllMade

LEMMA MadeSpan ==
    ASSUME NEW s, NEW line, NEW cmd, AllMade(s, line, cmd), NEW a \in Nat \ {0}, NEW b \in Nat, a =< b + 1, b =< Len(s)
    PROVE  AllMade(SubSeq(s, a, b), line, cmd)
  <1>1. IsList(s) /\ Len(s) \in Nat
    BY DEF AllMade, IsList
  <1> DEFINE u == SubSeq(s, a, b)
  <1>2. IsList(u) /\ Len(u) = b - a + 1
    BY <1>1, SpanIs
  <1>3. \A i \in 1 .. b - a + 1 : u[i] = s[a + i - 1]
    BY <1>1, SpanIs
  <1> HIDE DEF u
  <1>4. \A i \in 1 .. Len(u) : i \in 1 .. b - a + 1 /\ a + i - 1 \in 1 .. Len(s)
    BY <1>1, <1>2
  <1>5. \A i \in 1 .. Len(u) : Made(u[i], line, cmd)
    BY <1>3, <1>4 DEF AllMade
  <1>6. AllMade(u, line, cmd)
    BY <1>2, <1>5 DEF AllMade
  <1> QED
    BY <1>6 DEF u

LEMMA MadeOfLine ==
    ASSUME NEW line, IsList(line), NEW cmd
    PROVE  AllMade(line, line, cmd)
  BY DEF AllMade, Made

LEMMA MadeOfOne ==
    ASSUME NEW t, NEW line, NEW cmd, Made(t, line, cmd)
    PROVE  AllMade(<<t>>, line, cmd)
  <1> DEFINE s == <<t>>
  <1>1. IsList(s) /\ Len(s) = 1 /\ s[1] = t
    BY OneIsList
  <1> HIDE DEF s
  <1>2. \A i \in 1 .. Len(s) : s[i] = t
    BY <1>1
  <1>3. AllMade(s, line, cmd)
    BY <1>1, <1>2 DEF AllMade
  <1> QED
    BY <1>3 DEF s

LEMMA MadeOfNothing ==
    ASSUME NEW line, NEW cmd
    PROVE  AllMade(<<>>, line, cmd)
  <1> DEFINE s == <<>>
  <1>1. IsList(s) /\ Len(s) = 0
    BY EmptyIsList
  <1> HIDE DEF s
  <1>2. AllMade(s, line, cmd)
    BY <1>1 DEF AllMade
  <1> QED
    BY <1>2 DEF s

LEMMA MadeWithoutRef ==
    ASSUME NEW t, NEW line, NEW cmd, Made(t, line, cmd)
    PROVE  AllMade(WithoutRef(t), line, cmd)
  <1>1. CASE t[1] \in {"ref", "file"}
    <2>1. WithoutRef(t) = <<>>
      BY <1>1 DEF WithoutRef
    <2> QED
      BY <2>1, MadeOfNothing
  <1>2. CASE t[1] = "mail"
    <2> DEFINE p == <<"part", t[2]>>
    <2>1. WithoutRef(t) = <<p>>
      BY <1>2 DEF WithoutRef
    <2>2. Made(p, line, cmd)
      BY DEF Made
    <2> HIDE DEF p
    <2> QED
      BY <2>1, <2>2, MadeOfOne
  <1>3. CASE t[1] \notin {"ref", "file", "mail"}
    <2>1. WithoutRef(t) = <<t>>
      BY <1>3 DEF WithoutRef
    <2> QED
      BY <2>1, MadeOfOne
  <1> QED
    BY <1>1, <1>2, <1>3

LEMMA MadeCut ==
    ASSUME NEW t, NEW line, Slashed(t)
    PROVE  AllMade(Cut(t), line, t[2])
  <1>1. CASE t[1] = "path"
    <2> DEFINE p == <<"stem", t[2]>>
    <2>1. Cut(t) = <<p>>
      BY <1>1 DEF Cut
    <2>2. Made(p, line, t[2])
      BY DEF Made
    <2> HIDE DEF p
    <2> QED
      BY <2>1, <2>2, MadeOfOne
  <1>2. CASE t[1] = "file"
    <2> DEFINE p == <<"ref", t[2]>>
    <2>1. Cut(t) = <<p>>
      BY <1>2 DEF Cut
    <2>2. Made(p, line, t[2])
      BY DEF Made
    <2> HIDE DEF p
    <2> QED
      BY <2>1, <2>2, MadeOfOne
  <1>3. CASE t[1] = "cmd"
    <2>1. Cut(t) = <<>>
      BY <1>3 DEF Cut
    <2> QED
      BY <2>1, MadeOfNothing
  <1> QED
    BY <1>1, <1>2, <1>3 DEF Slashed

LEMMA MadeWithoutRefs ==
    ASSUME NEW s, NEW line, NEW cmd, AllMade(s, line, cmd)
    PROVE  AllMade(WithoutRefs(s), line, cmd)
  <1> DEFINE r == RefsOf(s)
             R(m) == FlattenSeq(Firsts(r, m))
             Wrong == {m \in 0 .. Len(s) : ~AllMade(R(m), line, cmd)}
  <1>0. IsList(s) /\ Len(s) \in Nat
    BY DEF AllMade, IsList
  <1>1. IsList(r) /\ Len(r) = Len(s) /\ \A i \in 1 .. Len(s) : r[i] = WithoutRef(s[i]) /\ IsList(r[i])
    BY <1>0, RefsOfIsList
  <1>2. WithoutRefs(s) = FlattenSeq(r)
    BY DEF WithoutRefs, RefsOf
  <1> HIDE DEF r
  <1>3. Wrong = {}
    <2> SUFFICES ASSUME Wrong # {} PROVE FALSE
      OBVIOUS
    <2>1. Wrong \subseteq Nat
      BY <1>0
    <2>2. PICK m \in Wrong : \A k \in Wrong : ~(k < m)
      <3> HIDE DEF Wrong
      <3> QED
        BY <2>1, LeastNumber
    <2>3. m \in 0 .. Len(s) /\ m \in Nat /\ ~AllMade(R(m), line, cmd)
      BY <2>2, <1>0
    <2>4. CASE m = 0
      <3>1. Firsts(r, 0) = <<>>
        BY FirstsIsList, EmptyList
      <3> QED
        BY <2>3, <2>4, <3>1, FlattenEmpty, MadeOfNothing
    <2>5. CASE m # 0
      <3>1. m \in 1 .. Len(s) /\ m - 1 \in 0 .. Len(s) /\ m - 1 < m /\ m - 1 \in Nat
        BY <2>3, <2>5, <1>0
      <3>2. AllMade(R(m - 1), line, cmd)
        BY <2>2, <3>1
      <3>3. R(m) = R(m - 1) \o r[m]
        BY <3>1, <1>1, FlattenFirsts
      <3>4. AllMade(r[m], line, cmd)
        BY <3>1, <1>1, MadeWithoutRef DEF AllMade
      <3> HIDE DEF R
      <3> QED
        BY <2>3, <3>2, <3>3, <3>4, MadeConcat
    <2> QED
      BY <2>4, <2>5
  <1>4. AllMade(R(Len(s)), line, cmd)
    BY <1>0, <1>3
  <1> QED
    BY <1>1, <1>2, <1>4, FirstsOfAll

LEMMA RestMade ==
    ASSUME NEW line, IsList(line), NEW cmd, Len(line) > 0
    PROVE  AllMade(Tail(line), line, cmd)
  <1>1. Len(line) \in Nat /\ line \in Seq({line[i] : i \in 1 .. Len(line)})
    BY DEF IsList
  <1>2. Tail(line) = SubSeq(line, 2, Len(line))
    BY <1>1
  <1> DEFINE a == 2
  <1>3. a \in Nat \ {0} /\ a =< Len(line) + 1
    BY <1>1
  <1> HIDE DEF a
  <1>4. AllMade(SubSeq(line, a, Len(line)), line, cmd)
    BY <1>1, <1>3, MadeOfLine, MadeSpan
  <1> QED
    BY <1>2, <1>4 DEF a

\* What parse_directive gives: without a slash, words of the line.
LEMMA DirectiveMade ==
    ASSUME NEW line, IsList(line), NEW d, ParseDirective(line) = <<d>>
    PROVE  /\ AllMade(d.args, line, d.cmd)
           /\ \/ \E x \in 1 .. Len(line) : Slashed(line[x])
              \/ \A i \in 1 .. Len(d.args) : \E x \in 1 .. Len(line) : d.args[i] = line[x]
  <1> DEFINE aimed == Len(line) > 0 /\ line[1][1] \in {"at", "ref"}
             rest == IF aimed THEN Tail(line) ELSE line
             at == Positions(rest, Slashed)
             p == at[1]
             cmd == rest[p][2]
             left == SubSeq(rest, 1, p - 1) \o Cut(rest[p]) \o SubSeq(rest, p + 1, Len(rest))
  <1>1. \A c : AllMade(rest, line, c)
    BY RestMade, MadeOfLine
  <1>2. \A i \in 1 .. Len(rest) : \E x \in 1 .. Len(line) : rest[i] = line[x]
    <2>1. CASE aimed
      <3>1. Len(line) \in Nat /\ line \in Seq({line[i] : i \in 1 .. Len(line)}) /\ Len(line) > 0
        BY <2>1 DEF IsList
      <3>2. Len(Tail(line)) = Len(line) - 1 /\ \A i \in 1 .. Len(line) - 1 : Tail(line)[i] = line[i + 1]
        BY <3>1
      <3>3. \A i \in 1 .. Len(line) - 1 : i + 1 \in 1 .. Len(line)
        BY <3>1
      <3> QED
        BY <2>1, <3>2, <3>3
    <2>2. CASE ~aimed
      BY <2>2
    <2> QED
      BY <2>1, <2>2
  <1>3. CASE at # <<>>
    <2>0. IsList(rest)
      BY <1>1 DEF AllMade
    <2>1. p \in 1 .. Len(rest) /\ Slashed(rest[p])
      <3> HIDE DEF rest
      <3> QED
        BY <1>3, <2>0, FirstSlash
    <2>2. d.args = WithoutRefs(left) /\ d.cmd = cmd
      <3>1. ParseDirective(line) = <<Directive(IF aimed THEN line[1][2] ELSE NoTarget, cmd, WithoutRefs(left))>>
        BY <1>3 DEF ParseDirective
      <3> HIDE DEF left, rest, at, aimed, cmd
      <3>2. d = Directive(IF aimed THEN line[1][2] ELSE NoTarget, cmd, WithoutRefs(left))
        BY <3>1
      <3> QED
        BY <3>2 DEF Directive
    <2>3. left = SubSeq(rest, 1, p - 1) \o Cut(rest[p]) \o SubSeq(rest, p + 1, Len(rest)) /\ cmd = rest[p][2]
      OBVIOUS
    <2>4. \E x \in 1 .. Len(line) : Slashed(line[x])
      <3> HIDE DEF p, rest
      <3> QED
        BY <1>2, <2>1
    <2> HIDE DEF left, p, at, rest, cmd
    <2> DEFINE x == SubSeq(rest, 1, p - 1)
               z == SubSeq(rest, p + 1, Len(rest))
               y == Cut(rest[p])
    <2>5. Len(rest) \in Nat /\ p \in Nat /\ p - 1 \in Nat /\ 1 =< p /\ p =< Len(rest)
      BY <2>0, <2>1 DEF IsList
    <2>6. AllMade(x, line, cmd)
      <3> DEFINE q == p - 1
      <3>1. q \in Nat /\ 1 =< q + 1 /\ q =< Len(rest)
        BY <2>5
      <3> HIDE DEF q
      <3>2. AllMade(SubSeq(rest, 1, q), line, cmd)
        BY <1>1, <3>1, MadeSpan
      <3> QED
        BY <3>2 DEF q
    <2>7. AllMade(z, line, cmd)
      <3> DEFINE q == p + 1
      <3>1. q \in Nat \ {0} /\ q =< Len(rest) + 1
        BY <2>5
      <3> HIDE DEF q
      <3>2. AllMade(SubSeq(rest, q, Len(rest)), line, cmd)
        BY <1>1, <2>5, <3>1, MadeSpan
      <3> QED
        BY <3>2 DEF q
    <2>8. AllMade(y, line, cmd)
      BY <2>1, <2>3, MadeCut
    <2>9. left = (x \o y) \o z
      BY <2>3
    <2> HIDE DEF x, y, z
    <2>10. AllMade(x \o y, line, cmd)
      BY <2>6, <2>8, MadeConcat
    <2>11. AllMade(left, line, cmd)
      BY <2>7, <2>9, <2>10, MadeConcat
    <2> QED
      BY <2>2, <2>4, <2>11, MadeWithoutRefs
  <1>4. CASE at = <<>>
    <2>1. ParseDirective(line) = IF aimed THEN <<Directive(line[1][2], "", rest)>> ELSE <<>>
      BY <1>4 DEF ParseDirective
    <2> HIDE DEF rest, at, aimed
    <2>2. aimed
      <3>1. <<>> # <<d>>
        BY OneIsList, EmptyIsList
      <3> QED
        BY <2>1, <3>1
    <2>3. d = Directive(line[1][2], "", rest)
      <3> DEFINE e == Directive(line[1][2], "", rest)
      <3>1. <<d>> = <<e>>
        BY <2>1, <2>2
      <3> HIDE DEF e
      <3>2. d = e
        BY <3>1
      <3> QED
        BY <3>2 DEF e
    <2>4. d.args = rest
      BY <2>3 DEF Directive
    <2> QED
      BY <1>1, <1>2, <2>4
  <1> QED
    BY <1>3, <1>4

Unmarked(line) == \A x \in 1 .. Len(line) : line[x][1] \notin {"stem", "part"}

\* What the arguments of a directive of a line are, whichever way the line is parsed.
CutKept(line, d) ==
    \A i \in DOMAIN d.args :
       /\ d.args[i][1] \in {"stem", "part"} => \E x \in DOMAIN line : Slashed(line[x])
       /\ d.args[i][1] = "stem" => d.args[i][2] = d.cmd

LEMMA CutsKept ==
    ASSUME NEW line, IsList(line), Unmarked(line), NEW j \in DOMAIN ParseLine(line)
    PROVE  CutKept(line, ParseLine(line)[j])
  <1>0. Len(line) \in Nat /\ DOMAIN line = 1 .. Len(line)
    BY DEF IsList
  <1>1. CASE Expands(line)
    <2> DEFINE at == Positions(line, Mention)
               k == j
               b == IF k < Len(at) THEN at[k + 1] - 1 ELSE Len(line)
               d == ParseLine(line)[j]
    <2>1. IsList(at)
      BY MentionsInOrder
    <2>2. DOMAIN at = 1 .. Len(at) /\ Len(at) \in Nat
      BY <2>1 DEF IsList
    <2>3. ParseLine(line) = [l \in 1 .. Len(at) |-> Directive(line[at[l]][2], "", UpToNext(line, at, l))]
      BY <1>1, <2>2 DEF ParseLine, ExpandInlineChatMentions
    <2>4. k \in 1 .. Len(at)
      BY <2>3
    <2>5. \A l \in 1 .. Len(at) : at[l] \in 1 .. Len(line)
      BY MentionsInOrder
    <2>6. \A l, m \in 1 .. Len(at) : l < m => at[l] < at[m]
      BY MentionsInOrder
    <2>7. d.args = SubSeq(line, at[k] + 1, b)
      <3>1. d = Directive(line[at[k]][2], "", UpToNext(line, at, k))
        BY <2>3, <2>4
      <3> DEFINE x == line[at[k]][2]
                 y == UpToNext(line, at, k)
      <3>2. d = Directive(x, "", y)
        BY <3>1
      <3>3. y = SubSeq(line, at[k] + 1, b)
        BY DEF UpToNext
      <3> HIDE DEF x, y, d, b, at
      <3> QED
        BY <3>2, <3>3 DEF Directive
    <2> HIDE DEF at, d
    <2>8. at[k] \in 1 .. Len(line) /\ at[k] + 1 \in Nat \ {0}
      BY <2>4, <2>5
    <2>9. b \in Nat /\ b =< Len(line) /\ at[k] + 1 =< b + 1
      <3>1. CASE k < Len(at)
        <4>1. k + 1 \in 1 .. Len(at) /\ k < k + 1
          BY <2>2, <2>4, <3>1
        <4>2. at[k + 1] \in 1 .. Len(line) /\ at[k] < at[k + 1]
          BY <2>4, <2>5, <2>6, <4>1
        <4> QED
          BY <1>0, <2>8, <3>1, <4>2
      <3>2. CASE ~(k < Len(at))
        BY <1>0, <2>8, <3>2
      <3> QED
        BY <3>1, <3>2
    <2> DEFINE a == at[k] + 1
    <2>10. a \in Nat \ {0} /\ a =< b + 1 /\ d.args = SubSeq(line, a, b)
      BY <2>7, <2>8, <2>9
    <2> HIDE DEF a, b
    <2>11. IsList(d.args) /\ Len(d.args) = b - a + 1
      BY <2>9, <2>10, SpanIs
    <2>12. \A i \in 1 .. b - a + 1 : d.args[i] = line[a + i - 1]
      BY <2>9, <2>10, SpanIs
    <2>13. \A i \in 1 .. b - a + 1 : a + i - 1 \in 1 .. Len(line)
      BY <1>0, <2>9, <2>10
    <2>14. \A i \in DOMAIN d.args : i \in 1 .. b - a + 1
      BY <2>11 DEF IsList
    <2>15. CutKept(line, d)
      BY <2>12, <2>13, <2>14 DEF CutKept, Unmarked
    <2> QED
      BY <2>15 DEF d
  <1>2. CASE ~Expands(line)
    <2>1. ParseLine(line) = ParseDirective(line)
      BY <1>2 DEF ParseLine
    <2>2. ParseLine(line) # <<>>
      BY EmptyIsList DEF IsList
    <2>3. PICK d : ParseDirective(line) = <<d>>
      <3>1. ParseDirective(line) = <<>> \/ \E d : ParseDirective(line) = <<d>>
        BY DEF ParseDirective
      <3> QED
        BY <2>1, <2>2, <3>1
    <2>4. ParseLine(line)[j] = d
      <3> DEFINE s == <<d>>
      <3>1. DOMAIN s = {1} /\ s[1] = d
        OBVIOUS
      <3>2. ParseLine(line) = s
        BY <2>1, <2>3
      <3> HIDE DEF s
      <3> QED
        BY <3>1, <3>2
    <2>5. AllMade(d.args, line, d.cmd)
      BY <2>3, DirectiveMade
    <2>6. \/ \E x \in 1 .. Len(line) : Slashed(line[x])
          \/ \A i \in 1 .. Len(d.args) : \E x \in 1 .. Len(line) : d.args[i] = line[x]
      BY <2>3, DirectiveMade
    <2>7. ASSUME NEW i \in DOMAIN d.args
          PROVE  /\ d.args[i][1] \in {"stem", "part"} => \E x \in DOMAIN line : Slashed(line[x])
                 /\ d.args[i][1] = "stem" => d.args[i][2] = d.cmd
      <3>1. i \in 1 .. Len(d.args)
        BY <2>5 DEF AllMade, IsList
      <3>2. Made(d.args[i], line, d.cmd)
        BY <2>5, <3>1 DEF AllMade
      <3> DEFINE t == d.args[i]
      <3>3. (\E x \in 1 .. Len(line) : t = line[x]) \/ t = <<"stem", d.cmd>> \/ t[1] \in {"ref", "part"}
        BY <3>2 DEF Made
      <3>4. t[1] \in {"stem", "part"} => \E x \in 1 .. Len(line) : Slashed(line[x])
        BY <2>6, <3>1 DEF Unmarked
      <3> HIDE DEF t
      <3>5. t[1] = "stem" => t[2] = d.cmd
        BY <3>3 DEF Unmarked
      <3> QED
        BY <1>0, <3>4, <3>5 DEF t
    <2> QED
      BY <2>4, <2>7 DEF CutKept
  <1> QED
    BY <1>1, <1>2

-----------------------------------------------------------------------------
(* Messages: what their routing keeps                                      *)

Routed == pending \cup committed
MessageDirs == {ParseTurn(text) : text \in Texts} \cup {<<>>}

Messages ==
    [phase : {"none", "route", "deliver", "failed", "done"}, text : Texts \cup {<<>>},
     dirs : MessageDirs, next : Nat, found : Agents \cup {NoTarget}, moved : BOOLEAN]
Entries(K) == [kind : {"control", "distilled", "turn", "inject", "mention", "cerebellum"}, to : Agents, dir : K]

MessageTypes ==
    /\ DOMAIN agent = Agents
    /\ msg \in Messages
    /\ msg.next \in 1 .. Len(msg.dirs) + 1
    /\ shifts \in 0 .. MaxShifts
    /\ Routed \cup handed \subseteq Entries(1 .. msg.next - 1)

\* Nothing is there before the message and nothing is committed before its end.
OneTransaction ==
    /\ msg.phase = "none" => Routed \cup handed = {} /\ msg.next = 1
    /\ msg.phase # "done" => committed = {}
    /\ msg.phase = "done" => pending = {} /\ msg.next > Len(msg.dirs)

\* Between the look-ups: a chat directive, and either nobody or an entity that still
\* answers to it unless the workspace changed.
FoundAnswers ==
    /\ msg.phase \in {"none", "route"} => msg.found = NoTarget
    /\ msg.phase = "deliver" =>
       /\ msg.next =< Len(msg.dirs)
       /\ Current.cmd \notin ControlCommands \cup LearningCommands
       /\ \/ msg.found = NoTarget /\ (~msg.moved => Named(Current.target) = {})
          \/ msg.found \in Agents /\ (~msg.moved => msg.found \in Named(Current.target) /\ agent[msg.found].active)

Reached(k) == {a \in Named(msg.dirs[k].target) : agent[a].active /\ agent[a].seated /\ agent[a].linked}
Chat(k) == msg.dirs[k].cmd \notin ControlCommands \cup LearningCommands
Unambiguous(k) == \A a, b \in Named(msg.dirs[k].target) : a = b

Turn(a, k) == [kind |-> "turn", to |-> a, dir |-> k]
Inject(a, k) == [kind |-> "inject", to |-> a, dir |-> k]

\* The directives that are through while nothing changed
ThroughIsDelivered ==
    msg.phase # "failed" /\ ~msg.moved =>
       \A k \in 1 .. msg.next - 1 : Chat(k) /\ Unambiguous(k) =>
          \A a \in Agents : Turn(a, k) \in Routed <=> a \in Reached(k)

TurnsWithInjects == \A a \in Agents, k \in DOMAIN msg.dirs : Turn(a, k) \in Routed <=> Inject(a, k) \in Routed

MessageInv ==
    MessageTypes /\ OneTransaction /\ FoundAnswers /\ ThroughIsDelivered /\ TurnsWithInjects /\ MentionWakesReceiver

LEMMA DirsAreLists ==
    ASSUME MessageTypes
    PROVE  Len(msg.dirs) \in Nat /\ DOMAIN msg.dirs = 1 .. Len(msg.dirs)
  <1>1. IsList(<<>>)
    <2>1. <<>> \in Seq({})
      OBVIOUS
    <2> QED
      BY <2>1, SeqIsList
  <1>2. msg.dirs \in MessageDirs
    BY DEF MessageTypes, Messages
  <1>3. IsList(msg.dirs)
    BY <1>1, <1>2, MessageParsesToList DEF MessageDirs
  <1> QED
    BY <1>3 DEF IsList

\* The routing of one directive: D is what it writes.
LEMMA DirectiveRouted ==
    ASSUME MessageInv, msg.phase \in {"route", "deliver"}, msg.next =< Len(msg.dirs),
           msg' = Advance, UNCHANGED <<agent, committed, shifts>>,
           NEW D, D \subseteq Entries({msg.next}),
           pending' = pending \cup D, handed' \subseteq handed \cup D,
           ~msg.moved /\ Chat(msg.next) /\ Unambiguous(msg.next) =>
              \A a \in Agents : Turn(a, msg.next) \in D <=> a \in Reached(msg.next),
           \A a \in Agents : Turn(a, msg.next) \in D <=> Inject(a, msg.next) \in D,
           ~msg.moved => \A x, y \in D : x.kind = "turn" /\ y.kind = "mention" => x.to = y.to
    PROVE  MessageInv'
  <1>1. Len(msg.dirs) \in Nat /\ DOMAIN msg.dirs = 1 .. Len(msg.dirs)
    BY DirsAreLists DEF MessageInv
  <1>2. /\ msg \in Messages
        /\ msg.next \in 1 .. Len(msg.dirs)
    BY <1>1 DEF MessageInv, MessageTypes, Messages
  <1>3. /\ msg' \in Messages
        /\ msg'.phase = "route" /\ msg'.next = msg.next + 1 /\ msg'.dirs = msg.dirs /\ msg'.moved = msg.moved
        /\ msg'.found = NoTarget
    <2>1. /\ Advance.phase = "route" /\ Advance.next = msg.next + 1 /\ Advance.dirs = msg.dirs
          /\ Advance.moved = msg.moved /\ Advance.text = msg.text /\ Advance.found = NoTarget
      BY <1>2 DEF Advance
    <2>0. msg.next + 1 \in Nat
      BY <1>2
    <2>2. Advance \in Messages
      BY <1>2, <2>0, Zenon DEF Messages, Advance
    <2> QED
      BY <2>1, <2>2
  <1>4. Routed' = Routed \cup D
    BY DEF Routed
  <1>5. \A x \in Routed \cup handed : x \in Entries(1 .. msg.next - 1)
    BY DEF MessageInv, MessageTypes, Messages, Entries
  <1>6. \A x \in Routed \cup handed : x.dir \in 1 .. msg.next - 1
    BY <1>5 DEF Entries
  <1>7. \A x \in D : x.dir = msg.next
    BY DEF Entries
  <1>8. MessageTypes'
    <2>1. Routed' \cup handed' \subseteq Entries(1 .. msg'.next - 1)
      <3>1. \A x \in Entries(1 .. msg.next - 1) \cup Entries({msg.next}) : x \in Entries(1 .. msg.next)
        BY <1>2, <1>1 DEF Entries
      <3>2. msg'.next - 1 = msg.next
        BY <1>2, <1>3
      <3>3. \A x \in Routed' \cup handed' : x \in Entries(1 .. msg.next - 1) \cup Entries({msg.next})
        BY <1>4, <1>5
      <3> QED
        BY <3>1, <3>2, <3>3
    <2> QED
      BY <1>1, <1>2, <1>3, <2>1 DEF MessageInv, MessageTypes, Messages, Entries
  <1>9. OneTransaction'
    BY <1>3 DEF OneTransaction, MessageInv
  <1>10. FoundAnswers'
    BY <1>3 DEF FoundAnswers
  <1>11. ASSUME NEW a \in Agents, NEW k \in 1 .. msg.next - 1
         PROVE  Turn(a, k) \notin D /\ Inject(a, k) \notin D
    BY <1>7, <1>2 DEF Turn, Inject
  <1>12. ASSUME NEW a \in Agents, NEW k \in Nat, ~(k \in 1 .. msg.next - 1)
         PROVE  Turn(a, k) \notin Routed /\ Inject(a, k) \notin Routed
    BY <1>6, <1>12 DEF Turn, Inject
  <1>13. ThroughIsDelivered'
    <2> SUFFICES ASSUME ~msg.moved, NEW k \in 1 .. msg.next, Chat(k), Unambiguous(k), NEW a \in Agents
                 PROVE  Turn(a, k) \in Routed' <=> a \in Reached(k)
      BY <1>2, <1>3 DEF ThroughIsDelivered, Chat, Unambiguous, Reached, Named, Turn
    <2>1. CASE k = msg.next
      BY <2>1, <1>2, <1>4, <1>12
    <2>2. CASE k # msg.next
      <3>1. k \in 1 .. msg.next - 1
        BY <2>2, <1>2
      <3>2. Turn(a, k) \in Routed <=> a \in Reached(k)
        BY <3>1 DEF MessageInv, ThroughIsDelivered
      <3> QED
        BY <3>1, <3>2, <1>4, <1>11
    <2> QED
      BY <2>1, <2>2
  <1>14. TurnsWithInjects'
    <2> SUFFICES ASSUME NEW a \in Agents, NEW k \in DOMAIN msg.dirs
                 PROVE  Turn(a, k) \in Routed' <=> Inject(a, k) \in Routed'
      BY <1>3 DEF TurnsWithInjects, Turn, Inject
    <2>1. Turn(a, k) \in Routed <=> Inject(a, k) \in Routed
      BY DEF MessageInv, TurnsWithInjects
    <2>2. CASE k = msg.next
      BY <2>1, <2>2, <1>4
    <2>3. CASE k # msg.next
      BY <2>1, <2>3, <1>4, <1>7 DEF Turn, Inject
    <2> QED
      BY <2>2, <2>3
  <1>15. MentionWakesReceiver'
    <2> SUFFICES ASSUME NEW x \in Routed', NEW y \in Routed', x.kind = "turn", y.kind = "mention",
                        x.dir = y.dir, ~msg.moved
                 PROVE  x.to = y.to
      BY <1>3 DEF MentionWakesReceiver, Routed
    <2>1. CASE x \in D /\ y \in D
      BY <2>1
    <2>2. CASE x \in Routed /\ y \in Routed
      BY <2>2 DEF MessageInv, MentionWakesReceiver, Routed
    <2>3. CASE x \in D /\ y \in Routed
      BY <2>3, <1>6, <1>7, <1>2
    <2>4. CASE x \in Routed /\ y \in D
      BY <2>4, <1>6, <1>7, <1>2
    <2> QED
      BY <2>1, <2>2, <2>3, <2>4, <1>4
  <1> QED
    BY <1>8, <1>9, <1>10, <1>13, <1>14, <1>15 DEF MessageInv

LEMMA DirectiveSkipped ==
    ASSUME MessageInv, msg.phase \in {"route", "deliver"}, msg.next =< Len(msg.dirs),
           msg' = Advance, UNCHANGED <<agent, pending, committed, handed, shifts>>,
           ~msg.moved /\ Chat(msg.next) /\ Unambiguous(msg.next) => Reached(msg.next) = {}
    PROVE  MessageInv'
  <1> DEFINE D == {}
  <1>1. /\ D \subseteq Entries({msg.next}) /\ pending' = pending \cup D /\ handed' \subseteq handed \cup D
        /\ \A x : x \notin D
    OBVIOUS
  <1> HIDE DEF D
  <1> QED
    BY <1>1, DirectiveRouted

LEMMA SendKeeps ==
    ASSUME MessageInv, SendMessage
    PROVE  MessageInv'
  <1>1. PICK text \in Texts :
           /\ msg.phase = "none"
           /\ msg' = [NoMessage EXCEPT !.phase = "route", !.text = text, !.dirs = ParseTurn(text)]
           /\ UNCHANGED <<agent, pending, committed, handed, shifts>>
    BY DEF SendMessage
  <1>2. /\ msg' = [phase |-> "route", text |-> text, dirs |-> ParseTurn(text), next |-> 1,
                   found |-> NoTarget, moved |-> FALSE]
    BY <1>1 DEF NoMessage
  <1>3. Len(ParseTurn(text)) \in Nat
    BY MessageParsesToList DEF IsList
  <1>4. Routed' = {} /\ handed' = {} /\ pending' = {} /\ committed' = {}
    BY <1>1 DEF MessageInv, OneTransaction, Routed
  <1>5. ParseTurn(text) \in MessageDirs
    BY DEF MessageDirs
  <1>6. msg' \in Messages
    BY <1>2, <1>5 DEF Messages
  <1>7. MessageTypes'
    <2>1. msg'.next = 1 /\ Len(msg'.dirs) \in Nat
      BY <1>2, <1>3
    <2>2. msg'.next \in 1 .. Len(msg'.dirs) + 1
      BY <2>1
    <2> QED
      BY <1>1, <1>4, <1>6, <2>2 DEF MessageInv, MessageTypes, Messages
  <1>8. OneTransaction' /\ FoundAnswers'
    BY <1>2, <1>4 DEF OneTransaction, FoundAnswers
  <1>9. ThroughIsDelivered'
    <2>1. 1 .. msg'.next - 1 = {}
      BY <1>2
    <2> QED
      BY <2>1 DEF ThroughIsDelivered
  <1>10. TurnsWithInjects' /\ MentionWakesReceiver'
    BY <1>4 DEF TurnsWithInjects, MentionWakesReceiver
  <1> QED
    BY <1>7, <1>8, <1>9, <1>10 DEF MessageInv

LEMMA ControlKeeps ==
    ASSUME MessageInv, RouteControl
    PROVE  MessageInv'
  <1>1. ~Chat(msg.next) /\ More
    BY DEF RouteControl, Chat, Current
  <1>2. msg.next \in Nat
    BY DEF MessageInv, MessageTypes, Messages
  <1>3. CASE pending' = pending
    BY <1>1, <1>3, DirectiveSkipped DEF RouteControl, More
  <1>4. ASSUME NEW a \in Named(Current.target), pending' = pending \cup {Entry("control", a)}
        PROVE  MessageInv'
    <2> DEFINE D == {Entry("control", a)}
    <2>1. D \subseteq Entries({msg.next})
      BY <1>2 DEF Entry, Entries, Named
    <2>2. \A x \in D : x.kind = "control"
      BY DEF Entry
    <2>3. \A b \in Agents : Turn(b, msg.next) \notin D /\ Inject(b, msg.next) \notin D
      BY <2>2 DEF Turn, Inject
    <2> HIDE DEF D
    <2>4. pending' = pending \cup D
      BY <1>4 DEF D
    <2> QED
      BY <1>1, <2>1, <2>2, <2>3, <2>4, DirectiveRouted DEF RouteControl, More
  <1> QED
    BY <1>3, <1>4 DEF RouteControl

LEMMA LearningKeeps ==
    ASSUME MessageInv, RouteLearning
    PROVE  MessageInv'
  <1>1. ~Chat(msg.next) /\ More
    BY DEF RouteLearning, Chat, Current
  <1>2. msg.next \in Nat
    BY DEF MessageInv, MessageTypes, Messages
  <1>3. CASE pending' = pending
    BY <1>1, <1>3, DirectiveSkipped DEF RouteLearning, More
  <1>4. ASSUME NEW a \in Named(Current.target), pending' = pending \cup {Entry("distilled", a)}
        PROVE  MessageInv'
    <2> DEFINE D == {Entry("distilled", a)}
    <2>1. D \subseteq Entries({msg.next})
      BY <1>2 DEF Entry, Entries, Named
    <2>2. \A x \in D : x.kind = "distilled"
      BY DEF Entry
    <2>3. \A b \in Agents : Turn(b, msg.next) \notin D /\ Inject(b, msg.next) \notin D
      BY <2>2 DEF Turn, Inject
    <2> HIDE DEF D
    <2>4. pending' = pending \cup D
      BY <1>4 DEF D
    <2> QED
      BY <1>1, <2>1, <2>2, <2>3, <2>4, DirectiveRouted DEF RouteLearning, More
  <1> QED
    BY <1>3, <1>4 DEF RouteLearning

LEMMA ResolveKeeps ==
    ASSUME MessageInv, ResolveTarget
    PROVE  MessageInv'
  <1>1. More /\ Chat(msg.next) /\ Current = msg.dirs[msg.next]
    BY DEF ResolveTarget, Chat, Current
  <1>2. CASE msg' = Advance
    <2>1. ~msg.moved /\ Unambiguous(msg.next) => Reached(msg.next) = {}
      <3>1. CASE Current.target = NoTarget
        BY <3>1, <1>1, SlugsAssumption DEF Reached, Named
      <3>2. ASSUME NEW a \in Named(Current.target), ~agent[a].active
            PROVE  Unambiguous(msg.next) => Reached(msg.next) = {}
        BY <3>2, <1>1 DEF Reached, Unambiguous
      <3>3. ASSUME msg'.phase = "deliver" PROVE FALSE
        BY <1>2, <3>3 DEF Advance, MessageInv, MessageTypes, Messages
      <3>4. msg \in Messages
        BY DEF MessageInv, MessageTypes, Messages
      <3>5. \A a : [msg EXCEPT !.phase = "deliver", !.found = a].phase = "deliver"
        BY <3>4 DEF Messages
      <3>6. [msg EXCEPT !.phase = "deliver"].phase = "deliver"
        BY <3>4 DEF Messages
      <3> QED
        BY <3>1, <3>2, <3>3, <3>5, <3>6 DEF ResolveTarget
    <2> QED
      BY <1>1, <1>2, <2>1, DirectiveSkipped DEF ResolveTarget, More
  <1>3. ASSUME NEW f \in Agents \cup {NoTarget}, msg'.found = f, msg' \in Messages, msg'.phase = "deliver",
               msg'.next = msg.next, msg'.dirs = msg.dirs, msg'.moved = msg.moved,
               \/ f = NoTarget /\ Named(Current.target) = {}
               \/ f \in Named(Current.target) /\ agent[f].active
        PROVE  MessageInv'
    <2>1. f \in Named(Current.target) => f \in Agents
      BY DEF Named
    <2>2. msg.phase = "route" /\ msg.next =< Len(msg.dirs) /\ UNCHANGED <<agent, pending, committed, handed, shifts>>
      BY <1>1 DEF More, ResolveTarget
    <2>3. Routed' = Routed
      BY <2>2 DEF Routed
    <2>4. MessageTypes'
      BY <1>3, <2>2, <2>3 DEF MessageInv, MessageTypes, Messages, Entries
    <2>5. OneTransaction'
      BY <1>3, <2>2 DEF OneTransaction, MessageInv
    <2>6. FoundAnswers'
      BY <1>1, <1>3, <2>1, <2>2 DEF FoundAnswers, Current, Chat, Named
    <2>7. ThroughIsDelivered' /\ TurnsWithInjects'
      BY <1>3, <2>2, <2>3 DEF MessageInv, ThroughIsDelivered, TurnsWithInjects, Chat, Unambiguous, Reached, Named, Turn, Inject
    <2>8. MentionWakesReceiver'
      BY <1>3, <2>2 DEF MessageInv, MentionWakesReceiver
    <2> QED
      BY <2>4, <2>5, <2>6, <2>7, <2>8 DEF MessageInv
  <1>4. msg \in Messages /\ msg.found = NoTarget
    BY <1>1 DEF More, MessageInv, MessageTypes, Messages, FoundAnswers
  <1>5. CASE Named(Current.target) = {} /\ msg' = [msg EXCEPT !.phase = "deliver"]
    <2>1. msg' \in Messages
      BY <1>4, <1>5, Zenon DEF Messages
    <2>2. msg'.found = NoTarget /\ msg'.phase = "deliver" /\ msg'.next = msg.next /\ msg'.dirs = msg.dirs /\ msg'.moved = msg.moved
      BY <1>4, <1>5 DEF Messages
    <2> QED
      BY <1>3, <1>5, <2>1, <2>2
  <1>6. ASSUME NEW a \in Named(Current.target), agent[a].active,
               msg' = [msg EXCEPT !.phase = "deliver", !.found = a]
        PROVE  MessageInv'
    <2>1. a \in Agents
      BY DEF Named
    <2>2. msg' \in Messages
      BY <1>4, <1>6, <2>1, Zenon DEF Messages
    <2>3. msg'.found = a /\ msg'.phase = "deliver" /\ msg'.next = msg.next /\ msg'.dirs = msg.dirs /\ msg'.moved = msg.moved
      BY <1>4, <1>6 DEF Messages
    <2> QED
      BY <1>3, <1>6, <2>1, <2>2, <2>3
  <1> QED
    BY <1>2, <1>5, <1>6 DEF ResolveTarget

LEMMA DeliveryKeeps ==
    ASSUME MessageInv, RouteMessage
    PROVE  MessageInv'
  <1>1. /\ msg.phase = "deliver" /\ Chat(msg.next) /\ Current = msg.dirs[msg.next]
        /\ msg.next =< Len(msg.dirs)
        /\ \/ msg.found = NoTarget /\ (~msg.moved => Named(Current.target) = {})
           \/ msg.found \in Agents /\ (~msg.moved => msg.found \in Named(Current.target) /\ agent[msg.found].active)
    BY DEF RouteMessage, MessageInv, FoundAnswers, Chat, Current
  <1>2. msg.next \in Nat
    BY DEF MessageInv, MessageTypes, Messages
  <1>3. CASE (\A a \in Named(Current.target) : ~agent[a].active) /\ UNCHANGED <<pending, handed>>
    <2>1. Reached(msg.next) = {}
      BY <1>1, <1>3 DEF Reached
    <2> QED
      BY <1>1, <1>3, <2>1, DirectiveSkipped DEF RouteMessage
  <1>4. ASSUME NEW a \in Named(Current.target), agent[a].active, pending' = pending \cup Delivery(a).pend,
               handed' = handed \cup Delivery(a).turn
        PROVE  MessageInv'
    <2> DEFINE D == Delivery(a).pend
    <2>1. /\ a \in Agents
          /\ Woken \subseteq {Entry("mention", msg.found)} /\ (~msg.moved => a = msg.found)
          /\ Woken # {} => msg.found \in Agents
      <3>1. a \in Agents
        BY DEF Named
      <3>2. ~msg.moved => a = msg.found
        BY <1>1 DEF RouteMessage
      <3>3. Woken \subseteq {Entry("mention", msg.found)}
        BY DEF Woken
      <3>4. Woken # {} => msg.found # NoTarget
        BY DEF Woken
      <3>5. Woken # {} => msg.found \in Agents
        BY <1>1, <3>4
      <3> QED
        BY <3>1, <3>2, <3>3, <3>5
    <2>2. Reached(msg.next) = IF agent[a].seated /\ agent[a].linked THEN {a} ELSE {}
      BY <1>1, <1>4 DEF Reached, RouteMessage
    <2>3. CASE agent[a].seated /\ agent[a].linked
      <3>1. D = {Entry("turn", a), Entry("inject", a)} \cup Woken /\ Delivery(a).turn = {Entry("turn", a)}
        BY <2>3 DEF Delivery
      <3>2. D \subseteq Entries({msg.next})
        BY <3>1, <2>1, <1>1, <1>2 DEF Entry, Entries
      <3>3. \A b \in Agents : (Turn(b, msg.next) \in D <=> b = a) /\ (Inject(b, msg.next) \in D <=> b = a)
        <4>1. \A x \in Woken : x.kind = "mention"
          BY <2>1 DEF Entry
        <4>2. \A b \in Agents : Turn(b, msg.next) \notin Woken /\ Inject(b, msg.next) \notin Woken
          BY <4>1 DEF Turn, Inject
        <4> QED
          BY <3>1, <4>2 DEF Entry, Turn, Inject
      <3>4. ~msg.moved => \A x, y \in D : x.kind = "turn" /\ y.kind = "mention" => x.to = y.to
        BY <3>1, <2>1 DEF Entry
      <3>5. handed' \subseteq handed \cup D /\ pending' = pending \cup D
        BY <1>4, <3>1
      <3> HIDE DEF D
      <3> QED
        BY <1>1, <2>2, <2>3, <3>2, <3>3, <3>4, <3>5, DirectiveRouted DEF RouteMessage
    <2>4. CASE ~(agent[a].seated /\ agent[a].linked)
      <3>1. D = {Entry("cerebellum", a)} /\ Delivery(a).turn = {}
        BY <2>4 DEF Delivery
      <3>2. D \subseteq Entries({msg.next})
        BY <3>1, <2>1, <1>2 DEF Entry, Entries
      <3>3. \A x \in D : x.kind = "cerebellum"
        BY <3>1 DEF Entry
      <3>4. \A b \in Agents : Turn(b, msg.next) \notin D /\ Inject(b, msg.next) \notin D
        BY <3>3 DEF Turn, Inject
      <3>5. handed' \subseteq handed \cup D /\ pending' = pending \cup D
        BY <1>4, <3>1
      <3> HIDE DEF D
      <3> QED
        BY <1>1, <2>2, <2>4, <3>2, <3>3, <3>4, <3>5, DirectiveRouted DEF RouteMessage
    <2> QED
      BY <2>3, <2>4
  <1> QED
    BY <1>3, <1>4 DEF RouteMessage

LEMMA AmbiguousKeeps ==
    ASSUME MessageInv, AmbiguousSlug
    PROVE  MessageInv'
  <1>1. msg \in Messages
    BY DEF MessageInv, MessageTypes, Messages
  <1>2. msg' \in Messages
    BY <1>1, Zenon DEF Messages, AmbiguousSlug
  <1>3. /\ msg'.phase = "failed" /\ msg'.next = msg.next /\ msg'.dirs = msg.dirs
        /\ UNCHANGED <<agent, committed, handed, shifts>> /\ pending' = {} /\ committed = {}
    BY <1>1 DEF AmbiguousSlug, MessageInv, OneTransaction
  <1>4. Routed' = {}
    BY <1>3 DEF Routed
  <1>5. MessageTypes'
    BY <1>2, <1>3, <1>4 DEF MessageInv, MessageTypes, Messages, Entries
  <1>6. OneTransaction' /\ FoundAnswers' /\ ThroughIsDelivered'
    BY <1>3 DEF OneTransaction, FoundAnswers, ThroughIsDelivered
  <1>7. TurnsWithInjects' /\ MentionWakesReceiver'
    BY <1>4 DEF TurnsWithInjects, MentionWakesReceiver, Routed
  <1> QED
    BY <1>5, <1>6, <1>7 DEF MessageInv

LEMMA CommitKeeps ==
    ASSUME MessageInv, CommitMessage
    PROVE  MessageInv'
  <1>1. msg \in Messages
    BY DEF MessageInv, MessageTypes, Messages
  <1>2. msg' \in Messages
    BY <1>1, Zenon DEF Messages, CommitMessage
  <1>3. /\ msg'.phase = "done" /\ msg'.next = msg.next /\ msg'.dirs = msg.dirs /\ msg'.moved = msg.moved
        /\ UNCHANGED <<agent, handed, shifts>> /\ pending' = {} /\ msg.phase = "route" /\ msg.next > Len(msg.dirs)
    BY <1>1 DEF CommitMessage
  <1>4. Routed' = Routed
    BY DEF Routed, CommitMessage
  <1>5. MessageTypes'
    BY <1>2, <1>3, <1>4 DEF MessageInv, MessageTypes, Messages, Entries
  <1>6. OneTransaction' /\ FoundAnswers'
    BY <1>3 DEF OneTransaction, FoundAnswers
  <1>7. ThroughIsDelivered' /\ TurnsWithInjects'
    BY <1>3, <1>4 DEF MessageInv, ThroughIsDelivered, TurnsWithInjects, Chat, Unambiguous, Reached, Named, Turn, Inject
  <1>8. MentionWakesReceiver'
    BY <1>3, <1>4 DEF MessageInv, MentionWakesReceiver, Routed
  <1> QED
    BY <1>5, <1>6, <1>7, <1>8 DEF MessageInv

LEMMA ShiftKeeps ==
    ASSUME MessageInv, Shift
    PROVE  MessageInv'
  <1>1. msg \in Messages
    BY DEF MessageInv, MessageTypes, Messages
  <1>2. msg' \in Messages
    <2>1. (msg.phase # "none") \in BOOLEAN
      OBVIOUS
    <2> QED
      BY <1>1, <2>1, Zenon DEF Messages, Shift
  <1>3. /\ msg'.phase = msg.phase /\ msg'.next = msg.next /\ msg'.dirs = msg.dirs /\ msg'.found = msg.found
        /\ msg.phase # "none" => msg'.moved
        /\ UNCHANGED <<pending, committed, handed>>
    BY <1>1 DEF Shift, Messages
  <1>4. Routed' = Routed
    BY <1>3 DEF Routed
  <1>5. DOMAIN agent' = Agents /\ shifts' \in 0 .. MaxShifts
    <2>1. DOMAIN agent' = DOMAIN agent
      BY DEF Shift
    <2> QED
      BY <2>1, ShiftsAssumption DEF Shift, MessageInv, MessageTypes
  <1>6. MessageTypes'
    BY <1>2, <1>3, <1>4, <1>5 DEF MessageInv, MessageTypes, Messages, Entries
  <1>7. OneTransaction'
    BY <1>3, <1>4 DEF OneTransaction, MessageInv
  <1>8. TurnsWithInjects'
    BY <1>3, <1>4 DEF MessageInv, TurnsWithInjects, Turn, Inject
  <1>9. CASE msg.phase = "none"
    <2>1. Routed = {}
      BY <1>9 DEF MessageInv, OneTransaction
    <2>2. FoundAnswers' /\ MentionWakesReceiver'
      BY <1>3, <1>4, <1>9, <2>1 DEF FoundAnswers, MentionWakesReceiver, Routed, MessageInv
    <2>3. ThroughIsDelivered'
      <3>1. msg.next = 1
        BY <1>9 DEF MessageInv, OneTransaction
      <3> QED
        BY <3>1, <1>3 DEF ThroughIsDelivered
    <2> QED
      BY <1>6, <1>7, <1>8, <2>2, <2>3 DEF MessageInv
  <1>10. CASE msg.phase # "none"
    <2>1. FoundAnswers' /\ MentionWakesReceiver' /\ ThroughIsDelivered'
      BY <1>3, <1>10 DEF FoundAnswers, MentionWakesReceiver, ThroughIsDelivered, MessageInv, Current
    <2> QED
      BY <1>6, <1>7, <1>8, <2>1 DEF MessageInv
  <1> QED
    BY <1>9, <1>10

LEMMA MessageStart == Init => MessageInv
  <1> SUFFICES ASSUME Init PROVE MessageInv
    OBVIOUS
  <1>1. /\ msg = [phase |-> "none", text |-> <<>>, dirs |-> <<>>, next |-> 1, found |-> NoTarget, moved |-> FALSE]
        /\ pending = {} /\ committed = {} /\ handed = {} /\ shifts = 0
    BY DEF Init, NoMessage
  <1>2. DOMAIN agent = Agents
    BY DEF Init, Workspaces
  <1>3. msg \in Messages
    BY <1>1 DEF MessageDirs, Messages
  <1>4. msg.next \in 1 .. Len(msg.dirs) + 1
    BY <1>1
  <1>5. MessageTypes
    BY <1>1, <1>2, <1>3, <1>4, ShiftsAssumption DEF MessageTypes, Routed
  <1>6. ThroughIsDelivered
    <2>1. 1 .. msg.next - 1 = {}
      BY <1>1
    <2> QED
      BY <2>1 DEF ThroughIsDelivered
  <1> QED
    BY <1>1, <1>5, <1>6 DEF MessageInv, OneTransaction, FoundAnswers, TurnsWithInjects, MentionWakesReceiver, Routed

LEMMA MessageStep == MessageInv /\ [Next]_vars => MessageInv'
  <1> SUFFICES ASSUME MessageInv, [Next]_vars PROVE MessageInv'
    OBVIOUS
  <1>1. CASE UNCHANGED directiveVars
    BY <1>1 DEF directiveVars, MessageInv, MessageTypes, OneTransaction, FoundAnswers, ThroughIsDelivered,
                TurnsWithInjects, MentionWakesReceiver, Routed, Entries, Current, Named, Chat, Unambiguous,
                Reached, Turn, Inject
  <1>2. CASE DirectivesNext
    BY <1>2, SendKeeps, ControlKeeps, LearningKeeps, ResolveKeeps, DeliveryKeeps, AmbiguousKeeps, CommitKeeps,
       ShiftKeeps DEF DirectivesNext
  <1> QED
    BY <1>1, <1>2 DEF Next, vars

\* For messages of any number of lines of any length: the words of a line all reach its
\* directives, in order, or stay general text; what stands before the first of several
\* mentions is all that expand_inline_chat_mentions drops.  A line without a slash keeps
\* its words whole; in one with a slash, a word may lose the scope in it, and only the
\* word with the first slash loses that, to the command.
THEOREM TextAlwaysKept == Spec => []TextKept
  <1>1. MessageInv => TextKept
    <2> SUFFICES ASSUME MessageInv, NEW k \in DOMAIN msg.text, ParseLine(msg.text[k]) # <<>>
                 PROVE  LET line == msg.text[k]
                            first == IF Expands(line) THEN Positions(line, Mention)[1] ELSE 1
                        IN  /\ FlattenSeq([j \in DOMAIN ParseLine(line) |-> Said(ParseLine(line)[j].args)])
                               = Said(SubSeq(line, first, Len(line)))
                            /\ \A j \in DOMAIN ParseLine(line) : CutKept(line, ParseLine(line)[j])
      BY DEF TextKept, CutKept
    <2> DEFINE line == msg.text[k]
    <2>1. msg.text \in Texts \cup {<<>>}
      BY DEF MessageInv, MessageTypes, Messages
    <2>2. msg.text \in Texts
      BY <2>1
    <2>3. line \in Seq({"at", "ref", "file", "cmd", "path", "mail", "word"} \X STRING)
      BY <2>2, TextsAssumption
    <2>4. IsList(line)
      BY <2>3, SeqIsList
    <2>5. Unmarked(line)
      BY <2>3 DEF Unmarked
    <2> QED
      BY <2>4, <2>5, LineKept, CutsKept
  <1> QED
    BY <1>1, MessageStart, MessageStep, PTL DEF Spec

\* route_turn and route_message look a slug up one after the other: however many
\* entities share slugs, the entity that is told it was mentioned is the one that got
\* the turn, unless entities, instances or passages changed in between.
THEOREM MentionAlwaysWakesReceiver == Spec => []MentionWakesReceiver
  <1>1. MessageInv => MentionWakesReceiver
    BY DEF MessageInv
  <1> QED
    BY <1>1, MessageStart, MessageStep, PTL DEF Spec

\* For messages of any length to any number of entities: when the message is
\* committed and nothing changed under it, each chat directive to the one entity of
\* its slug has given a turn and an inject to that entity if its instance is active,
\* seated and linked, and to nobody else.
THEOREM ReachableAlwaysDelivered == Spec => []ReachableIsDelivered
  <1>1. MessageInv => ReachableIsDelivered
    <2> SUFFICES ASSUME MessageInv, msg.phase = "done", ~msg.moved, NEW k \in DOMAIN msg.dirs
                 PROVE  /\ Chat(k) /\ Unambiguous(k) =>
                             {x.to : x \in {y \in committed : y.dir = k /\ y.kind = "turn"}} = Reached(k)
                        /\ \A a \in Agents : Turn(a, k) \in committed <=> Inject(a, k) \in committed
      BY DEF ReachableIsDelivered, Chat, Unambiguous, Reached, Turn, Inject
    <2>1. Len(msg.dirs) \in Nat /\ DOMAIN msg.dirs = 1 .. Len(msg.dirs)
      BY DirsAreLists DEF MessageInv
    <2>2. k \in 1 .. msg.next - 1
      BY <2>1 DEF MessageInv, OneTransaction, MessageTypes
    <2>3. committed = Routed
      BY DEF MessageInv, OneTransaction, Routed
    <2>4. ASSUME NEW x \in committed, x.dir = k, x.kind = "turn"
          PROVE  x.to \in Agents /\ x = Turn(x.to, k)
      BY <2>3, <2>4 DEF MessageInv, MessageTypes, Messages, Entries, Turn
    <2>5. ASSUME Chat(k), Unambiguous(k)
          PROVE  {x.to : x \in {y \in committed : y.dir = k /\ y.kind = "turn"}} = Reached(k)
      <3>1. \A a \in Agents : Turn(a, k) \in committed <=> a \in Reached(k)
        BY <2>2, <2>3, <2>5 DEF MessageInv, ThroughIsDelivered
      <3>2. \A a \in Reached(k) : a \in Agents /\ Turn(a, k) \in committed
        BY <3>1 DEF Reached, Named
      <3>3. \A a : Turn(a, k).to = a /\ Turn(a, k).dir = k /\ Turn(a, k).kind = "turn"
        BY DEF Turn
      <3> QED
        BY <2>4, <3>1, <3>2, <3>3
    <2>6. \A a \in Agents : Turn(a, k) \in committed <=> Inject(a, k) \in committed
      BY <2>3 DEF MessageInv, TurnsWithInjects
    <2> QED
      BY <2>5, <2>6
  <1> QED
    BY <1>1, MessageStart, MessageStep, PTL DEF Spec

-----------------------------------------------------------------------------
(* The catalog: what a committed state and an open request satisfy         *)

Stages == {"none", "live", "gone"}
Wordings == {"created", "edited", None}
Prompts == {"first", "edited", "regen", None}
Surfaces == (SUBSET (Names \X Wordings)) \X (SUBSET Names) \X Prompts

\* The values of a cell
Column(c) ==
    CASE c[1] \in {"elive", "blive", "glive", "ilive"} -> Stages
      [] c[1] \in {"ecap", "bcap", "egene", "bgene", "mlive", "cerebellum"} -> BOOLEAN
      [] c[1] = "inline" -> SUBSET Names
      [] c[1] = "row" -> 0 .. MaxRequests
      [] c[1] \in {"slug", "preset"} -> Slugs \cup {None}
      [] c[1] = "text" -> Wordings
      [] c[1] = "prompt" -> Prompts
      [] c[1] = "of" -> Entities \cup {None}
      [] c[1] = "runtime" -> [reaped : SUBSET Names, config : Surfaces \cup {None}]
      [] OTHER -> Surfaces \cup {None}

\* A function from some cells to their values
Fits(w) ==
    /\ w = [c \in DOMAIN w |-> w[c]]
    /\ \A c \in DOMAIN w : c \in Cells /\ w[c] \in Column(c)

Table(v) == Fits(v) /\ DOMAIN v = Cells

\* A base class is made with a slug, an entity with the flag, an instance with its
\* entity; a request writes the slug of one base class and the flag of one entity;
\* nothing goes back to before it was made.
Whole(w) ==
    /\ \A b \in Bases : <<"blive", b>> \in DOMAIN w =>
          w[<<"blive", b>>] # "none" /\ (w[<<"blive", b>>] = "live" => <<"slug", b>> \in DOMAIN w)
    /\ \A b \in Bases : <<"slug", b>> \in DOMAIN w => w[<<"slug", b>>] \in Slugs
    /\ \A b, d \in Bases : <<"slug", b>> \in DOMAIN w /\ <<"slug", d>> \in DOMAIN w => b = d
    /\ \A e \in Entities : <<"elive", e>> \in DOMAIN w =>
          w[<<"elive", e>>] # "none" /\ (w[<<"elive", e>>] = "live" => <<"cerebellum", e>> \in DOMAIN w)
    /\ \A e, f \in Entities : <<"cerebellum", e>> \in DOMAIN w /\ <<"cerebellum", f>> \in DOMAIN w => e = f
    /\ \A g \in Genes : <<"glive", g>> \in DOMAIN w => w[<<"glive", g>>] # "none"
    /\ \A i \in Instances : <<"ilive", i>> \in DOMAIN w /\ w[<<"ilive", i>>] = "live" => <<"of", i>> \in DOMAIN w
    /\ \A i \in Instances : <<"of", i>> \in DOMAIN w => w[<<"of", i>>] \in Entities

\* A link leads from what exists, or is made with it, to a row of one of the first top requests.
Anchored(w, v, top) ==
    /\ \A n \in Names : <<"row", n>> \in DOMAIN w => w[<<"row", n>>] =< top
    /\ \A e \in Entities, r \in Rows : <<"ecap", e, r>> \in DOMAIN w /\ w[<<"ecap", e, r>>] =>
          r[2] =< top /\ (w ++ v)[<<"elive", e>>] # "none"
    /\ \A b \in Bases, r \in Rows : <<"bcap", b, r>> \in DOMAIN w /\ w[<<"bcap", b, r>>] =>
          r[2] =< top /\ (w ++ v)[<<"blive", b>>] # "none"
    /\ \A e \in Entities, g \in Genes : <<"egene", e, g>> \in DOMAIN w /\ w[<<"egene", e, g>>] =>
          (w ++ v)[<<"elive", e>>] # "none" /\ (w ++ v)[<<"glive", g>>] # "none"
    /\ \A b \in Bases, g \in Genes : <<"bgene", b, g>> \in DOMAIN w /\ w[<<"bgene", b, g>>] =>
          (w ++ v)[<<"blive", b>>] # "none" /\ (w ++ v)[<<"glive", g>>] # "none"

\* Only these routes change what the registry caches.
LeavesBases(w) == \A b \in Bases : <<"blive", b>> \notin DOMAIN w /\ <<"slug", b>> \notin DOMAIN w

Sound(kind, w, v, top) ==
    /\ Fits(w) /\ Whole(w) /\ Anchored(w, v, top)
    /\ kind \notin Reloading \cup {"transmute"} => LeavesBases(w)

\* The unique indexes refuse w.
Conflicts(w, v) ==
    \/ \E c \in DOMAIN w :
          \/ c[1] \in {"elive", "blive", "glive", "ilive"} /\ w[c] = "live" /\ v[c] # "none"
          \/ c[1] \in {"ecap", "bcap", "egene", "bgene", "mlive"} /\ w[c] /\ v[c]
          \/ c[1] = "slug" /\ BaseWithSlug(v, w[c]) # {}
          \/ c[1] = "of" /\ \E i \in Instances : Live(v, "ilive", i) /\ v[<<"of", i>>] = w[c]
    \/ \E e \in Entities : <<"cerebellum", e>> \in DOMAIN w /\ w[<<"cerebellum", e>>] /\ HasCerebellum(v)

\* What a request that nobody overtook would leave, v before and u after it
Hashed(u, v) ==
    \A e \in Entities :
       Live(u, "elive", e) /\ (Surface(u, e) # Surface(v, e) \/ ~Live(v, "elive", e))
       => u[<<"hash", e>>] = Surface(u, e)

Copied(kind, src, new, u, v) ==
    /\ kind = "clone_entity" => Surface(u, new) = Surface(u, src)
    /\ kind = "fork" =>
          SurfaceNames(u, new) = SurfaceNames(u, v[<<"of", src>>]) \cup v[<<"runtime", src>>].reaped
    /\ kind = "promote" => v[<<"runtime", src>>].reaped \subseteq SurfaceNames(u, new)
    /\ kind = "clone_base" =>
          /\ LinkedCaps(u, "bcap", new) = LinkedCaps(u, "bcap", src)
          /\ \A g \in Genes : u[<<"bgene", new, g>>] = u[<<"bgene", src, g>>]
    /\ kind = "transmute" =>
          /\ LinkedCaps(u, "bcap", new) = SurfaceNames(v, src)
          /\ {g \in Genes : u[<<"bgene", new, g>>]} = EffectiveGenes(v, src)
    /\ kind \in {"create_instance", "introduce"} /\ v[<<"hash", src>>] \in {None, Surface(v, src)} =>
          ~Outdated(u, new)

Promise(kind, src, new, w, v) ==
    /\ Reloads(kind) => ~Conflicts(w, v)
    /\ kind \notin SilentKinds => Hashed(w ++ v, v)
    /\ Copied(kind, src, new, w ++ v, v)

\* A committed catalog
Consistent(v) ==
    /\ Table(v)
    /\ \A b \in Bases : Live(v, "blive", b) => v[<<"slug", b>>] \in Slugs
    /\ \A b, d \in Bases : Live(v, "blive", b) /\ Live(v, "blive", d) /\ v[<<"slug", b>>] = v[<<"slug", d>>] => b = d
    /\ \A e, f \in Entities :
          Live(v, "elive", e) /\ v[<<"cerebellum", e>>] /\ Live(v, "elive", f) /\ v[<<"cerebellum", f>>] => e = f
    /\ \A i \in Instances : Live(v, "ilive", i) => v[<<"of", i>>] \in Entities

\* Rows that none of the first top requests made, and what does not exist yet, have no links.
Linked(v, top) ==
    /\ \A n \in Names : v[<<"row", n>>] =< top
    /\ \A e \in Entities, r \in Rows : v[<<"ecap", e, r>>] => r[2] =< top /\ v[<<"elive", e>>] # "none"
    /\ \A b \in Bases, r \in Rows : v[<<"bcap", b, r>>] => r[2] =< top /\ v[<<"blive", b>>] # "none"
    /\ \A e \in Entities, g \in Genes : v[<<"egene", e, g>>] => v[<<"elive", e>>] # "none" /\ v[<<"glive", g>>] # "none"
    /\ \A b \in Bases, g \in Genes : v[<<"bgene", b, g>>] => v[<<"blive", b>>] # "none" /\ v[<<"glive", g>>] # "none"

SlugsOf(v) == {v[<<"slug", b>>] : b \in {d \in Bases : Live(v, "blive", d)}}

RequestTypes ==
    /\ tx = [h \in Handlers |-> tx[h]] /\ served \in 0 .. MaxRequests /\ registry \subseteq Slugs
    /\ \A h \in Handlers :
          /\ DOMAIN tx[h] = {"phase", "kind", "w", "src", "new", "over", "cache"}
          /\ tx[h].phase \in {"idle", "open", "reload", "store"} /\ tx[h].over \in BOOLEAN
          /\ tx[h].cache \subseteq Slugs /\ DOMAIN tx[h].w \subseteq Cells

RequestInv(r) ==
    /\ r.phase = "open" => Sound(r.kind, r.w, db, served)
    /\ r.phase = "open" /\ ~r.over => Promise(r.kind, r.src, r.new, r.w, db)
    /\ r.phase = "store" /\ ~r.over => r.cache = SlugsOf(db)

\* The inductive invariant of the catalog
CatalogInv == Consistent(db) /\ Linked(db, served) /\ RequestTypes /\ \A h \in Handlers : RequestInv(tx[h])

-----------------------------------------------------------------------------
(* Cells and overlays                                                      *)

LEMMA CellsOf ==
    /\ \A e \in Entities : {<<"elive", e>>, <<"prompt", e>>, <<"preset", e>>, <<"hash", e>>, <<"cerebellum", e>>} \subseteq Cells
    /\ \A b \in Bases : {<<"blive", b>>, <<"slug", b>>} \subseteq Cells
    /\ \A g \in Genes : {<<"glive", g>>, <<"inline", g>>} \subseteq Cells
    /\ \A n \in Names : {<<"row", n>>, <<"mlive", n>>, <<"text", n>>} \subseteq Cells
    /\ \A i \in Instances : {<<"ilive", i>>, <<"of", i>>, <<"active", i>>, <<"runtime", i>>} \subseteq Cells
    /\ \A e \in Entities, r \in Rows : <<"ecap", e, r>> \in Cells
    /\ \A b \in Bases, r \in Rows : <<"bcap", b, r>> \in Cells
    /\ \A e \in Entities, g \in Genes : <<"egene", e, g>> \in Cells
    /\ \A b \in Bases, g \in Genes : <<"bgene", b, g>> \in Cells
  BY DEF Cells

LEMMA ColumnsOf ==
    /\ \A x : Column(<<"elive", x>>) = Stages /\ Column(<<"blive", x>>) = Stages
    /\ \A x : Column(<<"glive", x>>) = Stages /\ Column(<<"ilive", x>>) = Stages
    /\ \A x : Column(<<"mlive", x>>) = BOOLEAN /\ Column(<<"cerebellum", x>>) = BOOLEAN
    /\ \A x, y : Column(<<"ecap", x, y>>) = BOOLEAN /\ Column(<<"bcap", x, y>>) = BOOLEAN
    /\ \A x, y : Column(<<"egene", x, y>>) = BOOLEAN /\ Column(<<"bgene", x, y>>) = BOOLEAN
    /\ \A x : Column(<<"inline", x>>) = SUBSET Names /\ Column(<<"row", x>>) = 0 .. MaxRequests
    /\ \A x : Column(<<"slug", x>>) = Slugs \cup {None} /\ Column(<<"preset", x>>) = Slugs \cup {None}
    /\ \A x : Column(<<"text", x>>) = Wordings /\ Column(<<"prompt", x>>) = Prompts
    /\ \A x : Column(<<"of", x>>) = Entities \cup {None}
    /\ \A x : Column(<<"runtime", x>>) = [reaped : SUBSET Names, config : Surfaces \cup {None}]
    /\ \A x : Column(<<"hash", x>>) = Surfaces \cup {None} /\ Column(<<"active", x>>) = Surfaces \cup {None}
  <1>1. \A x : Column(<<"elive", x>>) = Stages /\ Column(<<"blive", x>>) = Stages
    BY DEF Column
  <1>2. \A x : Column(<<"glive", x>>) = Stages /\ Column(<<"ilive", x>>) = Stages
    BY DEF Column
  <1>3. \A x : Column(<<"mlive", x>>) = BOOLEAN /\ Column(<<"cerebellum", x>>) = BOOLEAN
    BY DEF Column
  <1>4. \A x, y : Column(<<"ecap", x, y>>) = BOOLEAN /\ Column(<<"bcap", x, y>>) = BOOLEAN
    BY DEF Column
  <1>5. \A x, y : Column(<<"egene", x, y>>) = BOOLEAN /\ Column(<<"bgene", x, y>>) = BOOLEAN
    BY DEF Column
  <1>6. \A x : Column(<<"inline", x>>) = SUBSET Names /\ Column(<<"row", x>>) = 0 .. MaxRequests
    BY DEF Column
  <1>7. \A x : Column(<<"slug", x>>) = Slugs \cup {None} /\ Column(<<"preset", x>>) = Slugs \cup {None}
    BY DEF Column
  <1>8. \A x : Column(<<"text", x>>) = Wordings /\ Column(<<"prompt", x>>) = Prompts
    BY DEF Column
  <1>9. \A x : Column(<<"of", x>>) = Entities \cup {None}
    BY DEF Column
  <1>10. \A x : Column(<<"runtime", x>>) = [reaped : SUBSET Names, config : Surfaces \cup {None}]
    BY DEF Column
  <1>11. \A x : Column(<<"hash", x>>) = Surfaces \cup {None} /\ Column(<<"active", x>>) = Surfaces \cup {None}
    BY DEF Column
  <1> QED
    BY <1>1, <1>2, <1>3, <1>4, <1>5, <1>6, <1>7, <1>8, <1>9, <1>10, <1>11

LEMMA OverDomain ==
    ASSUME NEW w, NEW v
    PROVE  DOMAIN (w ++ v) = DOMAIN w \cup DOMAIN v
  BY DEF ++

LEMMA OverWritten ==
    ASSUME NEW w, NEW v, NEW c \in DOMAIN w
    PROVE  (w ++ v)[c] = w[c]
  BY DEF ++

LEMMA OverLeft ==
    ASSUME NEW w, NEW v, NEW c \in DOMAIN v, c \notin DOMAIN w
    PROVE  (w ++ v)[c] = v[c]
  BY DEF ++

LEMMA OverFunction ==
    ASSUME NEW w, NEW v
    PROVE  w ++ v = [c \in DOMAIN (w ++ v) |-> (w ++ v)[c]]
  BY Zenon DEF ++

LEMMA FitsOver ==
    ASSUME NEW w, NEW v, Fits(w), Fits(v)
    PROVE  Fits(w ++ v)
  <1>1. w ++ v = [c \in DOMAIN (w ++ v) |-> (w ++ v)[c]]
    BY OverFunction
  <1>2. ASSUME NEW c \in DOMAIN (w ++ v)
        PROVE  c \in Cells /\ (w ++ v)[c] \in Column(c)
    <2>1. CASE c \in DOMAIN w
      <3>1. (w ++ v)[c] = w[c]
        BY <2>1, OverWritten
      <3> QED
        BY <2>1, <3>1 DEF Fits
    <2>2. CASE c \notin DOMAIN w
      <3>1. c \in DOMAIN v
        BY <2>2, OverDomain
      <3>2. (w ++ v)[c] = v[c]
        BY <2>2, <3>1, OverLeft
      <3> QED
        BY <3>1, <3>2 DEF Fits
    <2> QED
      BY <2>1, <2>2
  <1> QED
    BY <1>1, <1>2 DEF Fits

LEMMA FitsNothing == Fits(Nothing)
  BY DEF Fits, Nothing

LEMMA FitsPut ==
    ASSUME NEW k, NEW x, NEW y, <<k, x>> \in Cells, y \in Column(<<k, x>>)
    PROVE  Fits(Put(k, x, y))
  BY DEF Fits, Put

LEMMA FitsLink ==
    ASSUME NEW k, NEW x, NEW S, \A y \in S : <<k, x, y>> \in Cells /\ TRUE \in Column(<<k, x, y>>)
    PROVE  Fits(Link(k, x, S))
  BY DEF Fits, Link

LEMMA FitsUnlink ==
    ASSUME NEW k, NEW x, NEW y, <<k, x, y>> \in Cells, FALSE \in Column(<<k, x, y>>)
    PROVE  Fits(Unlink(k, x, y))
  BY DEF Fits, Unlink

LEMMA OverTable ==
    ASSUME NEW w, NEW v, Fits(w), Table(v)
    PROVE  Table(w ++ v)
  <1>1. DOMAIN w \subseteq Cells
    BY DEF Fits
  <1> QED
    BY <1>1, OverDomain, FitsOver DEF Table

LEMMA EntityColumns ==
    ASSUME NEW v, Table(v), NEW e \in Entities
    PROVE  /\ v[<<"elive", e>>] \in Stages /\ v[<<"cerebellum", e>>] \in BOOLEAN
           /\ v[<<"preset", e>>] \in Slugs \cup {None} /\ v[<<"prompt", e>>] \in Prompts
           /\ v[<<"hash", e>>] \in Surfaces \cup {None}
  <1>1. {<<"elive", e>>, <<"prompt", e>>, <<"preset", e>>, <<"hash", e>>, <<"cerebellum", e>>} \subseteq Cells
    BY DEF Cells
  <1>2. \A c \in Cells : v[c] \in Column(c)
    BY DEF Table, Fits
  <1>3. v[<<"elive", e>>] \in Stages
    BY <1>1, <1>2, ColumnsOf
  <1>4. v[<<"cerebellum", e>>] \in BOOLEAN
    BY <1>1, <1>2 DEF Column
  <1>5. v[<<"preset", e>>] \in Slugs \cup {None}
    BY <1>1, <1>2 DEF Column
  <1>6. v[<<"prompt", e>>] \in Prompts
    BY <1>1, <1>2 DEF Column
  <1>7. v[<<"hash", e>>] \in Surfaces \cup {None}
    BY <1>1, <1>2 DEF Column
  <1> QED
    BY <1>3, <1>4, <1>5, <1>6, <1>7

LEMMA BaseColumns ==
    ASSUME NEW v, Table(v), NEW b \in Bases
    PROVE  v[<<"blive", b>>] \in Stages /\ v[<<"slug", b>>] \in Slugs \cup {None}
  <1>1. {<<"blive", b>>, <<"slug", b>>} \subseteq Cells
    BY DEF Cells
  <1>2. \A c \in Cells : v[c] \in Column(c)
    BY DEF Table, Fits
  <1>3. v[<<"blive", b>>] \in Stages
    BY <1>1, <1>2 DEF Column
  <1>4. v[<<"slug", b>>] \in Slugs \cup {None}
    BY <1>1, <1>2 DEF Column
  <1> QED
    BY <1>3, <1>4

LEMMA GeneColumns ==
    ASSUME NEW v, Table(v), NEW g \in Genes
    PROVE  v[<<"glive", g>>] \in Stages /\ v[<<"inline", g>>] \in SUBSET Names
  <1>1. {<<"glive", g>>, <<"inline", g>>} \subseteq Cells
    BY DEF Cells
  <1>2. \A c \in Cells : v[c] \in Column(c)
    BY DEF Table, Fits
  <1>3. v[<<"glive", g>>] \in Stages
    BY <1>1, <1>2 DEF Column
  <1>4. v[<<"inline", g>>] \in SUBSET Names
    BY <1>1, <1>2 DEF Column
  <1> QED
    BY <1>3, <1>4

LEMMA NameColumns ==
    ASSUME NEW v, Table(v), NEW n \in Names
    PROVE  v[<<"mlive", n>>] \in BOOLEAN /\ v[<<"row", n>>] \in 0 .. MaxRequests /\ v[<<"text", n>>] \in Wordings
  <1>1. {<<"mlive", n>>, <<"row", n>>, <<"text", n>>} \subseteq Cells
    BY DEF Cells
  <1>2. \A c \in Cells : v[c] \in Column(c)
    BY DEF Table, Fits
  <1>3. v[<<"mlive", n>>] \in BOOLEAN
    BY <1>1, <1>2 DEF Column
  <1>4. v[<<"row", n>>] \in 0 .. MaxRequests
    BY <1>1, <1>2 DEF Column
  <1>5. v[<<"text", n>>] \in Wordings
    BY <1>1, <1>2 DEF Column
  <1> QED
    BY <1>3, <1>4, <1>5

LEMMA InstanceColumns ==
    ASSUME NEW v, Table(v), NEW i \in Instances
    PROVE  /\ v[<<"ilive", i>>] \in Stages /\ v[<<"of", i>>] \in Entities \cup {None}
           /\ v[<<"active", i>>] \in Surfaces \cup {None}
           /\ v[<<"runtime", i>>] \in [reaped : SUBSET Names, config : Surfaces \cup {None}]
  <1>1. {<<"ilive", i>>, <<"of", i>>, <<"active", i>>, <<"runtime", i>>} \subseteq Cells
    BY DEF Cells
  <1>2. \A c \in Cells : v[c] \in Column(c)
    BY DEF Table, Fits
  <1>3. v[<<"ilive", i>>] \in Stages
    BY <1>1, <1>2 DEF Column
  <1>4. v[<<"of", i>>] \in Entities \cup {None}
    BY <1>1, <1>2 DEF Column
  <1>5. v[<<"active", i>>] \in Surfaces \cup {None}
    BY <1>1, <1>2 DEF Column
  <1>6. v[<<"runtime", i>>] \in [reaped : SUBSET Names, config : Surfaces \cup {None}]
    BY <1>1, <1>2 DEF Column
  <1> QED
    BY <1>3, <1>4, <1>5, <1>6

LEMMA EntityLinkColumns ==
    ASSUME NEW v, Table(v), NEW e \in Entities
    PROVE  (\A r \in Rows : v[<<"ecap", e, r>>] \in BOOLEAN) /\ (\A g \in Genes : v[<<"egene", e, g>>] \in BOOLEAN)
  <1>1. \A c \in Cells : v[c] \in Column(c)
    BY DEF Table, Fits
  <1>2. ASSUME NEW r \in Rows PROVE v[<<"ecap", e, r>>] \in BOOLEAN
    <2>1. <<"ecap", e, r>> \in Cells
      BY DEF Cells
    <2> QED
      BY <1>1, <2>1 DEF Column
  <1>3. ASSUME NEW g \in Genes PROVE v[<<"egene", e, g>>] \in BOOLEAN
    <2>1. <<"egene", e, g>> \in Cells
      BY DEF Cells
    <2> QED
      BY <1>1, <2>1 DEF Column
  <1> QED
    BY <1>2, <1>3

LEMMA BaseLinkColumns ==
    ASSUME NEW v, Table(v), NEW b \in Bases
    PROVE  (\A r \in Rows : v[<<"bcap", b, r>>] \in BOOLEAN) /\ (\A g \in Genes : v[<<"bgene", b, g>>] \in BOOLEAN)
  <1>1. \A c \in Cells : v[c] \in Column(c)
    BY DEF Table, Fits
  <1>2. ASSUME NEW r \in Rows PROVE v[<<"bcap", b, r>>] \in BOOLEAN
    <2>1. <<"bcap", b, r>> \in Cells
      BY DEF Cells
    <2> QED
      BY <1>1, <2>1 DEF Column
  <1>3. ASSUME NEW g \in Genes PROVE v[<<"bgene", b, g>>] \in BOOLEAN
    <2>1. <<"bgene", b, g>> \in Cells
      BY DEF Cells
    <2> QED
      BY <1>1, <2>1 DEF Column
  <1> QED
    BY <1>2, <1>3

-----------------------------------------------------------------------------
(* Surfaces                                                                *)

LEMMA SurfaceType ==
    ASSUME NEW v, Table(v), NEW e \in Entities
    PROVE  Surface(v, e) \in Surfaces /\ Surface(v, e) # None /\ SurfaceNames(v, e) \subseteq Names
  <1>1. LinkedCaps(v, "ecap", e) \subseteq Names
    BY DEF LinkedCaps
  <1>2. InlineCaps(v, e) \subseteq Names
    <2>1. \A g \in EffectiveGenes(v, e) : v[<<"inline", g>>] \subseteq Names
      BY GeneColumns DEF EffectiveGenes
    <2> QED
      BY <2>1 DEF InlineCaps
  <1>3. {<<n, v[<<"text", n>>]>> : n \in LinkedCaps(v, "ecap", e)} \subseteq Names \X Wordings
    <2>1. \A n \in Names : v[<<"text", n>>] \in Wordings
      BY NameColumns
    <2>2. ASSUME NEW n \in LinkedCaps(v, "ecap", e) PROVE <<n, v[<<"text", n>>]>> \in Names \X Wordings
      <3>1. n \in Names
        BY <1>1
      <3>2. v[<<"text", n>>] \in Wordings
        BY <2>1, <3>1
      <3> QED
        BY <3>1, <3>2
    <2> QED
      BY <2>2
  <1>4. v[<<"prompt", e>>] \in Prompts
    BY EntityColumns
  <1>5. Surface(v, e) \in Surfaces
    BY <1>2, <1>3, <1>4 DEF Surface, Surfaces
  <1>6. None \notin Surfaces
    BY NoneAssumption DEF Surfaces, Wordings, Prompts
  <1> QED
    BY <1>1, <1>2, <1>5, <1>6 DEF SurfaceNames

\* Two states in which an entity has the same rows and genes give it the same surface.
LEMMA SurfaceFrom ==
    ASSUME NEW u, NEW v, NEW e, NEW f,
           LinkedCaps(u, "ecap", e) = LinkedCaps(v, "ecap", f),
           \A n \in LinkedCaps(v, "ecap", f) : u[<<"text", n>>] = v[<<"text", n>>],
           EffectiveGenes(u, e) = EffectiveGenes(v, f),
           \A g \in EffectiveGenes(v, f) : u[<<"inline", g>>] = v[<<"inline", g>>],
           u[<<"prompt", e>>] = v[<<"prompt", f>>]
    PROVE  Surface(u, e) = Surface(v, f) /\ SurfaceNames(u, e) = SurfaceNames(v, f) /\ InlineCaps(u, e) = InlineCaps(v, f)
  <1>1. InlineCaps(u, e) = InlineCaps(v, f)
    <2>1. {u[<<"inline", g>>] : g \in EffectiveGenes(u, e)} = {v[<<"inline", g>>] : g \in EffectiveGenes(v, f)}
      OBVIOUS
    <2> QED
      BY <2>1 DEF InlineCaps
  <1>2. {<<n, u[<<"text", n>>]>> : n \in LinkedCaps(u, "ecap", e)} = {<<n, v[<<"text", n>>]>> : n \in LinkedCaps(v, "ecap", f)}
    OBVIOUS
  <1> QED
    BY <1>1, <1>2 DEF Surface, SurfaceNames

\* What all surfaces depend on, and what that of e does
SharedPart(u, v) ==
    /\ \A n \in Names : /\ u[<<"mlive", n>>] = v[<<"mlive", n>>] /\ u[<<"row", n>>] = v[<<"row", n>>]
                        /\ u[<<"text", n>>] = v[<<"text", n>>]
    /\ \A g \in Genes : u[<<"glive", g>>] = v[<<"glive", g>>] /\ u[<<"inline", g>>] = v[<<"inline", g>>]
    /\ \A b \in Bases : u[<<"blive", b>>] = v[<<"blive", b>>] /\ u[<<"slug", b>>] = v[<<"slug", b>>]
    /\ \A b \in Bases, g \in Genes : u[<<"bgene", b, g>>] = v[<<"bgene", b, g>>]
OwnPart(u, v, e) ==
    /\ u[<<"prompt", e>>] = v[<<"prompt", e>>] /\ u[<<"preset", e>>] = v[<<"preset", e>>]
    /\ \A r \in Rows : u[<<"ecap", e, r>>] = v[<<"ecap", e, r>>]
    /\ \A g \in Genes : u[<<"egene", e, g>>] = v[<<"egene", e, g>>]

LEMMA SurfaceFrame ==
    ASSUME NEW u, NEW v, Table(v), NEW e \in Entities, SharedPart(u, v), OwnPart(u, v, e)
    PROVE  Surface(u, e) = Surface(v, e) /\ SurfaceNames(u, e) = SurfaceNames(v, e)
  <1>1. \A n \in Names : Row(v, n) \in Rows /\ Row(u, n) = Row(v, n)
    BY NameColumns DEF Row, Rows, SharedPart
  <1>2. LinkedCaps(u, "ecap", e) = LinkedCaps(v, "ecap", e)
    BY <1>1 DEF LinkedCaps, SharedPart, OwnPart
  <1>3. BaseWithSlug(u, u[<<"preset", e>>]) = BaseWithSlug(v, v[<<"preset", e>>])
    BY DEF BaseWithSlug, Live, SharedPart, OwnPart
  <1>4. EffectiveGenes(u, e) = EffectiveGenes(v, e)
    <2>1. ASSUME NEW g \in Genes PROVE g \in EffectiveGenes(u, e) <=> g \in EffectiveGenes(v, e)
      <3>1. Live(u, "glive", g) = Live(v, "glive", g) /\ u[<<"egene", e, g>>] = v[<<"egene", e, g>>]
        BY DEF Live, SharedPart, OwnPart
      <3>2. \A b \in BaseWithSlug(v, v[<<"preset", e>>]) : u[<<"bgene", b, g>>] = v[<<"bgene", b, g>>]
        BY DEF BaseWithSlug, SharedPart
      <3> QED
        BY <1>3, <3>1, <3>2 DEF EffectiveGenes
    <2> QED
      BY <2>1 DEF EffectiveGenes
  <1>5. LinkedCaps(v, "ecap", e) \subseteq Names /\ EffectiveGenes(v, e) \subseteq Genes
    BY DEF LinkedCaps, EffectiveGenes
  <1>6. \A n \in LinkedCaps(v, "ecap", e) : u[<<"text", n>>] = v[<<"text", n>>]
    BY <1>5 DEF SharedPart
  <1>7. \A g \in EffectiveGenes(v, e) : u[<<"inline", g>>] = v[<<"inline", g>>]
    BY <1>5 DEF SharedPart
  <1>8. u[<<"prompt", e>>] = v[<<"prompt", e>>]
    BY DEF OwnPart
  <1> QED
    BY <1>2, <1>4, <1>6, <1>7, <1>8, SurfaceFrom

-----------------------------------------------------------------------------
(* Kinds of cells a request writes, and the hashes it computes again        *)

Kinds(w) == {c[1] : c \in DOMAIN w}

LEMMA KindsOver ==
    ASSUME NEW w, NEW v
    PROVE  Kinds(w ++ v) = Kinds(w) \cup Kinds(v)
  BY OverDomain DEF Kinds

LEMMA KindsPut ==
    ASSUME NEW k, NEW x, NEW y
    PROVE  Kinds(Put(k, x, y)) = {k} /\ DOMAIN Put(k, x, y) = {<<k, x>>} /\ Put(k, x, y)[<<k, x>>] = y
  BY DEF Kinds, Put

LEMMA KindsLink ==
    ASSUME NEW k, NEW x, NEW S
    PROVE  /\ Kinds(Link(k, x, S)) \subseteq {k} /\ DOMAIN Link(k, x, S) = {<<k, x, y>> : y \in S}
           /\ \A c \in DOMAIN Link(k, x, S) : Link(k, x, S)[c] = TRUE
  BY DEF Kinds, Link

LEMMA KindsUnlink ==
    ASSUME NEW k, NEW x, NEW y
    PROVE  Kinds(Unlink(k, x, y)) = {k} /\ DOMAIN Unlink(k, x, y) = {<<k, x, y>>} /\ Unlink(k, x, y)[<<k, x, y>>] = FALSE
  BY DEF Kinds, Unlink

LEMMA KindsNothing == Kinds(Nothing) = {} /\ DOMAIN Nothing = {}
  BY DEF Kinds, Nothing

LEMMA KindsUpsert ==
    ASSUME NEW S
    PROVE  Kinds(UpsertCapabilities(S)) \subseteq {"mlive", "row", "text"}
  BY DEF Kinds, UpsertCapabilities

LEMMA NotOfKind ==
    ASSUME NEW w, NEW k, k \notin Kinds(w)
    PROVE  (\A x : <<k, x>> \notin DOMAIN w) /\ (\A x, y : <<k, x, y>> \notin DOMAIN w)
  <1>1. ASSUME NEW x, <<k, x>> \in DOMAIN w PROVE FALSE
    <2>1. <<k, x>>[1] = k
      OBVIOUS
    <2> QED
      BY <1>1, <2>1 DEF Kinds
  <1>2. ASSUME NEW x, NEW y, <<k, x, y>> \in DOMAIN w PROVE FALSE
    <2>1. <<k, x, y>>[1] = k
      OBVIOUS
    <2> QED
      BY <1>2, <2>1 DEF Kinds
  <1> QED
    BY <1>1, <1>2

\* Cells of other kinds keep their values.
LEMMA OtherKinds ==
    ASSUME NEW w, NEW v, NEW c \in DOMAIN v, c[1] \notin Kinds(w)
    PROVE  (w ++ v)[c] = v[c] /\ c \notin DOMAIN w
  <1>1. c \notin DOMAIN w
    BY DEF Kinds
  <1> QED
    BY <1>1, OverLeft

LEMMA BumpCells ==
    ASSUME Table(db), NEW w, Fits(w), "hash" \notin Kinds(w), NEW E \in SUBSET Entities
    PROVE  /\ Fits(BumpEntities(w, E))
           /\ \A c : c[1] # "hash" => (c \in DOMAIN BumpEntities(w, E) <=> c \in DOMAIN w)
           /\ \A c \in DOMAIN w : BumpEntities(w, E)[c] = w[c]
           /\ Kinds(BumpEntities(w, E)) \subseteq Kinds(w) \cup {"hash"}
           /\ \A e \in E : (BumpEntities(w, E) ++ db)[<<"hash", e>>] = Surface(w ++ db, e)
  <1> DEFINE v == w ++ db
             D == {x \in E : db[<<"hash", x>>] # Surface(v, x)}
             H == [c \in {<<"hash", e>> : e \in D} |-> Surface(v, c[2])]
  <1>1. BumpEntities(w, E) = H ++ w
    BY DEF BumpEntities
  <1>2. Table(v)
    BY OverTable
  <1>3. DOMAIN H = {<<"hash", e>> : e \in D}
    OBVIOUS
  <1>4. \A e \in D : <<"hash", e>> \in DOMAIN H /\ H[<<"hash", e>>] = Surface(v, e)
    OBVIOUS
  <1>5. Fits(H)
    <2>1. H = [c \in DOMAIN H |-> H[c]]
      OBVIOUS
    <2>2. ASSUME NEW c \in DOMAIN H PROVE c \in Cells /\ H[c] \in Column(c)
      <3>1. PICK e \in D : c = <<"hash", e>>
        BY <2>2, <1>3
      <3>2. H[c] = Surface(v, e) /\ e \in Entities
        BY <3>1, <1>4
      <3>3. Surface(v, e) \in Surfaces
        BY <1>2, <3>2, SurfaceType
      <3>4. Column(c) = Surfaces \cup {None}
        BY <3>1, ColumnsOf
      <3>5. c \in Cells
        BY <3>1, <3>2 DEF Cells
      <3> QED
        BY <3>2, <3>3, <3>4, <3>5
    <2> QED
      BY <2>1, <2>2 DEF Fits
  <1>6. Kinds(H) \subseteq {"hash"}
    <2> HIDE DEF H, D
    <2>1. ASSUME NEW c \in DOMAIN H PROVE c[1] = "hash"
      <3>1. PICK e \in D : c = <<"hash", e>>
        BY <1>3
      <3> QED
        BY <3>1
    <2> QED
      BY <2>1 DEF Kinds
  <1> HIDE DEF H, D, v
  <1>7. Fits(H ++ w)
    BY <1>5, FitsOver
  <1>8. Kinds(H ++ w) \subseteq Kinds(w) \cup {"hash"}
    BY <1>6, KindsOver
  <1>9. \A c : c[1] # "hash" => (c \in DOMAIN (H ++ w) <=> c \in DOMAIN w)
    BY <1>6, OverDomain DEF Kinds
  <1>10. \A c \in DOMAIN w : c \notin DOMAIN H
    BY <1>6 DEF Kinds
  <1>11. \A c \in DOMAIN w : (H ++ w)[c] = w[c]
    BY <1>10, OverLeft
  <1>12. ASSUME NEW e \in E PROVE ((H ++ w) ++ db)[<<"hash", e>>] = Surface(v, e)
    <2>1. <<"hash", e>> \in Cells
      BY DEF Cells
    <2>2. <<"hash", e>> \in DOMAIN db
      BY <2>1 DEF Table
    <2>3. CASE e \in D
      <3>1. <<"hash", e>> \in DOMAIN (H ++ w) /\ (H ++ w)[<<"hash", e>>] = Surface(v, e)
        BY <2>3, <1>4, OverDomain, OverWritten
      <3> QED
        BY <3>1, OverWritten
    <2>4. CASE e \notin D
      <3>1. <<"hash", e>> \notin DOMAIN H
        BY <2>4, <1>3
      <3>2. <<"hash", e>> \notin DOMAIN w
        BY NotOfKind
      <3>3. <<"hash", e>> \notin DOMAIN (H ++ w)
        BY <3>1, <3>2, OverDomain
      <3>4. ((H ++ w) ++ db)[<<"hash", e>>] = db[<<"hash", e>>]
        BY <3>3, <2>2, OverLeft
      <3> QED
        BY <3>4, <2>4 DEF D
    <2> QED
      BY <2>3, <2>4
  <1> QED
    BY <1>1, <1>7, <1>8, <1>9, <1>11, <1>12 DEF v

\* Computing hashes again changes nothing else.
LEMMA BumpFrame ==
    ASSUME Table(db), NEW w, Fits(w), "hash" \notin Kinds(w), NEW E \in SUBSET Entities
    PROVE  \A c \in Cells : c[1] # "hash" => (BumpEntities(w, E) ++ db)[c] = (w ++ db)[c]
  <1> DEFINE W == BumpEntities(w, E)
  <1>1. /\ \A c : c[1] # "hash" => (c \in DOMAIN W <=> c \in DOMAIN w)
        /\ \A c \in DOMAIN w : W[c] = w[c]
    BY BumpCells
  <1>2. ASSUME NEW c \in Cells, c[1] # "hash" PROVE (W ++ db)[c] = (w ++ db)[c]
    <2>1. CASE c \in DOMAIN w
      BY <2>1, <1>1, <1>2, OverWritten
    <2>2. CASE c \notin DOMAIN w
      <3>1. c \notin DOMAIN W /\ c \in DOMAIN db
        BY <2>2, <1>1, <1>2 DEF Table
      <3> QED
        BY <3>1, <2>2, OverLeft
    <2> QED
      BY <2>1, <2>2
  <1> QED
    BY <1>2

\* Two states that differ in cells of these kinds only give every entity the same surface.
LEMMA SameSurfaces ==
    ASSUME NEW u, NEW v, Table(v),
           \A c \in Cells : c[1] \notin {"hash", "active", "runtime", "of", "ilive", "elive", "cerebellum", "bcap"} => u[c] = v[c],
           NEW e \in Entities
    PROVE  Surface(u, e) = Surface(v, e) /\ SurfaceNames(u, e) = SurfaceNames(v, e)
  <1>1. \A n \in Names : /\ u[<<"mlive", n>>] = v[<<"mlive", n>>] /\ u[<<"row", n>>] = v[<<"row", n>>]
                         /\ u[<<"text", n>>] = v[<<"text", n>>]
    BY DEF Cells
  <1>2. \A g \in Genes : u[<<"glive", g>>] = v[<<"glive", g>>] /\ u[<<"inline", g>>] = v[<<"inline", g>>]
    BY DEF Cells
  <1>3. \A b \in Bases : u[<<"blive", b>>] = v[<<"blive", b>>] /\ u[<<"slug", b>>] = v[<<"slug", b>>]
    BY DEF Cells
  <1>4. \A b \in Bases, g \in Genes : u[<<"bgene", b, g>>] = v[<<"bgene", b, g>>]
    BY DEF Cells
  <1>5. u[<<"prompt", e>>] = v[<<"prompt", e>>] /\ u[<<"preset", e>>] = v[<<"preset", e>>]
    BY DEF Cells
  <1>6. \A r \in Rows : u[<<"ecap", e, r>>] = v[<<"ecap", e, r>>]
    BY DEF Cells
  <1>7. \A g \in Genes : u[<<"egene", e, g>>] = v[<<"egene", e, g>>]
    BY DEF Cells
  <1>8. SharedPart(u, v) /\ OwnPart(u, v, e)
    BY <1>1, <1>2, <1>3, <1>4, <1>5, <1>6, <1>7 DEF SharedPart, OwnPart
  <1> QED
    BY <1>8, SurfaceFrame

-----------------------------------------------------------------------------
(* Soundness of what a request writes                                      *)

\* A request that makes, deletes and names nothing
LEMMA QuietWhole ==
    ASSUME NEW w, Kinds(w) \cap {"elive", "blive", "glive", "ilive", "slug", "cerebellum", "of"} = {}
    PROVE  Whole(w) /\ LeavesBases(w)
  <1>1. \A x : /\ <<"elive", x>> \notin DOMAIN w /\ <<"blive", x>> \notin DOMAIN w /\ <<"glive", x>> \notin DOMAIN w
               /\ <<"ilive", x>> \notin DOMAIN w /\ <<"slug", x>> \notin DOMAIN w
               /\ <<"cerebellum", x>> \notin DOMAIN w /\ <<"of", x>> \notin DOMAIN w
    BY NotOfKind
  <1> QED
    BY <1>1 DEF Whole, LeavesBases

LEMMA UnlinkedAnchored ==
    ASSUME NEW w, Kinds(w) \cap {"row", "ecap", "bcap", "egene", "bgene"} = {}, NEW top
    PROVE  Anchored(w, db, top)
  <1>1. \A x : <<"row", x>> \notin DOMAIN w
    BY NotOfKind
  <1>2. \A x, y : /\ <<"ecap", x, y>> \notin DOMAIN w /\ <<"bcap", x, y>> \notin DOMAIN w
                  /\ <<"egene", x, y>> \notin DOMAIN w /\ <<"bgene", x, y>> \notin DOMAIN w
    BY NotOfKind
  <1> QED
    BY <1>1, <1>2 DEF Anchored

LEMMA BumpSound ==
    ASSUME Table(db), NEW w, "hash" \notin Kinds(w), NEW E \in SUBSET Entities, NEW kind, NEW top, Sound(kind, w, db, top)
    PROVE  Sound(kind, BumpEntities(w, E), db, top)
  <1> DEFINE W == BumpEntities(w, E)
  <1>1. Fits(w) /\ Whole(w) /\ Anchored(w, db, top) /\ (kind \notin Reloading \cup {"transmute"} => LeavesBases(w))
    BY DEF Sound
  <1>2. Fits(W)
    BY <1>1, BumpCells
  <1>3. \A c : c[1] # "hash" => (c \in DOMAIN W <=> c \in DOMAIN w) /\ (c \in DOMAIN w => W[c] = w[c])
    BY <1>1, BumpCells
  <1>4. \A c \in Cells : c[1] # "hash" => (W ++ db)[c] = (w ++ db)[c]
    BY <1>1, BumpFrame
  <1> HIDE DEF W
  <1>5. \A k, x : k # "hash" => (<<k, x>> \in DOMAIN W <=> <<k, x>> \in DOMAIN w) /\ (<<k, x>> \in DOMAIN w => W[<<k, x>>] = w[<<k, x>>])
    <2> TAKE k, x
    <2>1. <<k, x>>[1] = k
      OBVIOUS
    <2> QED
      BY <1>3, <2>1
  <1>6. \A k, x, y : k # "hash" => (<<k, x, y>> \in DOMAIN W <=> <<k, x, y>> \in DOMAIN w)
                                   /\ (<<k, x, y>> \in DOMAIN w => W[<<k, x, y>>] = w[<<k, x, y>>])
    <2> TAKE k, x, y
    <2>1. <<k, x, y>>[1] = k
      OBVIOUS
    <2> QED
      BY <1>3, <2>1
  <1>7. \A e \in Entities : (W ++ db)[<<"elive", e>>] = (w ++ db)[<<"elive", e>>]
    BY <1>4 DEF Cells
  <1>8. \A b \in Bases : (W ++ db)[<<"blive", b>>] = (w ++ db)[<<"blive", b>>]
    BY <1>4 DEF Cells
  <1>9. \A g \in Genes : (W ++ db)[<<"glive", g>>] = (w ++ db)[<<"glive", g>>]
    BY <1>4 DEF Cells
  <1>10. Whole(W)
    BY <1>1, <1>5 DEF Whole
  <1>11. Anchored(W, db, top)
    BY <1>1, <1>5, <1>6, <1>7, <1>8, <1>9 DEF Anchored
  <1>12. LeavesBases(w) => LeavesBases(W)
    BY <1>5 DEF LeavesBases
  <1> QED
    BY <1>1, <1>2, <1>10, <1>11, <1>12 DEF Sound, W

-----------------------------------------------------------------------------
(* Commit                                                                  *)

LEMMA UniqueIsNoConflict ==
    ASSUME NEW h \in Handlers
    PROVE  Unique(h) <=> ~Conflicts(tx[h].w, db)
  <1>1. Unique(h) => ~Conflicts(tx[h].w, db)
    BY DEF Unique, RowsUnique, Conflicts, Of
  <1>2. ~Conflicts(tx[h].w, db) => Unique(h)
    BY DEF Unique, RowsUnique, Conflicts, Of
  <1> QED
    BY <1>1, <1>2

LEMMA LiveSlugsAre == LiveSlugs = SlugsOf(db)
  BY DEF LiveSlugs, SlugsOf, Of

\* A cell after w is what w writes or what was there.
LEMMA OverCell ==
    ASSUME NEW v, Table(v), NEW w, NEW c \in Cells
    PROVE  (c \in DOMAIN w /\ (w ++ v)[c] = w[c]) \/ (c \notin DOMAIN w /\ (w ++ v)[c] = v[c])
  BY OverWritten, OverLeft DEF Table

LEMMA CommitConsistent ==
    ASSUME NEW v, Consistent(v), NEW w, Fits(w), Whole(w), ~Conflicts(w, v)
    PROVE  Consistent(w ++ v)
  <1> DEFINE u == w ++ v
  <1>0. Table(v)
    BY DEF Consistent
  <1>1. Table(u)
    BY <1>0, OverTable
  <1>2. ASSUME NEW b \in Bases, Live(u, "blive", b)
        PROVE  u[<<"slug", b>>] \in Slugs /\ (<<"slug", b>> \in DOMAIN w \/ (Live(v, "blive", b) /\ u[<<"slug", b>>] = v[<<"slug", b>>]))
    <2>1. <<"blive", b>> \in Cells /\ <<"slug", b>> \in Cells
      BY DEF Cells
    <2>2. CASE <<"slug", b>> \in DOMAIN w
      BY <2>2, OverWritten DEF Whole
    <2>3. CASE <<"slug", b>> \notin DOMAIN w
      <3>1. <<"blive", b>> \notin DOMAIN w
        BY <1>2, <2>3, OverWritten DEF Whole, Live
      <3>2. u[<<"slug", b>>] = v[<<"slug", b>>] /\ u[<<"blive", b>>] = v[<<"blive", b>>]
        BY <1>0, <2>1, <2>3, <3>1, OverCell
      <3> QED
        BY <1>2, <3>2 DEF Consistent, Live
    <2> QED
      BY <2>2, <2>3
  <1>3. ASSUME NEW b \in Bases, NEW d \in Bases, Live(u, "blive", b), Live(u, "blive", d), u[<<"slug", b>>] = u[<<"slug", d>>]
        PROVE  b = d
    <2>1. ASSUME NEW x \in Bases, NEW y \in Bases, <<"slug", x>> \in DOMAIN w, Live(v, "blive", y), u[<<"slug", x>>] = v[<<"slug", y>>]
          PROVE  FALSE
      <3>1. y \in BaseWithSlug(v, w[<<"slug", x>>])
        BY <2>1, OverWritten DEF BaseWithSlug
      <3>2. <<"slug", x>>[1] = "slug"
        OBVIOUS
      <3> QED
        BY <2>1, <3>1, <3>2 DEF Conflicts
    <2>2. CASE <<"slug", b>> \in DOMAIN w /\ <<"slug", d>> \in DOMAIN w
      BY <2>2 DEF Whole
    <2>3. CASE <<"slug", b>> \in DOMAIN w /\ <<"slug", d>> \notin DOMAIN w
      BY <1>2, <1>3, <2>1, <2>3
    <2>4. CASE <<"slug", b>> \notin DOMAIN w /\ <<"slug", d>> \in DOMAIN w
      BY <1>2, <1>3, <2>1, <2>4
    <2>5. CASE <<"slug", b>> \notin DOMAIN w /\ <<"slug", d>> \notin DOMAIN w
      <3>1. /\ Live(v, "blive", b) /\ u[<<"slug", b>>] = v[<<"slug", b>>]
            /\ Live(v, "blive", d) /\ u[<<"slug", d>>] = v[<<"slug", d>>]
        BY <1>2, <1>3, <2>5
      <3> QED
        BY <1>3, <3>1 DEF Consistent
    <2> QED
      BY <2>2, <2>3, <2>4, <2>5
  <1>4. ASSUME NEW e \in Entities, Live(u, "elive", e), u[<<"cerebellum", e>>]
        PROVE  \/ <<"cerebellum", e>> \in DOMAIN w /\ ~HasCerebellum(v)
               \/ <<"cerebellum", e>> \notin DOMAIN w /\ Live(v, "elive", e) /\ v[<<"cerebellum", e>>]
    <2>1. <<"elive", e>> \in Cells /\ <<"cerebellum", e>> \in Cells
      BY DEF Cells
    <2>2. CASE <<"cerebellum", e>> \in DOMAIN w
      <3>1. w[<<"cerebellum", e>>]
        BY <1>4, <2>2, OverWritten
      <3> QED
        BY <2>2, <3>1 DEF Conflicts
    <2>3. CASE <<"cerebellum", e>> \notin DOMAIN w
      <3>1. <<"elive", e>> \notin DOMAIN w
        BY <1>4, <2>3, OverWritten DEF Whole, Live
      <3>2. u[<<"cerebellum", e>>] = v[<<"cerebellum", e>>] /\ u[<<"elive", e>>] = v[<<"elive", e>>]
        BY <1>0, <2>1, <2>3, <3>1, OverCell
      <3> QED
        BY <1>4, <2>3, <3>2 DEF Live
    <2> QED
      BY <2>2, <2>3
  <1>5. ASSUME NEW e \in Entities, NEW f \in Entities, Live(u, "elive", e), u[<<"cerebellum", e>>],
               Live(u, "elive", f), u[<<"cerebellum", f>>]
        PROVE  e = f
    <2>1. CASE <<"cerebellum", e>> \in DOMAIN w /\ <<"cerebellum", f>> \in DOMAIN w
      BY <2>1 DEF Whole
    <2>2. CASE <<"cerebellum", e>> \in DOMAIN w /\ <<"cerebellum", f>> \notin DOMAIN w
      BY <1>4, <1>5, <2>2 DEF HasCerebellum
    <2>3. CASE <<"cerebellum", e>> \notin DOMAIN w /\ <<"cerebellum", f>> \in DOMAIN w
      BY <1>4, <1>5, <2>3 DEF HasCerebellum
    <2>4. CASE <<"cerebellum", e>> \notin DOMAIN w /\ <<"cerebellum", f>> \notin DOMAIN w
      BY <1>4, <1>5, <2>4 DEF Consistent
    <2> QED
      BY <2>1, <2>2, <2>3, <2>4
  <1>6. ASSUME NEW i \in Instances, Live(u, "ilive", i) PROVE u[<<"of", i>>] \in Entities
    <2>1. <<"ilive", i>> \in Cells /\ <<"of", i>> \in Cells
      BY DEF Cells
    <2>2. CASE <<"of", i>> \in DOMAIN w
      BY <2>2, OverWritten DEF Whole
    <2>3. CASE <<"of", i>> \notin DOMAIN w
      <3>1. <<"ilive", i>> \notin DOMAIN w
        BY <1>6, <2>3, OverWritten DEF Whole, Live
      <3>2. u[<<"of", i>>] = v[<<"of", i>>] /\ u[<<"ilive", i>>] = v[<<"ilive", i>>]
        BY <1>0, <2>1, <2>3, <3>1, OverCell
      <3> QED
        BY <1>6, <3>2 DEF Consistent, Live
    <2> QED
      BY <2>2, <2>3
  <1> HIDE DEF u
  <1>7. \A b \in Bases : Live(u, "blive", b) => u[<<"slug", b>>] \in Slugs
    BY <1>2
  <1>8. \A b, d \in Bases : Live(u, "blive", b) /\ Live(u, "blive", d) /\ u[<<"slug", b>>] = u[<<"slug", d>>] => b = d
    BY <1>3
  <1>9. \A e, f \in Entities :
           Live(u, "elive", e) /\ u[<<"cerebellum", e>>] /\ Live(u, "elive", f) /\ u[<<"cerebellum", f>>] => e = f
    BY <1>5
  <1>10. \A i \in Instances : Live(u, "ilive", i) => u[<<"of", i>>] \in Entities
    BY <1>6
  <1>11. Consistent(u)
    BY <1>1, <1>7, <1>8, <1>9, <1>10 DEF Consistent
  <1> QED
    BY <1>11 DEF u

\* What exists goes on existing.
LEMMA NothingUnmade ==
    ASSUME NEW v, Table(v), NEW w, Whole(w)
    PROVE  /\ \A e \in Entities : v[<<"elive", e>>] # "none" => (w ++ v)[<<"elive", e>>] # "none"
           /\ \A b \in Bases : v[<<"blive", b>>] # "none" => (w ++ v)[<<"blive", b>>] # "none"
           /\ \A g \in Genes : v[<<"glive", g>>] # "none" => (w ++ v)[<<"glive", g>>] # "none"
  <1>1. ASSUME NEW e \in Entities, v[<<"elive", e>>] # "none" PROVE (w ++ v)[<<"elive", e>>] # "none"
    <2>1. <<"elive", e>> \in Cells
      BY DEF Cells
    <2> QED
      BY <1>1, <2>1, OverCell DEF Whole
  <1>2. ASSUME NEW b \in Bases, v[<<"blive", b>>] # "none" PROVE (w ++ v)[<<"blive", b>>] # "none"
    <2>1. <<"blive", b>> \in Cells
      BY DEF Cells
    <2> QED
      BY <1>2, <2>1, OverCell DEF Whole
  <1>3. ASSUME NEW g \in Genes, v[<<"glive", g>>] # "none" PROVE (w ++ v)[<<"glive", g>>] # "none"
    <2>1. <<"glive", g>> \in Cells
      BY DEF Cells
    <2> QED
      BY <1>3, <2>1, OverCell DEF Whole
  <1> QED
    BY <1>1, <1>2, <1>3

LEMMA CommitLinked ==
    ASSUME NEW v, Table(v), NEW top, Linked(v, top), NEW w, Fits(w), Whole(w), Anchored(w, v, top)
    PROVE  Linked(w ++ v, top)
  <1> DEFINE u == w ++ v
  <1>1. ASSUME NEW n \in Names PROVE u[<<"row", n>>] =< top
    <2>1. <<"row", n>> \in Cells
      BY DEF Cells
    <2> QED
      BY <2>1, OverCell DEF Anchored, Linked
  <1>2. ASSUME NEW e \in Entities, NEW r \in Rows, u[<<"ecap", e, r>>] PROVE r[2] =< top /\ u[<<"elive", e>>] # "none"
    <2>1. <<"ecap", e, r>> \in Cells
      BY DEF Cells
    <2>2. \/ <<"ecap", e, r>> \in DOMAIN w /\ w[<<"ecap", e, r>>]
          \/ v[<<"ecap", e, r>>]
      BY <1>2, <2>1, OverCell
    <2> QED
      BY <2>2, NothingUnmade DEF Anchored, Linked
  <1>3. ASSUME NEW b \in Bases, NEW r \in Rows, u[<<"bcap", b, r>>] PROVE r[2] =< top /\ u[<<"blive", b>>] # "none"
    <2>1. <<"bcap", b, r>> \in Cells
      BY DEF Cells
    <2>2. \/ <<"bcap", b, r>> \in DOMAIN w /\ w[<<"bcap", b, r>>]
          \/ v[<<"bcap", b, r>>]
      BY <1>3, <2>1, OverCell
    <2> QED
      BY <2>2, NothingUnmade DEF Anchored, Linked
  <1>4. ASSUME NEW e \in Entities, NEW g \in Genes, u[<<"egene", e, g>>]
        PROVE  u[<<"elive", e>>] # "none" /\ u[<<"glive", g>>] # "none"
    <2>1. <<"egene", e, g>> \in Cells
      BY DEF Cells
    <2>2. \/ <<"egene", e, g>> \in DOMAIN w /\ w[<<"egene", e, g>>]
          \/ v[<<"egene", e, g>>]
      BY <1>4, <2>1, OverCell
    <2> QED
      BY <2>2, NothingUnmade DEF Anchored, Linked
  <1>5. ASSUME NEW b \in Bases, NEW g \in Genes, u[<<"bgene", b, g>>]
        PROVE  u[<<"blive", b>>] # "none" /\ u[<<"glive", g>>] # "none"
    <2>1. <<"bgene", b, g>> \in Cells
      BY DEF Cells
    <2>2. \/ <<"bgene", b, g>> \in DOMAIN w /\ w[<<"bgene", b, g>>]
          \/ v[<<"bgene", b, g>>]
      BY <1>5, <2>1, OverCell
    <2> QED
      BY <2>2, NothingUnmade DEF Anchored, Linked
  <1> QED
    BY <1>1, <1>2, <1>3, <1>4, <1>5 DEF Linked

\* Another request stays sound when w is committed.
LEMMA CommitAnchored ==
    ASSUME NEW v, Table(v), NEW w, Fits(w), Whole(w), NEW x, Fits(x), Whole(x), NEW top, Anchored(x, v, top)
    PROVE  Anchored(x, w ++ v, top)
  <1> DEFINE u == w ++ v
  <1>1. Table(u)
    BY OverTable
  <1>2. ASSUME NEW e \in Entities, (x ++ v)[<<"elive", e>>] # "none" PROVE (x ++ u)[<<"elive", e>>] # "none"
    <2>1. <<"elive", e>> \in Cells
      BY DEF Cells
    <2>2. u[<<"elive", e>>] # "none" \/ <<"elive", e>> \in DOMAIN x
      BY <1>2, <2>1, OverCell, NothingUnmade DEF u
    <2>3. CASE <<"elive", e>> \in DOMAIN x
      <3>1. (x ++ u)[<<"elive", e>>] = x[<<"elive", e>>]
        BY <2>3, OverWritten
      <3> QED
        BY <2>3, <3>1 DEF Whole
    <2>4. CASE <<"elive", e>> \notin DOMAIN x
      <3>1. (x ++ u)[<<"elive", e>>] = u[<<"elive", e>>]
        BY <1>1, <2>1, <2>4, OverCell
      <3> QED
        BY <2>2, <2>4, <3>1
    <2> QED
      BY <2>3, <2>4
  <1>3. ASSUME NEW b \in Bases, (x ++ v)[<<"blive", b>>] # "none" PROVE (x ++ u)[<<"blive", b>>] # "none"
    <2>1. <<"blive", b>> \in Cells
      BY DEF Cells
    <2>2. u[<<"blive", b>>] # "none" \/ <<"blive", b>> \in DOMAIN x
      BY <1>3, <2>1, OverCell, NothingUnmade DEF u
    <2>3. CASE <<"blive", b>> \in DOMAIN x
      <3>1. (x ++ u)[<<"blive", b>>] = x[<<"blive", b>>]
        BY <2>3, OverWritten
      <3> QED
        BY <2>3, <3>1 DEF Whole
    <2>4. CASE <<"blive", b>> \notin DOMAIN x
      <3>1. (x ++ u)[<<"blive", b>>] = u[<<"blive", b>>]
        BY <1>1, <2>1, <2>4, OverCell
      <3> QED
        BY <2>2, <2>4, <3>1
    <2> QED
      BY <2>3, <2>4
  <1>4. ASSUME NEW g \in Genes, (x ++ v)[<<"glive", g>>] # "none" PROVE (x ++ u)[<<"glive", g>>] # "none"
    <2>1. <<"glive", g>> \in Cells
      BY DEF Cells
    <2>2. u[<<"glive", g>>] # "none" \/ <<"glive", g>> \in DOMAIN x
      BY <1>4, <2>1, OverCell, NothingUnmade DEF u
    <2>3. CASE <<"glive", g>> \in DOMAIN x
      <3>1. (x ++ u)[<<"glive", g>>] = x[<<"glive", g>>]
        BY <2>3, OverWritten
      <3> QED
        BY <2>3, <3>1 DEF Whole
    <2>4. CASE <<"glive", g>> \notin DOMAIN x
      <3>1. (x ++ u)[<<"glive", g>>] = u[<<"glive", g>>]
        BY <1>1, <2>1, <2>4, OverCell
      <3> QED
        BY <2>2, <2>4, <3>1
    <2> QED
      BY <2>3, <2>4
  <1> HIDE DEF u
  <1>5. Anchored(x, u, top)
    BY <1>2, <1>3, <1>4 DEF Anchored
  <1> QED
    BY <1>5 DEF u

-----------------------------------------------------------------------------
(* Steps of a request                                                      *)

LEMMA IdleFields ==
    /\ DOMAIN Idle = {"phase", "kind", "w", "src", "new", "over", "cache"}
    /\ Idle.phase = "idle" /\ Idle.over = FALSE /\ Idle.cache = {} /\ Idle.w = Nothing /\ DOMAIN Idle.w = {}
  BY DEF Idle, Nothing

LEMMA IdleRequest == RequestInv(Idle)
  BY IdleFields DEF RequestInv

LEMMA AnchoredLater ==
    ASSUME NEW w, NEW v, Fits(w), NEW top \in Nat, Anchored(w, v, top)
    PROVE  Anchored(w, v, top + 1)
  <1>1. ASSUME NEW n \in Names, <<"row", n>> \in DOMAIN w PROVE w[<<"row", n>>] =< top + 1
    <2>1. w[<<"row", n>>] \in 0 .. MaxRequests
      BY <1>1 DEF Fits, Column
    <2>2. w[<<"row", n>>] =< top
      BY <1>1 DEF Anchored
    <2> QED
      BY <2>1, <2>2, RequestsBound
  <1>2. \A r \in Rows : r[2] =< top => r[2] =< top + 1
    BY RequestsBound DEF Rows
  <1> QED
    BY <1>1, <1>2 DEF Anchored

LEMMA LinkedLater ==
    ASSUME NEW v, Table(v), NEW top \in Nat, Linked(v, top)
    PROVE  Linked(v, top + 1)
  <1>1. ASSUME NEW n \in Names PROVE v[<<"row", n>>] =< top + 1
    <2>1. v[<<"row", n>>] \in 0 .. MaxRequests
      BY NameColumns
    <2>2. v[<<"row", n>>] =< top
      BY DEF Linked
    <2> QED
      BY <2>1, <2>2, RequestsBound
  <1>2. \A r \in Rows : r[2] =< top => r[2] =< top + 1
    BY RequestsBound DEF Rows
  <1> QED
    BY <1>1, <1>2 DEF Linked

\* A request that reads the committed state keeps the invariant when what it will
\* write is sound and what it promises holds of that state.
LEMMA RequestKeeps ==
    ASSUME CatalogInv, NEW h \in Handlers, NEW kind, NEW src, NEW new, NEW w, Request(h, kind, src, new, w),
           Sound(kind, w, db, served + 1), Promise(kind, src, new, w, db)
    PROVE  CatalogInv'
  <1>1. served \in Nat /\ served + 1 \in 0 .. MaxRequests /\ served' = served + 1 /\ db' = db /\ registry' = registry
    BY RequestsBound DEF CatalogInv, RequestTypes, Request
  <1>2. Table(db)
    BY DEF CatalogInv, Consistent
  <1>3. Consistent(db') /\ Linked(db', served')
    BY <1>1, <1>2, LinkedLater DEF CatalogInv
  <1> DEFINE r == [Idle EXCEPT !.phase = "open", !.kind = kind, !.src = src, !.new = new, !.w = w]
  <1>4. tx' = [tx EXCEPT ![h] = r]
    BY DEF Request
  <1>5. /\ DOMAIN r = {"phase", "kind", "w", "src", "new", "over", "cache"}
        /\ r.phase = "open" /\ r.kind = kind /\ r.w = w /\ r.src = src /\ r.new = new /\ r.over = FALSE /\ r.cache = {}
    BY DEF Idle
  <1>6. DOMAIN w \subseteq Cells
    BY DEF Sound, Fits
  <1> HIDE DEF r
  <1>7. DOMAIN tx = Handlers
    BY DEF CatalogInv, RequestTypes
  <1>8. tx' = [g \in Handlers |-> tx'[g]] /\ tx'[h] = r /\ \A g \in Handlers : g # h => tx'[g] = tx[g]
    BY <1>4, <1>7
  <1>9. RequestTypes'
    BY <1>1, <1>5, <1>6, <1>8 DEF CatalogInv, RequestTypes
  <1>10. ASSUME NEW g \in Handlers PROVE RequestInv(tx[g])'
    <2>1. CASE g = h
      <3>1. Sound(kind, w, db', served') /\ Promise(kind, src, new, w, db')
        BY <1>1
      <3> QED
        BY <2>1, <1>5, <1>8, <3>1 DEF RequestInv
    <2>2. CASE g # h
      <3>1. tx'[g] = tx[g] /\ RequestInv(tx[g])
        BY <2>2, <1>8 DEF CatalogInv
      <3>2. tx[g].phase = "open" => Sound(tx[g].kind, tx[g].w, db, served + 1)
        BY <1>1, <3>1, AnchoredLater DEF RequestInv, Sound
      <3> QED
        BY <1>1, <3>1, <3>2 DEF RequestInv
    <2> QED
      BY <2>1, <2>2
  <1> QED
    BY <1>3, <1>9, <1>10 DEF CatalogInv

LEMMA CatalogCommitKeeps ==
    ASSUME CatalogInv, NEW h \in Handlers, Commit(h)
    PROVE  CatalogInv'
  <1> DEFINE w == tx[h].w
  <1>1. tx[h].phase = "open" /\ ~Conflicts(w, db) /\ db' = w ++ db /\ registry' = registry /\ served' = served
    BY UniqueIsNoConflict DEF Commit
  <1>2. Table(db) /\ Consistent(db) /\ Linked(db, served)
    BY DEF CatalogInv, Consistent
  <1>3. Fits(w) /\ Whole(w) /\ Anchored(w, db, served)
    BY <1>1 DEF CatalogInv, RequestInv, Sound
  <1>4. Consistent(db') /\ Linked(db', served')
    BY <1>1, <1>2, <1>3, CommitConsistent, CommitLinked
  <1>5. tx' = [g \in Handlers |->
                IF g = h THEN IF Reloads(tx[h].kind) THEN [tx[h] EXCEPT !.phase = "reload"] ELSE Idle
                ELSE IF tx[g].phase = "idle" THEN tx[g] ELSE [tx[g] EXCEPT !.over = TRUE]]
    BY DEF Commit
  <1>6. \A g \in Handlers : DOMAIN tx[g] = {"phase", "kind", "w", "src", "new", "over", "cache"}
    BY DEF CatalogInv, RequestTypes
  <1>7. ASSUME NEW g \in Handlers
        PROVE  /\ DOMAIN tx'[g] = {"phase", "kind", "w", "src", "new", "over", "cache"}
               /\ tx'[g].phase \in {"idle", "open", "reload", "store"} /\ tx'[g].over \in BOOLEAN
               /\ tx'[g].cache \subseteq Slugs /\ DOMAIN tx'[g].w \subseteq Cells
               /\ RequestInv(tx[g])'
    <2>1. /\ tx[g].phase \in {"idle", "open", "reload", "store"} /\ tx[g].over \in BOOLEAN
          /\ tx[g].cache \subseteq Slugs /\ DOMAIN tx[g].w \subseteq Cells
      BY DEF CatalogInv, RequestTypes
    <2>2. CASE g = h /\ ~Reloads(tx[h].kind)
      <3>1. tx'[g] = Idle
        BY <2>2, <1>5
      <3> QED
        BY <3>1, IdleFields DEF RequestInv
    <2>3. CASE g = h /\ Reloads(tx[h].kind)
      <3>1. tx'[g] = [tx[h] EXCEPT !.phase = "reload"]
        BY <2>3, <1>5
      <3>2. /\ DOMAIN tx'[g] = DOMAIN tx[h] /\ tx'[g].phase = "reload" /\ tx'[g].over = tx[h].over
            /\ tx'[g].cache = tx[h].cache /\ tx'[g].w = tx[h].w
        BY <3>1, <1>6
      <3> QED
        BY <2>1, <2>3, <3>2, <1>6 DEF RequestInv
    <2>4. CASE g # h /\ tx[g].phase = "idle"
      <3>1. tx'[g] = tx[g]
        BY <2>4, <1>5
      <3> QED
        BY <2>1, <2>4, <3>1, <1>6 DEF RequestInv
    <2>5. CASE g # h /\ tx[g].phase # "idle"
      <3>1. tx'[g] = [tx[g] EXCEPT !.over = TRUE]
        BY <2>5, <1>5
      <3>2. /\ DOMAIN tx'[g] = DOMAIN tx[g] /\ tx'[g].phase = tx[g].phase /\ tx'[g].over = TRUE
            /\ tx'[g].cache = tx[g].cache /\ tx'[g].w = tx[g].w /\ tx'[g].kind = tx[g].kind
        BY <3>1, <1>6
      <3>3. tx[g].phase = "open" => Sound(tx[g].kind, tx[g].w, db', served')
        <4> SUFFICES ASSUME tx[g].phase = "open" PROVE Sound(tx[g].kind, tx[g].w, db', served')
          OBVIOUS
        <4>1. Sound(tx[g].kind, tx[g].w, db, served)
          BY DEF CatalogInv, RequestInv
        <4>2. Anchored(tx[g].w, w ++ db, served)
          BY <4>1, <1>2, <1>3, CommitAnchored DEF Sound
        <4> QED
          BY <4>1, <4>2, <1>1 DEF Sound
      <3> QED
        BY <2>1, <3>2, <3>3, <1>6 DEF RequestInv
    <2> QED
      BY <2>2, <2>3, <2>4, <2>5
  <1>8. tx' = [g \in Handlers |-> tx'[g]]
    BY <1>5
  <1>9. RequestTypes'
    BY <1>1, <1>7, <1>8 DEF CatalogInv, RequestTypes
  <1> QED
    BY <1>4, <1>7, <1>9 DEF CatalogInv

\* The other steps change the request of one handler only.
LEMMA HandlerKeeps ==
    ASSUME CatalogInv, NEW h \in Handlers, NEW r, tx' = [tx EXCEPT ![h] = r], UNCHANGED <<db, served>>, registry' \subseteq Slugs,
           DOMAIN r = {"phase", "kind", "w", "src", "new", "over", "cache"},
           r.phase \in {"idle", "open", "reload", "store"}, r.over \in BOOLEAN, r.cache \subseteq Slugs, DOMAIN r.w \subseteq Cells,
           r.phase # "open", r.phase = "store" => r.cache = SlugsOf(db)
    PROVE  CatalogInv'
  <1>1. DOMAIN tx = Handlers
    BY DEF CatalogInv, RequestTypes
  <1>2. tx' = [g \in Handlers |-> tx'[g]] /\ tx'[h] = r /\ \A g \in Handlers : g # h => tx'[g] = tx[g]
    BY <1>1
  <1>3. RequestTypes'
    BY <1>2 DEF CatalogInv, RequestTypes
  <1>4. ASSUME NEW g \in Handlers PROVE RequestInv(tx[g])'
    <2>1. CASE g = h
      BY <2>1, <1>2 DEF RequestInv
    <2>2. CASE g # h
      <3>1. tx'[g] = tx[g] /\ RequestInv(tx[g])
        BY <2>2, <1>2 DEF CatalogInv
      <3> QED
        BY <3>1 DEF RequestInv
    <2> QED
      BY <2>1, <2>2
  <1> QED
    BY <1>3, <1>4 DEF CatalogInv

LEMMA AbortKeeps ==
    ASSUME CatalogInv, NEW h \in Handlers, Abort(h)
    PROVE  CatalogInv'
  <1>1. registry \subseteq Slugs
    BY DEF CatalogInv, RequestTypes
  <1>2. tx' = [tx EXCEPT ![h] = Idle] /\ UNCHANGED <<db, registry, served>>
    BY DEF Abort
  <1> QED
    BY <1>1, <1>2, IdleFields, HandlerKeeps

LEMMA ReloadStoreKeeps ==
    ASSUME CatalogInv, NEW h \in Handlers, ReloadStore(h)
    PROVE  CatalogInv'
  <1>1. tx[h].cache \subseteq Slugs
    BY DEF CatalogInv, RequestTypes
  <1>2. tx' = [tx EXCEPT ![h] = Idle] /\ UNCHANGED <<db, served>> /\ registry' = tx[h].cache
    BY DEF ReloadStore
  <1> QED
    BY <1>1, <1>2, IdleFields, HandlerKeeps

LEMMA ReloadQueryKeeps ==
    ASSUME CatalogInv, NEW h \in Handlers, ReloadQuery(h)
    PROVE  CatalogInv'
  <1> DEFINE r == [tx[h] EXCEPT !.phase = "store", !.cache = LiveSlugs]
  <1>1. DOMAIN tx[h] = {"phase", "kind", "w", "src", "new", "over", "cache"} /\ tx[h].over \in BOOLEAN /\ DOMAIN tx[h].w \subseteq Cells
    BY DEF CatalogInv, RequestTypes
  <1>2. DOMAIN tx = Handlers /\ registry \subseteq Slugs
    BY DEF CatalogInv, RequestTypes
  <1>3. tx' = [tx EXCEPT ![h] = r] /\ UNCHANGED <<db, registry, served>>
    BY <1>1, <1>2 DEF ReloadQuery
  <1>4. LiveSlugs = SlugsOf(db) /\ LiveSlugs \subseteq Slugs
    BY LiveSlugsAre DEF SlugsOf, CatalogInv, Consistent
  <1>5. DOMAIN r = DOMAIN tx[h] /\ r.phase = "store" /\ r.cache = LiveSlugs /\ r.over = tx[h].over /\ r.w = tx[h].w
    BY <1>1
  <1> HIDE DEF r
  <1> QED
    BY <1>1, <1>2, <1>3, <1>4, <1>5, HandlerKeeps

-----------------------------------------------------------------------------
(* What the helpers of the requests write                                  *)

LEMMA CatalogFacts ==
    ASSUME CatalogInv
    PROVE  Table(db) /\ Consistent(db) /\ Linked(db, served) /\ served \in Nat /\ served + 1 \in Nat
  BY RequestsBound DEF CatalogInv, Consistent, RequestTypes

LEMMA RequestRoom ==
    ASSUME CatalogInv, NEW h, NEW kind, NEW src, NEW new, NEW w, Request(h, kind, src, new, w)
    PROVE  served + 1 \in 0 .. MaxRequests
  BY RequestsBound DEF CatalogInv, RequestTypes, Request

LEMMA QuietSound ==
    ASSUME NEW w, Fits(w), Kinds(w) \cap {"elive", "blive", "glive", "ilive", "slug", "cerebellum", "of"} = {},
           NEW top, Anchored(w, db, top), NEW kind
    PROVE  Sound(kind, w, db, top)
  BY QuietWhole DEF Sound

\* Routes that promise nothing, and those that promise hashes only
LEMMA PlainPromise ==
    ASSUME NEW kind \in {"create_capability", "update_capability", "delete_capability", "delete_gene", "combine", "distill", "reap"},
           NEW src, NEW new, NEW w
    PROVE  Promise(kind, src, new, w, db)
  BY DEF Promise, Reloads, Reloading, SilentKinds, Copied

LEMMA HashPromise ==
    ASSUME NEW kind \in {"create_gene", "update_gene", "attach_base_gene", "detach_base_gene", "attach_base_capability",
                         "detach_base_capability", "attach_capability", "detach_capability", "attach_gene", "detach_gene",
                         "restart", "refresh"},
           NEW src, NEW new, NEW w, Hashed(w ++ db, db)
    PROVE  Promise(kind, src, new, w, db)
  BY DEF Promise, Reloads, Reloading, SilentKinds, Copied

LEMMA UpsertCells ==
    ASSUME NEW S
    PROVE  /\ \A n \in S : ~db[<<"mlive", n>>] =>
                 /\ {<<"mlive", n>>, <<"row", n>>, <<"text", n>>} \subseteq DOMAIN UpsertCapabilities(S)
                 /\ UpsertCapabilities(S)[<<"mlive", n>>] = TRUE
                 /\ UpsertCapabilities(S)[<<"row", n>>] = served + 1
                 /\ UpsertCapabilities(S)[<<"text", n>>] = "created"
           /\ \A c \in DOMAIN UpsertCapabilities(S) :
                 \E n \in S : ~db[<<"mlive", n>>] /\ c \in {<<"mlive", n>>, <<"row", n>>, <<"text", n>>}
           /\ UpsertCapabilities(S) = [c \in DOMAIN UpsertCapabilities(S) |-> UpsertCapabilities(S)[c]]
  <1> DEFINE new == {n \in S : ~db[<<"mlive", n>>]}
             U == [c \in {"mlive", "row", "text"} \X new |->
                     CASE c[1] = "mlive" -> TRUE
                       [] c[1] = "row" -> served + 1
                       [] OTHER -> "created"]
  <1>1. UpsertCapabilities(S) = U
    BY DEF UpsertCapabilities
  <1>2. U = [c \in DOMAIN U |-> U[c]] /\ DOMAIN U = {"mlive", "row", "text"} \X new
    OBVIOUS
  <1>3. ASSUME NEW n \in S, ~db[<<"mlive", n>>]
        PROVE  /\ {<<"mlive", n>>, <<"row", n>>, <<"text", n>>} \subseteq DOMAIN U
               /\ U[<<"mlive", n>>] = TRUE /\ U[<<"row", n>>] = served + 1 /\ U[<<"text", n>>] = "created"
    <2>1. n \in new
      BY <1>3
    <2>2. \A k \in {"mlive", "row", "text"} : <<k, n>> \in {"mlive", "row", "text"} \X new
      BY <2>1
    <2> HIDE DEF new
    <2>3. \A k \in {"mlive", "row", "text"} : <<k, n>> \in DOMAIN U
      BY <2>2
    <2>4. U[<<"mlive", n>>] = TRUE
      BY <2>2
    <2>5. U[<<"row", n>>] = served + 1
      BY <2>2
    <2>6. U[<<"text", n>>] = "created"
      BY <2>2
    <2> HIDE DEF U
    <2> QED
      BY <2>3, <2>4, <2>5, <2>6
  <1>4. ASSUME NEW c \in DOMAIN U
        PROVE  \E n \in S : ~db[<<"mlive", n>>] /\ c \in {<<"mlive", n>>, <<"row", n>>, <<"text", n>>}
    <2>1. PICK k \in {"mlive", "row", "text"}, n \in new : c = <<k, n>>
      BY <1>2
    <2> QED
      BY <2>1
  <1> HIDE DEF U
  <1> QED
    BY <1>1, <1>2, <1>3, <1>4

LEMMA UpsertSound ==
    ASSUME Table(db), NEW S \in SUBSET Names, served + 1 \in 0 .. MaxRequests, NEW kind
    PROVE  /\ Fits(UpsertCapabilities(S)) /\ Anchored(UpsertCapabilities(S), db, served + 1)
           /\ Sound(kind, UpsertCapabilities(S), db, served + 1)
  <1> DEFINE U == UpsertCapabilities(S)
  <1>1. Kinds(U) \subseteq {"mlive", "row", "text"}
    BY KindsUpsert
  <1>2. ASSUME NEW c \in DOMAIN U PROVE c \in Cells /\ U[c] \in Column(c)
    <2>1. PICK n \in S : ~db[<<"mlive", n>>] /\ c \in {<<"mlive", n>>, <<"row", n>>, <<"text", n>>}
      BY <1>2, UpsertCells
    <2>2. c \in Cells
      BY <2>1 DEF Cells
    <2>3. U[<<"mlive", n>>] = TRUE /\ U[<<"row", n>>] = served + 1 /\ U[<<"text", n>>] = "created"
      BY <2>1, UpsertCells
    <2> HIDE DEF U
    <2>4. CASE c = <<"mlive", n>>
      BY <2>2, <2>3, <2>4, ColumnsOf
    <2>5. CASE c = <<"row", n>>
      BY <2>2, <2>3, <2>5 DEF Column
    <2>6. CASE c = <<"text", n>>
      BY <2>2, <2>3, <2>6 DEF Column, Wordings
    <2> QED
      BY <2>1, <2>4, <2>5, <2>6
  <1>3. Fits(U)
    BY <1>2, UpsertCells DEF Fits
  <1>4. Anchored(U, db, served + 1)
    <2>1. \A x, y : /\ <<"ecap", x, y>> \notin DOMAIN U /\ <<"bcap", x, y>> \notin DOMAIN U
                    /\ <<"egene", x, y>> \notin DOMAIN U /\ <<"bgene", x, y>> \notin DOMAIN U
      BY <1>1, NotOfKind
    <2>2. ASSUME NEW n \in Names, <<"row", n>> \in DOMAIN U PROVE U[<<"row", n>>] = served + 1
      <3>1. PICK m \in S : ~db[<<"mlive", m>>] /\ <<"row", n>> \in {<<"mlive", m>>, <<"row", m>>, <<"text", m>>}
        BY <2>2, UpsertCells
      <3>2. m = n
        BY <3>1
      <3> QED
        BY <3>1, <3>2, UpsertCells
    <2>3. served + 1 =< served + 1
      BY RequestsBound
    <2> HIDE DEF U
    <2> QED
      BY <2>1, <2>2, <2>3 DEF Anchored
  <1>5. Kinds(U) \cap {"elive", "blive", "glive", "ilive", "slug", "cerebellum", "of"} = {}
    BY <1>1
  <1> QED
    BY <1>3, <1>4, <1>5, QuietSound

\* After the upsert every name of S has a live row, a new one if it had none.
LEMMA UpsertRows ==
    ASSUME Table(db), NEW S \in SUBSET Names, NEW n \in Names
    PROVE  LET v == UpsertCapabilities(S) ++ db
           IN  /\ n \in S => v[<<"mlive", n>>] = TRUE
               /\ n \in S /\ ~db[<<"mlive", n>>] => v[<<"row", n>>] = served + 1
               /\ (n \notin S \/ db[<<"mlive", n>>]) =>
                     /\ v[<<"mlive", n>>] = db[<<"mlive", n>>] /\ v[<<"row", n>>] = db[<<"row", n>>]
                     /\ v[<<"text", n>>] = db[<<"text", n>>]
  <1> DEFINE U == UpsertCapabilities(S)
             v == U ++ db
  <1>1. <<"mlive", n>> \in DOMAIN db /\ <<"row", n>> \in DOMAIN db /\ <<"text", n>> \in DOMAIN db
    BY DEF Table, Cells
  <1>2. CASE n \in S /\ ~db[<<"mlive", n>>]
    <2>1. /\ <<"mlive", n>> \in DOMAIN U /\ <<"row", n>> \in DOMAIN U
          /\ U[<<"mlive", n>>] = TRUE /\ U[<<"row", n>>] = served + 1
      BY <1>2, UpsertCells
    <2>3. v[<<"mlive", n>>] = TRUE /\ v[<<"row", n>>] = served + 1
      BY <2>1, OverWritten
    <2> QED
      BY <1>2, <2>3
  <1>3. CASE n \notin S \/ db[<<"mlive", n>>]
    <2>1. ASSUME NEW c \in {<<"mlive", n>>, <<"row", n>>, <<"text", n>>}, c \in DOMAIN U PROVE FALSE
      <3>1. PICK m \in S : ~db[<<"mlive", m>>] /\ c \in {<<"mlive", m>>, <<"row", m>>, <<"text", m>>}
        BY <2>1, UpsertCells
      <3>2. m = n
        BY <3>1
      <3> QED
        BY <3>1, <3>2, <1>3
    <2>2. v[<<"mlive", n>>] = db[<<"mlive", n>>] /\ v[<<"row", n>>] = db[<<"row", n>>] /\ v[<<"text", n>>] = db[<<"text", n>>]
      BY <1>1, <2>1, OverLeft
    <2>3. n \in S => db[<<"mlive", n>>] = TRUE
      BY <1>3, NameColumns
    <2> QED
      BY <1>3, <2>2, <2>3
  <1> QED
    BY <1>2, <1>3

\* A request that changes no surface of a live entity owes no hash.
LEMMA HashedByFrame ==
    ASSUME NEW u, NEW v,
           \A e \in Entities : Live(u, "elive", e) => Live(v, "elive", e) /\ Surface(u, e) = Surface(v, e)
    PROVE  Hashed(u, v)
  BY DEF Hashed

\* Enough that the hashes of E are computed again when all other surfaces stay.
LEMMA HashedByBump ==
    ASSUME Table(db), NEW w, Fits(w), "hash" \notin Kinds(w), NEW E \in SUBSET Entities,
           \A e \in Entities \ E :
              Live(w ++ db, "elive", e) => Live(db, "elive", e) /\ Surface(w ++ db, e) = Surface(db, e)
    PROVE  Hashed(BumpEntities(w, E) ++ db, db)
  <1> DEFINE u == BumpEntities(w, E) ++ db
             v == w ++ db
  <1>1. Table(v)
    BY OverTable
  <1>2. \A c \in Cells : c[1] # "hash" => u[c] = v[c]
    BY BumpFrame
  <1>3. \A e \in Entities : Surface(u, e) = Surface(v, e)
    BY <1>1, <1>2, SameSurfaces
  <1>4. \A e \in E : u[<<"hash", e>>] = Surface(v, e)
    BY BumpCells
  <1>5. \A e \in Entities : u[<<"elive", e>>] = v[<<"elive", e>>]
    BY <1>2 DEF Cells
  <1> HIDE DEF u, v
  <1>6. \A e \in Entities \ E : Live(v, "elive", e) => Live(db, "elive", e) /\ Surface(v, e) = Surface(db, e)
    BY DEF v
  <1>7. Hashed(u, db)
    BY <1>3, <1>4, <1>5, <1>6 DEF Hashed, Live
  <1> QED
    BY <1>7 DEF u

\* A request that writes of the surfaces only the part of x leaves the others alone.
LEMMA OthersUntouched ==
    ASSUME Table(db), NEW w, NEW x,
           \A c \in DOMAIN w :
              \/ c[1] \in {"hash", "active", "runtime", "of", "ilive", "elive", "cerebellum", "bcap"}
              \/ c[1] \in {"ecap", "egene", "prompt", "preset"} /\ c[2] = x,
           NEW e \in Entities, e # x
    PROVE  Surface(w ++ db, e) = Surface(db, e) /\ SurfaceNames(w ++ db, e) = SurfaceNames(db, e)
  <1> DEFINE v == w ++ db
  <1>1. ASSUME NEW k \in {"mlive", "row", "text", "glive", "inline", "blive", "slug"}, NEW y, <<k, y>> \in Cells
        PROVE  v[<<k, y>>] = db[<<k, y>>]
    <2>1. <<k, y>> \notin DOMAIN w
      BY <1>1
    <2> QED
      BY <1>1, <2>1, OverCell
  <1>2. ASSUME NEW k \in {"bgene"}, NEW y, NEW z, <<k, y, z>> \in Cells
        PROVE  v[<<k, y, z>>] = db[<<k, y, z>>]
    <2>1. <<k, y, z>> \notin DOMAIN w
      BY <1>2
    <2> QED
      BY <1>2, <2>1, OverCell
  <1>3. ASSUME NEW k \in {"prompt", "preset"}, <<k, e>> \in Cells PROVE v[<<k, e>>] = db[<<k, e>>]
    <2>1. <<k, e>> \notin DOMAIN w
      BY <1>3
    <2> QED
      BY <1>3, <2>1, OverCell
  <1>4. ASSUME NEW k \in {"ecap", "egene"}, NEW z, <<k, e, z>> \in Cells PROVE v[<<k, e, z>>] = db[<<k, e, z>>]
    <2>1. <<k, e, z>> \notin DOMAIN w
      BY <1>4
    <2> QED
      BY <1>4, <2>1, OverCell
  <1> HIDE DEF v
  <1>5. \A n \in Names : /\ v[<<"mlive", n>>] = db[<<"mlive", n>>] /\ v[<<"row", n>>] = db[<<"row", n>>]
                         /\ v[<<"text", n>>] = db[<<"text", n>>]
    BY <1>1 DEF Cells
  <1>6. \A g \in Genes : v[<<"glive", g>>] = db[<<"glive", g>>] /\ v[<<"inline", g>>] = db[<<"inline", g>>]
    BY <1>1 DEF Cells
  <1>7. \A b \in Bases : v[<<"blive", b>>] = db[<<"blive", b>>] /\ v[<<"slug", b>>] = db[<<"slug", b>>]
    BY <1>1 DEF Cells
  <1>8. \A b \in Bases, g \in Genes : v[<<"bgene", b, g>>] = db[<<"bgene", b, g>>]
    BY <1>2 DEF Cells
  <1>9. v[<<"prompt", e>>] = db[<<"prompt", e>>] /\ v[<<"preset", e>>] = db[<<"preset", e>>]
    BY <1>3 DEF Cells
  <1>10. \A r \in Rows : v[<<"ecap", e, r>>] = db[<<"ecap", e, r>>]
    BY <1>4 DEF Cells
  <1>11. \A g \in Genes : v[<<"egene", e, g>>] = db[<<"egene", e, g>>]
    BY <1>4 DEF Cells
  <1>12. SharedPart(v, db) /\ OwnPart(v, db, e)
    BY <1>5, <1>6, <1>7, <1>8, <1>9, <1>10, <1>11 DEF SharedPart, OwnPart
  <1>13. Surface(v, e) = Surface(db, e) /\ SurfaceNames(v, e) = SurfaceNames(db, e)
    BY <1>12, SurfaceFrame
  <1> QED
    BY <1>13 DEF v

\* A stage that is not written stays.
LEMMA StageKept ==
    ASSUME Table(db), NEW w, "elive" \notin Kinds(w), NEW e \in Entities
    PROVE  Live(w ++ db, "elive", e) <=> Live(db, "elive", e)
  <1>1. <<"elive", e>> \in Cells /\ <<"elive", e>> \notin DOMAIN w
    BY NotOfKind DEF Cells
  <1> QED
    BY <1>1, OverCell DEF Live

-----------------------------------------------------------------------------
(* Capabilities and genes                                                  *)

LEMMA CreateCapabilityKeeps ==
    ASSUME CatalogInv, NEW h \in Handlers, CreateCapability(h)
    PROVE  CatalogInv'
  <1>1. PICK n \in Names : Request(h, "create_capability", None, n, UpsertCapabilities({n}))
    BY DEF CreateCapability
  <1>2. Sound("create_capability", UpsertCapabilities({n}), db, served + 1)
    BY <1>1, CatalogFacts, RequestRoom, UpsertSound
  <1>3. Promise("create_capability", None, n, UpsertCapabilities({n}), db)
    BY PlainPromise
  <1> QED
    BY <1>1, <1>2, <1>3, RequestKeeps

LEMMA UpdateCapabilityKeeps ==
    ASSUME CatalogInv, NEW h \in Handlers, UpdateCapability(h)
    PROVE  CatalogInv'
  <1>1. PICK n \in Names : Request(h, "update_capability", None, n, Put("text", n, "edited"))
    BY DEF UpdateCapability
  <1> DEFINE w == Put("text", n, "edited")
  <1>2. Fits(w)
    <2>1. <<"text", n>> \in Cells /\ "edited" \in Column(<<"text", n>>)
      BY ColumnsOf DEF Cells, Wordings
    <2> QED
      BY <2>1, FitsPut
  <1>3. Kinds(w) = {"text"}
    BY KindsPut
  <1> HIDE DEF w
  <1>4. Sound("update_capability", w, db, served + 1)
    BY <1>2, <1>3, UnlinkedAnchored, QuietSound
  <1>5. Promise("update_capability", None, n, w, db)
    BY PlainPromise
  <1> QED
    BY <1>1, <1>4, <1>5, RequestKeeps DEF w

LEMMA DeleteCapabilityKeeps ==
    ASSUME CatalogInv, NEW h \in Handlers, DeleteCapability(h)
    PROVE  CatalogInv'
  <1>1. PICK n \in Names : Request(h, "delete_capability", None, n, Put("mlive", n, FALSE))
    BY DEF DeleteCapability
  <1> DEFINE w == Put("mlive", n, FALSE)
  <1>2. Fits(w)
    <2>1. <<"mlive", n>> \in Cells /\ FALSE \in Column(<<"mlive", n>>)
      BY ColumnsOf DEF Cells
    <2> QED
      BY <2>1, FitsPut
  <1>3. Kinds(w) = {"mlive"}
    BY KindsPut
  <1> HIDE DEF w
  <1>4. Sound("delete_capability", w, db, served + 1)
    BY <1>2, <1>3, UnlinkedAnchored, QuietSound
  <1>5. Promise("delete_capability", None, n, w, db)
    BY PlainPromise
  <1> QED
    BY <1>1, <1>4, <1>5, RequestKeeps DEF w

\* The two cells of a new gene
LEMMA NewGene ==
    ASSUME NEW g \in Genes, NEW S \in SUBSET Names
    PROVE  LET w == Put("glive", g, "live") ++ Put("inline", g, S)
           IN  /\ Fits(w) /\ Kinds(w) = {"glive", "inline"} /\ DOMAIN w = {<<"glive", g>>, <<"inline", g>>}
               /\ w[<<"glive", g>>] = "live" /\ w[<<"inline", g>>] = S
               /\ Whole(w) /\ LeavesBases(w)
  <1> DEFINE x == Put("glive", g, "live")
             y == Put("inline", g, S)
             w == x ++ y
  <1>1. Fits(x)
    <2>1. <<"glive", g>> \in Cells /\ "live" \in Column(<<"glive", g>>)
      BY ColumnsOf DEF Cells, Stages
    <2> QED
      BY <2>1, FitsPut
  <1>2. Fits(y)
    <2>1. <<"inline", g>> \in Cells /\ S \in Column(<<"inline", g>>)
      BY ColumnsOf DEF Cells
    <2> QED
      BY <2>1, FitsPut
  <1>3. Kinds(x) = {"glive"} /\ DOMAIN x = {<<"glive", g>>} /\ x[<<"glive", g>>] = "live"
    BY KindsPut
  <1>10. Kinds(y) = {"inline"} /\ DOMAIN y = {<<"inline", g>>} /\ y[<<"inline", g>>] = S
    BY KindsPut
  <1> HIDE DEF x, y
  <1>4. Fits(w)
    BY <1>1, <1>2, FitsOver
  <1>5. Kinds(w) = {"glive", "inline"}
    BY <1>3, <1>10, KindsOver
  <1>6. DOMAIN w = {<<"glive", g>>, <<"inline", g>>}
    <2>1. DOMAIN w = DOMAIN x \cup DOMAIN y
      BY OverDomain
    <2> QED
      BY <2>1, <1>3, <1>10
  <1>7. w[<<"glive", g>>] = "live"
    BY <1>3, OverWritten
  <1>8. w[<<"inline", g>>] = S
    BY <1>3, <1>10, OverLeft
  <1> HIDE DEF w
  <1>9. Whole(w) /\ LeavesBases(w)
    <2>1. \A z : /\ <<"elive", z>> \notin DOMAIN w /\ <<"blive", z>> \notin DOMAIN w
                 /\ <<"ilive", z>> \notin DOMAIN w /\ <<"slug", z>> \notin DOMAIN w
                 /\ <<"cerebellum", z>> \notin DOMAIN w /\ <<"of", z>> \notin DOMAIN w
      BY <1>5, NotOfKind
    <2>2. ASSUME NEW z \in Genes, <<"glive", z>> \in DOMAIN w PROVE w[<<"glive", z>>] # "none"
      <3>1. z = g
        BY <2>2, <1>6
      <3> QED
        BY <3>1, <1>7
    <2> QED
      BY <2>1, <2>2 DEF Whole, LeavesBases
  <1> QED
    BY <1>4, <1>5, <1>6, <1>7, <1>8, <1>9 DEF w, x, y

LEMMA CreateAiGeneKeeps ==
    ASSUME CatalogInv, NEW h \in Handlers, CreateAiGene(h)
    PROVE  CatalogInv'
  <1>1. PICK g \in Unused("glive", Genes), S \in SUBSET Names :
           Request(h, "create_gene", None, g, Put("glive", g, "live") ++ Put("inline", g, S))
    BY DEF CreateAiGene
  <1> DEFINE w == Put("glive", g, "live") ++ Put("inline", g, S)
             v == w ++ db
  <1>2. g \in Genes /\ db[<<"glive", g>>] = "none"
    BY DEF Unused
  <1>3. /\ Fits(w) /\ Kinds(w) = {"glive", "inline"} /\ DOMAIN w = {<<"glive", g>>, <<"inline", g>>}
        /\ Whole(w) /\ LeavesBases(w)
    BY <1>2, NewGene
  <1>4. Table(db) /\ Linked(db, served)
    BY CatalogFacts
  <1> HIDE DEF w
  <1>5. Sound("create_gene", w, db, served + 1)
    BY <1>3, UnlinkedAnchored DEF Sound
  <1>6. \A c \in Cells : c[1] \notin {"glive", "inline"} => v[c] = db[c]
    BY <1>3, <1>4, OtherKinds DEF Table
  <1>7. \A x \in Genes : x # g => v[<<"glive", x>>] = db[<<"glive", x>>] /\ v[<<"inline", x>>] = db[<<"inline", x>>]
    <2> SUFFICES ASSUME NEW x \in Genes, x # g PROVE v[<<"glive", x>>] = db[<<"glive", x>>] /\ v[<<"inline", x>>] = db[<<"inline", x>>]
      OBVIOUS
    <2>1. <<"glive", x>> \in Cells /\ <<"inline", x>> \in Cells
      BY DEF Cells
    <2>2. <<"glive", x>> \notin DOMAIN w /\ <<"inline", x>> \notin DOMAIN w
      BY <1>3
    <2> QED
      BY <1>4, <2>1, <2>2, OverCell
  <1> HIDE DEF v
  <1>8. ASSUME NEW e \in Entities, Live(v, "elive", e) PROVE Live(db, "elive", e) /\ Surface(v, e) = Surface(db, e)
    <2>1. /\ v[<<"elive", e>>] = db[<<"elive", e>>] /\ v[<<"prompt", e>>] = db[<<"prompt", e>>]
          /\ v[<<"preset", e>>] = db[<<"preset", e>>]
      BY <1>6 DEF Cells
    <2>2. ASSUME NEW n \in Names
          PROVE  /\ v[<<"text", n>>] = db[<<"text", n>>] /\ v[<<"mlive", n>>] = db[<<"mlive", n>>] /\ Row(v, n) = Row(db, n)
                 /\ v[<<"ecap", e, Row(db, n)>>] = db[<<"ecap", e, Row(db, n)>>]
      <3>1. /\ v[<<"text", n>>] = db[<<"text", n>>] /\ v[<<"mlive", n>>] = db[<<"mlive", n>>]
            /\ v[<<"row", n>>] = db[<<"row", n>>]
        BY <1>6 DEF Cells
      <3>2. Row(v, n) = Row(db, n)
        BY <3>1 DEF Row
      <3>3. Row(db, n) \in Rows
        BY <1>4, NameColumns DEF Row, Rows
      <3>4. <<"ecap", e, Row(db, n)>> \in Cells
        BY <3>3 DEF Cells
      <3> QED
        BY <3>1, <3>2, <3>4, <1>6
    <2>3. LinkedCaps(v, "ecap", e) = LinkedCaps(db, "ecap", e)
      BY <2>2 DEF LinkedCaps
    <2>4. BaseWithSlug(v, v[<<"preset", e>>]) = BaseWithSlug(db, db[<<"preset", e>>])
      <3>1. \A b \in Bases : v[<<"blive", b>>] = db[<<"blive", b>>] /\ v[<<"slug", b>>] = db[<<"slug", b>>]
        BY <1>6 DEF Cells
      <3> QED
        BY <2>1, <3>1 DEF BaseWithSlug, Live
    <2>5. \A x \in Genes : v[<<"egene", e, x>>] = db[<<"egene", e, x>>]
      BY <1>6 DEF Cells
    <2>6. \A b \in Bases, x \in Genes : v[<<"bgene", b, x>>] = db[<<"bgene", b, x>>]
      BY <1>6 DEF Cells
    <2>7. ~db[<<"egene", e, g>>] /\ \A b \in Bases : ~db[<<"bgene", b, g>>]
      BY <1>2, <1>4 DEF Linked
    <2>8. g \notin EffectiveGenes(v, e) /\ g \notin EffectiveGenes(db, e)
      BY <1>2, <2>5, <2>6, <2>7 DEF EffectiveGenes, BaseWithSlug
    <2>9. ASSUME NEW x \in Genes PROVE x \in EffectiveGenes(v, e) <=> x \in EffectiveGenes(db, e)
      <3>1. CASE x = g
        BY <3>1, <2>8
      <3>2. CASE x # g
        <4>1. Live(v, "glive", x) <=> Live(db, "glive", x)
          BY <3>2, <1>7 DEF Live
        <4>2. \A b \in BaseWithSlug(db, db[<<"preset", e>>]) : v[<<"bgene", b, x>>] = db[<<"bgene", b, x>>]
          BY <2>6 DEF BaseWithSlug
        <4> QED
          BY <4>1, <4>2, <2>4, <2>5 DEF EffectiveGenes
      <3> QED
        BY <3>1, <3>2
    <2>10. EffectiveGenes(v, e) = EffectiveGenes(db, e)
      BY <2>9 DEF EffectiveGenes
    <2>11. \A n \in LinkedCaps(db, "ecap", e) : v[<<"text", n>>] = db[<<"text", n>>]
      BY <2>2 DEF LinkedCaps
    <2>12. \A x \in EffectiveGenes(db, e) : v[<<"inline", x>>] = db[<<"inline", x>>]
      BY <1>7, <2>8 DEF EffectiveGenes
    <2>13. Surface(v, e) = Surface(db, e)
      BY <2>1, <2>3, <2>10, <2>11, <2>12, SurfaceFrom
    <2> QED
      BY <1>8, <2>1, <2>13 DEF Live
  <1>9. Hashed(v, db)
    BY <1>8, HashedByFrame
  <1>10. Promise("create_gene", None, g, w, db)
    BY <1>9, HashPromise DEF v
  <1> QED
    BY <1>1, <1>5, <1>10, RequestKeeps DEF w

LEMMA DeleteAiGeneKeeps ==
    ASSUME CatalogInv, NEW h \in Handlers, DeleteAiGene(h)
    PROVE  CatalogInv'
  <1>1. PICK g \in Genes : Request(h, "delete_gene", None, g, Put("glive", g, "gone"))
    BY DEF DeleteAiGene, Of
  <1> DEFINE w == Put("glive", g, "gone")
  <1>2. Fits(w)
    <2>1. <<"glive", g>> \in Cells /\ "gone" \in Column(<<"glive", g>>)
      BY ColumnsOf DEF Cells, Stages
    <2> QED
      BY <2>1, FitsPut
  <1>3. Kinds(w) = {"glive"} /\ DOMAIN w = {<<"glive", g>>} /\ w[<<"glive", g>>] = "gone"
    BY KindsPut
  <1> HIDE DEF w
  <1>4. Whole(w) /\ LeavesBases(w)
    <2>1. \A z : /\ <<"elive", z>> \notin DOMAIN w /\ <<"blive", z>> \notin DOMAIN w
                 /\ <<"ilive", z>> \notin DOMAIN w /\ <<"slug", z>> \notin DOMAIN w
                 /\ <<"cerebellum", z>> \notin DOMAIN w /\ <<"of", z>> \notin DOMAIN w
      BY <1>3, NotOfKind
    <2>2. ASSUME NEW z \in Genes, <<"glive", z>> \in DOMAIN w PROVE w[<<"glive", z>>] # "none"
      <3>1. z = g
        BY <2>2, <1>3
      <3> QED
        BY <3>1, <1>3
    <2> QED
      BY <2>1, <2>2 DEF Whole, LeavesBases
  <1>5. Sound("delete_gene", w, db, served + 1)
    BY <1>2, <1>3, <1>4, UnlinkedAnchored DEF Sound
  <1>6. Promise("delete_gene", None, g, w, db)
    BY PlainPromise
  <1> QED
    BY <1>1, <1>5, <1>6, RequestKeeps DEF w

LEMMA CapsKept ==
    ASSUME Table(db), NEW v, \A c \in Cells : c[1] \in {"mlive", "row", "text", "ecap"} => v[c] = db[c], NEW e \in Entities
    PROVE  LinkedCaps(v, "ecap", e) = LinkedCaps(db, "ecap", e) /\ \A n \in Names : v[<<"text", n>>] = db[<<"text", n>>]
  <1>1. ASSUME NEW n \in Names
        PROVE  /\ v[<<"text", n>>] = db[<<"text", n>>] /\ v[<<"mlive", n>>] = db[<<"mlive", n>>] /\ Row(v, n) = Row(db, n)
               /\ v[<<"ecap", e, Row(db, n)>>] = db[<<"ecap", e, Row(db, n)>>]
    <2>1. /\ v[<<"text", n>>] = db[<<"text", n>>] /\ v[<<"mlive", n>>] = db[<<"mlive", n>>]
          /\ v[<<"row", n>>] = db[<<"row", n>>]
      BY DEF Cells
    <2>2. Row(v, n) = Row(db, n)
      BY <2>1 DEF Row
    <2>3. Row(db, n) \in Rows
      BY NameColumns DEF Row, Rows
    <2>4. <<"ecap", e, Row(db, n)>> \in Cells
      BY <2>3 DEF Cells
    <2> QED
      BY <2>1, <2>2, <2>4
  <1> QED
    BY <1>1 DEF LinkedCaps

LEMMA GenesKept ==
    ASSUME Table(db), NEW v, \A c \in Cells : c[1] \in {"glive", "blive", "slug", "preset", "egene", "bgene"} => v[c] = db[c],
           NEW e \in Entities
    PROVE  EffectiveGenes(v, e) = EffectiveGenes(db, e)
  <1>1. v[<<"preset", e>>] = db[<<"preset", e>>]
    BY DEF Cells
  <1>2. \A b \in Bases : v[<<"blive", b>>] = db[<<"blive", b>>] /\ v[<<"slug", b>>] = db[<<"slug", b>>]
    BY DEF Cells
  <1>3. \A g \in Genes : v[<<"glive", g>>] = db[<<"glive", g>>]
    BY DEF Cells
  <1>4. \A g \in Genes : v[<<"egene", e, g>>] = db[<<"egene", e, g>>]
    BY DEF Cells
  <1>5. \A b \in Bases, g \in Genes : v[<<"bgene", b, g>>] = db[<<"bgene", b, g>>]
    BY DEF Cells
  <1>6. BaseWithSlug(v, v[<<"preset", e>>]) = BaseWithSlug(db, db[<<"preset", e>>])
    BY <1>1, <1>2 DEF BaseWithSlug, Live
  <1>7. ASSUME NEW g \in Genes PROVE g \in EffectiveGenes(v, e) <=> g \in EffectiveGenes(db, e)
    <2>1. Live(v, "glive", g) <=> Live(db, "glive", g)
      BY <1>3 DEF Live
    <2>2. \A b \in BaseWithSlug(db, db[<<"preset", e>>]) : v[<<"bgene", b, g>>] = db[<<"bgene", b, g>>]
      BY <1>5 DEF BaseWithSlug
    <2> QED
      BY <2>1, <2>2, <1>4, <1>6 DEF EffectiveGenes
  <1> QED
    BY <1>7 DEF EffectiveGenes

LEMMA SurfaceKept ==
    ASSUME NEW u, NEW v, NEW e, LinkedCaps(u, "ecap", e) = LinkedCaps(v, "ecap", e),
           \A n \in Names : u[<<"text", n>>] = v[<<"text", n>>],
           EffectiveGenes(u, e) = EffectiveGenes(v, e),
           \A g \in EffectiveGenes(v, e) : u[<<"inline", g>>] = v[<<"inline", g>>],
           u[<<"prompt", e>>] = v[<<"prompt", e>>]
    PROVE  Surface(u, e) = Surface(v, e)
  <1>1. LinkedCaps(v, "ecap", e) \subseteq Names
    BY DEF LinkedCaps
  <1>2. InlineCaps(u, e) = InlineCaps(v, e)
    <2>1. {u[<<"inline", g>>] : g \in EffectiveGenes(u, e)} = {v[<<"inline", g>>] : g \in EffectiveGenes(v, e)}
      OBVIOUS
    <2> QED
      BY <2>1 DEF InlineCaps
  <1>3. {<<n, u[<<"text", n>>]>> : n \in LinkedCaps(u, "ecap", e)} = {<<n, v[<<"text", n>>]>> : n \in LinkedCaps(v, "ecap", e)}
    BY <1>1
  <1> QED
    BY <1>2, <1>3 DEF Surface

LEMMA UpdateAiGeneKeeps ==
    ASSUME CatalogInv, NEW h \in Handlers, UpdateAiGene(h)
    PROVE  CatalogInv'
  <1>1. PICK g \in Of("glive", Genes), S \in SUBSET Names :
           LET w == Put("inline", g, S)
           IN  Request(h, "update_gene", None, g, IF S # db[<<"inline", g>>] THEN BumpForGene(w, g) ELSE w)
    BY DEF UpdateAiGene
  <1> DEFINE w == Put("inline", g, S)
             v == w ++ db
             E == {e \in Of("elive", Entities) : db[<<"egene", e, g>>]}
                  \cup UNION {PresetUsers(db, b) : b \in {x \in Of("blive", Bases) : db[<<"bgene", x, g>>]}}
  <1>2. g \in Genes /\ Table(db)
    BY CatalogFacts DEF Of
  <1>3. Fits(w)
    <2>1. <<"inline", g>> \in Cells /\ S \in Column(<<"inline", g>>)
      BY <1>2, ColumnsOf DEF Cells
    <2> QED
      BY <2>1, FitsPut
  <1>4. Kinds(w) = {"inline"} /\ DOMAIN w = {<<"inline", g>>} /\ w[<<"inline", g>>] = S
    BY KindsPut
  <1>5. E \in SUBSET Entities
    BY DEF Of, PresetUsers
  <1>6. BumpForGene(w, g) = BumpEntities(w, E)
    BY DEF BumpForGene
  <1> HIDE DEF w
  <1>7. Sound("update_gene", w, db, served + 1)
    BY <1>3, <1>4, UnlinkedAnchored, QuietSound
  <1>8. Sound("update_gene", BumpEntities(w, E), db, served + 1)
    BY <1>2, <1>4, <1>5, <1>7, BumpSound
  <1>9. \A c \in Cells : c[1] # "inline" => v[c] = db[c]
    BY <1>2, <1>4, OtherKinds DEF Table
  <1>10. \A x \in Genes : x # g => v[<<"inline", x>>] = db[<<"inline", x>>]
    <2> SUFFICES ASSUME NEW x \in Genes, x # g PROVE v[<<"inline", x>>] = db[<<"inline", x>>]
      OBVIOUS
    <2>1. <<"inline", x>> \in Cells /\ <<"inline", x>> \notin DOMAIN w
      BY <1>4 DEF Cells
    <2> QED
      BY <1>2, <2>1, OverCell
  <1>11. v[<<"inline", g>>] = S
    BY <1>4, OverWritten
  <1> HIDE DEF v, E
  <1>12. ASSUME NEW e \in Entities, g \notin EffectiveGenes(db, e) \/ S = db[<<"inline", g>>]
         PROVE  Surface(v, e) = Surface(db, e)
    <2>1. EffectiveGenes(v, e) = EffectiveGenes(db, e)
      BY <1>2, <1>9, GenesKept
    <2>2. LinkedCaps(v, "ecap", e) = LinkedCaps(db, "ecap", e) /\ \A n \in Names : v[<<"text", n>>] = db[<<"text", n>>]
      BY <1>2, <1>9, CapsKept
    <2>3. \A n \in LinkedCaps(db, "ecap", e) : v[<<"text", n>>] = db[<<"text", n>>]
      BY <2>2 DEF LinkedCaps
    <2>4. \A x \in EffectiveGenes(db, e) : v[<<"inline", x>>] = db[<<"inline", x>>]
      BY <1>10, <1>11, <1>12 DEF EffectiveGenes
    <2>5. v[<<"prompt", e>>] = db[<<"prompt", e>>]
      BY <1>9 DEF Cells
    <2> QED
      BY <2>1, <2>2, <2>3, <2>4, <2>5, SurfaceFrom
  <1>13. \A e \in Entities : Live(v, "elive", e) <=> Live(db, "elive", e)
    BY <1>2, <1>4, StageKept DEF v
  <1>14. ASSUME NEW e \in Entities \ E, Live(db, "elive", e) PROVE g \notin EffectiveGenes(db, e)
    <2>1. ~db[<<"egene", e, g>>]
      BY <1>14 DEF E, Of
    <2>2. ASSUME NEW b \in BaseWithSlug(db, db[<<"preset", e>>]), db[<<"bgene", b, g>>] PROVE FALSE
      <3>1. b \in Of("blive", Bases) /\ e \in PresetUsers(db, b)
        BY <1>14, <2>2 DEF BaseWithSlug, PresetUsers, Of
      <3> QED
        BY <1>14, <2>2, <3>1 DEF E
    <2> QED
      BY <2>1, <2>2 DEF EffectiveGenes
  <1>15. CASE S # db[<<"inline", g>>]
    <2>1. Hashed(BumpEntities(w, E) ++ db, db)
      BY <1>2, <1>3, <1>4, <1>5, <1>12, <1>13, <1>14, HashedByBump DEF v
    <2>2. Promise("update_gene", None, g, BumpEntities(w, E), db)
      BY <2>1, HashPromise
    <2>3. Request(h, "update_gene", None, g, BumpEntities(w, E))
      BY <1>1, <1>6, <1>15 DEF w
    <2> QED
      BY <2>2, <2>3, <1>8, RequestKeeps
  <1>16. CASE S = db[<<"inline", g>>]
    <2>1. Hashed(v, db)
      BY <1>12, <1>13, <1>16, HashedByFrame
    <2>2. Promise("update_gene", None, g, w, db)
      BY <2>1, HashPromise DEF v
    <2>3. Request(h, "update_gene", None, g, w)
      BY <1>1, <1>16 DEF w
    <2> QED
      BY <2>2, <2>3, <1>7, RequestKeeps
  <1> QED
    BY <1>15, <1>16

-----------------------------------------------------------------------------
(* Base classes                                                            *)

\* Links of a live base class to genes, whichever way they change
LEMMA BaseGenesKeep ==
    ASSUME CatalogInv, NEW b \in Of("blive", Bases), NEW w, Fits(w),
           \A c \in DOMAIN w : \E g \in Of("glive", Genes) : c = <<"bgene", b, g>>,
           NEW kind \in {"attach_base_gene", "detach_base_gene"}, NEW src, NEW new, NEW h \in Handlers,
           Request(h, kind, src, new, BumpForBase(w, b))
    PROVE  CatalogInv'
  <1> DEFINE v == w ++ db
             E == PresetUsers(db, b)
  <1>1. Table(db) /\ b \in Bases /\ Live(db, "blive", b)
    BY CatalogFacts DEF Of
  <1>2. Kinds(w) \subseteq {"bgene"}
    <2>1. ASSUME NEW c \in DOMAIN w PROVE c[1] = "bgene"
      <3>1. PICK g \in Of("glive", Genes) : c = <<"bgene", b, g>>
        OBVIOUS
      <3> QED
        BY <3>1
    <2> QED
      BY <2>1 DEF Kinds
  <1>3. E \in SUBSET Entities /\ BumpForBase(w, b) = BumpEntities(w, E)
    BY DEF Of, PresetUsers, BumpForBase
  <1>4. Anchored(w, db, served + 1)
    <2>1. /\ \A x : <<"row", x>> \notin DOMAIN w
          /\ \A x, y : <<"ecap", x, y>> \notin DOMAIN w /\ <<"bcap", x, y>> \notin DOMAIN w /\ <<"egene", x, y>> \notin DOMAIN w
      BY <1>2, NotOfKind
    <2>2. ASSUME NEW d \in Bases, NEW g \in Genes, <<"bgene", d, g>> \in DOMAIN w
          PROVE  v[<<"blive", d>>] # "none" /\ v[<<"glive", g>>] # "none"
      <3>1. PICK x \in Of("glive", Genes) : <<"bgene", d, g>> = <<"bgene", b, x>>
        BY <2>2
      <3>2. d = b /\ g = x
        BY <3>1
      <3>3. v[<<"blive", d>>] = db[<<"blive", d>>]
        <4>1. <<"blive", d>> \in Cells /\ <<"blive", d>> \notin DOMAIN w
          BY <1>2, NotOfKind DEF Cells
        <4> QED
          BY <1>1, <4>1, OverCell
      <3>4. v[<<"glive", g>>] = db[<<"glive", g>>]
        <4>1. <<"glive", g>> \in Cells /\ <<"glive", g>> \notin DOMAIN w
          BY <1>2, NotOfKind DEF Cells
        <4> QED
          BY <1>1, <4>1, OverCell
      <3> QED
        BY <1>1, <3>2, <3>3, <3>4 DEF Of, Live
    <2> QED
      BY <2>1, <2>2 DEF Anchored
  <1>5. Sound(kind, w, db, served + 1)
    BY <1>2, <1>4, QuietSound
  <1>6. Sound(kind, BumpEntities(w, E), db, served + 1)
    BY <1>1, <1>2, <1>3, <1>5, BumpSound
  <1>7. \A c \in Cells : c[1] # "bgene" => v[c] = db[c]
    BY <1>1, <1>2, OtherKinds DEF Table
  <1>8. \A d \in Bases, g \in Genes : d # b => v[<<"bgene", d, g>>] = db[<<"bgene", d, g>>]
    <2> SUFFICES ASSUME NEW d \in Bases, NEW g \in Genes, d # b PROVE v[<<"bgene", d, g>>] = db[<<"bgene", d, g>>]
      OBVIOUS
    <2>1. <<"bgene", d, g>> \in Cells
      BY DEF Cells
    <2>2. <<"bgene", d, g>> \notin DOMAIN w
      OBVIOUS
    <2> QED
      BY <1>1, <2>1, <2>2, OverCell
  <1> HIDE DEF v, E
  <1>9. \A e \in Entities : Live(v, "elive", e) <=> Live(db, "elive", e)
    BY <1>1, <1>2, StageKept DEF v
  <1>10. ASSUME NEW e \in Entities \ E, Live(db, "elive", e) PROVE Surface(v, e) = Surface(db, e)
    <2>1. db[<<"preset", e>>] # db[<<"slug", b>>]
      BY <1>10 DEF E, PresetUsers, Of
    <2>2. /\ v[<<"preset", e>>] = db[<<"preset", e>>] /\ v[<<"prompt", e>>] = db[<<"prompt", e>>]
          /\ \A d \in Bases : v[<<"blive", d>>] = db[<<"blive", d>>] /\ v[<<"slug", d>>] = db[<<"slug", d>>]
      BY <1>7 DEF Cells
    <2>3. BaseWithSlug(v, v[<<"preset", e>>]) = BaseWithSlug(db, db[<<"preset", e>>])
      BY <2>2 DEF BaseWithSlug, Live
    <2>4. b \notin BaseWithSlug(db, db[<<"preset", e>>])
      BY <2>1 DEF BaseWithSlug
    <2>5. \A g \in Genes : v[<<"glive", g>>] = db[<<"glive", g>>] /\ v[<<"inline", g>>] = db[<<"inline", g>>]
      BY <1>7 DEF Cells
    <2>6. \A g \in Genes : v[<<"egene", e, g>>] = db[<<"egene", e, g>>]
      BY <1>7 DEF Cells
    <2>7. ASSUME NEW g \in Genes PROVE g \in EffectiveGenes(v, e) <=> g \in EffectiveGenes(db, e)
      <3>1. Live(v, "glive", g) <=> Live(db, "glive", g)
        BY <2>5 DEF Live
      <3>2. \A d \in BaseWithSlug(db, db[<<"preset", e>>]) : v[<<"bgene", d, g>>] = db[<<"bgene", d, g>>]
        BY <1>8, <2>4 DEF BaseWithSlug
      <3> QED
        BY <3>1, <3>2, <2>3, <2>6 DEF EffectiveGenes
    <2>8. EffectiveGenes(v, e) = EffectiveGenes(db, e)
      BY <2>7 DEF EffectiveGenes
    <2>9. LinkedCaps(v, "ecap", e) = LinkedCaps(db, "ecap", e) /\ \A n \in Names : v[<<"text", n>>] = db[<<"text", n>>]
      BY <1>1, <1>7, CapsKept
    <2>10. \A n \in Names : v[<<"text", n>>] = db[<<"text", n>>]
      BY <2>9
    <2>11. \A g \in EffectiveGenes(db, e) : v[<<"inline", g>>] = db[<<"inline", g>>]
      BY <2>5 DEF EffectiveGenes
    <2>13. LinkedCaps(v, "ecap", e) = LinkedCaps(db, "ecap", e)
      BY <2>9
    <2>12. v[<<"prompt", e>>] = db[<<"prompt", e>>]
      BY <2>2
    <2> QED
      BY <2>8, <2>10, <2>11, <2>12, <2>13, SurfaceKept
  <1>11. Hashed(BumpEntities(w, E) ++ db, db)
    BY <1>1, <1>2, <1>3, <1>9, <1>10, HashedByBump DEF v
  <1>12. Promise(kind, src, new, BumpEntities(w, E), db)
    BY <1>11, HashPromise
  <1> QED
    BY <1>3, <1>6, <1>12, RequestKeeps

\* Cells for attaching and detaching a gene of a base class
LEMMA BaseGeneWrites ==
    ASSUME NEW b \in Bases, NEW g \in Of("glive", Genes), NEW w \in {Nothing, Link("bgene", b, {g}), Unlink("bgene", b, g)}
    PROVE  Fits(w) /\ \A c \in DOMAIN w : \E x \in Of("glive", Genes) : c = <<"bgene", b, x>>
  <1>1. g \in Genes /\ <<"bgene", b, g>> \in Cells
    BY DEF Of, Cells
  <1>2. TRUE \in Column(<<"bgene", b, g>>) /\ FALSE \in Column(<<"bgene", b, g>>)
    BY DEF Column
  <1>3. CASE w = Nothing
    BY <1>3, FitsNothing, KindsNothing
  <1>4. CASE w = Link("bgene", b, {g})
    <2>1. Fits(w)
      BY <1>1, <1>2, <1>4, FitsLink
    <2>2. DOMAIN w = {<<"bgene", b, x>> : x \in {g}}
      BY <1>4 DEF Link
    <2> QED
      BY <2>1, <2>2
  <1>5. CASE w = Unlink("bgene", b, g)
    <2>1. Fits(w)
      BY <1>1, <1>2, <1>5, FitsUnlink
    <2>2. DOMAIN w = {<<"bgene", b, g>>}
      BY <1>5 DEF Unlink
    <2> QED
      BY <2>1, <2>2
  <1> QED
    BY <1>3, <1>4, <1>5

LEMMA AttachAiGeneToBaseClassKeeps ==
    ASSUME CatalogInv, NEW h \in Handlers, AttachAiGeneToBaseClass(h)
    PROVE  CatalogInv'
  <1>1. PICK g \in Of("glive", Genes), b \in Of("blive", Bases) :
           Request(h, "attach_base_gene", b, g, BumpForBase(Link("bgene", b, {g}), b))
    BY DEF AttachAiGeneToBaseClass
  <1>2. b \in Bases
    BY DEF Of
  <1> DEFINE w == Link("bgene", b, {g})
  <1>3. Fits(w) /\ \A c \in DOMAIN w : \E x \in Of("glive", Genes) : c = <<"bgene", b, x>>
    BY <1>2, BaseGeneWrites
  <1> QED
    BY <1>1, <1>3, BaseGenesKeep

LEMMA AttachBaseClassAiGeneKeeps ==
    ASSUME CatalogInv, NEW h \in Handlers, AttachBaseClassAiGene(h)
    PROVE  CatalogInv'
  <1>1. PICK g \in Of("glive", Genes), b \in Of("blive", Bases) :
           Request(h, "attach_base_gene", b, g,
                   BumpForBase(IF db[<<"bgene", b, g>>] THEN Nothing ELSE Link("bgene", b, {g}), b))
    BY DEF AttachBaseClassAiGene
  <1>2. b \in Bases
    BY DEF Of
  <1> DEFINE w == IF db[<<"bgene", b, g>>] THEN Nothing ELSE Link("bgene", b, {g})
  <1>3. w \in {Nothing, Link("bgene", b, {g}), Unlink("bgene", b, g)}
    OBVIOUS
  <1> HIDE DEF w
  <1>4. Fits(w) /\ \A c \in DOMAIN w : \E x \in Of("glive", Genes) : c = <<"bgene", b, x>>
    BY <1>2, <1>3, BaseGeneWrites
  <1>5. Request(h, "attach_base_gene", b, g, BumpForBase(w, b))
    BY <1>1 DEF w
  <1> QED
    BY <1>4, <1>5, BaseGenesKeep

LEMMA DetachBaseClassAiGeneKeeps ==
    ASSUME CatalogInv, NEW h \in Handlers, DetachBaseClassAiGene(h)
    PROVE  CatalogInv'
  <1>1. PICK g \in Of("glive", Genes), b \in Of("blive", Bases) :
           Request(h, "detach_base_gene", b, g, BumpForBase(Unlink("bgene", b, g), b))
    BY DEF DetachBaseClassAiGene
  <1>2. b \in Bases
    BY DEF Of
  <1> DEFINE w == Unlink("bgene", b, g)
  <1>3. Fits(w) /\ \A c \in DOMAIN w : \E x \in Of("glive", Genes) : c = <<"bgene", b, x>>
    BY <1>2, BaseGeneWrites
  <1> QED
    BY <1>1, <1>3, BaseGenesKeep

\* Links of a live base class to rows are no part of a surface.
LEMMA BaseCapsKeep ==
    ASSUME CatalogInv, NEW b \in Of("blive", Bases), NEW n \in Names,
           NEW w \in {Nothing, Link("bcap", b, {Row(db, n)}), Unlink("bcap", b, Row(db, n))},
           NEW kind \in {"attach_base_capability", "detach_base_capability"}, NEW src, NEW new, NEW h \in Handlers,
           Request(h, kind, src, new, BumpForBase(w, b))
    PROVE  CatalogInv'
  <1> DEFINE E == PresetUsers(db, b)
             q == Row(db, n)
             v == w ++ db
  <1>1. Table(db) /\ Linked(db, served) /\ served \in Nat /\ b \in Bases /\ Live(db, "blive", b)
    BY CatalogFacts DEF Of
  <1>2. q \in Rows /\ q[2] =< served + 1
    <2>1. db[<<"row", n>>] \in 0 .. MaxRequests /\ db[<<"row", n>>] =< served
      BY <1>1, NameColumns DEF Linked
    <2> QED
      BY <1>1, <2>1, RequestsBound DEF Row, Rows
  <1> HIDE DEF q
  <1>3. <<"bcap", b, q>> \in Cells /\ TRUE \in Column(<<"bcap", b, q>>) /\ FALSE \in Column(<<"bcap", b, q>>)
    BY <1>1, <1>2, ColumnsOf DEF Cells
  <1>4. Fits(w) /\ DOMAIN w \subseteq {<<"bcap", b, q>>}
    <2>1. CASE w = Nothing
      BY <2>1, FitsNothing, KindsNothing
    <2>2. CASE w = Link("bcap", b, {q})
      <3>1. Fits(w)
        BY <1>3, <2>2, FitsLink
      <3>2. DOMAIN w = {<<"bcap", b, x>> : x \in {q}}
        BY <2>2 DEF Link
      <3> QED
        BY <3>1, <3>2
    <2>3. CASE w = Unlink("bcap", b, q)
      <3>1. Fits(w)
        BY <1>3, <2>3, FitsUnlink
      <3>2. DOMAIN w = {<<"bcap", b, q>>}
        BY <2>3 DEF Unlink
      <3> QED
        BY <3>1, <3>2
    <2> QED
      BY <2>1, <2>2, <2>3 DEF q
  <1>5. Kinds(w) \subseteq {"bcap"}
    BY <1>4 DEF Kinds
  <1>6. E \in SUBSET Entities /\ BumpForBase(w, b) = BumpEntities(w, E)
    BY DEF Of, PresetUsers, BumpForBase
  <1>7. Anchored(w, db, served + 1)
    <2>1. /\ \A x : <<"row", x>> \notin DOMAIN w
          /\ \A x, y : <<"ecap", x, y>> \notin DOMAIN w /\ <<"bgene", x, y>> \notin DOMAIN w /\ <<"egene", x, y>> \notin DOMAIN w
      BY <1>5, NotOfKind
    <2>2. ASSUME NEW d \in Bases, NEW r \in Rows, <<"bcap", d, r>> \in DOMAIN w
          PROVE  r[2] =< served + 1 /\ v[<<"blive", d>>] # "none"
      <3>1. d = b /\ r = q
        BY <1>4, <2>2
      <3>2. <<"blive", d>> \in Cells /\ <<"blive", d>> \notin DOMAIN w
        BY <1>5, NotOfKind DEF Cells
      <3>3. v[<<"blive", d>>] = db[<<"blive", d>>]
        BY <1>1, <3>2, OverCell
      <3> QED
        BY <1>1, <1>2, <3>1, <3>3 DEF Live
    <2> QED
      BY <2>1, <2>2 DEF Anchored
  <1>8. Sound(kind, w, db, served + 1)
    BY <1>4, <1>5, <1>7, QuietSound
  <1>9. Sound(kind, BumpEntities(w, E), db, served + 1)
    BY <1>1, <1>5, <1>6, <1>8, BumpSound
  <1>10. \A c \in Cells : c[1] # "bcap" => v[c] = db[c]
    BY <1>1, <1>5, OtherKinds DEF Table
  <1> HIDE DEF v, E
  <1>11. \A e \in Entities : Surface(v, e) = Surface(db, e)
    BY <1>1, <1>10, SameSurfaces
  <1>12. \A e \in Entities : Live(v, "elive", e) <=> Live(db, "elive", e)
    BY <1>1, <1>5, StageKept DEF v
  <1>13. Hashed(BumpEntities(w, E) ++ db, db)
    BY <1>1, <1>4, <1>5, <1>6, <1>11, <1>12, HashedByBump DEF v
  <1>14. Promise(kind, src, new, BumpEntities(w, E), db)
    BY <1>13, HashPromise
  <1> QED
    BY <1>6, <1>9, <1>14, RequestKeeps

LEMMA AttachBaseClassCapabilityKeeps ==
    ASSUME CatalogInv, NEW h \in Handlers, AttachBaseClassCapability(h)
    PROVE  CatalogInv'
  <1>1. PICK n \in Names, b \in Of("blive", Bases) :
           Request(h, "attach_base_capability", b, n,
                   BumpForBase(IF db[<<"bcap", b, Row(db, n)>>] THEN Nothing ELSE Link("bcap", b, {Row(db, n)}), b))
    BY DEF AttachBaseClassCapability
  <1> DEFINE w == IF db[<<"bcap", b, Row(db, n)>>] THEN Nothing ELSE Link("bcap", b, {Row(db, n)})
  <1>2. w \in {Nothing, Link("bcap", b, {Row(db, n)}), Unlink("bcap", b, Row(db, n))}
    OBVIOUS
  <1>3. Request(h, "attach_base_capability", b, n, BumpForBase(w, b))
    BY <1>1
  <1> HIDE DEF w
  <1> QED
    BY <1>2, <1>3, BaseCapsKeep

LEMMA DetachBaseClassCapabilityKeeps ==
    ASSUME CatalogInv, NEW h \in Handlers, DetachBaseClassCapability(h)
    PROVE  CatalogInv'
  <1>1. PICK n \in Names, b \in Of("blive", Bases) :
           Request(h, "detach_base_capability", b, n, BumpForBase(Unlink("bcap", b, Row(db, n)), b))
    BY DEF DetachBaseClassCapability
  <1> DEFINE w == Unlink("bcap", b, Row(db, n))
  <1>2. w \in {Nothing, Link("bcap", b, {Row(db, n)}), Unlink("bcap", b, Row(db, n))}
    OBVIOUS
  <1>3. Request(h, "detach_base_capability", b, n, BumpForBase(w, b))
    BY <1>1
  <1> HIDE DEF w
  <1> QED
    BY <1>2, <1>3, BaseCapsKeep

\* Routes that reload the registry and promise nothing else
LEMMA ReloadPromise ==
    ASSUME NEW kind \in {"create_base", "rename_base", "delete_base", "update_entity"}, NEW src, NEW new, NEW w, ~Conflicts(w, db)
    PROVE  Promise(kind, src, new, w, db)
  BY DEF Promise, SilentKinds, Copied

LEMMA ConflictsOver ==
    ASSUME NEW x, NEW y, NEW v, ~Conflicts(x, v), ~Conflicts(y, v)
    PROVE  ~Conflicts(x ++ y, v)
  <1> SUFFICES ASSUME Conflicts(x ++ y, v) PROVE FALSE
    OBVIOUS
  <1> DEFINE w == x ++ y
  <1>1. \A c \in DOMAIN w : (c \in DOMAIN x /\ w[c] = x[c]) \/ (c \in DOMAIN y /\ w[c] = y[c])
    BY DEF ++
  <1> HIDE DEF w
  <1>2. Conflicts(w, v)
    BY DEF w
  <1>3. CASE \E e \in Entities : <<"cerebellum", e>> \in DOMAIN w /\ w[<<"cerebellum", e>>] /\ HasCerebellum(v)
    <2>1. PICK e \in Entities : <<"cerebellum", e>> \in DOMAIN w /\ w[<<"cerebellum", e>>] /\ HasCerebellum(v)
      BY <1>3
    <2> QED
      BY <1>1, <2>1 DEF Conflicts
  <1>4. CASE \E c \in DOMAIN w :
               \/ c[1] \in {"elive", "blive", "glive", "ilive"} /\ w[c] = "live" /\ v[c] # "none"
               \/ c[1] \in {"ecap", "bcap", "egene", "bgene", "mlive"} /\ w[c] /\ v[c]
               \/ c[1] = "slug" /\ BaseWithSlug(v, w[c]) # {}
               \/ c[1] = "of" /\ \E i \in Instances : Live(v, "ilive", i) /\ v[<<"of", i>>] = w[c]
    <2>1. PICK c \in DOMAIN w :
               \/ c[1] \in {"elive", "blive", "glive", "ilive"} /\ w[c] = "live" /\ v[c] # "none"
               \/ c[1] \in {"ecap", "bcap", "egene", "bgene", "mlive"} /\ w[c] /\ v[c]
               \/ c[1] = "slug" /\ BaseWithSlug(v, w[c]) # {}
               \/ c[1] = "of" /\ \E i \in Instances : Live(v, "ilive", i) /\ v[<<"of", i>>] = w[c]
      BY <1>4
    <2>2. CASE c \in DOMAIN x /\ w[c] = x[c]
      BY <2>1, <2>2 DEF Conflicts
    <2>3. CASE c \in DOMAIN y /\ w[c] = y[c]
      BY <2>1, <2>3 DEF Conflicts
    <2> QED
      BY <1>1, <2>2, <2>3
  <1> QED
    BY <1>2, <1>3, <1>4 DEF Conflicts

\* Cells without a unique index
LEMMA NoIndex ==
    ASSUME NEW w, NEW v,
           Kinds(w) \cap {"elive", "blive", "glive", "ilive", "ecap", "bcap", "egene", "bgene", "mlive", "slug", "of", "cerebellum"} = {}
    PROVE  ~Conflicts(w, v)
  <1>1. \A c \in DOMAIN w : c[1] \notin {"elive", "blive", "glive", "ilive", "ecap", "bcap", "egene", "bgene", "mlive", "slug", "of"}
    BY DEF Kinds
  <1>2. \A e : <<"cerebellum", e>> \notin DOMAIN w
    BY NotOfKind
  <1> QED
    BY <1>1, <1>2 DEF Conflicts

LEMMA LinkFree ==
    ASSUME NEW k \in {"ecap", "bcap", "egene", "bgene"}, NEW x, NEW S, NEW v, \A y \in S : ~v[<<k, x, y>>]
    PROVE  ~Conflicts(Link(k, x, S), v)
  <1> DEFINE w == Link(k, x, S)
  <1>1. DOMAIN w = {<<k, x, y>> : y \in S}
    BY DEF Link
  <1> HIDE DEF w
  <1>2. \A c \in DOMAIN w : c[1] = k /\ ~v[c]
    BY <1>1
  <1>3. \A e : <<"cerebellum", e>> \notin DOMAIN w
    BY <1>2
  <1>4. ~Conflicts(w, v)
    BY <1>2, <1>3 DEF Conflicts
  <1> QED
    BY <1>4 DEF w

LEMMA StageFree ==
    ASSUME NEW k \in {"elive", "blive", "glive", "ilive"}, NEW x, NEW y, NEW v, y = "live" => v[<<k, x>>] = "none"
    PROVE  ~Conflicts(Put(k, x, y), v)
  <1> DEFINE w == Put(k, x, y)
  <1>1. DOMAIN w = {<<k, x>>} /\ w[<<k, x>>] = y
    BY DEF Put
  <1> HIDE DEF w
  <1>2. \A c \in DOMAIN w : c[1] = k /\ (w[c] = "live" => v[c] = "none")
    BY <1>1
  <1>3. \A e : <<"cerebellum", e>> \notin DOMAIN w
    BY <1>2
  <1>4. ~Conflicts(w, v)
    BY <1>2, <1>3 DEF Conflicts
  <1> QED
    BY <1>4 DEF w

LEMMA SlugFree ==
    ASSUME NEW x, NEW s, NEW v, BaseWithSlug(v, s) = {}
    PROVE  ~Conflicts(Put("slug", x, s), v)
  <1> DEFINE w == Put("slug", x, s)
  <1>1. DOMAIN w = {<<"slug", x>>} /\ w[<<"slug", x>>] = s
    BY DEF Put
  <1> HIDE DEF w
  <1>2. \A c \in DOMAIN w : c[1] = "slug" /\ w[c] = s
    BY <1>1
  <1>3. \A e : <<"cerebellum", e>> \notin DOMAIN w
    BY <1>2
  <1>4. ~Conflicts(w, v)
    BY <1>2, <1>3 DEF Conflicts
  <1> QED
    BY <1>4 DEF w

LEMMA FlagFree ==
    ASSUME NEW x, NEW y, NEW v, y => ~HasCerebellum(v)
    PROVE  ~Conflicts(Put("cerebellum", x, y), v)
  <1> DEFINE w == Put("cerebellum", x, y)
  <1>1. DOMAIN w = {<<"cerebellum", x>>} /\ w[<<"cerebellum", x>>] = y
    BY DEF Put
  <1> HIDE DEF w
  <1>2. \A c \in DOMAIN w : c[1] = "cerebellum" /\ w[c] = y
    BY <1>1
  <1>3. ~Conflicts(w, v)
    BY <1>2 DEF Conflicts
  <1> QED
    BY <1>3 DEF w

LEMMA NewBaseCells ==
    ASSUME NEW b \in Bases, NEW s \in Slugs
    PROVE  /\ Fits(NewBase(b, s)) /\ Whole(NewBase(b, s)) /\ Kinds(NewBase(b, s)) = {"blive", "slug"}
           /\ DOMAIN NewBase(b, s) = {<<"blive", b>>, <<"slug", b>>}
           /\ NewBase(b, s)[<<"blive", b>>] = "live" /\ NewBase(b, s)[<<"slug", b>>] = s
  <1> DEFINE x == Put("blive", b, "live")
             y == Put("slug", b, s)
             w == x ++ y
  <1>1. Fits(x)
    <2>1. <<"blive", b>> \in Cells /\ "live" \in Column(<<"blive", b>>)
      BY ColumnsOf DEF Cells, Stages
    <2> QED
      BY <2>1, FitsPut
  <1>2. Fits(y)
    <2>1. <<"slug", b>> \in Cells /\ s \in Column(<<"slug", b>>)
      BY ColumnsOf DEF Cells
    <2> QED
      BY <2>1, FitsPut
  <1>3. Kinds(x) = {"blive"} /\ DOMAIN x = {<<"blive", b>>} /\ x[<<"blive", b>>] = "live"
    BY KindsPut
  <1>4. Kinds(y) = {"slug"} /\ DOMAIN y = {<<"slug", b>>} /\ y[<<"slug", b>>] = s
    BY KindsPut
  <1> HIDE DEF x, y
  <1>5. Fits(w)
    BY <1>1, <1>2, FitsOver
  <1>6. Kinds(w) = {"blive", "slug"}
    BY <1>3, <1>4, KindsOver
  <1>7. DOMAIN w = {<<"blive", b>>, <<"slug", b>>}
    <2>1. DOMAIN w = DOMAIN x \cup DOMAIN y
      BY OverDomain
    <2> QED
      BY <2>1, <1>3, <1>4
  <1>8. w[<<"blive", b>>] = "live"
    BY <1>3, OverWritten
  <1>9. w[<<"slug", b>>] = s
    BY <1>3, <1>4, OverLeft
  <1> HIDE DEF w
  <1>10. Whole(w)
    <2>1. \A z : /\ <<"elive", z>> \notin DOMAIN w /\ <<"glive", z>> \notin DOMAIN w
                 /\ <<"ilive", z>> \notin DOMAIN w
                 /\ <<"cerebellum", z>> \notin DOMAIN w /\ <<"of", z>> \notin DOMAIN w
      BY <1>6, NotOfKind
    <2>2. \A z : (<<"blive", z>> \in DOMAIN w => z = b) /\ (<<"slug", z>> \in DOMAIN w => z = b)
      BY <1>7
    <2>3. <<"slug", b>> \in DOMAIN w
      BY <1>7
    <2> QED
      BY <2>1, <2>2, <2>3, <1>8, <1>9 DEF Whole
  <1>11. w = NewBase(b, s)
    BY DEF w, x, y, NewBase
  <1> QED
    BY <1>5, <1>6, <1>7, <1>8, <1>9, <1>10, <1>11

LEMMA NewBaseFree ==
    ASSUME NEW b, NEW s, NEW v, v[<<"blive", b>>] = "none", BaseWithSlug(v, s) = {}
    PROVE  ~Conflicts(NewBase(b, s), v)
  BY StageFree, SlugFree, ConflictsOver DEF NewBase

LEMMA CreateBaseClassKeeps ==
    ASSUME CatalogInv, NEW h \in Handlers, CreateBaseClass(h)
    PROVE  CatalogInv'
  <1>1. PICK b \in Unused("blive", Bases), s \in FreeSlugs : Request(h, "create_base", None, b, NewBase(b, s))
    BY DEF CreateBaseClass
  <1>2. b \in Bases /\ db[<<"blive", b>>] = "none" /\ s \in Slugs /\ BaseWithSlug(db, s) = {}
    BY DEF Unused, FreeSlugs
  <1> DEFINE w == NewBase(b, s)
  <1>3. Fits(w) /\ Whole(w) /\ Kinds(w) = {"blive", "slug"}
    BY <1>2, NewBaseCells
  <1>4. ~Conflicts(w, db)
    BY <1>2, NewBaseFree
  <1> HIDE DEF w
  <1>5. Sound("create_base", w, db, served + 1)
    BY <1>3, UnlinkedAnchored DEF Sound, Reloading
  <1>6. Promise("create_base", None, b, w, db)
    BY <1>4, ReloadPromise
  <1> QED
    BY <1>1, <1>5, <1>6, RequestKeeps DEF w

LEMMA RenameBaseClassKeeps ==
    ASSUME CatalogInv, NEW h \in Handlers, RenameBaseClass(h)
    PROVE  CatalogInv'
  <1>1. PICK b \in Of("blive", Bases), s \in FreeSlugs : Request(h, "rename_base", None, b, Put("slug", b, s))
    BY DEF RenameBaseClass
  <1>2. b \in Bases /\ s \in Slugs /\ BaseWithSlug(db, s) = {}
    BY DEF Of, FreeSlugs
  <1> DEFINE w == Put("slug", b, s)
  <1>3. Fits(w)
    <2>1. <<"slug", b>> \in Cells /\ s \in Column(<<"slug", b>>)
      BY <1>2, ColumnsOf DEF Cells
    <2> QED
      BY <2>1, FitsPut
  <1>4. Kinds(w) = {"slug"} /\ DOMAIN w = {<<"slug", b>>} /\ w[<<"slug", b>>] = s
    BY KindsPut
  <1>5. ~Conflicts(w, db)
    BY <1>2, SlugFree
  <1> HIDE DEF w
  <1>6. Whole(w)
    <2>1. \A z : /\ <<"elive", z>> \notin DOMAIN w /\ <<"glive", z>> \notin DOMAIN w
                 /\ <<"ilive", z>> \notin DOMAIN w /\ <<"blive", z>> \notin DOMAIN w
                 /\ <<"cerebellum", z>> \notin DOMAIN w /\ <<"of", z>> \notin DOMAIN w
      BY <1>4, NotOfKind
    <2>2. \A z : <<"slug", z>> \in DOMAIN w => z = b
      BY <1>4
    <2> QED
      BY <2>1, <2>2, <1>2, <1>4 DEF Whole
  <1>7. Sound("rename_base", w, db, served + 1)
    BY <1>3, <1>4, <1>6, UnlinkedAnchored DEF Sound, Reloading
  <1>8. Promise("rename_base", None, b, w, db)
    BY <1>5, ReloadPromise
  <1> QED
    BY <1>1, <1>7, <1>8, RequestKeeps DEF w

LEMMA DeleteBaseClassKeeps ==
    ASSUME CatalogInv, NEW h \in Handlers, DeleteBaseClass(h)
    PROVE  CatalogInv'
  <1>1. PICK b \in Of("blive", Bases) : Request(h, "delete_base", None, b, Put("blive", b, "gone"))
    BY DEF DeleteBaseClass
  <1>2. b \in Bases
    BY DEF Of
  <1> DEFINE w == Put("blive", b, "gone")
  <1>3. Fits(w)
    <2>1. <<"blive", b>> \in Cells /\ "gone" \in Column(<<"blive", b>>)
      BY <1>2, ColumnsOf DEF Cells, Stages
    <2> QED
      BY <2>1, FitsPut
  <1>4. Kinds(w) = {"blive"} /\ DOMAIN w = {<<"blive", b>>} /\ w[<<"blive", b>>] = "gone"
    BY KindsPut
  <1>5. ~Conflicts(w, db)
    BY StageFree
  <1> HIDE DEF w
  <1>6. Whole(w)
    <2>1. \A z : /\ <<"elive", z>> \notin DOMAIN w /\ <<"glive", z>> \notin DOMAIN w
                 /\ <<"ilive", z>> \notin DOMAIN w /\ <<"slug", z>> \notin DOMAIN w
                 /\ <<"cerebellum", z>> \notin DOMAIN w /\ <<"of", z>> \notin DOMAIN w
      BY <1>4, NotOfKind
    <2>2. \A z : <<"blive", z>> \in DOMAIN w => z = b
      BY <1>4
    <2> QED
      BY <2>1, <2>2, <1>4 DEF Whole
  <1>7. Sound("delete_base", w, db, served + 1)
    BY <1>3, <1>4, <1>6, UnlinkedAnchored DEF Sound, Reloading
  <1>8. Promise("delete_base", None, b, w, db)
    BY <1>5, ReloadPromise
  <1> QED
    BY <1>1, <1>7, <1>8, RequestKeeps DEF w

\* Adding links and rows to a whole write leaves it whole.
LEMMA WholeOver ==
    ASSUME NEW x, NEW y, Kinds(x) \cap {"elive", "blive", "glive", "ilive", "slug", "cerebellum", "of"} = {}, Whole(y)
    PROVE  /\ Whole(x ++ y)
           /\ \A k \in {"elive", "blive", "glive", "ilive", "slug", "cerebellum", "of"} : \A z :
                 /\ <<k, z>> \in DOMAIN (x ++ y) <=> <<k, z>> \in DOMAIN y
                 /\ <<k, z>> \in DOMAIN y => (x ++ y)[<<k, z>>] = y[<<k, z>>]
  <1> DEFINE w == x ++ y
  <1>1. ASSUME NEW k \in {"elive", "blive", "glive", "ilive", "slug", "cerebellum", "of"}, NEW z
        PROVE  /\ <<k, z>> \in DOMAIN w <=> <<k, z>> \in DOMAIN y
               /\ <<k, z>> \in DOMAIN y => w[<<k, z>>] = y[<<k, z>>]
    <2>1. <<k, z>> \notin DOMAIN x
      BY NotOfKind
    <2>2. DOMAIN w = DOMAIN x \cup DOMAIN y
      BY OverDomain
    <2>3. <<k, z>> \in DOMAIN y => w[<<k, z>>] = y[<<k, z>>]
      BY <2>1, OverLeft
    <2> QED
      BY <2>1, <2>2, <2>3
  <1> HIDE DEF w
  <1>2. Whole(w)
    BY <1>1 DEF Whole
  <1> QED
    BY <1>1, <1>2 DEF w

LEMMA CloneLinksCells ==
    ASSUME NEW k, NEW x, NEW y, NEW S
    PROVE  /\ Kinds(CloneLinks(k, x, y, S)) \subseteq {k}
           /\ \A z \in S : <<k, y, z>> \in DOMAIN CloneLinks(k, x, y, S) <=> db[<<k, x, z>>]
           /\ \A c \in DOMAIN CloneLinks(k, x, y, S) : \E z \in S : c = <<k, y, z>> /\ db[<<k, x, z>>]
           /\ \A c \in DOMAIN CloneLinks(k, x, y, S) : CloneLinks(k, x, y, S)[c] = TRUE
  <1> DEFINE T == {z \in S : db[<<k, x, z>>]}
             w == Link(k, y, T)
  <1>1. DOMAIN w = {<<k, y, z>> : z \in T} /\ \A c \in DOMAIN w : w[c] = TRUE
    BY DEF Link
  <1>2. CloneLinks(k, x, y, S) = w
    BY DEF CloneLinks
  <1>3. Kinds(w) \subseteq {k}
    BY KindsLink
  <1> HIDE DEF w
  <1>4. \A z \in S : <<k, y, z>> \in DOMAIN w <=> db[<<k, x, z>>]
    BY <1>1
  <1>5. \A c \in DOMAIN w : \E z \in S : c = <<k, y, z>> /\ db[<<k, x, z>>]
    BY <1>1
  <1> QED
    BY <1>1, <1>2, <1>3, <1>4, <1>5

LEMMA CloneBaseClassKeeps ==
    ASSUME CatalogInv, NEW h \in Handlers, CloneBaseClass(h)
    PROVE  CatalogInv'
  <1>1. PICK b \in Of("blive", Bases), new \in Unused("blive", Bases), s \in FreeSlugs :
           Request(h, "clone_base", b, new,
                   CloneLinks("bgene", b, new, Genes) ++ CloneLinks("bcap", b, new, Rows) ++ NewBase(new, s))
    BY DEF CloneBaseClass
  <1>2. /\ b \in Bases /\ db[<<"blive", b>>] = "live" /\ new \in Bases /\ db[<<"blive", new>>] = "none"
        /\ s \in Slugs /\ BaseWithSlug(db, s) = {}
    BY DEF Of, Live, Unused, FreeSlugs
  <1>3. Table(db) /\ Linked(db, served) /\ Linked(db, served + 1)
    BY CatalogFacts, LinkedLater
  <1> DEFINE A == CloneLinks("bgene", b, new, Genes)
             B == CloneLinks("bcap", b, new, Rows)
             C == NewBase(new, s)
             w == A ++ B ++ C
             v == w ++ db
  <1>4. /\ \A g \in Genes : ~db[<<"bgene", new, g>>]
        /\ \A r \in Rows : ~db[<<"bcap", new, r>>]
    BY <1>2, <1>3 DEF Linked
  <1>5. Fits(A) /\ ~Conflicts(A, db)
    <2>1. A = Link("bgene", new, {g \in Genes : db[<<"bgene", b, g>>]})
      BY DEF CloneLinks
    <2>2. \A g \in Genes : <<"bgene", new, g>> \in Cells
      BY <1>2 DEF Cells
    <2>3. \A g \in Genes : TRUE \in Column(<<"bgene", new, g>>)
      BY DEF Column
    <2>4. Fits(A)
      BY <2>1, <2>2, <2>3, FitsLink
    <2>5. ~Conflicts(A, db)
      BY <1>4, <2>1, LinkFree
    <2> QED
      BY <2>4, <2>5
  <1>6. Fits(B) /\ ~Conflicts(B, db)
    <2>1. B = Link("bcap", new, {r \in Rows : db[<<"bcap", b, r>>]})
      BY DEF CloneLinks
    <2>2. \A r \in Rows : <<"bcap", new, r>> \in Cells
      BY <1>2 DEF Cells
    <2>3. \A r \in Rows : TRUE \in Column(<<"bcap", new, r>>)
      BY DEF Column
    <2>4. Fits(B)
      BY <2>1, <2>2, <2>3, FitsLink
    <2>5. ~Conflicts(B, db)
      BY <1>4, <2>1, LinkFree
    <2> QED
      BY <2>4, <2>5
  <1>7. /\ Fits(C) /\ Whole(C) /\ Kinds(C) = {"blive", "slug"}
        /\ C[<<"blive", new>>] = "live" /\ DOMAIN C = {<<"blive", new>>, <<"slug", new>>}
    BY <1>2, NewBaseCells
  <1>8. ~Conflicts(C, db)
    BY <1>2, NewBaseFree
  <1>9. /\ Kinds(A) \subseteq {"bgene"}
        /\ \A g \in Genes : <<"bgene", new, g>> \in DOMAIN A <=> db[<<"bgene", b, g>>]
        /\ \A c \in DOMAIN A : \E g \in Genes : c = <<"bgene", new, g>> /\ db[<<"bgene", b, g>>]
        /\ \A c \in DOMAIN A : A[c] = TRUE
    BY CloneLinksCells
  <1>10. /\ Kinds(B) \subseteq {"bcap"}
         /\ \A r \in Rows : <<"bcap", new, r>> \in DOMAIN B <=> db[<<"bcap", b, r>>]
         /\ \A c \in DOMAIN B : \E r \in Rows : c = <<"bcap", new, r>> /\ db[<<"bcap", b, r>>]
         /\ \A c \in DOMAIN B : B[c] = TRUE
    BY CloneLinksCells
  <1> HIDE DEF A, B, C
  <1>11. Fits(w)
    BY <1>5, <1>6, <1>7, FitsOver
  <1>12. ~Conflicts(w, db)
    BY <1>5, <1>6, <1>8, ConflictsOver
  <1>13. Kinds(A ++ B) \subseteq {"bgene", "bcap"}
    BY <1>9, <1>10, KindsOver
  <1>14. Whole(w) /\ <<"blive", new>> \in DOMAIN w /\ w[<<"blive", new>>] = "live"
    BY <1>7, <1>13, WholeOver
  <1>15. Kinds(w) \subseteq {"bgene", "bcap", "blive", "slug"}
    BY <1>7, <1>13, KindsOver
  <1>16. DOMAIN w = DOMAIN A \cup DOMAIN B \cup DOMAIN C
    <2>1. DOMAIN w = DOMAIN (A ++ B) \cup DOMAIN C
      BY OverDomain
    <2>2. DOMAIN (A ++ B) = DOMAIN A \cup DOMAIN B
      BY OverDomain
    <2> QED
      BY <2>1, <2>2
  <1>17. \A d \in Bases, g \in Genes :
            <<"bgene", d, g>> \in DOMAIN w <=> d = new /\ db[<<"bgene", b, g>>]
    <2> SUFFICES ASSUME NEW d \in Bases, NEW g \in Genes
                 PROVE  <<"bgene", d, g>> \in DOMAIN w <=> d = new /\ db[<<"bgene", b, g>>]
      OBVIOUS
    <2>1. <<"bgene", d, g>> \notin DOMAIN B /\ <<"bgene", d, g>> \notin DOMAIN C
      BY <1>7, <1>10, NotOfKind
    <2>2. <<"bgene", d, g>> \in DOMAIN A => d = new
      BY <1>9
    <2> HIDE DEF w
    <2> QED
      BY <1>9, <1>16, <2>1, <2>2
  <1>18. \A d \in Bases, r \in Rows :
            <<"bcap", d, r>> \in DOMAIN w <=> d = new /\ db[<<"bcap", b, r>>]
    <2> SUFFICES ASSUME NEW d \in Bases, NEW r \in Rows
                 PROVE  <<"bcap", d, r>> \in DOMAIN w <=> d = new /\ db[<<"bcap", b, r>>]
      OBVIOUS
    <2>1. <<"bcap", d, r>> \notin DOMAIN A /\ <<"bcap", d, r>> \notin DOMAIN C
      BY <1>7, <1>9, NotOfKind
    <2>2. <<"bcap", d, r>> \in DOMAIN B => d = new
      BY <1>10
    <2> HIDE DEF w
    <2> QED
      BY <1>10, <1>16, <2>1, <2>2
  <1>19. \A c \in DOMAIN w : c[1] \in {"bgene", "bcap"} => w[c] = TRUE
    <2> SUFFICES ASSUME NEW c \in DOMAIN w, c[1] \in {"bgene", "bcap"} PROVE w[c] = TRUE
      OBVIOUS
    <2>1. c \notin DOMAIN C
      BY <1>7 DEF Kinds
    <2>2. c \in DOMAIN (A ++ B)
      BY <1>16, <2>1, OverDomain
    <2>3. w[c] = (A ++ B)[c]
      BY <2>2, OverWritten
    <2>4. CASE c \in DOMAIN A
      BY <1>9, <2>3, <2>4, OverWritten
    <2>5. CASE c \notin DOMAIN A
      <3>2. DOMAIN (A ++ B) = DOMAIN A \cup DOMAIN B
        BY OverDomain
      <3>1. c \in DOMAIN B
        BY <2>2, <2>5, <3>2
      <3> QED
        BY <1>10, <2>3, <2>5, <3>1, OverLeft
    <2> QED
      BY <2>4, <2>5
  <1> HIDE DEF w
  <1>20. v[<<"blive", new>>] = "live" /\ \A g \in Genes : v[<<"glive", g>>] = db[<<"glive", g>>]
    <2>1. v[<<"blive", new>>] = "live"
      BY <1>14, OverWritten
    <2>2. ASSUME NEW g \in Genes PROVE v[<<"glive", g>>] = db[<<"glive", g>>]
      <3>1. <<"glive", g>> \in Cells /\ <<"glive", g>> \notin DOMAIN w
        BY <1>15, NotOfKind DEF Cells
      <3> QED
        BY <1>3, <3>1, OverCell
    <2> QED
      BY <2>1, <2>2
  <1>21. Anchored(w, db, served + 1)
    <2>1. /\ \A x : <<"row", x>> \notin DOMAIN w
          /\ \A x, y : <<"ecap", x, y>> \notin DOMAIN w /\ <<"egene", x, y>> \notin DOMAIN w
      BY <1>15, NotOfKind
    <2>2. \A d \in Bases, r \in Rows : <<"bcap", d, r>> \in DOMAIN w => r[2] =< served + 1 /\ v[<<"blive", d>>] # "none"
      BY <1>2, <1>3, <1>18, <1>20 DEF Linked
    <2>3. \A d \in Bases, g \in Genes : <<"bgene", d, g>> \in DOMAIN w => v[<<"blive", d>>] # "none" /\ v[<<"glive", g>>] # "none"
      BY <1>2, <1>3, <1>17, <1>20 DEF Linked
    <2> QED
      BY <2>1, <2>2, <2>3 DEF Anchored
  <1>22. Sound("clone_base", w, db, served + 1)
    BY <1>11, <1>14, <1>21 DEF Sound, Reloading
  <1>23. ASSUME NEW g \in Genes PROVE v[<<"bgene", new, g>>] = v[<<"bgene", b, g>>]
    <2>1. <<"bgene", new, g>> \in Cells /\ <<"bgene", b, g>> \in Cells
      BY <1>2 DEF Cells
    <2>2. v[<<"bgene", b, g>>] = db[<<"bgene", b, g>>]
      BY <1>2, <1>3, <1>17, <2>1, OverCell
    <2>3. db[<<"bgene", b, g>>] \in BOOLEAN /\ db[<<"bgene", new, g>>] \in BOOLEAN
      BY <1>2, <1>3, BaseLinkColumns
    <2>4. CASE db[<<"bgene", b, g>>]
      <3>1. <<"bgene", new, g>> \in DOMAIN w /\ w[<<"bgene", new, g>>] = TRUE
        BY <1>2, <1>17, <1>19, <2>4
      <3> QED
        BY <2>2, <2>3, <2>4, <3>1, OverWritten
    <2>5. CASE ~db[<<"bgene", b, g>>]
      <3>1. v[<<"bgene", new, g>>] = db[<<"bgene", new, g>>]
        BY <1>2, <1>3, <1>17, <2>1, <2>5, OverCell
      <3> QED
        BY <1>4, <2>2, <2>3, <2>5, <3>1
    <2> QED
      BY <2>4, <2>5
  <1>24. ASSUME NEW r \in Rows PROVE v[<<"bcap", new, r>>] = v[<<"bcap", b, r>>]
    <2>1. <<"bcap", new, r>> \in Cells /\ <<"bcap", b, r>> \in Cells
      BY <1>2 DEF Cells
    <2>2. v[<<"bcap", b, r>>] = db[<<"bcap", b, r>>]
      BY <1>2, <1>3, <1>18, <2>1, OverCell
    <2>3. db[<<"bcap", b, r>>] \in BOOLEAN /\ db[<<"bcap", new, r>>] \in BOOLEAN
      BY <1>2, <1>3, BaseLinkColumns
    <2>4. CASE db[<<"bcap", b, r>>]
      <3>1. <<"bcap", new, r>> \in DOMAIN w /\ w[<<"bcap", new, r>>] = TRUE
        BY <1>2, <1>18, <1>19, <2>4
      <3> QED
        BY <2>2, <2>3, <2>4, <3>1, OverWritten
    <2>5. CASE ~db[<<"bcap", b, r>>]
      <3>1. v[<<"bcap", new, r>>] = db[<<"bcap", new, r>>]
        BY <1>2, <1>3, <1>18, <2>1, <2>5, OverCell
      <3> QED
        BY <1>4, <2>2, <2>3, <2>5, <3>1
    <2> QED
      BY <2>4, <2>5
  <1>25. LinkedCaps(v, "bcap", new) = LinkedCaps(v, "bcap", b)
    <2>1. Table(v)
      BY <1>3, <1>11, OverTable
    <2> HIDE DEF v
    <2>2. \A n \in Names : Row(v, n) \in Rows
      BY <2>1, NameColumns DEF Row, Rows
    <2> QED
      BY <2>2, <1>24 DEF LinkedCaps
  <1> HIDE DEF v
  <1>26. Copied("clone_base", b, new, v, db)
    BY <1>23, <1>25 DEF Copied
  <1>27. Promise("clone_base", b, new, w, db)
    BY <1>12, <1>26 DEF Promise, SilentKinds, v
  <1>28. Request(h, "clone_base", b, new, w)
    BY <1>1 DEF w, A, B, C
  <1> QED
    BY <1>22, <1>27, <1>28, RequestKeeps

-----------------------------------------------------------------------------
(* Entities                                                                *)

LEMMA NewEntityKinds ==
    ASSUME NEW e, NEW s, NEW p, NEW cb
    PROVE  Kinds(NewEntity(e, s, p, cb)) = {"elive", "preset", "prompt", "cerebellum"}
  <1>1. Kinds(NewEntity(e, s, p, cb)) = Kinds(Put("elive", e, "live")) \cup Kinds(Put("preset", e, s))
                                        \cup Kinds(Put("prompt", e, p)) \cup Kinds(Put("cerebellum", e, cb))
    BY KindsOver DEF NewEntity
  <1>2. /\ Kinds(Put("elive", e, "live")) = {"elive"} /\ Kinds(Put("preset", e, s)) = {"preset"}
        /\ Kinds(Put("prompt", e, p)) = {"prompt"} /\ Kinds(Put("cerebellum", e, cb)) = {"cerebellum"}
    BY KindsPut
  <1> QED
    BY <1>1, <1>2

LEMMA NewEntityDomain ==
    ASSUME NEW e, NEW s, NEW p, NEW cb
    PROVE  DOMAIN NewEntity(e, s, p, cb) = {<<"elive", e>>, <<"preset", e>>, <<"prompt", e>>, <<"cerebellum", e>>}
  <1>1. DOMAIN NewEntity(e, s, p, cb) = DOMAIN Put("elive", e, "live") \cup DOMAIN Put("preset", e, s)
                                        \cup DOMAIN Put("prompt", e, p) \cup DOMAIN Put("cerebellum", e, cb)
    <2> DEFINE A == Put("elive", e, "live") ++ Put("preset", e, s)
               B == A ++ Put("prompt", e, p)
               C == B ++ Put("cerebellum", e, cb)
    <2>1. DOMAIN A = DOMAIN Put("elive", e, "live") \cup DOMAIN Put("preset", e, s)
      BY OverDomain
    <2>2. DOMAIN B = DOMAIN A \cup DOMAIN Put("prompt", e, p)
      BY OverDomain
    <2>3. DOMAIN C = DOMAIN B \cup DOMAIN Put("cerebellum", e, cb)
      BY OverDomain
    <2>4. NewEntity(e, s, p, cb) = C
      BY DEF NewEntity
    <2> HIDE DEF A, B, C
    <2> QED
      BY <2>1, <2>2, <2>3, <2>4
  <1>2. /\ DOMAIN Put("elive", e, "live") = {<<"elive", e>>} /\ DOMAIN Put("preset", e, s) = {<<"preset", e>>}
        /\ DOMAIN Put("prompt", e, p) = {<<"prompt", e>>} /\ DOMAIN Put("cerebellum", e, cb) = {<<"cerebellum", e>>}
    BY DEF Put
  <1> QED
    BY <1>1, <1>2

\* What a made entity holds
LEMMA NewEntityStage ==
    ASSUME NEW e, NEW s, NEW p, NEW cb
    PROVE  NewEntity(e, s, p, cb)[<<"elive", e>>] = "live"
  <1> DEFINE A == Put("elive", e, "live")
             B == Put("preset", e, s)
             C == Put("prompt", e, p)
             D == Put("cerebellum", e, cb)
             x == A ++ B
             y == x ++ C
             w == y ++ D
  <1>1. DOMAIN A = {<<"elive", e>>} /\ A[<<"elive", e>>] = "live"
    BY DEF Put
  <1>2. NewEntity(e, s, p, cb) = w
    BY DEF NewEntity
  <1> HIDE DEF A, B, C, D
  <1>3. <<"elive", e>> \in DOMAIN x /\ x[<<"elive", e>>] = "live"
    <2>1. DOMAIN x = DOMAIN A \cup DOMAIN B
      BY OverDomain
    <2>2. x[<<"elive", e>>] = "live"
      BY <1>1, OverWritten
    <2> HIDE DEF x
    <2> QED
      BY <1>1, <2>1, <2>2
  <1> HIDE DEF x
  <1>4. <<"elive", e>> \in DOMAIN y /\ y[<<"elive", e>>] = "live"
    BY <1>3, OverWritten, OverDomain
  <1> HIDE DEF y
  <1>5. w[<<"elive", e>>] = "live"
    BY <1>4, OverWritten
  <1> QED
    BY <1>2, <1>5

LEMMA NewEntityPreset ==
    ASSUME NEW e, NEW s, NEW p, NEW cb
    PROVE  NewEntity(e, s, p, cb)[<<"preset", e>>] = s
  <1> DEFINE A == Put("elive", e, "live")
             B == Put("preset", e, s)
             C == Put("prompt", e, p)
             D == Put("cerebellum", e, cb)
             x == A ++ B
             y == x ++ C
             w == y ++ D
  <1>1. DOMAIN A = {<<"elive", e>>}
    BY DEF Put
  <1>2. DOMAIN B = {<<"preset", e>>} /\ B[<<"preset", e>>] = s
    BY DEF Put
  <1>3. NewEntity(e, s, p, cb) = w
    BY DEF NewEntity
  <1> HIDE DEF A, B, C, D
  <1>4. <<"preset", e>> \in DOMAIN x /\ x[<<"preset", e>>] = s
    <2>1. DOMAIN x = DOMAIN A \cup DOMAIN B
      BY OverDomain
    <2>2. x[<<"preset", e>>] = s
      BY <1>1, <1>2, OverLeft
    <2> HIDE DEF x
    <2> QED
      BY <1>2, <2>1, <2>2
  <1> HIDE DEF x
  <1>5. <<"preset", e>> \in DOMAIN y /\ y[<<"preset", e>>] = s
    BY <1>4, OverWritten, OverDomain
  <1> HIDE DEF y
  <1>6. w[<<"preset", e>>] = s
    BY <1>5, OverWritten
  <1> QED
    BY <1>3, <1>6

LEMMA NewEntityPrompt ==
    ASSUME NEW e, NEW s, NEW p, NEW cb
    PROVE  NewEntity(e, s, p, cb)[<<"prompt", e>>] = p
  <1> DEFINE A == Put("elive", e, "live")
             B == Put("preset", e, s)
             C == Put("prompt", e, p)
             D == Put("cerebellum", e, cb)
             x == A ++ B
             y == x ++ C
             w == y ++ D
  <1>1. DOMAIN A = {<<"elive", e>>} /\ DOMAIN B = {<<"preset", e>>}
    BY DEF Put
  <1>2. DOMAIN C = {<<"prompt", e>>} /\ C[<<"prompt", e>>] = p
    BY DEF Put
  <1>3. NewEntity(e, s, p, cb) = w
    BY DEF NewEntity
  <1> HIDE DEF A, B, C, D
  <1>4. <<"prompt", e>> \notin DOMAIN x
    <2>1. DOMAIN x = DOMAIN A \cup DOMAIN B
      BY OverDomain
    <2> HIDE DEF x
    <2> QED
      BY <1>1, <2>1
  <1> HIDE DEF x
  <1>5. <<"prompt", e>> \in DOMAIN y /\ y[<<"prompt", e>>] = p
    <2>1. DOMAIN y = DOMAIN x \cup DOMAIN C
      BY OverDomain
    <2>2. y[<<"prompt", e>>] = p
      BY <1>2, <1>4, OverLeft
    <2> HIDE DEF y
    <2> QED
      BY <1>2, <2>1, <2>2
  <1> HIDE DEF y
  <1>6. w[<<"prompt", e>>] = p
    BY <1>5, OverWritten
  <1> QED
    BY <1>3, <1>6

LEMMA NewEntityCells ==
    ASSUME NEW e \in Entities, NEW s \in Slugs \cup {None}, NEW p \in Prompts, NEW cb \in BOOLEAN
    PROVE  Fits(NewEntity(e, s, p, cb)) /\ Whole(NewEntity(e, s, p, cb))
  <1> DEFINE A == Put("elive", e, "live")
             B == Put("preset", e, s)
             C == Put("prompt", e, p)
             D == Put("cerebellum", e, cb)
             w == A ++ B ++ C ++ D
  <1>1. Fits(A)
    <2>1. <<"elive", e>> \in Cells /\ "live" \in Column(<<"elive", e>>)
      BY DEF Cells, Column, Stages
    <2> QED
      BY <2>1, FitsPut
  <1>2. Fits(B)
    <2>1. <<"preset", e>> \in Cells /\ s \in Column(<<"preset", e>>)
      BY DEF Cells, Column
    <2> QED
      BY <2>1, FitsPut
  <1>3. Fits(C)
    <2>1. <<"prompt", e>> \in Cells /\ p \in Column(<<"prompt", e>>)
      BY DEF Cells, Column
    <2> QED
      BY <2>1, FitsPut
  <1>4. Fits(D)
    <2>1. <<"cerebellum", e>> \in Cells /\ cb \in Column(<<"cerebellum", e>>)
      BY DEF Cells, Column
    <2> QED
      BY <2>1, FitsPut
  <1>5. NewEntity(e, s, p, cb) = w
    BY DEF NewEntity
  <1> HIDE DEF A, B, C, D
  <1>6. Fits(w)
    BY <1>1, <1>2, <1>3, <1>4, FitsOver
  <1> HIDE DEF w
  <1>7. Kinds(w) = {"elive", "preset", "prompt", "cerebellum"}
    BY <1>5, NewEntityKinds
  <1>8. DOMAIN w = {<<"elive", e>>, <<"preset", e>>, <<"prompt", e>>, <<"cerebellum", e>>}
    BY <1>5, NewEntityDomain
  <1>9. w[<<"elive", e>>] = "live"
    BY <1>5, NewEntityStage
  <1>10. Whole(w)
    <2>1. \A z : /\ <<"blive", z>> \notin DOMAIN w /\ <<"glive", z>> \notin DOMAIN w
                 /\ <<"ilive", z>> \notin DOMAIN w
                 /\ <<"slug", z>> \notin DOMAIN w /\ <<"of", z>> \notin DOMAIN w
      BY <1>7, NotOfKind
    <2>2. \A z : (<<"elive", z>> \in DOMAIN w => z = e) /\ (<<"cerebellum", z>> \in DOMAIN w => z = e)
      BY <1>8
    <2>3. <<"cerebellum", e>> \in DOMAIN w
      BY <1>8
    <2> QED
      BY <2>1, <2>2, <2>3, <1>9 DEF Whole
  <1> QED
    BY <1>5, <1>6, <1>10

LEMMA NewEntityFree ==
    ASSUME NEW e, NEW s, NEW p, NEW cb, NEW v, v[<<"elive", e>>] = "none", cb => ~HasCerebellum(v)
    PROVE  ~Conflicts(NewEntity(e, s, p, cb), v)
  <1>1. ~Conflicts(Put("elive", e, "live"), v)
    BY StageFree
  <1>2. ~Conflicts(Put("preset", e, s), v)
    <2>1. Kinds(Put("preset", e, s)) = {"preset"}
      BY KindsPut
    <2> QED
      BY <2>1, NoIndex
  <1>3. ~Conflicts(Put("prompt", e, p), v)
    <2>1. Kinds(Put("prompt", e, p)) = {"prompt"}
      BY KindsPut
    <2> QED
      BY <2>1, NoIndex
  <1>4. ~Conflicts(Put("cerebellum", e, cb), v)
    BY FlagFree
  <1>5. ~Conflicts(Put("elive", e, "live") ++ Put("preset", e, s), v)
    BY <1>1, <1>2, ConflictsOver
  <1>6. ~Conflicts(Put("elive", e, "live") ++ Put("preset", e, s) ++ Put("prompt", e, p), v)
    BY <1>3, <1>5, ConflictsOver
  <1>7. ~Conflicts(Put("elive", e, "live") ++ Put("preset", e, s) ++ Put("prompt", e, p) ++ Put("cerebellum", e, cb), v)
    BY <1>4, <1>6, ConflictsOver
  <1> QED
    BY <1>7 DEF NewEntity

LEMMA BumpFree ==
    ASSUME NEW w, NEW E, ~Conflicts(w, db)
    PROVE  ~Conflicts(BumpEntities(w, E), db)
  <1> DEFINE D == {x \in E : db[<<"hash", x>>] # Surface(w ++ db, x)}
             H == [c \in {<<"hash", e>> : e \in D} |-> Surface(w ++ db, c[2])]
  <1>1. BumpEntities(w, E) = H ++ w
    BY DEF BumpEntities
  <1>2. DOMAIN H = {<<"hash", e>> : e \in D}
    OBVIOUS
  <1> HIDE DEF H, D
  <1>3. \A c \in DOMAIN H : c[1] = "hash"
    BY <1>2
  <1>4. Kinds(H) \subseteq {"hash"}
    BY <1>3 DEF Kinds
  <1>5. ~Conflicts(H, db)
    BY <1>4, NoIndex
  <1>6. ~Conflicts(H ++ w, db)
    BY <1>5, ConflictsOver
  <1> QED
    BY <1>1, <1>6

LEMMA CreateEntityKeeps ==
    ASSUME CatalogInv, NEW h \in Handlers, CreateEntity(h)
    PROVE  CatalogInv'
  <1>1. PICK e \in Unused("elive", Entities), s \in registry \cup {None}, cb \in BOOLEAN :
           /\ cb => ~HasCerebellum(db)
           /\ Request(h, "create_entity", None, e, BumpEntities(NewEntity(e, s, "first", cb), {e}))
    BY DEF CreateEntity
  <1> DEFINE w == NewEntity(e, s, "first", cb)
             v == w ++ db
  <1>2. e \in Entities /\ db[<<"elive", e>>] = "none" /\ s \in Slugs \cup {None} /\ Table(db)
    BY CatalogFacts DEF Unused, CatalogInv, RequestTypes
  <1>3. "first" \in Prompts
    BY DEF Prompts
  <1>4. /\ Fits(w) /\ Whole(w) /\ Kinds(w) = {"elive", "preset", "prompt", "cerebellum"}
        /\ DOMAIN w = {<<"elive", e>>, <<"preset", e>>, <<"prompt", e>>, <<"cerebellum", e>>}
    <2>1. Fits(w)
      BY <1>2, <1>3, NewEntityCells
    <2>2. Whole(w)
      BY <1>2, <1>3, NewEntityCells
    <2>3. Kinds(w) = {"elive", "preset", "prompt", "cerebellum"}
      BY NewEntityKinds
    <2>4. DOMAIN w = {<<"elive", e>>, <<"preset", e>>, <<"prompt", e>>, <<"cerebellum", e>>}
      BY NewEntityDomain
    <2> QED
      BY <2>1, <2>2, <2>3, <2>4
  <1>5. ~Conflicts(w, db)
    BY <1>1, <1>2, NewEntityFree
  <1> HIDE DEF w
  <1>6. Sound("create_entity", w, db, served + 1)
    BY <1>4, UnlinkedAnchored DEF Sound, Reloading
  <1>7. Sound("create_entity", BumpEntities(w, {e}), db, served + 1)
    BY <1>2, <1>4, <1>6, BumpSound
  <1>8. ASSUME NEW f \in Entities \ {e}, Live(v, "elive", f) PROVE Live(db, "elive", f) /\ Surface(v, f) = Surface(db, f)
    <2>1. <<"elive", f>> \in Cells /\ <<"elive", f>> \notin DOMAIN w
      BY <1>4, <1>8 DEF Cells
    <2>2. v[<<"elive", f>>] = db[<<"elive", f>>]
      BY <1>2, <2>1, OverCell
    <2>3. \A c \in DOMAIN w :
              \/ c[1] \in {"hash", "active", "runtime", "of", "ilive", "elive", "cerebellum", "bcap"}
              \/ c[1] \in {"ecap", "egene", "prompt", "preset"} /\ c[2] = e
      BY <1>4
    <2>4. Surface(v, f) = Surface(db, f)
      BY <1>2, <1>8, <2>3, OthersUntouched
    <2> QED
      BY <1>8, <2>2, <2>4 DEF Live
  <1>9. Hashed(BumpEntities(w, {e}) ++ db, db)
    BY <1>2, <1>4, <1>8, HashedByBump
  <1>10. ~Conflicts(BumpEntities(w, {e}), db)
    BY <1>5, BumpFree
  <1>11. Promise("create_entity", None, e, BumpEntities(w, {e}), db)
    BY <1>9, <1>10 DEF Promise, Copied
  <1> QED
    BY <1>1, <1>7, <1>11, RequestKeeps DEF w

LEMMA UpdateEntityKeeps ==
    ASSUME CatalogInv, NEW h \in Handlers, UpdateEntity(h)
    PROVE  CatalogInv'
  <1>1. PICK e \in Of("elive", Entities) :
           \/ Request(h, "update_entity", None, e, Put("prompt", e, "edited"))
           \/ \E s \in registry : Request(h, "update_entity", None, e, Put("preset", e, s))
           \/ /\ ~HasCerebellum(db)
              /\ Request(h, "update_entity", None, e, Put("cerebellum", e, TRUE))
    BY DEF UpdateEntity
  <1>2. e \in Entities
    BY DEF Of
  <1>3. CASE Request(h, "update_entity", None, e, Put("prompt", e, "edited"))
    <2> DEFINE w == Put("prompt", e, "edited")
    <2>1. <<"prompt", e>> \in Cells /\ "edited" \in Column(<<"prompt", e>>)
      BY <1>2 DEF Cells, Column, Prompts
    <2>2. Fits(w)
      BY <2>1, FitsPut
    <2>3. Kinds(w) = {"prompt"}
      BY KindsPut
    <2> HIDE DEF w
    <2>4. Sound("update_entity", w, db, served + 1)
      BY <2>2, <2>3, UnlinkedAnchored, QuietSound
    <2>5. ~Conflicts(w, db)
      BY <2>3, NoIndex
    <2>6. Promise("update_entity", None, e, w, db)
      BY <2>5, ReloadPromise
    <2> QED
      BY <1>3, <2>4, <2>6, RequestKeeps DEF w
  <1>4. CASE \E s \in registry : Request(h, "update_entity", None, e, Put("preset", e, s))
    <2>1. PICK s \in registry : Request(h, "update_entity", None, e, Put("preset", e, s))
      BY <1>4
    <2> DEFINE w == Put("preset", e, s)
    <2>2. <<"preset", e>> \in Cells /\ s \in Column(<<"preset", e>>)
      BY <1>2 DEF Cells, Column, CatalogInv, RequestTypes
    <2>3. Fits(w)
      BY <2>2, FitsPut
    <2>4. Kinds(w) = {"preset"}
      BY KindsPut
    <2> HIDE DEF w
    <2>5. Sound("update_entity", w, db, served + 1)
      BY <2>3, <2>4, UnlinkedAnchored, QuietSound
    <2>6. ~Conflicts(w, db)
      BY <2>4, NoIndex
    <2>7. Promise("update_entity", None, e, w, db)
      BY <2>6, ReloadPromise
    <2> QED
      BY <2>1, <2>5, <2>7, RequestKeeps DEF w
  <1>5. CASE ~HasCerebellum(db) /\ Request(h, "update_entity", None, e, Put("cerebellum", e, TRUE))
    <2> DEFINE w == Put("cerebellum", e, TRUE)
    <2>1. <<"cerebellum", e>> \in Cells /\ TRUE \in Column(<<"cerebellum", e>>)
      BY <1>2 DEF Cells, Column
    <2>2. Fits(w)
      BY <2>1, FitsPut
    <2>3. Kinds(w) = {"cerebellum"} /\ DOMAIN w = {<<"cerebellum", e>>}
      BY KindsPut
    <2>4. ~Conflicts(w, db)
      BY <1>5, FlagFree
    <2> HIDE DEF w
    <2>5. Whole(w)
      <3>1. \A z : /\ <<"elive", z>> \notin DOMAIN w /\ <<"glive", z>> \notin DOMAIN w
                   /\ <<"ilive", z>> \notin DOMAIN w /\ <<"slug", z>> \notin DOMAIN w
                   /\ <<"blive", z>> \notin DOMAIN w /\ <<"of", z>> \notin DOMAIN w
        BY <2>3, NotOfKind
      <3>2. \A z : <<"cerebellum", z>> \in DOMAIN w => z = e
        BY <2>3
      <3> QED
        BY <3>1, <3>2 DEF Whole
    <2>6. Sound("update_entity", w, db, served + 1)
      BY <2>2, <2>3, <2>5, UnlinkedAnchored DEF Sound, Reloading
    <2>7. Promise("update_entity", None, e, w, db)
      BY <2>4, ReloadPromise
    <2> QED
      BY <1>5, <2>6, <2>7, RequestKeeps DEF w
  <1> QED
    BY <1>1, <1>3, <1>4, <1>5

LEMMA DeleteEntityKeeps ==
    ASSUME CatalogInv, NEW h \in Handlers, DeleteEntity(h)
    PROVE  CatalogInv'
  <1>1. PICK e \in Of("elive", Entities) : Request(h, "delete_entity", None, e, Put("elive", e, "gone"))
    BY DEF DeleteEntity
  <1>2. e \in Entities /\ Table(db)
    BY CatalogFacts DEF Of
  <1> DEFINE w == Put("elive", e, "gone")
             v == w ++ db
  <1>3. Fits(w)
    <2>1. <<"elive", e>> \in Cells /\ "gone" \in Column(<<"elive", e>>)
      BY <1>2 DEF Cells, Column, Stages
    <2> QED
      BY <2>1, FitsPut
  <1>4. Kinds(w) = {"elive"} /\ DOMAIN w = {<<"elive", e>>} /\ w[<<"elive", e>>] = "gone"
    BY KindsPut
  <1>5. ~Conflicts(w, db)
    BY StageFree
  <1> HIDE DEF w
  <1>6. Whole(w)
    <2>1. \A z : /\ <<"blive", z>> \notin DOMAIN w /\ <<"glive", z>> \notin DOMAIN w
                 /\ <<"ilive", z>> \notin DOMAIN w /\ <<"slug", z>> \notin DOMAIN w
                 /\ <<"cerebellum", z>> \notin DOMAIN w /\ <<"of", z>> \notin DOMAIN w
      BY <1>4, NotOfKind
    <2>2. \A z : <<"elive", z>> \in DOMAIN w => z = e
      BY <1>4
    <2> QED
      BY <2>1, <2>2, <1>4 DEF Whole
  <1>7. Sound("delete_entity", w, db, served + 1)
    BY <1>3, <1>4, <1>6, UnlinkedAnchored DEF Sound, Reloading
  <1>8. \A c \in Cells : c[1] # "elive" => v[c] = db[c]
    BY <1>2, <1>4, OtherKinds DEF Table
  <1>9. \A f \in Entities : Live(v, "elive", f) => Live(db, "elive", f)
    <2> SUFFICES ASSUME NEW f \in Entities, Live(v, "elive", f) PROVE Live(db, "elive", f)
      OBVIOUS
    <2>1. <<"elive", f>> \in Cells
      BY DEF Cells
    <2>2. CASE f = e
      BY <1>4, <2>2, OverWritten DEF Live
    <2>3. CASE f # e
      BY <1>2, <1>4, <2>1, <2>3, OverCell DEF Live
    <2> QED
      BY <2>2, <2>3
  <1> HIDE DEF v
  <1>10. \A f \in Entities : Surface(v, f) = Surface(db, f)
    BY <1>2, <1>8, SameSurfaces
  <1>11. Hashed(v, db)
    BY <1>9, <1>10, HashedByFrame
  <1>12. Promise("delete_entity", None, e, w, db)
    BY <1>5, <1>11 DEF Promise, Copied, v
  <1> QED
    BY <1>1, <1>7, <1>12, RequestKeeps DEF w

\* At most one link of x written
LEMMA OneLink ==
    ASSUME NEW k, NEW x, NEW y, <<k, x, y>> \in Cells, Column(<<k, x, y>>) = BOOLEAN,
           NEW w \in {Nothing, Link(k, x, {y}), Unlink(k, x, y)}
    PROVE  Fits(w) /\ DOMAIN w \subseteq {<<k, x, y>>} /\ (w = Unlink(k, x, y) => w[<<k, x, y>>] = FALSE)
  <1>1. CASE w = Nothing
    <2>1. Fits(w) /\ DOMAIN w = {}
      BY <1>1, FitsNothing, KindsNothing
    <2>2. DOMAIN Unlink(k, x, y) = {<<k, x, y>>}
      BY DEF Unlink
    <2> QED
      BY <2>1, <2>2
  <1>2. CASE w = Link(k, x, {y})
    <2>1. Fits(w)
      BY <1>2, FitsLink
    <2>2. DOMAIN w = {<<k, x, z>> : z \in {y}} /\ \A c \in DOMAIN w : w[c] = TRUE
      BY <1>2 DEF Link
    <2>3. \A c \in DOMAIN Unlink(k, x, y) : Unlink(k, x, y)[c] = FALSE
      BY DEF Unlink
    <2>4. <<k, x, y>> \in DOMAIN w /\ DOMAIN w \subseteq {<<k, x, y>>}
      BY <2>2
    <2> QED
      BY <2>1, <2>2, <2>3, <2>4
  <1>3. CASE w = Unlink(k, x, y)
    <2>1. Fits(w)
      BY <1>3, FitsUnlink
    <2>2. DOMAIN w = {<<k, x, y>>} /\ w[<<k, x, y>>] = FALSE
      BY <1>3 DEF Unlink
    <2> QED
      BY <2>1, <2>2
  <1> QED
    BY <1>1, <1>2, <1>3

\* Links of a live entity, whichever way they change
LEMMA EntityLinksKeep ==
    ASSUME CatalogInv, NEW e \in Of("elive", Entities), NEW w, Fits(w),
           NEW k \in {"ecap", "egene"}, NEW y, DOMAIN w \subseteq {<<k, e, y>>},
           k = "ecap" => y[2] =< served + 1,
           k = "egene" /\ <<k, e, y>> \in DOMAIN w /\ w[<<k, e, y>>] => db[<<"glive", y>>] # "none",
           NEW kind \in {"attach_capability", "detach_capability", "attach_gene", "detach_gene"},
           NEW src, NEW new, NEW h \in Handlers, Request(h, kind, src, new, BumpEntities(w, {e}))
    PROVE  CatalogInv'
  <1> DEFINE v == w ++ db
  <1>1. Table(db) /\ e \in Entities /\ db[<<"elive", e>>] = "live"
    BY CatalogFacts DEF Of, Live
  <1>2. Kinds(w) \subseteq {k}
    BY DEF Kinds
  <1>3. v[<<"elive", e>>] = "live" /\ \A g \in Genes : v[<<"glive", g>>] = db[<<"glive", g>>]
    <2>1. v[<<"elive", e>>] = "live"
      <3>1. <<"elive", e>> \in Cells /\ <<"elive", e>> \notin DOMAIN w
        BY <1>1, <1>2, NotOfKind DEF Cells
      <3> QED
        BY <1>1, <3>1, OverCell
    <2>2. ASSUME NEW g \in Genes PROVE v[<<"glive", g>>] = db[<<"glive", g>>]
      <3>1. <<"glive", g>> \in Cells /\ <<"glive", g>> \notin DOMAIN w
        BY <1>2, NotOfKind DEF Cells
      <3> QED
        BY <1>1, <3>1, OverCell
    <2> QED
      BY <2>1, <2>2
  <1>4. Anchored(w, db, served + 1)
    <2>1. /\ \A x : <<"row", x>> \notin DOMAIN w
          /\ \A x, z : <<"bcap", x, z>> \notin DOMAIN w /\ <<"bgene", x, z>> \notin DOMAIN w
      BY <1>2, NotOfKind
    <2>2. ASSUME NEW f \in Entities, NEW r \in Rows, <<"ecap", f, r>> \in DOMAIN w
          PROVE  r[2] =< served + 1 /\ v[<<"elive", f>>] # "none"
      <3>1. k = "ecap" /\ f = e /\ r = y
        BY <2>2
      <3> QED
        BY <1>3, <3>1
    <2>3. ASSUME NEW f \in Entities, NEW g \in Genes, <<"egene", f, g>> \in DOMAIN w, w[<<"egene", f, g>>]
          PROVE  v[<<"elive", f>>] # "none" /\ v[<<"glive", g>>] # "none"
      <3>1. k = "egene" /\ f = e /\ g = y
        BY <2>3
      <3> QED
        BY <1>3, <2>3, <3>1
    <2> QED
      BY <2>1, <2>2, <2>3 DEF Anchored
  <1>5. Sound(kind, w, db, served + 1)
    BY <1>2, <1>4, QuietSound
  <1>6. Sound(kind, BumpEntities(w, {e}), db, served + 1)
    BY <1>1, <1>2, <1>5, BumpSound
  <1>7. \A c \in DOMAIN w :
           \/ c[1] \in {"hash", "active", "runtime", "of", "ilive", "elive", "cerebellum", "bcap"}
           \/ c[1] \in {"ecap", "egene", "prompt", "preset"} /\ c[2] = e
    OBVIOUS
  <1>8. \A f \in Entities \ {e} : Surface(v, f) = Surface(db, f)
    BY <1>1, <1>7, OthersUntouched
  <1>9. \A f \in Entities : Live(v, "elive", f) <=> Live(db, "elive", f)
    BY <1>1, <1>2, StageKept
  <1>10. Hashed(BumpEntities(w, {e}) ++ db, db)
    BY <1>1, <1>2, <1>8, <1>9, HashedByBump
  <1>11. Promise(kind, src, new, BumpEntities(w, {e}), db)
    BY <1>10, HashPromise
  <1> QED
    BY <1>6, <1>11, RequestKeeps

LEMMA RowOfName ==
    ASSUME CatalogInv, NEW n \in Names
    PROVE  Row(db, n) \in Rows /\ Row(db, n)[2] =< served + 1
  <1>1. db[<<"row", n>>] \in 0 .. MaxRequests /\ db[<<"row", n>>] =< served /\ served \in Nat
    BY CatalogFacts, NameColumns DEF Linked
  <1> QED
    BY <1>1, RequestsBound DEF Row, Rows

LEMMA AttachEntityCapabilityKeeps ==
    ASSUME CatalogInv, NEW h \in Handlers, AttachEntityCapability(h)
    PROVE  CatalogInv'
  <1>1. PICK e \in Of("elive", Entities), n \in Names :
           Request(h, "attach_capability", e, n,
                   BumpEntities(IF db[<<"ecap", e, Row(db, n)>>] THEN Nothing ELSE Link("ecap", e, {Row(db, n)}), {e}))
    BY DEF AttachEntityCapability
  <1> DEFINE q == Row(db, n)
             w == IF db[<<"ecap", e, q>>] THEN Nothing ELSE Link("ecap", e, {q})
  <1>2. q \in Rows /\ q[2] =< served + 1
    BY RowOfName
  <1> HIDE DEF q
  <1>3. <<"ecap", e, q>> \in Cells /\ Column(<<"ecap", e, q>>) = BOOLEAN
    BY <1>2, ColumnsOf DEF Cells, Of
  <1>4. w \in {Nothing, Link("ecap", e, {q}), Unlink("ecap", e, q)}
    OBVIOUS
  <1>5. Request(h, "attach_capability", e, n, BumpEntities(w, {e}))
    BY <1>1 DEF q
  <1> HIDE DEF w
  <1>6. Fits(w) /\ DOMAIN w \subseteq {<<"ecap", e, q>>}
    BY <1>3, <1>4, OneLink
  <1> QED
    BY <1>2, <1>5, <1>6, EntityLinksKeep

LEMMA DetachEntityCapabilityKeeps ==
    ASSUME CatalogInv, NEW h \in Handlers, DetachEntityCapability(h)
    PROVE  CatalogInv'
  <1>1. PICK e \in Of("elive", Entities), r \in Rows :
           db[<<"ecap", e, r>>] /\ Request(h, "detach_capability", e, r[1], BumpEntities(Unlink("ecap", e, r), {e}))
    BY DEF DetachEntityCapability
  <1> DEFINE w == Unlink("ecap", e, r)
  <1>2. e \in Entities
    BY DEF Of
  <1>3. <<"ecap", e, r>> \in Cells /\ Column(<<"ecap", e, r>>) = BOOLEAN
    BY <1>2, ColumnsOf DEF Cells
  <1>4. r[2] =< served + 1
    BY <1>1, <1>2, CatalogFacts, LinkedLater DEF Linked
  <1>5. Fits(w) /\ DOMAIN w \subseteq {<<"ecap", e, r>>}
    BY <1>3, OneLink
  <1> QED
    BY <1>1, <1>4, <1>5, EntityLinksKeep

LEMMA AttachEntityAiGeneKeeps ==
    ASSUME CatalogInv, NEW h \in Handlers, AttachEntityAiGene(h)
    PROVE  CatalogInv'
  <1>1. PICK e \in Of("elive", Entities), g \in Of("glive", Genes) :
           Request(h, "attach_gene", e, g,
                   BumpEntities(IF db[<<"egene", e, g>>] THEN Nothing ELSE Link("egene", e, {g}), {e}))
    BY DEF AttachEntityAiGene
  <1> DEFINE w == IF db[<<"egene", e, g>>] THEN Nothing ELSE Link("egene", e, {g})
  <1>2. e \in Entities /\ g \in Genes /\ db[<<"glive", g>>] # "none"
    BY DEF Of, Live
  <1>3. <<"egene", e, g>> \in Cells /\ Column(<<"egene", e, g>>) = BOOLEAN
    BY <1>2, ColumnsOf DEF Cells
  <1>4. w \in {Nothing, Link("egene", e, {g}), Unlink("egene", e, g)}
    OBVIOUS
  <1>5. Request(h, "attach_gene", e, g, BumpEntities(w, {e}))
    BY <1>1
  <1> HIDE DEF w
  <1>6. Fits(w) /\ DOMAIN w \subseteq {<<"egene", e, g>>}
    BY <1>3, <1>4, OneLink
  <1> QED
    BY <1>2, <1>5, <1>6, EntityLinksKeep

LEMMA DetachEntityAiGeneKeeps ==
    ASSUME CatalogInv, NEW h \in Handlers, DetachEntityAiGene(h)
    PROVE  CatalogInv'
  <1>1. PICK e \in Of("elive", Entities), g \in Genes :
           Request(h, "detach_gene", e, g, BumpEntities(Unlink("egene", e, g), {e}))
    BY DEF DetachEntityAiGene
  <1> DEFINE w == Unlink("egene", e, g)
  <1>2. e \in Entities
    BY DEF Of
  <1>3. <<"egene", e, g>> \in Cells /\ Column(<<"egene", e, g>>) = BOOLEAN
    BY <1>2, ColumnsOf DEF Cells
  <1>4. Fits(w) /\ DOMAIN w \subseteq {<<"egene", e, g>>}
    BY <1>3, OneLink
  <1>5. w[<<"egene", e, g>>] = FALSE
    BY DEF Unlink
  <1> HIDE DEF w
  <1>6. Request(h, "detach_gene", e, g, BumpEntities(w, {e}))
    BY <1>1 DEF w
  <1> QED
    BY <1>4, <1>5, <1>6, EntityLinksKeep

\* A copied link is there exactly when the one it copies is.
LEMMA CopiedLink ==
    ASSUME NEW w, Table(db), NEW k, NEW x, NEW y, NEW z, <<k, x, z>> \in Cells, <<k, y, z>> \in Cells,
           db[<<k, x, z>>] \in BOOLEAN, db[<<k, y, z>>] \in BOOLEAN, ~db[<<k, y, z>>],
           <<k, x, z>> \notin DOMAIN w, <<k, y, z>> \in DOMAIN w <=> db[<<k, x, z>>],
           <<k, y, z>> \in DOMAIN w => w[<<k, y, z>>] = TRUE
    PROVE  (w ++ db)[<<k, y, z>>] = (w ++ db)[<<k, x, z>>]
  <1>1. (w ++ db)[<<k, x, z>>] = db[<<k, x, z>>]
    BY OverCell
  <1>2. CASE db[<<k, x, z>>]
    <2>1. (w ++ db)[<<k, y, z>>] = TRUE
      BY <1>2, OverWritten
    <2> QED
      BY <1>1, <1>2, <2>1
  <1>3. CASE ~db[<<k, x, z>>]
    <2>1. (w ++ db)[<<k, y, z>>] = db[<<k, y, z>>]
      BY <1>3, OverCell
    <2> QED
      BY <1>1, <1>3, <2>1
  <1> QED
    BY <1>2, <1>3

LEMMA CloneEntityKeeps ==
    ASSUME CatalogInv, NEW h \in Handlers, CloneEntity(h)
    PROVE  CatalogInv'
  <1>1. PICK e \in Of("elive", Entities), new \in Unused("elive", Entities) :
           Request(h, "clone_entity", e, new, CloneOf(e, new))
    BY DEF CloneEntity
  <1>2. /\ e \in Entities /\ db[<<"elive", e>>] = "live" /\ new \in Entities /\ db[<<"elive", new>>] = "none"
        /\ e # new
    BY DEF Of, Live, Unused
  <1>3. Table(db) /\ Linked(db, served) /\ Linked(db, served + 1)
    BY CatalogFacts, LinkedLater
  <1>4. db[<<"preset", e>>] \in Slugs \cup {None} /\ db[<<"prompt", e>>] \in Prompts
    BY <1>2, <1>3, EntityColumns
  <1> DEFINE s == db[<<"preset", e>>]
             p == db[<<"prompt", e>>]
             A == CloneLinks("ecap", e, new, Rows)
             B == CloneLinks("egene", e, new, Genes)
             C == NewEntity(new, s, p, FALSE)
             w == A ++ B ++ C
             v == w ++ db
  <1>5. /\ \A r \in Rows : ~db[<<"ecap", new, r>>]
        /\ \A g \in Genes : ~db[<<"egene", new, g>>]
    BY <1>2, <1>3 DEF Linked
  <1>6. Fits(A)
    <2>1. A = Link("ecap", new, {r \in Rows : db[<<"ecap", e, r>>]})
      BY DEF CloneLinks
    <2>2. \A r \in Rows : <<"ecap", new, r>> \in Cells
      BY <1>2 DEF Cells
    <2>3. \A r \in Rows : TRUE \in Column(<<"ecap", new, r>>)
      BY DEF Column
    <2> QED
      BY <2>1, <2>2, <2>3, FitsLink
  <1>7. Fits(B)
    <2>1. B = Link("egene", new, {g \in Genes : db[<<"egene", e, g>>]})
      BY DEF CloneLinks
    <2>2. \A g \in Genes : <<"egene", new, g>> \in Cells
      BY <1>2 DEF Cells
    <2>3. \A g \in Genes : TRUE \in Column(<<"egene", new, g>>)
      BY DEF Column
    <2> QED
      BY <2>1, <2>2, <2>3, FitsLink
  <1>8. /\ Fits(C) /\ Whole(C)
        /\ C[<<"elive", new>>] = "live" /\ C[<<"preset", new>>] = s /\ C[<<"prompt", new>>] = p
    <2>1. s \in Slugs \cup {None} /\ p \in Prompts /\ FALSE \in BOOLEAN
      BY <1>4
    <2> HIDE DEF s, p
    <2>2. Fits(C)
      BY <1>2, <2>1, NewEntityCells
    <2>3. Whole(C)
      BY <1>2, <2>1, NewEntityCells
    <2>7. C = NewEntity(new, s, p, FALSE)
      OBVIOUS
    <2> HIDE DEF C
    <2>4. C[<<"elive", new>>] = "live"
      BY <2>7, NewEntityStage
    <2>5. C[<<"preset", new>>] = s
      BY <2>7, NewEntityPreset
    <2>6. C[<<"prompt", new>>] = p
      <3>1. PICK cb : cb = FALSE
        OBVIOUS
      <3>2. C = NewEntity(new, s, p, cb)
        BY <2>7, <3>1
      <3> QED
        BY <3>2, NewEntityPrompt
    <2> QED
      BY <2>2, <2>3, <2>4, <2>5, <2>6
  <1>9. Kinds(C) = {"elive", "preset", "prompt", "cerebellum"}
    BY NewEntityKinds
  <1>10. DOMAIN C = {<<"elive", new>>, <<"preset", new>>, <<"prompt", new>>, <<"cerebellum", new>>}
    BY NewEntityDomain
  <1>11. /\ Kinds(A) \subseteq {"ecap"}
         /\ \A r \in Rows : <<"ecap", new, r>> \in DOMAIN A <=> db[<<"ecap", e, r>>]
         /\ \A c \in DOMAIN A : \E r \in Rows : c = <<"ecap", new, r>> /\ db[<<"ecap", e, r>>]
         /\ \A c \in DOMAIN A : A[c] = TRUE
    BY CloneLinksCells
  <1>12. /\ Kinds(B) \subseteq {"egene"}
         /\ \A g \in Genes : <<"egene", new, g>> \in DOMAIN B <=> db[<<"egene", e, g>>]
         /\ \A c \in DOMAIN B : \E g \in Genes : c = <<"egene", new, g>> /\ db[<<"egene", e, g>>]
         /\ \A c \in DOMAIN B : B[c] = TRUE
    BY CloneLinksCells
  <1>13. Request(h, "clone_entity", e, new, w)
    BY <1>1 DEF CloneOf
  <1> HIDE DEF A, B, C, s, p
  <1>14. Fits(w)
    BY <1>6, <1>7, <1>8, FitsOver
  <1>15. Kinds(A ++ B) \subseteq {"ecap", "egene"}
    BY <1>11, <1>12, KindsOver
  <1>16. Whole(w) /\ <<"elive", new>> \in DOMAIN w /\ w[<<"elive", new>>] = "live"
    BY <1>8, <1>10, <1>15, WholeOver
  <1>17. Kinds(w) \subseteq {"ecap", "egene", "elive", "preset", "prompt", "cerebellum"}
    <2>1. Kinds(w) = Kinds(A ++ B) \cup Kinds(C)
      BY KindsOver
    <2> HIDE DEF w
    <2> QED
      BY <1>9, <1>15, <2>1
  <1>18. DOMAIN w = DOMAIN A \cup DOMAIN B \cup DOMAIN C
    <2>1. DOMAIN w = DOMAIN (A ++ B) \cup DOMAIN C
      BY OverDomain
    <2>2. DOMAIN (A ++ B) = DOMAIN A \cup DOMAIN B
      BY OverDomain
    <2> QED
      BY <2>1, <2>2
  <1>19. ASSUME NEW f \in Entities, NEW r \in Rows
         PROVE  <<"ecap", f, r>> \in DOMAIN w <=> f = new /\ db[<<"ecap", e, r>>]
    <2>1. <<"ecap", f, r>> \notin DOMAIN B /\ <<"ecap", f, r>> \notin DOMAIN C
      BY <1>9, <1>12, NotOfKind
    <2>2. <<"ecap", f, r>> \in DOMAIN A => f = new
      BY <1>11
    <2> HIDE DEF w
    <2> QED
      BY <1>11, <1>18, <2>1, <2>2
  <1>20. ASSUME NEW f \in Entities, NEW g \in Genes
         PROVE  <<"egene", f, g>> \in DOMAIN w <=> f = new /\ db[<<"egene", e, g>>]
    <2>1. <<"egene", f, g>> \notin DOMAIN A /\ <<"egene", f, g>> \notin DOMAIN C
      BY <1>9, <1>11, NotOfKind
    <2>2. <<"egene", f, g>> \in DOMAIN B => f = new
      BY <1>12
    <2> HIDE DEF w
    <2> QED
      BY <1>12, <1>18, <2>1, <2>2
  <1>21. ASSUME NEW c \in DOMAIN w, c[1] \in {"ecap", "egene"} PROVE w[c] = TRUE
    <2>1. c \notin DOMAIN C
      BY <1>9, <1>21 DEF Kinds
    <2>2. DOMAIN (A ++ B) = DOMAIN A \cup DOMAIN B
      BY OverDomain
    <2>3. c \in DOMAIN (A ++ B)
      BY <1>18, <1>21, <2>1, <2>2
    <2>4. w[c] = (A ++ B)[c]
      BY <2>3, OverWritten
    <2>5. CASE c \in DOMAIN A
      BY <1>11, <2>4, <2>5, OverWritten
    <2>6. CASE c \notin DOMAIN A
      <3>1. c \in DOMAIN B
        BY <2>2, <2>3, <2>6
      <3> QED
        BY <1>12, <2>4, <2>6, <3>1, OverLeft
    <2> QED
      BY <2>5, <2>6
  <1>22. w[<<"preset", new>>] = s /\ w[<<"prompt", new>>] = p /\ <<"preset", new>> \in DOMAIN w /\ <<"prompt", new>> \in DOMAIN w
    <2>1. <<"preset", new>> \notin DOMAIN (A ++ B) /\ <<"prompt", new>> \notin DOMAIN (A ++ B)
      BY <1>15, NotOfKind
    <2>2. <<"preset", new>> \in DOMAIN C /\ <<"prompt", new>> \in DOMAIN C
      BY <1>10
    <2>3. w[<<"preset", new>>] = C[<<"preset", new>>] /\ w[<<"prompt", new>>] = C[<<"prompt", new>>]
      BY <2>1, <2>2, OverLeft
    <2> QED
      BY <1>8, <1>18, <2>2, <2>3
  <1>23. \A x : x # new => <<"preset", x>> \notin DOMAIN w /\ <<"prompt", x>> \notin DOMAIN w
    <2> SUFFICES ASSUME NEW x, x # new PROVE <<"preset", x>> \notin DOMAIN w /\ <<"prompt", x>> \notin DOMAIN w
      OBVIOUS
    <2>1. <<"preset", x>> \notin DOMAIN A /\ <<"prompt", x>> \notin DOMAIN A
      BY <1>11, NotOfKind
    <2>2. <<"preset", x>> \notin DOMAIN B /\ <<"prompt", x>> \notin DOMAIN B
      BY <1>12, NotOfKind
    <2>3. <<"preset", x>> \notin DOMAIN C /\ <<"prompt", x>> \notin DOMAIN C
      BY <1>10
    <2> QED
      BY <1>18, <2>1, <2>2, <2>3
  <1> HIDE DEF w
  <1>24. v[<<"elive", new>>] = "live" /\ \A g \in Genes : v[<<"glive", g>>] = db[<<"glive", g>>]
    <2>1. v[<<"elive", new>>] = "live"
      BY <1>16, OverWritten
    <2>2. ASSUME NEW g \in Genes PROVE v[<<"glive", g>>] = db[<<"glive", g>>]
      <3>1. <<"glive", g>> \in Cells /\ <<"glive", g>> \notin DOMAIN w
        BY <1>17, NotOfKind DEF Cells
      <3> QED
        BY <1>3, <3>1, OverCell
    <2> QED
      BY <2>1, <2>2
  <1>25. Anchored(w, db, served + 1)
    <2>1. /\ \A x : <<"row", x>> \notin DOMAIN w
          /\ \A x, y : <<"bcap", x, y>> \notin DOMAIN w /\ <<"bgene", x, y>> \notin DOMAIN w
      BY <1>17, NotOfKind
    <2>2. \A f \in Entities, r \in Rows : <<"ecap", f, r>> \in DOMAIN w => r[2] =< served + 1 /\ v[<<"elive", f>>] # "none"
      BY <1>2, <1>3, <1>19, <1>24 DEF Linked
    <2>3. \A f \in Entities, g \in Genes : <<"egene", f, g>> \in DOMAIN w => v[<<"elive", f>>] # "none" /\ v[<<"glive", g>>] # "none"
      BY <1>2, <1>3, <1>20, <1>24 DEF Linked
    <2> QED
      BY <2>1, <2>2, <2>3 DEF Anchored
  <1>26. LeavesBases(w)
    BY <1>17, NotOfKind DEF LeavesBases
  <1>27. Sound("clone_entity", w, db, served + 1)
    BY <1>14, <1>16, <1>25, <1>26 DEF Sound
  <1>28. Table(v)
    BY <1>3, <1>14, OverTable
  <1>29. ASSUME NEW r \in Rows PROVE v[<<"ecap", new, r>>] = v[<<"ecap", e, r>>]
    <2>1. <<"ecap", new, r>> \in Cells /\ <<"ecap", e, r>> \in Cells
      BY <1>2 DEF Cells
    <2>2. db[<<"ecap", e, r>>] \in BOOLEAN /\ db[<<"ecap", new, r>>] \in BOOLEAN
      BY <1>2, <1>3, EntityLinkColumns
    <2>3. <<"ecap", new, r>> \in DOMAIN w => w[<<"ecap", new, r>>] = TRUE
      BY <1>21
    <2>4. /\ <<"ecap", e, r>> \notin DOMAIN w /\ ~db[<<"ecap", new, r>>]
          /\ <<"ecap", new, r>> \in DOMAIN w <=> db[<<"ecap", e, r>>]
      BY <1>2, <1>5, <1>19
    <2> HIDE DEF v
    <2>5. (w ++ db)[<<"ecap", new, r>>] = (w ++ db)[<<"ecap", e, r>>]
      BY <1>3, <2>1, <2>2, <2>3, <2>4, CopiedLink
    <2> QED
      BY <2>5 DEF v
  <1>30. ASSUME NEW g \in Genes PROVE v[<<"egene", new, g>>] = v[<<"egene", e, g>>]
    <2>1. <<"egene", new, g>> \in Cells /\ <<"egene", e, g>> \in Cells
      BY <1>2 DEF Cells
    <2>2. db[<<"egene", e, g>>] \in BOOLEAN /\ db[<<"egene", new, g>>] \in BOOLEAN
      BY <1>2, <1>3, EntityLinkColumns
    <2>3. <<"egene", new, g>> \in DOMAIN w => w[<<"egene", new, g>>] = TRUE
      BY <1>21
    <2>4. /\ <<"egene", e, g>> \notin DOMAIN w /\ ~db[<<"egene", new, g>>]
          /\ <<"egene", new, g>> \in DOMAIN w <=> db[<<"egene", e, g>>]
      BY <1>2, <1>5, <1>20
    <2> HIDE DEF v
    <2>5. (w ++ db)[<<"egene", new, g>>] = (w ++ db)[<<"egene", e, g>>]
      BY <1>3, <2>1, <2>2, <2>3, <2>4, CopiedLink
    <2> QED
      BY <2>5 DEF v
  <1>31. v[<<"preset", new>>] = v[<<"preset", e>>] /\ v[<<"prompt", new>>] = v[<<"prompt", e>>]
    <2>1. v[<<"preset", new>>] = s /\ v[<<"prompt", new>>] = p
      BY <1>22, OverWritten
    <2>2. <<"preset", e>> \in Cells /\ <<"prompt", e>> \in Cells
      BY <1>2 DEF Cells
    <2>3. <<"preset", e>> \notin DOMAIN w /\ <<"prompt", e>> \notin DOMAIN w
      BY <1>2, <1>23
    <2>4. v[<<"preset", e>>] = s /\ v[<<"prompt", e>>] = p
      BY <1>3, <2>2, <2>3, OverCell DEF s, p
    <2> QED
      BY <2>1, <2>4
  <1> HIDE DEF v
  <1>32. LinkedCaps(v, "ecap", new) = LinkedCaps(v, "ecap", e)
    <2>1. \A n \in Names : Row(v, n) \in Rows
      BY <1>28, NameColumns DEF Row, Rows
    <2> QED
      BY <2>1, <1>29 DEF LinkedCaps
  <1>33. EffectiveGenes(v, new) = EffectiveGenes(v, e)
    BY <1>30, <1>31 DEF EffectiveGenes
  <1>34. Surface(v, new) = Surface(v, e)
    BY <1>31, <1>32, <1>33 DEF Surface, InlineCaps
  <1>35. Promise("clone_entity", e, new, w, db)
    BY <1>34 DEF Promise, Reloads, Reloading, SilentKinds, Copied, v
  <1> QED
    BY <1>13, <1>27, <1>35, RequestKeeps

-----------------------------------------------------------------------------
(* Instances                                                               *)

\* What is written of instances, and of the hash, leaves every surface.
LEMMA InstanceWrites ==
    ASSUME Table(db), NEW w, Kinds(w) \subseteq {"ilive", "of", "active", "runtime", "hash"}
    PROVE  (\A e \in Entities : Surface(w ++ db, e) = Surface(db, e)) /\ Hashed(w ++ db, db)
  <1> DEFINE v == w ++ db
  <1>1. \A c \in Cells : c[1] \notin {"ilive", "of", "active", "runtime", "hash"} => v[c] = db[c]
    BY OtherKinds DEF Table
  <1> HIDE DEF v
  <1>2. \A e \in Entities : Surface(v, e) = Surface(db, e)
    BY <1>1, SameSurfaces
  <1>3. \A e \in Entities : Live(v, "elive", e) <=> Live(db, "elive", e)
    BY <1>1 DEF Cells, Live
  <1>4. Hashed(v, db)
    BY <1>2, <1>3, HashedByFrame
  <1> QED
    BY <1>2, <1>4 DEF v

\* The entity of a live instance
LEMMA EntityOfInstance ==
    ASSUME CatalogInv, NEW i \in Of("ilive", Instances)
    PROVE  i \in Instances /\ db[<<"of", i>>] \in Entities
  BY CatalogFacts DEF Of, Consistent

LEMMA RestartInstanceKeeps ==
    ASSUME CatalogInv, NEW h \in Handlers, RestartInstance(h)
    PROVE  CatalogInv'
  <1>1. PICK i \in Of("ilive", Instances) :
           Request(h, "restart", db[<<"of", i>>], i, Put("active", i, db[<<"hash", db[<<"of", i>>]>>]))
    BY DEF RestartInstance
  <1> DEFINE e == db[<<"of", i>>]
             w == Put("active", i, db[<<"hash", e>>])
  <1>2. i \in Instances /\ e \in Entities /\ Table(db)
    BY EntityOfInstance, CatalogFacts
  <1> HIDE DEF e
  <1>3. Fits(w)
    <2>1. <<"active", i>> \in Cells
      BY <1>2 DEF Cells
    <2>2. db[<<"hash", e>>] \in Surfaces \cup {None}
      BY <1>2, EntityColumns
    <2>3. db[<<"hash", e>>] \in Column(<<"active", i>>)
      BY <2>2 DEF Column
    <2> QED
      BY <2>1, <2>3, FitsPut
  <1>4. Kinds(w) = {"active"}
    BY KindsPut
  <1> HIDE DEF w
  <1>5. Sound("restart", w, db, served + 1)
    BY <1>3, <1>4, UnlinkedAnchored, QuietSound
  <1>6. Hashed(w ++ db, db)
    BY <1>2, <1>4, InstanceWrites
  <1>7. Promise("restart", e, i, w, db)
    BY <1>6, HashPromise
  <1>8. Request(h, "restart", e, i, w)
    BY <1>1 DEF e, w
  <1> QED
    BY <1>5, <1>7, <1>8, RequestKeeps

LEMMA RuntimeFits ==
    ASSUME NEW i \in Instances, NEW S \in SUBSET Names, NEW config \in Surfaces \cup {None}
    PROVE  Fits(Put("runtime", i, Runtime(S, config)))
  <1>1. <<"runtime", i>> \in Cells
    BY DEF Cells
  <1>2. Runtime(S, config) \in [reaped : SUBSET Names, config : Surfaces \cup {None}]
    BY DEF Runtime
  <1>3. Runtime(S, config) \in Column(<<"runtime", i>>)
    BY <1>2 DEF Column
  <1> QED
    BY <1>1, <1>3, FitsPut

\* What the instance reaped
LEMMA ReapedOf ==
    ASSUME NEW v, Table(v), NEW i \in Instances
    PROVE  v[<<"runtime", i>>].reaped \subseteq Names /\ v[<<"runtime", i>>].config \in Surfaces \cup {None}
  <1>1. v[<<"runtime", i>>] \in [reaped : SUBSET Names, config : Surfaces \cup {None}]
    BY InstanceColumns
  <1> QED
    BY <1>1

LEMMA RefreshInstanceKeeps ==
    ASSUME CatalogInv, NEW h \in Handlers, RefreshInstance(h)
    PROVE  CatalogInv'
  <1>1. PICK i \in Of("ilive", Instances) :
           Request(h, "refresh", db[<<"of", i>>], i,
                   Put("active", i, Surface(db, db[<<"of", i>>]))
                   ++ Put("runtime", i, Runtime(db[<<"runtime", i>>].reaped, Surface(db, db[<<"of", i>>]))))
    BY DEF RefreshInstance
  <1> DEFINE e == db[<<"of", i>>]
             A == Put("active", i, Surface(db, e))
             B == Put("runtime", i, Runtime(db[<<"runtime", i>>].reaped, Surface(db, e)))
             w == A ++ B
  <1>2. i \in Instances /\ e \in Entities /\ Table(db)
    BY EntityOfInstance, CatalogFacts
  <1>8. Request(h, "refresh", e, i, w)
    BY <1>1
  <1> HIDE DEF e
  <1>3. Surface(db, e) \in Surfaces
    BY <1>2, SurfaceType
  <1>4. Fits(A)
    <2>1. <<"active", i>> \in Cells
      BY <1>2 DEF Cells
    <2>2. Surface(db, e) \in Column(<<"active", i>>)
      BY <1>3 DEF Column
    <2> QED
      BY <2>1, <2>2, FitsPut
  <1>5. Fits(B)
    <2>1. db[<<"runtime", i>>].reaped \in SUBSET Names
      BY <1>2, ReapedOf
    <2> QED
      BY <1>2, <1>3, <2>1, RuntimeFits
  <1>6. Kinds(A) = {"active"} /\ Kinds(B) = {"runtime"}
    BY KindsPut
  <1> HIDE DEF A, B
  <1>7. Fits(w)
    BY <1>4, <1>5, FitsOver
  <1>9. Kinds(w) = {"active", "runtime"}
    BY <1>6, KindsOver
  <1> HIDE DEF w
  <1>10. Sound("refresh", w, db, served + 1)
    BY <1>7, <1>9, UnlinkedAnchored, QuietSound
  <1>11. Hashed(w ++ db, db)
    BY <1>2, <1>9, InstanceWrites
  <1>12. Promise("refresh", e, i, w, db)
    BY <1>11, HashPromise
  <1> QED
    BY <1>8, <1>10, <1>12, RequestKeeps

\* What a made instance holds
LEMMA NewInstanceDomain ==
    ASSUME NEW i, NEW e, NEW a
    PROVE  DOMAIN NewInstance(i, e, a) = {<<"ilive", i>>, <<"of", i>>, <<"active", i>>, <<"runtime", i>>}
  <1> DEFINE A == Put("ilive", i, "live")
             B == Put("of", i, e)
             C == Put("active", i, a)
             D == Put("runtime", i, Runtime({}, Surface(db, e)))
             x == A ++ B
             y == x ++ C
             w == y ++ D
  <1>1. DOMAIN x = DOMAIN A \cup DOMAIN B
    BY OverDomain
  <1>2. DOMAIN y = DOMAIN x \cup DOMAIN C
    BY OverDomain
  <1>3. DOMAIN w = DOMAIN y \cup DOMAIN D
    BY OverDomain
  <1>4. NewInstance(i, e, a) = w
    BY DEF NewInstance
  <1>5. DOMAIN A = {<<"ilive", i>>} /\ DOMAIN B = {<<"of", i>>}
    BY DEF Put
  <1>6. DOMAIN C = {<<"active", i>>} /\ DOMAIN D = {<<"runtime", i>>}
    BY DEF Put
  <1> HIDE DEF A, B, C, D, x, y, w
  <1> QED
    BY <1>1, <1>2, <1>3, <1>4, <1>5, <1>6

LEMMA NewInstanceOf ==
    ASSUME NEW i, NEW e, NEW a
    PROVE  NewInstance(i, e, a)[<<"of", i>>] = e
  <1> DEFINE A == Put("ilive", i, "live")
             B == Put("of", i, e)
             C == Put("active", i, a)
             D == Put("runtime", i, Runtime({}, Surface(db, e)))
             x == A ++ B
             y == x ++ C
             w == y ++ D
  <1>1. DOMAIN A = {<<"ilive", i>>}
    BY DEF Put
  <1>2. DOMAIN B = {<<"of", i>>} /\ B[<<"of", i>>] = e
    BY DEF Put
  <1>3. NewInstance(i, e, a) = w
    BY DEF NewInstance
  <1> HIDE DEF A, B, C, D
  <1>4. <<"of", i>> \in DOMAIN x /\ x[<<"of", i>>] = e
    <2>1. DOMAIN x = DOMAIN A \cup DOMAIN B
      BY OverDomain
    <2>2. x[<<"of", i>>] = e
      BY <1>1, <1>2, OverLeft
    <2> HIDE DEF x
    <2> QED
      BY <1>2, <2>1, <2>2
  <1> HIDE DEF x
  <1>5. <<"of", i>> \in DOMAIN y /\ y[<<"of", i>>] = e
    BY <1>4, OverWritten, OverDomain
  <1> HIDE DEF y
  <1>6. w[<<"of", i>>] = e
    BY <1>5, OverWritten
  <1> QED
    BY <1>3, <1>6

LEMMA NewInstanceActive ==
    ASSUME NEW i, NEW e, NEW a
    PROVE  NewInstance(i, e, a)[<<"active", i>>] = a
  <1> DEFINE A == Put("ilive", i, "live")
             B == Put("of", i, e)
             C == Put("active", i, a)
             D == Put("runtime", i, Runtime({}, Surface(db, e)))
             x == A ++ B
             y == x ++ C
             w == y ++ D
  <1>1. DOMAIN A = {<<"ilive", i>>} /\ DOMAIN B = {<<"of", i>>}
    BY DEF Put
  <1>2. DOMAIN C = {<<"active", i>>} /\ C[<<"active", i>>] = a
    BY DEF Put
  <1>3. NewInstance(i, e, a) = w
    BY DEF NewInstance
  <1> HIDE DEF A, B, C, D
  <1>4. <<"active", i>> \notin DOMAIN x
    <2>1. DOMAIN x = DOMAIN A \cup DOMAIN B
      BY OverDomain
    <2> HIDE DEF x
    <2> QED
      BY <1>1, <2>1
  <1> HIDE DEF x
  <1>5. <<"active", i>> \in DOMAIN y /\ y[<<"active", i>>] = a
    <2>1. DOMAIN y = DOMAIN x \cup DOMAIN C
      BY OverDomain
    <2>2. y[<<"active", i>>] = a
      BY <1>2, <1>4, OverLeft
    <2> HIDE DEF y
    <2> QED
      BY <1>2, <2>1, <2>2
  <1> HIDE DEF y
  <1>6. w[<<"active", i>>] = a
    BY <1>5, OverWritten
  <1> QED
    BY <1>3, <1>6

LEMMA NewInstanceFits ==
    ASSUME Table(db), NEW i \in Instances, NEW e \in Entities, NEW a \in Surfaces \cup {None}
    PROVE  Fits(NewInstance(i, e, a))
  <1> DEFINE A == Put("ilive", i, "live")
             B == Put("of", i, e)
             C == Put("active", i, a)
             D == Put("runtime", i, Runtime({}, Surface(db, e)))
             w == A ++ B ++ C ++ D
  <1>1. Fits(A)
    <2>1. <<"ilive", i>> \in Cells /\ "live" \in Column(<<"ilive", i>>)
      BY DEF Cells, Column, Stages
    <2> QED
      BY <2>1, FitsPut
  <1>2. Fits(B)
    <2>1. <<"of", i>> \in Cells /\ e \in Column(<<"of", i>>)
      BY DEF Cells, Column
    <2> QED
      BY <2>1, FitsPut
  <1>3. Fits(C)
    <2>1. <<"active", i>> \in Cells /\ a \in Column(<<"active", i>>)
      BY DEF Cells, Column
    <2> QED
      BY <2>1, FitsPut
  <1>4. Fits(D)
    <2>1. Surface(db, e) \in Surfaces
      BY SurfaceType
    <2> QED
      BY <2>1, RuntimeFits
  <1>5. NewInstance(i, e, a) = w
    BY DEF NewInstance
  <1> HIDE DEF A, B, C, D
  <1>6. Fits(w)
    BY <1>1, <1>2, <1>3, <1>4, FitsOver
  <1> QED
    BY <1>5, <1>6

LEMMA NoneIsNoSurface == None \notin Surfaces
  BY NoneAssumption DEF Surfaces, Wordings, Prompts

\* An instance, and whatever hash is written with it
LEMMA InstanceSound ==
    ASSUME NEW w, Fits(w), Kinds(w) \subseteq {"ilive", "of", "active", "runtime", "hash"}, NEW i, NEW e \in Entities,
           \A z : <<"ilive", z>> \in DOMAIN w => z = i, \A z : <<"of", z>> \in DOMAIN w => z = i,
           <<"of", i>> \in DOMAIN w, w[<<"of", i>>] = e, NEW kind, NEW top
    PROVE  Sound(kind, w, db, top)
  <1>1. \A z : /\ <<"elive", z>> \notin DOMAIN w /\ <<"blive", z>> \notin DOMAIN w
               /\ <<"glive", z>> \notin DOMAIN w /\ <<"slug", z>> \notin DOMAIN w
               /\ <<"cerebellum", z>> \notin DOMAIN w
    BY NotOfKind
  <1>2. Whole(w) /\ LeavesBases(w)
    BY <1>1 DEF Whole, LeavesBases
  <1> QED
    BY <1>2, UnlinkedAnchored DEF Sound

LEMMA CreateInstanceKeeps ==
    ASSUME CatalogInv, NEW h \in Handlers, CreateInstance(h)
    PROVE  CatalogInv'
  <1>1. PICK i \in Unused("ilive", Instances), e \in Of("elive", Entities) :
           Request(h, "create_instance", e, i, NewInstance(i, e, Surface(db, e)))
    BY DEF CreateInstance
  <1>2. i \in Instances /\ e \in Entities /\ Table(db)
    BY CatalogFacts DEF Unused, Of
  <1> DEFINE a == Surface(db, e)
             w == NewInstance(i, e, a)
             v == w ++ db
  <1>3. a \in Surfaces /\ a # None
    BY <1>2, SurfaceType
  <1>4. Request(h, "create_instance", e, i, w)
    BY <1>1
  <1>5. Surface(db, e) = a
    OBVIOUS
  <1> HIDE DEF a
  <1>6. Fits(w)
    BY <1>2, <1>3, NewInstanceFits
  <1>7. DOMAIN w = {<<"ilive", i>>, <<"of", i>>, <<"active", i>>, <<"runtime", i>>}
    BY NewInstanceDomain
  <1>8. w[<<"of", i>>] = e
    BY NewInstanceOf
  <1>9. w[<<"active", i>>] = a
    BY NewInstanceActive
  <1> HIDE DEF w
  <1>10. Kinds(w) \subseteq {"ilive", "of", "active", "runtime", "hash"}
    BY <1>7 DEF Kinds
  <1>11. Sound("create_instance", w, db, served + 1)
    BY <1>2, <1>6, <1>7, <1>8, <1>10, InstanceSound
  <1>12. Surface(v, e) = Surface(db, e) /\ Hashed(v, db)
    BY <1>2, <1>10, InstanceWrites
  <1>13. v[<<"of", i>>] = e
    BY <1>7, <1>8, OverWritten
  <1>14. v[<<"active", i>>] = a
    BY <1>7, <1>9, OverWritten
  <1>15. v[<<"hash", e>>] = db[<<"hash", e>>]
    <2>1. <<"hash", e>> \in Cells /\ <<"hash", e>> \notin DOMAIN w
      BY <1>2, <1>7 DEF Cells
    <2> QED
      BY <1>2, <2>1, OverCell
  <1> HIDE DEF v
  <1>16. db[<<"hash", e>>] \in {None, Surface(db, e)} => ~Outdated(v, i)
    BY <1>3, <1>5, <1>12, <1>13, <1>14, <1>15 DEF Outdated
  <1>17. Promise("create_instance", e, i, w, db)
    BY <1>12, <1>16 DEF Promise, Reloads, Reloading, SilentKinds, Copied, v
  <1> QED
    BY <1>4, <1>11, <1>17, RequestKeeps

\* The hash introduce_entity fills in
LEMMA FilledHash ==
    ASSUME Table(db), NEW e \in Entities
    PROVE  LET w == IF db[<<"hash", e>>] = None THEN BumpEntities(Nothing, {e}) ELSE Nothing
           IN  Fits(w) /\ Kinds(w) \subseteq {"hash"} /\ (w ++ db)[<<"hash", e>>] \in Surfaces
  <1>1. CASE db[<<"hash", e>>] = None
    <2>1. Fits(Nothing) /\ Kinds(Nothing) = {}
      BY FitsNothing, KindsNothing
    <2>2. Table(Nothing ++ db)
      BY <2>1, OverTable
    <2>3. Surface(Nothing ++ db, e) \in Surfaces
      BY <2>2, SurfaceType
    <2>4. /\ Fits(BumpEntities(Nothing, {e})) /\ Kinds(BumpEntities(Nothing, {e})) \subseteq {"hash"}
          /\ (BumpEntities(Nothing, {e}) ++ db)[<<"hash", e>>] = Surface(Nothing ++ db, e)
      BY <2>1, BumpCells
    <2> QED
      BY <1>1, <2>3, <2>4
  <1>2. CASE db[<<"hash", e>>] # None
    <2>1. Fits(Nothing) /\ Kinds(Nothing) = {} /\ DOMAIN Nothing = {}
      BY FitsNothing, KindsNothing
    <2>2. (Nothing ++ db)[<<"hash", e>>] = db[<<"hash", e>>]
      BY <2>1, OverLeft DEF Cells, Table
    <2>3. db[<<"hash", e>>] \in Surfaces
      BY <1>2, EntityColumns
    <2> QED
      BY <1>2, <2>1, <2>2, <2>3
  <1> QED
    BY <1>1, <1>2

LEMMA IntroduceEntityKeeps ==
    ASSUME CatalogInv, NEW h \in Handlers, IntroduceEntity(h)
    PROVE  CatalogInv'
  <1>1. PICK i \in Unused("ilive", Instances), e \in Of("elive", Entities) :
           Request(h, "introduce", e, i, Introduced(i, e))
    BY DEF IntroduceEntity
  <1>2. i \in Instances /\ e \in Entities /\ Table(db)
    BY CatalogFacts DEF Unused, Of
  <1> DEFINE x == IF db[<<"hash", e>>] = None THEN BumpEntities(Nothing, {e}) ELSE Nothing
             a == (x ++ db)[<<"hash", e>>]
             y == NewInstance(i, e, a)
             w == y ++ x
             v == w ++ db
  <1>3. Fits(x) /\ Kinds(x) \subseteq {"hash"} /\ a \in Surfaces
    BY <1>2, FilledHash
  <1>4. Request(h, "introduce", e, i, w)
    BY <1>1 DEF Introduced
  <1>5. a = (x ++ db)[<<"hash", e>>]
    OBVIOUS
  <1> HIDE DEF x, a
  <1>6. Fits(y)
    BY <1>2, <1>3, NewInstanceFits
  <1>7. DOMAIN y = {<<"ilive", i>>, <<"of", i>>, <<"active", i>>, <<"runtime", i>>}
    BY NewInstanceDomain
  <1>8. y[<<"of", i>>] = e
    BY NewInstanceOf
  <1>9. y[<<"active", i>>] = a
    BY NewInstanceActive
  <1> HIDE DEF y
  <1>10. Fits(w)
    BY <1>3, <1>6, FitsOver
  <1>11. DOMAIN w = DOMAIN y \cup DOMAIN x
    BY OverDomain
  <1>12. w[<<"of", i>>] = e
    BY <1>7, <1>8, OverWritten
  <1>13. w[<<"active", i>>] = a
    BY <1>7, <1>9, OverWritten
  <1>14. (w ++ db)[<<"hash", e>>] = a
    <2>1. <<"hash", e>> \in Cells /\ <<"hash", e>> \notin DOMAIN y
      BY <1>2, <1>7 DEF Cells
    <2>2. CASE <<"hash", e>> \in DOMAIN x
      <3>1. w[<<"hash", e>>] = x[<<"hash", e>>] /\ <<"hash", e>> \in DOMAIN w
        BY <1>11, <2>1, <2>2, OverLeft
      <3>2. a = x[<<"hash", e>>]
        BY <1>5, <2>2, OverWritten
      <3> QED
        BY <3>1, <3>2, OverWritten
    <2>3. CASE <<"hash", e>> \notin DOMAIN x
      <3>1. <<"hash", e>> \notin DOMAIN w
        BY <1>11, <2>1, <2>3
      <3>2. a = db[<<"hash", e>>]
        BY <1>2, <1>5, <2>1, <2>3, OverCell
      <3> QED
        BY <1>2, <2>1, <3>1, <3>2, OverCell
    <2> QED
      BY <2>2, <2>3
  <1> HIDE DEF w
  <1>15. \A z : <<"ilive", z>> \notin DOMAIN x /\ <<"of", z>> \notin DOMAIN x
    BY <1>3, NotOfKind
  <1>16. Kinds(w) \subseteq {"ilive", "of", "active", "runtime", "hash"}
    BY <1>3, <1>7, <1>11 DEF Kinds
  <1>17. Sound("introduce", w, db, served + 1)
    BY <1>2, <1>7, <1>10, <1>11, <1>12, <1>15, <1>16, InstanceSound
  <1>18. Hashed(v, db)
    BY <1>2, <1>16, InstanceWrites
  <1>19. v[<<"of", i>>] = e
    BY <1>7, <1>11, <1>12, OverWritten
  <1>20. v[<<"active", i>>] = a
    BY <1>7, <1>11, <1>13, OverWritten
  <1>21. a # None
    BY <1>3, NoneIsNoSurface
  <1>22. v[<<"hash", e>>] = a
    BY <1>14
  <1> HIDE DEF v
  <1>23. ~Outdated(v, i)
    BY <1>19, <1>20, <1>21, <1>22 DEF Outdated
  <1>24. Promise("introduce", e, i, w, db)
    BY <1>18, <1>23 DEF Promise, Reloads, Reloading, SilentKinds, Copied, v
  <1> QED
    BY <1>4, <1>17, <1>24, RequestKeeps

-----------------------------------------------------------------------------
(* Learning                                                                *)

LEMMA DistillEntityKeeps ==
    ASSUME CatalogInv, NEW h \in Handlers, DistillEntity(h)
    PROVE  CatalogInv'
  <1>1. PICK e \in Of("elive", Entities), S \in HeuristicCandidates \cup LlmCandidates :
           Request(h, "distill", e, None, UpsertCapabilities(S))
    BY DEF DistillEntity
  <1>2. S \in SUBSET Names
    BY MemoriesAssumption DEF HeuristicCandidates, LlmCandidates
  <1>3. served + 1 \in 0 .. MaxRequests
    BY <1>1, RequestRoom
  <1>4. Sound("distill", UpsertCapabilities(S), db, served + 1)
    BY <1>2, <1>3, CatalogFacts, UpsertSound
  <1>5. Promise("distill", e, None, UpsertCapabilities(S), db)
    BY PlainPromise
  <1> QED
    BY <1>1, <1>4, <1>5, RequestKeeps

LEMMA ReapInstanceKeeps ==
    ASSUME CatalogInv, NEW h \in Handlers, ReapInstance(h)
    PROVE  CatalogInv'
  <1>1. PICK i \in Of("ilive", Instances) :
           Request(h, "reap", None, i,
                   Put("runtime", i, Runtime(db[<<"runtime", i>>].reaped \cup ReapedNames, db[<<"runtime", i>>].config))
                   ++ UpsertCapabilities(ReapedNames))
    BY DEF ReapInstance
  <1> DEFINE A == Put("runtime", i, Runtime(db[<<"runtime", i>>].reaped \cup ReapedNames, db[<<"runtime", i>>].config))
             U == UpsertCapabilities(ReapedNames)
             w == A ++ U
  <1>2. i \in Instances /\ Table(db) /\ served + 1 \in 0 .. MaxRequests
    BY <1>1, CatalogFacts, RequestRoom DEF Of
  <1>3. ReapedNames \in SUBSET Names
    BY MemoriesAssumption DEF ReapedNames
  <1>4. Fits(A)
    <2>1. db[<<"runtime", i>>].reaped \cup ReapedNames \in SUBSET Names /\ db[<<"runtime", i>>].config \in Surfaces \cup {None}
      BY <1>2, <1>3, ReapedOf
    <2> QED
      BY <1>2, <2>1, RuntimeFits
  <1>5. Fits(U) /\ Anchored(U, db, served + 1)
    BY <1>2, <1>3, UpsertSound
  <1>6. DOMAIN A = {<<"runtime", i>>} /\ Kinds(A) = {"runtime"}
    BY KindsPut
  <1>7. Kinds(U) \subseteq {"mlive", "row", "text"}
    BY KindsUpsert
  <1>8. Request(h, "reap", None, i, w)
    BY <1>1
  <1> HIDE DEF A, U
  <1>9. Fits(w)
    BY <1>4, <1>5, FitsOver
  <1>10. Kinds(w) \subseteq {"runtime", "mlive", "row", "text"}
    <2>1. Kinds(w) = Kinds(A) \cup Kinds(U)
      BY KindsOver
    <2> HIDE DEF w
    <2> QED
      BY <1>6, <1>7, <2>1
  <1>11. ASSUME NEW n \in Names, <<"row", n>> \in DOMAIN w PROVE w[<<"row", n>>] =< served + 1
    <2>1. DOMAIN w = DOMAIN A \cup DOMAIN U
      BY OverDomain
    <2>2. <<"row", n>> \notin DOMAIN A
      BY <1>6
    <2>3. <<"row", n>> \in DOMAIN U
      BY <1>11, <2>1, <2>2
    <2>4. w[<<"row", n>>] = U[<<"row", n>>]
      BY <2>2, <2>3, OverLeft
    <2> QED
      BY <1>5, <2>3, <2>4 DEF Anchored
  <1> HIDE DEF w
  <1>12. Anchored(w, db, served + 1)
    <2>1. \A x, y : /\ <<"ecap", x, y>> \notin DOMAIN w /\ <<"bcap", x, y>> \notin DOMAIN w
                    /\ <<"egene", x, y>> \notin DOMAIN w /\ <<"bgene", x, y>> \notin DOMAIN w
      BY <1>10, NotOfKind
    <2> QED
      BY <1>11, <2>1 DEF Anchored
  <1>13. Sound("reap", w, db, served + 1)
    BY <1>9, <1>10, <1>12, QuietSound
  <1>14. Promise("reap", None, i, w, db)
    BY PlainPromise
  <1> QED
    BY <1>8, <1>13, <1>14, RequestKeeps

\* A made gene with a link of something live to it
LEMMA NewGeneLink ==
    ASSUME CatalogInv, NEW g \in Genes, NEW S \in SUBSET Names, NEW k \in {"egene", "bgene"}, NEW x,
           k = "egene" => x \in Of("elive", Entities), k = "bgene" => x \in Of("blive", Bases),
           NEW h \in Handlers, NEW src,
           Request(h, "combine", src, g, Link(k, x, {g}) ++ (Put("glive", g, "live") ++ Put("inline", g, S)))
    PROVE  CatalogInv'
  <1> DEFINE A == Link(k, x, {g})
             B == Put("glive", g, "live") ++ Put("inline", g, S)
             w == A ++ B
             v == w ++ db
  <1>1. /\ Fits(B) /\ Kinds(B) = {"glive", "inline"} /\ DOMAIN B = {<<"glive", g>>, <<"inline", g>>}
        /\ B[<<"glive", g>>] = "live" /\ Whole(B) /\ LeavesBases(B)
    BY NewGene
  <1>2. Table(db)
    BY CatalogFacts
  <1>3. Fits(A)
    <2>1. <<k, x, g>> \in Cells
      BY DEF Cells, Of
    <2>2. TRUE \in Column(<<k, x, g>>)
      BY DEF Column
    <2> QED
      BY <2>1, <2>2, FitsLink
  <1>4. Kinds(A) \subseteq {k} /\ DOMAIN A = {<<k, x, g>>}
    <2>1. DOMAIN A = {<<k, x, y>> : y \in {g}}
      BY DEF Link
    <2> HIDE DEF A
    <2> QED
      BY <2>1 DEF Kinds
  <1>5. Request(h, "combine", src, g, w)
    OBVIOUS
  <1> HIDE DEF A, B
  <1>6. Fits(w)
    BY <1>1, <1>3, FitsOver
  <1>7. DOMAIN w = DOMAIN A \cup DOMAIN B
    BY OverDomain
  <1>8. Whole(w) /\ <<"glive", g>> \in DOMAIN w /\ w[<<"glive", g>>] = "live"
    BY <1>1, <1>4, WholeOver
  <1> HIDE DEF w
  <1>9. Kinds(w) \subseteq {k, "glive", "inline"}
    BY <1>1, <1>4, <1>7 DEF Kinds
  <1>10. LeavesBases(w)
    BY <1>9, NotOfKind DEF LeavesBases
  <1>11. v[<<"glive", g>>] = "live"
    BY <1>8, OverWritten
  <1>12. k = "egene" => v[<<"elive", x>>] # "none"
    <2> SUFFICES ASSUME k = "egene" PROVE v[<<"elive", x>>] # "none"
      OBVIOUS
    <2>1. <<"elive", x>> \in Cells /\ db[<<"elive", x>>] = "live"
      BY DEF Of, Live, Cells
    <2>2. <<"elive", x>> \notin DOMAIN w
      BY <1>9, NotOfKind
    <2> QED
      BY <1>2, <2>1, <2>2, OverCell
  <1>13. k = "bgene" => v[<<"blive", x>>] # "none"
    <2> SUFFICES ASSUME k = "bgene" PROVE v[<<"blive", x>>] # "none"
      OBVIOUS
    <2>1. <<"blive", x>> \in Cells /\ db[<<"blive", x>>] = "live"
      BY DEF Of, Live, Cells
    <2>2. <<"blive", x>> \notin DOMAIN w
      BY <1>9, NotOfKind
    <2> QED
      BY <1>2, <2>1, <2>2, OverCell
  <1>14. Anchored(w, db, served + 1)
    <2>1. /\ \A z : <<"row", z>> \notin DOMAIN w
          /\ \A y, z : <<"ecap", y, z>> \notin DOMAIN w /\ <<"bcap", y, z>> \notin DOMAIN w
      BY <1>9, NotOfKind
    <2>2. \A e \in Entities, y \in Genes : <<"egene", e, y>> \in DOMAIN w => k = "egene" /\ e = x /\ y = g
      BY <1>1, <1>4, <1>7
    <2>3. \A b \in Bases, y \in Genes : <<"bgene", b, y>> \in DOMAIN w => k = "bgene" /\ b = x /\ y = g
      BY <1>1, <1>4, <1>7
    <2> QED
      BY <1>11, <1>12, <1>13, <2>1, <2>2, <2>3 DEF Anchored
  <1>15. Sound("combine", w, db, served + 1)
    BY <1>6, <1>8, <1>10, <1>14 DEF Sound
  <1>16. Promise("combine", src, g, w, db)
    BY PlainPromise
  <1> QED
    BY <1>5, <1>15, <1>16, RequestKeeps

LEMMA CombineCapabilitiesKeeps ==
    ASSUME CatalogInv, NEW h \in Handlers, CombineCapabilities(h)
    PROVE  CatalogInv'
  <1>1. PICK S \in (SUBSET Names) \ {{}}, g \in Unused("glive", Genes) :
           \/ Request(h, "combine", None, g, Put("glive", g, "live") ++ Put("inline", g, S))
           \/ \E e \in Of("elive", Entities) :
                 Request(h, "combine", e, g, Link("egene", e, {g}) ++ (Put("glive", g, "live") ++ Put("inline", g, S)))
           \/ \E b \in Of("blive", Bases) :
                 Request(h, "combine", b, g, Link("bgene", b, {g}) ++ (Put("glive", g, "live") ++ Put("inline", g, S)))
    BY DEF CombineCapabilities
  <1>2. g \in Genes /\ S \in SUBSET Names
    BY DEF Unused
  <1>3. CASE Request(h, "combine", None, g, Put("glive", g, "live") ++ Put("inline", g, S))
    <2> DEFINE w == Put("glive", g, "live") ++ Put("inline", g, S)
    <2>1. Fits(w) /\ Kinds(w) = {"glive", "inline"} /\ Whole(w) /\ LeavesBases(w)
      BY <1>2, NewGene
    <2> HIDE DEF w
    <2>2. Sound("combine", w, db, served + 1)
      BY <2>1, UnlinkedAnchored DEF Sound
    <2>3. Promise("combine", None, g, w, db)
      BY PlainPromise
    <2> QED
      BY <1>3, <2>2, <2>3, RequestKeeps DEF w
  <1>4. CASE \E e \in Of("elive", Entities) :
                Request(h, "combine", e, g, Link("egene", e, {g}) ++ (Put("glive", g, "live") ++ Put("inline", g, S)))
    BY <1>2, <1>4, NewGeneLink
  <1>5. CASE \E b \in Of("blive", Bases) :
                Request(h, "combine", b, g, Link("bgene", b, {g}) ++ (Put("glive", g, "live") ++ Put("inline", g, S)))
    BY <1>2, <1>5, NewGeneLink
  <1> QED
    BY <1>1, <1>3, <1>4, <1>5

-----------------------------------------------------------------------------
(* Rows made or found by name, and linked                                  *)

Upserted(S) == UpsertCapabilities(S) ++ db

LEMMA OverAgain ==
    ASSUME NEW x, NEW y, NEW z
    PROVE  (x ++ y) ++ z = x ++ (y ++ z)
  <1> DEFINE a == (x ++ y) ++ z
             b == x ++ (y ++ z)
  <1>1. a = [c \in DOMAIN a |-> a[c]] /\ b = [c \in DOMAIN b |-> b[c]]
    BY OverFunction
  <1>2. /\ DOMAIN a = DOMAIN (x ++ y) \cup DOMAIN z /\ DOMAIN (x ++ y) = DOMAIN x \cup DOMAIN y
        /\ DOMAIN b = DOMAIN x \cup DOMAIN (y ++ z) /\ DOMAIN (y ++ z) = DOMAIN y \cup DOMAIN z
    BY OverDomain
  <1>3. ASSUME NEW c \in DOMAIN a PROVE a[c] = b[c]
    <2>1. CASE c \in DOMAIN x
      <3>1. c \in DOMAIN (x ++ y)
        BY <1>2, <2>1
      <3>2. a[c] = (x ++ y)[c] /\ (x ++ y)[c] = x[c] /\ b[c] = x[c]
        BY <2>1, <3>1, OverWritten
      <3> QED
        BY <3>2
    <2>2. CASE c \notin DOMAIN x /\ c \in DOMAIN y
      <3>1. c \in DOMAIN (x ++ y) /\ c \in DOMAIN (y ++ z)
        BY <1>2, <2>2
      <3>2. a[c] = (x ++ y)[c] /\ (y ++ z)[c] = y[c]
        BY <2>2, <3>1, OverWritten
      <3>3. (x ++ y)[c] = y[c] /\ b[c] = (y ++ z)[c]
        BY <2>2, <3>1, OverLeft
      <3> QED
        BY <3>2, <3>3
    <2>3. CASE c \notin DOMAIN x /\ c \notin DOMAIN y
      <3>1. c \notin DOMAIN (x ++ y) /\ c \in DOMAIN z /\ c \in DOMAIN (y ++ z)
        BY <1>2, <1>3, <2>3
      <3>2. a[c] = z[c] /\ (y ++ z)[c] = z[c] /\ b[c] = (y ++ z)[c]
        BY <2>3, <3>1, OverLeft
      <3> QED
        BY <3>2
    <2> QED
      BY <2>1, <2>2, <2>3
  <1>4. DOMAIN a = DOMAIN b
    <2> HIDE DEF a, b
    <2> QED
      BY <1>2
  <1> HIDE DEF a, b
  <1>5. a = b
    BY <1>1, <1>3, <1>4
  <1> QED
    BY <1>5 DEF a, b

LEMMA UpsertedRow ==
    ASSUME CatalogInv, served + 1 \in 0 .. MaxRequests, NEW S \in SUBSET Names, NEW n \in Names
    PROVE  Row(Upserted(S), n) \in Rows /\ Row(Upserted(S), n)[1] = n /\ Row(Upserted(S), n)[2] =< served + 1
  <1>1. Table(db) /\ db[<<"row", n>>] =< served /\ served \in Nat
    BY CatalogFacts DEF Linked
  <1>2. db[<<"row", n>>] \in 0 .. MaxRequests
    BY <1>1, NameColumns
  <1>3. Upserted(S)[<<"row", n>>] = served + 1 \/ Upserted(S)[<<"row", n>>] = db[<<"row", n>>]
    BY <1>1, UpsertRows DEF Upserted
  <1> QED
    BY <1>1, <1>2, <1>3, RequestsBound DEF Row, Rows

LEMMA EquipDomain ==
    ASSUME NEW k, NEW x, NEW S
    PROVE  DOMAIN Equip(k, x, S) = {<<k, x, Row(Upserted(S), n)>> : n \in S} \cup DOMAIN UpsertCapabilities(S)
  <1> DEFINE R == {Row(Upserted(S), n) : n \in S}
             A == Link(k, x, R)
             U == UpsertCapabilities(S)
  <1>1. Equip(k, x, S) = A ++ U
    BY DEF Equip, Upserted
  <1>2. DOMAIN (A ++ U) = DOMAIN A \cup DOMAIN U
    BY OverDomain
  <1>3. DOMAIN A = {<<k, x, y>> : y \in R}
    BY DEF Link
  <1>4. {<<k, x, y>> : y \in R} = {<<k, x, Row(Upserted(S), n)>> : n \in S}
    OBVIOUS
  <1> QED
    BY <1>1, <1>2, <1>3, <1>4

LEMMA EquipKinds ==
    ASSUME NEW k, NEW x, NEW S
    PROVE  Kinds(Equip(k, x, S)) \subseteq {k, "mlive", "row", "text"}
  <1> DEFINE D == DOMAIN Equip(k, x, S)
             U == DOMAIN UpsertCapabilities(S)
  <1>1. \A c \in U : c[1] \in {"mlive", "row", "text"}
    BY KindsUpsert DEF Kinds
  <1>2. D = {<<k, x, Row(Upserted(S), n)>> : n \in S} \cup U
    BY EquipDomain
  <1>3. Kinds(Equip(k, x, S)) = {c[1] : c \in D}
    BY DEF Kinds
  <1> HIDE DEF D, U
  <1>4. \A c \in D : c[1] \in {k, "mlive", "row", "text"}
    BY <1>1, <1>2
  <1> QED
    BY <1>3, <1>4

LEMMA EquipLinks ==
    ASSUME NEW k, NEW x, NEW S, NEW n \in S
    PROVE  Equip(k, x, S)[<<k, x, Row(Upserted(S), n)>>] = TRUE
  <1> DEFINE R == {Row(Upserted(S), m) : m \in S}
             A == Link(k, x, R)
             U == UpsertCapabilities(S)
             c == <<k, x, Row(Upserted(S), n)>>
  <1>1. Equip(k, x, S) = A ++ U
    BY DEF Equip, Upserted
  <1>2. c \in DOMAIN A
    BY DEF Link
  <1>3. A[c] = TRUE
    BY <1>2 DEF Link
  <1> HIDE DEF A, U, c
  <1>4. (A ++ U)[c] = TRUE
    BY <1>2, <1>3, OverWritten
  <1> QED
    BY <1>1, <1>4 DEF c

LEMMA EquipNames ==
    ASSUME NEW k \in {"ecap", "bcap"}, NEW x, NEW S, NEW c \in DOMAIN UpsertCapabilities(S)
    PROVE  Equip(k, x, S)[c] = UpsertCapabilities(S)[c]
  <1> DEFINE R == {Row(Upserted(S), m) : m \in S}
             A == Link(k, x, R)
             U == UpsertCapabilities(S)
  <1>1. Equip(k, x, S) = A ++ U
    BY DEF Equip, Upserted
  <1>2. c[1] \in {"mlive", "row", "text"}
    BY KindsUpsert DEF Kinds
  <1>3. DOMAIN A = {<<k, x, y>> : y \in R}
    BY DEF Link
  <1> HIDE DEF A, R
  <1>4. c \notin DOMAIN A
    BY <1>2, <1>3
  <1>5. (A ++ U)[c] = U[c]
    BY <1>4, OverLeft
  <1> QED
    BY <1>1, <1>5

LEMMA EquipFits ==
    ASSUME CatalogInv, served + 1 \in 0 .. MaxRequests, NEW S \in SUBSET Names, NEW k, NEW x,
           \/ k = "ecap" /\ x \in Entities
           \/ k = "bcap" /\ x \in Bases
    PROVE  Fits(Equip(k, x, S))
  <1> DEFINE R == {Row(Upserted(S), m) : m \in S}
             A == Link(k, x, R)
             U == UpsertCapabilities(S)
  <1>1. Equip(k, x, S) = A ++ U
    BY DEF Equip, Upserted
  <1>2. \A y \in R : y \in Rows
    BY UpsertedRow
  <1> HIDE DEF R
  <1>3. Fits(A)
    <2>1. \A y \in R : <<k, x, y>> \in Cells
      BY <1>2 DEF Cells
    <2>2. \A y \in R : TRUE \in Column(<<k, x, y>>)
      BY DEF Column
    <2> QED
      BY <2>1, <2>2, FitsLink
  <1>4. Fits(U)
    BY CatalogFacts, UpsertSound
  <1> HIDE DEF A, U
  <1>5. Fits(A ++ U)
    BY <1>3, <1>4, FitsOver
  <1> QED
    BY <1>1, <1>5

\* What v holds of the names and of the links of x once S is upserted and linked
Equipped(v, k, x, S) ==
    /\ \A n \in Names : /\ v[<<"mlive", n>>] = Upserted(S)[<<"mlive", n>>]
                        /\ v[<<"row", n>>] = Upserted(S)[<<"row", n>>]
                        /\ v[<<"text", n>>] = Upserted(S)[<<"text", n>>]
    /\ \A r \in Rows : v[<<k, x, r>>] <=> (\E n \in S : r = Row(Upserted(S), n)) \/ db[<<k, x, r>>]

\* z is written with it, none of it names or links of capabilities.
LEMMA EquipHere ==
    ASSUME CatalogInv, NEW S \in SUBSET Names, NEW k, NEW x,
           \/ k = "ecap" /\ x \in Entities
           \/ k = "bcap" /\ x \in Bases,
           NEW z, Kinds(z) \cap {"mlive", "row", "text", "ecap", "bcap"} = {},
           NEW v, v = (Equip(k, x, S) ++ z) ++ db
    PROVE  Equipped(v, k, x, S)
  <1> DEFINE Q == Equip(k, x, S)
             U == UpsertCapabilities(S)
             w == Q ++ z
  <1>1. Table(db)
    BY CatalogFacts
  <1>2. DOMAIN Q = {<<k, x, Row(Upserted(S), n)>> : n \in S} \cup DOMAIN U
    BY EquipDomain
  <1>3. DOMAIN w = DOMAIN Q \cup DOMAIN z
    BY OverDomain
  <1>4. \A c \in DOMAIN U : c[1] \in {"mlive", "row", "text"} /\ Q[c] = U[c]
    <2> SUFFICES ASSUME NEW c \in DOMAIN U PROVE c[1] \in {"mlive", "row", "text"} /\ Q[c] = U[c]
      OBVIOUS
    <2>1. c[1] \in {"mlive", "row", "text"}
      BY KindsUpsert DEF Kinds
    <2>2. k \in {"ecap", "bcap"}
      OBVIOUS
    <2>3. Equip(k, x, S)[c] = UpsertCapabilities(S)[c]
      BY <2>2, EquipNames
    <2> QED
      BY <2>1, <2>3
  <1>5. \A n \in S : Q[<<k, x, Row(Upserted(S), n)>>] = TRUE
    BY EquipLinks
  <1>6. Upserted(S) = U ++ db
    BY DEF Upserted
  <1>20. v = w ++ db
    OBVIOUS
  <1> HIDE DEF Q, U
  <1>7. ASSUME NEW c \in Cells, c[1] \in {"mlive", "row", "text"} PROVE v[c] = Upserted(S)[c]
    <2>1. c \notin DOMAIN z
      BY <1>7 DEF Kinds
    <2>2. c \in DOMAIN Q <=> c \in DOMAIN U
      BY <1>2, <1>7
    <2>3. CASE c \in DOMAIN U
      <3>1. w[c] = Q[c] /\ c \in DOMAIN w
        BY <1>3, <2>2, <2>3, OverWritten
      <3>2. v[c] = w[c]
        BY <1>20, <3>1, OverWritten
      <3>3. Upserted(S)[c] = U[c]
        BY <1>6, <2>3, OverWritten
      <3> QED
        BY <1>4, <2>3, <3>1, <3>2, <3>3
    <2>4. CASE c \notin DOMAIN U
      <3>1. c \notin DOMAIN w
        BY <1>3, <2>1, <2>2, <2>4
      <3>2. v[c] = db[c]
        BY <1>20, <1>1, <3>1, OverCell
      <3>3. Upserted(S)[c] = db[c]
        BY <1>1, <1>6, <2>4, OverCell
      <3> QED
        BY <3>2, <3>3
    <2> QED
      BY <2>3, <2>4
  <1>8. ASSUME NEW y, NEW r, <<k, y, r>> \in Cells
        PROVE  /\ y = x /\ (\E n \in S : r = Row(Upserted(S), n)) => v[<<k, y, r>>] = TRUE
               /\ ~(y = x /\ \E n \in S : r = Row(Upserted(S), n)) => v[<<k, y, r>>] = db[<<k, y, r>>]
    <2>1. <<k, y, r>> \notin DOMAIN z
      BY NotOfKind
    <2>2. <<k, y, r>> \notin DOMAIN U
      BY <1>4
    <2>3. CASE y = x /\ \E n \in S : r = Row(Upserted(S), n)
      <3>1. <<k, y, r>> \in DOMAIN Q /\ Q[<<k, y, r>>] = TRUE
        BY <1>2, <1>5, <2>3
      <3>2. w[<<k, y, r>>] = TRUE /\ <<k, y, r>> \in DOMAIN w
        BY <1>3, <3>1, OverWritten
      <3>3. v[<<k, y, r>>] = TRUE
        BY <1>20, <3>2, OverWritten
      <3> QED
        BY <2>3, <3>3
    <2>4. CASE ~(y = x /\ \E n \in S : r = Row(Upserted(S), n))
      <3>1. <<k, y, r>> \notin DOMAIN Q
        BY <1>2, <2>2, <2>4
      <3>2. <<k, y, r>> \notin DOMAIN w
        BY <1>3, <2>1, <3>1
      <3>3. v[<<k, y, r>>] = db[<<k, y, r>>]
        BY <1>20, <1>1, <1>8, <3>2, OverCell
      <3> QED
        BY <2>4, <3>3
    <2> QED
      BY <2>3, <2>4
  <1>10. Equipped(v, k, x, S)
    <2>1. \A n \in Names : <<"mlive", n>> \in Cells /\ <<"row", n>> \in Cells /\ <<"text", n>> \in Cells
      BY DEF Cells
    <2>2. ASSUME NEW r \in Rows
          PROVE  v[<<k, x, r>>] <=> (\E n \in S : r = Row(Upserted(S), n)) \/ db[<<k, x, r>>]
      <3>1. <<k, x, r>> \in Cells
        BY DEF Cells
      <3> QED
        BY <1>8, <3>1
    <2>3. \A n \in Names : /\ v[<<"mlive", n>>] = Upserted(S)[<<"mlive", n>>]
                           /\ v[<<"row", n>>] = Upserted(S)[<<"row", n>>]
                           /\ v[<<"text", n>>] = Upserted(S)[<<"text", n>>]
      BY <1>7, <2>1
    <2> QED
      BY <2>2, <2>3 DEF Equipped
  <1> QED
    BY <1>10

LEMMA EquipElsewhere ==
    ASSUME CatalogInv, NEW S \in SUBSET Names, NEW k, NEW x,
           \/ k = "ecap" /\ x \in Entities
           \/ k = "bcap" /\ x \in Bases,
           NEW z, Kinds(z) \cap {"mlive", "row", "text", "ecap", "bcap"} = {},
           NEW v, v = (Equip(k, x, S) ++ z) ++ db,
           NEW y, NEW r, <<k, y, r>> \in Cells, y # x
    PROVE  v[<<k, y, r>>] = db[<<k, y, r>>]
  <1> DEFINE Q == Equip(k, x, S)
             U == UpsertCapabilities(S)
             w == Q ++ z
  <1>1. Table(db)
    BY CatalogFacts
  <1>2. DOMAIN Q = {<<k, x, Row(Upserted(S), n)>> : n \in S} \cup DOMAIN U
    BY EquipDomain
  <1>3. DOMAIN w = DOMAIN Q \cup DOMAIN z
    BY OverDomain
  <1>4. \A c \in DOMAIN U : c[1] \in {"mlive", "row", "text"} /\ Q[c] = U[c]
    <2> SUFFICES ASSUME NEW c \in DOMAIN U PROVE c[1] \in {"mlive", "row", "text"} /\ Q[c] = U[c]
      OBVIOUS
    <2>1. c[1] \in {"mlive", "row", "text"}
      BY KindsUpsert DEF Kinds
    <2>2. k \in {"ecap", "bcap"}
      OBVIOUS
    <2>3. Equip(k, x, S)[c] = UpsertCapabilities(S)[c]
      BY <2>2, EquipNames
    <2> QED
      BY <2>1, <2>3
  <1>5. \A n \in S : Q[<<k, x, Row(Upserted(S), n)>>] = TRUE
    BY EquipLinks
  <1>6. Upserted(S) = U ++ db
    BY DEF Upserted
  <1>20. v = w ++ db
    OBVIOUS
  <1> HIDE DEF Q, U
  <1>7. <<k, y, r>> \notin DOMAIN z /\ <<k, y, r>> \notin DOMAIN U
    BY <1>4, NotOfKind
  <1>8. <<k, y, r>> \notin DOMAIN Q
    BY <1>2, <1>7
  <1>9. <<k, y, r>> \notin DOMAIN w
    BY <1>3, <1>7, <1>8
  <1> QED
    BY <1>1, <1>9, <1>20, OverCell

LEMMA EquipRest ==
    ASSUME CatalogInv, NEW S \in SUBSET Names, NEW k, NEW x,
           \/ k = "ecap" /\ x \in Entities
           \/ k = "bcap" /\ x \in Bases,
           NEW z, Kinds(z) \cap {"mlive", "row", "text", "ecap", "bcap"} = {},
           NEW v, v = (Equip(k, x, S) ++ z) ++ db,
           NEW c \in Cells, c[1] \notin {"mlive", "row", "text", k}
    PROVE  v[c] = (z ++ db)[c]
  <1> DEFINE Q == Equip(k, x, S)
             U == UpsertCapabilities(S)
             w == Q ++ z
  <1>1. Table(db)
    BY CatalogFacts
  <1>2. DOMAIN Q = {<<k, x, Row(Upserted(S), n)>> : n \in S} \cup DOMAIN U
    BY EquipDomain
  <1>3. DOMAIN w = DOMAIN Q \cup DOMAIN z
    BY OverDomain
  <1>4. \A d \in DOMAIN U : d[1] \in {"mlive", "row", "text"} /\ Q[d] = U[d]
    <2> SUFFICES ASSUME NEW d \in DOMAIN U PROVE d[1] \in {"mlive", "row", "text"} /\ Q[d] = U[d]
      OBVIOUS
    <2>1. d[1] \in {"mlive", "row", "text"}
      BY KindsUpsert DEF Kinds
    <2>2. k \in {"ecap", "bcap"}
      OBVIOUS
    <2>3. Equip(k, x, S)[d] = UpsertCapabilities(S)[d]
      BY <2>2, EquipNames
    <2> QED
      BY <2>1, <2>3
  <1>5. \A n \in S : Q[<<k, x, Row(Upserted(S), n)>>] = TRUE
    BY EquipLinks
  <1>6. Upserted(S) = U ++ db
    BY DEF Upserted
  <1>20. v = w ++ db
    OBVIOUS
  <1> HIDE DEF Q, U
  <1>7. c \notin DOMAIN Q
    BY <1>2, <1>4
  <1>8. CASE c \in DOMAIN z
    <2>1. w[c] = z[c] /\ c \in DOMAIN w
      BY <1>3, <1>7, <1>8, OverLeft
    <2>2. v[c] = w[c]
      BY <1>20, <2>1, OverWritten
    <2>3. (z ++ db)[c] = z[c]
      BY <1>8, OverWritten
    <2> QED
      BY <2>1, <2>2, <2>3
  <1>9. CASE c \notin DOMAIN z
    <2>1. c \notin DOMAIN w
      BY <1>3, <1>7, <1>9
    <2>2. v[c] = db[c]
      BY <1>20, <1>1, <2>1, OverCell
    <2>3. (z ++ db)[c] = db[c]
      BY <1>1, <1>9, OverCell
    <2> QED
      BY <2>2, <2>3
  <1> QED
    BY <1>8, <1>9

\* x has the names of S beside those it had.
LEMMA EquippedCaps ==
    ASSUME CatalogInv, served + 1 \in 0 .. MaxRequests, NEW S \in SUBSET Names, NEW k, NEW x, NEW v, Equipped(v, k, x, S)
    PROVE  LinkedCaps(v, k, x) = S \cup LinkedCaps(db, k, x)
  <1>1. Table(db)
    BY CatalogFacts
  <1>2. ASSUME NEW n \in Names PROVE n \in LinkedCaps(v, k, x) <=> n \in S \/ n \in LinkedCaps(db, k, x)
    <2>1. Row(v, n) = Row(Upserted(S), n) /\ v[<<"mlive", n>>] = Upserted(S)[<<"mlive", n>>]
      BY DEF Equipped, Row
    <2>2. Row(v, n) \in Rows
      BY <2>1, UpsertedRow
    <2>3. CASE n \in S
      <3>1. v[<<"mlive", n>>] = TRUE
        BY <1>1, <2>1, <2>3, UpsertRows DEF Upserted
      <3>2. v[<<k, x, Row(v, n)>>]
        BY <2>1, <2>2, <2>3 DEF Equipped
      <3> QED
        BY <2>3, <3>1, <3>2 DEF LinkedCaps
    <2>4. CASE n \notin S
      <3>1. /\ Upserted(S)[<<"mlive", n>>] = db[<<"mlive", n>>]
            /\ Upserted(S)[<<"row", n>>] = db[<<"row", n>>]
        BY <1>1, <2>4, UpsertRows DEF Upserted
      <3>2. Row(v, n) = Row(db, n)
        BY <2>1, <3>1 DEF Row
      <3>3. \A m \in S : Row(Upserted(S), m) # Row(db, n)
        BY <2>4 DEF Row
      <3>4. v[<<k, x, Row(v, n)>>] <=> db[<<k, x, Row(db, n)>>]
        BY <2>2, <3>2, <3>3 DEF Equipped
      <3> QED
        BY <2>1, <2>4, <3>1, <3>4 DEF LinkedCaps
    <2> QED
      BY <2>3, <2>4
  <1> QED
    BY <1>2 DEF LinkedCaps

\* What has the links it had has the names it had: a new row is linked from nowhere.
LEMMA UnequippedCaps ==
    ASSUME CatalogInv, served + 1 \in 0 .. MaxRequests, NEW S \in SUBSET Names, NEW k, NEW x, NEW v, Equipped(v, k, x, S),
           NEW e \in Entities, \A r \in Rows : v[<<"ecap", e, r>>] = db[<<"ecap", e, r>>]
    PROVE  /\ LinkedCaps(v, "ecap", e) = LinkedCaps(db, "ecap", e)
           /\ \A n \in LinkedCaps(db, "ecap", e) : v[<<"text", n>>] = db[<<"text", n>>]
  <1>1. Table(db) /\ Linked(db, served) /\ served \in Nat
    BY CatalogFacts
  <1>2. ASSUME NEW n \in Names
        PROVE  /\ n \in LinkedCaps(v, "ecap", e) <=> n \in LinkedCaps(db, "ecap", e)
               /\ n \in LinkedCaps(db, "ecap", e) => v[<<"text", n>>] = db[<<"text", n>>]
    <2>1. /\ Row(v, n) = Row(Upserted(S), n) /\ v[<<"mlive", n>>] = Upserted(S)[<<"mlive", n>>]
          /\ v[<<"text", n>>] = Upserted(S)[<<"text", n>>]
      BY DEF Equipped, Row
    <2>2. Row(v, n) \in Rows
      BY <2>1, UpsertedRow
    <2>3. CASE n \in S /\ ~db[<<"mlive", n>>]
      <3>1. Upserted(S)[<<"row", n>>] = served + 1
        BY <1>1, <2>3, UpsertRows DEF Upserted
      <3>2. Row(v, n)[2] = served + 1
        BY <2>1, <3>1 DEF Row
      <3>3. ~(served + 1 =< served)
        BY <1>1
      <3>4. ~db[<<"ecap", e, Row(v, n)>>]
        BY <1>1, <2>2, <3>2, <3>3 DEF Linked
      <3>5. ~v[<<"ecap", e, Row(v, n)>>]
        BY <2>2, <3>4
      <3> QED
        BY <2>3, <3>5 DEF LinkedCaps
    <2>4. CASE n \notin S \/ db[<<"mlive", n>>]
      <3>1. /\ Upserted(S)[<<"mlive", n>>] = db[<<"mlive", n>>]
            /\ Upserted(S)[<<"row", n>>] = db[<<"row", n>>]
            /\ Upserted(S)[<<"text", n>>] = db[<<"text", n>>]
        BY <1>1, <2>4, UpsertRows DEF Upserted
      <3>2. Row(v, n) = Row(db, n)
        BY <2>1, <3>1 DEF Row
      <3>3. v[<<"ecap", e, Row(v, n)>>] = db[<<"ecap", e, Row(db, n)>>]
        BY <2>2, <3>2
      <3> QED
        BY <2>1, <3>1, <3>3 DEF LinkedCaps
    <2> QED
      BY <2>3, <2>4
  <1> QED
    BY <1>2 DEF LinkedCaps

LEMMA EquipAnchored ==
    ASSUME CatalogInv, served + 1 \in 0 .. MaxRequests, NEW S \in SUBSET Names, NEW k, NEW x,
           \/ k = "ecap" /\ x \in Entities
           \/ k = "bcap" /\ x \in Bases,
           NEW z, Kinds(z) \cap {"mlive", "row", "text", "ecap", "bcap", "egene"} = {},
           NEW w, w = Equip(k, x, S) ++ z,
           k = "ecap" => (w ++ db)[<<"elive", x>>] # "none", k = "bcap" => (w ++ db)[<<"blive", x>>] # "none",
           \A b \in Bases, g \in Genes : <<"bgene", b, g>> \in DOMAIN z =>
              (w ++ db)[<<"blive", b>>] # "none" /\ (w ++ db)[<<"glive", g>>] # "none"
    PROVE  Anchored(w, db, served + 1)
  <1> DEFINE Q == Equip(k, x, S)
             U == UpsertCapabilities(S)
  <1>1. k \in {"ecap", "bcap"}
    OBVIOUS
  <1>2. DOMAIN Q = {<<k, x, Row(Upserted(S), n)>> : n \in S} \cup DOMAIN U
    BY EquipDomain
  <1>3. DOMAIN w = DOMAIN Q \cup DOMAIN z
    BY OverDomain
  <1>4. \A c \in DOMAIN U : c[1] \in {"mlive", "row", "text"}
    BY KindsUpsert DEF Kinds
  <1>5. \A c \in DOMAIN U : Q[c] = U[c]
    BY <1>1, EquipNames
  <1>6. Anchored(U, db, served + 1)
    BY CatalogFacts, UpsertSound
  <1>7. \A n \in S : Row(Upserted(S), n)[2] =< served + 1
    BY UpsertedRow
  <1>8. w = Q ++ z
    OBVIOUS
  <1> HIDE DEF Q, U
  <1>9. ASSUME NEW n \in Names, <<"row", n>> \in DOMAIN w PROVE w[<<"row", n>>] =< served + 1
    <2>1. <<"row", n>> \notin DOMAIN z
      BY NotOfKind
    <2>2. <<"row", n>> \in DOMAIN Q
      BY <1>3, <1>9, <2>1
    <2>3. <<"row", n>> \in DOMAIN U
      BY <1>2, <2>2
    <2>4. w[<<"row", n>>] = Q[<<"row", n>>]
      BY <1>8, <2>2, OverWritten
    <2> QED
      BY <1>5, <1>6, <2>3, <2>4 DEF Anchored
  <1>10. ASSUME NEW l \in {"ecap", "bcap"}, NEW y, NEW r, <<l, y, r>> \in DOMAIN w
         PROVE  l = k /\ y = x /\ r[2] =< served + 1
    <2>1. <<l, y, r>> \notin DOMAIN z
      BY NotOfKind
    <2>2. <<l, y, r>> \notin DOMAIN U
      BY <1>4
    <2>3. \E n \in S : <<l, y, r>> = <<k, x, Row(Upserted(S), n)>>
      BY <1>2, <1>3, <1>10, <2>1, <2>2
    <2> QED
      BY <1>7, <2>3
  <1>11. \A y, g : <<"egene", y, g>> \notin DOMAIN w
    <2> SUFFICES ASSUME NEW y, NEW g PROVE <<"egene", y, g>> \notin DOMAIN w
      OBVIOUS
    <2>1. <<"egene", y, g>> \notin DOMAIN z
      BY NotOfKind
    <2>2. <<"egene", y, g>> \notin DOMAIN Q
      BY <1>1, <1>2, <1>4
    <2> QED
      BY <1>3, <2>1, <2>2
  <1>12. \A y, g : <<"bgene", y, g>> \in DOMAIN w => <<"bgene", y, g>> \in DOMAIN z
    <2> SUFFICES ASSUME NEW y, NEW g, <<"bgene", y, g>> \in DOMAIN w PROVE <<"bgene", y, g>> \in DOMAIN z
      OBVIOUS
    <2>1. <<"bgene", y, g>> \notin DOMAIN Q
      BY <1>1, <1>2, <1>4
    <2> QED
      BY <1>3, <2>1
  <1> QED
    BY <1>9, <1>10, <1>11, <1>12 DEF Anchored

\* The same cells, the same genes
LEMMA GenesSame ==
    ASSUME NEW u, NEW v, NEW e,
           \A g \in Genes : u[<<"glive", g>>] = v[<<"glive", g>>],
           \A g \in Genes : u[<<"egene", e, g>>] = v[<<"egene", e, g>>],
           \A b \in Bases : u[<<"blive", b>>] = v[<<"blive", b>>] /\ u[<<"slug", b>>] = v[<<"slug", b>>],
           \A b \in Bases, g \in Genes : u[<<"bgene", b, g>>] = v[<<"bgene", b, g>>],
           u[<<"preset", e>>] = v[<<"preset", e>>]
    PROVE  EffectiveGenes(u, e) = EffectiveGenes(v, e)
  <1>1. BaseWithSlug(u, u[<<"preset", e>>]) = BaseWithSlug(v, v[<<"preset", e>>])
    BY DEF BaseWithSlug, Live
  <1>2. \A b \in BaseWithSlug(v, v[<<"preset", e>>]) : b \in Bases
    BY DEF BaseWithSlug
  <1> QED
    BY <1>1, <1>2 DEF EffectiveGenes, Live

\* An entity that a promotion of another leaves alone keeps its surface.
LEMMA UnequippedSurface ==
    ASSUME CatalogInv, served + 1 \in 0 .. MaxRequests, NEW S \in SUBSET Names, NEW x, NEW v, Equipped(v, "ecap", x, S),
           NEW e \in Entities, \A r \in Rows : v[<<"ecap", e, r>>] = db[<<"ecap", e, r>>],
           \A c \in Cells : c[1] \in {"glive", "inline", "egene", "blive", "slug", "bgene"} => v[c] = db[c],
           v[<<"preset", e>>] = db[<<"preset", e>>], v[<<"prompt", e>>] = db[<<"prompt", e>>]
    PROVE  Surface(v, e) = Surface(db, e) /\ SurfaceNames(v, e) = SurfaceNames(db, e)
  <1>1. LinkedCaps(v, "ecap", e) = LinkedCaps(db, "ecap", e)
    BY UnequippedCaps
  <1>2. \A n \in LinkedCaps(db, "ecap", e) : v[<<"text", n>>] = db[<<"text", n>>]
    BY UnequippedCaps
  <1>3. EffectiveGenes(v, e) = EffectiveGenes(db, e)
    <2>1. \A g \in Genes : v[<<"glive", g>>] = db[<<"glive", g>>] /\ v[<<"egene", e, g>>] = db[<<"egene", e, g>>]
      BY DEF Cells
    <2>2. \A b \in Bases : v[<<"blive", b>>] = db[<<"blive", b>>] /\ v[<<"slug", b>>] = db[<<"slug", b>>]
      BY DEF Cells
    <2>3. \A b \in Bases, g \in Genes : v[<<"bgene", b, g>>] = db[<<"bgene", b, g>>]
      BY DEF Cells
    <2> QED
      BY <2>1, <2>2, <2>3, GenesSame
  <1>4. \A g \in EffectiveGenes(db, e) : v[<<"inline", g>>] = db[<<"inline", g>>]
    BY DEF EffectiveGenes, Cells
  <1>5. InlineCaps(v, e) = InlineCaps(db, e)
    BY <1>1, <1>3, <1>4 DEF InlineCaps
  <1> QED
    BY <1>1, <1>2, <1>5 DEF Surface, SurfaceNames

\* The names of a surface, without the order of precedence
LEMMA SurfaceNamesAre ==
    ASSUME NEW v, NEW e
    PROVE  SurfaceNames(v, e) = LinkedCaps(v, "ecap", e) \cup UNION {v[<<"inline", g>>] : g \in EffectiveGenes(v, e)}
  <1> DEFINE L == LinkedCaps(v, "ecap", e)
             X == UNION {v[<<"inline", g>>] : g \in EffectiveGenes(v, e)}
  <1>1. SurfaceNames(v, e) = L \cup (X \ L)
    BY DEF SurfaceNames, InlineCaps
  <1> HIDE DEF L, X
  <1>2. SurfaceNames(v, e) = L \cup X
    BY <1>1
  <1> QED
    BY <1>2 DEF L, X

LEMMA PromoteUpdateKeeps ==
    ASSUME CatalogInv, NEW h \in Handlers, PromoteUpdate(h)
    PROVE  CatalogInv'
  <1>1. PICK i \in Of("ilive", Instances), regen \in BOOLEAN :
           /\ Live(db, "elive", db[<<"of", i>>])
           /\ Request(h, "promote", i, db[<<"of", i>>],
                 BumpEntities(Equip("ecap", db[<<"of", i>>], db[<<"runtime", i>>].reaped \ SurfaceNames(db, db[<<"of", i>>]))
                              ++ (IF regen THEN Put("prompt", db[<<"of", i>>], "regen") ELSE Nothing), {db[<<"of", i>>]}))
    BY DEF PromoteUpdate
  <1> DEFINE e == db[<<"of", i>>]
             reaped == db[<<"runtime", i>>].reaped
             S == reaped \ SurfaceNames(db, e)
             z == IF regen THEN Put("prompt", e, "regen") ELSE Nothing
             w == Equip("ecap", e, S) ++ z
             v == w ++ db
             u == BumpEntities(w, {e}) ++ db
  <1>2. i \in Instances /\ e \in Entities /\ Table(db) /\ db[<<"elive", e>>] = "live"
    BY <1>1, EntityOfInstance, CatalogFacts DEF Live
  <1>3. served + 1 \in 0 .. MaxRequests
    BY <1>1, RequestRoom
  <1>4. S \in SUBSET Names /\ reaped \subseteq SurfaceNames(db, e) \cup S
    BY <1>2, ReapedOf
  <1>5. Request(h, "promote", i, e, BumpEntities(w, {e}))
    BY <1>1
  <1> HIDE DEF S
  <1>6. Fits(z) /\ DOMAIN z \subseteq {<<"prompt", e>>}
    <2>1. CASE regen
      <3>1. <<"prompt", e>> \in Cells /\ "regen" \in Column(<<"prompt", e>>)
        BY <1>2 DEF Cells, Column, Prompts
      <3>2. Fits(Put("prompt", e, "regen"))
        BY <3>1, FitsPut
      <3>3. DOMAIN Put("prompt", e, "regen") = {<<"prompt", e>>}
        BY DEF Put
      <3> QED
        BY <2>1, <3>2, <3>3
    <2>2. CASE ~regen
      BY <2>2, FitsNothing, KindsNothing
    <2> QED
      BY <2>1, <2>2
  <1> HIDE DEF z, e, reaped
  <1>7. Kinds(z) \subseteq {"prompt"}
    BY <1>6 DEF Kinds
  <1>8. Fits(Equip("ecap", e, S))
    BY <1>2, <1>3, <1>4, EquipFits
  <1>9. Fits(w)
    BY <1>6, <1>8, FitsOver
  <1>10. Kinds(w) \subseteq {"ecap", "mlive", "row", "text", "prompt"}
    <2>1. Kinds(w) = Kinds(Equip("ecap", e, S)) \cup Kinds(z)
      BY KindsOver
    <2>2. Kinds(Equip("ecap", e, S)) \subseteq {"ecap", "mlive", "row", "text"}
      BY EquipKinds
    <2> HIDE DEF w
    <2> QED
      BY <1>7, <2>1, <2>2
  <1>11. Equipped(v, "ecap", e, S)
    BY <1>2, <1>4, <1>7, EquipHere
  <1>12. \A f, r : <<"ecap", f, r>> \in Cells /\ f # e => v[<<"ecap", f, r>>] = db[<<"ecap", f, r>>]
    BY <1>2, <1>4, <1>7, EquipElsewhere
  <1>13. \A c \in Cells : c[1] \notin {"mlive", "row", "text", "ecap"} => v[c] = (z ++ db)[c]
    BY <1>2, <1>4, <1>7, EquipRest
  <1>14. \A c \in Cells : c[1] \notin {"mlive", "row", "text", "ecap"} /\ c # <<"prompt", e>> => v[c] = db[c]
    <2> SUFFICES ASSUME NEW c \in Cells, c[1] \notin {"mlive", "row", "text", "ecap"}, c # <<"prompt", e>> PROVE v[c] = db[c]
      OBVIOUS
    <2>1. v[c] = (z ++ db)[c]
      BY <1>13
    <2>2. c \notin DOMAIN z
      BY <1>6
    <2>3. (z ++ db)[c] = db[c]
      BY <1>2, <2>2, OverCell
    <2> QED
      BY <2>1, <2>3
  <1>15. v[<<"elive", e>>] = "live"
    BY <1>2, <1>14 DEF Cells
  <1>16. Anchored(w, db, served + 1)
    <2>1. \A b, g : <<"bgene", b, g>> \notin DOMAIN z
      BY <1>6
    <2> QED
      BY <1>2, <1>3, <1>4, <1>7, <1>15, <2>1, EquipAnchored
  <1> HIDE DEF w
  <1>17. Sound("promote", w, db, served + 1)
    BY <1>9, <1>10, <1>16, QuietSound
  <1>18. Sound("promote", BumpEntities(w, {e}), db, served + 1)
    BY <1>2, <1>9, <1>10, <1>17, BumpSound
  <1>19. Table(v)
    BY <1>2, <1>9, OverTable
  <1>20. \A c \in Cells : c[1] # "hash" => u[c] = v[c]
    BY <1>2, <1>9, <1>10, BumpFrame
  <1> HIDE DEF v
  <1>21. ASSUME NEW f \in Entities \ {e} PROVE Surface(v, f) = Surface(db, f) /\ (Live(v, "elive", f) <=> Live(db, "elive", f))
    <2>1. \A r \in Rows : v[<<"ecap", f, r>>] = db[<<"ecap", f, r>>]
      BY <1>12 DEF Cells
    <2>2. \A c \in Cells : c[1] \in {"glive", "inline", "egene", "blive", "slug", "bgene"} => v[c] = db[c]
      BY <1>14
    <2>3. /\ v[<<"preset", f>>] = db[<<"preset", f>>] /\ v[<<"prompt", f>>] = db[<<"prompt", f>>]
          /\ v[<<"elive", f>>] = db[<<"elive", f>>]
      BY <1>14 DEF Cells
    <2>4. Surface(v, f) = Surface(db, f)
      BY <1>3, <1>4, <1>11, <2>1, <2>2, <2>3, UnequippedSurface
    <2> QED
      BY <2>3, <2>4 DEF Live
  <1>22. Hashed(u, db)
    BY <1>2, <1>9, <1>10, <1>21, HashedByBump DEF v
  <1>23. SurfaceNames(u, e) = SurfaceNames(v, e)
    <2> HIDE DEF u
    <2> QED
      BY <1>2, <1>19, <1>20, SameSurfaces
  <1>24. SurfaceNames(db, e) \cup S \subseteq SurfaceNames(v, e)
    <2>1. LinkedCaps(v, "ecap", e) = S \cup LinkedCaps(db, "ecap", e)
      BY <1>3, <1>4, <1>11, EquippedCaps
    <2>2. EffectiveGenes(v, e) = EffectiveGenes(db, e)
      <3>1. \A g \in Genes : v[<<"glive", g>>] = db[<<"glive", g>>] /\ v[<<"egene", e, g>>] = db[<<"egene", e, g>>]
        BY <1>2, <1>14 DEF Cells
      <3>2. \A b \in Bases : v[<<"blive", b>>] = db[<<"blive", b>>] /\ v[<<"slug", b>>] = db[<<"slug", b>>]
        BY <1>14 DEF Cells
      <3>3. \A b \in Bases, g \in Genes : v[<<"bgene", b, g>>] = db[<<"bgene", b, g>>]
        BY <1>14 DEF Cells
      <3>4. v[<<"preset", e>>] = db[<<"preset", e>>]
        BY <1>2, <1>14 DEF Cells
      <3> QED
        BY <3>1, <3>2, <3>3, <3>4, GenesSame
    <2>3. \A g \in EffectiveGenes(db, e) : v[<<"inline", g>>] = db[<<"inline", g>>]
      BY <1>14 DEF EffectiveGenes, Cells
    <2>4. UNION {v[<<"inline", g>>] : g \in EffectiveGenes(v, e)} = UNION {db[<<"inline", g>>] : g \in EffectiveGenes(db, e)}
      BY <2>2, <2>3
    <2> QED
      BY <2>1, <2>4, SurfaceNamesAre
  <1>25. reaped \subseteq SurfaceNames(u, e)
    BY <1>4, <1>23, <1>24
  <1>26. Promise("promote", i, e, BumpEntities(w, {e}), db)
    BY <1>22, <1>25 DEF Promise, Reloads, Reloading, SilentKinds, Copied, reaped
  <1> QED
    BY <1>5, <1>18, <1>26, RequestKeeps

\* A fork of e inherits through its base class no more than e does.
LEMMA InheritedOnly ==
    ASSUME NEW v, NEW e, NEW f, \A g \in Genes : ~v[<<"egene", f, g>>], v[<<"preset", f>>] = v[<<"preset", e>>]
    PROVE  EffectiveGenes(v, f) \subseteq EffectiveGenes(v, e)
  BY DEF EffectiveGenes

LEMMA PromoteForkKeeps ==
    ASSUME CatalogInv, NEW h \in Handlers, PromoteFork(h)
    PROVE  CatalogInv'
  <1>1. PICK i \in Of("ilive", Instances), new \in Unused("elive", Entities), regen \in BOOLEAN :
           /\ Live(db, "elive", db[<<"of", i>>])
           /\ Request(h, "fork", i, new,
                 BumpEntities(Equip("ecap", new, db[<<"runtime", i>>].reaped \cup SurfaceNames(db, db[<<"of", i>>]))
                              ++ NewEntity(new, db[<<"preset", db[<<"of", i>>]>>],
                                           IF regen THEN "regen" ELSE db[<<"prompt", db[<<"of", i>>]>>], FALSE), {new}))
    BY DEF PromoteFork
  <1> DEFINE e == db[<<"of", i>>]
             reaped == db[<<"runtime", i>>].reaped
             S == reaped \cup SurfaceNames(db, e)
             s == db[<<"preset", e>>]
             p == IF regen THEN "regen" ELSE db[<<"prompt", e>>]
             z == NewEntity(new, s, p, FALSE)
             w == Equip("ecap", new, S) ++ z
             v == w ++ db
             u == BumpEntities(w, {new}) ++ db
  <1>2. i \in Instances /\ e \in Entities /\ Table(db) /\ Linked(db, served) /\ db[<<"elive", e>>] = "live"
    BY <1>1, EntityOfInstance, CatalogFacts DEF Live
  <1>3. new \in Entities /\ db[<<"elive", new>>] = "none" /\ new # e
    BY <1>2 DEF Unused
  <1>4. served + 1 \in 0 .. MaxRequests
    BY <1>1, RequestRoom
  <1>5. S \in SUBSET Names
    BY <1>2, ReapedOf, SurfaceType
  <1>6. s \in Slugs \cup {None} /\ p \in Prompts
    BY <1>2, EntityColumns DEF Prompts
  <1>7. Request(h, "fork", i, new, BumpEntities(w, {new}))
    BY <1>1
  <1>8. S = reaped \cup SurfaceNames(db, e) /\ s = db[<<"preset", e>>]
    OBVIOUS
  <1> HIDE DEF S, s, p, e, reaped
  <1>9. Fits(z)
    BY <1>3, <1>6, NewEntityCells
  <1>10. Whole(z)
    BY <1>3, <1>6, NewEntityCells
  <1>11. Kinds(z) = {"elive", "preset", "prompt", "cerebellum"}
    BY NewEntityKinds
  <1>12. DOMAIN z = {<<"elive", new>>, <<"preset", new>>, <<"prompt", new>>, <<"cerebellum", new>>}
    BY NewEntityDomain
  <1>13. z[<<"elive", new>>] = "live"
    BY NewEntityStage
  <1>14. z[<<"preset", new>>] = s
    BY NewEntityPreset
  <1> HIDE DEF z
  <1>15. Fits(Equip("ecap", new, S))
    BY <1>3, <1>4, <1>5, EquipFits
  <1>16. Kinds(Equip("ecap", new, S)) \subseteq {"ecap", "mlive", "row", "text"}
    BY EquipKinds
  <1>17. Fits(w)
    BY <1>9, <1>15, FitsOver
  <1>18. Whole(w)
    BY <1>10, <1>16, WholeOver
  <1>19. Kinds(w) \subseteq {"ecap", "mlive", "row", "text", "elive", "preset", "prompt", "cerebellum"}
    <2>1. Kinds(w) = Kinds(Equip("ecap", new, S)) \cup Kinds(z)
      BY KindsOver
    <2> HIDE DEF w
    <2> QED
      BY <1>11, <1>16, <2>1
  <1>20. Equipped(v, "ecap", new, S)
    BY <1>3, <1>5, <1>11, EquipHere
  <1>21. \A f, r : <<"ecap", f, r>> \in Cells /\ f # new => v[<<"ecap", f, r>>] = db[<<"ecap", f, r>>]
    BY <1>3, <1>5, <1>11, EquipElsewhere
  <1>22. \A c \in Cells : c[1] \notin {"mlive", "row", "text", "ecap"} => v[c] = (z ++ db)[c]
    BY <1>3, <1>5, <1>11, EquipRest
  <1>23. \A c \in Cells : c[1] \notin {"mlive", "row", "text", "ecap"} /\ c \notin DOMAIN z => v[c] = db[c]
    <2> SUFFICES ASSUME NEW c \in Cells, c[1] \notin {"mlive", "row", "text", "ecap"}, c \notin DOMAIN z PROVE v[c] = db[c]
      OBVIOUS
    <2>1. v[c] = (z ++ db)[c]
      BY <1>22
    <2>2. (z ++ db)[c] = db[c]
      BY <1>2, OverCell
    <2> QED
      BY <2>1, <2>2
  <1>24. v[<<"elive", new>>] = "live" /\ v[<<"preset", new>>] = s
    <2>1. (z ++ db)[<<"elive", new>>] = "live" /\ (z ++ db)[<<"preset", new>>] = s
      BY <1>12, <1>13, <1>14, OverWritten
    <2>2. <<"elive", new>> \in Cells /\ <<"preset", new>> \in Cells
      BY <1>3 DEF Cells
    <2> QED
      BY <1>22, <2>1, <2>2
  <1>25. Anchored(w, db, served + 1)
    <2>1. \A b, g : <<"bgene", b, g>> \notin DOMAIN z
      BY <1>12
    <2> QED
      BY <1>3, <1>4, <1>5, <1>11, <1>24, <2>1, EquipAnchored
  <1> HIDE DEF w
  <1>26. LeavesBases(w)
    BY <1>19, NotOfKind DEF LeavesBases
  <1>27. Sound("fork", w, db, served + 1)
    BY <1>17, <1>18, <1>25, <1>26 DEF Sound
  <1>28. Sound("fork", BumpEntities(w, {new}), db, served + 1)
    BY <1>2, <1>3, <1>17, <1>19, <1>27, BumpSound
  <1>29. Table(v)
    BY <1>2, <1>17, OverTable
  <1>30. \A c \in Cells : c[1] # "hash" => u[c] = v[c]
    BY <1>2, <1>3, <1>17, <1>19, BumpFrame
  <1> HIDE DEF v
  <1>31. \A c \in Cells : c[1] \in {"glive", "inline", "egene", "blive", "slug", "bgene"} => v[c] = db[c]
    <2>1. \A c : c[1] \in {"glive", "inline", "egene", "blive", "slug", "bgene"} => c \notin DOMAIN z
      BY <1>11 DEF Kinds
    <2> QED
      BY <1>23, <2>1
  <1>32. ASSUME NEW f \in Entities \ {new}
         PROVE  /\ Surface(v, f) = Surface(db, f) /\ SurfaceNames(v, f) = SurfaceNames(db, f)
                /\ v[<<"preset", f>>] = db[<<"preset", f>>] /\ v[<<"elive", f>>] = db[<<"elive", f>>]
    <2>1. \A r \in Rows : v[<<"ecap", f, r>>] = db[<<"ecap", f, r>>]
      BY <1>21 DEF Cells
    <2>2. /\ v[<<"preset", f>>] = db[<<"preset", f>>] /\ v[<<"prompt", f>>] = db[<<"prompt", f>>]
          /\ v[<<"elive", f>>] = db[<<"elive", f>>]
      <3>1. <<"preset", f>> \notin DOMAIN z /\ <<"prompt", f>> \notin DOMAIN z /\ <<"elive", f>> \notin DOMAIN z
        BY <1>12
      <3> QED
        BY <1>23, <3>1 DEF Cells
    <2>3. Surface(v, f) = Surface(db, f)
      BY <1>4, <1>5, <1>20, <1>31, <2>1, <2>2, UnequippedSurface
    <2>4. SurfaceNames(v, f) = SurfaceNames(db, f)
      BY <1>4, <1>5, <1>20, <1>31, <2>1, <2>2, UnequippedSurface
    <2> QED
      BY <2>2, <2>3, <2>4
  <1>33. Hashed(u, db)
    <2>1. \A f \in Entities \ {new} : Live(v, "elive", f) => Live(db, "elive", f) /\ Surface(v, f) = Surface(db, f)
      BY <1>32 DEF Live
    <2> QED
      BY <1>2, <1>3, <1>17, <1>19, <2>1, HashedByBump DEF v
  <1>34. SurfaceNames(u, new) = SurfaceNames(v, new) /\ SurfaceNames(u, e) = SurfaceNames(v, e)
    <2> HIDE DEF u
    <2> QED
      BY <1>2, <1>3, <1>29, <1>30, SameSurfaces
  <1>35. SurfaceNames(v, new) = S
    <2>1. LinkedCaps(v, "ecap", new) = S \cup LinkedCaps(db, "ecap", new)
      BY <1>4, <1>5, <1>20, EquippedCaps
    <2>2. LinkedCaps(db, "ecap", new) = {}
      <3>1. \A n \in Names : Row(db, n) \in Rows
        BY <1>2, NameColumns DEF Row, Rows
      <3> QED
        BY <1>2, <1>3, <3>1 DEF Linked, LinkedCaps
    <2>3. EffectiveGenes(v, new) \subseteq EffectiveGenes(v, e)
      <3>1. \A g \in Genes : ~db[<<"egene", new, g>>]
        BY <1>2, <1>3 DEF Linked
      <3>2. \A g \in Genes : ~v[<<"egene", new, g>>]
        BY <1>3, <1>31, <3>1 DEF Cells
      <3>3. v[<<"preset", new>>] = v[<<"preset", e>>]
        BY <1>2, <1>3, <1>8, <1>24, <1>32
      <3> QED
        BY <3>2, <3>3, InheritedOnly
    <2>4. UNION {v[<<"inline", g>>] : g \in EffectiveGenes(v, new)} \subseteq UNION {v[<<"inline", g>>] : g \in EffectiveGenes(v, e)}
      BY <2>3
    <2>5. UNION {v[<<"inline", g>>] : g \in EffectiveGenes(v, e)} \subseteq SurfaceNames(v, e)
      BY SurfaceNamesAre
    <2>6. SurfaceNames(v, e) = SurfaceNames(db, e)
      BY <1>2, <1>3, <1>32
    <2>7. UNION {v[<<"inline", g>>] : g \in EffectiveGenes(v, new)} \subseteq S
      BY <1>8, <2>4, <2>5, <2>6
    <2>8. SurfaceNames(v, new) = LinkedCaps(v, "ecap", new) \cup UNION {v[<<"inline", g>>] : g \in EffectiveGenes(v, new)}
      BY SurfaceNamesAre
    <2> QED
      BY <2>1, <2>2, <2>7, <2>8
  <1>36. SurfaceNames(v, e) = SurfaceNames(db, e)
    BY <1>2, <1>3, <1>32
  <1>37. SurfaceNames(u, new) = SurfaceNames(u, e) \cup reaped
    BY <1>8, <1>34, <1>35, <1>36
  <1>38. Promise("fork", i, new, BumpEntities(w, {new}), db)
    BY <1>33, <1>37 DEF Promise, Reloads, Reloading, SilentKinds, Copied, reaped, e
  <1> QED
    BY <1>7, <1>28, <1>38, RequestKeeps

LEMMA TransmuteEntityKeeps ==
    ASSUME CatalogInv, NEW h \in Handlers, TransmuteEntity(h)
    PROVE  CatalogInv'
  <1>1. PICK e \in Of("elive", Entities), b \in Unused("blive", Bases), s \in FreeSlugs :
           Request(h, "transmute", e, b,
                   Equip("bcap", b, SurfaceNames(db, e)) ++ Link("bgene", b, EffectiveGenes(db, e)) ++ NewBase(b, s))
    BY DEF TransmuteEntity
  <1> DEFINE S == SurfaceNames(db, e)
             G == EffectiveGenes(db, e)
             Q == Equip("bcap", b, S)
             A == Link("bgene", b, G)
             B == NewBase(b, s)
             z == A ++ B
             w == Q ++ z
             v == w ++ db
  <1>2. e \in Entities /\ Table(db) /\ Linked(db, served) /\ s \in Slugs
    BY CatalogFacts DEF Of, FreeSlugs
  <1>3. b \in Bases /\ db[<<"blive", b>>] = "none"
    BY DEF Unused
  <1>4. served + 1 \in 0 .. MaxRequests
    BY <1>1, RequestRoom
  <1>5. S \in SUBSET Names /\ G \subseteq Genes
    BY <1>2, SurfaceType DEF EffectiveGenes
  <1>6. \A g \in G : db[<<"glive", g>>] = "live"
    BY DEF EffectiveGenes, Live
  <1>7. Request(h, "transmute", e, b, w)
    <2>1. (Q ++ A) ++ B = Q ++ (A ++ B)
      BY OverAgain
    <2> QED
      BY <1>1, <2>1
  <1>8. S = SurfaceNames(db, e) /\ G = EffectiveGenes(db, e)
    OBVIOUS
  <1> HIDE DEF S, G
  <1>9. /\ Fits(B) /\ Whole(B) /\ DOMAIN B = {<<"blive", b>>, <<"slug", b>>}
        /\ B[<<"blive", b>>] = "live"
    BY <1>2, <1>3, NewBaseCells
  <1>10. DOMAIN A = {<<"bgene", b, g>> : g \in G} /\ \A c \in DOMAIN A : A[c] = TRUE
    BY DEF Link
  <1>11. Fits(A)
    <2>1. \A g \in G : <<"bgene", b, g>> \in Cells
      BY <1>3, <1>5 DEF Cells
    <2>2. \A g \in G : TRUE \in Column(<<"bgene", b, g>>)
      BY DEF Column
    <2> QED
      BY <2>1, <2>2, FitsLink
  <1> HIDE DEF A, B
  <1>12. DOMAIN z = DOMAIN A \cup DOMAIN B
    BY OverDomain
  <1>13. Fits(z)
    BY <1>9, <1>11, FitsOver
  <1>14. Kinds(A) \subseteq {"bgene"}
    BY <1>10 DEF Kinds
  <1>15. Whole(z) /\ <<"blive", b>> \in DOMAIN z /\ z[<<"blive", b>>] = "live"
    BY <1>9, <1>14, WholeOver
  <1>16. \A g \in G : z[<<"bgene", b, g>>] = TRUE /\ <<"bgene", b, g>> \in DOMAIN z
    BY <1>10, <1>12, OverWritten
  <1> HIDE DEF z
  <1>17. Kinds(z) \subseteq {"bgene", "blive", "slug"}
    BY <1>9, <1>10, <1>12 DEF Kinds
  <1>18. \A y, g : <<"bgene", y, g>> \in DOMAIN z => y = b /\ g \in G
    BY <1>9, <1>10, <1>12
  <1>19. Fits(Q)
    BY <1>3, <1>4, <1>5, EquipFits
  <1>20. Kinds(Q) \subseteq {"bcap", "mlive", "row", "text"}
    BY EquipKinds
  <1>21. Fits(w)
    BY <1>13, <1>19, FitsOver
  <1>22. Whole(w)
    BY <1>15, <1>20, WholeOver
  <1>23. Equipped(v, "bcap", b, S)
    BY <1>3, <1>5, <1>17, EquipHere
  <1>24. \A c \in Cells : c[1] \notin {"mlive", "row", "text", "bcap"} => v[c] = (z ++ db)[c]
    BY <1>3, <1>5, <1>17, EquipRest
  <1>25. v[<<"blive", b>>] = "live"
    <2>1. (z ++ db)[<<"blive", b>>] = "live"
      BY <1>15, OverWritten
    <2> QED
      BY <1>3, <1>24, <2>1 DEF Cells
  <1>26. \A g \in Genes : v[<<"glive", g>>] = db[<<"glive", g>>]
    <2> SUFFICES ASSUME NEW g \in Genes PROVE v[<<"glive", g>>] = db[<<"glive", g>>]
      OBVIOUS
    <2>1. <<"glive", g>> \in Cells /\ <<"glive", g>> \notin DOMAIN z
      BY <1>17, NotOfKind DEF Cells
    <2>2. (z ++ db)[<<"glive", g>>] = db[<<"glive", g>>]
      BY <1>2, <2>1, OverCell
    <2> QED
      BY <1>24, <2>1, <2>2
  <1>27. Anchored(w, db, served + 1)
    <2>1. \A y \in Bases, g \in Genes : <<"bgene", y, g>> \in DOMAIN z => v[<<"blive", y>>] # "none" /\ v[<<"glive", g>>] # "none"
      BY <1>6, <1>18, <1>25, <1>26
    <2> QED
      BY <1>3, <1>4, <1>5, <1>17, <1>25, <2>1, EquipAnchored
  <1>28. Sound("transmute", w, db, served + 1)
    BY <1>21, <1>22, <1>27 DEF Sound
  <1> HIDE DEF w, v
  <1>29. LinkedCaps(v, "bcap", b) = S
    <2>1. LinkedCaps(v, "bcap", b) = S \cup LinkedCaps(db, "bcap", b)
      BY <1>4, <1>5, <1>23, EquippedCaps
    <2>2. LinkedCaps(db, "bcap", b) = {}
      <3>1. \A n \in Names : Row(db, n) \in Rows
        BY <1>2, NameColumns DEF Row, Rows
      <3> QED
        BY <1>2, <1>3, <3>1 DEF Linked, LinkedCaps
    <2> QED
      BY <2>1, <2>2
  <1>30. ASSUME NEW g \in Genes PROVE v[<<"bgene", b, g>>] <=> g \in G
    <2>1. <<"bgene", b, g>> \in Cells
      BY <1>3 DEF Cells
    <2>2. v[<<"bgene", b, g>>] = (z ++ db)[<<"bgene", b, g>>]
      BY <1>24, <2>1
    <2>3. CASE g \in G
      <3>1. (z ++ db)[<<"bgene", b, g>>] = TRUE
        BY <1>16, <2>3, OverWritten
      <3> QED
        BY <2>2, <2>3, <3>1
    <2>4. CASE g \notin G
      <3>1. <<"bgene", b, g>> \notin DOMAIN z
        BY <1>18, <2>4
      <3>2. (z ++ db)[<<"bgene", b, g>>] = db[<<"bgene", b, g>>]
        BY <1>2, <2>1, <3>1, OverCell
      <3>3. ~db[<<"bgene", b, g>>]
        BY <1>2, <1>3 DEF Linked
      <3> QED
        BY <2>2, <2>4, <3>2, <3>3
    <2> QED
      BY <2>3, <2>4
  <1>31. {g \in Genes : v[<<"bgene", b, g>>]} = G
    BY <1>5, <1>30
  <1>32. Promise("transmute", e, b, w, db)
    BY <1>8, <1>29, <1>31 DEF Promise, Reloads, Reloading, SilentKinds, Copied, v
  <1> QED
    BY <1>7, <1>28, <1>32, RequestKeeps

-----------------------------------------------------------------------------
(* The catalog: a behaviour                                                *)

LEMMA StockedFits ==
    ASSUME NEW carries \in BOOLEAN, NEW inherits \in BOOLEAN, NEW reaped \in {{}, {n2}}, NEW v, v = Stocked(carries, inherits, reaped)
    PROVE  Table(v)
  <1>1. v = [c \in DOMAIN v |-> v[c]] /\ DOMAIN v = Cells
    BY DEF Stocked
  <1>2. ASSUME NEW c \in Cells PROVE v[c] \in Column(c)
    <2>1. CASE c[1] \in {"elive", "blive", "glive", "ilive"}
      BY <2>1 DEF Stocked, Column, Stages
    <2>2. CASE c[1] \in {"slug", "preset"}
      BY <2>2, StartAssumption DEF Stocked, Column
    <2>3. CASE c[1] \in {"ecap", "bcap", "egene", "bgene", "cerebellum"}
      <3>1. v[c] = (\/ c = <<"ecap", e1, <<n1, 0>>>>
                    \/ c = <<"egene", e1, g1>> /\ carries
                    \/ c = <<"bgene", b1, g1>> /\ inherits)
        BY <2>3 DEF Stocked
      <3>2. v[c] \in BOOLEAN
        BY <3>1
      <3> QED
        BY <2>3, <3>2 DEF Column
    <2>4. CASE c[1] = "mlive"
      <3>1. v[c] = (c[2] \in {n1} \cup reaped)
        BY <2>4 DEF Stocked
      <3>2. v[c] \in BOOLEAN
        BY <3>1
      <3> QED
        BY <2>4, <3>2 DEF Column
    <2>5. CASE c[1] = "text"
      BY <2>5 DEF Stocked, Column, Wordings
    <2>6. CASE c[1] = "row"
      <3>1. v[c] = 0
        BY <2>6 DEF Stocked
      <3>2. Column(c) = 0 .. MaxRequests
        BY <2>6 DEF Column
      <3>3. 0 \in 0 .. MaxRequests
        BY RequestsBound
      <3> QED
        BY <3>1, <3>2, <3>3
    <2>7. CASE c[1] = "inline"
      BY <2>7, StartAssumption DEF Stocked, Column
    <2>8. CASE c[1] = "prompt"
      BY <2>8 DEF Stocked, Column, Prompts
    <2>9. CASE c[1] = "of"
      BY <2>9, StartAssumption DEF Stocked, Column
    <2>10. CASE c[1] = "runtime"
      <3>1. v[c] = [reaped |-> {}, config |-> None]
        BY <2>10 DEF Stocked, Runtime
      <3>2. v[c] \in [reaped : SUBSET Names, config : Surfaces \cup {None}]
        BY <3>1
      <3> QED
        BY <2>10, <3>2 DEF Column
    <2>11. CASE c[1] \notin {"elive", "blive", "glive", "ilive", "slug", "preset", "ecap", "bcap", "egene", "bgene", "cerebellum",
                             "mlive", "text", "row", "inline", "prompt", "of", "runtime"}
      <3>1. v[c] = None
        BY <2>11 DEF Stocked
      <3>2. Column(c) = Surfaces \cup {None}
        BY <2>11 DEF Column
      <3> QED
        BY <3>1, <3>2
    <2> QED
      BY <2>1, <2>2, <2>3, <2>4, <2>5, <2>6, <2>7, <2>8, <2>9, <2>10, <2>11
  <1> QED
    BY <1>1, <1>2 DEF Table, Fits

\* d keeps of v all but the fingerprints.
Stands(d, v) == \A c \in Cells : c[1] \notin {"hash", "active", "runtime"} => d[c] = v[c]

LEMMA StartFits ==
    ASSUME NEW carries \in BOOLEAN, NEW inherits \in BOOLEAN, NEW reaped \in {{}, {n2}}, NEW d, d = Start(carries, inherits, reaped)
    PROVE  Table(d) /\ Stands(d, Stocked(carries, inherits, reaped))
  <1> DEFINE v == Stocked(carries, inherits, reaped)
             s == Surface(v, e1)
             x == <<"hash", e1>>
             y == <<"active", i1>>
             z == <<"runtime", i1>>
  <1>1. Table(v)
    BY StockedFits
  <1>2. DOMAIN v = Cells
    BY <1>1 DEF Table
  <1>3. s \in Surfaces
    BY <1>1, StartAssumption, SurfaceType
  <1>4. d = [v EXCEPT ![x] = s, ![y] = s, ![z] = Runtime(reaped, s)]
    BY DEF Start
  <1>5. x \in Cells /\ y \in Cells /\ z \in Cells
    BY StartAssumption DEF Cells
  <1>6. x # y /\ x # z /\ y # z
    OBVIOUS
  <1>7. Runtime(reaped, s) \in [reaped : SUBSET Names, config : Surfaces \cup {None}]
    BY <1>3, StartAssumption DEF Runtime
  <1>8. s \in Column(x) /\ s \in Column(y)
    BY <1>3 DEF Column
  <1>9. Runtime(reaped, s) \in Column(z)
    BY <1>7 DEF Column
  <1>10. \A c \in Cells : c[1] \notin {"hash", "active", "runtime"} => c # x /\ c # y /\ c # z
    OBVIOUS
  <1> DEFINE q == Runtime(reaped, s)
  <1>13. d = [v EXCEPT ![x] = s, ![y] = s, ![z] = q] /\ q \in Column(z)
    BY <1>4, <1>9
  <1> HIDE DEF v, s, x, y, z, q
  <1>11. /\ DOMAIN d = Cells /\ d = [c \in DOMAIN d |-> d[c]]
         /\ d[x] = s /\ d[y] = s /\ d[z] = q
         /\ \A c \in Cells : c # x /\ c # y /\ c # z => d[c] = v[c]
    BY <1>2, <1>5, <1>6, <1>13
  <1>12. \A c \in Cells : d[c] \in Column(c)
    BY <1>1, <1>8, <1>13, <1>11 DEF Table, Fits
  <1>14. Table(d)
    BY <1>11, <1>12 DEF Table, Fits
  <1> QED
    BY <1>10, <1>11, <1>14 DEF v, Stands

LEMMA StartsConsistent ==
    ASSUME NEW carries \in BOOLEAN, NEW inherits \in BOOLEAN, NEW reaped \in {{}, {n2}}, NEW d, d = Start(carries, inherits, reaped)
    PROVE  Consistent(d) /\ Linked(d, 0)
  <1> DEFINE v == Stocked(carries, inherits, reaped)
  <1>1. Table(d) /\ Stands(d, v)
    BY StartFits
  <1>2. ASSUME NEW c \in Cells, c[1] \notin {"hash", "active", "runtime"} PROVE d[c] = v[c]
    BY <1>1, <1>2 DEF Stands
  <1>3. \A b \in Bases : /\ d[<<"blive", b>>] = IF b = b1 THEN "live" ELSE "none"
                         /\ d[<<"slug", b>>] = IF b = b1 THEN s1 ELSE None
    BY <1>2 DEF Stocked, Cells
  <1>4. \A e \in Entities : d[<<"elive", e>>] = IF e = e1 THEN "live" ELSE "none"
    BY <1>2 DEF Stocked, Cells
  <1>5. \A g \in Genes : d[<<"glive", g>>] = IF g = g1 THEN "live" ELSE "none"
    BY <1>2 DEF Stocked, Cells
  <1>6. \A i \in Instances : /\ d[<<"ilive", i>>] = IF i = i1 THEN "live" ELSE "none"
                             /\ d[<<"of", i>>] = IF i = i1 THEN e1 ELSE None
    BY <1>2 DEF Stocked, Cells
  <1>7. \A e \in Entities : ~d[<<"cerebellum", e>>]
    <2> SUFFICES ASSUME NEW e \in Entities PROVE ~d[<<"cerebellum", e>>]
      OBVIOUS
    <2>1. <<"cerebellum", e>> \in Cells
      BY DEF Cells
    <2>2. d[<<"cerebellum", e>>] = v[<<"cerebellum", e>>]
      BY <1>2, <2>1
    <2>3. ~v[<<"cerebellum", e>>]
      BY <2>1 DEF Stocked
    <2> QED
      BY <2>2, <2>3
  <1>8. ASSUME NEW e \in Entities, NEW r \in Rows, d[<<"ecap", e, r>>] PROVE e = e1 /\ r = <<n1, 0>>
    <2>1. <<"ecap", e, r>> \in Cells
      BY DEF Cells
    <2>2. v[<<"ecap", e, r>>]
      BY <1>2, <1>8, <2>1
    <2>3. <<"ecap", e, r>> = <<"ecap", e1, <<n1, 0>>>>
      BY <2>1, <2>2 DEF Stocked
    <2> QED
      BY <2>3
  <1>9. ASSUME NEW b \in Bases, NEW r \in Rows PROVE ~d[<<"bcap", b, r>>]
    <2>1. <<"bcap", b, r>> \in Cells
      BY DEF Cells
    <2>2. d[<<"bcap", b, r>>] = v[<<"bcap", b, r>>]
      BY <1>2, <2>1
    <2>3. ~v[<<"bcap", b, r>>]
      BY <2>1 DEF Stocked
    <2> QED
      BY <2>2, <2>3
  <1>10. ASSUME NEW e \in Entities, NEW g \in Genes, d[<<"egene", e, g>>] PROVE e = e1 /\ g = g1
    <2>1. <<"egene", e, g>> \in Cells
      BY DEF Cells
    <2>2. v[<<"egene", e, g>>]
      BY <1>2, <1>10, <2>1
    <2>3. <<"egene", e, g>> = <<"egene", e1, g1>>
      BY <2>1, <2>2 DEF Stocked
    <2> QED
      BY <2>3
  <1>11. ASSUME NEW b \in Bases, NEW g \in Genes, d[<<"bgene", b, g>>] PROVE b = b1 /\ g = g1
    <2>1. <<"bgene", b, g>> \in Cells
      BY DEF Cells
    <2>2. v[<<"bgene", b, g>>]
      BY <1>2, <1>11, <2>1
    <2>3. <<"bgene", b, g>> = <<"bgene", b1, g1>>
      BY <2>1, <2>2 DEF Stocked
    <2> QED
      BY <2>3
  <1>12. ASSUME NEW n \in Names PROVE d[<<"row", n>>] = 0
    <2>1. <<"row", n>> \in Cells
      BY DEF Cells
    <2> QED
      BY <1>2, <2>1 DEF Stocked
  <1>13. Consistent(d)
    BY <1>1, <1>3, <1>6, <1>7, StartAssumption DEF Consistent, Live
  <1>14. \A n \in Names : d[<<"row", n>>] =< 0
    <2>1. \A n \in Names : d[<<"row", n>>] = 0
      BY <1>12
    <2>2. 0 =< 0
      OBVIOUS
    <2> QED
      BY <2>1, <2>2
  <1>15. \A e \in Entities, r \in Rows : d[<<"ecap", e, r>>] => r[2] =< 0 /\ d[<<"elive", e>>] # "none"
    BY <1>4, <1>8
  <1>16. \A b \in Bases, r \in Rows : d[<<"bcap", b, r>>] => r[2] =< 0 /\ d[<<"blive", b>>] # "none"
    BY <1>9
  <1>17. \A e \in Entities, g \in Genes : d[<<"egene", e, g>>] => d[<<"elive", e>>] # "none" /\ d[<<"glive", g>>] # "none"
    BY <1>4, <1>5, <1>10
  <1>18. \A b \in Bases, g \in Genes : d[<<"bgene", b, g>>] => d[<<"blive", b>>] # "none" /\ d[<<"glive", g>>] # "none"
    BY <1>3, <1>5, <1>11
  <1>19. Linked(d, 0)
    BY <1>14, <1>15, <1>16, <1>17, <1>18 DEF Linked
  <1> QED
    BY <1>13, <1>19

LEMMA CatalogStart == Init => CatalogInv
  <1> SUFFICES ASSUME Init PROVE CatalogInv
    OBVIOUS
  <1>1. PICK carries \in BOOLEAN, inherits \in BOOLEAN, reaped \in {{}, {n2}} : db = Start(carries, inherits, reaped)
    BY DEF Init
  <1>2. served = 0 /\ registry = {s1} /\ tx = [h \in Handlers |-> Idle]
    BY DEF Init
  <1>3. Consistent(db) /\ Linked(db, served)
    BY <1>1, <1>2, StartsConsistent
  <1>4. RequestTypes
    <2>1. served \in 0 .. MaxRequests /\ registry \subseteq Slugs /\ tx = [h \in Handlers |-> tx[h]]
      BY <1>2, RequestsBound, StartAssumption
    <2>2. \A h \in Handlers : tx[h] = Idle
      BY <1>2
    <2> QED
      BY <2>1, <2>2, IdleFields DEF RequestTypes
  <1>5. \A h \in Handlers : RequestInv(tx[h])
    BY <1>2, IdleRequest
  <1> QED
    BY <1>3, <1>4, <1>5 DEF CatalogInv

\* A request is taken: what is committed and what other handlers do stays.
Begins(h) ==
    /\ tx[h].phase = "idle" /\ tx'[h].phase = "open"
    /\ \A g \in Handlers \ {h} : tx'[g] = tx[g]
    /\ db' = db /\ registry' = registry

LEMMA RequestBegins ==
    ASSUME RequestTypes, NEW h \in Handlers, NEW kind, NEW src, NEW new, NEW w, Request(h, kind, src, new, w)
    PROVE  Begins(h)
  <1> DEFINE r == [Idle EXCEPT !.phase = "open", !.kind = kind, !.src = src, !.new = new, !.w = w]
  <1>1. r.phase = "open"
    BY DEF Idle
  <1>2. tx' = [tx EXCEPT ![h] = r] /\ tx[h].phase = "idle" /\ db' = db /\ registry' = registry
    BY DEF Request
  <1>3. DOMAIN tx = Handlers
    BY DEF RequestTypes
  <1> HIDE DEF r
  <1>4. tx'[h] = r /\ \A g \in Handlers \ {h} : tx'[g] = tx[g]
    BY <1>2, <1>3
  <1> QED
    BY <1>1, <1>2, <1>4 DEF Begins

Asks(h) ==
    \/ CreateCapability(h) \/ UpdateCapability(h) \/ DeleteCapability(h) \/ CreateAiGene(h)
    \/ UpdateAiGene(h) \/ DeleteAiGene(h) \/ AttachAiGeneToBaseClass(h) \/ AttachBaseClassAiGene(h)
    \/ DetachBaseClassAiGene(h) \/ AttachBaseClassCapability(h) \/ DetachBaseClassCapability(h)
    \/ CreateBaseClass(h) \/ RenameBaseClass(h) \/ DeleteBaseClass(h) \/ CloneBaseClass(h) \/ CreateEntity(h)
    \/ UpdateEntity(h) \/ DeleteEntity(h) \/ CloneEntity(h) \/ AttachEntityCapability(h)
    \/ DetachEntityCapability(h) \/ AttachEntityAiGene(h) \/ DetachEntityAiGene(h) \/ CreateInstance(h)
    \/ IntroduceEntity(h) \/ RestartInstance(h) \/ RefreshInstance(h) \/ DistillEntity(h) \/ ReapInstance(h)
    \/ PromoteUpdate(h) \/ PromoteFork(h) \/ TransmuteEntity(h) \/ CombineCapabilities(h)

LEMMA AsksKeeps ==
    ASSUME CatalogInv, NEW h \in Handlers, Asks(h)
    PROVE  CatalogInv'
  BY CreateCapabilityKeeps, UpdateCapabilityKeeps, DeleteCapabilityKeeps, CreateAiGeneKeeps,
     UpdateAiGeneKeeps, DeleteAiGeneKeeps, AttachAiGeneToBaseClassKeeps, AttachBaseClassAiGeneKeeps,
     DetachBaseClassAiGeneKeeps, AttachBaseClassCapabilityKeeps, DetachBaseClassCapabilityKeeps, CreateBaseClassKeeps,
     RenameBaseClassKeeps, DeleteBaseClassKeeps, CloneBaseClassKeeps, CreateEntityKeeps,
     UpdateEntityKeeps, DeleteEntityKeeps, CloneEntityKeeps, AttachEntityCapabilityKeeps,
     DetachEntityCapabilityKeeps, AttachEntityAiGeneKeeps, DetachEntityAiGeneKeeps, CreateInstanceKeeps,
     IntroduceEntityKeeps, RestartInstanceKeeps, RefreshInstanceKeeps, DistillEntityKeeps,
     ReapInstanceKeeps, PromoteUpdateKeeps, PromoteForkKeeps, TransmuteEntityKeeps,
     CombineCapabilitiesKeeps
     DEF Asks

LEMMA AsksBegins ==
    ASSUME RequestTypes, NEW h \in Handlers, Asks(h)
    PROVE  Begins(h)
  <1>1. CASE CreateCapability(h)
    BY <1>1, RequestBegins DEF CreateCapability
  <1>2. CASE UpdateCapability(h)
    BY <1>2, RequestBegins DEF UpdateCapability
  <1>3. CASE DeleteCapability(h)
    BY <1>3, RequestBegins DEF DeleteCapability
  <1>4. CASE CreateAiGene(h)
    BY <1>4, RequestBegins DEF CreateAiGene
  <1>5. CASE UpdateAiGene(h)
    BY <1>5, RequestBegins DEF UpdateAiGene
  <1>6. CASE DeleteAiGene(h)
    BY <1>6, RequestBegins DEF DeleteAiGene
  <1>7. CASE AttachAiGeneToBaseClass(h)
    BY <1>7, RequestBegins DEF AttachAiGeneToBaseClass
  <1>8. CASE AttachBaseClassAiGene(h)
    BY <1>8, RequestBegins DEF AttachBaseClassAiGene
  <1>9. CASE DetachBaseClassAiGene(h)
    BY <1>9, RequestBegins DEF DetachBaseClassAiGene
  <1>10. CASE AttachBaseClassCapability(h)
    BY <1>10, RequestBegins DEF AttachBaseClassCapability
  <1>11. CASE DetachBaseClassCapability(h)
    BY <1>11, RequestBegins DEF DetachBaseClassCapability
  <1>12. CASE CreateBaseClass(h)
    BY <1>12, RequestBegins DEF CreateBaseClass
  <1>13. CASE RenameBaseClass(h)
    BY <1>13, RequestBegins DEF RenameBaseClass
  <1>14. CASE DeleteBaseClass(h)
    BY <1>14, RequestBegins DEF DeleteBaseClass
  <1>15. CASE CloneBaseClass(h)
    BY <1>15, RequestBegins DEF CloneBaseClass
  <1>16. CASE CreateEntity(h)
    BY <1>16, RequestBegins DEF CreateEntity
  <1>17. CASE UpdateEntity(h)
    BY <1>17, RequestBegins DEF UpdateEntity
  <1>18. CASE DeleteEntity(h)
    BY <1>18, RequestBegins DEF DeleteEntity
  <1>19. CASE CloneEntity(h)
    BY <1>19, RequestBegins DEF CloneEntity
  <1>20. CASE AttachEntityCapability(h)
    BY <1>20, RequestBegins DEF AttachEntityCapability
  <1>21. CASE DetachEntityCapability(h)
    BY <1>21, RequestBegins DEF DetachEntityCapability
  <1>22. CASE AttachEntityAiGene(h)
    BY <1>22, RequestBegins DEF AttachEntityAiGene
  <1>23. CASE DetachEntityAiGene(h)
    BY <1>23, RequestBegins DEF DetachEntityAiGene
  <1>24. CASE CreateInstance(h)
    BY <1>24, RequestBegins DEF CreateInstance
  <1>25. CASE IntroduceEntity(h)
    BY <1>25, RequestBegins DEF IntroduceEntity
  <1>26. CASE RestartInstance(h)
    BY <1>26, RequestBegins DEF RestartInstance
  <1>27. CASE RefreshInstance(h)
    BY <1>27, RequestBegins DEF RefreshInstance
  <1>28. CASE DistillEntity(h)
    BY <1>28, RequestBegins DEF DistillEntity
  <1>29. CASE ReapInstance(h)
    BY <1>29, RequestBegins DEF ReapInstance
  <1>30. CASE PromoteUpdate(h)
    BY <1>30, RequestBegins DEF PromoteUpdate
  <1>31. CASE PromoteFork(h)
    BY <1>31, RequestBegins DEF PromoteFork
  <1>32. CASE TransmuteEntity(h)
    BY <1>32, RequestBegins DEF TransmuteEntity
  <1>33. CASE CombineCapabilities(h)
    BY <1>33, RequestBegins DEF CombineCapabilities
  <1> QED
    BY <1>1, <1>2, <1>3, <1>4, <1>5, <1>6, <1>7, <1>8, <1>9, <1>10, <1>11, <1>12, <1>13, <1>14, <1>15, <1>16, <1>17, <1>18, <1>19, <1>20, <1>21, <1>22, <1>23, <1>24, <1>25, <1>26, <1>27, <1>28, <1>29, <1>30, <1>31, <1>32, <1>33 DEF Asks

LEMMA CatalogSteps ==
    ASSUME CatalogInv, CatalogNext
    PROVE  \E h \in Handlers : Asks(h) \/ Commit(h) \/ Abort(h) \/ ReloadQuery(h) \/ ReloadStore(h)
  BY DEF CatalogNext, Asks

LEMMA CatalogStep == CatalogInv /\ [Next]_vars => CatalogInv'
  <1> SUFFICES ASSUME CatalogInv, [Next]_vars PROVE CatalogInv'
    OBVIOUS
  <1>1. CASE UNCHANGED catalogVars
    <2>1. db' = db /\ tx' = tx /\ registry' = registry /\ served' = served
      BY <1>1 DEF catalogVars
    <2>2. RequestTypes'
      BY <2>1 DEF CatalogInv, RequestTypes
    <2>3. \A h \in Handlers : RequestInv(tx[h])'
      BY <2>1 DEF CatalogInv, RequestInv
    <2> QED
      BY <2>1, <2>2, <2>3 DEF CatalogInv
  <1>2. CASE CatalogNext
    <2>1. PICK h \in Handlers : Asks(h) \/ Commit(h) \/ Abort(h) \/ ReloadQuery(h) \/ ReloadStore(h)
      BY <1>2, CatalogSteps
    <2> QED
      BY <2>1, AsksKeeps, CatalogCommitKeeps, AbortKeeps, ReloadQueryKeeps, ReloadStoreKeeps
  <1> QED
    BY <1>1, <1>2 DEF Next, vars, catalogVars

\* A request ends in its own commit, and that changes only what it writes.
LEMMA CommitsItself ==
    ASSUME CatalogInv, CatalogNext, NEW h \in Handlers, Commits(h)
    PROVE  tx[h].phase = "open" /\ db' = tx[h].w ++ db
  <1>1. tx[h].phase = "open" /\ tx'[h].phase # "open" /\ Unique(h)
    BY DEF Commits
  <1>2. DOMAIN tx = Handlers /\ "phase" \in DOMAIN tx[h]
    BY DEF CatalogInv, RequestTypes
  <1>3. PICK g \in Handlers : Asks(g) \/ Commit(g) \/ Abort(g) \/ ReloadQuery(g) \/ ReloadStore(g)
    BY CatalogSteps
  <1>4. CASE Asks(g)
    BY <1>1, <1>4, AsksBegins DEF CatalogInv, Begins
  <1>5. CASE Commit(g)
    <2>1. CASE g = h
      BY <1>1, <1>5, <2>1 DEF Commit
    <2>2. CASE g # h
      <3>1. tx'[h] = [tx[h] EXCEPT !.over = TRUE]
        BY <1>1, <1>5, <2>2 DEF Commit
      <3>2. tx'[h].phase = tx[h].phase
        BY <1>2, <3>1
      <3> QED
        BY <1>1, <3>2
    <2> QED
      BY <2>1, <2>2
  <1>6. CASE Abort(g)
    BY <1>1, <1>2, <1>6 DEF Abort
  <1>7. CASE ReloadQuery(g)
    <2>1. g # h
      BY <1>1, <1>7 DEF ReloadQuery
    <2>2. tx'[h] = tx[h]
      BY <1>2, <1>7, <2>1 DEF ReloadQuery
    <2> QED
      BY <1>1, <2>2
  <1>8. CASE ReloadStore(g)
    BY <1>1, <1>2, <1>8 DEF ReloadStore
  <1> QED
    BY <1>3, <1>4, <1>5, <1>6, <1>7, <1>8

LEMMA PromiseKept ==
    ASSUME CatalogInv, CatalogNext, NEW h \in Handlers, Commits(h), ~tx[h].over
    PROVE  /\ tx[h].kind \notin SilentKinds => Hashed(db', db)
           /\ Copied(tx[h].kind, tx[h].src, tx[h].new, db', db)
  <1>1. tx[h].phase = "open" /\ db' = tx[h].w ++ db
    BY CommitsItself
  <1>2. RequestInv(tx[h])
    BY DEF CatalogInv
  <1>3. Promise(tx[h].kind, tx[h].src, tx[h].new, tx[h].w, db)
    BY <1>1, <1>2 DEF RequestInv
  <1> QED
    BY <1>1, <1>3 DEF Promise

LEMMA AtMostOne ==
    ASSUME NEW S, \A x, y \in S : x = y
    PROVE  Cardinality(S) =< 1
  <1>1. CASE S = {}
    <2>1. Cardinality(S) = 0
      BY <1>1, FS_EmptySet
    <2> QED
      BY <2>1
  <1>2. CASE S # {}
    <2>1. PICK x : x \in S
      BY <1>2
    <2>2. S = {x}
      BY <2>1
    <2>3. Cardinality(S) = 1
      BY <2>2, FS_Singleton
    <2> QED
      BY <2>3
  <1> QED
    BY <1>1, <1>2

LEMMA CatalogTyped ==
    ASSUME CatalogInv
    PROVE  CatalogTypeOK
  <1>1. Table(db) /\ Consistent(db) /\ Linked(db, served) /\ RequestTypes
    BY DEF CatalogInv, Consistent
  <1>2. DOMAIN db = Cells /\ \A c \in Cells : db[c] \in Column(c)
    BY <1>1 DEF Table, Fits
  <1>3. ASSUME NEW c \in Cells
        PROVE  /\ c[1] \in {"elive", "blive", "glive", "ilive"} => db[c] \in {"none", "live", "gone"}
               /\ c[1] \in {"ecap", "bcap", "egene", "bgene", "mlive", "cerebellum"} => db[c] \in BOOLEAN
               /\ c[1] = "inline" => db[c] \subseteq Names
               /\ c[1] = "row" => db[c] \in 0 .. MaxRequests
               /\ c[1] \in {"slug", "preset"} => db[c] \in Slugs \cup {None}
    BY <1>2 DEF Column, Stages
  <1>4. ASSUME NEW c \in Cells, c[1] = "row" PROVE db[c] \in 0 .. served
    <2>1. PICK n \in Names : c = <<"row", n>>
      BY <1>4 DEF Cells
    <2>2. db[c] =< served
      BY <1>1, <2>1 DEF Linked
    <2>3. db[c] \in 0 .. MaxRequests /\ served \in Nat
      BY <1>1, <1>3, <1>4, RequestsBound DEF RequestTypes
    <2> QED
      BY <2>2, <2>3, RequestsBound
  <1>5. ASSUME NEW c \in Cells, c[1] = "runtime" PROVE db[c].reaped \subseteq Names
    <2>1. db[c] \in [reaped : SUBSET Names, config : Surfaces \cup {None}]
      BY <1>2, <1>5 DEF Column
    <2> QED
      BY <2>1
  <1>6. \A h \in Handlers : tx[h].phase \in {"idle", "open", "reload", "store"} /\ DOMAIN tx[h].w \subseteq Cells
    BY <1>1 DEF RequestTypes
  <1>7. registry \subseteq Slugs /\ served \in 0 .. MaxRequests
    BY <1>1 DEF RequestTypes
  <1>8. ASSUME NEW s \in Slugs PROVE Cardinality(BaseWithSlug(db, s)) =< 1
    <2>1. \A b, d \in BaseWithSlug(db, s) : b = d
      BY <1>1 DEF BaseWithSlug, Consistent
    <2> QED
      BY <2>1, AtMostOne
  <1> QED
    BY <1>2, <1>3, <1>4, <1>5, <1>6, <1>7, <1>8 DEF CatalogTypeOK

LEMMA DirectivesTyped ==
    ASSUME MessageInv
    PROVE  DirectivesTypeOK
  <1>1. MessageTypes
    BY DEF MessageInv
  <1>2. msg.phase \in {"none", "route", "deliver", "failed", "done"}
    BY <1>1 DEF MessageTypes, Messages
  <1>3. Len(msg.dirs) \in Nat /\ DOMAIN msg.dirs = 1 .. Len(msg.dirs)
    BY <1>1, DirsAreLists
  <1>4. ASSUME NEW x \in pending \cup committed \cup handed PROVE x.to \in Agents /\ x.dir \in DOMAIN msg.dirs
    <2>1. x \in Entries(1 .. msg.next - 1)
      BY <1>1 DEF MessageTypes, Routed
    <2>2. x.to \in Agents /\ x.dir \in 1 .. msg.next - 1
      BY <2>1 DEF Entries
    <2>3. msg.next \in 1 .. Len(msg.dirs) + 1
      BY <1>1 DEF MessageTypes
    <2> QED
      BY <1>3, <2>2, <2>3
  <1> QED
    BY <1>1, <1>2, <1>4 DEF MessageTypes, DirectivesTypeOK

LEMMA CerebellumIsOne ==
    ASSUME CatalogInv
    PROVE  OneCerebellum
  <1> DEFINE S == {e \in Of("elive", Entities) : db[<<"cerebellum", e>>]}
  <1>1. \A e, f \in S : e = f
    BY DEF CatalogInv, Consistent, Of
  <1>2. Cardinality(S) =< 1
    BY <1>1, AtMostOne
  <1> QED
    BY <1>2 DEF OneCerebellum

\* For any number of requests at once: the cells keep their columns, no live slug
\* belongs to two base classes and no namespace gets two cerebellums, although every
\* route checks before another one commits; and a message keeps its types.
THEOREM CatalogAlwaysConsistent == Spec => []CatalogConsistent
  <1>1. CatalogInv /\ MessageInv => CatalogConsistent
    BY CatalogTyped, DirectivesTyped, CerebellumIsOne DEF CatalogConsistent
  <1> QED
    BY <1>1, CatalogStart, CatalogStep, MessageStart, MessageStep, PTL DEF Spec

LEMMA HashFollowsStep ==
    ASSUME CatalogInv, CatalogNext
    PROVE  \A h \in Handlers :
             Commits(h) /\ ~tx[h].over /\ tx[h].kind \notin SilentKinds =>
               \A e \in Entities :
                  Live(db', "elive", e) /\ (Surface(db', e) # Surface(db, e) \/ ~Live(db, "elive", e))
                  => db'[<<"hash", e>>] = Surface(db', e)
  <1> SUFFICES ASSUME NEW h \in Handlers, Commits(h), ~tx[h].over, tx[h].kind \notin SilentKinds
               PROVE  \A e \in Entities :
                         Live(db', "elive", e) /\ (Surface(db', e) # Surface(db, e) \/ ~Live(db, "elive", e))
                         => db'[<<"hash", e>>] = Surface(db', e)
    OBVIOUS
  <1>1. Hashed(db', db)
    BY PromiseKept
  <1> QED
    BY <1>1 DEF Hashed

\* A step that takes no request to its commit
LEMMA NoCommits ==
    ASSUME UNCHANGED catalogVars, NEW h \in Handlers
    PROVE  ~Commits(h)
  BY DEF catalogVars, Commits

\* Whatever the surface reads (links, market rows, inline capabilities, genes of the
\* entity or of its base class, the prompt): a route that computes the hash leaves it
\* right for each live entity whose surface it changed, if no commit overlapped it.
THEOREM FingerprintAlwaysFollows == Spec => FingerprintFollows
  <1> DEFINE A == \A h \in Handlers :
                    Commits(h) /\ ~tx[h].over /\ tx[h].kind \notin SilentKinds =>
                      \A e \in Entities :
                         Live(db', "elive", e) /\ (Surface(db', e) # Surface(db, e) \/ ~Live(db, "elive", e))
                         => db'[<<"hash", e>>] = Surface(db', e)
  <1>1. CatalogInv /\ [Next]_vars => [A]_catalogVars
    BY HashFollowsStep DEF Next, vars
  <1>2. Spec => [][A]_catalogVars
    BY <1>1, CatalogStart, CatalogStep, PTL DEF Spec
  <1> QED
    BY <1>2 DEF FingerprintFollows

\* A clone of an entity or base class, a fork, a promoted entity and a transmuted base
\* class can do what they were copied from could, for every shape of links, genes and
\* market rows, if no commit overlapped the request; a new instance is not outdated.
THEOREM CopiesAlwaysFaithful == Spec => CopiesAreFaithful
  <1> DEFINE A == \A h \in Handlers : Commits(h) /\ ~tx[h].over => CopyMatches(h)
  <1>1. CatalogInv /\ CatalogNext => A
    <2> SUFFICES ASSUME CatalogInv, CatalogNext, NEW h \in Handlers, Commits(h), ~tx[h].over PROVE CopyMatches(h)
      OBVIOUS
    <2>1. Copied(tx[h].kind, tx[h].src, tx[h].new, db', db)
      BY PromiseKept
    <2> QED
      BY <2>1 DEF Copied, CopyMatches
  <1>2. CatalogInv /\ [Next]_vars => [A]_catalogVars
    <2>1. CASE UNCHANGED catalogVars
      BY <2>1
    <2>2. CASE CatalogInv /\ CatalogNext
      BY <1>1, <2>2
    <2> QED
      BY <2>1, <2>2 DEF Next, vars
  <1>3. Spec => [][A]_catalogVars
    BY <1>2, CatalogStart, CatalogStep, PTL DEF Spec
  <1> QED
    BY <1>3 DEF CopiesAreFaithful

\* What a request that leaves the base classes alone does to their slugs: nothing.
LEMMA SlugsLeft ==
    ASSUME Table(db), NEW w, Fits(w), LeavesBases(w)
    PROVE  SlugsOf(w ++ db) = SlugsOf(db)
  <1>1. ASSUME NEW b \in Bases
        PROVE  (w ++ db)[<<"blive", b>>] = db[<<"blive", b>>] /\ (w ++ db)[<<"slug", b>>] = db[<<"slug", b>>]
    <2>1. <<"blive", b>> \in Cells /\ <<"slug", b>> \in Cells
      BY DEF Cells
    <2>2. <<"blive", b>> \in DOMAIN db /\ <<"slug", b>> \in DOMAIN db
      BY <2>1 DEF Table
    <2> QED
      BY <2>2, OverLeft DEF LeavesBases
  <1> QED
    BY <1>1 DEF SlugsOf, Live

LEMMA RegistryStep ==
    ASSUME CatalogInv, CatalogNext, NEW h \in Handlers,
           tx[h].phase # "idle", tx'[h].phase = "idle", ~tx[h].over,
           registry = LiveSlugs \/ Reloads(tx[h].kind), tx[h].kind # "transmute"
    PROVE  registry' = LiveSlugs'
  <1>1. DOMAIN tx = Handlers /\ "phase" \in DOMAIN tx[h]
    BY DEF CatalogInv, RequestTypes
  <1>2. RequestInv(tx[h]) /\ Table(db)
    BY DEF CatalogInv, Consistent
  <1>3. LiveSlugs = SlugsOf(db) /\ LiveSlugs' = SlugsOf(db')
    BY DEF LiveSlugs, SlugsOf, Of
  <1>4. PICK g \in Handlers : Asks(g) \/ Commit(g) \/ Abort(g) \/ ReloadQuery(g) \/ ReloadStore(g)
    BY CatalogSteps
  <1>5. CASE Asks(g)
    BY <1>5, AsksBegins DEF CatalogInv, Begins
  <1>6. CASE Commit(g)
    <2>1. g = h
      <3>1. SUFFICES ASSUME g # h PROVE FALSE
        OBVIOUS
      <3>2. tx'[h] = [tx[h] EXCEPT !.over = TRUE]
        BY <1>6, <3>1 DEF Commit
      <3>3. tx'[h].phase = tx[h].phase
        BY <1>1, <3>2
      <3> QED
        BY <3>3
    <2>2. tx[h].phase = "open" /\ db' = tx[h].w ++ db /\ registry' = registry
      BY <1>6, <2>1 DEF Commit
    <2>3. ~Reloads(tx[h].kind)
      <3>1. SUFFICES ASSUME Reloads(tx[h].kind) PROVE FALSE
        OBVIOUS
      <3>2. tx'[h] = [tx[h] EXCEPT !.phase = "reload"]
        BY <1>6, <2>1, <3>1 DEF Commit
      <3>3. tx'[h].phase = "reload"
        BY <1>1, <3>2
      <3> QED
        BY <3>3
    <2>4. Fits(tx[h].w) /\ LeavesBases(tx[h].w)
      BY <1>2, <2>2, <2>3 DEF RequestInv, Sound, Reloads
    <2>5. SlugsOf(db') = SlugsOf(db)
      BY <1>2, <2>2, <2>4, SlugsLeft
    <2> QED
      BY <1>3, <2>2, <2>3, <2>5
  <1>7. CASE Abort(g)
    <2>1. g = h
      BY <1>1, <1>7 DEF Abort
    <2>2. tx[h].phase = "open" /\ db' = db /\ registry' = registry /\ Conflicts(tx[h].w, db)
      BY <1>7, <2>1, UniqueIsNoConflict DEF Abort
    <2>3. ~Reloads(tx[h].kind)
      BY <1>2, <2>2 DEF RequestInv, Promise
    <2> QED
      BY <1>3, <2>2, <2>3
  <1>8. CASE ReloadQuery(g)
    <2>1. g = h
      BY <1>1, <1>8 DEF ReloadQuery
    <2>2. tx' = [tx EXCEPT ![h].phase = "store", ![h].cache = LiveSlugs]
      BY <1>8, <2>1 DEF ReloadQuery
    <2>3. tx'[h].phase = "store"
      BY <1>1, <2>2
    <2> QED
      BY <2>3
  <1>9. CASE ReloadStore(g)
    <2>1. g = h
      BY <1>1, <1>9 DEF ReloadStore
    <2>2. tx[h].phase = "store" /\ db' = db /\ registry' = tx[h].cache
      BY <1>9, <2>1 DEF ReloadStore
    <2>3. tx[h].cache = SlugsOf(db)
      BY <1>2, <2>2 DEF RequestInv
    <2> QED
      BY <1>3, <2>2, <2>3
  <1> QED
    BY <1>4, <1>5, <1>6, <1>7, <1>8, <1>9

\* For any number of API handlers: a request that no commit overlapped ends with a
\* registry of exactly the slugs of the live base classes if it reloads the registry
\* or found it right, except transmute_entity, which makes a base class and does not.
THEOREM RegistryAlwaysFollows == Spec => RegistryFollows
  <1> DEFINE A == \A h \in Handlers :
                    /\ tx[h].phase # "idle" /\ tx'[h].phase = "idle" /\ ~tx[h].over
                    /\ registry = LiveSlugs \/ Reloads(tx[h].kind)
                    /\ tx[h].kind # "transmute"
                    => registry' = LiveSlugs'
  <1>1. CatalogInv /\ [Next]_vars => [A]_catalogVars
    BY RegistryStep DEF Next, vars
  <1>2. Spec => [][A]_catalogVars
    BY <1>1, CatalogStart, CatalogStep, PTL DEF Spec
  <1> QED
    BY <1>2 DEF RegistryFollows
=============================================================================
