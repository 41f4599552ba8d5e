--------------------------- MODULE LibraryHistory ---------------------------
(***************************************************************************)
(* Library with history variables that record, for each rescan in          *)
(* progress, what happened since it started. They only watch: HNext is     *)
(* Next of Library with an update of the history conjoined.                *)
(***************************************************************************)
EXTENDS Library

VARIABLES
    steady,    \* files that have not changed since the rescan started, in
               \* folders it has not failed to read
    alone,     \* since then nothing came from outside and nobody else wrote a row
    skipped    \* packages whose row had the mtime of its file at the start

history == <<steady, alone, skipped>>
hvars == <<disk, clock, rows, locks, pending, job, scan, ops, steady, alone, skipped>>

Matching == {g \in Packages : \E p \in Paths : /\ Manifest[p] = g /\ Exists(p)
                                               /\ rows[g] # NoRow /\ rows[g].stamp = disk[p].mtime}

Starts(s) == job[s].at = "idle" /\ job'[s].at = "list"
Runs(s) == job[s].at # "idle" /\ job'[s].at # "idle"
Acts(s) == job'[s] # job[s] \/ scan'[s] # scan[s]

HInit ==
    /\ Init
    /\ steady = [s \in Scanners |-> {}]
    /\ alone = [s \in Scanners |-> FALSE]
    /\ skipped = [s \in Scanners |-> {}]

Record ==
    /\ steady' = [s \in Scanners |->
         IF Starts(s) THEN {p \in Paths : Exists(p)}
         ELSE IF Runs(s) THEN {p \in steady[s] : /\ disk'[p] = disk[p]
                                                 /\ FolderOf[p] \in scan'[s].unlisted \/ p \in scan'[s].listed}
         ELSE {}]
    /\ alone' = [s \in Scanners |->
         \/ Starts(s)
         \/ Runs(s) /\ alone[s] /\ ops' = ops /\ (Acts(s) \/ rows' = rows)]
    /\ skipped' = [s \in Scanners |->
         IF Starts(s) THEN Matching ELSE IF Runs(s) THEN skipped[s] ELSE {}]

HNext == Next /\ Record
HSpec == HInit /\ [][HNext]_hvars

----------------------------------------------------------------------------
(* Properties *)

\* When a rescan is about to delete a game, no file that stayed where it was
\* throughout the rescan, in a folder the rescan could read, is a readable APK
\* of that game, whatever the watcher, other rescans and requests did to its
\* row meanwhile (the pruning loop of ScanAndImportMultiple).
SteadyGamesAreKept ==
    \A s \in Scanners : job[s].at = "drop" =>
        \A p \in steady[s] : Manifest[p] = job[s].game => disk[p].kind \notin Parsed

\* Nor does a rescan decide to delete a game whose row, as it reads it then,
\* records such a file, readable or not (the seenPaths guard of that loop).
RecordedFilesAreSpared ==
    [][\A s \in Scanners, p \in Paths :
          job[s].at = "prune" /\ job'[s].at = "drop" /\ p \in steady[s] =>
              rows[job'[s].game] = NoRow \/ rows[job'[s].game].path # p]_hvars

Ended(s) == job[s].at = "prune" /\ scan[s].doomed = {}

Files(g) == {p \in Paths : Manifest[p] = g /\ Exists(p)}

\* The row says of the file at p what a fresh import of it would say.
Agrees(g, p) ==
    /\ rows[g] # NoRow
    /\ rows[g].path = p
    /\ rows[g].corrupted = IsBad(disk[p])
    /\ rows[g].exposed = ~IsBad(disk[p])
    /\ disk[p].kind = "valid" => rows[g].ver = disk[p].ver

\* The rescan read every folder that has files.
SawAllFiles(s) == \A p \in Paths : Exists(p) => p \in scan[s].listed

\* A package whose file names spell it and that no other file is named after.
PlainlyNamed(g) == \A p \in Paths : Exists(p) => (FileName[p] = g <=> Manifest[p] = g)

\* A rescan that nobody disturbs leaves the table in agreement with the disk:
\* a game without a file has no row, or a corrupted one that is hidden, and a
\* game with one readable file is described by its row, unless the row already
\* carried the mtime of that file and was left alone. Of several sound files of
\* a game it settles on one and exposes the game.
QuietRescanReconciles ==
    \A s \in Scanners : Ended(s) /\ alone[s] /\ SawAllFiles(s) =>
        \A g \in Packages : PlainlyNamed(g) =>
            /\ Files(g) = {} => rows[g] = NoRow \/ (rows[g].corrupted /\ ~rows[g].exposed)
            /\ \A p \in Paths :
                  Files(g) = {p} /\ disk[p].kind \in Parsed => Agrees(g, p) \/ g \in skipped[s]
            /\ Files(g) # {} /\ (\A p \in Files(g) : disk[p].kind = "valid") /\ g \notin skipped[s]
               => rows[g] # NoRow /\ rows[g].path \in Files(g) /\ rows[g].exposed /\ ~rows[g].corrupted
=============================================================================
