---------------------------- MODULE GameArchive ----------------------------
(***************************************************************************)
(* The split 7z archive of one game: the directory games/{hash} with its   *)
(* numbered parts and the marker .archive.json, written by generators (the *)
(* sweep at startup and a goroutine for each import the watcher handles,   *)
(* none of which excludes another) and removed when a rescan deletes the   *)
(* game. The directory survives a crash, the generators do not.            *)
(*                                                                         *)
(* 7z is external: it writes the parts one after the other under their     *)
(* final names, overwrites what it finds or fails, and finishes the first  *)
(* part last, so a part is whole once 7z has ended. It dies with the       *)
(* server. Contents are the version of the APK that was packed. Every call  *)
(* that touches the directory may fail; a marker cut short is none, as     *)
(* GameArchiveUpToDate cannot read it.                                     *)
(***************************************************************************)
EXTENDS Naturals, FiniteSets

CONSTANTS
    Generators,
    Versions,       \* versions of the APK; 0 is a missing file
    PartsOf,        \* how many parts the archive of a version has
    MaxParts,
    Passwords,      \* archive passwords
    MaxOps,         \* bound on what comes from outside
    NoPart, NoMarker, NoRow, Quiet

ASSUME ArchiveAssumption ==
    /\ Versions \subseteq Nat \ {0}
    /\ MaxParts \in Nat
    /\ PartsOf \in [Versions -> 1..MaxParts]
    /\ MaxOps \in Nat

VARIABLES
    row,        \* the game's row: its version and whether it is archivable
    apk,        \* the version of the file at apk_path
    password,   \* archive_password of config.toml
    secret,     \* the password the process captured at startup
    made,       \* whether the directory exists
    parts, marker,
    gen,        \* what each generator is doing
    purge,      \* the entries RemoveGameArchiveAll has still to remove, or Quiet
    ops,
    overlapped, \* history: two generators, or a generator and a removal, have
                \* been at work in the directory at once
    broken      \* history: since a generator last entered, the server was
                \* restarted or an entry could not be removed

vars == <<row, apk, password, secret, made, parts, marker, gen, purge, ops, overlapped, broken>>

Numbers == 1..MaxParts
Part == [src : Versions, pw : Passwords, by : Generators, whole : BOOLEAN]
Marker == [pw : Passwords, ver : Versions, parts : Numbers]
Row == [ver : Versions, live : BOOLEAN]

ASSUME NullAssumption == NoPart \notin Part /\ \A entries \in SUBSET (Numbers \cup {0}) : entries # Quiet

Stages == {"idle", "parts", "marker", "enter", "clean", "stage", "pack", "abandon", "count", "mark"}
Gen == [at : Stages, ver : Versions \cup {0}, src : Versions \cup {0},
        todo : SUBSET Numbers, next : 1..(MaxParts + 1), n : 0..MaxParts]
Idle == [at |-> "idle", ver |-> 0, src |-> 0, todo |-> {}, next |-> 1, n |-> 0]

\* Parts, marker and the locals of every generator keep their types; in
\* particular the marker records at least one part (GenerateGameArchive).
TypeOK ==
    /\ row \in Row \cup {NoRow}
    /\ apk \in Versions \cup {0}
    /\ password \in Passwords /\ secret \in Passwords
    /\ made \in BOOLEAN
    /\ parts \in [Numbers -> Part \cup {NoPart}]
    /\ marker \in Marker \cup {NoMarker}
    /\ gen \in [Generators -> Gen]
    /\ purge \in (SUBSET (Numbers \cup {0})) \cup {Quiet}
    /\ ops \in Nat
    /\ overlapped \in BOOLEAN /\ broken \in BOOLEAN

Init ==
    /\ row = NoRow /\ apk = 0
    /\ password \in Passwords /\ secret = password
    /\ made = FALSE
    /\ parts = [i \in Numbers |-> NoPart]
    /\ marker = NoMarker
    /\ gen = [x \in Generators |-> Idle]
    /\ purge = Quiet
    /\ ops = 0
    /\ overlapped = FALSE /\ broken = FALSE

\* GameArchiveParts: the numbers found in the directory.
OnDisk == {i \in Numbers : parts[i] # NoPart}

Becomes(x, g) == gen' = [gen EXCEPT ![x] = g]
Goto(x, stage) == Becomes(x, [gen[x] EXCEPT !.at = stage])

library == <<row, apk, password, secret, ops>>
files == <<made, parts, marker>>
history == <<overlapped, broken>>

----------------------------------------------------------------------------
(* EnsureArchive and GenerateGameArchive *)

\* archivable: the row is read here, long before the archive for a sweep.
Begin(x) ==
    /\ gen[x].at = "idle"
    /\ row # NoRow
    /\ row.live
    /\ Becomes(x, [Idle EXCEPT !.at = "parts", !.ver = row.ver])
    /\ UNCHANGED <<library, files, purge, history>>

\* GameArchiveUpToDate lists the parts and then reads the marker.
CheckParts(x) ==
    /\ gen[x].at = "parts"
    /\ Becomes(x, [gen[x] EXCEPT !.at = "marker", !.n = Cardinality(OnDisk)])
    /\ UNCHANGED <<library, files, purge, history>>

\* Mutant: the number of parts is not compared.
AgreesButParts(v, n) == n > 0 /\ marker # NoMarker /\ marker.pw = secret /\ marker.ver = v

\* Mutant: the password is not compared.
AgreesButPassword(v, n) == n > 0 /\ marker # NoMarker /\ marker.ver = v /\ marker.parts = n

Agrees(v, n) ==
    n > 0 /\ marker # NoMarker /\ marker.pw = secret /\ marker.ver = v /\ marker.parts = n

CheckMarker(x) ==
    /\ gen[x].at = "marker"
    /\ IF Agrees(gen[x].ver, gen[x].n) THEN Becomes(x, Idle)
                                   ELSE Becomes(x, [gen[x] EXCEPT !.at = "enter", !.n = 0])
    /\ UNCHANGED <<library, files, purge, history>>

\* Generators that may write, and the removal.
Busy == {x \in Generators : gen[x].at \notin {"idle", "parts", "marker", "enter"}}

Enter(x) ==
    /\ gen[x].at = "enter"
    /\ made' = TRUE
    /\ Becomes(x, [gen[x] EXCEPT !.at = "clean", !.todo = OnDisk])
    /\ overlapped' = (overlapped \/ Busy # {} \/ purge # Quiet)
    /\ broken' = FALSE
    /\ UNCHANGED <<library, parts, marker, purge>>

\* RemoveGameArchive, before 7z runs and after it failed: the parts that were
\* listed in the order of their numbers, and then the marker.
RemovePart(x) ==
    LET todo == gen[x].todo  i == CHOOSE j \in todo : \A k \in todo : j <= k IN
    /\ gen[x].at \in {"clean", "abandon"}
    /\ todo # {}
    /\ parts' = [parts EXCEPT ![i] = NoPart]
    /\ Becomes(x, [gen[x] EXCEPT !.todo = todo \ {i}])
    /\ UNCHANGED <<library, made, marker, purge, history>>

RemoveMarker(x) ==
    /\ gen[x].at \in {"clean", "abandon"}
    /\ gen[x].todo = {}
    /\ marker' = NoMarker
    /\ IF gen[x].at = "clean" THEN Goto(x, "stage") ELSE Becomes(x, Idle)
    /\ UNCHANGED <<library, made, parts, purge, history>>

\* The listing or a removal fails: the rest stays. Before 7z that ends the
\* generation, after a failed 7z the error is discarded.
RemoveFail(x) ==
    /\ gen[x].at \in {"clean", "abandon"}
    /\ Becomes(x, Idle)
    /\ broken' = TRUE
    /\ UNCHANGED <<library, files, purge, overlapped>>

\* The APK is linked or copied into a staging directory.
Stage(x) ==
    /\ gen[x].at = "stage"
    /\ IF made /\ apk # 0 THEN Becomes(x, [gen[x] EXCEPT !.at = "pack", !.src = apk])
                          ELSE Becomes(x, Idle)
    /\ UNCHANGED <<library, files, purge, history>>

PackPart(x) ==
    /\ gen[x].at = "pack"
    /\ made
    /\ gen[x].next <= PartsOf[gen[x].src]
    /\ parts' = [parts EXCEPT ![gen[x].next] =
                    [src |-> gen[x].src, pw |-> secret, by |-> x, whole |-> FALSE]]
    /\ Becomes(x, [gen[x] EXCEPT !.next = @ + 1])
    /\ UNCHANGED <<library, made, marker, purge, history>>

PackEnd(x) ==
    /\ gen[x].at = "pack"
    /\ gen[x].next > PartsOf[gen[x].src]
    /\ parts' = [i \in Numbers |-> IF i \in OnDisk /\ parts[i].by = x
                                   THEN [parts[i] EXCEPT !.whole = TRUE] ELSE parts[i]]
    /\ Goto(x, "count")
    /\ UNCHANGED <<library, made, marker, purge, history>>

\* Mutant: what a failed 7z leaves behind stays.
PackFailKeeps(x) ==
    /\ gen[x].at = "pack"
    /\ Becomes(x, Idle)
    /\ UNCHANGED <<library, files, purge, history>>

\* 7z fails, or is killed when 30 minutes are over.
PackFail(x) ==
    /\ gen[x].at = "pack"
    /\ Becomes(x, [gen[x] EXCEPT !.at = "abandon", !.todo = OnDisk])
    /\ UNCHANGED <<library, files, purge, history>>

\* No part at all is an error even if 7z reported success.
Count(x) ==
    /\ gen[x].at = "count"
    /\ Becomes(x, IF OnDisk = {} THEN Idle
                  ELSE [gen[x] EXCEPT !.at = "mark", !.n = Cardinality(OnDisk)])
    /\ UNCHANGED <<library, files, purge, history>>

Mark(x) ==
    /\ gen[x].at = "mark"
    /\ marker' = IF made THEN [pw |-> secret, ver |-> gen[x].ver, parts |-> gen[x].n] ELSE marker
    /\ Becomes(x, Idle)
    /\ UNCHANGED <<library, made, parts, purge, history>>

\* Writing the marker fails after the file was truncated.
MarkCut(x) ==
    /\ gen[x].at = "mark"
    /\ made
    /\ marker' = NoMarker
    /\ Becomes(x, Idle)
    /\ UNCHANGED <<library, made, parts, purge, history>>

\* Making the directory, staging the inputs, finding 7z, listing the parts or
\* opening the marker fails: the directory is left as it is.
GiveUp(x) ==
    /\ gen[x].at \in {"enter", "stage", "count", "mark"}
    /\ Becomes(x, Idle)
    /\ UNCHANGED <<library, files, purge, history>>

Generate(x) ==
    \/ Begin(x) \/ CheckParts(x) \/ CheckMarker(x) \/ Enter(x)
    \/ RemovePart(x) \/ RemoveMarker(x) \/ RemoveFail(x) \/ Stage(x)
    \/ PackPart(x) \/ PackEnd(x) \/ PackFail(x) \/ Count(x)
    \/ Mark(x) \/ MarkCut(x) \/ GiveUp(x)

----------------------------------------------------------------------------
(* The game's row, its file, the configuration and the server. *)

Outside == ops < MaxOps /\ ops' = ops + 1

\* An import, a revalidation, the toggle: what Library does to the row.
WriteRow(v, live) ==
    /\ Outside
    /\ row' = [ver |-> v, live |-> live]
    /\ UNCHANGED <<apk, password, secret, files, gen, purge, history>>

ReplaceApk(v) ==
    /\ Outside
    /\ apk' = v
    /\ UNCHANGED <<row, password, secret, files, gen, purge, history>>

\* The delete request: the directory stays.
DeleteRow ==
    /\ row # NoRow
    /\ Outside
    /\ row' = NoRow
    /\ UNCHANGED <<apk, password, secret, files, gen, purge, history>>

\* DeleteGameByPackage: the row goes first, then the directory. os.RemoveAll
\* lists the entries, removes them in any order (0 is the marker), goes on
\* when one cannot be removed, and fails on the directory if one is left.
Prune ==
    /\ row # NoRow
    /\ purge = Quiet
    /\ Outside
    /\ row' = NoRow
    /\ purge' = OnDisk \cup (IF marker = NoMarker THEN {} ELSE {0})
    /\ overlapped' = (overlapped \/ Busy # {})
    /\ UNCHANGED <<apk, password, secret, files, gen, broken>>

PurgeEntry(i) ==
    /\ purge # Quiet
    /\ i \in purge
    /\ purge' = purge \ {i}
    /\ IF i = 0 THEN marker' = NoMarker /\ UNCHANGED parts
                ELSE parts' = [parts EXCEPT ![i] = NoPart] /\ UNCHANGED marker
    /\ UNCHANGED <<library, made, gen, history>>

\* os.RemoveAll keeps the error for its result, which is only logged.
PurgeKeeps(i) ==
    /\ purge # Quiet
    /\ i \in purge
    /\ purge' = purge \ {i}
    /\ broken' = TRUE
    /\ UNCHANGED <<library, files, gen, overlapped>>

PurgeDirectory ==
    /\ purge = {}
    /\ purge' = Quiet
    /\ made' = (OnDisk # {} \/ marker # NoMarker)
    /\ UNCHANGED <<library, parts, marker, gen, history>>

\* Saving the configuration: the running process keeps what it captured.
SetPassword(p) ==
    /\ Outside
    /\ password' = p
    /\ UNCHANGED <<row, apk, secret, files, gen, purge, history>>

Crash ==
    /\ Outside
    /\ secret' = password
    /\ gen' = [x \in Generators |-> Idle]
    /\ purge' = Quiet
    /\ broken' = TRUE
    /\ UNCHANGED <<row, apk, password, files, overlapped>>

Environment ==
    \/ \E v \in Versions, live \in BOOLEAN : WriteRow(v, live)
    \/ \E v \in Versions \cup {0} : ReplaceApk(v)
    \/ \E p \in Passwords : SetPassword(p)
    \/ DeleteRow \/ Crash

Purge ==
    \/ Prune \/ PurgeDirectory
    \/ \E i \in Numbers \cup {0} : PurgeEntry(i) \/ PurgeKeeps(i)

Next == Environment \/ Purge \/ \E x \in Generators : Generate(x)

Spec == Init /\ [][Next]_vars

----------------------------------------------------------------------------
(* Properties *)

\* What GameArchiveUpToDate would say of version v now.
UpToDate(v) == Agrees(v, Cardinality(OnDisk))

\* The parts on disk are one finished archive.
Whole ==
    \E v \in Versions :
        /\ OnDisk = 1..PartsOf[v]
        /\ \A i \in OnDisk : parts[i].whole /\ parts[i].src = v /\ parts[i].pw = parts[1].pw

\* An archive that counts as up to date is wholly encrypted with the password
\* the running process packs with, whatever overlapped, failed or was changed
\* in the configuration in between: a part under another password can only lie
\* beside a marker that GameArchiveUpToDate refuses.
UpToDateMeansPassword ==
    \A v \in Versions : UpToDate(v) => \A i \in OnDisk : parts[i].pw = secret

\* An archive that counts as up to date is one finished archive, across
\* crashes at any step, as long as whoever worked in the directory had it to
\* itself (the number of parts is compared, and the marker is written last).
UpToDateMeansWhole ==
    ~overlapped => \A v \in Versions : UpToDate(v) => Whole

\* Once the generators are done, no half-written part and no part of an
\* archive is left to be served, whether 7z succeeded, failed or was killed and
\* whichever step of the generation failed, with two exceptions: the server
\* was restarted in between, or os.Remove failed on an entry. The second one
\* the code accepts: RemoveGameArchive stops at the error, which ends the
\* generation before 7z and is discarded after it.
NothingHalfIsLeft ==
    Busy = {} /\ ~overlapped /\ ~broken /\ purge = Quiet => OnDisk = {} \/ Whole
=============================================================================
