-------------------------------- MODULE Update --------------------------------
(***************************************************************************)
(* The server replacing itself: the checker that asks GitHub for the       *)
(* newest release, the admin's apply, reset and restart requests with      *)
(* their four-state machine, the goroutines that download and install (one *)
(* per request, one per check that applies by itself; each works through   *)
(* an Applicator of its own, so their mutexes exclude nobody), the files   *)
(* beside the executable, crashes, and what the next start finds.          *)
(*                                                                         *)
(* Releases are numbered from 1, the one installed first. A file is the    *)
(* release it holds and who is still writing it; a file that was           *)
(* abandoned half written is Torn. Names are numbered: 0 is the installed  *)
(* executable, and the binary called k is renamed to k + 1 (.old appended  *)
(* on Unix, .updating on Windows) before another one takes its name.       *)
(* os.Executable is external: it gives the path the process was started    *)
(* from, except on Linux, where it reads /proc/self/exe, which follows     *)
(* the renames of the running binary and keeps its last name when it is    *)
(* replaced. What ends in a failure whatever the reason (download,         *)
(* validation, magic bytes, disk) is one failure.                          *)
(* On macOS nothing gets past the check of the magic bytes, which expects  *)
(* an ELF file, so it is no host here.                                     *)
(* Left out: backups, downloaded archives, the flag file, which decides    *)
(* nothing, and the branch of CheckPendingUpdate for a missing executable, *)
(* which nobody can run when the executable is missing.                    *)
(***************************************************************************)
EXTENDS Naturals

CONSTANTS
    Hosts,          \* platforms and settings the server may run with
    Appliers,       \* room for goroutines that apply an update
    MaxVersion,     \* bound on the releases
    MaxName,        \* bound on the names the binary goes through
    MaxResets,      \* bound on the running applies reset per process
    Sound, Torn,    \* nobody writes the file: it is whole, or was given up
    NoApplier

ASSUME UpdateAssumption ==
    /\ MaxVersion \in Nat \ {0} /\ MaxName \in Nat \ {0} /\ MaxResets \in Nat
    /\ Sound \notin Appliers /\ Torn \notin Appliers /\ NoApplier \notin Appliers
    /\ Sound # Torn

Releases == 1 .. MaxVersion
Names == 0 .. MaxName
Down == 0
Absent == [v |-> 0, by |-> Sound]
File == {Absent} \cup [v : Releases, by : Appliers \cup {Sound, Torn}]
Whole(f) == f # Absent /\ f.by = Sound

ASSUME HostAssumption ==
    Hosts \subseteq [os : {"linux", "windows"}, copies : BOOLEAN,
                     autoApply : BOOLEAN, autoRestart : BOOLEAN]

\* copies: the new binary is copied into place, as on Windows and when the data
\* directory is on another file system than the executable.

VARIABLES
    host,       \* platform and settings, fixed
    latest,     \* the newest release on GitHub
    running,    \* the release the process was started from
    serving,    \* whether the listener is open
    state,      \* UpdateHandler.state
    cancel,     \* UpdateHandler.applyCancel
    reset,      \* what a reset request has done so far
    quitting,   \* a restart request is on its way to TriggerRestart
    etag,       \* the release whose headers the checker holds
    result,     \* Checker.lastResult
    work,       \* what each goroutine is doing
    name,         \* the binary under each name
    image,        \* the name of the running binary, and whether it was replaced
    tmp, staged,  \* updates/<binary>.tmp and updates/<binary> of each release
    resets,       \* history: how many running applies were reset since the start
    overlapped,   \* history: two goroutines have worked on the files at once
    broken        \* history: the previous binary could not be put back

files == <<name, image, tmp, staged>>
memory == <<state, cancel, reset, quitting, etag, result, work, resets>>
history == <<overlapped, broken>>
vars == <<host, latest, running, serving, memory, files, history>>

States == {"idle", "running", "failed", "pending"}
Working == {"copying", "staged", "moved", "filling", "restart"}
Stages == {"none", "claimed", "chosen", "begin", "failed", "pending", "closing"} \cup Working
Worker == [at : Stages, by : {"operator", "auto"}, v : 0 .. MaxVersion, base : Names, cancelled : BOOLEAN]
Free == [at |-> "none", by |-> "operator", v |-> 0, base |-> 0, cancelled |-> FALSE]

\* What the checker says: the newer release it has a download of, and whether
\* that one is installed and waits for a restart.
Result == [v : 0 .. MaxVersion, pending : BOOLEAN]
NoResult == [v |-> 0, pending |-> FALSE]

TypeOK ==
    /\ host \in Hosts
    /\ latest \in Releases
    /\ running \in 0 .. MaxVersion
    /\ serving \in BOOLEAN
    /\ state \in States
    /\ cancel \in Appliers \cup {NoApplier}
    /\ reset \in {"none", "seen", "cancelled"}
    /\ quitting \in BOOLEAN
    /\ etag \in 0 .. MaxVersion
    /\ result \in Result
    /\ work \in [Appliers -> Worker]
    /\ name \in [Names -> File]
    /\ image \in [at : Names, gone : BOOLEAN]
    /\ tmp \in [Releases -> File] /\ staged \in [Releases -> File]
    /\ resets \in 0 .. MaxResets /\ overlapped \in BOOLEAN /\ broken \in BOOLEAN

Up == running # Down

\* getExePath
Path == IF host.os = "linux" THEN image.at ELSE 0

Init ==
    /\ host \in Hosts
    /\ latest = 1 /\ running = Down /\ serving = FALSE
    /\ state = "idle" /\ cancel = NoApplier /\ reset = "none" /\ quitting = FALSE
    /\ etag = 0 /\ result = NoResult
    /\ work = [a \in Appliers |-> Free]
    /\ resets = 0
    /\ name = [k \in Names |-> IF k = 0 THEN [v |-> 1, by |-> Sound] ELSE Absent]
    /\ image = [at |-> 0, gone |-> FALSE]
    /\ tmp = [r \in Releases |-> Absent] /\ staged = tmp
    /\ overlapped = FALSE /\ broken = FALSE

----------------------------------------------------------------------------
(* The process. A new process image starts with empty memory, and nothing  *)
(* that is left in updates/ is read before it is written over.             *)

Forgets ==
    /\ state' = "idle" /\ cancel' = NoApplier /\ reset' = "none" /\ quitting' = FALSE
    /\ etag' = 0 /\ result' = NoResult
    /\ work' = [a \in Appliers |-> Free]
    /\ resets' = 0
    /\ tmp' = [r \in Releases |-> Absent] /\ staged' = tmp'

GivenUp(f) == IF f.by \in Appliers THEN [f EXCEPT !.by = Torn] ELSE f
Left == [k \in Names |-> GivenUp(name[k])]

\* A locked file may stay, or is moved aside to be removed later.
RemovesOld(k) == {Left, [j \in Names |-> IF j = k + 1 THEN Absent ELSE Left[j]]}

\* CheckPendingUpdate
Starts(k) ==
    /\ Whole(name[k])
    /\ running' = name[k].v /\ serving' = TRUE
    /\ Forgets
    /\ name' \in RemovesOld(k)
    /\ image' = [at |-> k, gone |-> FALSE]
    /\ UNCHANGED <<host, latest, history>>

Dies ==
    /\ running' = Down /\ serving' = FALSE
    /\ Forgets
    /\ name' = Left
    /\ image' = [at |-> 0, gone |-> FALSE]
    /\ UNCHANGED <<host, latest, history>>

\* Whoever starts the server starts the installed executable.
Boot == ~Up /\ Starts(0)

Crash == Up /\ Dies

----------------------------------------------------------------------------
(* The checker. *)

Publish ==
    /\ latest < MaxVersion
    /\ latest' = latest + 1
    /\ UNCHANGED <<host, running, serving, memory, files, history>>

\* No answer, an error status, or a body that cannot be read: the headers of
\* an answer are kept all the same.
CheckFails ==
    /\ Up
    /\ result' = NoResult
    /\ etag' \in {etag, latest}
    /\ UNCHANGED <<host, latest, running, serving, state, cancel, reset, quitting, work,
                   resets, files, history>>

CheckNotModified ==
    /\ Up
    /\ etag = latest
    /\ result' = NoResult
    /\ UNCHANGED <<host, latest, running, serving, state, cancel, reset, quitting, etag, work,
                   resets, files, history>>

\* Mutant: a release that is not older counts as newer.
CheckFindsSame ==
    /\ Up
    /\ etag # latest
    /\ etag' = latest
    /\ result' = [v |-> latest, pending |-> FALSE]
    /\ IF host.autoApply
       THEN \E a \in Appliers :
              /\ work[a].at = "none"
              /\ work' = [work EXCEPT ![a] =
                    [Free EXCEPT !.at = "begin", !.by = "auto", !.v = latest]]
       ELSE work' = work
    /\ UNCHANGED <<host, latest, running, serving, state, cancel, reset, quitting,
                   resets, files, history>>

\* A release may lack an asset for this platform. With auto_apply the check
\* starts a goroutine, whatever the admin's state machine says.
CheckFinds ==
    /\ Up
    /\ etag # latest
    /\ etag' = latest
    /\ \E asset \in BOOLEAN :
        /\ result' = IF asset /\ latest > running
                     THEN [v |-> latest, pending |-> FALSE] ELSE NoResult
        /\ IF host.autoApply /\ result' # NoResult
           THEN \E a \in Appliers :
                  /\ work[a].at = "none"
                  /\ work' = [work EXCEPT ![a] =
                        [Free EXCEPT !.at = "begin", !.by = "auto", !.v = latest]]
           ELSE work' = work
    /\ UNCHANGED <<host, latest, running, serving, state, cancel, reset, quitting,
                   resets, files, history>>

----------------------------------------------------------------------------
(* The requests. A handler can only be reached while the listener is open. *)

Goto(a, stage) == work' = [work EXCEPT ![a].at = stage]
UpdateHandlerKept == UNCHANGED <<host, latest, running, serving, reset, quitting, etag>>

Claim(a) ==
    /\ Up /\ serving
    /\ work[a].at = "none"
    /\ state = "idle"
    /\ state' = "running"
    /\ work' = [work EXCEPT ![a] = [Free EXCEPT !.at = "claimed"]]
    /\ UpdateHandlerKept /\ UNCHANGED <<cancel, result, resets, files, history>>

\* The compare-and-swap of a transition: no effect when the state has moved on.
Swapped(from, to) == state' = IF state = from THEN to ELSE state

Choose(a) ==
    /\ work[a].at = "claimed"
    /\ \/ /\ result = NoResult
          /\ Swapped("running", "idle")
          /\ Goto(a, "none")
       \/ /\ result # NoResult
          /\ state' = state
          /\ work' = [work EXCEPT ![a].at = "chosen", ![a].v = result.v]
    /\ UpdateHandlerKept /\ UNCHANGED <<cancel, result, resets, files, history>>

Launch(a) ==
    /\ work[a].at = "chosen"
    /\ cancel' = a
    /\ Goto(a, "begin")
    /\ UpdateHandlerKept /\ UNCHANGED <<state, result, resets, files, history>>

\* Mutant: a running apply is put back to idle like a failed one.
ResetAny ==
    /\ Up /\ serving
    /\ state \in {"failed", "running"}
    /\ state' = "idle"
    /\ UpdateHandlerKept /\ UNCHANGED <<cancel, result, work, resets, files, history>>

ResetFailed ==
    /\ Up /\ serving
    /\ state = "failed"
    /\ state' = "idle"
    /\ UpdateHandlerKept /\ UNCHANGED <<cancel, result, work, resets, files, history>>

ResetKept == UNCHANGED <<host, latest, running, serving, quitting, etag, cancel, result, files, history>>

ResetSees ==
    /\ Up /\ serving
    /\ reset = "none" /\ resets < MaxResets
    /\ state = "running"
    /\ reset' = "seen"
    /\ ResetKept /\ UNCHANGED <<state, work, resets>>

ResetCancels ==
    /\ reset = "seen"
    /\ reset' = "cancelled"
    /\ work' = IF cancel = NoApplier THEN work ELSE [work EXCEPT ![cancel].cancelled = TRUE]
    /\ ResetKept /\ UNCHANGED <<state, resets>>

ResetEnds ==
    /\ reset = "cancelled"
    /\ reset' = "none"
    /\ Swapped("running", "failed")
    /\ resets' = IF state = "running" THEN resets + 1 ELSE resets
    /\ ResetKept /\ UNCHANGED work

\* What the status says, and what a restart request goes by.
RestartPending == state = "pending" \/ result.pending

\* TriggerRestart. ShutdownFn closes the listener before the process is replaced.
RestartRequest ==
    /\ Up /\ serving
    /\ RestartPending
    /\ serving' = FALSE /\ quitting' = TRUE
    /\ UNCHANGED <<host, latest, running, state, cancel, reset, etag, result, work, resets,
                   files, history>>

Reexec == quitting /\ Starts(Path)

ReexecFails ==
    /\ quitting
    /\ ~Whole(name[Path])
    /\ quitting' = FALSE
    /\ UNCHANGED <<host, latest, running, serving, state, cancel, reset, etag, result, work,
                   resets, files, history>>

----------------------------------------------------------------------------
(* DownloadAndApply. *)

Worked == UNCHANGED <<host, latest, running, serving, state, cancel, reset, quitting, etag,
                      result, resets>>

Overlap(a) ==
    overlapped' = (overlapped \/ \E b \in Appliers \ {a} : work[b].at \in Working)

\* Backup, download, validation; then the binary is opened for writing under
\* a name that depends on the release only, and truncated if it exists.
Unpack(a) ==
    /\ work[a].at = "begin" /\ ~work[a].cancelled
    /\ tmp' = [tmp EXCEPT ![work[a].v] = [v |-> work[a].v, by |-> a]]
    /\ Goto(a, "copying")
    /\ Overlap(a)
    /\ Worked /\ UNCHANGED <<name, image, staged, broken>>

\* Wherever the file a was writing is by now, it ends as mark.
Ends(f, a, mark) == IF f.by = a THEN [f EXCEPT !.by = mark] ELSE f
EndsAll(fs, a, mark) == [k \in DOMAIN fs |-> Ends(fs[k], a, mark)]

\* The copy is complete, and renamed to the name it is installed from.
Stage(a) ==
    LET v == work[a].v  t == EndsAll(tmp, a, Sound) IN
    /\ work[a].at = "copying"
    /\ t[v] # Absent
    /\ name' = EndsAll(name, a, Sound)
    /\ tmp' = [t EXCEPT ![v] = Absent]
    /\ staged' = [EndsAll(staged, a, Sound) EXCEPT ![v] = t[v]]
    /\ Goto(a, "staged")
    /\ Worked /\ UNCHANGED <<image, history>>

\* What /proc/self/exe says once one file was renamed over another.
Follows(i, j, over) ==
    image' = IF image.gone THEN image
             ELSE IF image.at = i THEN [image EXCEPT !.at = j]
             ELSE [image EXCEPT !.gone = image.at = j /\ over # Absent]

\* Mutant: the previous binary is removed instead of renamed.
RemoveOld(a) ==
    /\ work[a].at = "staged" /\ ~work[a].cancelled
    /\ name[Path] # Absent
    /\ name' = [name EXCEPT ![Path] = Absent]
    /\ work' = [work EXCEPT ![a].at = "moved", ![a].base = Path]
    /\ Worked /\ UNCHANGED <<image, tmp, staged, history>>

MoveAside(a) ==
    LET k == Path IN
    /\ work[a].at = "staged" /\ ~work[a].cancelled
    /\ name[k] # Absent /\ k < MaxName
    /\ name' = [name EXCEPT ![k + 1] = name[k], ![k] = Absent]
    /\ Follows(k, k + 1, name[k + 1])
    /\ work' = [work EXCEPT ![a].at = "moved", ![a].base = k]
    /\ Worked /\ UNCHANGED <<tmp, staged, history>>

Outcome == IF host.autoRestart THEN "restart" ELSE "pending"

Install(a) ==
    LET v == work[a].v  k == work[a].base IN
    /\ work[a].at = "moved"
    /\ staged[v] # Absent
    /\ \/ /\ ~host.copies
          /\ name' = [name EXCEPT ![k] = staged[v]]
          /\ Follows(MaxName + 1, k, name[k])
          /\ staged' = [staged EXCEPT ![v] = Absent]
          /\ work' = [work EXCEPT ![a].at = Outcome] \/ Goto(a, "failed")
       \/ /\ host.copies
          /\ name' = [name EXCEPT ![k] = [v |-> v, by |-> IF Whole(staged[v]) THEN a ELSE Torn]]
          /\ UNCHANGED <<image, staged>>
          /\ Goto(a, "filling")
    /\ Worked /\ UNCHANGED <<tmp, history>>

\* The copy is whole. On Unix its mode is set afterwards; when that fails the
\* new binary stays in place, and nothing is put back.
Fill(a) ==
    /\ work[a].at = "filling"
    /\ name' = EndsAll(name, a, Sound)
    /\ staged' = [staged EXCEPT ![work[a].v] = Absent]
    /\ \/ work' = [work EXCEPT ![a].at = Outcome]
       \/ host.os = "linux" /\ Goto(a, "failed")
    /\ Worked /\ UNCHANGED <<image, tmp, history>>

\* On Windows the old process keeps the port while the new one starts, and
\* nobody has closed the listener: the new one may fail to bind, and the old
\* one ends whatever becomes of it.
Restart(a) ==
    /\ work[a].at = "restart"
    /\ Starts(Path) \/ (host.os = "windows" /\ Whole(name[0]) /\ Dies)

----------------------------------------------------------------------------
(* Failures of DownloadAndApply, and what they clean up. *)

Fails(a) == Goto(a, "failed") /\ Worked /\ UNCHANGED history

\* Cancelled, downloaded in part, of a wrong size or sum, or not an archive.
FailDownload(a) ==
    /\ work[a].at = "begin"
    /\ Fails(a) /\ UNCHANGED files

\* No binary of this release and platform, no executable, or the disk is full.
FailExtract(a) ==
    /\ work[a].at = "copying"
    /\ name' = EndsAll(name, a, Torn) /\ image' = image
    /\ tmp' = [EndsAll(tmp, a, Torn) EXCEPT ![work[a].v] = Absent]
    /\ staged' = EndsAll(staged, a, Torn)
    /\ Fails(a)

\* Cancelled, or the executable could not be renamed.
FailReplace(a) ==
    /\ work[a].at = "staged"
    /\ staged' = [staged EXCEPT ![work[a].v] = Absent]
    /\ Fails(a) /\ UNCHANGED <<name, image, tmp>>

FailRestart(a) ==
    /\ work[a].at = "restart"
    /\ Fails(a) /\ UNCHANGED files

\* The new binary could not be moved or copied into place, or (on Windows)
\* the flag could not be written: the previous one is renamed back, which may
\* fail as well.
PutBack(a) ==
    LET k == work[a].base IN
    /\ work[a].at \in {"moved", "filling"}
    /\ \/ /\ name[k + 1] # Absent
          /\ name' = EndsAll([name EXCEPT ![k] = name[k + 1], ![k + 1] = Absent], a, Torn)
          /\ Follows(k + 1, k, name[k])
          /\ broken' = broken
       \/ /\ name' = EndsAll(name, a, Torn) /\ image' = image
          /\ broken' = TRUE
    /\ staged' = [staged EXCEPT ![work[a].v] = Absent]
    /\ Goto(a, "failed")
    /\ Worked /\ UNCHANGED <<tmp, overlapped>>

\* Mutant: only an apply that worked is reported.
ReportPending(a) ==
    LET w == work[a] IN
    /\ w.at \in {"failed", "pending"}
    /\ Goto(a, "closing")
    /\ IF w.at = "pending" THEN Swapped("running", "pending") ELSE state' = state
    /\ UpdateHandlerKept /\ UNCHANGED <<cancel, result, resets, files, history>>

\* What the goroutine does with the outcome. Only the admin's applies go
\* through the state machine; a check reports in the checker's result.
Report(a) ==
    LET w == work[a] IN
    /\ w.at \in {"failed", "pending"}
    /\ \/ /\ w.by = "operator"
          /\ Swapped("running", w.at)
          /\ Goto(a, "closing")
          /\ result' = result
       \/ /\ w.by = "auto"
          /\ state' = state
          /\ result' = IF w.at = "pending"
                       THEN [v |-> w.v, pending |-> TRUE] ELSE result
          /\ work' = [work EXCEPT ![a] = Free]
    /\ UpdateHandlerKept /\ UNCHANGED <<cancel, resets, files, history>>

\* The deferred function.
Close(a) ==
    /\ work[a].at = "closing"
    /\ cancel' = NoApplier
    /\ work' = [work EXCEPT ![a] = Free]
    /\ UpdateHandlerKept /\ UNCHANGED <<state, result, resets, files, history>>

----------------------------------------------------------------------------

Apply(a) ==
    \/ Choose(a) \/ Launch(a)
    \/ Unpack(a) \/ Stage(a) \/ MoveAside(a) \/ Install(a) \/ Fill(a)
    \/ Restart(a) \/ PutBack(a) \/ Report(a) \/ Close(a)
    \/ FailDownload(a) \/ FailExtract(a) \/ FailReplace(a) \/ FailRestart(a)

Requested ==
    \/ ResetFailed \/ ResetSees \/ ResetCancels \/ ResetEnds
    \/ RestartRequest \/ Reexec \/ ReexecFails

Next ==
    \/ Boot \/ Crash \/ Publish
    \/ CheckFails \/ CheckNotModified \/ CheckFinds
    \/ Requested
    \/ \E a \in Appliers : Claim(a) \/ Apply(a)

Spec == Init /\ [][Next]_vars

\* A goroutine that can go on or fail does one or the other.
FairSpec == Spec /\ \A a \in Appliers : WF_vars(Apply(a))

----------------------------------------------------------------------------
(* Properties *)

\* The state machine of the handler stands for the goroutine it started: until
\* a running apply is reset, the claims of POST /update/apply exclude each
\* other, and the state says running exactly while one of them works
\* (HandleUpdateApplyPOST, HandleUpdateResetPOST).
Busy(a) == work[a].by = "operator" /\ work[a].at \notin {"none", "closing"}

OneApplyUnlessReset ==
    resets = 0 =>
        /\ \A a, b \in Appliers : Busy(a) /\ Busy(b) => a = b
        /\ state = "running" <=> \E a \in Appliers : Busy(a)

\* Whatever fails or crashes between the renames of replaceBinary, a whole
\* executable is left under one of the two names, if the goroutines did not
\* work on the files at once and the way back did not fail too.
SurvivingBinary == ~overlapped /\ ~broken => Whole(name[0]) \/ Whole(name[1])

Midway == \E a \in Appliers : work[a].at \in {"moved", "filling"}

\* A restart to finish an update is granted only while a newer whole executable
\* lies beside the process, installed or moved aside by a further apply, and
\* whatever was checked, applied or reset since it was put there. On Windows the
\* restart runs a newer release, or finds nothing whole to run when a further
\* apply is replacing it. On Linux it always finds what it runs, the renamed
\* binary of the process itself: it is the same release again, not the
\* "currently installed binary" of TriggerRestart's comment.
RestartRuns ==
    [][~overlapped /\ ~broken =>
         /\ RestartRequest => \E k \in {0, 1} : Whole(name[k]) /\ name[k].v > running
         /\ Reexec => IF host.os = "linux" THEN running' = running ELSE running' > running
         /\ ReexecFails => host.os = "windows" /\ Midway]_vars

\* An apply that was started does not leave the state machine running for ever,
\* whatever fails on the way.
ApplyEnds == state = "running" ~> state # "running"
===============================================================================
