---------------------------- MODULE UpdateProofs ----------------------------
(***************************************************************************)
(* Proofs about Update, for any hosts, goroutines, releases, names and     *)
(* resets.                                                                 *)
(*                                                                         *)
(* Types need more than TypeOK (Sized): a goroutine past its choice has a  *)
(* release, and one that has moved a binary aside has a name for it. The   *)
(* main theorem ties the handler's four states to the goroutine it         *)
(* started. Most steps of a goroutine leave it as busy as it was           *)
(* (StageKeeps); the others are treated one by one. The last two theorems  *)
(* are about the files: a second invariant (FilesInv), which needs the     *)
(* first one and says where the whole binaries are at every stage of a     *)
(* replacement and on either platform.                                     *)
(***************************************************************************)
EXTENDS Update, TLAPS

ProcessOK ==
    /\ host \in Hosts /\ latest \in Releases /\ running \in 0 .. MaxVersion
    /\ serving \in BOOLEAN /\ quitting \in BOOLEAN
    /\ etag \in 0 .. MaxVersion
    /\ overlapped \in BOOLEAN /\ broken \in BOOLEAN

HandlerOK ==
    /\ state \in States
    /\ cancel \in Appliers \cup {NoApplier}
    /\ reset \in {"none", "seen", "cancelled"}
    /\ resets \in 0 .. MaxResets
    /\ reset # "none" => resets < MaxResets
    /\ result \in Result
    /\ result = NoResult \/ result.v \in Releases

Sized(w) ==
    /\ w.at \notin {"none", "claimed"} => w.v \in Releases
    /\ w.at \in {"moved", "filling"} => w.base < MaxName
    /\ w.at = "claimed" => w.by = "operator"

WorkOK == work \in [Appliers -> Worker] /\ \A a \in Appliers : Sized(work[a])

FilesOK ==
    /\ name \in [Names -> File]
    /\ image \in [at : Names, gone : BOOLEAN]
    /\ tmp \in [Releases -> File] /\ staged \in [Releases -> File]

Inv == ProcessOK /\ HandlerOK /\ WorkOK /\ FilesOK /\ OneApplyUnlessReset

----------------------------------------------------------------------------
(* Files and goroutines as data. *)

LEMMA Constants ==
    /\ 0 \in Names /\ 1 \in Releases /\ Absent \in File
    /\ MaxVersion \in Nat /\ MaxName \in Nat /\ MaxResets \in Nat
    /\ Releases \subseteq 0 .. MaxVersion /\ 0 \in 0 .. MaxVersion
BY UpdateAssumption DEF Names, Releases, File

LEMMA FreeIs ==
    Free \in Worker /\ Free.at = "none" /\ Sized(Free) /\ Free.v = 0 /\ Free.by = "operator"
<1>1. 0 \in Names /\ 0 \in 0 .. MaxVersion
  BY Constants
<1>2. Free \in Worker
  BY <1>1 DEF Free, Worker, Stages
<1> QED
  BY <1>2 DEF Free, Sized

LEMMA WorkerAt ==
    ASSUME NEW w \in Worker, NEW s \in Stages
    PROVE  LET x == [w EXCEPT !.at = s] IN
           x \in Worker /\ x.at = s /\ x.by = w.by /\ x.v = w.v /\ x.base = w.base
BY DEF Worker

LEMMA MarkedFile ==
    ASSUME NEW f \in File, NEW mark \in {Sound, Torn}, f.by \in Appliers
    PROVE  [f EXCEPT !.by = mark] \in File
<1>1. f \in [v : Releases, by : Appliers \cup {Sound, Torn}]
  BY UpdateAssumption DEF File, Absent
<1> QED
  BY <1>1 DEF File

LEMMA EndsIsFile ==
    ASSUME NEW f \in File, NEW a \in Appliers, NEW mark \in {Sound, Torn}
    PROVE  Ends(f, a, mark) \in File
BY MarkedFile DEF Ends

LEMMA EndsAllTyped ==
    ASSUME NEW S, NEW fs \in [S -> File], NEW a \in Appliers, NEW mark \in {Sound, Torn}
    PROVE  EndsAll(fs, a, mark) \in [S -> File]
BY EndsIsFile DEF EndsAll

LEMMA LeftTyped == FilesOK => Left \in [Names -> File]
<1> SUFFICES ASSUME FilesOK PROVE Left \in [Names -> File]
  OBVIOUS
<1>1. ASSUME NEW k \in Names PROVE GivenUp(name[k]) \in File
  BY MarkedFile DEF FilesOK, GivenUp
<1> QED
  BY <1>1 DEF Left

LEMMA PathIsName == FilesOK => Path \in Names
BY Constants DEF FilesOK, Path

LEMMA FollowsTyped ==
    ASSUME FilesOK, NEW i, NEW j \in Names, NEW over, Follows(i, j, over)
    PROVE  image' \in [at : Names, gone : BOOLEAN]
<1> DEFINE g == image.at = j /\ over # Absent
<1>1. g \in BOOLEAN
  OBVIOUS
<1> HIDE DEF g
<1>2. CASE image' = image
  BY <1>2 DEF FilesOK
<1>3. CASE image' = [image EXCEPT !.at = j]
  BY <1>3 DEF FilesOK
<1>4. CASE image' = [image EXCEPT !.gone = g]
  BY <1>1, <1>4 DEF FilesOK
<1>5. image' = image \/ image' = [image EXCEPT !.at = j] \/ image' = [image EXCEPT !.gone = g]
  BY DEF Follows, g
<1> QED
  BY <1>2, <1>3, <1>4, <1>5

----------------------------------------------------------------------------
(* Starting, stopping, and what the memory is then. *)

LEMMA ForgetsKeeps ==
    ASSUME Inv, Forgets
    PROVE  HandlerOK' /\ WorkOK' /\ OneApplyUnlessReset'
           /\ tmp' \in [Releases -> File] /\ staged' \in [Releases -> File]
           /\ quitting' \in BOOLEAN /\ etag' \in 0 .. MaxVersion
<1>1. NoResult \in Result
  BY Constants DEF NoResult, Result
<1>2. HandlerOK'
  BY <1>1, Constants DEF Forgets, HandlerOK, States
<1>3. WorkOK'
  BY FreeIs DEF Forgets, WorkOK
<1>4. OneApplyUnlessReset'
  BY FreeIs DEF Forgets, OneApplyUnlessReset, Busy
<1>5. tmp' \in [Releases -> File] /\ staged' \in [Releases -> File]
  BY Constants DEF Forgets
<1>6. quitting' \in BOOLEAN /\ etag' \in 0 .. MaxVersion
  BY Constants DEF Forgets
<1> QED
  BY <1>2, <1>3, <1>4, <1>5, <1>6

LEMMA StartsKeeps == ASSUME Inv, NEW k \in Names, Starts(k) PROVE Inv'
<1>1. Forgets /\ UNCHANGED <<host, latest, history>>
  BY DEF Starts
<1>2. running' \in 0 .. MaxVersion /\ serving' \in BOOLEAN
  <2>1. name[k] \in File /\ name[k] # Absent
    BY DEF Starts, Whole, Inv, FilesOK
  <2> QED
    BY <2>1, Constants DEF Starts, File
<1>3. name' \in [Names -> File]
  <2>1. Left \in [Names -> File]
    BY LeftTyped DEF Inv
  <2>2. [j \in Names |-> IF j = k + 1 THEN Absent ELSE Left[j]] \in [Names -> File]
    BY <2>1, Constants
  <2> QED
    BY <2>1, <2>2 DEF Starts, RemovesOld
<1>4. image' \in [at : Names, gone : BOOLEAN]
  BY DEF Starts
<1>5. ProcessOK'
  BY <1>1, <1>2, ForgetsKeeps DEF ProcessOK, Inv, history
<1>6. FilesOK'
  BY <1>1, <1>3, <1>4, ForgetsKeeps DEF FilesOK
<1> QED
  BY <1>1, <1>5, <1>6, ForgetsKeeps DEF Inv

LEMMA DiesKeeps == ASSUME Inv, Dies PROVE Inv'
<1>1. Forgets /\ UNCHANGED <<host, latest, history>> /\ running' = Down /\ serving' = FALSE
  BY DEF Dies
<1>2. name' \in [Names -> File] /\ image' \in [at : Names, gone : BOOLEAN]
  BY LeftTyped, Constants DEF Dies, Inv
<1>3. ProcessOK'
  BY <1>1, ForgetsKeeps, Constants DEF ProcessOK, Inv, history, Down
<1>4. FilesOK'
  BY <1>1, <1>2, ForgetsKeeps DEF FilesOK
<1> QED
  BY <1>1, <1>3, <1>4, ForgetsKeeps DEF Inv

LEMMA InitHolds == Init => Inv
<1> SUFFICES ASSUME Init PROVE Inv
  OBVIOUS
<1>1. ProcessOK
  BY Constants DEF Init, ProcessOK, Down
<1>2. NoResult \in Result
  BY Constants DEF NoResult, Result
<1>3. HandlerOK
  BY <1>2, Constants DEF Init, HandlerOK, States
<1>4. WorkOK
  BY FreeIs DEF Init, WorkOK
<1>5. [v |-> 1, by |-> Sound] \in File
  BY Constants DEF File
<1>6. FilesOK
  BY <1>5, Constants DEF Init, FilesOK
<1>7. OneApplyUnlessReset
  BY FreeIs DEF Init, OneApplyUnlessReset, Busy
<1> QED
  BY <1>1, <1>3, <1>4, <1>6, <1>7 DEF Inv

LEMMA StutterKeeps == Inv /\ UNCHANGED vars => Inv'
BY DEF Inv, ProcessOK, HandlerOK, WorkOK, FilesOK, OneApplyUnlessReset, Busy, Sized,
       vars, memory, files, history

----------------------------------------------------------------------------
(* The goroutines. *)

\* A goroutine that goes on, without ending and without touching the handler,
\* is as busy as it was.
LEMMA StageKeeps ==
    ASSUME Inv, NEW a \in Appliers, NEW w \in Worker, work' = [work EXCEPT ![a] = w],
           work[a].at \notin {"none", "closing"}, w.at \notin {"none", "closing"},
           w.by = work[a].by, Sized(w), state' = state, resets' = resets
    PROVE  WorkOK' /\ OneApplyUnlessReset'
<1>1. work \in [Appliers -> Worker]
  BY DEF Inv, WorkOK
<1>2. work'[a] = w /\ \A b \in Appliers \ {a} : work'[b] = work[b]
  BY <1>1
<1>3. \A b \in Appliers : Busy(b)' <=> Busy(b)
  BY <1>2 DEF Busy
<1>4. OneApplyUnlessReset'
  BY <1>3 DEF Inv, OneApplyUnlessReset
<1>5. WorkOK'
  BY <1>1, <1>2 DEF Inv, WorkOK
<1> QED
  BY <1>4, <1>5

\* The same for a step that changes the stage alone.
LEMMA GotoKeeps ==
    ASSUME Inv, NEW a \in Appliers, NEW s \in Stages \ {"none", "claimed", "closing"},
           work' = [work EXCEPT ![a].at = s],
           work[a].at \notin {"none", "claimed", "closing"},
           s \in {"moved", "filling"} => work[a].at \in {"moved", "filling"},
           state' = state, resets' = resets
    PROVE  WorkOK' /\ OneApplyUnlessReset'
<1> DEFINE w == [work[a] EXCEPT !.at = s]
<1>1. work[a] \in Worker /\ Sized(work[a])
  BY DEF Inv, WorkOK
<1>2. w \in Worker /\ w.at = s /\ w.by = work[a].by /\ w.v = work[a].v /\ w.base = work[a].base
  BY <1>1, WorkerAt
<1>3. work' = [work EXCEPT ![a] = w]
  OBVIOUS
<1> HIDE DEF w
<1>4. Sized(w)
  BY <1>1, <1>2 DEF Sized
<1> QED
  BY <1>2, <1>3, <1>4, StageKeeps

\* A step of DownloadAndApply leaves the process and the handler as they were.
LEMMA WorkedKeeps ==
    ASSUME Inv, Worked, overlapped' \in BOOLEAN, broken' \in BOOLEAN
    PROVE  ProcessOK' /\ HandlerOK' /\ state' = state /\ resets' = resets
BY DEF Worked, Inv, ProcessOK, HandlerOK

LEMMA HistoryIs == Inv => overlapped \in BOOLEAN /\ broken \in BOOLEAN
BY DEF Inv, ProcessOK

LEMMA StepKeeps ==
    ASSUME Inv, NEW a \in Appliers, NEW s \in Stages \ {"none", "claimed", "closing"},
           work' = [work EXCEPT ![a].at = s],
           work[a].at \notin {"none", "claimed", "closing"},
           s \in {"moved", "filling"} => work[a].at \in {"moved", "filling"},
           Worked, overlapped' \in BOOLEAN, broken' \in BOOLEAN, FilesOK'
    PROVE  Inv'
<1>1. ProcessOK' /\ HandlerOK' /\ state' = state /\ resets' = resets
  BY WorkedKeeps
<1>2. WorkOK' /\ OneApplyUnlessReset'
  BY <1>1, GotoKeeps
<1> QED
  BY <1>1, <1>2 DEF Inv

LEMMA UnpackKeeps == ASSUME Inv, NEW a \in Appliers, Unpack(a) PROVE Inv'
<1>1. work[a].at = "begin" /\ work' = [work EXCEPT ![a].at = "copying"] /\ Worked
  BY DEF Unpack, Goto
<1>2. "copying" \in Stages \ {"none", "claimed", "closing"}
  BY DEF Stages, Working
<1>3. overlapped' \in BOOLEAN /\ broken' \in BOOLEAN
  BY HistoryIs DEF Unpack, Overlap
<1>4. work[a].v \in Releases
  BY <1>1 DEF Inv, WorkOK, Sized
<1>5. [v |-> work[a].v, by |-> a] \in File
  BY <1>4 DEF File
<1>6. FilesOK'
  BY <1>4, <1>5 DEF Unpack, Inv, FilesOK
<1> QED
  BY <1>1, <1>2, <1>3, <1>6, StepKeeps

LEMMA StageStepKeeps == ASSUME Inv, NEW a \in Appliers, Stage(a) PROVE Inv'
<1> DEFINE t == EndsAll(tmp, a, Sound)
           g == EndsAll(staged, a, Sound)
<1>1. work[a].at = "copying" /\ work' = [work EXCEPT ![a].at = "staged"] /\ Worked
  BY DEF Stage, Goto
<1>2. "staged" \in Stages \ {"none", "claimed", "closing"}
  BY DEF Stages, Working
<1>3. overlapped' \in BOOLEAN /\ broken' \in BOOLEAN
  BY HistoryIs DEF Stage, history
<1>4. work[a].v \in Releases
  BY <1>1 DEF Inv, WorkOK, Sized
<1>5. /\ t \in [Releases -> File] /\ g \in [Releases -> File]
      /\ EndsAll(name, a, Sound) \in [Names -> File]
  BY EndsAllTyped DEF Inv, FilesOK
<1>6. /\ name' = EndsAll(name, a, Sound) /\ image' = image
      /\ tmp' = [t EXCEPT ![work[a].v] = Absent]
      /\ staged' = [g EXCEPT ![work[a].v] = t[work[a].v]]
  BY DEF Stage
<1> HIDE DEF t, g
<1>7. FilesOK'
  BY <1>4, <1>5, <1>6, Constants DEF Inv, FilesOK
<1> QED
  BY <1>1, <1>2, <1>3, <1>7, StepKeeps

LEMMA MoveAsideKeeps == ASSUME Inv, NEW a \in Appliers, MoveAside(a) PROVE Inv'
<1> DEFINE k == Path
           w == [work[a] EXCEPT !.at = "moved", !.base = k]
<1>1. /\ work[a].at = "staged" /\ Worked /\ k < MaxName
      /\ work' = [work EXCEPT ![a].at = "moved", ![a].base = k]
      /\ name' = [name EXCEPT ![k + 1] = name[k], ![k] = Absent]
      /\ Follows(k, k + 1, name[k + 1]) /\ UNCHANGED <<tmp, staged, history>>
  BY DEF MoveAside
<1>2. k \in Names /\ k + 1 \in Names
  BY <1>1, PathIsName, Constants DEF Inv, Names
<1>3. work' = [work EXCEPT ![a] = w]
  BY <1>1 DEF Inv, WorkOK
<1>4. work[a] \in Worker /\ work[a].v \in Releases
  BY <1>1 DEF Inv, WorkOK, Sized
<1>5. w \in Worker /\ w.at = "moved" /\ w.by = work[a].by /\ w.v = work[a].v /\ w.base = k
  BY <1>2, <1>4 DEF Worker, Stages, Working
<1>6. image' \in [at : Names, gone : BOOLEAN]
  BY <1>1, <1>2, FollowsTyped DEF Inv
<1> HIDE DEF w, k
<1>7. name' \in [Names -> File]
  BY <1>1, <1>2, Constants DEF Inv, FilesOK
<1>8. FilesOK'
  BY <1>1, <1>6, <1>7 DEF Inv, FilesOK
<1>9. Sized(w)
  BY <1>1, <1>4, <1>5 DEF Sized
<1>10. ProcessOK' /\ HandlerOK' /\ state' = state /\ resets' = resets
  BY <1>1, HistoryIs, WorkedKeeps DEF history
<1>11. WorkOK' /\ OneApplyUnlessReset'
  BY <1>1, <1>3, <1>5, <1>9, <1>10, StageKeeps
<1> QED
  BY <1>8, <1>10, <1>11 DEF Inv

LEMMA OutcomeIs == Outcome \in {"restart", "pending"} /\ Outcome \in Stages \ {"none", "claimed", "closing"}
BY DEF Outcome, Stages, Working

LEMMA InstallKeeps == ASSUME Inv, NEW a \in Appliers, Install(a) PROVE Inv'
<1> DEFINE k == work[a].base
<1>1. /\ work[a].at = "moved" /\ staged[work[a].v] # Absent /\ Worked
      /\ UNCHANGED <<tmp, history>>
  BY DEF Install
<1>2. work[a].v \in Releases /\ k \in Names
  BY <1>1 DEF Inv, WorkOK, Sized, Worker
<1>3. overlapped' \in BOOLEAN /\ broken' \in BOOLEAN
  BY <1>1, HistoryIs DEF history
<1>4. CASE /\ name' = [name EXCEPT ![k] = staged[work[a].v]]
           /\ Follows(MaxName + 1, k, name[k])
           /\ staged' = [staged EXCEPT ![work[a].v] = Absent]
           /\ work' = [work EXCEPT ![a].at = Outcome] \/ work' = [work EXCEPT ![a].at = "failed"]
  <2>1. image' \in [at : Names, gone : BOOLEAN]
    BY <1>2, <1>4, FollowsTyped DEF Inv
  <2>2. FilesOK'
    BY <1>1, <1>2, <1>4, <2>1, Constants DEF Inv, FilesOK
  <2>3. "failed" \in Stages \ {"none", "claimed", "closing"}
    BY DEF Stages
  <2>4. CASE work' = [work EXCEPT ![a].at = Outcome]
    BY <1>1, <1>3, <2>2, <2>4, OutcomeIs, StepKeeps
  <2>5. CASE work' = [work EXCEPT ![a].at = "failed"]
    BY <1>1, <1>3, <2>2, <2>3, <2>5, StepKeeps
  <2> QED
    BY <1>4, <2>4, <2>5
<1>5. CASE /\ name' = [name EXCEPT ![k] =
                  [v |-> work[a].v, by |-> IF Whole(staged[work[a].v]) THEN a ELSE Torn]]
           /\ UNCHANGED <<image, staged>>
           /\ work' = [work EXCEPT ![a].at = "filling"]
  <2>1. [v |-> work[a].v, by |-> IF Whole(staged[work[a].v]) THEN a ELSE Torn] \in File
    BY <1>2 DEF File
  <2>2. FilesOK'
    BY <1>1, <1>2, <1>5, <2>1 DEF Inv, FilesOK
  <2>3. "filling" \in Stages \ {"none", "claimed", "closing"}
    BY DEF Stages, Working
  <2> QED
    BY <1>1, <1>3, <1>5, <2>2, <2>3, StepKeeps
<1> QED
  BY <1>4, <1>5 DEF Install, Goto

LEMMA FillKeeps == ASSUME Inv, NEW a \in Appliers, Fill(a) PROVE Inv'
<1>1. /\ work[a].at = "filling" /\ Worked
      /\ \E s \in {Outcome, "failed"} : work' = [work EXCEPT ![a].at = s]
      /\ UNCHANGED <<tmp, image, history>>
  BY DEF Fill, Goto
<1>2. overlapped' \in BOOLEAN /\ broken' \in BOOLEAN
  BY <1>1, HistoryIs DEF history
<1>3. EndsAll(name, a, Sound) \in [Names -> File]
  BY EndsAllTyped DEF Inv, FilesOK
<1>4. FilesOK'
  BY <1>1, <1>3, Constants DEF Fill, Inv, FilesOK
<1>5. {Outcome, "failed"} \subseteq Stages \ {"none", "claimed", "closing"}
  BY OutcomeIs DEF Stages
<1> QED
  BY <1>1, <1>2, <1>4, <1>5, StepKeeps

LEMMA FailKeeps ==
    ASSUME Inv, NEW a \in Appliers,
           FailDownload(a) \/ FailExtract(a) \/ FailReplace(a) \/ FailRestart(a)
    PROVE  Inv'
<1>1. /\ work' = [work EXCEPT ![a].at = "failed"] /\ Worked /\ UNCHANGED history
      /\ work[a].at \in {"begin", "copying", "staged", "restart"}
  BY DEF FailDownload, FailExtract, FailReplace, FailRestart, Fails, Goto
<1>2. "failed" \in Stages \ {"none", "claimed", "closing"}
  BY DEF Stages
<1>3. overlapped' \in BOOLEAN /\ broken' \in BOOLEAN
  BY <1>1, HistoryIs DEF history
<1>4. FilesOK'
  <2>1. CASE FailDownload(a) \/ FailRestart(a)
    BY <2>1 DEF FailDownload, FailRestart, files, Inv, FilesOK
  <2>2. CASE FailExtract(a)
    <3>1. /\ EndsAll(name, a, Torn) \in [Names -> File]
          /\ EndsAll(tmp, a, Torn) \in [Releases -> File]
          /\ EndsAll(staged, a, Torn) \in [Releases -> File]
      BY EndsAllTyped DEF Inv, FilesOK
    <3>2. [EndsAll(tmp, a, Torn) EXCEPT ![work[a].v] = Absent] \in [Releases -> File]
      BY <3>1, Constants
    <3> QED
      BY <2>2, <3>1, <3>2 DEF FailExtract, Inv, FilesOK
  <2>3. CASE FailReplace(a)
    BY <2>3, Constants DEF FailReplace, Inv, FilesOK
  <2> QED
    BY <2>1, <2>2, <2>3
<1> QED
  BY <1>1, <1>2, <1>3, <1>4, StepKeeps

LEMMA PutBackKeeps == ASSUME Inv, NEW a \in Appliers, PutBack(a) PROVE Inv'
<1> DEFINE k == work[a].base
           restored == [name EXCEPT ![k] = name[k + 1], ![k + 1] = Absent]
<1>1. /\ work' = [work EXCEPT ![a].at = "failed"] /\ Worked /\ UNCHANGED <<tmp, overlapped>>
      /\ work[a].at \in {"moved", "filling"}
      /\ staged' = [staged EXCEPT ![work[a].v] = Absent]
  BY DEF PutBack, Goto
<1>2. "failed" \in Stages \ {"none", "claimed", "closing"}
  BY DEF Stages
<1>3. overlapped' \in BOOLEAN /\ broken' \in BOOLEAN
  BY <1>1, HistoryIs DEF PutBack
<1>4. k \in Names /\ k + 1 \in Names
  <2>1. k \in Names /\ k < MaxName
    BY <1>1 DEF Inv, WorkOK, Sized, Worker
  <2> QED
    BY <2>1, Constants DEF Names
<1>5. restored \in [Names -> File]
  BY <1>4, Constants DEF Inv, FilesOK
<1>6. EndsAll(restored, a, Torn) \in [Names -> File] /\ EndsAll(name, a, Torn) \in [Names -> File]
  BY <1>5, EndsAllTyped DEF Inv, FilesOK
<1>7. name' \in [Names -> File]
  BY <1>6 DEF PutBack
<1>8. image' \in [at : Names, gone : BOOLEAN]
  <2>1. CASE Follows(k + 1, k, name[k])
    BY <1>4, <2>1, FollowsTyped DEF Inv
  <2>2. CASE image' = image
    BY <2>2 DEF Inv, FilesOK
  <2> QED
    BY <2>1, <2>2 DEF PutBack
<1>9. FilesOK'
  BY <1>1, <1>7, <1>8, Constants DEF Inv, FilesOK
<1> QED
  BY <1>1, <1>2, <1>3, <1>9, StepKeeps

LEMMA RestartKeeps == ASSUME Inv, NEW a \in Appliers, Restart(a) PROVE Inv'
BY StartsKeeps, DiesKeeps, PathIsName DEF Restart, Inv

----------------------------------------------------------------------------
(* Claiming, launching, reporting: the steps that the state goes with. *)

\* What the steps of a request or a goroutine on the handler leave alone.
LEMMA KeptKeeps ==
    ASSUME Inv, UpdateHandlerKept, UNCHANGED files, UNCHANGED history
    PROVE  ProcessOK' /\ FilesOK'
BY DEF UpdateHandlerKept, files, history, Inv, ProcessOK, FilesOK

LEMMA StateIs == Inv => state \in States
BY DEF Inv, HandlerOK

LEMMA ClaimKeeps == ASSUME Inv, NEW a \in Appliers, Claim(a) PROVE Inv'
<1> DEFINE w == [Free EXCEPT !.at = "claimed"]
<1>1. /\ state = "idle" /\ state' = "running" /\ work[a].at = "none"
      /\ work' = [work EXCEPT ![a] = w] /\ UNCHANGED <<cancel, result, resets, reset>>
  BY DEF Claim, UpdateHandlerKept
<1>2. w \in Worker /\ w.at = "claimed" /\ w.by = "operator"
  BY FreeIs, WorkerAt DEF Stages
<1> HIDE DEF w
<1>3. work'[a] = w /\ \A b \in Appliers \ {a} : work'[b] = work[b]
  BY <1>1 DEF Inv, WorkOK
<1>4. ProcessOK' /\ FilesOK'
  BY KeptKeeps DEF Claim
<1>5. HandlerOK'
  BY <1>1 DEF Inv, HandlerOK, States
<1>6. WorkOK'
  BY <1>1, <1>2, <1>3 DEF Inv, WorkOK, Sized
<1>7. OneApplyUnlessReset'
  <2>1. Busy(a)' /\ \A b \in Appliers \ {a} : Busy(b)' <=> Busy(b)
    BY <1>2, <1>3 DEF Busy
  <2>2. resets = 0 => \A b \in Appliers : ~Busy(b)
    BY <1>1 DEF Inv, OneApplyUnlessReset
  <2> QED
    BY <1>1, <2>1, <2>2 DEF OneApplyUnlessReset
<1> QED
  BY <1>4, <1>5, <1>6, <1>7 DEF Inv

\* An operator's goroutine that stops being busy takes the state along, one of
\* the checker's leaves it alone.
LEMMA EndsBusy ==
    ASSUME Inv, NEW a \in Appliers, NEW w \in Worker, work' = [work EXCEPT ![a] = w],
           w.at \in {"none", "closing"}, resets' = resets,
           NEW to \in States \ {"running"},
           (Busy(a) /\ Swapped("running", to)) \/ (~Busy(a) /\ state' = state)
    PROVE  OneApplyUnlessReset'
<1>1. work'[a] = w /\ \A b \in Appliers \ {a} : work'[b] = work[b]
  BY DEF Inv, WorkOK
<1>2. ~Busy(a)' /\ \A b \in Appliers \ {a} : Busy(b)' <=> Busy(b)
  BY <1>1 DEF Busy
<1>3. CASE Busy(a) /\ Swapped("running", to)
  <2>1. resets = 0 => state = "running" /\ \A b \in Appliers \ {a} : ~Busy(b)
    BY <1>3 DEF Inv, OneApplyUnlessReset
  <2>2. resets = 0 => state' # "running"
    BY <1>3, <2>1 DEF Swapped
  <2> QED
    BY <1>2, <2>1, <2>2 DEF OneApplyUnlessReset
<1>4. CASE ~Busy(a) /\ state' = state
  BY <1>2, <1>4 DEF Inv, OneApplyUnlessReset
<1> QED
  BY <1>3, <1>4

LEMMA ChooseKeeps == ASSUME Inv, NEW a \in Appliers, Choose(a) PROVE Inv'
<1>1. /\ work[a].at = "claimed" /\ UNCHANGED <<cancel, result, resets, reset>>
      /\ work[a] \in Worker /\ work \in [Appliers -> Worker]
  BY DEF Choose, UpdateHandlerKept, Inv, WorkOK
<1>2. ProcessOK' /\ FilesOK'
  BY KeptKeeps DEF Choose
<1>3. state' \in States
  BY StateIs DEF Choose, Swapped, States
<1>4. HandlerOK'
  BY <1>1, <1>3 DEF Inv, HandlerOK
<1>5. CASE /\ Swapped("running", "idle") /\ work' = [work EXCEPT ![a].at = "none"]
  <2> DEFINE w == [work[a] EXCEPT !.at = "none"]
  <2>1. w \in Worker /\ w.at = "none" /\ work' = [work EXCEPT ![a] = w] /\ w.by = work[a].by
    BY <1>1, <1>5, WorkerAt DEF Stages
  <2> HIDE DEF w
  <2>2. WorkOK'
    BY <1>1, <2>1 DEF Inv, WorkOK, Sized
  <2>3. "idle" \in States \ {"running"}
    BY DEF States
  <2>4. Busy(a)
    BY <1>1 DEF Busy, Inv, WorkOK, Sized
  <2>5. OneApplyUnlessReset'
    BY <1>1, <1>5, <2>1, <2>3, <2>4, EndsBusy
  <2> QED
    BY <1>2, <1>4, <2>2, <2>5 DEF Inv
<1>6. CASE /\ result # NoResult /\ state' = state
           /\ work' = [work EXCEPT ![a].at = "chosen", ![a].v = result.v]
  <2> DEFINE w == [work[a] EXCEPT !.at = "chosen", !.v = result.v]
  <2>1. result.v \in Releases
    BY <1>6 DEF Inv, HandlerOK
  <2>2. /\ w \in Worker /\ w.at = "chosen" /\ w.v = result.v /\ w.by = work[a].by
        /\ work' = [work EXCEPT ![a] = w]
    BY <1>1, <1>6, <2>1, Constants DEF Worker, Stages
  <2> HIDE DEF w
  <2>3. Sized(w)
    BY <2>1, <2>2 DEF Sized
  <2>4. WorkOK' /\ OneApplyUnlessReset'
    BY <1>1, <1>6, <2>2, <2>3, StageKeeps
  <2> QED
    BY <1>2, <1>4, <2>4 DEF Inv
<1> QED
  BY <1>5, <1>6 DEF Choose, Goto

LEMMA LaunchKeeps == ASSUME Inv, NEW a \in Appliers, Launch(a) PROVE Inv'
<1>1. /\ work[a].at = "chosen" /\ work' = [work EXCEPT ![a].at = "begin"] /\ state' = state
      /\ UNCHANGED <<result, resets, reset>> /\ cancel' = a
  BY DEF Launch, Goto, UpdateHandlerKept
<1>2. ProcessOK' /\ FilesOK'
  BY KeptKeeps DEF Launch
<1>3. HandlerOK'
  BY <1>1 DEF Inv, HandlerOK
<1>4. "begin" \in Stages \ {"none", "claimed", "closing"}
  BY DEF Stages
<1>5. WorkOK' /\ OneApplyUnlessReset'
  BY <1>1, <1>4, GotoKeeps
<1> QED
  BY <1>2, <1>3, <1>5 DEF Inv

LEMMA ReportKeeps == ASSUME Inv, NEW a \in Appliers, Report(a) PROVE Inv'
<1>1. /\ work[a].at \in {"failed", "pending"} /\ UNCHANGED <<cancel, resets, reset>>
      /\ work[a] \in Worker /\ work \in [Appliers -> Worker] /\ work[a].v \in Releases
  BY DEF Report, UpdateHandlerKept, Inv, WorkOK, Sized
<1>2. ProcessOK' /\ FilesOK'
  BY KeptKeeps DEF Report
<1>3. CASE /\ work[a].by = "operator" /\ Swapped("running", work[a].at) /\ result' = result
           /\ work' = [work EXCEPT ![a].at = "closing"]
  <2> DEFINE w == [work[a] EXCEPT !.at = "closing"]
  <2>1. w \in Worker /\ w.at = "closing" /\ w.v = work[a].v /\ work' = [work EXCEPT ![a] = w]
    BY <1>1, <1>3, WorkerAt DEF Stages
  <2> HIDE DEF w
  <2>2. work[a].at \in States \ {"running"}
    BY <1>1 DEF States
  <2>3. HandlerOK'
    <3>1. state' \in States
      BY <1>3, <2>2, StateIs DEF Swapped
    <3> QED
      BY <1>1, <1>3, <3>1 DEF Inv, HandlerOK
  <2>4. WorkOK'
    BY <1>1, <2>1 DEF Inv, WorkOK, Sized
  <2>5. Busy(a)
    BY <1>1, <1>3 DEF Busy
  <2>6. OneApplyUnlessReset'
    BY <1>1, <1>3, <2>1, <2>2, <2>5, EndsBusy
  <2> QED
    BY <1>2, <2>3, <2>4, <2>6 DEF Inv
<1>4. CASE /\ work[a].by = "auto" /\ state' = state /\ work' = [work EXCEPT ![a] = Free]
           /\ result' = IF work[a].at = "pending"
                        THEN [v |-> work[a].v, pending |-> TRUE] ELSE result
  <2>1. HandlerOK'
    <3>1. result' \in Result /\ (result' = NoResult \/ result'.v \in Releases)
      <4>1. [v |-> work[a].v, pending |-> TRUE] \in Result
        BY <1>1, Constants DEF Result
      <4> QED
        BY <1>1, <1>4, <4>1 DEF Inv, HandlerOK
    <3> QED
      BY <1>1, <1>4, <3>1 DEF Inv, HandlerOK
  <2>2. WorkOK'
    BY <1>1, <1>4, FreeIs DEF Inv, WorkOK
  <2>3. ~Busy(a) /\ "idle" \in States \ {"running"}
    BY <1>4 DEF Busy, States
  <2>4. OneApplyUnlessReset'
    BY <1>1, <1>4, <2>3, FreeIs, EndsBusy
  <2> QED
    BY <1>2, <2>1, <2>2, <2>4 DEF Inv
<1> QED
  BY <1>3, <1>4 DEF Report, Goto

LEMMA CloseKeeps == ASSUME Inv, NEW a \in Appliers, Close(a) PROVE Inv'
<1>1. /\ work[a].at = "closing" /\ work' = [work EXCEPT ![a] = Free] /\ cancel' = NoApplier
      /\ UNCHANGED <<state, result, resets, reset>>
  BY DEF Close, UpdateHandlerKept
<1>2. ProcessOK' /\ FilesOK'
  BY KeptKeeps DEF Close
<1>3. HandlerOK'
  BY <1>1 DEF Inv, HandlerOK
<1>4. WorkOK'
  BY <1>1, FreeIs DEF Inv, WorkOK
<1>5. ~Busy(a) /\ "idle" \in States \ {"running"}
  BY <1>1 DEF Busy, States
<1>6. OneApplyUnlessReset'
  BY <1>1, <1>5, FreeIs, EndsBusy
<1> QED
  BY <1>2, <1>3, <1>4, <1>6 DEF Inv

LEMMA ApplyKeeps == ASSUME Inv, NEW a \in Appliers, Apply(a) PROVE Inv'
BY ChooseKeeps, LaunchKeeps, UnpackKeeps, StageStepKeeps, MoveAsideKeeps, InstallKeeps,
   FillKeeps, RestartKeeps, PutBackKeeps, ReportKeeps, CloseKeeps, FailKeeps DEF Apply

----------------------------------------------------------------------------
(* Resets and restarts. *)

LEMMA ResetFailedKeeps == ASSUME Inv, ResetFailed PROVE Inv'
<1>1. state = "failed" /\ state' = "idle" /\ UNCHANGED <<cancel, result, work, resets, reset>>
  BY DEF ResetFailed, UpdateHandlerKept
<1>2. ProcessOK' /\ FilesOK'
  BY KeptKeeps DEF ResetFailed
<1>3. HandlerOK' /\ WorkOK'
  BY <1>1 DEF Inv, HandlerOK, WorkOK, States
<1>4. OneApplyUnlessReset'
  BY <1>1 DEF Inv, OneApplyUnlessReset, Busy
<1> QED
  BY <1>2, <1>3, <1>4 DEF Inv

LEMMA ResetRunningKeeps == ASSUME Inv, ResetSees \/ ResetCancels \/ ResetEnds PROVE Inv'
<1>1. /\ UNCHANGED <<cancel, result>> /\ ProcessOK' /\ FilesOK'
  BY DEF ResetSees, ResetCancels, ResetEnds, ResetKept, files, history, Inv, ProcessOK, FilesOK
<1>2. CASE ResetSees
  <2>1. HandlerOK'
    BY <1>1, <1>2, Constants DEF ResetSees, Inv, HandlerOK
  <2>2. WorkOK' /\ OneApplyUnlessReset'
    BY <1>2 DEF ResetSees, Inv, WorkOK, OneApplyUnlessReset, Busy
  <2> QED
    BY <1>1, <2>1, <2>2 DEF Inv
<1>3. CASE ResetCancels
  <2>1. HandlerOK'
    BY <1>1, <1>3 DEF ResetCancels, Inv, HandlerOK
  <2>2. CASE work' = work
    BY <1>1, <1>3, <2>1, <2>2 DEF ResetCancels, Inv, WorkOK, OneApplyUnlessReset, Busy
  <2>3. CASE cancel \in Appliers /\ work' = [work EXCEPT ![cancel].cancelled = TRUE]
    <3> DEFINE w == [work[cancel] EXCEPT !.cancelled = TRUE]
    <3>1. /\ w \in Worker /\ w.at = work[cancel].at /\ w.by = work[cancel].by
          /\ w.v = work[cancel].v /\ w.base = work[cancel].base
          /\ work' = [work EXCEPT ![cancel] = w] /\ work \in [Appliers -> Worker]
      BY <2>3 DEF Inv, WorkOK, Worker
    <3> HIDE DEF w
    <3>2. WorkOK'
      BY <2>3, <3>1 DEF Inv, WorkOK, Sized
    <3>3. \A b \in Appliers : Busy(b)' <=> Busy(b)
      BY <2>3, <3>1 DEF Busy
    <3>4. OneApplyUnlessReset'
      BY <1>3, <3>3 DEF ResetCancels, Inv, OneApplyUnlessReset
    <3> QED
      BY <1>1, <2>1, <3>2, <3>4 DEF Inv
  <2> QED
    BY <1>3, <2>2, <2>3 DEF ResetCancels, Inv, HandlerOK
<1>4. CASE ResetEnds
  <2>1. state' \in States
    BY <1>4, StateIs DEF ResetEnds, Swapped, States
  <2>2. resets \in 0 .. MaxResets /\ resets < MaxResets
    BY <1>4 DEF ResetEnds, Inv, HandlerOK
  <2>3. resets' \in 0 .. MaxResets /\ (resets' = 0 => resets = 0 /\ state # "running")
    BY <1>4, <2>2, Constants DEF ResetEnds
  <2>4. HandlerOK'
    BY <1>1, <1>4, <2>1, <2>3 DEF ResetEnds, Inv, HandlerOK
  <2>5. state # "running" => state' = state
    BY <1>4 DEF ResetEnds, Swapped
  <2>6. WorkOK' /\ work' = work
    BY <1>4 DEF ResetEnds, Inv, WorkOK
  <2>7. OneApplyUnlessReset'
    BY <2>3, <2>5, <2>6 DEF Inv, OneApplyUnlessReset, Busy
  <2> QED
    BY <1>1, <2>4, <2>6, <2>7 DEF Inv
<1> QED
  BY <1>2, <1>3, <1>4

LEMMA RestartRequestKeeps == ASSUME Inv, RestartRequest PROVE Inv'
<1>1. ProcessOK' /\ FilesOK'
  BY DEF RestartRequest, files, history, Inv, ProcessOK, FilesOK
<1>2. HandlerOK' /\ WorkOK' /\ OneApplyUnlessReset'
  BY DEF RestartRequest, Inv, HandlerOK, WorkOK, OneApplyUnlessReset, Busy
<1> QED
  BY <1>1, <1>2 DEF Inv

LEMMA ReexecKeeps == ASSUME Inv, Reexec \/ ReexecFails PROVE Inv'
<1>1. CASE Reexec
  BY <1>1, StartsKeeps, PathIsName DEF Reexec, Inv
<1>2. CASE ReexecFails
  <2>1. ProcessOK' /\ FilesOK'
    BY <1>2 DEF ReexecFails, files, history, Inv, ProcessOK, FilesOK
  <2>2. HandlerOK' /\ WorkOK' /\ OneApplyUnlessReset'
    BY <1>2 DEF ReexecFails, Inv, HandlerOK, WorkOK, OneApplyUnlessReset, Busy
  <2> QED
    BY <2>1, <2>2 DEF Inv
<1> QED
  BY <1>1, <1>2

----------------------------------------------------------------------------
(* The checker. *)

LEMMA PublishKeeps == ASSUME Inv, Publish PROVE Inv'
<1>1. latest' \in Releases
  BY Constants DEF Publish, Releases, Inv, ProcessOK
<1>2. ProcessOK' /\ FilesOK'
  BY <1>1 DEF Publish, memory, files, history, Inv, ProcessOK, FilesOK
<1>3. HandlerOK' /\ WorkOK' /\ OneApplyUnlessReset'
  BY DEF Publish, memory, Inv, HandlerOK, WorkOK, OneApplyUnlessReset, Busy
<1> QED
  BY <1>2, <1>3 DEF Inv

LEMMA CheckFailsKeeps == ASSUME Inv, CheckFails \/ CheckNotModified PROVE Inv'
<1>1. /\ result' = NoResult /\ etag' \in {etag, latest}
      /\ UNCHANGED <<host, latest, running, serving, state, cancel, reset, quitting, work,
                     resets, files, history>>
  BY DEF CheckFails, CheckNotModified
<1>2. NoResult \in Result /\ etag' \in 0 .. MaxVersion
  BY <1>1, Constants DEF NoResult, Result, Inv, ProcessOK
<1>3. ProcessOK' /\ FilesOK'
  BY <1>1, <1>2 DEF files, history, Inv, ProcessOK, FilesOK
<1>4. HandlerOK' /\ WorkOK' /\ OneApplyUnlessReset'
  BY <1>1, <1>2 DEF Inv, HandlerOK, WorkOK, OneApplyUnlessReset, Busy
<1> QED
  BY <1>3, <1>4 DEF Inv

LEMMA CheckFindsKeeps == ASSUME Inv, CheckFinds PROVE Inv'
<1>1. /\ etag' = latest /\ latest \in Releases
      /\ UNCHANGED <<host, latest, running, serving, state, cancel, reset, quitting,
                     resets, files, history>>
  BY DEF CheckFinds, Inv, ProcessOK
<1>2. result' \in Result /\ (result' = NoResult \/ result'.v \in Releases)
  <2> DEFINE x == [v |-> latest, pending |-> FALSE]
  <2>1. NoResult \in Result /\ x \in Result /\ x.v \in Releases
    BY <1>1, Constants DEF NoResult, Result
  <2>2. result' = NoResult \/ result' = x
    BY DEF CheckFinds
  <2> HIDE DEF x
  <2>3. CASE result' = x
    BY <2>1, <2>3
  <2> QED
    BY <2>1, <2>2, <2>3
<1>3. ProcessOK' /\ FilesOK'
  BY <1>1, Constants DEF files, history, Inv, ProcessOK, FilesOK
<1>4. HandlerOK'
  BY <1>1, <1>2 DEF Inv, HandlerOK
<1>5. CASE work' = work
  BY <1>1, <1>3, <1>4, <1>5 DEF Inv, WorkOK, OneApplyUnlessReset, Busy
<1>6. ASSUME NEW a \in Appliers, work[a].at = "none",
             work' = [work EXCEPT ![a] = [Free EXCEPT !.at = "begin", !.by = "auto", !.v = latest]]
      PROVE  Inv'
  <2> DEFINE w == [Free EXCEPT !.at = "begin", !.by = "auto", !.v = latest]
  <2>1. w \in Worker /\ w.at = "begin" /\ w.by = "auto" /\ w.v = latest
    BY <1>1, FreeIs, Constants DEF Worker, Stages
  <2>2. work' = [work EXCEPT ![a] = w]
    BY <1>6
  <2> HIDE DEF w
  <2>3. work'[a] = w /\ \A b \in Appliers \ {a} : work'[b] = work[b]
    BY <2>2 DEF Inv, WorkOK
  <2>4. WorkOK'
    BY <1>1, <2>1, <2>2, <2>3 DEF Inv, WorkOK, Sized
  <2>5. \A b \in Appliers : Busy(b)' <=> Busy(b)
    BY <1>6, <2>1, <2>3 DEF Busy
  <2>6. OneApplyUnlessReset'
    BY <1>1, <2>5 DEF Inv, OneApplyUnlessReset
  <2> QED
    BY <1>3, <1>4, <2>4, <2>6 DEF Inv
<1> QED
  BY <1>5, <1>6 DEF CheckFinds

----------------------------------------------------------------------------
(* The theorems. *)

LEMMA NextKeeps == Inv /\ [Next]_vars => Inv'
<1> SUFFICES ASSUME Inv, [Next]_vars PROVE Inv'
  OBVIOUS
<1>1. CASE Boot \/ Crash
  BY <1>1, StartsKeeps, DiesKeeps, Constants DEF Boot, Crash
<1>2. CASE Requested
  BY <1>2, ResetFailedKeeps, ResetRunningKeeps, RestartRequestKeeps, ReexecKeeps DEF Requested
<1>3. CASE \E a \in Appliers : Claim(a) \/ Apply(a)
  BY <1>3, ClaimKeeps, ApplyKeeps
<1>4. CASE Publish \/ CheckFails \/ CheckNotModified \/ CheckFinds
  BY <1>4, PublishKeeps, CheckFailsKeeps, CheckFindsKeeps
<1> QED
  BY <1>1, <1>2, <1>3, <1>4, StutterKeeps DEF Next

LEMMA Invariant == Spec => []Inv
BY InitHolds, NextKeeps, PTL DEF Spec

\* Every reachable state is well typed: the names of the binary stay within
\* their bound, and nothing is applied that is not a release.
THEOREM UpdateTyped == Spec => []TypeOK
<1>1. Inv => TypeOK
  BY DEF Inv, ProcessOK, HandlerOK, WorkOK, FilesOK, TypeOK
<1> QED
  BY <1>1, Invariant, PTL

\* For any number of requests and checks, the state says running exactly while
\* one goroutine of the admin's works, until a running apply is reset.
THEOREM OneApply == Spec => []OneApplyUnlessReset
<1>1. Inv => OneApplyUnlessReset
  BY DEF Inv
<1> QED
  BY <1>1, Invariant, PTL

----------------------------------------------------------------------------
(* The files. While the goroutines keep apart and every way back works:    *)
(* what the one that works is writing is its own (Exclusive), and a whole  *)
(* binary stays under the name the process will be started from (Safe): on *)
(* Linux the running one under the name it was renamed to, on Windows the  *)
(* installed one, moved aside to name 1 from MoveAside until Install. A    *)
(* restart is offered only when that name holds a newer release.           *)

Mine(a) == work[a].at \in {"moved", "filling"}
AtBase == \E a \in Appliers : Mine(a) /\ work[a].base = 0
Kept == IF AtBase THEN 1 ELSE 0
Offered == RestartPending \/ quitting \/ \E a \in Appliers : work[a].at = "pending"

Newer ==
    /\ result # NoResult => result.v > running
    /\ \A a \in Appliers : work[a].at \notin {"none", "claimed"} => work[a].v > running

OneWorks == \A a, b \in Appliers : work[a].at \in Working /\ work[b].at \in Working => a = b

Held(a) ==
    LET w == work[a] IN
    /\ w.at = "copying" => tmp[w.v] = [v |-> w.v, by |-> a]
    /\ w.at \in {"staged", "moved"} => staged[w.v] = [v |-> w.v, by |-> Sound]
    /\ w.at = "moved" => name[w.base] = Absent
    /\ w.at = "filling" => name[w.base] = [v |-> w.v, by |-> a]

Exclusive == ~overlapped => OneWorks /\ \A a \in Appliers : Held(a)

Executable == IF Up THEN Whole(name[Kept]) ELSE Whole(name[0]) \/ Whole(name[1])

OnLinux ==
    /\ ~image.gone
    /\ Whole(name[image.at]) /\ name[image.at].v = running
    /\ \A a \in Appliers : Mine(a) => image.at = work[a].base + 1
    /\ image.at = 0 \/ AtBase \/ name[0].v > running
    /\ Offered => image.at # 0 /\ ~AtBase

OnWindows ==
    /\ \A a \in Appliers : Mine(a) => work[a].base = 0
    /\ Offered => name[Kept].v > running

Safe ==
    ~overlapped /\ ~broken =>
        /\ Executable
        /\ Up => IF host.os = "linux" THEN OnLinux ELSE OnWindows

FilesInv == Inv /\ Newer /\ Exclusive /\ Safe

LEMMA WorkIs ==
    ASSUME Inv, NEW a \in Appliers, NEW w, work' = [work EXCEPT ![a] = w]
    PROVE  work'[a] = w /\ \A b \in Appliers \ {a} : work'[b] = work[b]
BY DEF Inv, WorkOK

LEMMA AtIs ==
    ASSUME Inv, NEW a \in Appliers, NEW s, work' = [work EXCEPT ![a].at = s]
    PROVE  /\ work'[a].at = s /\ work'[a].v = work[a].v /\ work'[a].base = work[a].base
           /\ \A b \in Appliers \ {a} : work'[b] = work[b]
BY DEF Inv, WorkOK, Worker

LEMMA OneIsName == 1 \in Names /\ 0 \in Names
BY UpdateAssumption DEF Names

----------------------------------------------------------------------------
(* Nothing is offered, fetched or installed that is not newer.             *)

LEMMA NewerStep ==
    ASSUME Inv, Newer, running' = running,
           result' \in {NoResult, result} \/ result'.v > running,
           \A b \in Appliers : \/ work'[b].at \in {"none", "claimed"}
                               \/ work'[b].v > running
                               \/ work'[b].at = work[b].at /\ work'[b].v = work[b].v
    PROVE  Newer'
BY DEF Newer, NoResult

LEMMA ForgetsNewer == ASSUME Forgets PROVE Newer'
BY FreeIs DEF Forgets, Newer

LEMMA GotoNewer ==
    ASSUME Inv, Newer, NEW a \in Appliers, NEW s, work' = [work EXCEPT ![a].at = s],
           work[a].at \notin {"none", "claimed"}, running' = running, result' = result
    PROVE  Newer'
BY AtIs, NewerStep DEF Newer

LEMMA ApplyNewer == ASSUME Inv, Newer, NEW a \in Appliers, Apply(a) PROVE Newer'
<1>1. CASE Choose(a)
  <2>1. running' = running /\ result' = result
    BY <1>1 DEF Choose, UpdateHandlerKept
  <2>2. CASE work' = [work EXCEPT ![a].at = "none"]
    BY <2>1, <2>2, AtIs, NewerStep
  <2>3. CASE /\ result # NoResult
             /\ work' = [work EXCEPT ![a].at = "chosen", ![a].v = result.v]
    <3>1. work'[a].v = result.v /\ \A b \in Appliers \ {a} : work'[b] = work[b]
      BY <2>3 DEF Inv, WorkOK, Worker
    <3>2. result.v > running
      BY <2>3 DEF Newer
    <3> QED
      BY <2>1, <3>1, <3>2, NewerStep
  <2> QED
    BY <1>1, <2>2, <2>3 DEF Choose, Goto
<1>2. CASE Launch(a)
  BY <1>2, GotoNewer DEF Launch, Goto, UpdateHandlerKept
<1>3. CASE Unpack(a) \/ Stage(a)
  BY <1>3, GotoNewer DEF Unpack, Stage, Goto, Worked
<1>4. CASE MoveAside(a)
  <2>1. /\ running' = running /\ result' = result /\ work[a].at = "staged"
        /\ work' = [work EXCEPT ![a].at = "moved", ![a].base = Path]
    BY <1>4 DEF MoveAside, Worked
  <2>2. work'[a].v = work[a].v /\ \A b \in Appliers \ {a} : work'[b] = work[b]
    BY <2>1 DEF Inv, WorkOK, Worker
  <2>3. work[a].v > running
    BY <2>1 DEF Newer
  <2> QED
    BY <2>1, <2>2, <2>3, NewerStep
<1>5. CASE Install(a)
  <2>1. /\ running' = running /\ result' = result /\ work[a].at = "moved"
        /\ \E s \in {Outcome, "failed", "filling"} : work' = [work EXCEPT ![a].at = s]
    BY <1>5 DEF Install, Worked, Goto
  <2> QED
    BY <2>1, GotoNewer
<1>6. CASE Fill(a)
  <2>1. /\ running' = running /\ result' = result /\ work[a].at = "filling"
        /\ \E s \in {Outcome, "failed"} : work' = [work EXCEPT ![a].at = s]
    BY <1>6 DEF Fill, Worked, Goto
  <2> QED
    BY <2>1, GotoNewer
<1>7. CASE Restart(a)
  BY <1>7, ForgetsNewer DEF Restart, Starts, Dies
<1>8. CASE PutBack(a) \/ FailDownload(a) \/ FailExtract(a) \/ FailReplace(a) \/ FailRestart(a)
  <2>1. /\ running' = running /\ result' = result /\ work[a].at \notin {"none", "claimed"}
        /\ work' = [work EXCEPT ![a].at = "failed"]
    BY <1>8 DEF PutBack, FailDownload, FailExtract, FailReplace, FailRestart, Fails, Goto, Worked
  <2> QED
    BY <2>1, GotoNewer
<1>9. CASE Report(a)
  <2>1. running' = running /\ work[a].v > running
    BY <1>9 DEF Report, UpdateHandlerKept, Newer
  <2>2. CASE result' = result /\ work' = [work EXCEPT ![a].at = "closing"]
    BY <1>9, <2>1, <2>2, GotoNewer DEF Report
  <2>3. CASE /\ work' = [work EXCEPT ![a] = Free]
             /\ result' \in {result, [v |-> work[a].v, pending |-> TRUE]}
    BY <2>1, <2>3, WorkIs, FreeIs, NewerStep
  <2> QED
    BY <1>9, <2>2, <2>3 DEF Report, Goto
<1>10. CASE Close(a)
  BY <1>10, WorkIs, FreeIs, NewerStep DEF Close, UpdateHandlerKept
<1> QED
  BY <1>1, <1>2, <1>3, <1>4, <1>5, <1>6, <1>7, <1>8, <1>9, <1>10 DEF Apply

LEMMA NewerKeeps == ASSUME Inv, Newer, [Next]_vars PROVE Newer'
<1>1. CASE Boot \/ Crash \/ Reexec
  BY <1>1, ForgetsNewer DEF Boot, Crash, Reexec, Starts, Dies
<1>2. CASE Publish \/ CheckFails \/ CheckNotModified \/ RestartRequest \/ ReexecFails
           \/ ResetFailed \/ ResetSees \/ ResetEnds \/ UNCHANGED vars
  <2>1. running' = running /\ work' = work /\ result' \in {NoResult, result}
    BY <1>2 DEF Publish, CheckFails, CheckNotModified, RestartRequest, ReexecFails, ResetFailed,
       ResetSees, ResetEnds, ResetKept, UpdateHandlerKept, vars, memory
  <2> QED
    BY <2>1, NewerStep
<1>3. CASE CheckFinds
  <2>1. running' = running /\ latest \in Releases
    BY <1>3 DEF CheckFinds, Inv, ProcessOK
  <2>2. result' = NoResult \/ (result'.v = latest /\ latest > running)
    BY <1>3 DEF CheckFinds
  <2>3. CASE work' = work
    BY <2>1, <2>2, <2>3, NewerStep
  <2>4. ASSUME NEW a \in Appliers, result' # NoResult,
               work' = [work EXCEPT ![a] = [Free EXCEPT !.at = "begin", !.by = "auto", !.v = latest]]
        PROVE  Newer'
    <3> DEFINE w == [Free EXCEPT !.at = "begin", !.by = "auto", !.v = latest]
    <3>1. w.v = latest /\ work' = [work EXCEPT ![a] = w]
      BY <2>4, FreeIs DEF Worker
    <3> HIDE DEF w
    <3>2. work'[a] = w /\ \A b \in Appliers \ {a} : work'[b] = work[b]
      BY <3>1, WorkIs
    <3> QED
      BY <2>1, <2>2, <2>4, <3>1, <3>2, NewerStep
  <2> QED
    BY <1>3, <2>3, <2>4 DEF CheckFinds
<1>4. CASE ResetCancels
  <2>1. running' = running /\ result' = result
    BY <1>4 DEF ResetCancels, ResetKept
  <2>2. \A b \in Appliers : work'[b].at = work[b].at /\ work'[b].v = work[b].v
    BY <1>4 DEF ResetCancels, Inv, WorkOK, Worker
  <2> QED
    BY <2>1, <2>2, NewerStep
<1>5. ASSUME NEW a \in Appliers, Claim(a) PROVE Newer'
  <2> DEFINE w == [Free EXCEPT !.at = "claimed"]
  <2>1. w.at = "claimed" /\ work' = [work EXCEPT ![a] = w]
    BY <1>5, FreeIs DEF Claim, Worker
  <2> HIDE DEF w
  <2>2. work'[a] = w /\ \A b \in Appliers \ {a} : work'[b] = work[b]
    BY <2>1, WorkIs
  <2> QED
    BY <1>5, <2>1, <2>2, NewerStep DEF Claim, UpdateHandlerKept
<1> QED
  BY <1>1, <1>2, <1>3, <1>4, <1>5, ApplyNewer DEF Next, Requested

----------------------------------------------------------------------------
(* The goroutine that works alone writes what it believes it writes.       *)

LEMMA Reserved == Sound \notin Appliers /\ Torn \notin Appliers /\ Sound # Torn
BY UpdateAssumption

LEMMA OtherStages == \A s \in {"none", "claimed", "chosen", "begin", "failed", "pending", "closing"} :
    s \notin Working
BY DEF Working

\* Nothing on disk changes, and nobody enters or moves within the copying.
LEMMA ExclusiveCalm ==
    ASSUME Inv, Exclusive, UNCHANGED <<name, tmp, staged, overlapped>>,
           \A b \in Appliers : work'[b].at \in Working =>
               /\ work'[b].at = work[b].at /\ work'[b].v = work[b].v
               /\ work'[b].base = work[b].base
    PROVE  Exclusive'
<1> SUFFICES ASSUME ~overlapped PROVE OneWorks' /\ \A b \in Appliers : Held(b)'
  BY DEF Exclusive
<1>1. OneWorks'
  BY DEF Exclusive, OneWorks
<1>2. ASSUME NEW b \in Appliers PROVE Held(b)'
  <2>1. Held(b)
    BY DEF Exclusive
  <2> QED
    BY <2>1 DEF Held, Working
<1> QED
  BY <1>1, <1>2

LEMMA Alone ==
    ASSUME Exclusive, ~overlapped, NEW a \in Appliers, work[a].at \in Working
    PROVE  Held(a) /\ \A b \in Appliers \ {a} : work[b].at \notin Working
BY DEF Exclusive, OneWorks

LEMMA ExclusiveAlone ==
    ASSUME Exclusive, NEW a \in Appliers, \A b \in Appliers \ {a} : work'[b] = work[b],
           ~overlapped' => /\ Held(a)'
                           /\ \A b \in Appliers \ {a} : work[b].at \notin Working
    PROVE  Exclusive'
BY DEF Exclusive, OneWorks, Held, Working

LEMMA ForgetsExclusive == ASSUME Forgets PROVE Exclusive'
BY FreeIs DEF Forgets, Exclusive, OneWorks, Held, Working

LEMMA UnpackExclusive == ASSUME Inv, Exclusive, NEW a \in Appliers, Unpack(a) PROVE Exclusive'
<1>1. /\ work'[a].at = "copying" /\ work'[a].v = work[a].v /\ work[a].v \in Releases
      /\ \A b \in Appliers \ {a} : work'[b] = work[b]
  BY AtIs DEF Unpack, Goto, Inv, WorkOK, Sized
<1>2. tmp'[work[a].v] = [v |-> work[a].v, by |-> a]
  BY <1>1 DEF Unpack, Inv, FilesOK
<1>3. Held(a)'
  BY <1>1, <1>2 DEF Held
<1>4. ~overlapped' => \A b \in Appliers \ {a} : work[b].at \notin Working
  BY DEF Unpack, Overlap
<1> QED
  BY <1>1, <1>3, <1>4, ExclusiveAlone

LEMMA StageExclusive == ASSUME Inv, Exclusive, NEW a \in Appliers, Stage(a) PROVE Exclusive'
<1> DEFINE v == work[a].v
           t == EndsAll(tmp, a, Sound)
           g == EndsAll(staged, a, Sound)
<1>1. /\ work[a].at = "copying" /\ work'[a].at = "staged" /\ work'[a].v = v /\ v \in Releases
      /\ overlapped' = overlapped /\ \A b \in Appliers \ {a} : work'[b] = work[b]
  BY AtIs DEF Stage, Goto, history, Inv, WorkOK, Sized
<1>2. work[a].at \in Working
  BY <1>1 DEF Working
<1>3. staged' = [g EXCEPT ![v] = t[v]]
  BY DEF Stage
<1>4. g \in [Releases -> File] /\ v \in DOMAIN tmp
  BY <1>1, EndsAllTyped DEF Inv, FilesOK
<1>5. staged'[v] = t[v]
  BY <1>1, <1>3, <1>4
<1>6. tmp[v] = [v |-> v, by |-> a] => t[v] = [v |-> v, by |-> Sound]
  BY <1>4 DEF EndsAll, Ends
<1> HIDE DEF t, g
<1>7. ~overlapped => Held(a)' /\ \A b \in Appliers \ {a} : work[b].at \notin Working
  BY <1>1, <1>2, <1>5, <1>6, Alone DEF Held
<1> QED
  BY <1>1, <1>7, ExclusiveAlone

LEMMA MoveAsideExclusive ==
    ASSUME Inv, Exclusive, NEW a \in Appliers, MoveAside(a) PROVE Exclusive'
<1>1. /\ work[a].at = "staged" /\ work' = [work EXCEPT ![a].at = "moved", ![a].base = Path]
      /\ staged' = staged /\ overlapped' = overlapped
  BY DEF MoveAside, history
<1>2. /\ work'[a].at = "moved" /\ work'[a].v = work[a].v /\ work'[a].base = Path
      /\ \A b \in Appliers \ {a} : work'[b] = work[b]
  BY <1>1 DEF Inv, WorkOK, Worker
<1>5. name'[Path] = Absent
  <2>1. /\ Path \in Names /\ Path + 1 # Path
        /\ name' = [name EXCEPT ![Path + 1] = name[Path], ![Path] = Absent]
    BY PathIsName, Constants DEF MoveAside, Inv, Names
  <2> QED
    BY <2>1 DEF Inv, FilesOK
<1>3. work[a].at \in Working
  BY <1>1 DEF Working
<1>4. ~overlapped => Held(a)' /\ \A b \in Appliers \ {a} : work[b].at \notin Working
  BY <1>1, <1>2, <1>3, <1>5, Alone DEF Held
<1> QED
  BY <1>1, <1>2, <1>4, ExclusiveAlone

LEMMA InstallExclusive == ASSUME Inv, Exclusive, NEW a \in Appliers, Install(a) PROVE Exclusive'
<1> DEFINE v == work[a].v
           k == work[a].base
<1>1. work[a].at = "moved" /\ overlapped' = overlapped /\ k \in Names /\ staged[v] # Absent
  BY DEF Install, history, Inv, WorkOK, Worker
<1>2. work[a].at \in Working
  BY <1>1 DEF Working
<1>3. ASSUME NEW s \in {Outcome, "failed"}, work' = [work EXCEPT ![a].at = s]
      PROVE  Held(a)' /\ \A b \in Appliers \ {a} : work'[b] = work[b]
  BY <1>3, AtIs, OutcomeIs DEF Held
<1>4. ASSUME name' = [name EXCEPT ![k] = [v |-> v, by |-> IF Whole(staged[v]) THEN a ELSE Torn]],
             work' = [work EXCEPT ![a].at = "filling"], ~overlapped
      PROVE  Held(a)'
  <2>1. staged[v] = [v |-> v, by |-> Sound]
    BY <1>1, <1>2, <1>4, Alone DEF Held
  <2>2. name'[k] = [v |-> v, by |-> a]
    BY <1>1, <1>4, <2>1 DEF Inv, FilesOK, Whole
  <2>3. work'[a].at = "filling" /\ work'[a].v = v /\ work'[a].base = k
    BY <1>4, AtIs
  <2> QED
    BY <2>2, <2>3 DEF Held
<1>5. ~overlapped => \A b \in Appliers \ {a} : work[b].at \notin Working
  BY <1>2, Alone
<1>6. CASE work' = [work EXCEPT ![a].at = Outcome] \/ work' = [work EXCEPT ![a].at = "failed"]
  BY <1>1, <1>3, <1>5, <1>6, ExclusiveAlone
<1>7. CASE /\ name' = [name EXCEPT ![k] = [v |-> v, by |-> IF Whole(staged[v]) THEN a ELSE Torn]]
           /\ work' = [work EXCEPT ![a].at = "filling"]
  <2>1. \A b \in Appliers \ {a} : work'[b] = work[b]
    BY <1>7, AtIs
  <2> QED
    BY <1>1, <1>4, <1>5, <1>7, <2>1, ExclusiveAlone
<1> QED
  BY <1>6, <1>7 DEF Install, Goto

\* A goroutine that has done with the files holds none.
LEMMA EndExclusive ==
    ASSUME Inv, Exclusive, NEW a \in Appliers, NEW s \in {"restart", "pending", "failed"},
           work[a].at \in Working, work' = [work EXCEPT ![a].at = s], overlapped' = overlapped
    PROVE  Exclusive'
<1>1. Held(a)' /\ \A b \in Appliers \ {a} : work'[b] = work[b]
  BY AtIs DEF Held
<1>2. ~overlapped => \A b \in Appliers \ {a} : work[b].at \notin Working
  BY Alone
<1> QED
  BY <1>1, <1>2, ExclusiveAlone

LEMMA ApplyExclusive == ASSUME Inv, Exclusive, NEW a \in Appliers, Apply(a) PROVE Exclusive'
<1>1. CASE Choose(a)
  <2>1. UNCHANGED <<name, tmp, staged, overlapped>>
    BY <1>1 DEF Choose, files, history
  <2>2. work'[a].at \in {"none", "chosen"} /\ \A b \in Appliers \ {a} : work'[b] = work[b]
    BY <1>1 DEF Choose, Goto, Inv, WorkOK, Worker
  <2> QED
    BY <2>1, <2>2, ExclusiveCalm, OtherStages
<1>2. CASE Launch(a) \/ Report(a) \/ Close(a) \/ FailDownload(a)
  <2>1. UNCHANGED <<name, tmp, staged, overlapped>>
    BY <1>2 DEF Launch, Report, Close, FailDownload, Fails, files, history
  <2>2. \/ work' = [work EXCEPT ![a] = Free]
        \/ \E s \in {"begin", "closing", "failed"} : work' = [work EXCEPT ![a].at = s]
    BY <1>2 DEF Launch, Report, Close, FailDownload, Fails, Goto
  <2>3. /\ work'[a].at \in {"none", "begin", "closing", "failed"}
        /\ \A b \in Appliers \ {a} : work'[b] = work[b]
    BY <2>2, AtIs, WorkIs, FreeIs
  <2> QED
    BY <2>1, <2>3, ExclusiveCalm, OtherStages
<1>3. CASE Fill(a) \/ PutBack(a) \/ FailExtract(a) \/ FailReplace(a) \/ FailRestart(a)
  <2>1. work[a].at \in Working /\ overlapped' = overlapped
    BY <1>3 DEF Fill, PutBack, FailExtract, FailReplace, FailRestart, Fails, history, Working
  <2>2. \E s \in {"restart", "pending", "failed"} : work' = [work EXCEPT ![a].at = s]
    BY <1>3, OutcomeIs DEF Fill, PutBack, FailExtract, FailReplace, FailRestart, Fails, Goto
  <2> QED
    BY <2>1, <2>2, EndExclusive
<1>4. CASE Restart(a)
  BY <1>4, ForgetsExclusive DEF Restart, Starts, Dies
<1> QED
  BY <1>1, <1>2, <1>3, <1>4, UnpackExclusive, StageExclusive, MoveAsideExclusive,
     InstallExclusive DEF Apply

LEMMA ExclusiveKeeps == ASSUME Inv, Exclusive, [Next]_vars PROVE Exclusive'
<1>1. CASE Boot \/ Crash \/ Reexec
  BY <1>1, ForgetsExclusive DEF Boot, Crash, Reexec, Starts, Dies
<1>2. CASE Publish \/ CheckFails \/ CheckNotModified \/ CheckFinds \/ Requested \/ UNCHANGED vars
  <2>1. CASE Reexec
    BY <1>1, <2>1
  <2>2. CASE ~Reexec
    <3>1. UNCHANGED <<name, tmp, staged, overlapped>>
      BY <1>2, <2>2 DEF Publish, CheckFails, CheckNotModified, CheckFinds, Requested, RestartRequest,
         ReexecFails, ResetFailed, ResetSees, ResetCancels, ResetEnds, ResetKept,
         UpdateHandlerKept, vars, files, history
    <3>2. CASE work' = work
      BY <3>1, <3>2, ExclusiveCalm
    <3>3. ASSUME NEW a \in Appliers,
                 work' = [work EXCEPT ![a] = [Free EXCEPT !.at = "begin", !.by = "auto", !.v = latest]]
          PROVE  Exclusive'
      <4> DEFINE w == [Free EXCEPT !.at = "begin", !.by = "auto", !.v = latest]
      <4>1. w.at = "begin" /\ work' = [work EXCEPT ![a] = w]
        BY <3>3, FreeIs DEF Worker
      <4> HIDE DEF w
      <4>2. work'[a] = w /\ \A b \in Appliers \ {a} : work'[b] = work[b]
        BY <4>1, WorkIs
      <4> QED
        BY <3>1, <4>1, <4>2, ExclusiveCalm, OtherStages
    <3>4. CASE ResetCancels
      <4>1. \A b \in Appliers : work'[b].at = work[b].at /\ work'[b].v = work[b].v
                                /\ work'[b].base = work[b].base
        BY <3>4 DEF ResetCancels, Inv, WorkOK, Worker
      <4> QED
        BY <3>1, <4>1, ExclusiveCalm
    <3> QED
      BY <1>2, <2>2, <3>2, <3>3, <3>4 DEF Publish, CheckFails, CheckNotModified, CheckFinds, Requested,
         RestartRequest, ReexecFails, ResetFailed, ResetSees, ResetEnds, ResetKept,
         UpdateHandlerKept, vars, memory
  <2> QED
    BY <2>1, <2>2
<1>3. ASSUME NEW a \in Appliers, Claim(a) PROVE Exclusive'
  <2> DEFINE w == [Free EXCEPT !.at = "claimed"]
  <2>1. w.at = "claimed" /\ work' = [work EXCEPT ![a] = w]
    BY <1>3, FreeIs DEF Claim, Worker
  <2> HIDE DEF w
  <2>2. work'[a] = w /\ \A b \in Appliers \ {a} : work'[b] = work[b]
    BY <2>1, WorkIs
  <2>3. UNCHANGED <<name, tmp, staged, overlapped>>
    BY <1>3 DEF Claim, files, history
  <2> QED
    BY <2>1, <2>2, <2>3, ExclusiveCalm, OtherStages
<1> QED
  BY <1>1, <1>2, <1>3, ApplyExclusive DEF Next

----------------------------------------------------------------------------
(* Nothing works while the server is down.                                 *)

Awake == Up \/ (~quitting /\ \A a \in Appliers : work[a].at = "none")

LEMMA AwakeKeeps == ASSUME Inv, Awake, [Next]_vars PROVE Awake'
<1>1. CASE Forgets
  BY <1>1, FreeIs DEF Forgets, Awake
<1>2. CASE UNCHANGED <<running, quitting, work>>
  BY <1>2 DEF Awake, Up
<1>3. ASSUME Up, running' = running PROVE Awake'
  BY <1>3 DEF Awake, Up
<1>4. CASE Boot \/ Crash
  BY <1>1, <1>4 DEF Boot, Crash, Starts, Dies
<1>5. CASE Publish \/ UNCHANGED vars
  BY <1>2, <1>5 DEF Publish, memory, vars
<1>6. CASE CheckFails \/ CheckNotModified \/ CheckFinds
  BY <1>3, <1>6 DEF CheckFails, CheckNotModified, CheckFinds
<1>7. CASE Requested
  <2>1. CASE ResetFailed \/ ResetSees \/ RestartRequest
    BY <1>3, <2>1 DEF ResetFailed, ResetSees, RestartRequest, UpdateHandlerKept, ResetKept
  <2>2. CASE ResetCancels
    <3>1. /\ running' = running /\ quitting' = quitting
          /\ \A b \in Appliers : work'[b].at = work[b].at
      BY <2>2 DEF ResetCancels, ResetKept, Inv, WorkOK, Worker
    <3> QED
      BY <3>1 DEF Awake, Up
  <2>3. CASE ResetEnds
    BY <1>2, <2>3 DEF ResetEnds, ResetKept
  <2>4. CASE Reexec \/ ReexecFails
    BY <1>1, <1>3, <2>4 DEF Reexec, ReexecFails, Starts, Awake
  <2> QED
    BY <1>7, <2>1, <2>2, <2>3, <2>4 DEF Requested
<1>8. ASSUME NEW a \in Appliers, Claim(a) PROVE Awake'
  BY <1>3, <1>8 DEF Claim, UpdateHandlerKept
<1>9. ASSUME NEW a \in Appliers, Apply(a) PROVE Awake'
  <2>1. work[a].at # "none" => Up
    BY DEF Awake
  <2>2. CASE Restart(a)
    BY <1>1, <2>2 DEF Restart, Starts, Dies
  <2>3. CASE ~Restart(a)
    <3>1. work[a].at # "none" /\ running' = running
      BY <1>9, <2>3 DEF Apply, Choose, Launch, Unpack, Stage, MoveAside, Install, Fill, PutBack,
         Report, Close, FailDownload, FailExtract, FailReplace, FailRestart, Fails, Worked,
         UpdateHandlerKept
    <3> QED
      BY <1>3, <2>1, <3>1
  <2> QED
    BY <2>2, <2>3
<1> QED
  BY <1>4, <1>5, <1>6, <1>7, <1>8, <1>9 DEF Next

----------------------------------------------------------------------------
(* Files that are whole stay as they are, whoever ends or gives up.        *)

LEMMA WholeHas == ASSUME NEW f \in File, Whole(f) PROVE f.v \in Releases /\ f.by = Sound
BY DEF Whole, File

LEMMA MarkedKeeps ==
    ASSUME NEW f \in File, NEW mark, f.by \in Appliers
    PROVE  [f EXCEPT !.by = mark].v = f.v /\ ~Whole(f)
<1>1. f \in [v : Releases, by : Appliers \cup {Sound, Torn}]
  BY Reserved DEF File, Absent
<1> QED
  BY <1>1, Reserved DEF Whole

LEMMA EndsAllKeeps ==
    ASSUME NEW S, NEW fs \in [S -> File], NEW a \in Appliers, NEW mark, NEW k \in S
    PROVE  /\ EndsAll(fs, a, mark)[k].v = fs[k].v
           /\ Whole(fs[k]) => EndsAll(fs, a, mark)[k] = fs[k]
BY MarkedKeeps DEF EndsAll, Ends

LEMMA LeftKeeps ==
    ASSUME Inv, NEW k \in Names
    PROVE  Left[k].v = name[k].v /\ (Whole(name[k]) => Left[k] = name[k])
BY MarkedKeeps DEF Left, GivenUp, Inv, FilesOK

\* The image a process runs from is not a goroutine's business, and the names
\* that hold a whole binary are as they were.
LEMMA SafeKept ==
    ASSUME Inv, Safe, UNCHANGED <<host, running, image>>,
           overlapped => overlapped', broken => broken',
           \A k \in Names : name'[k].v = name[k].v /\ (Whole(name[k]) => name'[k] = name[k]),
           \A b \in Appliers : (Mine(b)' <=> Mine(b)) /\ (Mine(b) => work'[b].base = work[b].base),
           Offered' => Offered
    PROVE  Safe'
<1> SUFFICES ASSUME ~overlapped, ~broken
             PROVE  Executable' /\ (Up' => IF host.os = "linux" THEN OnLinux' ELSE OnWindows')
  BY DEF Safe
<1>1. (AtBase' <=> AtBase) /\ Kept' = Kept /\ Kept \in Names /\ (Up' <=> Up)
  BY OneIsName DEF AtBase, Kept, Up
<1>2. Executable'
  <2>1. \A k \in Names : Whole(name[k]) => Whole(name'[k])
    BY DEF Whole
  <2> QED
    BY <1>1, <2>1, OneIsName DEF Executable, Safe, Whole
<1>3. CASE Up /\ host.os = "linux"
  <2>1. OnLinux
    BY <1>3 DEF Safe
  <2>2. image.at \in Names
    BY DEF Inv, FilesOK
  <2>3. name'[image.at] = name[image.at] /\ name'[0].v = name[0].v
    BY <2>1, <2>2, OneIsName DEF OnLinux
  <2> QED
    BY <1>1, <1>2, <1>3, <2>1, <2>3 DEF OnLinux, Whole
<1>4. CASE Up /\ host.os # "linux"
  <2>1. OnWindows
    BY <1>4 DEF Safe
  <2> QED
    BY <1>1, <1>2, <1>4, <2>1 DEF OnWindows
<1> QED
  BY <1>1, <1>2, <1>3, <1>4

LEMMA SafeCalm ==
    ASSUME Inv, Safe, UNCHANGED <<host, running, image, name, overlapped, broken>>,
           \A b \in Appliers : /\ (Mine(b)' <=> Mine(b))
                               /\ Mine(b) => work'[b].base = work[b].base,
           Offered' => Offered
    PROVE  Safe'
<1>1. \A k \in Names : name'[k].v = name[k].v /\ (Whole(name[k]) => name'[k] = name[k])
  OBVIOUS
<1> QED
  BY <1>1, SafeKept

LEMMA DiesSafe == ASSUME FilesInv, Dies PROVE Safe'
<1>1. ~Up' /\ name' = Left /\ UNCHANGED history
  BY DEF Dies, Up, Down
<1>2. \A k \in Names : Whole(name[k]) => Whole(name'[k])
  BY <1>1, LeftKeeps DEF FilesInv, Whole
<1>3. ~overlapped /\ ~broken => Whole(name[0]) \/ Whole(name[1])
  BY DEF FilesInv, Safe, Executable, Kept
<1> QED
  BY <1>1, <1>2, <1>3, OneIsName DEF Safe, Executable, history, Whole

\* A start under name 0, or on Linux under a later one when a newer binary has
\* taken name 0, leaves the binary that the next start needs.
LEMMA StartsSafe ==
    ASSUME FilesInv, NEW k \in Names, Starts(k),
           ~overlapped /\ ~broken =>
             k = 0 \/ (host.os = "linux" /\ Whole(name[0]) /\ name[0].v > name[k].v)
    PROVE  Safe'
<1> SUFFICES ASSUME ~overlapped, ~broken
             PROVE  Executable' /\ (Up' => IF host.os = "linux" THEN OnLinux' ELSE OnWindows')
  BY DEF Safe, Starts, history
<1>1. /\ Whole(name[k]) /\ running' = name[k].v /\ image' = [at |-> k, gone |-> FALSE]
      /\ host' = host
  BY DEF Starts
<1>2. Whole(name[0])
  BY <1>1
<1>3. 0 # k + 1 /\ k # k + 1 /\ k \in Nat
  BY Constants DEF Names
<1>4. name'[0] = Left[0] /\ name'[k] = Left[k]
  BY <1>3, OneIsName DEF Starts, RemovesOld
<1>5. name'[0] = name[0] /\ name'[k] = name[k]
  BY <1>1, <1>2, <1>4, OneIsName, LeftKeeps DEF FilesInv
<1>6. \A b \in Appliers : ~Mine(b)' /\ work'[b].at # "pending"
  BY FreeIs DEF Starts, Forgets, Mine
<1>7. ~AtBase' /\ ~Offered' /\ Kept' = 0
  BY <1>6 DEF AtBase, Kept, Offered, RestartPending, Starts, Forgets, NoResult
<1>8. Up'
  BY <1>1, WholeHas, Constants DEF Up, Down, Releases, FilesInv, Inv, FilesOK
<1>9. Executable'
  BY <1>2, <1>5, <1>7, <1>8 DEF Executable, Whole
<1>10. CASE host.os = "linux"
  <2>1. k = 0 \/ name'[0].v > running'
    BY <1>1, <1>5
  <2> QED
    BY <1>1, <1>5, <1>6, <1>7, <1>9, <1>10, <2>1 DEF OnLinux, Whole
<1>11. CASE host.os # "linux"
  BY <1>1, <1>6, <1>7, <1>9, <1>11 DEF OnWindows
<1> QED
  BY <1>10, <1>11

\* Where a replaced process of this server is started from.
LEMMA PathStarts ==
    ASSUME FilesInv, Up, ~overlapped, ~broken, ~AtBase
    PROVE  Path = 0 \/ (host.os = "linux" /\ Whole(name[0]) /\ name[0].v > name[Path].v)
<1>1. Whole(name[0])
  BY DEF FilesInv, Safe, Executable, Kept
<1> QED
  BY <1>1 DEF FilesInv, Safe, OnLinux, Path

----------------------------------------------------------------------------
(* The steps of the goroutine that works alone.                            *)

LEMMA MineIsWorking == \A b \in Appliers : Mine(b) => work[b].at \in Working
BY DEF Mine, Working

LEMMA AloneMine ==
    ASSUME Exclusive, ~overlapped, NEW a \in Appliers, work[a].at \in Working,
           \A b \in Appliers \ {a} : work'[b] = work[b]
    PROVE  /\ \A b \in Appliers : (Mine(b) => b = a) /\ (Mine(b)' => b = a)
           /\ AtBase <=> Mine(a) /\ work[a].base = 0
           /\ AtBase' <=> Mine(a)' /\ work'[a].base = 0
<1>1. \A b \in Appliers \ {a} : ~Mine(b) /\ ~Mine(b)'
  BY Alone, MineIsWorking DEF Mine
<1> QED
  BY <1>1 DEF AtBase

LEMMA OfferedSame ==
    ASSUME UNCHANGED <<state, result, quitting>>, NEW a \in Appliers, work'[a].at # "pending",
           \A b \in Appliers \ {a} : work'[b] = work[b]
    PROVE  Offered' => Offered
BY DEF Offered, RestartPending

LEMMA EndsAllNames ==
    ASSUME Inv, NEW a \in Appliers, NEW mark, name' = EndsAll(name, a, mark)
    PROVE  \A k \in Names : name'[k].v = name[k].v /\ (Whole(name[k]) => name'[k] = name[k])
BY EndsAllKeeps DEF Inv, FilesOK

\* Copying a release and giving it up touch no name that holds a whole binary.
LEMMA CopyingSafe ==
    ASSUME FilesInv, NEW a \in Appliers,
           Unpack(a) \/ Stage(a) \/ FailExtract(a) \/ FailReplace(a)
    PROVE  Safe'
<1>1. /\ UNCHANGED <<host, running, image, state, result, quitting>>
      /\ broken' = broken
      /\ work[a].at \in {"begin", "copying", "staged"}
  BY DEF Unpack, Stage, FailExtract, FailReplace, Fails, Worked, history
<1>2. /\ work'[a].at \in {"copying", "staged", "failed"}
      /\ \A b \in Appliers \ {a} : work'[b] = work[b]
  BY AtIs DEF FilesInv, Unpack, Stage, FailExtract, FailReplace, Fails, Goto
<1>3. \A k \in Names : name'[k].v = name[k].v /\ (Whole(name[k]) => name'[k] = name[k])
  <2>1. CASE name' = name
    BY <2>1
  <2> QED
    BY <2>1, EndsAllNames DEF FilesInv, Unpack, Stage, FailExtract, FailReplace
<1>4. \A b \in Appliers : (Mine(b)' <=> Mine(b)) /\ (Mine(b) => work'[b].base = work[b].base)
  BY <1>1, <1>2 DEF Mine
<1>5. Offered' => Offered
  BY <1>1, <1>2, OfferedSame
<1>6. overlapped => overlapped'
  BY DEF Unpack, Stage, FailExtract, FailReplace, Fails, Overlap, history
<1> QED
  BY <1>1, <1>3, <1>4, <1>5, <1>6, SafeKept DEF FilesInv

LEMMA MoveAsideSafe == ASSUME FilesInv, Awake, NEW a \in Appliers, MoveAside(a) PROVE Safe'
<1> DEFINE k == Path
<1> SUFFICES ASSUME ~overlapped, ~broken
             PROVE  Executable' /\ (Up' => IF host.os = "linux" THEN OnLinux' ELSE OnWindows')
  BY DEF MoveAside, Worked, history, Safe
<1>1. /\ work[a].at = "staged" /\ work' = [work EXCEPT ![a].at = "moved", ![a].base = k]
      /\ UNCHANGED <<host, running, state, result, quitting>>
      /\ name' = [name EXCEPT ![k + 1] = name[k], ![k] = Absent]
      /\ Follows(k, k + 1, name[k + 1]) /\ k < MaxName
  BY DEF MoveAside, Worked
<1>2. /\ work'[a].at = "moved" /\ work'[a].base = k
      /\ \A b \in Appliers \ {a} : work'[b] = work[b]
  BY <1>1 DEF FilesInv, Inv, WorkOK, Worker
<1>3. Up /\ Up' /\ work[a].at \in Working
  BY <1>1 DEF Awake, Up, Working
<1>4. /\ \A b \in Appliers : Mine(b)' => b = a
      /\ ~AtBase /\ (AtBase' <=> k = 0) /\ Kept = 0
  BY <1>1, <1>2, <1>3, AloneMine DEF FilesInv, Mine, Kept
<1>5. Offered' => Offered
  BY <1>1, <1>2, OfferedSame
<1>6. Whole(name[0]) /\ (host.os = "linux" => OnLinux) /\ (host.os # "linux" => OnWindows)
  BY <1>3, <1>4 DEF FilesInv, Safe, Executable
<1>7. k \in Names /\ k + 1 \in Names /\ k \in Nat /\ k # k + 1 /\ 0 # k + 1
  BY <1>1, PathIsName, Constants DEF FilesInv, Inv, Names
<1>8. /\ name'[k + 1] = name[k] /\ name'[k] = Absent
      /\ \A j \in Names \ {k, k + 1} : name'[j] = name[j]
  BY <1>1, <1>7 DEF FilesInv, Inv, FilesOK
<1>9. Whole(name'[Kept']) /\ name'[Kept'] = name[0]
  <2>1. CASE k = 0
    BY <1>4, <1>6, <1>8, <2>1 DEF Kept, Whole
  <2>2. CASE k # 0
    BY <1>4, <1>6, <1>7, <1>8, <2>2, OneIsName DEF Kept, Whole
  <2> QED
    BY <2>1, <2>2
<1>10. CASE host.os = "linux"
  <2>1. k = image.at
    BY <1>10 DEF Path
  <2>2. image'.at = k + 1 /\ ~image'.gone
    BY <1>1, <1>6, <1>7, <1>10, <2>1 DEF Follows, OnLinux, FilesInv, Inv, FilesOK
  <2>3. Whole(name'[k + 1]) /\ name'[k + 1].v = running
    BY <1>6, <1>8, <1>10, <2>1 DEF OnLinux, Whole
  <2>4. k # 0 => name'[0] = name[0] /\ name[0].v > running
    BY <1>4, <1>6, <1>7, <1>8, <1>10, <2>1, OneIsName DEF OnLinux
  <2>5. Offered' => k # 0
    BY <1>5, <1>6, <1>10, <2>1 DEF OnLinux
  <2>6. OnLinux'
    BY <1>1, <1>2, <1>4, <1>7, <2>2, <2>3, <2>4, <2>5 DEF OnLinux, Whole
  <2> QED
    BY <1>3, <1>9, <1>10, <2>6 DEF Executable, Whole
<1>11. CASE host.os # "linux"
  <2>1. k = 0
    BY <1>11 DEF Path
  <2>2. OnWindows'
    BY <1>1, <1>2, <1>4, <1>5, <1>6, <1>9, <1>11, <2>1 DEF OnWindows
  <2> QED
    BY <1>3, <1>9, <1>11, <2>2 DEF Executable, Whole
<1> QED
  BY <1>10, <1>11

\* What holds midway through a replacement.
LEMMA MidwayIs ==
    ASSUME FilesInv, Awake, NEW a \in Appliers, Mine(a), ~overlapped, ~broken
    PROVE  LET k == work[a].base IN
           /\ Up /\ k \in Names /\ k + 1 \in Names /\ k \in Nat /\ k # k + 1 /\ work[a].v \in Releases
           /\ work[a].v > running /\ (AtBase <=> k = 0)
           /\ Whole(name[IF k = 0 THEN 1 ELSE 0])
           /\ host.os = "linux" => OnLinux /\ image.at = k + 1
           /\ host.os # "linux" => OnWindows /\ k = 0
<1> DEFINE k == work[a].base
<1>1. Up
  BY DEF Awake, Mine
<1>2. k \in Names /\ k < MaxName /\ work[a].v \in Releases
  BY DEF Mine, FilesInv, Inv, WorkOK, Sized, Worker
<1>3. k + 1 \in Names /\ k \in Nat /\ k # k + 1
  BY <1>2, Constants DEF Names
<1>4. work[a].v > running
  BY DEF Mine, FilesInv, Newer
<1>5. AtBase <=> k = 0
  BY Alone, MineIsWorking DEF FilesInv, AtBase
<1>6. (host.os = "linux" => OnLinux) /\ (host.os # "linux" => OnWindows)
  BY <1>1 DEF FilesInv, Safe
<1>7. Whole(name[IF k = 0 THEN 1 ELSE 0])
  BY <1>1, <1>5 DEF FilesInv, Safe, Executable, Kept
<1> QED
  BY <1>1, <1>2, <1>3, <1>4, <1>5, <1>6, <1>7 DEF OnLinux, OnWindows

\* A replacement that is over, with a whole new binary under its name.
LEMMA InstalledSafe ==
    ASSUME FilesInv, Awake, NEW a \in Appliers, Mine(a), ~overlapped, ~broken,
           UNCHANGED <<host, running>>, host.os = "linux" => image' = image,
           \A b \in Appliers \ {a} : work'[b] = work[b], ~Mine(a)',
           name'[work[a].base] = [v |-> work[a].v, by |-> Sound],
           \A j \in Names \ {work[a].base} :
               name'[j].v = name[j].v /\ (Whole(name[j]) => name'[j] = name[j])
    PROVE  Executable' /\ (Up' => IF host.os = "linux" THEN OnLinux' ELSE OnWindows')
<1> DEFINE k == work[a].base
<1>1. /\ Up /\ k \in Names /\ k + 1 \in Names /\ k \in Nat /\ k # k + 1 /\ work[a].v \in Releases
      /\ work[a].v > running /\ (AtBase <=> k = 0)
      /\ Whole(name[IF k = 0 THEN 1 ELSE 0])
      /\ host.os = "linux" => OnLinux /\ image.at = k + 1
      /\ host.os # "linux" => OnWindows /\ k = 0
  BY MidwayIs
<1>2. \A b \in Appliers : ~Mine(b)'
  BY Alone, MineIsWorking DEF FilesInv, Mine
<1>3. ~AtBase' /\ Kept' = 0 /\ Up'
  BY <1>1, <1>2 DEF AtBase, Kept, Up
<1>4. Whole(name'[0]) /\ name'[0].v > running
  <2>1. CASE k = 0
    BY <1>1, <2>1, Constants DEF Whole, Absent, Releases
  <2>2. CASE k # 0
    <3>1. name[0].v > running
      BY <1>1, <2>2 DEF OnLinux
    <3> QED
      BY <1>1, <2>2, <3>1, OneIsName DEF Whole
  <2> QED
    BY <2>1, <2>2
<1>5. Executable'
  BY <1>3, <1>4 DEF Executable, Whole
<1>6. CASE host.os = "linux"
  <2>1. Whole(name'[image.at]) /\ name'[image.at].v = running
    BY <1>1, <1>6 DEF OnLinux, Whole
  <2> QED
    BY <1>1, <1>2, <1>3, <1>4, <1>5, <1>6, <2>1 DEF OnLinux, Whole
<1>7. CASE host.os # "linux"
  BY <1>2, <1>3, <1>4, <1>5, <1>7 DEF OnWindows
<1> QED
  BY <1>6, <1>7

LEMMA InstallSafe == ASSUME FilesInv, Awake, NEW a \in Appliers, Install(a) PROVE Safe'
<1> DEFINE v == work[a].v
           k == work[a].base
<1> SUFFICES ASSUME ~overlapped, ~broken
             PROVE  Executable' /\ (Up' => IF host.os = "linux" THEN OnLinux' ELSE OnWindows')
  BY DEF Install, Worked, history, Safe
<1>1. /\ work[a].at = "moved" /\ Mine(a)
      /\ UNCHANGED <<host, running, state, result, quitting>>
  BY DEF Install, Worked, Mine
<1>2. /\ Up /\ k \in Names /\ k + 1 \in Names /\ k \in Nat /\ k # k + 1 /\ v \in Releases
      /\ v > running /\ (AtBase <=> k = 0)
      /\ Whole(name[IF k = 0 THEN 1 ELSE 0])
      /\ host.os = "linux" => OnLinux /\ image.at = k + 1
      /\ host.os # "linux" => OnWindows /\ k = 0
  BY <1>1, MidwayIs
<1>3. staged[v] = [v |-> v, by |-> Sound]
  BY <1>1, Alone, MineIsWorking DEF FilesInv, Held
<1>4. CASE /\ name' = [name EXCEPT ![k] = staged[v]] /\ Follows(MaxName + 1, k, name[k])
           /\ \E s \in {Outcome, "failed"} : work' = [work EXCEPT ![a].at = s]
  <2>1. name'[k] = [v |-> v, by |-> Sound] /\ \A j \in Names \ {k} : name'[j] = name[j]
    BY <1>2, <1>3, <1>4 DEF FilesInv, Inv, FilesOK
  <2>2. ~Mine(a)' /\ \A b \in Appliers \ {a} : work'[b] = work[b]
    BY <1>4, AtIs, OutcomeIs DEF Mine, FilesInv
  <2>3. ASSUME host.os = "linux" PROVE image' = image
    <3>1. /\ image \in [at : Names, gone : BOOLEAN] /\ image.gone = FALSE
          /\ image.at # k /\ image.at # MaxName + 1
      BY <1>2, <2>3, Constants DEF OnLinux, FilesInv, Inv, FilesOK, Names
    <3>2. image' = [image EXCEPT !.gone = FALSE]
      BY <1>4, <3>1 DEF Follows
    <3> QED
      BY <3>1, <3>2
  <2> QED
    BY <1>1, <2>1, <2>2, <2>3, InstalledSafe
<1>5. CASE /\ name' = [name EXCEPT ![k] = [v |-> v, by |-> IF Whole(staged[v]) THEN a ELSE Torn]]
           /\ image' = image /\ work' = [work EXCEPT ![a].at = "filling"]
  <2>1. \A j \in Names \ {k} : name'[j] = name[j]
    BY <1>5 DEF FilesInv, Inv, FilesOK
  <2>2. /\ work'[a].at = "filling" /\ work'[a].base = k
        /\ \A b \in Appliers \ {a} : work'[b] = work[b]
    BY <1>5, AtIs DEF FilesInv
  <2>3. (Offered' => Offered) /\ \A b \in Appliers : Mine(b)' <=> Mine(b)
    BY <1>1, <2>2, OfferedSame DEF Mine
  <2>4. (AtBase' <=> AtBase) /\ Kept' = Kept /\ Up'
    BY <1>1, <1>2, <2>2, <2>3 DEF AtBase, Kept, Up
  <2>5. Kept \in Names \ {k} /\ Whole(name[Kept]) /\ name'[Kept] = name[Kept]
    BY <1>2, <2>1, OneIsName DEF Kept
  <2>6. Executable'
    BY <2>4, <2>5 DEF Executable, Whole
  <2>7. CASE host.os = "linux"
    <3>1. image.at = k + 1 /\ name'[image.at] = name[image.at] /\ (k # 0 => name'[0] = name[0])
      BY <1>2, <2>1, <2>7, OneIsName
    <3> QED
      BY <1>1, <1>2, <1>5, <2>2, <2>3, <2>4, <2>6, <2>7, <3>1 DEF OnLinux, Whole
  <2>8. CASE host.os # "linux"
    BY <1>1, <1>2, <2>2, <2>3, <2>4, <2>5, <2>6, <2>8 DEF OnWindows
  <2> QED
    BY <2>7, <2>8
<1> QED
  BY <1>4, <1>5 DEF Install, Goto

LEMMA FillSafe == ASSUME FilesInv, Awake, NEW a \in Appliers, Fill(a) PROVE Safe'
<1> DEFINE v == work[a].v
           k == work[a].base
<1> SUFFICES ASSUME ~overlapped, ~broken
             PROVE  Executable' /\ (Up' => IF host.os = "linux" THEN OnLinux' ELSE OnWindows')
  BY DEF Fill, Worked, history, Safe
<1>1. /\ work[a].at = "filling" /\ Mine(a) /\ UNCHANGED <<host, running>> /\ image' = image
      /\ \E s \in {Outcome, "failed"} : work' = [work EXCEPT ![a].at = s]
      /\ name' = EndsAll(name, a, Sound)
  BY DEF Fill, Worked, Mine, Goto
<1>2. ~Mine(a)' /\ \A b \in Appliers \ {a} : work'[b] = work[b]
  BY <1>1, AtIs, OutcomeIs DEF Mine, FilesInv
<1>3. name[k] = [v |-> v, by |-> a] /\ k \in Names
  BY <1>1, MidwayIs, Alone, MineIsWorking DEF FilesInv, Held
<1>4. name'[k] = [v |-> v, by |-> Sound]
  BY <1>1, <1>3 DEF EndsAll, Ends, FilesInv, Inv, FilesOK
<1>5. \A j \in Names : name'[j].v = name[j].v /\ (Whole(name[j]) => name'[j] = name[j])
  BY <1>1, EndsAllNames DEF FilesInv
<1> QED
  BY <1>1, <1>2, <1>4, <1>5, InstalledSafe

LEMMA PutBackSafe == ASSUME FilesInv, Awake, NEW a \in Appliers, PutBack(a) PROVE Safe'
<1> DEFINE k == work[a].base
           restored == [name EXCEPT ![k] = name[k + 1], ![k + 1] = Absent]
<1> SUFFICES ASSUME ~overlapped, ~broken'
             PROVE  Executable' /\ (Up' => IF host.os = "linux" THEN OnLinux' ELSE OnWindows')
  BY DEF PutBack, Worked, Safe
<1>1. /\ ~broken /\ name' = EndsAll(restored, a, Torn) /\ Follows(k + 1, k, name[k])
      /\ work' = [work EXCEPT ![a].at = "failed"] /\ Mine(a)
      /\ UNCHANGED <<host, running, state, result, quitting>>
  BY DEF PutBack, Worked, Mine, Goto
<1>2. /\ Up /\ k \in Names /\ k + 1 \in Names /\ k \in Nat /\ k # k + 1
      /\ (AtBase <=> k = 0)
      /\ Whole(name[IF k = 0 THEN 1 ELSE 0])
      /\ host.os = "linux" => OnLinux /\ image.at = k + 1
      /\ host.os # "linux" => OnWindows /\ k = 0
  BY <1>1, MidwayIs
<1>3. restored \in [Names -> File]
  BY <1>2, Constants DEF FilesInv, Inv, FilesOK
<1>4. restored[k] = name[k + 1] /\ \A j \in Names \ {k, k + 1} : restored[j] = name[j]
  BY <1>2 DEF FilesInv, Inv, FilesOK
<1> HIDE DEF restored
<1>5. Whole(name[k + 1])
  BY <1>2 DEF OnLinux
<1>6. name'[k] = name[k + 1]
  BY <1>1, <1>2, <1>3, <1>4, <1>5, EndsAllKeeps
<1>7. k # 0 => name'[0] = name[0] /\ Whole(name[0])
  BY <1>1, <1>2, <1>3, <1>4, OneIsName, EndsAllKeeps
<1>8. work'[a].at = "failed" /\ \A b \in Appliers \ {a} : work'[b] = work[b]
  BY <1>1, AtIs DEF FilesInv
<1>9. \A b \in Appliers : ~Mine(b)'
  BY <1>1, <1>8, Alone, MineIsWorking DEF FilesInv, Mine
<1>10. ~AtBase' /\ Kept' = 0 /\ Up' /\ (Offered' => Offered)
  BY <1>1, <1>2, <1>8, <1>9, OfferedSame DEF AtBase, Kept, Up
<1>11. Executable'
  BY <1>5, <1>6, <1>7, <1>10 DEF Executable, Whole
<1>12. CASE host.os = "linux"
  <2>1. image'.at = k /\ ~image'.gone
    BY <1>1, <1>2, <1>12 DEF Follows, OnLinux, FilesInv, Inv, FilesOK
  <2>2. name'[k].v = running
    BY <1>2, <1>6, <1>12 DEF OnLinux
  <2>3. k = 0 \/ name'[0].v > running
    BY <1>2, <1>7, <1>12 DEF OnLinux
  <2>4. Offered' => k # 0
    BY <1>2, <1>10, <1>12 DEF OnLinux
  <2> QED
    BY <1>1, <1>5, <1>6, <1>9, <1>10, <1>11, <1>12, <2>1, <2>2, <2>3, <2>4 DEF OnLinux, Whole
<1>13. CASE host.os # "linux"
  <2>1. Offered' => name'[0].v > running
    BY <1>2, <1>6, <1>10, <1>13 DEF OnWindows, Kept
  <2> QED
    BY <1>1, <1>9, <1>10, <1>11, <1>13, <2>1 DEF OnWindows
<1> QED
  BY <1>12, <1>13

LEMMA RestartSafe == ASSUME FilesInv, Awake, NEW a \in Appliers, Restart(a) PROVE Safe'
<1>1. CASE Dies
  BY <1>1, DiesSafe
<1>2. CASE Starts(Path)
  <2>1. Up /\ work[a].at = "restart" /\ work[a].at \in Working
    BY DEF Restart, Awake, Working
  <2>2. ~overlapped => ~AtBase
    BY <2>1, Alone, MineIsWorking DEF FilesInv, AtBase, Mine
  <2>3. Path \in Names
    BY PathIsName DEF FilesInv, Inv
  <2> QED
    BY <1>2, <2>1, <2>2, <2>3, PathStarts, StartsSafe
<1> QED
  BY <1>1, <1>2 DEF Restart

\* The steps that do not touch the files.
LEMMA HandlingSafe ==
    ASSUME FilesInv, NEW a \in Appliers,
           Choose(a) \/ Launch(a) \/ Report(a) \/ Close(a) \/ FailDownload(a) \/ FailRestart(a)
    PROVE  Safe'
<1>1. UNCHANGED <<host, running, image, name, overlapped, broken, quitting>>
  BY DEF Choose, Launch, Report, Close, FailDownload, FailRestart, Fails, Worked,
     UpdateHandlerKept, files, history
<1>2. ~Mine(a) /\ ~Mine(a)' /\ work'[a].at # "pending" /\ \A b \in Appliers \ {a} : work'[b] = work[b]
  <2>1. CASE Choose(a)
    BY <2>1 DEF Choose, Goto, Mine, FilesInv, Inv, WorkOK, Worker
  <2>2. CASE Launch(a) \/ Report(a) \/ Close(a) \/ FailDownload(a) \/ FailRestart(a)
    <3>1. \/ work' = [work EXCEPT ![a] = Free]
          \/ \E s \in {"begin", "closing", "failed"} : work' = [work EXCEPT ![a].at = s]
      BY <2>2 DEF Launch, Report, Close, FailDownload, FailRestart, Fails, Goto
    <3>2. ~Mine(a)
      BY <2>2 DEF Launch, Report, Close, FailDownload, FailRestart, Mine
    <3> QED
      BY <3>1, <3>2, AtIs, WorkIs, FreeIs DEF Mine, FilesInv
  <2> QED
    BY <2>1, <2>2
<1>3. \A b \in Appliers : (Mine(b)' <=> Mine(b)) /\ (Mine(b) => work'[b].base = work[b].base)
  BY <1>2 DEF Mine
<1>4. Offered' => Offered
  <2>1. CASE state' = state /\ result' = result
    BY <1>1, <1>2, <2>1, OfferedSame
  <2>2. CASE Choose(a)
    <3>1. result' = result /\ (state' = state \/ state' = "idle")
      BY <2>2 DEF Choose, Swapped
    <3> QED
      BY <1>1, <1>2, <3>1 DEF Offered, RestartPending
  <2>3. CASE Report(a)
    <3>1. /\ work[a].at # "pending" => state' = state \/ state' = "failed"
          /\ work[a].at # "pending" => result' = result
      BY <2>3 DEF Report, Swapped
    <3> QED
      BY <1>1, <1>2, <3>1 DEF Offered, RestartPending
  <2> QED
    BY <2>1, <2>2, <2>3 DEF Launch, Close, FailDownload, FailRestart, Fails, Worked
<1> QED
  BY <1>1, <1>3, <1>4, SafeCalm DEF FilesInv

LEMMA ApplySafe == ASSUME FilesInv, Awake, NEW a \in Appliers, Apply(a) PROVE Safe'
BY HandlingSafe, CopyingSafe, MoveAsideSafe, InstallSafe, FillSafe, PutBackSafe, RestartSafe
   DEF Apply

LEMMA SafeKeeps == ASSUME FilesInv, Awake, [Next]_vars PROVE Safe'
<1>1. CASE Boot
  BY <1>1, StartsSafe, OneIsName DEF Boot
<1>2. CASE Crash
  BY <1>2, DiesSafe DEF Crash
<1>3. CASE Reexec
  <2>1. quitting /\ Starts(Path) /\ Up /\ Offered
    BY <1>3 DEF Reexec, Awake, Offered
  <2>2. CASE host.os = "linux"
    <3>1. ~overlapped /\ ~broken => ~AtBase
      BY <2>1, <2>2 DEF FilesInv, Safe, OnLinux
    <3>2. Path \in Names
      BY PathIsName DEF FilesInv, Inv
    <3> QED
      BY <2>1, <3>1, <3>2, PathStarts, StartsSafe
  <2>3. CASE host.os # "linux"
    BY <2>1, <2>3, StartsSafe, OneIsName DEF Path
  <2> QED
    BY <2>2, <2>3
<1>4. CASE Publish \/ CheckFails \/ CheckNotModified \/ RestartRequest \/ ReexecFails
           \/ ResetFailed \/ ResetSees \/ ResetEnds \/ UNCHANGED vars
  <2>1. UNCHANGED <<host, running, image, name, overlapped, broken, work>>
    BY <1>4 DEF Publish, CheckFails, CheckNotModified, RestartRequest, ReexecFails, ResetFailed,
       ResetSees, ResetEnds, ResetKept, UpdateHandlerKept, vars, memory, files, history
  <2>2. \A b \in Appliers : (Mine(b)' <=> Mine(b)) /\ (Mine(b) => work'[b].base = work[b].base)
    BY <2>1 DEF Mine
  <2>3. RestartPending' \/ quitting' => RestartPending \/ quitting
    BY <1>4 DEF RestartPending, Publish, CheckFails, CheckNotModified, RestartRequest,
       ReexecFails, ResetFailed, ResetSees, ResetEnds, ResetKept, UpdateHandlerKept, Swapped,
       NoResult, vars, memory
  <2>4. Offered' => Offered
    BY <2>1, <2>3 DEF Offered
  <2> QED
    BY <2>1, <2>2, <2>4, SafeCalm DEF FilesInv
<1>5. CASE CheckFinds
  <2>1. UNCHANGED <<host, running, image, name, overlapped, broken, state, quitting>>
    BY <1>5 DEF CheckFinds, files, history
  <2>2. ~result'.pending
    BY <1>5 DEF CheckFinds, NoResult
  <2>3. \A b \in Appliers : work'[b] = work[b] \/ (work[b].at = "none" /\ work'[b].at = "begin")
    <3>1. CASE work' = work
      BY <3>1
    <3>2. ASSUME NEW a \in Appliers, work[a].at = "none",
                 work' = [work EXCEPT ![a] = [Free EXCEPT !.at = "begin", !.by = "auto", !.v = latest]]
          PROVE  \A b \in Appliers : work'[b] = work[b] \/ (work[b].at = "none" /\ work'[b].at = "begin")
      <4> DEFINE w == [Free EXCEPT !.at = "begin", !.by = "auto", !.v = latest]
      <4>1. w.at = "begin" /\ work' = [work EXCEPT ![a] = w]
        BY <3>2, FreeIs DEF Worker
      <4> HIDE DEF w
      <4> QED
        BY <3>2, <4>1, WorkIs DEF FilesInv
    <3> QED
      BY <1>5, <3>1, <3>2 DEF CheckFinds
  <2>4. \A b \in Appliers : (Mine(b)' <=> Mine(b)) /\ (Mine(b) => work'[b].base = work[b].base)
    BY <2>3 DEF Mine
  <2>5. Offered' => Offered
    BY <2>1, <2>2, <2>3 DEF Offered, RestartPending
  <2> QED
    BY <2>1, <2>4, <2>5, SafeCalm DEF FilesInv
<1>6. CASE ResetCancels
  <2>1. UNCHANGED <<host, running, image, name, overlapped, broken, state, quitting, result>>
    BY <1>6 DEF ResetCancels, ResetKept, files, history
  <2>2. \A b \in Appliers : work'[b].at = work[b].at /\ work'[b].base = work[b].base
    BY <1>6 DEF ResetCancels, FilesInv, Inv, WorkOK, Worker
  <2>3. /\ \A b \in Appliers : (Mine(b)' <=> Mine(b)) /\ (Mine(b) => work'[b].base = work[b].base)
        /\ Offered' => Offered
    BY <2>1, <2>2 DEF Mine, Offered, RestartPending
  <2> QED
    BY <2>1, <2>3, SafeCalm DEF FilesInv
<1>7. ASSUME NEW a \in Appliers, Claim(a) PROVE Safe'
  <2> DEFINE w == [Free EXCEPT !.at = "claimed"]
  <2>1. w.at = "claimed" /\ work[a].at = "none" /\ work' = [work EXCEPT ![a] = w]
    BY <1>7, FreeIs DEF Claim, Worker
  <2> HIDE DEF w
  <2>2. work'[a] = w /\ \A b \in Appliers \ {a} : work'[b] = work[b]
    BY <2>1, WorkIs DEF FilesInv
  <2>3. UNCHANGED <<host, running, image, name, overlapped, broken, result, quitting>>
        /\ state' = "running"
    BY <1>7 DEF Claim, UpdateHandlerKept, files, history
  <2>4. /\ \A b \in Appliers : (Mine(b)' <=> Mine(b)) /\ (Mine(b) => work'[b].base = work[b].base)
        /\ Offered' => Offered
    BY <2>1, <2>2, <2>3 DEF Mine, Offered, RestartPending
  <2> QED
    BY <2>3, <2>4, SafeCalm DEF FilesInv
<1> QED
  BY <1>1, <1>2, <1>3, <1>4, <1>5, <1>6, <1>7, ApplySafe DEF Next, Requested

----------------------------------------------------------------------------
(* The theorems about the files.                                           *)

LEMMA FilesInitHold == Init => FilesInv /\ Awake
<1> SUFFICES ASSUME Init PROVE FilesInv /\ Awake
  OBVIOUS
<1>1. \A a \in Appliers : work[a] = Free /\ work[a].at = "none"
  BY FreeIs DEF Init
<1>2. Newer /\ Exclusive
  BY <1>1 DEF Init, Newer, Exclusive, OneWorks, Held, Working
<1>3. ~Up /\ Awake
  BY <1>1 DEF Init, Up, Awake
<1>4. Whole(name[0])
  BY OneIsName DEF Init, Whole, Absent
<1> QED
  BY <1>2, <1>3, <1>4, InitHolds DEF FilesInv, Safe, Executable

LEMMA FilesInvariant == Spec => [](FilesInv /\ Awake)
<1>1. FilesInv /\ Awake /\ [Next]_vars => (FilesInv /\ Awake)'
  BY NextKeeps, NewerKeeps, ExclusiveKeeps, AwakeKeeps, SafeKeeps DEF FilesInv
<1> QED
  BY <1>1, FilesInitHold, PTL DEF Spec

\* Wherever a replacement fails or the process dies, on either platform and
\* with any number of releases and goroutines, a whole executable is left under
\* name 0 or 1, as long as no two goroutines worked at once and no way back
\* failed.
THEOREM ExecutableSurvives == Spec => []SurvivingBinary
<1>1. FilesInv => SurvivingBinary
  BY DEF FilesInv, Safe, Executable, Kept, SurvivingBinary
<1> QED
  BY <1>1, FilesInvariant, PTL

\* Midway, the name that is being replaced holds no whole binary.
LEMMA HalfIs ==
    ASSUME FilesInv, ~overlapped, NEW b \in Appliers, Mine(b)
    PROVE  ~Whole(name[work[b].base])
<1>1. /\ work[b].at \in {"moved", "filling"}
      /\ work[b].at = "moved" => name[work[b].base] = Absent
      /\ work[b].at = "filling" => name[work[b].base] = [v |-> work[b].v, by |-> b]
  BY DEF FilesInv, Exclusive, Held, Mine
<1> QED
  BY <1>1, Reserved DEF Whole

\* What a granted restart finds and runs: a newer whole executable is there when
\* it is granted, Windows runs one, Linux runs the release it was running, and
\* only Windows, with a further apply midway, can have nothing to run.
THEOREM RestartsRun == Spec => RestartRuns
<1> DEFINE Granted == RestartRequest => \E k \in {0, 1} : Whole(name[k]) /\ name[k].v > running
           Run == Reexec => IF host.os = "linux" THEN running' = running ELSE running' > running
           Fail == ReexecFails => host.os = "windows" /\ Midway
<1>1. ASSUME FilesInv, Awake, ~overlapped, ~broken PROVE Granted /\ Run /\ Fail
  <2>1. RestartRequest \/ Reexec \/ ReexecFails => Up /\ Offered
    BY <1>1 DEF RestartRequest, Reexec, ReexecFails, Awake, Offered
  <2>2. ASSUME Up, Offered, host.os = "linux"
        PROVE  /\ ~AtBase /\ Kept = 0 /\ Whole(name[0]) /\ name[0].v > running
               /\ Whole(name[Path]) /\ name[Path].v = running
    BY <1>1, <2>2 DEF FilesInv, Safe, Executable, OnLinux, Kept, Path
  <2>3. ASSUME Up, Offered, host.os # "linux"
        PROVE  Path = 0 /\ Whole(name[Kept]) /\ name[Kept].v > running /\ Kept \in {0, 1}
    BY <1>1, <2>3 DEF FilesInv, Safe, Executable, OnWindows, Kept, Path
  <2>4. Granted
    BY <2>1, <2>2, <2>3
  <2>5. Run
    <3> SUFFICES ASSUME Reexec PROVE IF host.os = "linux" THEN running' = running ELSE running' > running
      OBVIOUS
    <3>1. Whole(name[Path]) /\ running' = name[Path].v
      BY DEF Reexec, Starts
    <3>2. CASE host.os # "linux"
      <4>1. \A b \in Appliers : Mine(b) => ~Whole(name[work[b].base])
        BY <1>1, HalfIs
      <4>2. ~AtBase /\ Kept = 0
        BY <2>1, <2>3, <3>1, <3>2, <4>1 DEF AtBase, Kept
      <4> QED
        BY <2>1, <2>3, <3>1, <3>2, <4>2
    <3> QED
      BY <2>1, <2>2, <3>1, <3>2
  <2>6. Fail
    <3> SUFFICES ASSUME ReexecFails PROVE host.os = "windows" /\ Midway
      OBVIOUS
    <3>1. ~Whole(name[Path]) /\ host.os # "linux"
      BY <2>1, <2>2 DEF ReexecFails
    <3>2. AtBase
      BY <2>1, <2>3, <3>1 DEF Kept
    <3>3. host.os = "windows"
      BY <1>1, <3>1, HostAssumption DEF FilesInv, Inv, ProcessOK
    <3> QED
      BY <3>2, <3>3 DEF AtBase, Mine, Midway
  <2> QED
    BY <2>4, <2>5, <2>6
<1>2. FilesInv /\ Awake => [~overlapped /\ ~broken => Granted /\ Run /\ Fail]_vars
  BY <1>1
<1> QED
  BY <1>2, FilesInvariant, PTL DEF RestartRuns
===============================================================================
