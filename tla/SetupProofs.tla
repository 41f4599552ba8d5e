----------------------------- MODULE SetupProofs -----------------------------
(***************************************************************************)
(* Proofs about Setup, for any requests, passwords, ports, older           *)
(* configurations and bound on operations.                                 *)
(*                                                                         *)
(* Logins carries the argument for the login: every configuration that a   *)
(* request holds to write, or that the handlers have, bears the password   *)
(* of the file. Alone and Saved carry the other two: as long as no launch  *)
(* crossed another writer, at most one request is under way, and what it   *)
(* holds is the file with additions; if moreover every write succeeded,    *)
(* what a launch holds is the file.                                        *)
(***************************************************************************)
EXTENDS Setup, TLAPS

Holding == {"write", "port", "count", "host", "reload", "key", "propagate", "switch"}
LaunchStages == Holding \ {"write"}

Shape ==
    /\ \A r \in Requests :
        /\ req[r].kind = "launch" => req[r].at \in {"idle"} \cup LaunchStages
        /\ req[r].kind \in Steps => req[r].at \in {"idle", "read", "write"}
        /\ req[r].at \in Holding => req[r].cfg \in Config
    /\ mode = "down" => live = NoConfig /\ \A r \in Requests : req[r].at = "idle"
    /\ mode = "normal" => bound /\ live # NoConfig

Logins ==
    /\ disk # NoConfig => disk.login # 0
    /\ live # NoConfig => disk # NoConfig /\ live.login = disk.login
    /\ \A r \in Requests :
        /\ req[r].at \in Holding => req[r].cfg.login # 0
        /\ req[r].at \in Holding /\ disk # NoConfig => req[r].cfg.login = disk.login
        /\ req[r].at \in LaunchStages => disk # NoConfig
        /\ req[r].at = "switch" => bound /\ live # NoConfig

Alone ==
    ~crossed =>
        /\ \A q, r \in Requests : q = r \/ req[q].at = "idle" \/ req[r].at = "idle"
        /\ mode = "normal" => \A r \in Requests : req[r].at = "idle"

Additions ==
    ~crossed => \A r \in Requests :
        req[r].at \in Holding /\ disk # NoConfig => Kept(disk, req[r].cfg)

Modes ==
    /\ disk # NoConfig => disk.mode = "normal" \/ forced
    /\ \A r \in Requests : req[r].at \in Holding => req[r].cfg.mode = "normal" \/ forced

Saved ==
    ~crossed /\ ~unsaved =>
        /\ printed # 0 => disk # NoConfig /\ printed = disk.key
        /\ mode = "normal" => live = disk
        /\ \A r \in Requests :
            /\ req[r].at \in LaunchStages => req[r].cfg = disk
            /\ req[r].at = "switch" => live = disk

Inv == TypeOK /\ Shape /\ Logins /\ Alone /\ Additions /\ Modes /\ Saved

----------------------------------------------------------------------------

LEMMA InitHolds == Init => Inv
<1> SUFFICES ASSUME Init PROVE Inv
  OBVIOUS
<1>1. disk \in Config \cup {NoConfig} /\ live = NoConfig
  BY SetupAssumption DEF Init
<1>2. \A r \in Requests : req[r] = Rest
  BY DEF Init
<1>3. TypeOK
  <2>1. Rest \in [kind : Steps \cup {"launch"}, at : Stages, cfg : Config \cup {NoConfig}]
    BY DEF Rest, Stages, Steps
  <2>2. req \in [Requests -> [kind : Steps \cup {"launch"}, at : Stages, cfg : Config \cup {NoConfig}]]
    <3>1. req = [r \in Requests |-> Rest]
      BY DEF Init
    <3> QED
      BY <2>1, <3>1
  <2>3. \A r \in Requests : mutex = r <=> req[r].kind \in Steps /\ req[r].at # "idle"
    BY <1>2, SetupAssumption DEF Init, Rest, Steps
  <2>4. /\ games \in BOOLEAN /\ bound \in BOOLEAN
        /\ crossed \in BOOLEAN /\ unsaved \in BOOLEAN /\ forced \in BOOLEAN
    BY DEF Init
  <2>5. mutex \in Requests \cup {NoRequest} /\ mode \in {"down", "setup", "normal"}
    BY DEF Init
  <2>6. issued \in Nat /\ printed \in 0..issued /\ ops \in Nat
    BY DEF Init
  <2> QED
    BY <1>1, <2>2, <2>3, <2>4, <2>5, <2>6 DEF TypeOK
<1>4. Shape /\ Logins /\ Alone /\ Additions /\ Modes /\ Saved
  BY <1>1, <1>2, SetupAssumption
     DEF Init, Shape, Logins, Alone, Additions, Modes, Saved, Rest, Holding, LaunchStages, Steps
<1> QED
  BY <1>3, <1>4 DEF Inv

LEMMA StutterKeeps == Inv /\ UNCHANGED vars => Inv'
BY DEF Inv, TypeOK, Shape, Logins, Alone, Additions, Modes, Saved, vars

\* What EnsureAPIKey does to the file, the banner and the count of keys.
LEMMA KeyFacts ==
    ASSUME Inv, NEW c \in Config, NEW new, EnsureKey(c, new)
    PROVE  /\ new \in Config
           /\ new.login = c.login /\ new.archive = c.archive /\ new.folder = c.folder
           /\ new.mode = c.mode /\ c.key \in {0, new.key}
           /\ issued' \in Nat /\ printed' \in 0..issued'
           /\ unsaved' \in BOOLEAN /\ (unsaved => unsaved')
           /\ disk' \in {disk, new}
           /\ ~unsaved' => \/ new = c /\ disk' = disk /\ printed' = printed
                           \/ c.key = 0 /\ disk' = new /\ printed' = new.key
<1>1. issued \in Nat /\ printed \in 0..issued /\ unsaved \in BOOLEAN
  BY DEF Inv, TypeOK
<1>2. CASE c.key # 0
  BY <1>1, <1>2 DEF EnsureKey
<1>3. CASE c.key = 0
  <2>1. new = [c EXCEPT !.key = issued + 1]
    BY <1>3 DEF EnsureKey
  <2>2. /\ new \in Config /\ new.key = issued + 1
        /\ new.login = c.login /\ new.archive = c.archive /\ new.folder = c.folder
        /\ new.mode = c.mode
    BY <1>1, <2>1 DEF Config
  <2>3. \/ disk' = new /\ printed' = issued + 1 /\ unsaved' = unsaved
        \/ disk' = disk /\ printed' = printed /\ unsaved' = TRUE
    BY <1>3, <2>1 DEF EnsureKey
  <2>4. issued' = issued + 1
    BY <1>3 DEF EnsureKey
  <2>5. c.key \in {0, new.key} /\ printed' \in 0..issued' /\ issued' \in Nat
    BY <1>1, <1>3, <2>3, <2>4
  <2>6. unsaved' \in BOOLEAN /\ (unsaved => unsaved')
    BY <1>1, <2>3
  <2>7. disk' \in {disk, new} /\ (~unsaved' => disk' = new /\ printed' = new.key)
    BY <2>2, <2>3
  <2> QED
    BY <1>1, <1>3, <2>2, <2>5, <2>6, <2>7
<1> QED
  BY <1>2, <1>3

\* What a request of the wizard saves.
LEMMA SavesFacts ==
    ASSUME Inv, NEW kind, NEW d \in Saves(kind, disk)
    PROVE  /\ d \in Config /\ d.login # 0
           /\ d.mode = "normal" \/ forced
           /\ disk # NoConfig => Kept(disk, d) /\ d.login = disk.login
<1>1. disk \in Config \cup {NoConfig} /\ (disk # NoConfig => disk.login # 0 /\ (disk.mode = "normal" \/ forced))
  BY DEF Inv, TypeOK, Logins, Modes
<1>2. CASE disk = NoConfig
  <2>1. PICK p \in Passwords : d = First(p)
    BY <1>2 DEF Saves
  <2>2. (CHOOSE q \in Ports : TRUE) \in Ports
    BY SetupAssumption
  <2> QED
    BY <1>2, <2>1, <2>2, SetupAssumption DEF First, Config
<1>3. CASE disk # NoConfig /\ kind = "archive"
  <2>1. d = [disk EXCEPT !.archive = TRUE]
    BY <1>3 DEF Saves
  <2> QED
    BY <1>1, <1>3, <2>1 DEF Config, Kept
<1>4. CASE disk # NoConfig /\ kind = "scan"
  <2>1. d = [disk EXCEPT !.folder = TRUE]
    BY <1>4 DEF Saves
  <2> QED
    BY <1>1, <1>4, <2>1 DEF Config, Kept
<1>5. CASE disk # NoConfig /\ kind \notin {"archive", "scan"}
  BY <1>1, <1>5 DEF Saves
<1> QED
  BY <1>2, <1>3, <1>4, <1>5

\* The record of one request changes, its configuration stays or is x.
LEMMA ReqTyped ==
    ASSUME TypeOK, NEW r \in Requests, NEW k \in Steps \cup {"launch"}, NEW a \in Stages,
           NEW x \in Config \cup {NoConfig},
           req' = [req EXCEPT ![r] = [kind |-> k, at |-> a, cfg |-> x]]
    PROVE  /\ req' \in [Requests -> [kind : Steps \cup {"launch"}, at : Stages,
                                     cfg : Config \cup {NoConfig}]]
           /\ req'[r].kind = k /\ req'[r].at = a /\ req'[r].cfg = x
           /\ \A q \in Requests \ {r} : req'[q] = req[q]
BY DEF TypeOK

LEMMA BeginKeeps ==
    ASSUME Inv, NEW r \in Requests, NEW kind \in Steps, Begin(r, kind), games' \in BOOLEAN
    PROVE  Inv'
<1>1. /\ mode = "setup" /\ mutex = NoRequest /\ req[r].at = "idle" /\ mutex' = r
      /\ crossed' = (crossed \/ Launching)
      /\ UNCHANGED <<mode, disk, live, bound, issued, printed, unsaved, forced>>
  BY DEF Begin
<1>2. /\ req' \in [Requests -> [kind : Steps \cup {"launch"}, at : Stages,
                                cfg : Config \cup {NoConfig}]]
      /\ req'[r].kind = kind /\ req'[r].at = "read"
      /\ \A q \in Requests \ {r} : req'[q] = req[q]
  BY ReqTyped DEF Begin, Stages, Inv
<1>3. \A q \in Requests : ~crossed' => (q = r \/ req[q].at = "idle")
  BY <1>1, SetupAssumption DEF Inv, TypeOK, Launching
<1>4. TypeOK'
  <2>1. \A q \in Requests : mutex' = q <=> req'[q].kind \in Steps /\ req'[q].at # "idle"
    BY <1>1, <1>2, SetupAssumption DEF Inv, TypeOK
  <2>2. ops' \in Nat
    BY DEF Begin, Outside, Inv, TypeOK
  <2>3. crossed' \in BOOLEAN
    BY <1>1
  <2> QED
    BY <1>1, <1>2, <2>1, <2>2, <2>3 DEF Inv, TypeOK
<1>5. Shape' /\ Logins' /\ Modes'
  BY <1>1, <1>2, SetupAssumption DEF Inv, Shape, Logins, Modes, Holding, LaunchStages, Steps
<1>6. ~crossed' => ~crossed
  BY <1>1
<1>7. Alone'
  BY <1>1, <1>2, <1>3 DEF Alone
<1>8. Additions'
  BY <1>1, <1>2, <1>6 DEF Inv, Additions, Holding, Kept
<1>9. Saved'
  BY <1>1, <1>2, <1>6 DEF Inv, Saved, LaunchStages, Holding
<1> QED
  BY <1>4, <1>5, <1>7, <1>8, <1>9 DEF Inv

LEMMA ReadKeeps ==
    ASSUME Inv, NEW r \in Requests, Read(r)
    PROVE  Inv'
<1>1. /\ req[r].at = "read"
      /\ UNCHANGED <<mode, disk, games, live, bound, mutex, issued, printed, ops, crossed, unsaved, forced>>
  BY DEF Read
<1>2. PICK c \in Saves(req[r].kind, disk) : With(r, "write", c)
  BY DEF Read
<1>3. /\ c \in Config /\ c.login # 0
      /\ c.mode = "normal" \/ forced
      /\ disk # NoConfig => Kept(disk, c) /\ c.login = disk.login
  BY SavesFacts
<1>4. /\ req' \in [Requests -> [kind : Steps \cup {"launch"}, at : Stages,
                                cfg : Config \cup {NoConfig}]]
      /\ req'[r].kind = req[r].kind /\ req'[r].at = "write" /\ req'[r].cfg = c
      /\ \A q \in Requests \ {r} : req'[q] = req[q]
  BY <1>2, <1>3, ReqTyped DEF With, Stages, Inv, TypeOK
<1>5. TypeOK'
  BY <1>1, <1>4 DEF Inv, TypeOK
<1>6. Shape' /\ Logins' /\ Modes'
  BY <1>1, <1>3, <1>4 DEF Inv, Shape, Logins, Modes, Holding, LaunchStages, Steps
<1>7. Alone' /\ Additions' /\ Saved'
  BY <1>1, <1>3, <1>4 DEF Inv, Alone, Additions, Saved, Holding, LaunchStages, Kept
<1> QED
  BY <1>5, <1>6, <1>7 DEF Inv

\* A request that ends leaves nothing behind.
LEMMA FinishFacts ==
    ASSUME TypeOK, NEW r \in Requests, req[r].at # "idle", req' = [req EXCEPT ![r] = Rest]
    PROVE  /\ req' \in [Requests -> [kind : Steps \cup {"launch"}, at : Stages,
                                     cfg : Config \cup {NoConfig}]]
           /\ req'[r].kind = "launch" /\ req'[r].at = "idle"
           /\ \A q \in Requests \ {r} : req'[q] = req[q]
BY DEF TypeOK, Rest, Stages

LEMMA RefuseKeeps ==
    ASSUME Inv, NEW r \in Requests, Refuse(r)
    PROVE  Inv'
<1>1. /\ req[r].at = "read" /\ req' = [req EXCEPT ![r] = Rest]
      /\ mutex' = IF mutex = r THEN NoRequest ELSE mutex
      /\ UNCHANGED <<mode, disk, games, live, bound, issued, printed, ops, crossed, unsaved, forced>>
  BY DEF Refuse, Finish
<1>2. /\ req' \in [Requests -> [kind : Steps \cup {"launch"}, at : Stages,
                                cfg : Config \cup {NoConfig}]]
      /\ req'[r].kind = "launch" /\ req'[r].at = "idle"
      /\ \A q \in Requests \ {r} : req'[q] = req[q]
  BY <1>1, FinishFacts DEF Inv
<1>3. TypeOK'
  BY <1>1, <1>2, SetupAssumption DEF Inv, TypeOK, Steps
<1>4. Shape' /\ Logins' /\ Modes'
  BY <1>1, <1>2 DEF Inv, Shape, Logins, Modes, Holding, LaunchStages, Steps
<1>5. Alone' /\ Additions' /\ Saved'
  BY <1>1, <1>2 DEF Inv, Alone, Additions, Saved, Holding, LaunchStages, Kept
<1> QED
  BY <1>3, <1>4, <1>5 DEF Inv

LEMMA WriteKeeps ==
    ASSUME Inv, NEW r \in Requests, Write(r)
    PROVE  Inv'
<1>1. /\ req[r].at = "write" /\ req' = [req EXCEPT ![r] = Rest]
      /\ mutex' = IF mutex = r THEN NoRequest ELSE mutex
      /\ UNCHANGED <<mode, games, live, bound, issued, printed, ops, crossed, unsaved, forced>>
      /\ disk' \in {disk, req[r].cfg}
  BY DEF Write, Finish
<1>2. /\ req' \in [Requests -> [kind : Steps \cup {"launch"}, at : Stages,
                                cfg : Config \cup {NoConfig}]]
      /\ req'[r].kind = "launch" /\ req'[r].at = "idle"
      /\ \A q \in Requests \ {r} : req'[q] = req[q]
  BY <1>1, FinishFacts DEF Inv
<1>3. /\ req[r].cfg \in Config /\ req[r].cfg # NoConfig /\ req[r].cfg.login # 0
      /\ req[r].cfg.mode = "normal" \/ forced
      /\ disk # NoConfig => req[r].cfg.login = disk.login
  BY <1>1, SetupAssumption DEF Inv, Shape, Logins, Modes, Holding
<1>4. TypeOK'
  BY <1>1, <1>2, <1>3, SetupAssumption DEF Inv, TypeOK, Steps
<1>5. Shape'
  BY <1>1, <1>2 DEF Inv, Shape, Steps, Holding, LaunchStages
\* Holding the mutex, the request is the only one about to write.
<1>6. \A q \in Requests \ {r} : req[q].at # "write"
  BY <1>1, SetupAssumption DEF Inv, TypeOK, Shape, LaunchStages, Holding
<1>7. Logins'
  BY <1>1, <1>2, <1>3, <1>6 DEF Inv, Logins, LaunchStages, Holding
<1>8. Modes'
  BY <1>1, <1>2, <1>3 DEF Inv, Modes, Holding
<1>9. ~crossed =>
        /\ \A q \in Requests : req'[q].at = "idle"
        /\ mode # "normal"
        /\ disk # NoConfig => Kept(disk, req[r].cfg)
  BY <1>1, <1>2 DEF Inv, Alone, Additions, Holding
<1>10. Alone' /\ Additions'
  BY <1>1, <1>9 DEF Alone, Additions, Holding
<1>11. Saved'
  BY <1>1, <1>3, <1>9 DEF Inv, Saved, Kept, LaunchStages, Holding
<1> QED
  BY <1>4, <1>5, <1>7, <1>8, <1>10, <1>11 DEF Inv

LEMMA LaunchKeeps ==
    ASSUME Inv, NEW r \in Requests, Launch(r)
    PROVE  Inv'
<1>1. /\ mode = "setup" /\ req[r].at = "idle" /\ disk # NoConfig /\ disk.login # 0
      /\ crossed' = (crossed \/ Busy)
      /\ UNCHANGED <<mode, disk, games, live, bound, mutex, issued, printed, unsaved, forced>>
  BY DEF Launch
<1>2. /\ req' \in [Requests -> [kind : Steps \cup {"launch"}, at : Stages,
                                cfg : Config \cup {NoConfig}]]
      /\ req'[r].kind = "launch" /\ req'[r].at = "port" /\ req'[r].cfg = disk
      /\ \A q \in Requests \ {r} : req'[q] = req[q]
  BY <1>1, ReqTyped DEF Launch, Stages, Inv, TypeOK
<1>3. \A q \in Requests : ~crossed' => req[q].at = "idle"
  BY <1>1 DEF Busy
<1>4. TypeOK'
  <2>1. ops' \in Nat
    BY DEF Launch, Outside, Inv, TypeOK
  <2>2. crossed' \in BOOLEAN
    BY <1>1
  <2>3. \A q \in Requests : mutex' = q <=> req'[q].kind \in Steps /\ req'[q].at # "idle"
    BY <1>1, <1>2 DEF Inv, TypeOK, Steps
  <2> QED
    BY <1>1, <1>2, <2>1, <2>2, <2>3 DEF Inv, TypeOK
<1>5. Shape' /\ Logins' /\ Modes'
  BY <1>1, <1>2 DEF Inv, TypeOK, Shape, Logins, Modes, Holding, LaunchStages, Steps
<1>6. ~crossed' => ~crossed
  BY <1>1
<1>7. Alone'
  BY <1>1, <1>2, <1>3 DEF Alone
<1>8. Additions'
  BY <1>1, <1>2, <1>6 DEF Inv, Additions, Holding, Kept
<1>9. Saved'
  BY <1>1, <1>2, <1>6 DEF Inv, Saved, LaunchStages, Holding
<1> QED
  BY <1>4, <1>5, <1>7, <1>8, <1>9 DEF Inv

\* A stage of a launch that ends with configuration c, which it wrote or had
\* read.
LEMMA StageKeeps ==
    ASSUME Inv, NEW r \in Requests, req[r].at \in LaunchStages,
           NEW a \in LaunchStages \ {"switch"}, NEW c \in Config, With(r, a, c),
           c.login = disk.login, c.mode = "normal" \/ forced,
           ~crossed => Kept(disk, c),
           UNCHANGED <<mode, games, live, bound, mutex, ops, crossed, forced>>,
           disk' \in {disk, c},
           issued' \in Nat, printed' \in 0..issued',
           unsaved' \in BOOLEAN, unsaved => unsaved',
           ~crossed /\ ~unsaved' => disk' = c /\ printed' \in {printed, c.key}
    PROVE  Inv'
<1>1. disk \in Config /\ disk # NoConfig /\ disk.login # 0 /\ req[r].kind = "launch"
  BY DEF Inv, TypeOK, Shape, Logins, LaunchStages, Holding
<1>2. c # NoConfig
  BY SetupAssumption
<1>3. /\ req' \in [Requests -> [kind : Steps \cup {"launch"}, at : Stages,
                                cfg : Config \cup {NoConfig}]]
      /\ req'[r].kind = "launch" /\ req'[r].at = a /\ req'[r].cfg = c
      /\ \A q \in Requests \ {r} : req'[q] = req[q]
  BY <1>1, ReqTyped DEF With, LaunchStages, Holding, Stages, Inv
<1>4. TypeOK'
  <2>1. \A q \in Requests : mutex = q <=> req'[q].kind \in Steps /\ req'[q].at # "idle"
    BY <1>1, <1>3 DEF Inv, TypeOK, Steps
  <2> QED
    BY <1>1, <1>3, <2>1 DEF Inv, TypeOK
<1>5. Shape'
  BY <1>1, <1>3 DEF Inv, Shape, Steps, Holding, LaunchStages
<1>6. Logins'
  BY <1>1, <1>2, <1>3 DEF Inv, Logins, Holding, LaunchStages
<1>7. Modes'
  BY <1>1, <1>3 DEF Inv, Modes, Holding
<1>8. ~crossed =>
        /\ \A q \in Requests \ {r} : req'[q].at = "idle"
        /\ mode # "normal"
  BY <1>3 DEF Inv, Alone, LaunchStages, Holding
<1>9. Alone'
  BY <1>8 DEF Alone
<1>10. ~crossed => Kept(disk', c)
  BY <1>1 DEF Kept
<1>11. Additions'
  BY <1>3, <1>8, <1>10 DEF Additions, Holding
<1>12. Saved'
  <2>1. ~crossed /\ ~unsaved' /\ printed' # 0 => printed' = c.key
    BY DEF Inv, Saved, Kept
  <2> QED
    BY <1>2, <1>3, <1>8, <2>1 DEF Saved, LaunchStages, Holding
<1> QED
  BY <1>4, <1>5, <1>6, <1>7, <1>9, <1>11, <1>12 DEF Inv

\* What is known of the configuration a launch holds.
LEMMA StageFacts ==
    ASSUME Inv, NEW r \in Requests, req[r].at \in LaunchStages
    PROVE  /\ req[r].cfg \in Config /\ disk \in Config
           /\ req[r].cfg.login = disk.login
           /\ disk.mode = "normal" \/ forced
           /\ req[r].cfg.mode = "normal" \/ forced
           /\ ~crossed => Kept(disk, req[r].cfg)
           /\ ~crossed /\ ~unsaved => req[r].cfg = disk
           /\ issued \in Nat /\ printed \in 0..issued /\ unsaved \in BOOLEAN
BY DEF Inv, TypeOK, Shape, Logins, Additions, Modes, Saved, LaunchStages, Holding

LEMMA SaveFacts ==
    ASSUME NEW c, SaveOrWarn(c), unsaved \in BOOLEAN
    PROVE  /\ unsaved' \in BOOLEAN /\ (unsaved => unsaved')
           /\ disk' \in {disk, c} /\ (~unsaved' => disk' = c)
<1>1. CASE disk' = c /\ unsaved' = unsaved
  BY <1>1
<1>2. CASE disk' = disk /\ unsaved' = TRUE
  BY <1>2
<1> QED
  BY <1>1, <1>2 DEF SaveOrWarn

LEMMA PortOverrideKeeps ==
    ASSUME Inv, NEW r \in Requests, PortOverride(r)
    PROVE  Inv'
<1>1. /\ req[r].at = "port"
      /\ UNCHANGED <<mode, games, live, bound, mutex, issued, printed, ops, crossed, forced>>
  BY DEF PortOverride
<1>2. req[r].at \in LaunchStages /\ "count" \in LaunchStages \ {"switch"}
  BY <1>1 DEF LaunchStages, Holding
<1>3. CASE Goto(r, "count") /\ UNCHANGED <<disk, unsaved>>
  BY <1>1, <1>2, <1>3, StageFacts, StageKeeps DEF Goto
<1>4. ASSUME NEW p \in Ports, With(r, "count", [req[r].cfg EXCEPT !.port = p]),
             SaveOrWarn([req[r].cfg EXCEPT !.port = p])
      PROVE  Inv'
  <2> DEFINE c == [req[r].cfg EXCEPT !.port = p]
  <2>1. /\ c \in Config /\ c.login = req[r].cfg.login /\ c.mode = req[r].cfg.mode
        /\ c.archive = req[r].cfg.archive /\ c.folder = req[r].cfg.folder /\ c.key = req[r].cfg.key
    BY <1>2, StageFacts DEF Config
  <2>2. With(r, "count", c) /\ SaveOrWarn(c)
    BY <1>4
  <2> HIDE DEF c
  <2>3. ~crossed => Kept(disk, c)
    BY <1>2, <2>1, StageFacts DEF Kept
  <2>4. unsaved' \in BOOLEAN /\ (unsaved => unsaved') /\ disk' \in {disk, c} /\ (~unsaved' => disk' = c)
    BY <1>2, <2>2, SaveFacts, StageFacts
  <2> QED
    BY <1>1, <1>2, <2>1, <2>2, <2>3, <2>4, StageFacts, StageKeeps
<1> QED
  BY <1>3, <1>4 DEF PortOverride

LEMMA CountGamesKeeps ==
    ASSUME Inv, NEW r \in Requests, CountGames(r)
    PROVE  Inv'
<1>1. /\ req[r].at = "count"
      /\ UNCHANGED <<mode, disk, games, live, bound, mutex, issued, printed, ops, crossed, unsaved, forced>>
  BY DEF CountGames
<1>2. req[r].at \in LaunchStages /\ "host" \in LaunchStages \ {"switch"}
  BY <1>1 DEF LaunchStages, Holding
<1>3. CASE games
  <2>1. With(r, "host", req[r].cfg)
    BY <1>3 DEF CountGames, Goto
  <2> QED
    BY <1>1, <1>2, <2>1, StageFacts, StageKeeps
<1>4. CASE ~games
  <2>1. req' = [req EXCEPT ![r] = Rest]
    BY <1>4 DEF CountGames
  <2>2. /\ req' \in [Requests -> [kind : Steps \cup {"launch"}, at : Stages,
                                  cfg : Config \cup {NoConfig}]]
        /\ req'[r].kind = "launch" /\ req'[r].at = "idle"
        /\ \A q \in Requests \ {r} : req'[q] = req[q]
    BY <1>1, <2>1, FinishFacts DEF Inv
  <2>3. req[r].kind = "launch"
    BY <1>1 DEF Inv, TypeOK, Shape
  <2>4. TypeOK'
    BY <1>1, <2>2, <2>3, SetupAssumption DEF Inv, TypeOK, Steps
  <2>5. Shape' /\ Logins' /\ Modes'
    BY <1>1, <2>2 DEF Inv, Shape, Logins, Modes, Holding, LaunchStages, Steps
  <2>6. Alone' /\ Additions' /\ Saved'
    BY <1>1, <2>2 DEF Inv, Alone, Additions, Saved, Holding, LaunchStages, Kept
  <2> QED
    BY <2>4, <2>5, <2>6 DEF Inv
<1> QED
  BY <1>3, <1>4 DEF Inv, TypeOK

LEMMA UpgradeHostKeeps ==
    ASSUME Inv, NEW r \in Requests, UpgradeHost(r)
    PROVE  Inv'
<1> DEFINE c == [req[r].cfg EXCEPT !.loop = FALSE]
<1>1. /\ req[r].at = "host" /\ With(r, "reload", c)
      /\ UNCHANGED <<mode, games, live, bound, mutex, issued, printed, ops, crossed, forced>>
      /\ IF req[r].cfg.loop THEN SaveOrWarn(c) ELSE UNCHANGED <<disk, unsaved>>
  BY DEF UpgradeHost
<1>2. req[r].at \in LaunchStages /\ "reload" \in LaunchStages \ {"switch"}
  BY <1>1 DEF LaunchStages, Holding
<1>3. /\ c \in Config /\ c.login = req[r].cfg.login /\ c.mode = req[r].cfg.mode
      /\ c.archive = req[r].cfg.archive /\ c.folder = req[r].cfg.folder /\ c.key = req[r].cfg.key
      /\ req[r].cfg.loop \in BOOLEAN
  BY <1>2, StageFacts DEF Config
<1>4. ~req[r].cfg.loop => c = req[r].cfg
  BY <1>2, StageFacts DEF Config
<1> HIDE DEF c
<1>5. ~crossed => Kept(disk, c)
  BY <1>2, <1>3, StageFacts DEF Kept
<1>6. CASE req[r].cfg.loop
  <2>1. unsaved' \in BOOLEAN /\ (unsaved => unsaved') /\ disk' \in {disk, c} /\ (~unsaved' => disk' = c)
    BY <1>1, <1>2, <1>6, SaveFacts, StageFacts
  <2> QED
    BY <1>1, <1>2, <1>3, <1>5, <2>1, StageFacts, StageKeeps
<1>7. CASE ~req[r].cfg.loop
  BY <1>1, <1>2, <1>4, <1>7, StageFacts, StageKeeps
<1> QED
  BY <1>3, <1>6, <1>7

LEMMA ReloadKeeps ==
    ASSUME Inv, NEW r \in Requests, Reload(r)
    PROVE  Inv'
<1>1. /\ req[r].at = "reload" /\ With(r, "key", disk)
      /\ UNCHANGED <<mode, disk, games, live, bound, mutex, issued, printed, ops, crossed, unsaved, forced>>
  BY DEF Reload
<1>2. req[r].at \in LaunchStages /\ "key" \in LaunchStages \ {"switch"}
  BY <1>1 DEF LaunchStages, Holding
<1>3. Kept(disk, disk)
  BY DEF Kept
<1> QED
  BY <1>1, <1>2, <1>3, StageFacts, StageKeeps

LEMMA LaunchKeyKeeps ==
    ASSUME Inv, NEW r \in Requests, LaunchKey(r)
    PROVE  Inv'
<1>1. /\ req[r].at = "key"
      /\ UNCHANGED <<mode, games, live, bound, mutex, ops, crossed, forced>>
  BY DEF LaunchKey
<1>2. PICK new : EnsureKey(req[r].cfg, new) /\ With(r, "propagate", new)
  BY DEF LaunchKey
<1>3. req[r].at \in LaunchStages /\ "propagate" \in LaunchStages \ {"switch"}
  BY <1>1 DEF LaunchStages, Holding
<1>4. /\ new \in Config
      /\ new.login = req[r].cfg.login /\ new.archive = req[r].cfg.archive
      /\ new.folder = req[r].cfg.folder /\ new.mode = req[r].cfg.mode
      /\ req[r].cfg.key \in {0, new.key}
      /\ issued' \in Nat /\ printed' \in 0..issued'
      /\ unsaved' \in BOOLEAN /\ (unsaved => unsaved')
      /\ disk' \in {disk, new}
      /\ ~unsaved' => \/ new = req[r].cfg /\ disk' = disk /\ printed' = printed
                      \/ req[r].cfg.key = 0 /\ disk' = new /\ printed' = new.key
  BY <1>2, <1>3, StageFacts, KeyFacts
<1>5. ~crossed => Kept(disk, new)
  BY <1>3, <1>4, StageFacts DEF Kept
<1>6. ~crossed /\ ~unsaved' => disk' = new /\ printed' \in {printed, new.key}
  BY <1>3, <1>4, StageFacts
<1> QED
  BY <1>1, <1>2, <1>3, <1>4, <1>5, <1>6, StageFacts, StageKeeps

LEMMA PropagateKeeps ==
    ASSUME Inv, NEW r \in Requests, Propagate(r)
    PROVE  Inv'
<1>1. /\ req[r].at = "propagate" /\ live' = req[r].cfg /\ bound' = TRUE
      /\ With(r, "switch", req[r].cfg)
      /\ UNCHANGED <<mode, disk, games, mutex, issued, printed, ops, crossed, unsaved, forced>>
  BY DEF Propagate, Goto
<1>2. /\ req[r].at \in LaunchStages /\ req[r].kind = "launch"
      /\ disk # NoConfig /\ req[r].cfg # NoConfig
  BY <1>1, StageFacts, SetupAssumption DEF Inv, TypeOK, Shape, Logins, LaunchStages, Holding
<1>3. /\ req' \in [Requests -> [kind : Steps \cup {"launch"}, at : Stages,
                                cfg : Config \cup {NoConfig}]]
      /\ req'[r].kind = "launch" /\ req'[r].at = "switch" /\ req'[r].cfg = req[r].cfg
      /\ \A q \in Requests \ {r} : req'[q] = req[q]
  <2>1. req' = [req EXCEPT ![r] = [kind |-> "launch", at |-> "switch", cfg |-> req[r].cfg]]
    BY <1>1, <1>2 DEF With
  <2>2. req[r].cfg \in Config \cup {NoConfig} /\ "switch" \in Stages
    BY <1>2, StageFacts DEF Stages
  <2> QED
    BY <2>1, <2>2, ReqTyped DEF Inv
<1>4. TypeOK'
  <2>1. \A q \in Requests : mutex = q <=> req'[q].kind \in Steps /\ req'[q].at # "idle"
    BY <1>1, <1>2, <1>3 DEF Inv, TypeOK, Steps
  <2> QED
    BY <1>1, <1>2, <1>3, <2>1, StageFacts DEF Inv, TypeOK
<1>5. Shape'
  BY <1>1, <1>2, <1>3, StageFacts DEF Inv, Shape, Steps, Holding, LaunchStages
<1>6. Logins' /\ Modes'
  BY <1>1, <1>2, <1>3, StageFacts DEF Inv, Logins, Modes, Holding, LaunchStages
<1>7. Alone' /\ Additions'
  BY <1>1, <1>2, <1>3 DEF Inv, Alone, Additions, Holding, LaunchStages, Kept
<1>8. Saved'
  BY <1>1, <1>2, <1>3 DEF Inv, Alone, Saved, Holding, LaunchStages
<1> QED
  BY <1>4, <1>5, <1>6, <1>7, <1>8 DEF Inv

LEMMA TransitionKeeps ==
    ASSUME Inv, NEW r \in Requests, TransitionToNormal(r)
    PROVE  Inv'
<1>1. /\ req[r].at = "switch" /\ mode' = "normal" /\ req' = [req EXCEPT ![r] = Rest]
      /\ UNCHANGED <<disk, games, live, bound, mutex, issued, printed, ops, crossed, unsaved, forced>>
  BY DEF TransitionToNormal
<1>2. req[r].at \in LaunchStages /\ req[r].kind = "launch"
  BY <1>1 DEF Inv, TypeOK, Shape, LaunchStages, Holding
<1>3. /\ req' \in [Requests -> [kind : Steps \cup {"launch"}, at : Stages,
                                cfg : Config \cup {NoConfig}]]
      /\ req'[r].kind = "launch" /\ req'[r].at = "idle"
      /\ \A q \in Requests \ {r} : req'[q] = req[q]
  BY <1>1, FinishFacts DEF Inv
<1>4. TypeOK'
  <2>1. \A q \in Requests : mutex = q <=> req'[q].kind \in Steps /\ req'[q].at # "idle"
    BY <1>2, <1>3 DEF Inv, TypeOK, Steps
  <2> QED
    BY <1>1, <1>3, <2>1 DEF Inv, TypeOK
<1>5. Shape' /\ Logins' /\ Modes'
  BY <1>1, <1>2, <1>3 DEF Inv, Shape, Logins, Modes, Steps, Holding, LaunchStages
<1>6. Alone' /\ Additions' /\ Saved'
  BY <1>1, <1>3 DEF Inv, Alone, Additions, Saved, Holding, LaunchStages, Kept
<1> QED
  BY <1>4, <1>5, <1>6 DEF Inv

LEMMA CrashKeeps == Inv /\ Crash => Inv'
<1> SUFFICES ASSUME Inv, Crash PROVE Inv'
  OBVIOUS
<1>1. /\ mode' = "down" /\ live' = NoConfig /\ bound' = FALSE /\ mutex' = NoRequest
      /\ req' = [q \in Requests |-> Rest]
      /\ UNCHANGED <<disk, games, issued, printed, crossed, unsaved, forced>>
  BY DEF Crash
<1>2. \A q \in Requests : req'[q].kind = "launch" /\ req'[q].at = "idle"
  BY <1>1 DEF Rest
<1>3. TypeOK'
  <2>1. Rest \in [kind : Steps \cup {"launch"}, at : Stages, cfg : Config \cup {NoConfig}]
    BY DEF Rest, Stages, Steps
  <2>2. req' \in [Requests -> [kind : Steps \cup {"launch"}, at : Stages, cfg : Config \cup {NoConfig}]]
    BY <1>1, <2>1
  <2>3. ops' \in Nat
    BY DEF Crash, Outside, Inv, TypeOK
  <2>4. bound' \in BOOLEAN
    BY <1>1
  <2>5. \A q \in Requests : mutex' = q <=> req'[q].kind \in Steps /\ req'[q].at # "idle"
    BY <1>1, <1>2, SetupAssumption
  <2> QED
    BY <1>1, <2>2, <2>3, <2>4, <2>5 DEF Inv, TypeOK
<1>4. Shape' /\ Logins' /\ Modes'
  BY <1>1, <1>2 DEF Inv, Shape, Logins, Modes, Holding, LaunchStages, Steps
<1>5. Alone' /\ Additions' /\ Saved'
  BY <1>1, <1>2 DEF Inv, Alone, Additions, Saved, Holding, LaunchStages
<1> QED
  BY <1>3, <1>4, <1>5 DEF Inv

LEMMA BootKeeps == Inv /\ Boot => Inv'
<1> SUFFICES ASSUME Inv, Boot PROVE Inv'
  OBVIOUS
<1>1. mode = "down" /\ live = NoConfig /\ UNCHANGED <<games, mutex, req, ops, crossed>>
  BY DEF Boot, Inv, Shape
<1>2. \A r \in Requests : req[r].at = "idle"
  BY <1>1 DEF Inv, Shape
<1>3. CASE disk = NoConfig
  <2>1. /\ mode' = "setup" /\ live' = NoConfig /\ bound' = FALSE
        /\ UNCHANGED <<disk, issued, printed, unsaved, forced>>
    BY <1>3 DEF Boot
  <2>2. bound' \in BOOLEAN
    BY <2>1
  <2>3. TypeOK'
    BY <1>1, <2>1, <2>2 DEF Inv, TypeOK
  <2>4. Shape' /\ Logins' /\ Modes' /\ Alone' /\ Additions' /\ Saved'
    BY <1>1, <1>2, <2>1 DEF Inv, Shape, Logins, Modes, Alone, Additions, Saved, Holding, LaunchStages, Steps
  <2> QED
    BY <2>3, <2>4 DEF Inv
<1>4. CASE disk # NoConfig
  <2> DEFINE c == Started(disk)
  <2>1. /\ mode' = c.mode /\ bound' = TRUE
        /\ \E new : EnsureKey(c, new) /\ live' = new
        /\ forced' = (forced \/ (Incomplete(disk) /\ disk'.mode = "setup"))
    BY <1>4 DEF Boot
  <2>2. disk \in Config /\ disk.login # 0 /\ (disk.mode = "normal" \/ forced)
    BY <1>4 DEF Inv, TypeOK, Logins, Modes
  <2>3. /\ c \in Config /\ c.login = disk.login /\ c.key = disk.key
        /\ c.mode \in {"normal", "setup"}
        /\ c.mode = disk.mode \/ (Incomplete(disk) /\ c.mode = "setup")
        /\ c.mode = "normal" => c = disk
    BY <2>2 DEF Config, Incomplete, Started
  <2> HIDE DEF c
  <2>4. PICK new : EnsureKey(c, new) /\ live' = new
    BY <2>1
  <2>5. /\ new \in Config /\ new.login = c.login /\ new.mode = c.mode
        /\ issued' \in Nat /\ printed' \in 0..issued'
        /\ unsaved' \in BOOLEAN /\ (unsaved => unsaved')
        /\ disk' \in {disk, new}
        /\ ~unsaved' => \/ new = c /\ disk' = disk /\ printed' = printed
                        \/ c.key = 0 /\ disk' = new /\ printed' = new.key
    BY <2>3, <2>4, KeyFacts
  <2>6. new # NoConfig
    BY <2>5, SetupAssumption
  <2>7. TypeOK'
    <3>1. bound' \in BOOLEAN /\ forced' \in BOOLEAN
      BY <2>1 DEF Inv, TypeOK
    <3>2. mode' \in {"down", "setup", "normal"}
      BY <2>1, <2>3
    <3> QED
      BY <1>1, <2>2, <2>4, <2>5, <3>1, <3>2 DEF Inv, TypeOK
  <2>8. Shape'
    <3>1. mode' # "down" /\ bound' /\ live' # NoConfig
      BY <2>1, <2>3, <2>4, <2>6
    <3> QED
      BY <1>1, <1>2, <3>1 DEF Inv, Shape, Holding
  <2>9. Logins'
    BY <1>1, <1>2, <1>4, <2>2, <2>3, <2>4, <2>5, <2>6 DEF Logins, Holding, LaunchStages
  <2>10. Modes'
    <3>1. forced => forced'
      BY <2>1
    <3>2. disk'.mode = "normal" \/ forced'
      <4>1. CASE disk' = disk
        BY <2>2, <3>1, <4>1
      <4>2. CASE disk' = new /\ c.mode = disk.mode
        BY <2>2, <2>5, <3>1, <4>2
      <4>3. CASE disk' = new /\ Incomplete(disk) /\ c.mode = "setup"
        BY <2>1, <2>5, <4>3
      <4> QED
        BY <2>3, <2>5, <4>1, <4>2, <4>3
    <3> QED
      BY <1>1, <1>2, <3>2 DEF Modes, Holding
  <2>11. Alone' /\ Additions'
    BY <1>1, <1>2 DEF Alone, Additions, Holding
  <2>12. Saved'
    <3>1. ~crossed /\ ~unsaved' /\ printed' # 0 => printed' = disk'.key
      BY <2>3, <2>5 DEF Inv, Saved
    <3>2. mode' = "normal" /\ ~unsaved' => live' = disk'
      BY <2>1, <2>3, <2>4, <2>5
    <3> QED
      BY <1>1, <1>2, <1>4, <2>5, <2>6, <3>1, <3>2 DEF Saved, LaunchStages, Holding
  <2> QED
    BY <2>7, <2>8, <2>9, <2>10, <2>11, <2>12 DEF Inv
<1> QED
  BY <1>3, <1>4

LEMMA SecretKeeps == Inv /\ SaveSecret => Inv'
<1> SUFFICES ASSUME Inv, SaveSecret PROVE Inv'
  OBVIOUS
<1>1. /\ mode = "down" /\ disk # NoConfig
      /\ disk' = [Started(disk) EXCEPT !.csrf = TRUE]
      /\ forced' = (forced \/ Incomplete(disk))
      /\ UNCHANGED <<mode, games, live, bound, mutex, req, issued, printed, ops, crossed, unsaved>>
  BY DEF SaveSecret
<1>2. disk \in Config /\ forced' \in BOOLEAN /\ (forced => forced')
  BY <1>1 DEF Inv, TypeOK
<1>3. /\ disk' \in Config /\ disk'.login = disk.login /\ disk'.key = disk.key
      /\ disk'.mode = disk.mode \/ forced'
  BY <1>1, <1>2 DEF Started, Config
<1>4. disk' # NoConfig
  BY <1>3, SetupAssumption
<1>5. live = NoConfig /\ \A r \in Requests : req[r].at = "idle"
  BY <1>1 DEF Inv, Shape
<1>6. TypeOK'
  BY <1>1, <1>2, <1>3 DEF Inv, TypeOK
<1>7. Shape' /\ Alone' /\ Additions'
  BY <1>1, <1>5 DEF Inv, Shape, Alone, Additions, Holding, LaunchStages
<1>8. Logins' /\ Modes'
  BY <1>1, <1>2, <1>3, <1>4, <1>5 DEF Inv, Logins, Modes, Holding, LaunchStages
<1>9. Saved'
  BY <1>1, <1>3, <1>4, <1>5 DEF Inv, Saved, Holding, LaunchStages
<1> QED
  BY <1>6, <1>7, <1>8, <1>9 DEF Inv

----------------------------------------------------------------------------
(* The theorems. *)

LEMMA NextKeeps == Inv /\ [Next]_vars => Inv'
<1> SUFFICES ASSUME Inv, [Next]_vars PROVE Inv'
  OBVIOUS
<1>1. CASE UNCHANGED vars
  BY <1>1, StutterKeeps
<1>2. CASE Boot \/ SaveSecret
  BY <1>2, BootKeeps, SecretKeeps
<1>3. CASE Crash
  BY <1>3, CrashKeeps
<1>4. ASSUME NEW r \in Requests, Credentials(r) \/ ArchivePassword(r) \/ Scan(r) \/ Launch(r) \/ Proceed(r)
      PROVE  Inv'
  <2>0. games \in BOOLEAN
    BY DEF Inv, TypeOK
  <2>1. CASE Credentials(r)
    BY <2>0, <2>1, BeginKeeps DEF Credentials, Steps
  <2>2. CASE ArchivePassword(r)
    BY <2>0, <2>2, BeginKeeps DEF ArchivePassword, Steps
  <2>3. CASE Scan(r)
    <3>1. Begin(r, "scan") /\ games' \in BOOLEAN /\ "scan" \in Steps
      BY <2>0, <2>3 DEF Scan, Steps
    <3> QED
      BY <3>1, BeginKeeps
  <2>4. CASE Launch(r)
    BY <2>4, LaunchKeeps
  <2>5. CASE Proceed(r)
    BY <2>5, ReadKeeps, RefuseKeeps, WriteKeeps, PortOverrideKeeps, CountGamesKeeps,
       UpgradeHostKeeps, ReloadKeeps, LaunchKeyKeeps, PropagateKeeps, TransitionKeeps DEF Proceed
  <2> QED
    BY <1>4, <2>1, <2>2, <2>3, <2>4, <2>5
<1> QED
  BY <1>1, <1>2, <1>3, <1>4 DEF Next

\* Every reachable state of the wizard is well typed and satisfies what the
\* theorems below follow from, for any requests, passwords and ports.
THEOREM WizardInvariant == Spec => []Inv
BY InitHolds, NextKeeps, PTL DEF Spec

\* Requests see normal mode only with a complete configuration and the
\* database in the handlers, whatever launches, steps, failing writes and
\* restarts interleave (the switch comes last in HandleLaunchPOST).
THEOREM NormalMeansConfigured == Spec => []NormalIsConfigured
<1>1. Inv => NormalIsConfigured
  BY DEF Inv, TypeOK, Shape, Logins, NormalIsConfigured
<1> QED
  BY <1>1, WizardInvariant, PTL

\* The handlers have what is on disk and accept the key of the last banner,
\* and a restart finds the server launched, if launches crossed nothing and
\* every write succeeded: unless it was launched without an archive password, or
\* a start had forced setup mode into the file.
THEOREM LaunchKeepsSaved == Spec => []LaunchedAsSaved
<1>1. Inv => LaunchedAsSaved
  <2> SUFFICES ASSUME Inv, mode = "normal", ~crossed, ~unsaved
               PROVE  /\ live = disk /\ printed \in {0, live.key}
                      /\ Started(disk).mode = "normal" \/ ~disk.archive \/ forced
    BY DEF LaunchedAsSaved
  <2>1. live = disk /\ live # NoConfig /\ (printed # 0 => printed = disk.key)
    BY DEF Inv, Shape, Saved
  <2>2. disk.mode = "normal" \/ forced
    BY <2>1 DEF Inv, Modes
  <2>3. disk.archive => Started(disk) = disk
    BY DEF Started, Incomplete
  <2> QED
    BY <2>1, <2>2, <2>3
<1> QED
  BY <1>1, WizardInvariant, PTL

\* What a step writes to the file: nothing, or a configuration that the
\* invariant describes.
LEMMA DiskSteps ==
    ASSUME Inv, Next, disk # NoConfig
    PROVE  disk' # NoConfig /\ disk'.login = disk.login /\ (~crossed' => Kept(disk, disk'))
<1>0. Kept(disk, disk) /\ disk \in Config
  BY DEF Inv, TypeOK, Kept
<1>1. CASE disk' = disk
  BY <1>0, <1>1
<1>2. CASE Boot
  <2> DEFINE c == Started(disk)
  <2>1. \E new : EnsureKey(c, new)
    BY <1>2 DEF Boot
  <2>2. /\ c \in Config /\ c.login = disk.login /\ c.key = disk.key
        /\ c.archive = disk.archive /\ c.folder = disk.folder
    BY <1>0 DEF Config, Started
  <2> HIDE DEF c
  <2>3. PICK new : EnsureKey(c, new)
    BY <2>1
  <2>4. /\ new \in Config /\ new.login = c.login /\ new.archive = c.archive
        /\ new.folder = c.folder /\ c.key \in {0, new.key} /\ disk' \in {disk, new}
    BY <2>2, <2>3, KeyFacts
  <2> QED
    BY <1>0, <2>2, <2>4, SetupAssumption DEF Kept
<1>3. ASSUME NEW r \in Requests, Write(r)
      PROVE  disk' # NoConfig /\ disk'.login = disk.login /\ (~crossed' => Kept(disk, disk'))
  <2>1. req[r].at = "write" /\ disk' \in {disk, req[r].cfg} /\ crossed' = crossed
    BY <1>3 DEF Write
  <2> QED
    BY <1>0, <2>1, SetupAssumption DEF Inv, Shape, Logins, Additions, Holding
<1>4. ASSUME NEW r \in Requests, PortOverride(r)
      PROVE  disk' # NoConfig /\ disk'.login = disk.login /\ (~crossed' => Kept(disk, disk'))
  <2>1. req[r].at \in LaunchStages /\ crossed' = crossed
    BY <1>4 DEF PortOverride, LaunchStages, Holding
  <2>2. PICK p \in Ports : disk' \in {disk, [req[r].cfg EXCEPT !.port = p]}
    BY <1>4, SetupAssumption DEF PortOverride, SaveOrWarn
  <2> DEFINE c == [req[r].cfg EXCEPT !.port = p]
  <2>3. /\ c \in Config /\ c.login = req[r].cfg.login /\ c.archive = req[r].cfg.archive
        /\ c.folder = req[r].cfg.folder /\ c.key = req[r].cfg.key
    BY <2>1, StageFacts DEF Config
  <2>4. disk' \in {disk, c}
    BY <2>2
  <2> HIDE DEF c
  <2> QED
    BY <1>0, <2>1, <2>3, <2>4, StageFacts, SetupAssumption DEF Kept
<1>5. ASSUME NEW r \in Requests, UpgradeHost(r)
      PROVE  disk' # NoConfig /\ disk'.login = disk.login /\ (~crossed' => Kept(disk, disk'))
  <2>1. req[r].at \in LaunchStages /\ crossed' = crossed
    BY <1>5 DEF UpgradeHost, LaunchStages, Holding
  <2>2. disk' \in {disk, [req[r].cfg EXCEPT !.loop = FALSE]}
    BY <1>5 DEF UpgradeHost, SaveOrWarn
  <2> DEFINE c == [req[r].cfg EXCEPT !.loop = FALSE]
  <2>3. /\ c \in Config /\ c.login = req[r].cfg.login /\ c.archive = req[r].cfg.archive
        /\ c.folder = req[r].cfg.folder /\ c.key = req[r].cfg.key
    BY <2>1, StageFacts DEF Config
  <2>4. disk' \in {disk, c}
    BY <2>2
  <2> HIDE DEF c
  <2> QED
    BY <1>0, <2>1, <2>3, <2>4, StageFacts, SetupAssumption DEF Kept
<1>6. ASSUME NEW r \in Requests, LaunchKey(r)
      PROVE  disk' # NoConfig /\ disk'.login = disk.login /\ (~crossed' => Kept(disk, disk'))
  <2>1. req[r].at \in LaunchStages /\ crossed' = crossed
    BY <1>6 DEF LaunchKey, LaunchStages, Holding
  <2>2. PICK new : EnsureKey(req[r].cfg, new)
    BY <1>6 DEF LaunchKey
  <2>3. /\ new \in Config /\ new.login = req[r].cfg.login /\ new.archive = req[r].cfg.archive
        /\ new.folder = req[r].cfg.folder /\ req[r].cfg.key \in {0, new.key}
        /\ disk' \in {disk, new}
    BY <2>1, <2>2, StageFacts, KeyFacts
  <2> QED
    BY <1>0, <2>1, <2>3, StageFacts, SetupAssumption DEF Kept
<1>8. CASE SaveSecret
  <2>1. disk' = [Started(disk) EXCEPT !.csrf = TRUE]
    BY <1>8 DEF SaveSecret
  <2>2. /\ disk' \in Config /\ disk'.login = disk.login /\ disk'.archive = disk.archive
        /\ disk'.folder = disk.folder /\ disk'.key = disk.key
    BY <1>0, <2>1 DEF Started, Config
  <2> QED
    BY <2>2, SetupAssumption DEF Kept
<1>7. \/ disk' = disk \/ Boot \/ SaveSecret
      \/ \E r \in Requests : Write(r) \/ PortOverride(r) \/ UpgradeHost(r) \/ LaunchKey(r)
  BY DEF Next, Proceed, Crash, Credentials, ArchivePassword, Scan, Begin, Launch, Read, Refuse,
         CountGames, Reload, Propagate, TransitionToNormal
<1> QED
  BY <1>1, <1>2, <1>3, <1>4, <1>5, <1>6, <1>7, <1>8

\* The admin's password is never replaced once it is in the file, by any
\* interleaving of credentials, launches and restarts.
THEOREM LoginStays == Spec => LoginIsSetOnce
<1>1. Inv /\ [Next]_vars => [disk # NoConfig /\ disk.login # 0 => disk'.login = disk.login]_vars
  BY DiskSteps DEF vars
<1> QED
  BY <1>1, WizardInvariant, PTL DEF Spec, LoginIsSetOnce

\* What one step of the wizard saved, no later one undoes, unless a launch
\* crossed it: SetupHandler.mu covers read and write of every step.
THEOREM StepsStay == Spec => StepsAreKept
<1>1. Inv /\ [Next]_vars => [~crossed' /\ disk # NoConfig => Kept(disk, disk')]_vars
  BY DiskSteps DEF vars
<1> QED
  BY <1>1, WizardInvariant, PTL DEF Spec, StepsAreKept
==============================================================================
