-------------------------------- MODULE Setup --------------------------------
(***************************************************************************)
(* The setup wizard: config.toml and the games table are filled in by      *)
(* requests until a launch switches the running server to normal mode; the *)
(* process may be killed and started again at any point.                   *)
(*                                                                         *)
(* The steps of the wizard hold SetupHandler.mu from their check of the    *)
(* mode to the end. A launch does not: it reads the configuration, may     *)
(* write it back up to three times, hands it to the other handlers, and    *)
(* takes the mutex only to switch the mode.                                *)
(*                                                                         *)
(* Told apart of config.toml: the admin's password (login), the archive    *)
(* password, the port, whether the host is a loopback address, whether the *)
(* folder with the games is in it, the API key, whether it has a secret    *)
(* against CSRF, and the mode it asks for; 0 is none. Left out: the review *)
(* of the games, a config.toml that does not load, a -port flag, and the   *)
(* settings of normal mode (Settings).                                     *)
(***************************************************************************)
EXTENDS Naturals

CONSTANTS
    Requests,
    Passwords,      \* for the admin, numbers above 0
    Ports,
    Legacy,         \* configurations left by older versions
    MaxOps,         \* bound: requests and restarts
    NoConfig, NoRequest

Config == [login : Passwords \cup {0}, archive : BOOLEAN, port : Ports, loop : BOOLEAN,
           folder : BOOLEAN, key : Nat, csrf : BOOLEAN, mode : {"normal", "setup"}]

ASSUME SetupAssumption ==
    /\ Passwords \subseteq Nat \ {0}
    /\ Legacy \subseteq Config /\ NoConfig \notin Config
    /\ \A c \in Legacy : c.login # 0 /\ c.key = 0 /\ c.mode = "normal"
    /\ Ports # {} /\ MaxOps \in Nat /\ NoRequest \notin Requests

VARIABLES
    mode,       \* modeVal; "down" while the process is not running
    disk,       \* config.toml
    games,      \* whether the games of the folder are in the database
    live,       \* publicHandler.Config and adminHandler.Config
    bound,      \* whether the handlers have the database
    mutex,      \* SetupHandler.mu
    req,        \* what each request is doing, and the configuration it read
    issued,     \* API keys generated
    printed,    \* the last API key on the banner
    ops,
    crossed,    \* history: a launch overlapped with another writer
    unsaved,    \* history: a launch or a start could not write config.toml
    forced      \* history: a start wrote config.toml while forced to setup mode

vars == <<mode, disk, games, live, bound, mutex, req, issued, printed, ops, crossed, unsaved, forced>>

Steps == {"credentials", "archive", "scan"}
Stages == {"idle", "read", "write", "port", "count", "host", "reload", "key", "propagate", "switch"}
Rest == [kind |-> "launch", at |-> "idle", cfg |-> NoConfig]

TypeOK ==
    /\ mode \in {"down", "setup", "normal"}
    /\ disk \in Config \cup {NoConfig}
    /\ live \in Config \cup {NoConfig}
    /\ games \in BOOLEAN
    /\ bound \in BOOLEAN
    /\ mutex \in Requests \cup {NoRequest}
    /\ req \in [Requests -> [kind : Steps \cup {"launch"}, at : Stages, cfg : Config \cup {NoConfig}]]
    /\ \A r \in Requests : mutex = r <=> req[r].kind \in Steps /\ req[r].at # "idle"
    /\ issued \in Nat /\ printed \in 0..issued
    /\ ops \in Nat
    /\ crossed \in BOOLEAN /\ unsaved \in BOOLEAN /\ forced \in BOOLEAN

Init ==
    /\ mode = "down"
    /\ disk \in Legacy \cup {NoConfig}
    /\ games \in BOOLEAN
    /\ live = NoConfig /\ bound = FALSE
    /\ mutex = NoRequest
    /\ req = [r \in Requests |-> Rest]
    /\ issued = 0 /\ printed = 0 /\ ops = 0
    /\ crossed = FALSE /\ unsaved = FALSE /\ forced = FALSE

Outside == ops < MaxOps /\ ops' = ops + 1
With(r, stage, c) == req' = [req EXCEPT ![r] = [kind |-> req[r].kind, at |-> stage, cfg |-> c]]
Goto(r, stage) == With(r, stage, req[r].cfg)

\* EnsureAPIKey: a configuration without a key gets one, in memory at once and
\* on disk if it can be written. The banner is printed when it was.
EnsureKey(c, new) ==
    IF c.key # 0 THEN new = c /\ UNCHANGED <<disk, issued, printed, unsaved>>
    ELSE /\ issued' = issued + 1
         /\ new = [c EXCEPT !.key = issued + 1]
         /\ \/ disk' = new /\ printed' = issued + 1 /\ unsaved' = unsaved
            \/ UNCHANGED <<disk, printed>> /\ unsaved' = TRUE

----------------------------------------------------------------------------
(* The process. *)

\* A configuration without an archive password is set to setup mode.
Incomplete(c) == c.mode = "normal" /\ ~c.archive
Started(c) == IF Incomplete(c) THEN [c EXCEPT !.mode = "setup"] ELSE c

\* The first write of a start, which ends if it fails: the secret, with the mode
\* as it is by then. What follows depends on the file only (Boot).
SaveSecret ==
    /\ mode = "down" /\ disk # NoConfig /\ ~disk.csrf
    /\ disk' = [Started(disk) EXCEPT !.csrf = TRUE]
    /\ forced' = (forced \/ Incomplete(disk))
    /\ UNCHANGED <<mode, games, live, bound, mutex, req, issued, printed, ops, crossed, unsaved>>

\* Without a file, setup mode. A mode that was forced is written if the key is
\* missing.
Boot ==
    /\ mode = "down"
    /\ disk # NoConfig => disk.csrf
    /\ IF disk = NoConfig
       THEN /\ mode' = "setup" /\ live' = NoConfig /\ bound' = FALSE
            /\ UNCHANGED <<disk, issued, printed, unsaved, forced>>
       ELSE LET c == Started(disk) IN
            /\ mode' = c.mode /\ bound' = TRUE
            /\ \E new \in {c, [c EXCEPT !.key = issued + 1]} : EnsureKey(c, new) /\ live' = new
            /\ forced' = (forced \/ (Incomplete(disk) /\ disk'.mode = "setup"))
    /\ UNCHANGED <<games, mutex, req, ops, crossed>>

Crash ==
    /\ mode # "down"
    /\ Outside
    /\ mode' = "down"
    /\ live' = NoConfig /\ bound' = FALSE
    /\ mutex' = NoRequest
    /\ req' = [r \in Requests |-> Rest]
    /\ UNCHANGED <<disk, games, issued, printed, crossed, unsaved, forced>>

----------------------------------------------------------------------------
(* Credentials, archive password and scan. *)

Launching == \E q \in Requests : req[q].kind = "launch" /\ req[q].at # "idle"
Busy == \E q \in Requests : req[q].at # "idle"

\* Mutant: the steps do not take the mutex.
BeginUnlocked(r, kind) ==
    /\ mode = "setup" /\ req[r].at = "idle"
    /\ Outside
    /\ mutex' = mutex
    /\ req' = [req EXCEPT ![r] = [kind |-> kind, at |-> "read", cfg |-> NoConfig]]
    /\ crossed' = (crossed \/ Launching)
    /\ UNCHANGED <<mode, disk, live, bound, issued, printed, unsaved, forced>>

\* The request waits for the mutex; in normal mode it is refused.
Begin(r, kind) ==
    /\ mode = "setup" /\ mutex = NoRequest /\ req[r].at = "idle"
    /\ Outside
    /\ mutex' = r
    /\ req' = [req EXCEPT ![r] = [kind |-> kind, at |-> "read", cfg |-> NoConfig]]
    /\ crossed' = (crossed \/ Launching)
    /\ UNCHANGED <<mode, disk, live, bound, issued, printed, unsaved, forced>>

Credentials(r) == Begin(r, "credentials") /\ UNCHANGED games
ArchivePassword(r) == Begin(r, "archive") /\ UNCHANGED games

\* The games found are committed before the configuration is read; the folder
\* may hold none.
Scan(r) == Begin(r, "scan") /\ games' \in {games, TRUE}

First(p) == [login |-> p, archive |-> FALSE, port |-> CHOOSE q \in Ports : TRUE, loop |-> FALSE,
             folder |-> FALSE, key |-> 0, csrf |-> TRUE, mode |-> "normal"]

\* Mutant: credentials are taken again.
SavesAgain(kind, c) ==
    CASE kind = "credentials" /\ c = NoConfig -> {First(p) : p \in Passwords}
      [] kind = "credentials" /\ c # NoConfig -> {[c EXCEPT !.login = p, !.mode = "normal"] : p \in Passwords}
      [] kind = "archive" /\ c # NoConfig -> {[c EXCEPT !.archive = TRUE]}
      [] kind = "scan" /\ c # NoConfig /\ ~c.folder -> {[c EXCEPT !.folder = TRUE]}
      [] OTHER -> {}

\* What the request is going to save; none if it saves nothing: credentials
\* that are set already, no configuration to put a password or folder in, a
\* folder that is in it.
Saves(kind, c) ==
    CASE kind = "credentials" /\ c = NoConfig -> {First(p) : p \in Passwords}
      [] kind = "credentials" /\ c # NoConfig ->
            {[c EXCEPT !.login = p, !.mode = "normal"] : p \in {q \in Passwords : c.login = 0}}
      [] kind = "archive" /\ c # NoConfig -> {[c EXCEPT !.archive = TRUE]}
      [] kind = "scan" /\ c # NoConfig /\ ~c.folder -> {[c EXCEPT !.folder = TRUE]}
      [] OTHER -> {}

Read(r) ==
    /\ req[r].at = "read"
    /\ \E c \in Saves(req[r].kind, disk) : With(r, "write", c)
    /\ UNCHANGED <<mode, disk, games, live, bound, mutex, issued, printed, ops, crossed, unsaved, forced>>

Finish(r) == req' = [req EXCEPT ![r] = Rest] /\ mutex' = IF mutex = r THEN NoRequest ELSE mutex

Refuse(r) ==
    /\ req[r].at = "read" /\ Saves(req[r].kind, disk) = {}
    /\ Finish(r)
    /\ UNCHANGED <<mode, disk, games, live, bound, issued, printed, ops, crossed, unsaved, forced>>

\* config.Save; when it fails the file is as before and the request is over.
Write(r) ==
    /\ req[r].at = "write"
    /\ disk' \in {disk, req[r].cfg}
    /\ Finish(r)
    /\ UNCHANGED <<mode, games, live, bound, issued, printed, ops, crossed, unsaved, forced>>

----------------------------------------------------------------------------
(* Launch *)

\* Credentials are required, an archive password is not.
Launch(r) ==
    /\ mode = "setup" /\ req[r].at = "idle"
    /\ Outside
    /\ disk # NoConfig /\ disk.login # 0
    /\ req' = [req EXCEPT ![r] = [kind |-> "launch", at |-> "port", cfg |-> disk]]
    /\ crossed' = (crossed \/ Busy)
    /\ UNCHANGED <<mode, disk, games, live, bound, mutex, issued, printed, unsaved, forced>>

\* config.Save, of which an error is only logged.
SaveOrWarn(c) == \/ disk' = c /\ unsaved' = unsaved
                 \/ disk' = disk /\ unsaved' = TRUE

\* Without a port in the request the configured one stays.
PortOverride(r) ==
    /\ req[r].at = "port"
    /\ \/ Goto(r, "count") /\ UNCHANGED <<disk, unsaved>>
       \/ \E p \in Ports :
            LET c == [req[r].cfg EXCEPT !.port = p] IN With(r, "count", c) /\ SaveOrWarn(c)
    /\ UNCHANGED <<mode, games, live, bound, mutex, issued, printed, ops, crossed, forced>>

CountGames(r) ==
    /\ req[r].at = "count"
    /\ IF games THEN Goto(r, "host") ELSE req' = [req EXCEPT ![r] = Rest]
    /\ UNCHANGED <<mode, disk, games, live, bound, mutex, issued, printed, ops, crossed, unsaved, forced>>

UpgradeHost(r) ==
    LET c == [req[r].cfg EXCEPT !.loop = FALSE] IN
    /\ req[r].at = "host"
    /\ With(r, "reload", c)
    /\ IF req[r].cfg.loop THEN SaveOrWarn(c) ELSE UNCHANGED <<disk, unsaved>>
    /\ UNCHANGED <<mode, games, live, bound, mutex, issued, printed, ops, crossed, forced>>

Reload(r) ==
    /\ req[r].at = "reload"
    /\ With(r, "key", disk)
    /\ UNCHANGED <<mode, disk, games, live, bound, mutex, issued, printed, ops, crossed, unsaved, forced>>

\* Mutant: the key goes to the disk but not into what the handlers are given.
LaunchKeyAside(r) ==
    LET c == req[r].cfg IN
    /\ req[r].at = "key"
    /\ \E new \in {c, [c EXCEPT !.key = issued + 1]} : EnsureKey(c, new) /\ With(r, "propagate", c)
    /\ UNCHANGED <<mode, games, live, bound, mutex, ops, crossed, forced>>

LaunchKey(r) ==
    LET c == req[r].cfg IN
    /\ req[r].at = "key"
    /\ \E new \in {c, [c EXCEPT !.key = issued + 1]} : EnsureKey(c, new) /\ With(r, "propagate", new)
    /\ UNCHANGED <<mode, games, live, bound, mutex, ops, crossed, forced>>

\* Mutant: the mode is switched first, as before the configuration was pushed.
PropagateLater(r) ==
    /\ req[r].at \in {"propagate", "switch"}
    /\ IF req[r].at = "propagate"
       THEN mode' = "normal" /\ Goto(r, "switch") /\ UNCHANGED <<live, bound>>
       ELSE live' = req[r].cfg /\ bound' = TRUE /\ mode' = mode /\ req' = [req EXCEPT ![r] = Rest]
    /\ UNCHANGED <<disk, games, mutex, issued, printed, ops, crossed, unsaved, forced>>

\* ConfigPropagator
Propagate(r) ==
    /\ req[r].at = "propagate"
    /\ live' = req[r].cfg
    /\ bound' = TRUE
    /\ Goto(r, "switch")
    /\ UNCHANGED <<mode, disk, games, mutex, issued, printed, ops, crossed, unsaved, forced>>

\* Mutant: the launch holds the mutex already that the switch waits for.
TransitionLocked(r) ==
    /\ req[r].at = "switch" /\ mutex = r
    /\ mode' = "normal"
    /\ req' = [req EXCEPT ![r] = Rest]
    /\ UNCHANGED <<disk, games, live, bound, mutex, issued, printed, ops, crossed, unsaved, forced>>

TransitionToNormal(r) ==
    /\ req[r].at = "switch" /\ mutex = NoRequest
    /\ mode' = "normal"
    /\ req' = [req EXCEPT ![r] = Rest]
    /\ UNCHANGED <<disk, games, live, bound, mutex, issued, printed, ops, crossed, unsaved, forced>>

----------------------------------------------------------------------------

Proceed(r) ==
    \/ Read(r) \/ Refuse(r) \/ Write(r)
    \/ PortOverride(r) \/ CountGames(r) \/ UpgradeHost(r) \/ Reload(r) \/ LaunchKey(r)
    \/ Propagate(r) \/ TransitionToNormal(r)

Next ==
    \/ SaveSecret \/ Boot \/ Crash
    \/ \E r \in Requests :
         Credentials(r) \/ ArchivePassword(r) \/ Scan(r) \/ Launch(r) \/ Proceed(r)

Spec == Init /\ [][Next]_vars

\* Handlers run to their end; nobody has to send requests or start the process.
FairSpec == Spec /\ \A r \in Requests : SF_vars(Proceed(r))

----------------------------------------------------------------------------
(* Properties *)

\* Requests see normal mode only when the handlers have a configuration with
\* an admin password in it and the database, and when a restart would find one
\* with the same password, however launches and other steps interleave.
NormalIsConfigured ==
    mode = "normal" =>
        /\ bound /\ live # NoConfig /\ disk # NoConfig
        /\ live.login # 0 /\ disk.login = live.login

\* The admin password of the wizard is set once: no later or concurrent step,
\* launch or restart replaces it (409 CREDENTIALS_ALREADY_SET).
LoginIsSetOnce ==
    [][disk # NoConfig /\ disk.login # 0 => disk'.login = disk.login]_vars

Kept(c, d) == c.login \in {0, d.login} /\ (c.archive => d.archive)
              /\ (c.folder => d.folder) /\ c.key \in {0, d.key}

\* No step undoes what another one saved, unless it crossed a launch.
StepsAreKept == [][~crossed' /\ disk # NoConfig => Kept(disk, disk')]_vars

\* In normal mode the handlers work with the configuration on disk, the API key
\* of the last banner is the one they accept, and a restart finds the server
\* launched: unless launches crossed, a file could not be written, or, for the
\* restart, it was launched without an archive password ("forced to setup if the
\* archive password is missing") or a start had forced setup mode into the file.
LaunchedAsSaved ==
    mode = "normal" /\ ~crossed /\ ~unsaved =>
        /\ live = disk
        /\ printed \in {0, live.key}
        /\ Started(disk).mode = "normal" \/ ~disk.archive \/ forced

\* A launch that got as far as its last step switches the mode, also while a
\* long scan holds the mutex.
LaunchEnds ==
    \A r \in Requests : req[r].at = "switch" ~> mode \in {"normal", "down"}
===============================================================================
