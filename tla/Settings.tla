------------------------------ MODULE Settings ------------------------------
(***************************************************************************)
(* The configuration of a server that was started in normal mode: the file *)
(* config.toml, the copy the admin handler works with (h.Config), the one  *)
(* the public handler serves, and what follows a saved setting at once:    *)
(* the address the listener is bound to and the folders that are watched.  *)
(*                                                                         *)
(* Requests interleave. Each copies the configuration when it starts,      *)
(* changes its own fields in the copy, and hands the copy to UpdateConfig, *)
(* which holds configMu while it renames the new file into place and then  *)
(* swaps the pointers. Taking the mutex is merged with the rename.         *)
(*                                                                         *)
(* The fields that are told apart: addr stands for host, port and the TLS  *)
(* files, folders for game_folders, login for the hash of the password,    *)
(* key for the hash of the API key, plain for its plaintext, which only    *)
(* lives in memory (0 is none). No folders is an empty game_folders and a  *)
(* watcher that does not run. The rest of the form travels like folders.   *)
(* Left out: the in-memory copy of the password the dashboard shows, the   *)
(* update settings pushed to a checker that only logs them, and vrhub.db,  *)
(* which a restore may replace as well.                                    *)
(***************************************************************************)
EXTENDS Naturals

CONSTANTS
    Requests,
    Addresses, Folders, Logins,
    DataDir,        \* what a rescan scans when no folders are configured
    Archives,       \* configurations in an archive somebody put together
    MaxOps,         \* bound on what comes from outside: requests, crashes
    Json,           \* a config.toml that does not parse as TOML
    NoRequest, NoFolders

Watchable == Folders \cup {NoFolders}
Config == [addr : Addresses, folders : Watchable, login : Logins, key : Nat]
Memory == [addr : Addresses, folders : Watchable, login : Logins, key : Nat, plain : Nat]

ASSUME SettingsAssumption ==
    /\ Archives \subseteq [addr : Addresses, folders : Watchable, login : Logins, key : {0}]
    /\ Archives # {}
    /\ DataDir \in Folders
    /\ Json \notin Config
    /\ NoRequest \notin Requests
    /\ MaxOps \in Nat

VARIABLES
    up,         \* whether the server runs
    disk,       \* config.toml
    live,       \* h.Config
    served,     \* publicHandler.Config
    mutex,      \* who holds configMu for writing
    listening,  \* the address of the listener
    watching,   \* the folders of the file watcher
    req,        \* what each request is doing
    issued,     \* how many API keys have been generated
    backup,     \* whether a backup of this server has been downloaded
    ops,
    apart,      \* history: the file was replaced since the last save or start,
                \* or could not be written at the start
    behind,     \* history: what was left behind the saved settings
    shown,      \* history: the keys shown, and where
    twice,      \* history: the keys shown a second time in the same place
    crossed     \* history: the keys that a reveal showed while another request
                \* was under way with them

vars == <<up, disk, live, served, mutex, listening, watching, req, issued, backup, ops,
          apart, behind, shown, twice, crossed>>

Stages == {"idle", "save", "swap", "rebind", "watch", "clear"}
Kinds == {"settings", "scripts", "key", "login", "rescan", "reveal"}

\* A key is shown where it is drawn (on stderr at the start, in the answer to
\* a regeneration) and by a reveal.
Places == {"drawn", "reveal"}

\* cfg, the configuration as the request found it, and newCfg.
Request == [at : Stages, kind : Kinds, cfg : Memory, newCfg : Memory]

Durable(m) == [addr |-> m.addr, folders |-> m.folders, login |-> m.login, key |-> m.key]
Loaded(c, plain) ==
    [addr |-> c.addr, folders |-> c.folders, login |-> c.login, key |-> c.key, plain |-> plain]

\* Every copy of the configuration is complete, and the key in the handlers'
\* copy is one that was generated (EnsureAPIKey, HandleAPIKeyRegeneratePOST).
TypeOK ==
    /\ up \in BOOLEAN
    /\ disk \in Config \cup {Json}
    /\ live \in Memory /\ served \in Memory
    /\ mutex \in Requests \cup {NoRequest}
    /\ listening \in Addresses
    /\ watching \in Watchable
    /\ req \in [Requests -> Request]
    /\ issued \in Nat /\ live.key <= issued
    /\ backup \in BOOLEAN
    /\ ops \in Nat
    /\ apart \in BOOLEAN
    /\ behind \subseteq {"listener", "watcher"}
    /\ shown \subseteq Nat \X Places /\ twice \subseteq Nat /\ crossed \subseteq Nat

\* Between requests the two copies mean nothing.
Blank == Loaded(CHOOSE c \in Archives : TRUE, 0)
Rest == [at |-> "idle", kind |-> "settings", cfg |-> Blank, newCfg |-> Blank]

\* Before the first start in normal mode: what the wizard has written.
Init ==
    /\ up = FALSE
    /\ disk \in Archives
    /\ live = Loaded(disk, 0) /\ served = live
    /\ mutex = NoRequest
    /\ listening = disk.addr /\ watching = disk.folders
    /\ req = [r \in Requests |-> Rest]
    /\ issued = 0 /\ backup = FALSE /\ ops = 0
    /\ apart = FALSE /\ behind = {}
    /\ shown = {} /\ twice = {} /\ crossed = {}

outside == <<up, backup, ops>>
effects == <<listening, watching, behind>>
displays == <<shown, twice>>

Show(k, place) ==
    /\ shown' = shown \cup {<<k, place>>}
    /\ twice' = IF <<k, place>> \in shown THEN twice \cup {k} ELSE twice

Outside == ops < MaxOps /\ ops' = ops + 1

----------------------------------------------------------------------------
(* The process. *)

\* A file that does not parse is fatal. A missing API key is generated, printed
\* if it could be written, and kept in memory even if it could not. A watcher
\* that does not start is logged.
Boot ==
    /\ ~up
    /\ disk # Json
    /\ up' = TRUE
    /\ \/ /\ disk.key # 0
          /\ live' = Loaded(disk, 0)
          /\ apart' = FALSE
          /\ UNCHANGED <<disk, issued, displays>>
       \/ /\ disk.key = 0
          /\ issued' = issued + 1
          /\ live' = Loaded([disk EXCEPT !.key = issued + 1], issued + 1)
          /\ \/ disk' = Durable(live') /\ apart' = FALSE /\ Show(issued + 1, "drawn")
             \/ disk' = disk /\ apart' = TRUE /\ UNCHANGED displays
    /\ served' = live'
    /\ mutex' = NoRequest
    /\ listening' = live'.addr
    /\ \/ watching' = live'.folders /\ behind' = {}
       \/ watching' = NoFolders /\ behind' = {"watcher"}
    /\ req' = [r \in Requests |-> Rest]
    /\ UNCHANGED <<backup, ops, crossed>>

\* A crash or a restart; what is in memory is gone with the next Boot.
Stop ==
    /\ up
    /\ Outside
    /\ up' = FALSE
    /\ UNCHANGED <<disk, live, served, mutex, req, issued, backup, apart, effects, displays, crossed>>

----------------------------------------------------------------------------
(* Requests up to UpdateConfig. *)

\* resolveConfig waits while a save holds the mutex.
Starts(r, kind, stage, newCfg) ==
    /\ up
    /\ req[r].at = "idle"
    /\ mutex = NoRequest
    /\ Outside
    /\ req' = [req EXCEPT ![r] = [at |-> stage, kind |-> kind, cfg |-> live, newCfg |-> newCfg]]
    /\ UNCHANGED <<up, disk, live, served, mutex, backup, apart, effects, displays, crossed>>

\* HandleSettingsPUT: without folders in the form they stay as they are, an
\* empty list empties them.
SettingsPut(r, a, f) ==
    /\ Starts(r, "settings", "save", [live EXCEPT !.addr = a, !.folders = f])
    /\ UNCHANGED issued

\* HandleScriptsConfigPUT
ScriptsPut(r, a) ==
    /\ Starts(r, "scripts", "save", [live EXCEPT !.addr = a])
    /\ UNCHANGED issued

\* HandleAPIKeyRegeneratePOST
Regenerate(r) ==
    /\ Starts(r, "key", "save", [live EXCEPT !.key = issued + 1, !.plain = issued + 1])
    /\ issued' = issued + 1

\* HandleChangePasswordPOST, given the old password of the configuration read.
ChangePassword(r, p) ==
    /\ Starts(r, "login", "save", [live EXCEPT !.login = p])
    /\ UNCHANGED issued

\* rescanCore, once it has scanned the data directory for want of folders: the
\* configuration is read again and still has none.
Fallback(r) ==
    /\ live.folders = NoFolders
    /\ Starts(r, "rescan", "save", [live EXCEPT !.folders = DataDir])
    /\ UNCHANGED issued

\* HandleAPIKeyRevealGET
Reveal(r) ==
    /\ live.plain # 0
    /\ Starts(r, "reveal", "clear", live)
    /\ UNCHANGED issued

----------------------------------------------------------------------------
(* UpdateConfig and what follows it. *)

Goto(r, stage) == req' = [req EXCEPT ![r].at = stage]
Done(r) == req' = [req EXCEPT ![r] = Rest]

\* Mutant: a save does not wait for the one that is under way.
WriteUnlocked(r) ==
    /\ up /\ req[r].at = "save"
    /\ mutex' = r
    /\ disk' = Durable(req[r].newCfg)
    /\ apart' = FALSE
    /\ Goto(r, "swap")
    /\ UNCHANGED <<live, served, issued, outside, effects, displays, crossed>>

Write(r) ==
    /\ up /\ req[r].at = "save" /\ mutex = NoRequest
    /\ mutex' = r
    /\ disk' = Durable(req[r].newCfg)
    /\ apart' = FALSE
    /\ Goto(r, "swap")
    /\ UNCHANGED <<live, served, issued, outside, effects, displays, crossed>>

\* Mutant: the pointers are swapped although the file could not be written.
WriteFailsSwapped(r) ==
    /\ up /\ req[r].at = "save" /\ mutex = NoRequest
    /\ live' = req[r].newCfg /\ served' = req[r].newCfg
    /\ Done(r)
    /\ UNCHANGED <<disk, mutex, issued, apart, outside, effects, displays, crossed>>

\* WriteConfig fails before the rename: the request is answered with an error.
WriteFails(r) ==
    /\ up /\ req[r].at = "save" /\ mutex = NoRequest
    /\ Done(r)
    /\ UNCHANGED <<disk, live, served, mutex, issued, apart, outside, effects, displays, crossed>>

\* Whether the request will rebind the listener, restart the watcher: both
\* compare the new settings with those the request found.
Rebinds(r) == req[r].kind = "settings" /\ req[r].newCfg.addr # req[r].cfg.addr
Rewatches(r) == req[r].kind = "settings" /\ req[r].newCfg.folders # req[r].cfg.folders

\* Only the settings form goes on to listener and watcher. A save that changes
\* what is current and will not move them leaves them behind: the scripts API,
\* the fallback of a rescan, and whoever saves an older copy over newer
\* settings. The answer to a regeneration shows the key.
Swap(r) ==
    LET m == req[r].newCfg IN
    /\ up /\ req[r].at = "swap"
    /\ live' = m /\ served' = m
    /\ mutex' = NoRequest
    /\ behind' = behind
            \cup (IF m.addr # live.addr /\ ~Rebinds(r) THEN {"listener"} ELSE {})
            \cup (IF m.folders # live.folders /\ ~Rewatches(r) THEN {"watcher"} ELSE {})
    /\ IF req[r].kind = "key" THEN Show(m.plain, "drawn") ELSE UNCHANGED displays
    /\ IF req[r].kind = "settings" THEN Goto(r, "rebind") ELSE Done(r)
    /\ UNCHANGED <<disk, listening, watching, issued, apart, outside, crossed>>

\* Left behind too: when it fails, and when another save has come in between
\* with another address.
Rebind(r) ==
    LET a == req[r].newCfg.addr IN
    /\ up /\ req[r].at = "rebind"
    /\ \/ a = req[r].cfg.addr /\ UNCHANGED <<listening, behind>>
       \/ a # req[r].cfg.addr /\ listening' = a
          /\ behind' = IF a = live.addr THEN behind \ {"listener"} ELSE behind \cup {"listener"}
       \/ a # req[r].cfg.addr /\ listening' = listening /\ behind' = behind \cup {"listener"}
    /\ Goto(r, "watch")
    /\ UNCHANGED <<disk, live, served, mutex, watching, issued, apart, outside, displays, crossed>>

\* Mutant: the new folders are compared with the saved configuration.
WatchLive(r) ==
    LET f == req[r].newCfg.folders IN
    /\ up /\ req[r].at = "watch"
    /\ \/ f = live.folders /\ UNCHANGED <<watching, behind>>
       \/ f # live.folders /\ watching' = f /\ behind' = behind \cup {"watcher"}
    /\ Done(r)
    /\ UNCHANGED <<disk, live, served, mutex, listening, issued, apart, outside, displays, crossed>>

\* OnGameFoldersChanged: the old watcher is stopped before a new one starts.
Watch(r) ==
    LET f == req[r].newCfg.folders IN
    /\ up /\ req[r].at = "watch"
    /\ \/ f = req[r].cfg.folders /\ UNCHANGED <<watching, behind>>
       \/ f # req[r].cfg.folders /\ watching' = f
          /\ behind' = IF f = live.folders THEN behind \ {"watcher"} ELSE behind \cup {"watcher"}
       \/ f # req[r].cfg.folders /\ watching' = NoFolders /\ behind' = behind \cup {"watcher"}
    /\ Done(r)
    /\ UNCHANGED <<disk, live, served, mutex, listening, issued, apart, outside, displays, crossed>>

\* A request that is going to save the plaintext k, or to show it.
Carries(r, k) ==
    \/ req[r].at \in {"save", "swap"} /\ req[r].newCfg.plain = k
    \/ req[r].at = "clear" /\ req[r].cfg.plain = k

\* Mutant: the plaintext is cleared in a copy that is thrown away.
ClearCopy(r) ==
    LET k == req[r].cfg.plain IN
    /\ up /\ req[r].at = "clear" /\ mutex = NoRequest
    /\ Show(k, "reveal")
    /\ crossed' = IF \E q \in Requests \ {r} : Carries(q, k) THEN crossed \cup {k} ELSE crossed
    /\ Done(r)
    /\ UNCHANGED <<disk, live, served, mutex, issued, apart, outside, effects>>

\* The plaintext of the configuration that was read is the answer; the one
\* that is current now loses its own.
Clear(r) ==
    LET k == req[r].cfg.plain IN
    /\ up /\ req[r].at = "clear" /\ mutex = NoRequest
    /\ live' = [live EXCEPT !.plain = 0]
    /\ Show(k, "reveal")
    /\ crossed' = IF \E q \in Requests \ {r} : Carries(q, k) THEN crossed \cup {k} ELSE crossed
    /\ Done(r)
    /\ UNCHANGED <<disk, served, mutex, issued, apart, outside, effects>>

----------------------------------------------------------------------------
(* Backup and restore: neither takes configMu. *)

\* The configuration is stored as JSON, under the name of the TOML file.
Backup ==
    /\ up
    /\ Outside
    /\ backup' = TRUE
    /\ UNCHANGED <<up, disk, live, served, mutex, req, issued, apart, effects, displays, crossed>>

Restore(c) ==
    /\ up
    /\ c = Json => backup
    /\ Outside
    /\ disk' = c
    /\ apart' = TRUE
    /\ UNCHANGED <<up, live, served, mutex, req, issued, backup, effects, displays, crossed>>

----------------------------------------------------------------------------

Begin(r) ==
    \/ \E a \in Addresses, f \in Watchable : SettingsPut(r, a, f)
    \/ \E a \in Addresses : ScriptsPut(r, a)
    \/ \E p \in Logins : ChangePassword(r, p)
    \/ Regenerate(r)
    \/ Fallback(r)
    \/ Reveal(r)

Proceed(r) ==
    Write(r) \/ WriteFails(r) \/ Swap(r) \/ Rebind(r) \/ Watch(r) \/ Clear(r)

Next ==
    \/ Boot \/ Stop \/ Backup
    \/ \E c \in Archives \cup {Json} : Restore(c)
    \/ \E r \in Requests : Begin(r) \/ Proceed(r)

Spec == Init /\ [][Next]_vars

----------------------------------------------------------------------------
(* Properties *)

\* Whenever the server runs and no save is between its two steps, the handlers
\* work with the configuration that a restart would load, whatever saves
\* failed, were lost or interleaved with reveals; until somebody replaces the
\* file, or the key generated at startup could not be written (UpdateConfig
\* and OnConfigUpdated).
MemoryIsDurable ==
    up /\ mutex = NoRequest /\ ~apart => Durable(live) = disk /\ Durable(served) = disk

\* What a handler that calls resolveConfig is given, or will be once the save
\* it waits for is over.
View == Durable(IF mutex # NoRequest THEN req[mutex].newCfg ELSE live)

Abstract == INSTANCE AtomicConfig WITH
    Configs <- Config, Unreadable <- Json, file <- disk, view <- View

\* For whoever reads the configuration through resolveConfig, and for a restart
\* after a crash at any point, the rename and the swap of UpdateConfig are one
\* step: nobody is given settings that are not saved, or loses saved ones.
SavesAreAtomic == Abstract!Spec

\* The "one-time" guarantee of HandleAPIKeyRevealGET, and how far it goes: a
\* key is shown at most once where it is drawn and at most once by a reveal. No
\* later save brings a plaintext back that was revealed, unless the reveal
\* crossed a request that had read the key before and shows or saves it after.
KeyIsRevealedOnce == twice \subseteq crossed

\* Once no request has a rebind or a restart before it, the listener is bound
\* to the saved address and the watcher watches the saved folders, however
\* many saves interleaved, up to: a rebind or restart that failed; one that
\* came after a later save with another value; an address saved through the
\* scripts API or folders saved by a rescan, which move nothing; and a save
\* that put an older copy over newer settings.
EffectsFollowSettings ==
    up /\ (\A r \in Requests : req[r].at \notin {"rebind", "watch"}) =>
        /\ listening = live.addr \/ "listener" \in behind
        /\ watching = live.folders \/ "watcher" \in behind
=============================================================================
