--------------------------- MODULE SettingsProofs ---------------------------
(***************************************************************************)
(* Proofs about Settings, for any requests, addresses, folders, logins and *)
(* archives and any bound MaxOps.                                          *)
(*                                                                         *)
(* Four invariants: Keyed (types, and no key or plaintext that was not     *)
(* issued), Saving (what the holder of configMu has written), Secret       *)
(* (which plaintexts can still be shown) and Following (what a save has    *)
(* left to do to the listener and the watcher). Saving also carries the    *)
(* refinement of AtomicConfig.                                             *)
(***************************************************************************)
EXTENDS Settings, TLAPS

----------------------------------------------------------------------------
(* Types and keys. *)

Issued(m) == m.key <= issued /\ m.plain <= issued

Keyed ==
    /\ TypeOK
    /\ Issued(live)
    /\ disk # Json => disk.key <= issued
    /\ \A r \in Requests : Issued(req[r].cfg) /\ Issued(req[r].newCfg)
    /\ \A k \in Nat, p \in Places : <<k, p>> \in shown => k <= issued

\* How a request begins: with the configuration m it is going to save, which
\* whose plaintext is the current one or, for a regeneration, a new key.
Opens(r, kind, stage, m) ==
    /\ Starts(r, kind, stage, m)
    /\ m \in Memory
    /\ stage = "clear" => live.plain # 0
    /\ issued' \in Nat /\ issued <= issued'
    /\ m.key <= issued' /\ m.plain <= issued'
    /\ m.plain = live.plain \/ m.plain > issued
    /\ kind = "key" => m.plain > issued

LEMMA BeginOpens ==
    ASSUME Keyed, NEW r \in Requests, Begin(r)
    PROVE  \E kind \in Kinds, stage \in {"save", "clear"}, m \in Memory : Opens(r, kind, stage, m)
<1>0. live \in Memory /\ issued \in Nat /\ live.key <= issued /\ live.plain <= issued
  BY DEF Keyed, TypeOK, Issued
<1>1. ASSUME NEW a \in Addresses, NEW f \in Watchable, SettingsPut(r, a, f)
      PROVE  Opens(r, "settings", "save", [live EXCEPT !.addr = a, !.folders = f])
  <2> DEFINE m == [live EXCEPT !.addr = a, !.folders = f]
  <2>1. m \in Memory /\ m.key = live.key /\ m.plain = live.plain
    BY <1>0 DEF Memory
  <2>2. Starts(r, "settings", "save", m) /\ issued' = issued
    BY <1>1 DEF SettingsPut
  <2> HIDE DEF m
  <2>3. Opens(r, "settings", "save", m)
    BY <1>0, <2>1, <2>2 DEF Opens
  <2> QED
    BY <2>3 DEF m
<1>2. ASSUME NEW a \in Addresses, ScriptsPut(r, a)
      PROVE  Opens(r, "scripts", "save", [live EXCEPT !.addr = a])
  BY <1>0, <1>2 DEF ScriptsPut, Opens, Memory
<1>3. ASSUME NEW p \in Logins, ChangePassword(r, p)
      PROVE  Opens(r, "login", "save", [live EXCEPT !.login = p])
  BY <1>0, <1>3 DEF ChangePassword, Opens, Memory
<1>4. ASSUME Regenerate(r)
      PROVE  Opens(r, "key", "save", [live EXCEPT !.key = issued + 1, !.plain = issued + 1])
  <2> DEFINE m == [live EXCEPT !.key = issued + 1, !.plain = issued + 1]
  <2>1. /\ m \in Memory /\ m.key = issued + 1 /\ m.plain = issued + 1
    <3>1. ASSUME NEW k \in Nat
          PROVE  LET c == [live EXCEPT !.key = k, !.plain = k] IN
                 c \in Memory /\ c.key = k /\ c.plain = k
      BY <1>0 DEF Memory
    <3>2. issued + 1 \in Nat
      BY <1>0
    <3> QED
      BY <3>1, <3>2, Zenon
  <2>2. Starts(r, "key", "save", m) /\ issued' = issued + 1
    BY <1>4 DEF Regenerate
  <2> HIDE DEF m
  <2>3. Opens(r, "key", "save", m)
    BY <1>0, <2>1, <2>2 DEF Opens
  <2> QED
    BY <2>3 DEF m
<1>5. ASSUME Reveal(r)
      PROVE  Opens(r, "reveal", "clear", live)
  BY <1>0, <1>5 DEF Reveal, Opens, Memory
<1>8. ASSUME Fallback(r)
      PROVE  Opens(r, "rescan", "save", [live EXCEPT !.folders = DataDir])
  <2>1. DataDir \in Watchable
    BY SettingsAssumption DEF Watchable
  <2> QED
    BY <1>0, <1>8, <2>1 DEF Fallback, Opens, Memory
<1>6. ASSUME NEW kind \in Kinds, NEW stage \in {"save", "clear"}, NEW m, Opens(r, kind, stage, m)
      PROVE  \E k \in Kinds, s \in {"save", "clear"}, c \in Memory : Opens(r, k, s, c)
  BY <1>6 DEF Opens
<1>7. {"settings", "scripts", "key", "login", "rescan", "reveal"} \subseteq Kinds
  BY DEF Kinds
<1> QED
  BY <1>1, <1>2, <1>3, <1>4, <1>5, <1>6, <1>7, <1>8, Zenon DEF Begin

\* The next-state relation, one operation at a time.
LEMMA Steps ==
    ASSUME Keyed, [Next]_vars
    PROVE  \/ UNCHANGED vars
           \/ Boot \/ Stop \/ Backup
           \/ \E c \in Archives \cup {Json} : Restore(c)
           \/ \E r \in Requests, kind \in Kinds, stage \in {"save", "clear"}, m \in Memory :
                 Opens(r, kind, stage, m)
           \/ \E r \in Requests :
                 Write(r) \/ WriteFails(r) \/ Swap(r) \/ Rebind(r) \/ Watch(r) \/ Clear(r)
  BY BeginOpens, Zenon DEF Next, Proceed

LEMMA RequestsTyped ==
    ASSUME TypeOK, NEW r \in Requests, NEW q \in Request, req' = [req EXCEPT ![r] = q]
    PROVE  /\ req' \in [Requests -> Request]
           /\ req'[r] = q
           /\ \A s \in Requests \ {r} : req'[s] = req[s]
  BY DEF TypeOK

LEMMA RestIs ==
    /\ Rest \in Request /\ Rest.at = "idle"
    /\ Rest.cfg \in Memory /\ Rest.cfg.key = 0 /\ Rest.cfg.plain = 0
    /\ Rest.newCfg = Rest.cfg
<1>1. PICK c \in Archives : c = CHOOSE d \in Archives : TRUE
  BY SettingsAssumption
<1>2. Blank \in Memory /\ Blank.key = 0 /\ Blank.plain = 0
  BY <1>1, SettingsAssumption DEF Blank, Loaded, Memory
<1> QED
  BY <1>2 DEF Rest, Request, Stages, Kinds

\* Going to another stage changes nothing else of a request.
LEMMA GotoTyped ==
    ASSUME TypeOK, NEW r \in Requests, NEW stage \in Stages, Goto(r, stage)
    PROVE  /\ req' \in [Requests -> Request]
           /\ req'[r].at = stage /\ req'[r].kind = req[r].kind
           /\ req'[r].cfg = req[r].cfg /\ req'[r].newCfg = req[r].newCfg
           /\ \A s \in Requests \ {r} : req'[s] = req[s]
  BY DEF TypeOK, Goto, Request

LEMMA DoneTyped ==
    ASSUME TypeOK, NEW r \in Requests, Done(r)
    PROVE  /\ req' \in [Requests -> Request]
           /\ req'[r] = Rest
           /\ \A s \in Requests \ {r} : req'[s] = req[s]
  BY RestIs, RequestsTyped DEF Done

\* Where a step takes a request: to the next stage, or to its end.
LEMMA Advances ==
    ASSUME TypeOK, NEW r \in Requests,
           Write(r) \/ WriteFails(r) \/ Swap(r) \/ Rebind(r) \/ Watch(r) \/ Clear(r)
    PROVE  /\ req' \in [Requests -> Request]
           /\ \A s \in Requests \ {r} : req'[s] = req[s]
           /\ \/ req'[r] = Rest
              \/ /\ req'[r].at \in {"swap", "rebind", "watch"}
                 /\ req'[r].kind = req[r].kind
                 /\ req'[r].cfg = req[r].cfg /\ req'[r].newCfg = req[r].newCfg
           /\ req'[r].at = "swap" <=> Write(r)
<1>1. Write(r) => req[r].at = "save" /\ Goto(r, "swap")
  BY DEF Write
<1>2. WriteFails(r) \/ Watch(r) \/ Clear(r) => Done(r)
  BY DEF WriteFails, Watch, Clear
<1>3. Swap(r) => req[r].at = "swap" /\ (Goto(r, "rebind") \/ Done(r))
  BY DEF Swap
<1>4. Rebind(r) => req[r].at = "rebind" /\ Goto(r, "watch")
  BY DEF Rebind
<1>5. {"swap", "rebind", "watch"} \subseteq Stages
  BY DEF Stages
<1>6. Rest.at = "idle"
  BY RestIs
<1> QED
  BY <1>1, <1>2, <1>3, <1>4, <1>5, <1>6, GotoTyped, DoneTyped

LEMMA InitKeyed == Init => Keyed
<1> SUFFICES ASSUME Init PROVE Keyed
  OBVIOUS
<1>1. disk \in Config /\ disk.key = 0
  BY SettingsAssumption DEF Init, Config
<1>2. live \in Memory /\ live.key = 0 /\ live.plain = 0
  BY <1>1 DEF Init, Config, Memory, Loaded
<1>4. req \in [Requests -> Request] /\ \A r \in Requests : req[r] = Rest
  BY RestIs DEF Init
<1>5. TypeOK
  <2>1. disk.addr \in Addresses /\ disk.folders \in Watchable
    BY <1>1 DEF Config
  <2> QED
    <3>1. /\ up \in BOOLEAN /\ backup \in BOOLEAN /\ apart \in BOOLEAN
          /\ behind = {} /\ shown = {} /\ twice = {} /\ crossed = {}
      BY DEF Init
    <3>2. /\ issued \in Nat /\ ops \in Nat /\ live.key <= issued
          /\ listening \in Addresses /\ watching \in Watchable
          /\ mutex = NoRequest /\ served = live
      BY <1>2, <2>1 DEF Init
    <3> QED
      BY <1>1, <1>2, <1>4, <3>1, <3>2 DEF TypeOK
<1> QED
  BY <1>1, <1>2, <1>4, <1>5, RestIs DEF Init, Keyed, Issued

LEMMA BootKeyed == Keyed /\ Boot => Keyed'
<1> SUFFICES ASSUME Keyed, Boot PROVE Keyed'
  OBVIOUS
<1>0. disk \in Config /\ disk.key \in Nat /\ disk.key <= issued /\ issued \in Nat
  BY DEF Boot, Keyed, TypeOK, Config
<1>1. /\ live' \in Memory /\ live'.key <= issued' /\ live'.plain <= issued'
      /\ disk' \in Config /\ disk'.key <= issued'
      /\ issued' \in Nat /\ issued <= issued'
  <2>1. CASE disk.key # 0
    BY <1>0, <2>1 DEF Boot, Loaded, Config, Memory
  <2>2. CASE disk.key = 0
    <3>1. ASSUME NEW k \in Nat
          PROVE  LET c == Loaded([disk EXCEPT !.key = k], k) IN
                 /\ c \in Memory /\ c.key = k /\ c.plain = k
                 /\ Durable(c) \in Config /\ Durable(c).key = k
      BY <1>0 DEF Loaded, Durable, Config, Memory
    <3>2. issued + 1 \in Nat
      BY <1>0
    <3>3. /\ live' = Loaded([disk EXCEPT !.key = issued + 1], issued + 1)
          /\ disk' = Durable(live') \/ disk' = disk
          /\ issued' = issued + 1
      BY <2>2 DEF Boot
    <3>4. /\ live' \in Memory /\ live'.key = issued + 1 /\ live'.plain = issued + 1
          /\ Durable(live') \in Config /\ Durable(live').key = issued + 1
      BY <3>1, <3>2, <3>3, Zenon
    <3>5. disk' \in Config /\ disk'.key <= issued + 1
      BY <1>0, <3>3, <3>4
    <3> QED
      BY <1>0, <3>2, <3>3, <3>4, <3>5
  <2> QED
    BY <2>1, <2>2
<1>3. req' \in [Requests -> Request] /\ \A r \in Requests : req'[r] = Rest
  BY RestIs DEF Boot
<1>4. /\ up' \in BOOLEAN /\ apart' \in BOOLEAN /\ served' = live' /\ mutex' = NoRequest
      /\ listening' = live'.addr /\ watching' \in {live'.folders, NoFolders}
      /\ behind' \subseteq {"watcher"}
      /\ UNCHANGED <<backup, ops, crossed>>
  BY DEF Boot
<1>5. /\ shown' \subseteq Nat \X Places /\ twice' \subseteq Nat
      /\ \A k \in Nat, p \in Places : <<k, p>> \in shown' => k <= issued'
  <2>1. CASE UNCHANGED displays
    BY <1>0, <1>1, <2>1 DEF displays, Keyed, TypeOK
  <2>2. CASE issued' = issued + 1 /\ Show(issued + 1, "drawn")
    BY <1>0, <2>2 DEF Show, Keyed, TypeOK, Places
  <2> QED
    BY <2>1, <2>2 DEF Boot, displays
<1>6. TypeOK'
  <2>1. listening' \in Addresses /\ watching' \in Watchable
    BY <1>1, <1>4 DEF Memory, Watchable
  <2> QED
    BY <1>1, <1>3, <1>4, <1>5, <2>1 DEF Keyed, TypeOK
<1> QED
  BY <1>1, <1>3, <1>5, <1>6, RestIs DEF Keyed, Issued

LEMMA OpensKeyed ==
    ASSUME Keyed, NEW r \in Requests, NEW kind \in Kinds, NEW stage \in {"save", "clear"},
           NEW m \in Memory, Opens(r, kind, stage, m)
    PROVE  Keyed'
<1> DEFINE q == [at |-> stage, kind |-> kind, cfg |-> live, newCfg |-> m]
<1>0. live \in Memory /\ issued \in Nat /\ issued' \in Nat /\ issued <= issued'
  BY DEF Keyed, TypeOK, Opens
<1>1. q \in Request /\ q.cfg = live /\ q.newCfg = m
  BY <1>0 DEF Request, Stages
<1>2. req' = [req EXCEPT ![r] = q]
  BY DEF Opens, Starts
<1> HIDE DEF q
<1>3. /\ req' \in [Requests -> Request] /\ req'[r] = q
      /\ \A s \in Requests \ {r} : req'[s] = req[s]
  BY <1>1, <1>2, RequestsTyped DEF Keyed
<1>4. /\ ops' = ops + 1
      /\ UNCHANGED <<up, disk, live, served, mutex, backup, apart, listening, watching, behind,
                     shown, twice, crossed>>
  BY DEF Opens, Starts, Outside, effects, displays
<1>5. live.key <= issued' /\ live.plain <= issued'
  BY <1>0 DEF Keyed, TypeOK, Issued, Memory
<1>6. TypeOK'
  BY <1>0, <1>3, <1>4, <1>5 DEF Keyed, TypeOK
<1>7. \A s \in Requests : /\ req'[s].cfg.key <= issued' /\ req'[s].cfg.plain <= issued'
                          /\ req'[s].newCfg.key <= issued' /\ req'[s].newCfg.plain <= issued'
  <2> SUFFICES ASSUME NEW s \in Requests PROVE <1>7!(s)
    OBVIOUS
  <2>1. CASE s = r
    BY <1>1, <1>3, <1>5, <2>1 DEF Opens
  <2>2. CASE s # r
    <3>1. req[s].cfg \in Memory /\ req[s].newCfg \in Memory
      BY DEF Keyed, TypeOK, Request
    <3> QED
      BY <1>0, <1>3, <2>2, <3>1 DEF Keyed, Issued, Memory
  <2> QED
    BY <2>1, <2>2
<1>8. /\ disk # Json => disk.key <= issued'
      /\ \A k \in Nat, p \in Places : <<k, p>> \in shown => k <= issued'
  BY <1>0 DEF Keyed, TypeOK, Config
<1> QED
  BY <1>4, <1>5, <1>6, <1>7, <1>8 DEF Keyed, Issued

LEMMA StepKeyed ==
    ASSUME Keyed, NEW r \in Requests,
           Write(r) \/ WriteFails(r) \/ Swap(r) \/ Rebind(r) \/ Watch(r) \/ Clear(r)
    PROVE  Keyed'
<1> DEFINE c == req[r].cfg
           n == req[r].newCfg
<1>0. /\ c \in Memory /\ n \in Memory /\ Issued(c) /\ Issued(n)
      /\ issued \in Nat /\ ops \in Nat
  BY DEF Keyed, TypeOK, Request
<1>2. /\ req' \in [Requests -> Request]
      /\ \A s \in Requests : /\ req'[s].cfg.key <= issued /\ req'[s].cfg.plain <= issued
                             /\ req'[s].newCfg.key <= issued /\ req'[s].newCfg.plain <= issued
  BY <1>0, Advances, RestIs DEF Keyed, Issued
<1>3. UNCHANGED <<up, backup, ops, issued>>
  BY DEF Write, WriteFails, Swap, Rebind, Watch, Clear, outside
<1>4. /\ live' \in Memory /\ live'.key <= issued /\ live'.plain <= issued
      /\ served' \in Memory
  <2>1. CASE Swap(r)
    BY <1>0, <2>1 DEF Swap, Issued
  <2>2. CASE Clear(r)
    <3>1. [live EXCEPT !.plain = 0] \in Memory
      BY DEF Keyed, TypeOK, Memory
    <3> QED
      BY <1>0, <2>2, <3>1 DEF Clear, Keyed, TypeOK, Issued, Memory
  <2>3. CASE UNCHANGED <<live, served>>
    BY <2>3 DEF Keyed, TypeOK, Issued
  <2> QED
    BY <2>1, <2>2, <2>3 DEF Write, WriteFails, Rebind, Watch
<1>5. disk' \in Config \cup {Json} /\ (disk' # Json => disk'.key <= issued)
  <2>1. CASE Write(r)
    BY <1>0, <2>1 DEF Write, Durable, Memory, Config, Issued
  <2>2. CASE UNCHANGED disk
    BY <2>2 DEF Keyed, TypeOK
  <2> QED
    BY <2>1, <2>2 DEF WriteFails, Swap, Rebind, Watch, Clear
<1>6. mutex' \in Requests \cup {NoRequest} /\ apart' \in BOOLEAN
  BY DEF Write, WriteFails, Swap, Rebind, Watch, Clear, Keyed, TypeOK
<1>7. /\ listening' \in Addresses /\ watching' \in Watchable
      /\ behind' \subseteq {"listener", "watcher"}
  <2>1. n.addr \in Addresses /\ n.folders \in Watchable /\ NoFolders \in Watchable
    BY <1>0 DEF Memory, Watchable
  <2> QED
    BY <2>1 DEF Write, WriteFails, Swap, Rebind, Watch, Clear, Keyed, TypeOK, effects
<1>10. crossed' \subseteq Nat
  <2>1. c.plain \in Nat
    BY <1>0 DEF Memory
  <2>2. crossed' \subseteq crossed \cup {c.plain}
    BY DEF Write, WriteFails, Swap, Rebind, Watch, Clear
  <2> QED
    BY <2>1, <2>2 DEF Keyed, TypeOK
<1>8. /\ shown' \subseteq Nat \X Places /\ twice' \subseteq Nat
      /\ \A k \in Nat, p \in Places : <<k, p>> \in shown' => k <= issued
  <2>1. c.plain \in Nat /\ c.plain <= issued /\ n.plain \in Nat /\ n.plain <= issued
    BY <1>0 DEF Memory, Issued
  <2>2. ASSUME NEW j \in Nat, j <= issued, NEW q \in Places, Show(j, q)
        PROVE  /\ shown' \subseteq Nat \X Places /\ twice' \subseteq Nat
               /\ \A k \in Nat, p \in Places : <<k, p>> \in shown' => k <= issued
    BY <2>2 DEF Show, Keyed, TypeOK
  <2>3. CASE UNCHANGED displays
    BY <2>3 DEF Keyed, TypeOK, displays
  <2>4. CASE Clear(r)
    <3>1. Show(c.plain, "reveal")
      BY <2>4 DEF Clear
    <3> QED
      BY <2>1, <2>2, <3>1 DEF Places, Keyed, TypeOK
  <2>5. CASE Swap(r) /\ Show(n.plain, "drawn")
    BY <2>1, <2>2, <2>5 DEF Places, Swap, Keyed, TypeOK
  <2> QED
    BY <2>3, <2>4, <2>5 DEF Write, WriteFails, Swap, Rebind, Watch
<1>9. TypeOK'
  BY <1>0, <1>2, <1>3, <1>4, <1>5, <1>6, <1>7, <1>8, <1>10 DEF Keyed, TypeOK
<1> QED
  BY <1>2, <1>3, <1>4, <1>5, <1>8, <1>9 DEF Keyed, Issued

LEMMA OtherKeyed ==
    ASSUME Keyed, Stop \/ Backup \/ (\E c \in Archives \cup {Json} : Restore(c))
    PROVE  Keyed'
<1>1. /\ ops' \in Nat /\ up' \in BOOLEAN /\ backup' \in BOOLEAN /\ apart' \in BOOLEAN
      /\ UNCHANGED <<live, served, mutex, listening, watching, req, issued, behind,
                     shown, twice, crossed>>
  <2>0. /\ up \in BOOLEAN /\ backup \in BOOLEAN /\ apart \in BOOLEAN
        /\ \A n \in Nat : n + 1 \in Nat
        /\ ops \in Nat
    BY DEF Keyed, TypeOK
  <2>1. CASE Stop
    BY <2>0, <2>1 DEF Stop, Outside, effects, displays
  <2>2. CASE Backup
    BY <2>0, <2>2 DEF Backup, Outside, effects, displays
  <2>3. CASE \E c \in Archives \cup {Json} : Restore(c)
    BY <2>0, <2>3 DEF Restore, Outside, effects, displays
  <2> QED
    BY <2>1, <2>2, <2>3
<1>2. disk' \in Config \cup {Json} /\ (disk' # Json => disk'.key <= issued)
  <2>1. CASE UNCHANGED disk
    BY <2>1 DEF Keyed, TypeOK
  <2>2. CASE \E c \in Archives \cup {Json} : Restore(c)
    <3>1. \A c \in Archives : c \in Config /\ c.key = 0
      BY SettingsAssumption DEF Config
    <3> QED
      BY <2>2, <3>1 DEF Restore, Keyed, TypeOK
  <2> QED
    BY <2>1, <2>2 DEF Stop, Backup
<1> QED
  BY <1>1, <1>2 DEF Keyed, TypeOK, Issued

\* No copy of the configuration, in a handler, a request or the file, holds a
\* key that was never generated (EnsureAPIKey, HandleAPIKeyRegeneratePOST).
THEOREM AlwaysKeyed == Spec => []Keyed
<1>1. Keyed /\ [Next]_vars => Keyed'
  <2> SUFFICES ASSUME Keyed, [Next]_vars PROVE Keyed'
    OBVIOUS
  <2>1. CASE UNCHANGED vars
    BY <2>1 DEF vars, Keyed, TypeOK, Issued
  <2> QED
    BY <2>1, Steps, BootKeyed, OpensKeyed, StepKeyed, OtherKeyed
<1> QED
  BY InitKeyed, <1>1, PTL DEF Spec

\* Every reachable state of the settings model is well typed, and the key the
\* handlers work with is one that was generated (resolveConfig, EnsureAPIKey
\* and UpdateConfig hand no other configuration around).
THEOREM SettingsTyped == Spec => []TypeOK
<1>1. Keyed => TypeOK
  BY DEF Keyed
<1> QED
  BY AlwaysKeyed, <1>1, PTL
----------------------------------------------------------------------------
(* Memory and file. *)

\* A request between its rename and its swap holds configMu, and until
\* somebody replaces the file it is the one that request wrote.
Saving ==
    /\ \A r \in Requests : req[r].at = "swap" <=> mutex = r
    /\ \A r \in Requests : mutex = r /\ ~apart => disk = Durable(req[r].newCfg)
    /\ MemoryIsDurable

LEMMA InitSaving == Init => Saving
  BY SettingsAssumption, RestIs DEF Init, Saving, MemoryIsDurable

LEMMA BootSaving == Keyed /\ Boot => Saving'
<1> SUFFICES ASSUME Keyed, Boot PROVE Saving'
  OBVIOUS
<1>1. \A r \in Requests : req'[r].at = "idle"
  BY RestIs DEF Boot
<1>2. mutex' = NoRequest /\ served' = live' /\ \A r \in Requests : mutex' # r
  BY SettingsAssumption DEF Boot
<1>3. ~apart' => Durable(live') = disk'
  <2>1. CASE disk.key # 0
    <3>1. disk \in Config
      BY DEF Boot, Keyed, TypeOK
    <3>2. Durable(Loaded(disk, 0)) = disk
      BY <3>1 DEF Durable, Loaded, Config
    <3> QED
      BY <2>1, <3>2 DEF Boot
  <2>2. CASE disk.key = 0
    BY <2>2 DEF Boot
  <2> QED
    BY <2>1, <2>2
<1> QED
  BY <1>1, <1>2, <1>3 DEF Saving, MemoryIsDurable

LEMMA OpensSaving ==
    ASSUME Keyed, Saving, NEW r \in Requests, NEW kind, NEW stage \in {"save", "clear"},
           NEW m, Opens(r, kind, stage, m)
    PROVE  Saving'
<1>1. /\ mutex = NoRequest /\ req[r].at = "idle"
      /\ UNCHANGED <<up, disk, live, served, mutex, apart>>
  BY DEF Opens, Starts
<1>2. \A s \in Requests : mutex' # s
  BY <1>1, SettingsAssumption
<1>3. \A s \in Requests : req'[s].at # "swap"
  BY <1>1, <1>2 DEF Opens, Starts, Keyed, TypeOK, Saving
<1> QED
  BY <1>1, <1>2, <1>3 DEF Saving, MemoryIsDurable

LEMMA StepSaving ==
    ASSUME Keyed, Saving, NEW r \in Requests,
           Write(r) \/ WriteFails(r) \/ Swap(r) \/ Rebind(r) \/ Watch(r) \/ Clear(r)
    PROVE  Saving'
<1>0. r # NoRequest /\ live \in Memory
  BY SettingsAssumption DEF Keyed, TypeOK
<1>1. /\ \A s \in Requests \ {r} : req'[s] = req[s]
      /\ req'[r].at = "swap" <=> Write(r)
  BY Advances DEF Keyed
<1>2. Write(r) => req'[r].newCfg = req[r].newCfg /\ mutex = NoRequest
  BY GotoTyped DEF Write, Keyed, Stages
<1>3. CASE Write(r)
  BY <1>0, <1>1, <1>2, <1>3, SettingsAssumption DEF Write, Saving, MemoryIsDurable
<1>4. CASE Swap(r)
  <2>1. mutex = r /\ mutex' = NoRequest
    BY <1>4 DEF Swap, Saving
  <2>2. \A s \in Requests : req'[s].at # "swap"
    BY <1>0, <1>1, <1>2, <2>1 DEF Saving
  <2>3. /\ UNCHANGED <<disk, apart>> /\ live' = req[r].newCfg /\ served' = req[r].newCfg
    BY <1>4 DEF Swap
  <2> QED
    BY <2>1, <2>2, <2>3, SettingsAssumption DEF Saving, MemoryIsDurable
<1>5. CASE Clear(r)
  <2>1. Durable(live') = Durable(live)
    BY <1>0, <1>5 DEF Clear, Durable, Memory
  <2>2. ~Write(r)
    BY <1>5 DEF Write, Clear
  <2>3. UNCHANGED <<up, disk, served, mutex, apart>> /\ mutex = NoRequest
    BY <1>5 DEF Clear, outside
  <2> QED
    BY <1>1, <2>1, <2>2, <2>3, SettingsAssumption DEF Saving, MemoryIsDurable
<1>6. CASE WriteFails(r) \/ Rebind(r) \/ Watch(r)
  <2>1. UNCHANGED <<up, disk, live, served, mutex, apart>> /\ req[r].at # "swap"
    BY <1>6 DEF WriteFails, Rebind, Watch, outside
  <2>2. req'[r].at # "swap"
    <3>1. WriteFails(r) \/ Watch(r) => req'[r].at = "idle"
      BY DoneTyped, RestIs DEF WriteFails, Watch, Keyed
    <3>2. Rebind(r) => req'[r].at = "watch"
      BY GotoTyped DEF Rebind, Keyed, Stages
    <3> QED
      BY <1>6, <3>1, <3>2
  <2> QED
    BY <1>1, <2>1, <2>2 DEF Saving, MemoryIsDurable
<1> QED
  BY <1>3, <1>4, <1>5, <1>6

LEMMA OtherSaving ==
    ASSUME Saving, Stop \/ Backup \/ (\E c \in Archives \cup {Json} : Restore(c))
    PROVE  Saving'
  BY DEF Stop, Backup, Restore, Saving, MemoryIsDurable

\* Only the holder of configMu is between renaming the file and swapping the
\* pointers, and the file is its own (UpdateConfig).
THEOREM AlwaysSaving == Spec => []Saving
<1>1. Keyed /\ Saving /\ [Next]_vars => Saving'
  <2> SUFFICES ASSUME Keyed, Saving, [Next]_vars PROVE Saving'
    OBVIOUS
  <2>1. CASE UNCHANGED vars
    BY <2>1 DEF vars, Saving, MemoryIsDurable
  <2> QED
    BY <2>1, Steps, BootSaving, OpensSaving, StepSaving, OtherSaving
<1> QED
  BY InitSaving, <1>1, AlwaysKeyed, PTL DEF Spec

\* While no save is between its two steps the handlers work with what the file
\* says, for any number of interleaved requests, failing writes, crashes and
\* restarts (UpdateConfig and the mutex it holds over rename and swap).
THEOREM MemoryFollowsFile == Spec => []MemoryIsDurable
<1>1. Saving => MemoryIsDurable
  BY DEF Saving
<1> QED
  BY AlwaysSaving, <1>1, PTL
----------------------------------------------------------------------------
(* The refinement. *)

avars == <<up, disk, View>>

LEMMA InitAbstract == Init => Abstract!Init
<1> SUFFICES ASSUME Init PROVE Abstract!Init
  OBVIOUS
<1>1. disk \in Config
  BY SettingsAssumption DEF Init, Config
<1>2. View = disk
  BY <1>1 DEF Init, View, Durable, Loaded, Config
<1> QED
  BY <1>1, <1>2 DEF Init, Abstract!Init

LEMMA BootAbstract ==
    ASSUME Keyed, Boot
    PROVE  Abstract!Start
<1>1. disk \in Config /\ up = FALSE /\ up' = TRUE /\ disk # Json
  BY DEF Keyed, TypeOK, Boot
<1>2. View' = Durable(live')
  BY DEF View, Boot
<1>3. CASE disk.key # 0
  <2>1. Durable(Loaded(disk, 0)) = disk
    BY <1>1 DEF Durable, Loaded, Config
  <2> QED
    BY <1>1, <1>2, <1>3, <2>1 DEF Boot, Abstract!Start
<1>4. CASE disk.key = 0
  <2>1. ASSUME NEW k \in Nat
        PROVE  LET c == Durable(Loaded([disk EXCEPT !.key = k], k)) IN
               c \in Config /\ c = [disk EXCEPT !.key = c.key]
    BY <1>1 DEF Durable, Loaded, Config
  <2>2. issued + 1 \in Nat
    BY DEF Keyed, TypeOK
  <2>3. live' = Loaded([disk EXCEPT !.key = issued + 1], issued + 1) /\ disk' \in {disk, Durable(live')}
    BY <1>4 DEF Boot
  <2>4. View' \in Config /\ View' = [disk EXCEPT !.key = View'.key]
    BY <1>2, <2>1, <2>2, <2>3, Zenon
  <2>5. disk' \in {disk, View'}
    BY <1>2, <2>3
  <2> QED
    BY <1>1, <1>4, <2>4, <2>5 DEF Abstract!Start
<1> QED
  BY <1>3, <1>4

\* Of the steps of a request only the rename is one of the abstract machine.
LEMMA StepAbstract ==
    ASSUME Keyed, Saving, NEW r \in Requests,
           Write(r) \/ WriteFails(r) \/ Swap(r) \/ Rebind(r) \/ Watch(r) \/ Clear(r)
    PROVE  Abstract!Save \/ UNCHANGED avars
<1>0. r # NoRequest /\ live \in Memory /\ req[r].newCfg \in Memory
  BY SettingsAssumption DEF Keyed, TypeOK, Request
<1>1. \A s \in Requests \ {r} : req'[s] = req[s]
  BY Advances DEF Keyed
<1>2. CASE Write(r)
  <2>1. mutex' = r /\ disk' = Durable(req[r].newCfg) /\ up /\ up' = up
    BY <1>2 DEF Write, outside
  <2>2. req'[r].newCfg = req[r].newCfg
    BY <1>2, GotoTyped DEF Write, Keyed, Stages
  <2>4. View' = disk'
    BY <1>0, <2>1, <2>2 DEF View
  <2>3. disk' \in Config
    BY <1>0, <2>1 DEF Durable, Memory, Config
  <2> QED
    BY <2>1, <2>3, <2>4 DEF Abstract!Save
<1>3. CASE Swap(r)
  <2>1. mutex = r /\ mutex' = NoRequest /\ live' = req[r].newCfg /\ UNCHANGED <<up, disk>>
    BY <1>3 DEF Swap, Saving, outside
  <2> QED
    BY <1>0, <2>1 DEF View, avars
<1>4. CASE Clear(r)
  <2>1. mutex = NoRequest /\ UNCHANGED <<up, disk, mutex>>
    BY <1>4 DEF Clear, outside
  <2>2. Durable(live') = Durable(live)
    BY <1>0, <1>4 DEF Clear, Durable, Memory
  <2> QED
    BY <2>1, <2>2 DEF View, avars
<1>5. CASE WriteFails(r) \/ Rebind(r) \/ Watch(r)
  <2>1. UNCHANGED <<up, disk, live, mutex>> /\ mutex \in Requests \cup {NoRequest}
    BY <1>5 DEF WriteFails, Rebind, Watch, outside, Keyed, TypeOK
  <2>2. mutex \in Requests => req[mutex].at = "swap" /\ mutex # r
    BY <1>5 DEF Saving, WriteFails, Rebind, Watch
  <2>3. mutex \in Requests => req'[mutex] = req[mutex]
    BY <1>1, <2>2
  <2> QED
    BY <2>1, <2>3 DEF View, avars
<1> QED
  BY <1>2, <1>3, <1>4, <1>5

LEMMA OpensAbstract ==
    ASSUME NEW r \in Requests, NEW kind, NEW stage, NEW m, Opens(r, kind, stage, m)
    PROVE  UNCHANGED avars
  BY DEF Opens, Starts, View, avars

LEMMA OtherAbstract ==
    ASSUME Keyed, Stop \/ Backup \/ (\E c \in Archives \cup {Json} : Restore(c))
    PROVE  Abstract!Stop \/ Abstract!Restore \/ UNCHANGED avars
<1>1. UNCHANGED View
  BY DEF Stop, Backup, Restore, View
<1>2. CASE Stop
  BY <1>1, <1>2 DEF Stop, Abstract!Stop
<1>3. CASE Backup
  BY <1>1, <1>3 DEF Backup, avars
<1>4. CASE \E c \in Archives \cup {Json} : Restore(c)
  <2>1. disk' \in Config \cup {Json} /\ up /\ up' = up
    BY <1>4, SettingsAssumption DEF Restore, Config
  <2> QED
    BY <1>1, <2>1 DEF Abstract!Restore
<1> QED
  BY <1>2, <1>3, <1>4

\* For any number of requests, failing writes, crashes and restores, the file
\* and what resolveConfig hands out behave as if a save were one step: the
\* mutex that UpdateConfig holds hides the moment between rename and swap.
THEOREM SavesRefine == Spec => SavesAreAtomic
<1>1. Keyed /\ Saving /\ [Next]_vars => [Abstract!Next]_avars
  <2> SUFFICES ASSUME Keyed, Saving, [Next]_vars PROVE [Abstract!Next]_avars
    OBVIOUS
  <2>1. CASE UNCHANGED vars
    BY <2>1 DEF vars, avars, View
  <2> QED
    BY <2>1, Steps, BootAbstract, StepAbstract, OpensAbstract, OtherAbstract DEF Abstract!Next
<1> QED
  BY InitAbstract, <1>1, AlwaysKeyed, AlwaysSaving, PTL
     DEF Spec, SavesAreAtomic, Abstract!Spec, avars

----------------------------------------------------------------------------
(* Which keys can still be shown. *)

\* A plaintext that a reveal may show.
Unseen(k) == k = 0 \/ <<k, "reveal">> \notin shown \/ k \in crossed

\* A request that will show the key it generated.
Drawing(r) == req[r].kind = "key" /\ req[r].at \in {"save", "swap"}

\* Whoever still has a plaintext to save or to show holds one that was not
\* revealed, or that crossed the reveal. No two regenerations hold one key.
Secret ==
    /\ twice \subseteq crossed
    /\ Unseen(live.plain)
    /\ \A r \in Requests, k \in Nat : Carries(r, k) => Unseen(k)
    /\ \A r \in Requests : req[r].at = "clear" => req[r].cfg.plain # 0
    /\ \A r \in Requests : Drawing(r) => <<req[r].newCfg.plain, "drawn">> \notin shown
    /\ \A r, s \in Requests :
          Drawing(r) /\ Drawing(s) /\ req[r].newCfg.plain = req[s].newCfg.plain => r = s

LEMMA InitSecret == Init => Secret
<1> SUFFICES ASSUME Init PROVE Secret
  OBVIOUS
<1>1. \A r \in Requests : req[r].at = "idle"
  BY RestIs DEF Init
<1> QED
  BY <1>1 DEF Init, Secret, Unseen, Carries, Drawing

LEMMA BootSecret == Keyed /\ Secret /\ Boot => Secret'
<1> SUFFICES ASSUME Keyed, Secret, Boot PROVE Secret'
  OBVIOUS
<1>1. \A r \in Requests : req'[r].at = "idle"
  BY RestIs DEF Boot
<1>2. UNCHANGED crossed /\ issued + 1 \in Nat
  BY DEF Boot, Keyed, TypeOK
<1>3. live'.plain = 0 \/ live'.plain = issued + 1
  BY DEF Boot, Loaded
<1>4. \A p \in Places : <<issued + 1, p>> \notin shown
  BY <1>2 DEF Keyed, TypeOK
<1>5. /\ twice' = twice
      /\ \A k : <<k, "reveal">> \in shown' => <<k, "reveal">> \in shown
  BY <1>4 DEF Boot, displays, Show, Places
<1> QED
  BY <1>1, <1>2, <1>3, <1>4, <1>5 DEF Secret, Unseen, Carries, Drawing, Places

LEMMA OpensSecret ==
    ASSUME Keyed, Secret, NEW r \in Requests, NEW kind \in Kinds, NEW stage \in {"save", "clear"},
           NEW m \in Memory, Opens(r, kind, stage, m)
    PROVE  Secret'
<1>1. /\ \A s \in Requests \ {r} : req'[s] = req[s]
      /\ req'[r].at = stage /\ req'[r].kind = kind
      /\ req'[r].cfg = live /\ req'[r].newCfg = m
  BY DEF Opens, Starts, Keyed, TypeOK
<1>2. UNCHANGED <<live, shown, twice, crossed>>
  BY DEF Opens, Starts, displays
<1>3. live.plain \in Nat /\ m.plain \in Nat /\ issued \in Nat
  BY DEF Keyed, TypeOK, Memory
<1>4. \A p \in Places : m.plain > issued => <<m.plain, p>> \notin shown
  BY <1>3 DEF Keyed
<1>5. Unseen(m.plain)
  BY <1>4 DEF Opens, Secret, Unseen, Places
<1>6. \A s \in Requests, k \in Nat : Carries(s, k)' => Unseen(k)
  <2> SUFFICES ASSUME NEW s \in Requests, NEW k \in Nat, Carries(s, k)' PROVE Unseen(k)
    OBVIOUS
  <2>1. CASE s = r
    BY <1>1, <1>5, <2>1 DEF Carries, Secret
  <2>2. CASE s # r
    BY <1>1, <2>2 DEF Carries, Secret
  <2> QED
    BY <2>1, <2>2
<1>7. \A s \in Requests : req[s].newCfg.plain \in Nat /\ req[s].newCfg.plain <= issued
  BY DEF Keyed, TypeOK, Request, Memory, Issued
<1>8. Drawing(r)' => m.plain > issued
  BY <1>1 DEF Drawing, Opens
<1>9. \A s \in Requests \ {r} : Drawing(s)' <=> Drawing(s)
  BY <1>1 DEF Drawing
<1>10. \A s \in Requests : Drawing(s)' => <<req'[s].newCfg.plain, "drawn">> \notin shown
  BY <1>1, <1>4, <1>8, <1>9 DEF Secret, Places
<1>11. \A s, t \in Requests :
          Drawing(s)' /\ Drawing(t)' /\ req'[s].newCfg.plain = req'[t].newCfg.plain => s = t
  BY <1>1, <1>3, <1>7, <1>8, <1>9 DEF Secret
<1>12. \A s \in Requests : req'[s].at = "clear" => req'[s].cfg.plain # 0
  BY <1>1 DEF Secret, Opens
<1> QED
  BY <1>2, <1>6, <1>10, <1>11, <1>12 DEF Secret, Unseen

\* No step of a request gives it another plaintext.
LEMMA StepCarries ==
    ASSUME Keyed, NEW r \in Requests,
           Write(r) \/ WriteFails(r) \/ Swap(r) \/ Rebind(r) \/ Watch(r) \/ Clear(r)
    PROVE  /\ \A s \in Requests, k \in Nat : Carries(s, k)' => Carries(s, k)
           /\ \A s \in Requests : Drawing(s)' => Drawing(s) /\ req'[s].newCfg = req[s].newCfg
           /\ \A s \in Requests : req'[s].at = "clear" => req[s].at = "clear" /\ req'[s].cfg = req[s].cfg
           /\ ~Write(r) => ~Drawing(r)' /\ \A k \in Nat : ~Carries(r, k)'
<1>1. /\ \A s \in Requests \ {r} : req'[s] = req[s]
      /\ req'[r].at = "swap" <=> Write(r)
      /\ \/ req'[r] = Rest
         \/ /\ req'[r].at \in {"swap", "rebind", "watch"}
            /\ req'[r].kind = req[r].kind
            /\ req'[r].cfg = req[r].cfg /\ req'[r].newCfg = req[r].newCfg
  BY Advances DEF Keyed
<1>2. Write(r) => req[r].at = "save"
  BY DEF Write
<1>3. Rest.at = "idle"
  BY RestIs
<1> QED
  BY <1>1, <1>2, <1>3 DEF Carries, Drawing

LEMMA StepSecret ==
    ASSUME Keyed, Secret, NEW r \in Requests,
           Write(r) \/ WriteFails(r) \/ Swap(r) \/ Rebind(r) \/ Watch(r) \/ Clear(r)
    PROVE  Secret'
<1>1. /\ \A s \in Requests, k \in Nat : Carries(s, k)' => Carries(s, k)
      /\ \A s \in Requests : Drawing(s)' => Drawing(s) /\ req'[s].newCfg = req[s].newCfg
      /\ \A s \in Requests : req'[s].at = "clear" => req[s].at = "clear" /\ req'[s].cfg = req[s].cfg
      /\ ~Write(r) => ~Drawing(r)' /\ \A k \in Nat : ~Carries(r, k)'
  BY StepCarries
<1>2. CASE Write(r) \/ WriteFails(r) \/ Rebind(r) \/ Watch(r)
  <2>1. UNCHANGED <<live, shown, twice, crossed>>
    BY <1>2 DEF Write, WriteFails, Rebind, Watch, displays
  <2> QED
    BY <1>1, <2>1 DEF Secret, Unseen
<1>3. CASE Swap(r)
  <2> DEFINE m == req[r].newCfg
  <2>1. req[r].at = "swap" /\ live' = m /\ UNCHANGED crossed /\ m.plain \in Nat /\ ~Write(r)
    BY <1>3 DEF Swap, Write, Keyed, TypeOK, Request, Memory
  <2>2. Unseen(m.plain)
    BY <2>1 DEF Secret, Carries
  <2>3. CASE req[r].kind # "key"
    <3>1. UNCHANGED <<shown, twice>>
      BY <1>3, <2>3 DEF Swap, displays
    <3> QED
      BY <1>1, <2>1, <2>2, <3>1 DEF Secret, Unseen
  <2>4. CASE req[r].kind = "key"
    <3>1. Drawing(r) /\ <<m.plain, "drawn">> \notin shown
      BY <2>1, <2>4 DEF Drawing, Secret
    <3>2. shown' = shown \cup {<<m.plain, "drawn">>} /\ twice' = twice
      BY <1>3, <2>4, <3>1 DEF Swap, Show
    <3>3. \A k : <<k, "reveal">> \in shown' <=> <<k, "reveal">> \in shown
      BY <3>2
    <3>4. \A s \in Requests : Drawing(s)' => <<req'[s].newCfg.plain, "drawn">> \notin shown'
      BY <1>1, <2>1, <3>1, <3>2 DEF Secret
    <3> QED
      BY <1>1, <2>1, <2>2, <3>2, <3>3, <3>4 DEF Secret, Unseen
  <2> QED
    BY <2>3, <2>4
<1>4. CASE Clear(r)
  <2> DEFINE k == req[r].cfg.plain
  <2>1. /\ req[r].at = "clear" /\ live' = [live EXCEPT !.plain = 0] /\ Show(k, "reveal") /\ ~Write(r)
        /\ crossed' = IF \E q \in Requests \ {r} : Carries(q, k) THEN crossed \cup {k} ELSE crossed
    BY <1>4 DEF Clear, Write
  <2>2. live'.plain = 0
    BY <2>1 DEF Keyed, TypeOK, Memory
  <2>3. k \in Nat /\ Unseen(k) /\ k # 0
    <3>1. k \in Nat
      BY DEF Keyed, TypeOK, Request, Memory
    <3> QED
      BY <2>1, <3>1 DEF Secret, Carries
  <2>4. /\ twice' \subseteq crossed'
        /\ shown' = shown \cup {<<k, "reveal">>} /\ crossed \subseteq crossed'
    BY <2>1, <2>3 DEF Show, Secret, Unseen
  <2>5. \A s \in Requests, j \in Nat : Carries(s, j)' => Unseen(j)'
    <3> SUFFICES ASSUME NEW s \in Requests, NEW j \in Nat, Carries(s, j)' PROVE Unseen(j)'
      OBVIOUS
    <3>1. Carries(s, j) /\ s # r /\ Unseen(j)
      BY <1>1, <2>1 DEF Secret
    <3>2. CASE j = k
      BY <2>1, <3>1, <3>2 DEF Unseen
    <3>3. CASE j # k
      BY <2>4, <3>1, <3>3 DEF Unseen
    <3> QED
      BY <3>2, <3>3
  <2>6. \A s \in Requests : Drawing(s)' => <<req'[s].newCfg.plain, "drawn">> \notin shown'
    BY <1>1, <2>4 DEF Secret
  <2> QED
    BY <1>1, <2>2, <2>4, <2>5, <2>6 DEF Secret, Unseen
<1> QED
  BY <1>2, <1>3, <1>4

LEMMA OtherSecret ==
    ASSUME Secret, Stop \/ Backup \/ (\E c \in Archives \cup {Json} : Restore(c))
    PROVE  Secret'
<1>1. UNCHANGED <<live, req, shown, twice, crossed>>
  BY DEF Stop, Backup, Restore, displays
<1> QED
  BY <1>1 DEF Secret, Unseen, Carries, Drawing

\* No copy that may still be saved or shown holds a plaintext that was revealed,
\* but for those that crossed the reveal (HandleAPIKeyRevealGET, UpdateConfig).
THEOREM AlwaysSecret == Spec => []Secret
<1>1. Keyed /\ Secret /\ [Next]_vars => Secret'
  <2> SUFFICES ASSUME Keyed, Secret, [Next]_vars PROVE Secret'
    OBVIOUS
  <2>1. CASE UNCHANGED vars
    BY <2>1 DEF vars, Secret, Unseen, Carries, Drawing
  <2> QED
    BY <2>1, Steps, BootSecret, OpensSecret, StepSecret, OtherSecret
<1> QED
  BY InitSecret, <1>1, AlwaysKeyed, PTL DEF Spec

\* However many keys are generated and however requests interleave, a key is
\* shown once where it is drawn and once by a reveal, unless that reveal crossed
\* a request that had read the key before (HandleAPIKeyRevealGET).
THEOREM RevealedOnce == Spec => []KeyIsRevealedOnce
<1>1. Secret => KeyIsRevealedOnce
  BY DEF Secret, KeyIsRevealedOnce
<1> QED
  BY AlwaysSecret, <1>1, PTL
----------------------------------------------------------------------------
(* What a save has left to do. *)

\* The listener is where the current settings say, was left behind, or will be
\* moved there by a request that has swapped; the watcher likewise.
Following ==
    up =>
        /\ \/ listening = live.addr
           \/ "listener" \in behind
           \/ \E r \in Requests : req[r].at = "rebind" /\ Rebinds(r) /\ req[r].newCfg.addr = live.addr
        /\ \/ watching = live.folders
           \/ "watcher" \in behind
           \/ \E r \in Requests : /\ req[r].at \in {"rebind", "watch"} /\ Rewatches(r)
                                  /\ req[r].newCfg.folders = live.folders

LEMMA InitFollowing == Init => Following
  BY DEF Init, Following

LEMMA BootFollowing == Boot => Following'
  BY DEF Boot, Following

LEMMA OpensFollowing ==
    ASSUME Keyed, Following, NEW r \in Requests, NEW kind, NEW stage, NEW m, Opens(r, kind, stage, m)
    PROVE  Following'
<1>1. /\ req[r].at = "idle"
      /\ \A s \in Requests \ {r} : req'[s] = req[s]
      /\ UNCHANGED <<up, live, listening, watching, behind>>
  BY DEF Opens, Starts, effects, Keyed, TypeOK
<1>2. \A s \in Requests : req[s].at # "idle" => req'[s] = req[s]
  BY <1>1
<1> QED
  BY <1>1, <1>2 DEF Following, Rebinds, Rewatches

LEMMA StepFollowing ==
    ASSUME Keyed, Following, NEW r \in Requests,
           Write(r) \/ WriteFails(r) \/ Swap(r) \/ Rebind(r) \/ Watch(r) \/ Clear(r)
    PROVE  Following'
<1>0. up /\ up' = up
  BY DEF Write, WriteFails, Swap, Rebind, Watch, Clear, outside
<1>1. \A s \in Requests \ {r} : req'[s] = req[s]
  BY Advances DEF Keyed
<1>2. ASSUME req[r].at \notin {"rebind", "watch"}, UNCHANGED <<listening, watching, behind>>,
             live'.addr = live.addr, live'.folders = live.folders
      PROVE  Following'
  <2>1. \A s \in Requests : req[s].at \in {"rebind", "watch"} => req'[s] = req[s]
    BY <1>1, <1>2
  <2> QED
    BY <1>0, <1>2, <2>1 DEF Following, Rebinds, Rewatches
<1>3. CASE Write(r) \/ WriteFails(r)
  BY <1>2, <1>3 DEF Write, WriteFails, effects
<1>4. CASE Clear(r)
  <2>1. live'.addr = live.addr /\ live'.folders = live.folders
    BY <1>4 DEF Clear, Keyed, TypeOK, Memory
  <2> QED
    BY <1>2, <1>4, <2>1 DEF Clear, effects
<1>5. CASE Swap(r)
  <2> DEFINE m == req[r].newCfg
  <2>1. /\ req[r].at = "swap" /\ live' = m /\ UNCHANGED <<listening, watching>>
        /\ behind \subseteq behind'
        /\ m.addr # live.addr /\ ~Rebinds(r) => "listener" \in behind'
        /\ m.folders # live.folders /\ ~Rewatches(r) => "watcher" \in behind'
    BY <1>5 DEF Swap
  <2>2. /\ Rebinds(r) => req'[r].at = "rebind" /\ Rebinds(r)' /\ req'[r].newCfg = m
        /\ Rewatches(r) => req'[r].at = "rebind" /\ Rewatches(r)' /\ req'[r].newCfg = m
    <3>1. req[r].kind = "settings" => Goto(r, "rebind")
      BY <1>5 DEF Swap
    <3>2. req[r].kind = "settings" =>
            /\ req'[r].at = "rebind" /\ req'[r].kind = req[r].kind
            /\ req'[r].cfg = req[r].cfg /\ req'[r].newCfg = m
      BY <3>1, GotoTyped DEF Keyed, Stages
    <3> QED
      BY <3>2 DEF Rebinds, Rewatches
  <2>3. \A s \in Requests : req[s].at \in {"rebind", "watch"} => req'[s] = req[s]
    BY <1>1, <2>1
  <2>4. \/ listening' = live'.addr
        \/ "listener" \in behind'
        \/ \E s \in Requests : req'[s].at = "rebind" /\ Rebinds(s)' /\ req'[s].newCfg.addr = live'.addr
    <3>1. CASE m.addr = live.addr
      BY <1>0, <2>1, <2>3, <3>1 DEF Following, Rebinds
    <3>2. CASE m.addr # live.addr
      BY <2>1, <2>2, <3>2
    <3> QED
      BY <3>1, <3>2
  <2>5. \/ watching' = live'.folders
        \/ "watcher" \in behind'
        \/ \E s \in Requests : /\ req'[s].at \in {"rebind", "watch"} /\ Rewatches(s)'
                               /\ req'[s].newCfg.folders = live'.folders
    <3>1. CASE m.folders = live.folders
      BY <1>0, <2>1, <2>3, <3>1 DEF Following, Rewatches
    <3>2. CASE m.folders # live.folders
      BY <2>1, <2>2, <3>2
    <3> QED
      BY <3>1, <3>2
  <2> QED
    BY <2>4, <2>5 DEF Following
<1>6. CASE Rebind(r)
  <2>1. /\ req[r].at = "rebind" /\ UNCHANGED <<live, watching>>
        /\ "watcher" \in behind => "watcher" \in behind'
        /\ \/ ~Rebinds(r) /\ UNCHANGED <<listening, behind>>
           \/ listening' = live'.addr
           \/ "listener" \in behind'
    BY <1>6 DEF Rebind, Rebinds
  <2>2. /\ req'[r].at = "watch" /\ req'[r].kind = req[r].kind
        /\ req'[r].cfg = req[r].cfg /\ req'[r].newCfg = req[r].newCfg
    BY <1>6, GotoTyped DEF Rebind, Keyed, Stages
  <2>3. \/ listening' = live'.addr
        \/ "listener" \in behind'
        \/ \E s \in Requests : req'[s].at = "rebind" /\ Rebinds(s)' /\ req'[s].newCfg.addr = live'.addr
    <3>1. CASE ~Rebinds(r) /\ UNCHANGED <<listening, behind>>
      <4>1. \A s \in Requests : Rebinds(s) => req'[s] = req[s]
        BY <1>1, <3>1
      <4> QED
        BY <1>0, <2>1, <3>1, <4>1 DEF Following, Rebinds
    <3> QED
      BY <2>1, <3>1
  <2>4. \A s \in Requests : Rewatches(s)' <=> Rewatches(s)
    BY <1>1, <2>2 DEF Rewatches
  <2>5. \/ watching' = live'.folders
        \/ "watcher" \in behind'
        \/ \E s \in Requests : /\ req'[s].at \in {"rebind", "watch"} /\ Rewatches(s)'
                               /\ req'[s].newCfg.folders = live'.folders
    BY <1>0, <1>1, <2>1, <2>2, <2>4 DEF Following
  <2> QED
    BY <2>3, <2>5 DEF Following
<1>7. CASE Watch(r)
  <2>1. /\ req[r].at = "watch" /\ UNCHANGED <<live, listening>>
        /\ "listener" \in behind => "listener" \in behind'
        /\ \/ (req[r].kind = "settings" => ~Rewatches(r)) /\ UNCHANGED <<watching, behind>>
           \/ watching' = live'.folders
           \/ "watcher" \in behind'
    BY <1>7 DEF Watch, Rewatches
  <2>2. \A s \in Requests : req[s].at = "rebind" => req'[s] = req[s]
    BY <1>1, <2>1
  <2>3. \/ listening' = live'.addr
        \/ "listener" \in behind'
        \/ \E s \in Requests : req'[s].at = "rebind" /\ Rebinds(s)' /\ req'[s].newCfg.addr = live'.addr
    BY <1>0, <2>1, <2>2 DEF Following, Rebinds
  <2>4. \/ watching' = live'.folders
        \/ "watcher" \in behind'
        \/ \E s \in Requests : /\ req'[s].at \in {"rebind", "watch"} /\ Rewatches(s)'
                               /\ req'[s].newCfg.folders = live'.folders
    <3>1. CASE ~Rewatches(r) /\ UNCHANGED <<watching, behind>>
      <4>1. \A s \in Requests : Rewatches(s) => req'[s] = req[s]
        BY <1>1, <3>1
      <4> QED
        BY <1>0, <2>1, <3>1, <4>1 DEF Following, Rewatches
    <3> QED
      BY <2>1, <3>1 DEF Rewatches
  <2> QED
    BY <2>3, <2>4 DEF Following
<1> QED
  BY <1>3, <1>4, <1>5, <1>6, <1>7

LEMMA OtherFollowing ==
    ASSUME Following, Stop \/ Backup \/ (\E c \in Archives \cup {Json} : Restore(c))
    PROVE  Following'
  BY DEF Stop, Backup, Restore, Following, Rebinds, Rewatches, effects

\* Listener and watcher follow the saved settings, were left behind, or have a
\* request under way that will move them (HandleSettingsPUT).
THEOREM AlwaysFollowing == Spec => []Following
<1>1. Keyed /\ Following /\ [Next]_vars => Following'
  <2> SUFFICES ASSUME Keyed, Following, [Next]_vars PROVE Following'
    OBVIOUS
  <2>1. CASE UNCHANGED vars
    BY <2>1 DEF vars, Following, Rebinds, Rewatches
  <2> QED
    BY <2>1, Steps, BootFollowing, OpensFollowing, StepFollowing, OtherFollowing
<1> QED
  BY InitFollowing, <1>1, AlwaysKeyed, PTL DEF Spec

\* Once no request has a rebind or restart before it, the listener and the
\* watcher are where the saved settings say, however saves interleaved, up to
\* the steps that left one of them behind (HandleSettingsPUT).
THEOREM EffectsFollow == Spec => []EffectsFollowSettings
<1>1. Following => EffectsFollowSettings
  BY DEF Following, EffectsFollowSettings
<1> QED
  BY AlwaysFollowing, <1>1, PTL
=============================================================================
