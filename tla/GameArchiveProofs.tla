------------------------- MODULE GameArchiveProofs -------------------------
(***************************************************************************)
(* Proofs about GameArchive, for any number of generators, versions, parts *)
(* and passwords, whatever overlaps and wherever the server crashes:       *)
(* TypeOK and UpToDateMeansPassword are invariants. The inductive          *)
(* invariant says which parts each stage of a generator can leave beside   *)
(* which marker. A second one (FInv) is about directories nobody shares:   *)
(* UpToDateMeansWhole and NothingHalfIsLeft follow from it.                *)
(***************************************************************************)
EXTENDS GameArchive, FiniteSetTheorems, TLAPS

\* The stages after the clean slate.
Later == {"stage", "pack", "abandon", "count", "mark"}

\* What the next step of a generator g reads has been filled in.
Filled(g) ==
    /\ g.at # "idle" => g.ver \in Versions
    /\ g.at \in {"pack", "count"} => g.src \in Versions
    /\ g.at = "mark" => g.n \in Numbers

\* The marker names the password of every part beside it.
MarkerNamesPassword ==
    marker # NoMarker => \A i \in OnDisk : parts[i].pw = marker.pw

\* Once a generator has its clean slate, only what this process wrote is left.
CleanSlate ==
    \A x \in Generators : gen[x].at \in Later =>
        /\ \A i \in OnDisk : parts[i].pw = secret
        /\ marker # NoMarker => marker.pw = secret

\* A generator still cleaning has every part of an earlier process on its list.
CleanList ==
    \A x \in Generators : gen[x].at = "clean" =>
        \A i \in OnDisk : parts[i].pw # secret => i \in gen[x].todo

IInv ==
    /\ TypeOK
    /\ \A x \in Generators : Filled(gen[x])
    /\ MarkerNamesPassword
    /\ CleanSlate
    /\ CleanList

----------------------------------------------------------------------------
(* Lemmas *)

\* Counting the parts in the directory.
LEMMA PartCount ==
    /\ Cardinality(OnDisk) \in 0..MaxParts
    /\ OnDisk # {} => Cardinality(OnDisk) \in Numbers
<1>1. IsFiniteSet(Numbers) /\ Cardinality(Numbers) = MaxParts
  BY FS_Interval, ArchiveAssumption, 1 \in Int DEF Numbers
<1>2. OnDisk \subseteq Numbers
  BY DEF OnDisk
<1>3. IsFiniteSet(OnDisk) /\ Cardinality(OnDisk) <= MaxParts
  BY <1>1, <1>2, FS_Subset
<1>4. Cardinality(OnDisk) \in Nat /\ (Cardinality(OnDisk) = 0 <=> OnDisk = {})
  BY <1>3, FS_CardinalityType, FS_EmptySet
<1> QED
  BY <1>3, <1>4, ArchiveAssumption DEF Numbers

\* A step that changes nothing but the record of one generator.
LEMMA OnlyGen ==
    ASSUME IInv, NEW x \in Generators, NEW g \in Gen, Filled(g), Becomes(x, g),
           UNCHANGED <<library, files, purge, history>>,
           g.at \in Later => gen[x].at \in Later,
           g.at = "clean" => \A i \in OnDisk : parts[i].pw # secret => i \in g.todo
    PROVE  IInv'
<1> USE DEF IInv, Becomes, library, files, history
<1>1. /\ gen' \in [Generators -> Gen]
      /\ gen'[x] = g
      /\ \A y \in Generators \ {x} : gen'[y] = gen[y]
  BY DEF TypeOK
<1>2. OnDisk' = OnDisk
  BY DEF OnDisk
<1>3. TypeOK'
  BY <1>1 DEF TypeOK
<1>4. (\A y \in Generators : Filled(gen[y]))'
  BY <1>1 DEF Filled
<1>5. MarkerNamesPassword'
  BY <1>2 DEF MarkerNamesPassword
<1>6. CleanSlate'
  BY <1>1, <1>2 DEF CleanSlate
<1>7. CleanList'
  BY <1>1, <1>2 DEF CleanList
<1> QED
  BY <1>3, <1>4, <1>5, <1>6, <1>7

LEMMA InitHolds == Init => IInv
<1> SUFFICES ASSUME Init PROVE IInv
  OBVIOUS
<1>1. Idle \in Gen /\ Filled(Idle) /\ Idle.at = "idle"
  BY ArchiveAssumption DEF Idle, Gen, Stages, Filled
<1>2. /\ gen \in [Generators -> Gen]
      /\ \A x \in Generators : gen[x] = Idle
  BY <1>1 DEF Init
<1>3. OnDisk = {} /\ parts \in [Numbers -> Part \cup {NoPart}]
  BY DEF Init, OnDisk
<1>4. TypeOK
  BY <1>2, <1>3 DEF TypeOK, Init
<1>5. \A x \in Generators : Filled(gen[x]) /\ gen[x].at = "idle"
  BY <1>1, <1>2
<1>6. MarkerNamesPassword /\ CleanSlate /\ CleanList
  BY <1>3, <1>5 DEF MarkerNamesPassword, CleanSlate, CleanList, Later
<1> QED
  BY <1>4, <1>5, <1>6 DEF IInv

----------------------------------------------------------------------------
(* One lemma for each kind of step. *)

LEMMA GenerateStep ==
    ASSUME IInv, NEW x \in Generators, Generate(x)
    PROVE  IInv'
<1> DEFINE g == gen[x]
<1> USE DEF IInv
<1>0. g \in Gen /\ Filled(g) /\ Idle \in Gen /\ Filled(Idle) /\ Idle.at = "idle"
  BY ArchiveAssumption DEF TypeOK, Idle, Gen, Stages, Filled
<1>1. CASE Begin(x)
  <2> DEFINE h == [Idle EXCEPT !.at = "parts", !.ver = row.ver]
  <2>1. row.ver \in Versions
    BY <1>1 DEF Begin, TypeOK, Row
  <2>2. h \in Gen /\ Filled(h) /\ h.at = "parts"
    BY <2>1, <1>0 DEF Idle, Gen, Stages, Filled
  <2> QED
    BY <1>1, <2>2, OnlyGen DEF Begin, Later
<1>2. CASE CheckParts(x)
  <2> DEFINE h == [g EXCEPT !.at = "marker", !.n = Cardinality(OnDisk)]
  <2>1. h \in Gen /\ Filled(h) /\ h.at = "marker"
    BY <1>0, <1>2, PartCount DEF CheckParts, Gen, Stages, Filled
  <2> QED
    BY <1>2, <2>1, OnlyGen DEF CheckParts, Later
<1>3. CASE CheckMarker(x)
  <2> DEFINE h == [g EXCEPT !.at = "enter", !.n = 0]
  <2>0. 0 \in 0..MaxParts
    BY ArchiveAssumption
  <2>1. h \in Gen /\ Filled(h) /\ h.at = "enter"
    BY <1>0, <1>3, <2>0 DEF CheckMarker, Gen, Stages, Filled
  <2>2. Becomes(x, Idle) \/ Becomes(x, h)
    BY <1>3 DEF CheckMarker
  <2> QED
    BY <1>0, <1>3, <2>1, <2>2, OnlyGen DEF CheckMarker, Later
<1>4. CASE Enter(x)
  <2> DEFINE h == [g EXCEPT !.at = "clean", !.todo = OnDisk]
  <2>1. h \in Gen /\ Filled(h) /\ h.at = "clean" /\ h.todo = OnDisk
    BY <1>0, <1>4 DEF Enter, Gen, Stages, Filled, OnDisk
  <2>2. /\ gen' \in [Generators -> Gen]
        /\ gen'[x] = h
        /\ \A y \in Generators \ {x} : gen'[y] = gen[y]
    BY <1>4, <2>1 DEF Enter, Becomes, TypeOK
  <2>3. OnDisk' = OnDisk
    BY <1>4 DEF Enter, OnDisk
  <2>4. TypeOK'
    BY <1>4, <2>2 DEF Enter, TypeOK, library
  <2>5. MarkerNamesPassword'
    BY <1>4, <2>3 DEF Enter, MarkerNamesPassword
  <2>6. CleanSlate'
    BY <1>4, <2>1, <2>2, <2>3 DEF Enter, CleanSlate, Later, library
  <2>7. CleanList'
    BY <1>4, <2>1, <2>2, <2>3 DEF Enter, CleanList, library
  <2> QED
    BY <2>1, <2>2, <2>4, <2>5, <2>6, <2>7 DEF Filled
<1>5. CASE RemovePart(x)
  <2> DEFINE i == CHOOSE j \in g.todo : \A k \in g.todo : j <= k
             h == [g EXCEPT !.todo = g.todo \ {i}]
  <2>0. g.at \in {"clean", "abandon"} /\ parts' = [parts EXCEPT ![i] = NoPart] /\ Becomes(x, h)
        /\ UNCHANGED <<library, made, marker, purge, history>>
    BY <1>5 DEF RemovePart
  <2>1. h \in Gen /\ Filled(h) /\ h.at = g.at /\ h.todo = g.todo \ {i}
    BY <1>0, <2>0 DEF Gen, Stages, Filled
  <2>2. /\ gen' \in [Generators -> Gen]
        /\ gen'[x] = h
        /\ \A y \in Generators \ {x} : gen'[y] = gen[y]
    BY <2>0, <2>1 DEF Becomes, TypeOK
  <2>3. /\ parts' \in [Numbers -> Part \cup {NoPart}]
        /\ OnDisk' = OnDisk \ {i}
        /\ \A k \in OnDisk' : parts'[k] = parts[k]
    BY <2>0 DEF TypeOK, OnDisk
  <2>4. TypeOK'
    BY <2>0, <2>2, <2>3 DEF TypeOK, library, history
  <2>5. MarkerNamesPassword'
    BY <2>0, <2>3 DEF MarkerNamesPassword
  <2>6. CleanSlate'
    BY <2>0, <2>1, <2>2, <2>3 DEF CleanSlate, library
  <2>7. CleanList'
    BY <2>0, <2>1, <2>2, <2>3 DEF CleanList, library
  <2> QED
    BY <2>1, <2>2, <2>4, <2>5, <2>6, <2>7
<1>6. CASE RemoveMarker(x)
  <2> DEFINE s == [g EXCEPT !.at = "stage"]
  <2>0. g.at \in {"clean", "abandon"} /\ g.todo = {} /\ marker' = NoMarker
        /\ UNCHANGED <<library, made, parts, purge, history>>
    BY <1>6 DEF RemoveMarker
  <2>1. s \in Gen /\ Filled(s) /\ s.at = "stage"
    BY <1>0, <2>0 DEF Gen, Stages, Filled
  <2>2. PICK h \in {s, Idle} : Becomes(x, h) /\ (h = s => g.at = "clean")
    BY <1>0, <1>6, <2>0, <2>1 DEF RemoveMarker, Goto
  <2>3. /\ gen' \in [Generators -> Gen]
        /\ gen'[x] = h
        /\ \A y \in Generators \ {x} : gen'[y] = gen[y]
    BY <1>0, <2>1, <2>2 DEF Becomes, TypeOK
  <2>4. OnDisk' = OnDisk
    BY <2>0 DEF OnDisk
  <2>5. TypeOK'
    BY <2>0, <2>3 DEF TypeOK, library, history
  <2>6. MarkerNamesPassword'
    BY <2>0 DEF MarkerNamesPassword
  <2>7. h = s => \A i \in OnDisk : parts[i].pw = secret
    BY <2>0, <2>2 DEF CleanList
  <2>8. CleanSlate'
    BY <1>0, <2>0, <2>1, <2>2, <2>3, <2>4, <2>7 DEF CleanSlate, library, Later
  <2>9. CleanList'
    BY <1>0, <2>0, <2>1, <2>2, <2>3, <2>4 DEF CleanList, library
  <2> QED
    BY <1>0, <2>1, <2>3, <2>5, <2>6, <2>8, <2>9
<1>7. CASE Stage(x)
  <2> DEFINE h == [g EXCEPT !.at = "pack", !.src = apk]
  <2>1. apk # 0 => h \in Gen /\ Filled(h) /\ h.at = "pack"
    BY <1>0, <1>7 DEF Stage, Gen, Stages, Filled, TypeOK
  <2>2. Becomes(x, Idle) \/ (apk # 0 /\ Becomes(x, h))
    BY <1>7 DEF Stage
  <2>3. g.at \in Later
    BY <1>7 DEF Stage, Later
  <2> QED
    BY <1>0, <1>7, <2>1, <2>2, <2>3, OnlyGen DEF Stage, Later
<1>8. CASE PackPart(x)
  <2> DEFINE p == [src |-> g.src, pw |-> secret, by |-> x, whole |-> FALSE]
             h == [g EXCEPT !.next = @ + 1]
  <2>0. /\ g.at = "pack" /\ g.next <= PartsOf[g.src] /\ g.src \in Versions
        /\ parts' = [parts EXCEPT ![g.next] = p] /\ Becomes(x, h)
        /\ UNCHANGED <<library, made, marker, purge, history>>
    BY <1>0, <1>8 DEF PackPart, Filled
  <2>1. g.next \in Numbers /\ g.next + 1 \in 1..(MaxParts + 1)
    BY <1>0, <2>0, ArchiveAssumption DEF Gen, Numbers
  <2>2. h \in Gen /\ Filled(h) /\ h.at = "pack"
    BY <1>0, <2>0, <2>1 DEF Gen, Stages, Filled
  <2>3. /\ gen' \in [Generators -> Gen]
        /\ gen'[x] = h
        /\ \A y \in Generators \ {x} : gen'[y] = gen[y]
    BY <2>0, <2>2 DEF Becomes, TypeOK
  <2>4. p \in Part /\ p.pw = secret
    BY <2>0 DEF Part, TypeOK
  <2>5. /\ parts' \in [Numbers -> Part \cup {NoPart}]
        /\ \A k \in OnDisk' : parts'[k].pw = secret \/ (k \in OnDisk /\ parts'[k] = parts[k])
    BY <2>0, <2>1, <2>4 DEF TypeOK, OnDisk
  <2>6. TypeOK'
    BY <2>0, <2>3, <2>5 DEF TypeOK, library, history
  <2>7. /\ \A k \in OnDisk' : parts'[k].pw = secret
        /\ marker # NoMarker => marker.pw = secret
    BY <2>0, <2>5 DEF CleanSlate, Later
  <2>8. MarkerNamesPassword' /\ CleanSlate' /\ CleanList'
    BY <2>0, <2>7 DEF MarkerNamesPassword, CleanSlate, CleanList, library
  <2> QED
    BY <2>2, <2>3, <2>6, <2>8
<1>9. CASE PackEnd(x)
  <2> DEFINE h == [g EXCEPT !.at = "count"]
             done == [i \in Numbers |-> IF i \in OnDisk /\ parts[i].by = x
                                        THEN [parts[i] EXCEPT !.whole = TRUE] ELSE parts[i]]
  <2>0. /\ g.at = "pack" /\ parts' = done /\ Becomes(x, h)
        /\ UNCHANGED <<library, made, marker, purge, history>>
    BY <1>9 DEF PackEnd, Goto
  <2>1. h \in Gen /\ Filled(h) /\ h.at = "count"
    BY <1>0, <2>0 DEF Gen, Stages, Filled
  <2>2. /\ gen' \in [Generators -> Gen]
        /\ gen'[x] = h
        /\ \A y \in Generators \ {x} : gen'[y] = gen[y]
    BY <2>0, <2>1 DEF Becomes, TypeOK
  <2>3. ASSUME NEW i \in Numbers
        PROVE  /\ done[i] \in Part \cup {NoPart}
               /\ done[i] # NoPart => i \in OnDisk /\ done[i].pw = parts[i].pw
    <3>1. CASE i \in OnDisk /\ parts[i].by = x
      BY <3>1 DEF TypeOK, OnDisk, Part
    <3>2. CASE ~(i \in OnDisk /\ parts[i].by = x)
      BY <3>2 DEF TypeOK, OnDisk
    <3> QED
      BY <3>1, <3>2
  <2>4. /\ parts' \in [Numbers -> Part \cup {NoPart}]
        /\ \A k \in OnDisk' : k \in OnDisk /\ parts'[k].pw = parts[k].pw
    <3> HIDE DEF done
    <3>1. parts' \in [Numbers -> Part \cup {NoPart}]
      BY <2>0, <2>3 DEF done
    <3> QED
      BY <3>1, <2>0, <2>3 DEF OnDisk
  <2>5. TypeOK'
    BY <2>0, <2>2, <2>4 DEF TypeOK, library, history
  <2>6. /\ \A k \in OnDisk' : parts'[k].pw = secret
        /\ marker # NoMarker => marker.pw = secret
    BY <2>0, <2>4 DEF CleanSlate, Later
  <2>7. MarkerNamesPassword' /\ CleanSlate' /\ CleanList'
    BY <2>0, <2>6 DEF MarkerNamesPassword, CleanSlate, CleanList, library
  <2> QED
    BY <2>1, <2>2, <2>5, <2>7
<1>10. CASE PackFail(x)
  <2> DEFINE h == [g EXCEPT !.at = "abandon", !.todo = OnDisk]
  <2>1. h \in Gen /\ Filled(h) /\ h.at = "abandon"
    BY <1>0, <1>10 DEF PackFail, Gen, Stages, Filled, OnDisk
  <2> QED
    BY <1>10, <2>1, OnlyGen DEF PackFail, Later
<1>11. CASE Count(x)
  <2> DEFINE h == [g EXCEPT !.at = "mark", !.n = Cardinality(OnDisk)]
  <2>1. OnDisk # {} => h \in Gen /\ Filled(h) /\ h.at = "mark"
    BY <1>0, <1>11, PartCount DEF Count, Gen, Stages, Filled
  <2>2. Becomes(x, Idle) \/ (OnDisk # {} /\ Becomes(x, h))
    BY <1>11 DEF Count
  <2>3. g.at \in Later
    BY <1>11 DEF Count, Later
  <2> QED
    BY <1>0, <1>11, <2>1, <2>2, <2>3, OnlyGen DEF Count, Later
<1>12. CASE Mark(x)
  <2> DEFINE m == [pw |-> secret, ver |-> g.ver, parts |-> g.n]
  <2>0. /\ g.at = "mark" /\ marker' = (IF made THEN m ELSE marker) /\ Becomes(x, Idle)
        /\ UNCHANGED <<library, made, parts, purge, history>>
    BY <1>12 DEF Mark
  <2>1. /\ gen' \in [Generators -> Gen]
        /\ gen'[x] = Idle
        /\ \A y \in Generators \ {x} : gen'[y] = gen[y]
    BY <1>0, <2>0 DEF Becomes, TypeOK
  <2>2. m \in Marker /\ m.pw = secret
    BY <1>0, <2>0 DEF Filled, Marker, TypeOK
  <2>3. TypeOK'
    BY <2>0, <2>1, <2>2 DEF TypeOK, library, history
  <2>4. OnDisk' = OnDisk
    BY <2>0 DEF OnDisk
  <2>5. /\ \A i \in OnDisk : parts[i].pw = secret
        /\ marker' # NoMarker => marker'.pw = secret
    BY <2>0, <2>2 DEF CleanSlate, Later
  <2>6. MarkerNamesPassword' /\ CleanSlate' /\ CleanList'
    BY <2>0, <2>4, <2>5 DEF MarkerNamesPassword, CleanSlate, CleanList, library
  <2> QED
    BY <1>0, <2>1, <2>3, <2>6
<1>13. CASE RemoveFail(x) \/ MarkCut(x)
  <2>0. /\ Becomes(x, Idle) /\ UNCHANGED <<library, made, parts, purge, overlapped>>
        /\ marker' \in {marker, NoMarker} /\ broken' \in {broken, TRUE}
    BY <1>13 DEF RemoveFail, MarkCut, files, history
  <2>1. /\ gen' \in [Generators -> Gen]
        /\ gen'[x] = Idle
        /\ \A y \in Generators \ {x} : gen'[y] = gen[y]
    BY <1>0, <2>0 DEF Becomes, TypeOK
  <2>2. TypeOK'
    BY <2>0, <2>1 DEF TypeOK, library
  <2>3. OnDisk' = OnDisk
    BY <2>0 DEF OnDisk
  <2>4. MarkerNamesPassword'
    BY <2>0, <2>3 DEF MarkerNamesPassword
  <2>5. CleanSlate' /\ CleanList'
    BY <1>0, <2>0, <2>1, <2>3 DEF CleanSlate, CleanList, Later, library
  <2> QED
    BY <1>0, <2>1, <2>2, <2>4, <2>5
<1>14. CASE GiveUp(x)
  BY <1>0, <1>14, OnlyGen DEF GiveUp, Later
<1> QED
  BY <1>1, <1>2, <1>3, <1>4, <1>5, <1>6, <1>7, <1>8, <1>9, <1>10, <1>11, <1>12, <1>13, <1>14
     DEF Generate

LEMMA EnvironmentStep ==
    ASSUME IInv, Environment
    PROVE  IInv'
<1> USE DEF IInv
<1>0. Outside => ops' \in Nat
  BY DEF Outside, TypeOK
<1>1. OnDisk' = OnDisk
  BY DEF Environment, WriteRow, ReplaceApk, SetPassword, DeleteRow, Crash, files, OnDisk
<1>2. MarkerNamesPassword'
  BY <1>1 DEF Environment, WriteRow, ReplaceApk, SetPassword, DeleteRow, Crash, files,
     MarkerNamesPassword
<1>3. CASE Crash
  <2>1. Idle \in Gen /\ Filled(Idle) /\ Idle.at = "idle"
    BY ArchiveAssumption DEF Idle, Gen, Stages, Filled
  <2>2. gen' \in [Generators -> Gen] /\ \A x \in Generators : gen'[x] = Idle
    BY <1>3, <2>1 DEF Crash
  <2>3. TypeOK'
    BY <1>0, <1>3, <2>2 DEF Crash, TypeOK, files
  <2> QED
    BY <1>2, <2>1, <2>2, <2>3 DEF CleanSlate, CleanList, Later
<1>4. CASE ~Crash
  <2>1. UNCHANGED <<gen, secret, parts, marker>>
    BY <1>4 DEF Environment, WriteRow, ReplaceApk, SetPassword, DeleteRow, files
  <2>2. CleanSlate' /\ CleanList'
    BY <1>1, <2>1 DEF CleanSlate, CleanList
  <2>3. TypeOK'
    <3>1. CASE \E v \in Versions, live \in BOOLEAN : WriteRow(v, live)
      BY <3>1, <1>0 DEF WriteRow, TypeOK, files, history, Row
    <3>2. CASE \E v \in Versions \cup {0} : ReplaceApk(v)
      BY <3>2, <1>0 DEF ReplaceApk, TypeOK, files, history
    <3>3. CASE \E p \in Passwords : SetPassword(p)
      BY <3>3, <1>0 DEF SetPassword, TypeOK, files, history
    <3>4. CASE DeleteRow
      BY <3>4, <1>0 DEF DeleteRow, TypeOK, files, history
    <3> QED
      BY <1>4, <3>1, <3>2, <3>3, <3>4 DEF Environment
  <2> QED
    BY <1>2, <2>1, <2>2, <2>3
<1> QED
  BY <1>3, <1>4

\* The removal only takes entries away.
LEMMA PurgeStep ==
    ASSUME IInv, Purge
    PROVE  IInv'
<1> USE DEF IInv
<1>1. CASE Prune
  <2>1. UNCHANGED <<gen, secret, parts, marker>> /\ OnDisk' = OnDisk
    BY <1>1 DEF Prune, files, OnDisk
  <2>2. purge' \in SUBSET (Numbers \cup {0}) /\ ops' \in Nat
    BY <1>1 DEF Prune, OnDisk, Outside, TypeOK
  <2>3. TypeOK'
    BY <1>1, <2>2 DEF Prune, TypeOK, files
  <2> QED
    BY <2>1, <2>3 DEF MarkerNamesPassword, CleanSlate, CleanList
<1>2. ASSUME NEW i \in Numbers \cup {0}, PurgeEntry(i)
      PROVE  IInv'
  <2>1. UNCHANGED <<library, made, gen, history>> /\ purge' \in SUBSET (Numbers \cup {0})
    BY <1>2 DEF PurgeEntry, TypeOK
  <2>2. CASE i = 0
    <3>1. marker' = NoMarker /\ UNCHANGED parts /\ OnDisk' = OnDisk
      BY <1>2, <2>2 DEF PurgeEntry, OnDisk
    <3>2. TypeOK'
      BY <2>1, <3>1 DEF TypeOK, library, history
    <3> QED
      BY <2>1, <3>1, <3>2 DEF MarkerNamesPassword, CleanSlate, CleanList, library
  <2>3. CASE i # 0
    <3>1. parts' = [parts EXCEPT ![i] = NoPart] /\ UNCHANGED marker /\ i \in Numbers
      BY <1>2, <2>3 DEF PurgeEntry
    <3>2. /\ parts' \in [Numbers -> Part \cup {NoPart}]
          /\ OnDisk' = OnDisk \ {i}
          /\ \A k \in OnDisk' : parts'[k] = parts[k]
      BY <3>1 DEF TypeOK, OnDisk
    <3>3. TypeOK'
      BY <2>1, <3>1, <3>2 DEF TypeOK, library, history
    <3> QED
      BY <2>1, <3>1, <3>2, <3>3 DEF MarkerNamesPassword, CleanSlate, CleanList, library
  <2> QED
    BY <2>2, <2>3
<1>3. CASE PurgeDirectory
  <2>1. UNCHANGED <<library, parts, marker, gen, history>> /\ OnDisk' = OnDisk
    BY <1>3 DEF PurgeDirectory, OnDisk
  <2>2. TypeOK'
    BY <1>3, <2>1 DEF PurgeDirectory, TypeOK, library, history
  <2> QED
    BY <2>1, <2>2 DEF MarkerNamesPassword, CleanSlate, CleanList, library
<1>4. ASSUME NEW i \in Numbers \cup {0}, PurgeKeeps(i)
      PROVE  IInv'
  <2>1. /\ UNCHANGED <<library, files, gen, overlapped>> /\ broken' = TRUE /\ OnDisk' = OnDisk
        /\ purge' \in SUBSET (Numbers \cup {0})
    BY <1>4 DEF PurgeKeeps, TypeOK, OnDisk, files
  <2>2. TypeOK'
    BY <2>1 DEF TypeOK, library, files
  <2> QED
    BY <2>1, <2>2 DEF MarkerNamesPassword, CleanSlate, CleanList, library, files
<1> QED
  BY <1>1, <1>2, <1>3, <1>4 DEF Purge

LEMMA Inductive == IInv /\ [Next]_vars => IInv'
<1> SUFFICES ASSUME IInv, [Next]_vars PROVE IInv'
  OBVIOUS
<1>1. CASE UNCHANGED vars
  BY <1>1 DEF vars, IInv, TypeOK, MarkerNamesPassword, CleanSlate, CleanList, OnDisk
<1> QED
  BY <1>1, EnvironmentStep, PurgeStep, GenerateStep DEF Next

----------------------------------------------------------------------------

\* Whatever the generators, a purge and crashes do, the parts beside a marker
\* are of its password, and a generator that cleaned up starts from none of
\* an older one (GenerateGameArchive).
THEOREM Invariance == Spec => []IInv
<1> QED
  BY InitHolds, Inductive, PTL DEF Spec

\* Every reachable state is well typed: a marker is written for at least one
\* part, 7z never numbers a part beyond the archive's.
THEOREM ArchiveTyped == Spec => []TypeOK
<1>1. IInv => TypeOK
  BY DEF IInv
<1> QED
  BY <1>1, Invariance, PTL

\* The password of an archive that counts as up to date is the server's, for
\* any number of generators that overlap and any sequence of crashes and
\* password changes.
THEOREM UpToDatePassword == Spec => []UpToDateMeansPassword
<1>1. IInv => UpToDateMeansPassword
  BY DEF IInv, UpToDateMeansPassword, UpToDate, Agrees, MarkerNamesPassword
<1> QED
  BY <1>1, Invariance, PTL

----------------------------------------------------------------------------
(* Whole archives. As long as whoever works in the directory has it to     *)
(* itself, the parts beside a marker are what is left of the finished      *)
(* archive it was written for, and every stage of the one that works has   *)
(* the parts it believes there are.                                        *)

LeftOf(v) ==
    /\ OnDisk \subseteq 1 .. PartsOf[v]
    /\ \A i \in OnDisk : parts[i].whole /\ parts[i].src = v
    /\ \A i, j \in OnDisk : parts[i].pw = parts[j].pw

Marked == marker # NoMarker => \E v \in Versions : marker.parts = PartsOf[v] /\ LeftOf(v)

Packed(x, n) ==
    LET g == gen[x] IN
    /\ g.src \in Versions
    /\ OnDisk = 1 .. n
    /\ \A i \in OnDisk : parts[i].src = g.src /\ parts[i].pw = secret

AtWork(x) ==
    LET g == gen[x] IN
    /\ g.at \in {"clean", "abandon"} => OnDisk \subseteq g.todo
    /\ g.at \in Later => marker = NoMarker
    /\ g.at = "stage" => OnDisk = {}
    /\ g.at = "pack" =>
        /\ g.next <= PartsOf[g.src] + 1
        /\ Packed(x, g.next - 1)
        /\ \A i \in OnDisk : parts[i].by = x
    /\ g.at \in {"count", "mark"} =>
        /\ Packed(x, PartsOf[g.src])
        /\ \A i \in OnDisk : parts[i].whole
    /\ g.at = "mark" => g.n = PartsOf[g.src]

Settled == broken \/ OnDisk = {} \/ Whole

Finished ==
    /\ Busy # {} => purge = Quiet
    /\ \A x, y \in Busy : x = y
    /\ Marked
    /\ \A x \in Busy : AtWork(x)
    /\ purge # Quiet => broken \/ OnDisk \subseteq purge
    /\ Busy = {} /\ purge = Quiet => Settled

\* 7z starts with the first part.
Fresh == \A x \in Generators : gen[x].at \notin {"pack", "abandon", "count", "mark"} => gen[x].next = 1

FInv == Fresh /\ (~overlapped => Finished)

LEMMA OnDiskSame == UNCHANGED parts => OnDisk' = OnDisk
BY DEF OnDisk

LEMMA BecomesIs ==
    ASSUME IInv, NEW x \in Generators, NEW g, Becomes(x, g)
    PROVE  gen'[x] = g /\ \A y \in Generators \ {x} : gen'[y] = gen[y]
BY DEF Becomes, IInv, TypeOK

LEMMA GotoIs ==
    ASSUME IInv, NEW x \in Generators, NEW s, Goto(x, s)
    PROVE  /\ gen'[x].at = s /\ gen'[x].src = gen[x].src /\ gen'[x].next = gen[x].next
           /\ gen'[x].todo = gen[x].todo /\ gen'[x].n = gen[x].n
           /\ \A y \in Generators \ {x} : gen'[y] = gen[y]
BY DEF Goto, Becomes, IInv, TypeOK, Gen

\* Fewer parts of a finished archive.
LEMMA MarkedKeeps ==
    ASSUME Marked, marker' \in {marker, NoMarker}, OnDisk' \subseteq OnDisk,
           \A i \in OnDisk' : parts'[i] = parts[i]
    PROVE  Marked'
BY DEF Marked, LeftOf

LEMMA PackedIsWhole ==
    ASSUME NEW v \in Versions, OnDisk = 1 .. PartsOf[v],
           \A i \in OnDisk : parts[i].whole /\ parts[i].src = v /\ parts[i].pw = secret
    PROVE  Whole
<1>1. PartsOf[v] \in Nat \ {0}
  BY ArchiveAssumption
<1>2. 1 \in OnDisk
  BY <1>1
<1> QED
  BY <1>2 DEF Whole

\* A step of the one that works, which then goes on or leaves things settled.
LEMMA SoleStep ==
    ASSUME Finished, NEW x \in Busy, purge' = purge,
           \A y \in Generators \ {x} : gen'[y] = gen[y],
           Marked', x \in Busy' => AtWork(x)', x \notin Busy' => Settled'
    PROVE  Finished'
<1>1. Busy = {x} /\ purge = Quiet
  BY DEF Finished
<1>2. Busy' \subseteq {x}
  BY <1>1 DEF Busy
<1> QED
  BY <1>1, <1>2 DEF Finished

\* A step outside the directory.
LEMMA OutsideStep ==
    ASSUME Finished, UNCHANGED <<parts, marker, purge, secret, broken>>,
           Busy' = Busy, \A x \in Busy : gen'[x] = gen[x]
    PROVE  Finished'
<1>1. OnDisk' = OnDisk
  BY OnDiskSame
<1>2. Marked'
  BY <1>1, MarkedKeeps DEF Finished
<1>3. \A x \in Busy : AtWork(x)'
  BY <1>1 DEF Finished, AtWork, Packed
<1>4. Busy = {} /\ purge = Quiet => Settled'
  BY <1>1 DEF Finished, Settled, Whole
<1> QED
  BY <1>1, <1>2, <1>3, <1>4 DEF Finished

LEMMA FreshStep ==
    ASSUME IInv, Fresh, NEW x \in Generators, Generate(x)
    PROVE  Fresh'
<1> DEFINE g == gen[x]
           Ends == {"pack", "abandon", "count", "mark"}
<1>1. g \in Gen /\ (g.at \notin Ends => g.next = 1) /\ Idle.next = 1
  BY DEF IInv, TypeOK, Fresh, Idle
<1>2. ASSUME NEW h, Becomes(x, h), h.at \notin Ends => h.next = 1
      PROVE  Fresh'
  BY <1>2, BecomesIs DEF Fresh
<1>3. CASE Becomes(x, Idle)
  BY <1>1, <1>2, <1>3
<1>4. CASE Begin(x)
  BY <1>2, <1>4 DEF Begin, Idle
<1>5. CASE CheckParts(x)
  BY <1>1, <1>2, <1>5 DEF CheckParts, Gen
<1>6. ASSUME NEW s, Goto(x, s), g.at \notin Ends \/ s \in Ends
      PROVE  Fresh'
  BY <1>1, <1>6, GotoIs DEF Fresh
<1>7. CASE PackEnd(x)
  BY <1>6, <1>7 DEF PackEnd
<1>15. CASE CheckMarker(x)
  BY <1>1, <1>2, <1>3, <1>15 DEF CheckMarker, Gen
<1>16. CASE RemoveFail(x) \/ MarkCut(x) \/ GiveUp(x)
  BY <1>3, <1>16 DEF RemoveFail, MarkCut, GiveUp
<1>8. CASE RemoveMarker(x)
  BY <1>3, <1>6, <1>8 DEF RemoveMarker
<1>9. CASE Enter(x) \/ RemovePart(x)
  <2>1. CASE Enter(x)
    <3> DEFINE h == [g EXCEPT !.at = "clean", !.todo = OnDisk]
    <3>1. Becomes(x, h) /\ g.at = "enter" /\ h.next = g.next
      BY <1>1, <2>1 DEF Enter, Gen
    <3> HIDE DEF h
    <3> QED
      BY <1>1, <1>2, <3>1
  <2>2. CASE RemovePart(x)
    <3>1. PICK t : Becomes(x, [g EXCEPT !.todo = t])
      BY <2>2 DEF RemovePart
    <3> DEFINE h == [g EXCEPT !.todo = t]
    <3>2. Becomes(x, h) /\ h.at = g.at /\ h.next = g.next
      BY <1>1, <3>1 DEF Gen
    <3> HIDE DEF h
    <3> QED
      BY <1>1, <1>2, <3>2
  <2> QED
    BY <1>9, <2>1, <2>2
<1>10. CASE PackPart(x)
  BY <1>1, <1>2, <1>10 DEF PackPart, Gen
<1>11. CASE PackFail(x)
  BY <1>1, <1>2, <1>11 DEF PackFail, Gen
<1>12. CASE Stage(x)
  BY <1>1, <1>2, <1>3, <1>12 DEF Stage, Gen
<1>13. CASE Count(x)
  BY <1>1, <1>2, <1>3, <1>13 DEF Count, Gen
<1>14. CASE Mark(x)
  BY <1>3, <1>14 DEF Mark
<1> QED
  BY <1>4, <1>5, <1>7, <1>8, <1>9, <1>10, <1>11, <1>12, <1>13, <1>14, <1>15, <1>16 DEF Generate

LEMMA FInitHolds == Init => FInv
BY DEF Init, Idle, FInv, Fresh, Finished, Busy, Marked, Settled, OnDisk

LEMMA CardOfPacked ==
    ASSUME NEW v \in Versions, NEW S, S \subseteq 1 .. PartsOf[v]
    PROVE  /\ Cardinality(1 .. PartsOf[v]) = PartsOf[v]
           /\ Cardinality(S) = PartsOf[v] => S = 1 .. PartsOf[v]
<1>1. PartsOf[v] \in Nat
  BY ArchiveAssumption
<1>2. IsFiniteSet(1 .. PartsOf[v]) /\ Cardinality(1 .. PartsOf[v]) = PartsOf[v]
  BY <1>1, FS_Interval
<1> QED
  BY <1>2, FS_Subset

LEMMA GenerateFinished ==
    ASSUME IInv, Fresh, ~overlapped => Finished, NEW x \in Generators, Generate(x), ~overlapped'
    PROVE  Finished'
<1> DEFINE g == gen[x]
<1>1. ~overlapped /\ g \in Gen /\ Filled(g)
  BY DEF Generate, Begin, CheckParts, CheckMarker, Enter, RemovePart, RemoveMarker, Stage,
     PackPart, PackEnd, PackFail, Count, Mark, RemoveFail, MarkCut, GiveUp, history, IInv, TypeOK
<1>2. Finished
  BY <1>1
<1>3. x \in Busy => Marked /\ AtWork(x) /\ Busy = {x} /\ purge = Quiet
  BY <1>2 DEF Finished
<1>4. x \in Busy <=> g.at \notin {"idle", "parts", "marker", "enter"}
  BY DEF Busy
<1>5. ASSUME Becomes(x, Idle) PROVE x \notin Busy' /\ \A y \in Generators \ {x} : gen'[y] = gen[y]
  BY <1>5, BecomesIs DEF Busy, Idle
<1>6. CASE Begin(x) \/ CheckParts(x) \/ CheckMarker(x)
  <2>1. /\ UNCHANGED <<parts, marker, purge, secret, broken>> /\ x \notin Busy
        /\ \E h : Becomes(x, h) /\ h.at \in {"idle", "parts", "marker", "enter"}
    <3>1. CASE Begin(x)
      <4> DEFINE h == [Idle EXCEPT !.at = "parts", !.ver = row.ver]
      <4>1. Becomes(x, h) /\ h.at = "parts"
        BY <3>1 DEF Begin, Idle
      <4> HIDE DEF h
      <4> QED
        BY <1>4, <3>1, <4>1 DEF Begin, files, history, library
    <3>2. CASE CheckParts(x)
      <4> DEFINE h == [g EXCEPT !.at = "marker", !.n = Cardinality(OnDisk)]
      <4>1. Becomes(x, h) /\ h.at = "marker"
        BY <1>1, <3>2 DEF CheckParts, Gen
      <4> HIDE DEF h
      <4> QED
        BY <1>4, <3>2, <4>1 DEF CheckParts, files, history, library
    <3>3. CASE CheckMarker(x)
      <4> DEFINE h == [g EXCEPT !.at = "enter", !.n = 0]
      <4>1. h.at = "enter" /\ Idle.at = "idle"
        BY <1>1 DEF Gen, Idle
      <4>2. Becomes(x, Idle) \/ Becomes(x, h)
        BY <3>3 DEF CheckMarker
      <4> HIDE DEF h
      <4> QED
        BY <1>4, <3>3, <4>1, <4>2 DEF CheckMarker, files, history, library
    <3> QED
      BY <1>6, <3>1, <3>2, <3>3
  <2>2. /\ gen'[x].at \in {"idle", "parts", "marker", "enter"}
        /\ \A y \in Generators \ {x} : gen'[y] = gen[y]
    BY <2>1, BecomesIs
  <2>3. Busy' = Busy /\ \A y \in Busy : gen'[y] = gen[y]
    BY <2>1, <2>2 DEF Busy
  <2> QED
    BY <1>2, <2>1, <2>3, OutsideStep
<1>7. CASE Enter(x)
  <2> DEFINE h == [g EXCEPT !.at = "clean", !.todo = OnDisk]
  <2>1. /\ Becomes(x, h) /\ h.at = "clean" /\ h.todo = OnDisk
        /\ UNCHANGED <<parts, marker, purge, secret>> /\ Busy = {} /\ purge = Quiet
    BY <1>1, <1>7 DEF Enter, Gen, library
  <2> HIDE DEF h
  <2>2. gen'[x] = h /\ \A y \in Generators \ {x} : gen'[y] = gen[y]
    BY <2>1, BecomesIs
  <2>3. Busy' = {x}
    BY <2>1, <2>2 DEF Busy
  <2>4. OnDisk' = OnDisk /\ Marked'
    BY <1>2, <2>1, OnDiskSame, MarkedKeeps DEF Finished
  <2>5. AtWork(x)'
    BY <2>1, <2>2, <2>4 DEF AtWork, Later
  <2> QED
    BY <2>1, <2>3, <2>4, <2>5 DEF Finished
<1>8. CASE RemovePart(x)
  <2>1. PICK i : /\ parts' = [parts EXCEPT ![i] = NoPart]
                 /\ Becomes(x, [g EXCEPT !.todo = g.todo \ {i}])
    BY <1>8 DEF RemovePart
  <2> DEFINE h == [g EXCEPT !.todo = g.todo \ {i}]
  <2>2. Becomes(x, h) /\ h.at = g.at /\ h.todo = g.todo \ {i}
    BY <1>1, <2>1 DEF Gen
  <2> HIDE DEF h
  <2>3. g.at \in {"clean", "abandon"} /\ UNCHANGED <<marker, purge, secret, broken>>
    BY <1>8 DEF RemovePart, history, library
  <2>4. gen'[x] = h /\ \A y \in Generators \ {x} : gen'[y] = gen[y]
    BY <2>2, BecomesIs
  <2>5. x \in Busy /\ x \in Busy'
    BY <1>4, <2>2, <2>3, <2>4 DEF Busy
  <2>6. OnDisk' = OnDisk \ {i} /\ \A k \in OnDisk' : parts'[k] = parts[k]
    BY <2>1 DEF OnDisk, IInv, TypeOK
  <2>7. Marked'
    BY <1>3, <2>3, <2>5, <2>6, MarkedKeeps
  <2>8. AtWork(x)'
    BY <1>3, <2>2, <2>3, <2>4, <2>5, <2>6 DEF AtWork, Later
  <2> QED
    BY <1>2, <2>3, <2>4, <2>5, <2>7, <2>8, SoleStep
<1>9. CASE RemoveMarker(x)
  <2>1. /\ g.at \in {"clean", "abandon"} /\ g.todo = {} /\ marker' = NoMarker
        /\ UNCHANGED <<parts, purge, secret, broken>> /\ x \in Busy
    BY <1>4, <1>9 DEF RemoveMarker, history, library
  <2>2. OnDisk = {} /\ OnDisk' = {}
    BY <1>3, <2>1, OnDiskSame DEF AtWork
  <2>3. Marked' /\ Settled'
    BY <2>1, <2>2 DEF Marked, Settled
  <2>4. CASE Becomes(x, Idle)
    BY <1>2, <1>5, <2>1, <2>3, <2>4, SoleStep
  <2>5. CASE Goto(x, "stage")
    <3>1. gen'[x].at = "stage" /\ \A y \in Generators \ {x} : gen'[y] = gen[y]
      BY <2>5, GotoIs
    <3>2. AtWork(x)'
      BY <2>1, <2>2, <3>1 DEF AtWork
    <3> QED
      BY <1>2, <2>1, <2>3, <3>1, <3>2, SoleStep
  <2> QED
    BY <1>9, <2>4, <2>5 DEF RemoveMarker
<1>10. CASE Stage(x)
  <2>1. g.at = "stage" /\ x \in Busy /\ UNCHANGED <<parts, marker, purge, secret, broken>>
    BY <1>4, <1>10 DEF Stage, files, history, library
  <2>2. OnDisk = {} /\ OnDisk' = {} /\ marker = NoMarker
    BY <1>3, <2>1, OnDiskSame DEF AtWork, Later
  <2>3. Marked' /\ Settled'
    BY <2>1, <2>2 DEF Marked, Settled
  <2>4. CASE Becomes(x, Idle)
    BY <1>2, <1>5, <2>1, <2>3, <2>4, SoleStep
  <2>5. CASE apk # 0 /\ Becomes(x, [g EXCEPT !.at = "pack", !.src = apk])
    <3> DEFINE h == [g EXCEPT !.at = "pack", !.src = apk]
    <3>1. h.at = "pack" /\ h.src = apk /\ h.next = 1 /\ Becomes(x, h)
      BY <1>1, <2>1, <2>5 DEF Gen, Fresh
    <3> HIDE DEF h
    <3>2. gen'[x] = h /\ \A y \in Generators \ {x} : gen'[y] = gen[y]
      BY <3>1, BecomesIs
    <3>3. apk \in Versions /\ PartsOf[apk] \in Nat
      BY <2>5, ArchiveAssumption DEF IInv, TypeOK
    <3>4. AtWork(x)'
      BY <2>1, <2>2, <3>1, <3>2, <3>3 DEF AtWork, Packed
    <3> QED
      BY <1>2, <2>1, <2>3, <3>2, <3>4, SoleStep
  <2> QED
    BY <1>10, <2>4, <2>5 DEF Stage
<1>11. CASE PackPart(x)
  <2> DEFINE p == [src |-> g.src, pw |-> secret, by |-> x, whole |-> FALSE]
             h == [g EXCEPT !.next = g.next + 1]
             n == g.next
  <2>1. /\ g.at = "pack" /\ x \in Busy /\ n <= PartsOf[g.src]
        /\ parts' = [parts EXCEPT ![n] = p] /\ UNCHANGED <<marker, purge, secret, broken>>
    BY <1>4, <1>11 DEF PackPart, history, library
  <2>2. Becomes(x, h) /\ h.at = "pack" /\ h.src = g.src /\ h.next = n + 1
    BY <1>1, <1>11, <2>1 DEF PackPart, Gen
  <2>3. p \in Part /\ p # NoPart
    <3>1. g.src \in Versions
      BY <1>1, <2>1 DEF Filled
    <3>2. p \in Part
      BY <3>1 DEF Part, IInv, TypeOK
    <3> QED
      BY <3>2, NullAssumption
  <2>4. p.src = g.src /\ p.pw = secret /\ p.by = x
    OBVIOUS
  <2> HIDE DEF h, p
  <2>5. gen'[x] = h /\ \A y \in Generators \ {x} : gen'[y] = gen[y]
    BY <2>2, BecomesIs
  <2>6. n \in Numbers /\ n \in Nat \ {0} /\ PartsOf[g.src] \in Nat
    <3>1. g.next \in 1 .. (MaxParts + 1) /\ g.src \in Versions
      BY <1>1, <2>1 DEF Gen, Filled
    <3>2. PartsOf[g.src] \in 1 .. MaxParts
      BY <3>1, ArchiveAssumption
    <3> QED
      BY <2>1, <3>1, <3>2, ArchiveAssumption DEF Numbers
  <2>7. OnDisk = 1 .. n - 1 /\ marker = NoMarker /\ g.src \in Versions
        /\ \A i \in OnDisk : parts[i].src = g.src /\ parts[i].pw = secret /\ parts[i].by = x
    BY <1>3, <2>1 DEF AtWork, Packed, Later
  <2>8. OnDisk' = OnDisk \cup {n} /\ parts'[n] = p /\ \A i \in OnDisk : i # n => parts'[i] = parts[i]
    BY <2>1, <2>3, <2>6 DEF OnDisk, IInv, TypeOK
  <2>9. OnDisk' = 1 .. n
    BY <2>6, <2>7, <2>8
  <2>10. \A i \in OnDisk' : parts'[i].src = g.src /\ parts'[i].pw = secret /\ parts'[i].by = x
    BY <2>4, <2>7, <2>8
  <2>11. AtWork(x)'
    BY <2>1, <2>2, <2>5, <2>6, <2>7, <2>9, <2>10 DEF AtWork, Packed
  <2>12. Marked' /\ x \in Busy'
    BY <2>1, <2>2, <2>5, <2>7 DEF Marked, Busy
  <2> QED
    BY <1>2, <2>1, <2>5, <2>11, <2>12, SoleStep
<1>12. CASE PackEnd(x)
  <2>1. /\ g.at = "pack" /\ x \in Busy /\ g.next > PartsOf[g.src]
        /\ parts' = [i \in Numbers |-> IF i \in OnDisk /\ parts[i].by = x
                                       THEN [parts[i] EXCEPT !.whole = TRUE] ELSE parts[i]]
        /\ UNCHANGED <<marker, purge, secret, broken>> /\ Goto(x, "count")
    BY <1>4, <1>12 DEF PackEnd, history, library
  <2>2. /\ g.next <= PartsOf[g.src] + 1 /\ OnDisk = 1 .. g.next - 1 /\ marker = NoMarker
        /\ g.src \in Versions
        /\ \A i \in OnDisk : parts[i].src = g.src /\ parts[i].pw = secret /\ parts[i].by = x
    BY <1>3, <2>1 DEF AtWork, Packed, Later
  <2>3. OnDisk = 1 .. PartsOf[g.src]
    <3>1. g.next \in 1 .. (MaxParts + 1)
      BY <1>1 DEF Gen
    <3>2. PartsOf[g.src] \in 1 .. MaxParts
      BY <2>2, ArchiveAssumption
    <3> QED
      BY <2>1, <2>2, <3>1, <3>2, ArchiveAssumption
  <2>4. \A i \in OnDisk : /\ parts[i] \in Part /\ i \in Numbers
                          /\ parts'[i] = [parts[i] EXCEPT !.whole = TRUE]
    BY <2>1, <2>2 DEF OnDisk, IInv, TypeOK
  <2>5. \A i \in OnDisk : /\ parts'[i] \in Part /\ parts'[i].whole
                          /\ parts'[i].src = g.src /\ parts'[i].pw = secret
    BY <2>2, <2>4 DEF Part
  <2>6. OnDisk' = OnDisk
    BY <2>1, <2>5, NullAssumption DEF OnDisk
  <2>7. /\ gen'[x].at = "count" /\ gen'[x].src = g.src
        /\ \A y \in Generators \ {x} : gen'[y] = gen[y]
    BY <2>1, GotoIs
  <2>8. AtWork(x)'
    BY <2>1, <2>2, <2>3, <2>5, <2>6, <2>7 DEF AtWork, Packed
  <2>9. Marked' /\ x \in Busy'
    BY <2>1, <2>2, <2>7 DEF Marked, Busy
  <2> QED
    BY <1>2, <2>1, <2>7, <2>8, <2>9, SoleStep
<1>13. CASE PackFail(x)
  <2> DEFINE h == [g EXCEPT !.at = "abandon", !.todo = OnDisk]
  <2>1. /\ g.at = "pack" /\ x \in Busy /\ UNCHANGED <<parts, marker, purge, secret, broken>>
        /\ Becomes(x, h) /\ h.at = "abandon" /\ h.todo = OnDisk
    BY <1>1, <1>4, <1>13 DEF PackFail, Gen, files, history, library
  <2> HIDE DEF h
  <2>2. gen'[x] = h /\ \A y \in Generators \ {x} : gen'[y] = gen[y]
    BY <2>1, BecomesIs
  <2>3. marker = NoMarker /\ OnDisk' = OnDisk
    BY <1>3, <2>1, OnDiskSame DEF AtWork, Later
  <2>4. AtWork(x)' /\ Marked' /\ x \in Busy'
    BY <2>1, <2>2, <2>3 DEF AtWork, Marked, Busy
  <2> QED
    BY <1>2, <2>1, <2>2, <2>4, SoleStep
<1>14. CASE Count(x)
  <2>1. /\ g.at = "count" /\ x \in Busy /\ UNCHANGED <<parts, marker, purge, secret, broken>>
        /\ OnDisk' = OnDisk
    BY <1>4, <1>14, OnDiskSame DEF Count, files, history, library
  <2>2. /\ marker = NoMarker /\ Packed(x, PartsOf[g.src]) /\ \A i \in OnDisk : parts[i].whole
    BY <1>3, <2>1 DEF AtWork, Later
  <2>3. Marked'
    BY <2>1, <2>2 DEF Marked
  <2>4. CASE OnDisk = {} /\ Becomes(x, Idle)
    <3>1. Settled'
      BY <2>1, <2>4 DEF Settled
    <3> QED
      BY <1>2, <1>5, <2>1, <2>3, <2>4, <3>1, SoleStep
  <2>5. CASE Becomes(x, [g EXCEPT !.at = "mark", !.n = Cardinality(OnDisk)])
    <3> DEFINE h == [g EXCEPT !.at = "mark", !.n = Cardinality(OnDisk)]
    <3>1. h.at = "mark" /\ h.src = g.src /\ h.n = Cardinality(OnDisk) /\ Becomes(x, h)
      BY <1>1, <2>5 DEF Gen
    <3> HIDE DEF h
    <3>2. gen'[x] = h /\ \A y \in Generators \ {x} : gen'[y] = gen[y]
      BY <3>1, BecomesIs
    <3>3. Cardinality(OnDisk) = PartsOf[g.src]
      BY <2>2, CardOfPacked DEF Packed
    <3>4. AtWork(x)' /\ x \in Busy'
      BY <2>1, <2>2, <3>1, <3>2, <3>3 DEF AtWork, Packed, Busy
    <3> QED
      BY <1>2, <2>1, <2>3, <3>2, <3>4, SoleStep
  <2> QED
    BY <1>14, <2>4, <2>5 DEF Count
<1>15. CASE Mark(x)
  <2>1. /\ g.at = "mark" /\ x \in Busy /\ UNCHANGED <<parts, purge, secret, broken>>
        /\ OnDisk' = OnDisk /\ Becomes(x, Idle)
        /\ marker' = IF made THEN [pw |-> secret, ver |-> g.ver, parts |-> g.n] ELSE marker
    BY <1>4, <1>15, OnDiskSame DEF Mark, history, library
  <2>2. /\ marker = NoMarker /\ Packed(x, PartsOf[g.src]) /\ \A i \in OnDisk : parts[i].whole
        /\ g.n = PartsOf[g.src]
    BY <1>3, <2>1 DEF AtWork, Later
  <2>3. LeftOf(g.src) /\ Whole
    BY <2>2, PackedIsWhole DEF Packed, LeftOf
  <2>4. Settled'
    BY <2>1, <2>3 DEF Settled, Whole
  <2>5. Marked'
    BY <2>1, <2>2, <2>3 DEF Marked, LeftOf, Packed
  <2> QED
    BY <1>2, <1>5, <2>1, <2>4, <2>5, SoleStep
<1>16. CASE RemoveFail(x)
  <2>1. /\ x \in Busy /\ UNCHANGED <<parts, marker, purge>> /\ Becomes(x, Idle) /\ broken'
    BY <1>4, <1>16 DEF RemoveFail, files
  <2>2. Marked' /\ Settled'
    BY <1>3, <2>1, OnDiskSame, MarkedKeeps DEF Settled
  <2> QED
    BY <1>2, <1>5, <2>1, <2>2, SoleStep
<1>17. CASE MarkCut(x) \/ GiveUp(x)
  <2>1. /\ UNCHANGED <<parts, purge, secret, broken>> /\ OnDisk' = OnDisk /\ Becomes(x, Idle)
        /\ marker' \in {marker, NoMarker}
        /\ g.at = "enter" => marker' = marker
        /\ g.at \in {"enter", "stage", "count", "mark"}
    BY <1>17, OnDiskSame DEF MarkCut, GiveUp, files, history, library
  <2>2. CASE g.at = "enter"
    <3>1. Busy' = Busy /\ \A y \in Busy : gen'[y] = gen[y]
      BY <1>4, <1>5, <2>1, <2>2 DEF Busy
    <3> QED
      BY <1>2, <2>1, <2>2, <3>1, OutsideStep
  <2>3. CASE g.at # "enter"
    <3>1. x \in Busy /\ AtWork(x) /\ Marked
      BY <1>3, <1>4, <2>1, <2>3
    <3>2. OnDisk = {} \/ Whole
      <4>1. CASE g.at = "stage"
        BY <3>1, <4>1 DEF AtWork
      <4>2. CASE g.at \in {"count", "mark"}
        BY <3>1, <4>2, PackedIsWhole DEF AtWork, Packed
      <4> QED
        BY <2>1, <2>3, <4>1, <4>2
    <3>3. Settled' /\ Marked'
      BY <2>1, <3>1, <3>2, MarkedKeeps DEF Settled, Whole
    <3> QED
      BY <1>2, <1>5, <2>1, <3>1, <3>3, SoleStep
  <2> QED
    BY <2>2, <2>3
<1> QED
  BY <1>6, <1>7, <1>8, <1>9, <1>10, <1>11, <1>12, <1>13, <1>14, <1>15, <1>16, <1>17 DEF Generate

LEMMA EnvironmentFinished == ASSUME IInv, FInv, Environment PROVE FInv'
<1>1. CASE Crash
  <2>1. /\ \A x \in Generators : gen'[x] = Idle
        /\ UNCHANGED <<parts, marker, overlapped>> /\ purge' = Quiet /\ broken' = TRUE
    BY <1>1 DEF Crash, files
  <2>2. Busy' = {} /\ Fresh'
    BY <2>1 DEF Busy, Fresh, Idle
  <2>3. Marked => Marked'
    BY <2>1, MarkedKeeps, OnDiskSame
  <2>4. ~overlapped => Finished'
    BY <2>1, <2>2, <2>3 DEF FInv, Finished, Settled
  <2> QED
    BY <2>1, <2>2, <2>4 DEF FInv
<1>2. CASE ~Crash
  <2>1. UNCHANGED <<gen, secret, parts, marker, purge, overlapped, broken>>
    BY <1>2 DEF Environment, WriteRow, ReplaceApk, SetPassword, DeleteRow, files, history
  <2>2. Busy' = Busy /\ Fresh'
    BY <2>1 DEF Busy, FInv, Fresh
  <2>3. Finished => Finished'
    BY <2>1, <2>2, OutsideStep
  <2> QED
    BY <2>1, <2>2, <2>3 DEF FInv
<1> QED
  BY <1>1, <1>2

LEMMA PurgeFinished == ASSUME IInv, FInv, Purge PROVE FInv'
<1>0. gen' = gen
  BY DEF Purge, Prune, PurgeEntry, PurgeKeeps, PurgeDirectory
<1>1. overlapped => overlapped'
  BY DEF Purge, Prune, PurgeEntry, PurgeKeeps, PurgeDirectory, history
<1>2. Busy' = Busy /\ Fresh'
  BY <1>0 DEF Busy, FInv, Fresh
<1> SUFFICES ASSUME ~overlapped, ~overlapped' PROVE Finished'
  BY <1>1, <1>2 DEF FInv
<1>3. Finished
  BY DEF FInv
<1>4. CASE Prune
  <2>1. /\ UNCHANGED <<parts, marker>> /\ Busy = {} /\ OnDisk \subseteq purge'
        /\ purge' \in SUBSET (Numbers \cup {0})
    BY <1>4 DEF Prune, files, OnDisk
  <2>2. OnDisk' = OnDisk /\ Marked' /\ purge' # Quiet
    BY <1>3, <2>1, OnDiskSame, MarkedKeeps, NullAssumption DEF Finished
  <2> QED
    BY <1>2, <2>1, <2>2 DEF Finished
<1>5. ASSUME NEW i \in Numbers \cup {0}, PurgeEntry(i) PROVE Finished'
  <2>1. /\ purge # Quiet /\ purge' = purge \ {i} /\ (broken \/ OnDisk \subseteq purge) /\ Busy = {}
        /\ purge' \in SUBSET (Numbers \cup {0}) /\ broken' = broken
    BY <1>3, <1>5 DEF PurgeEntry, Finished, IInv, TypeOK, history
  <2>2. /\ i = 0 => marker' = NoMarker /\ parts' = parts
        /\ i # 0 => marker' = marker /\ i \in Numbers /\ parts' = [parts EXCEPT ![i] = NoPart]
    BY <1>5 DEF PurgeEntry
  <2>3. OnDisk' = OnDisk \ {i} /\ \A k \in OnDisk' : parts'[k] = parts[k]
    <3>1. 0 \notin OnDisk
      BY DEF OnDisk, Numbers
    <3> QED
      BY <2>2, <3>1 DEF OnDisk, IInv, TypeOK
  <2>4. Marked' /\ purge' # Quiet
    BY <1>3, <2>1, <2>2, <2>3, MarkedKeeps, NullAssumption DEF Finished
  <2> QED
    BY <1>2, <2>1, <2>3, <2>4 DEF Finished
<1>6. CASE PurgeDirectory
  <2>1. UNCHANGED <<parts, marker, broken>> /\ purge = {} /\ purge' = Quiet
    BY <1>6 DEF PurgeDirectory, history
  <2>2. {} # Quiet
    BY NullAssumption
  <2>3. (broken \/ OnDisk = {}) /\ OnDisk' = OnDisk /\ Busy = {}
    BY <1>3, <2>1, <2>2, OnDiskSame DEF Finished
  <2>4. Marked' /\ Settled'
    BY <1>3, <2>1, <2>3, MarkedKeeps DEF Finished, Settled
  <2> QED
    BY <1>2, <2>1, <2>3, <2>4 DEF Finished
<1>7. ASSUME NEW i \in Numbers \cup {0}, PurgeKeeps(i) PROVE Finished'
  <2>1. /\ UNCHANGED <<parts, marker>> /\ broken' /\ Busy = {}
        /\ purge # Quiet /\ purge' = purge \ {i} /\ purge' \in SUBSET (Numbers \cup {0})
    BY <1>3, <1>7 DEF PurgeKeeps, Finished, files, IInv, TypeOK
  <2>2. Marked' /\ purge' # Quiet
    BY <1>3, <2>1, OnDiskSame, MarkedKeeps, NullAssumption DEF Finished
  <2> QED
    BY <1>2, <2>1, <2>2 DEF Finished
<1> QED
  BY <1>4, <1>5, <1>6, <1>7 DEF Purge

LEMMA FInductive == IInv /\ FInv /\ [Next]_vars => FInv'
<1> SUFFICES ASSUME IInv, FInv, [Next]_vars PROVE FInv'
  OBVIOUS
<1>1. CASE UNCHANGED vars
  <2>1. UNCHANGED <<parts, marker, purge, secret, broken, gen, overlapped>> /\ Busy' = Busy /\ Fresh'
    BY <1>1 DEF vars, Busy, FInv, Fresh
  <2>2. Finished => Finished'
    BY <2>1, OutsideStep
  <2> QED
    BY <2>1, <2>2 DEF FInv
<1>2. ASSUME NEW x \in Generators, Generate(x) PROVE FInv'
  BY <1>2, FreshStep, GenerateFinished DEF FInv
<1> QED
  BY <1>1, <1>2, EnvironmentFinished, PurgeFinished DEF Next

LEMMA FinishedInvariant == Spec => [](IInv /\ FInv)
BY InitHolds, FInitHolds, Inductive, FInductive, PTL DEF Spec

\* An archive that counts as up to date is one finished archive, for any number
\* of parts, versions and restarts at any step, as long as nobody else was at
\* work in the directory.
THEOREM UpToDateWhole == Spec => []UpToDateMeansWhole
<1>1. IInv /\ FInv => UpToDateMeansWhole
  <2> SUFFICES ASSUME IInv, FInv, ~overlapped, NEW v \in Versions, UpToDate(v) PROVE Whole
    BY DEF UpToDateMeansWhole
  <2>1. marker # NoMarker /\ marker.parts = Cardinality(OnDisk)
    BY DEF UpToDate, Agrees
  <2>2. PICK w \in Versions : marker.parts = PartsOf[w] /\ LeftOf(w)
    BY <2>1 DEF FInv, Finished, Marked
  <2>3. OnDisk = 1 .. PartsOf[w] /\ PartsOf[w] \in Nat \ {0}
    <3>1. OnDisk \subseteq 1 .. PartsOf[w] /\ Cardinality(OnDisk) = PartsOf[w]
      BY <2>1, <2>2 DEF LeftOf
    <3>2. OnDisk = 1 .. PartsOf[w]
      BY <3>1, CardOfPacked
    <3> QED
      BY <3>2, ArchiveAssumption
  <2>4. 1 \in OnDisk
    BY <2>3
  <2> QED
    BY <2>2, <2>3, <2>4 DEF LeftOf, Whole
<1> QED
  BY <1>1, FinishedInvariant, PTL

\* Once nobody works in the directory it is empty or holds one finished
\* archive, whatever 7z did and whichever step of the generation failed, unless
\* two were at work at once or, since one last entered, the server was
\* restarted or an entry could not be removed.
THEOREM NothingHalf == Spec => []NothingHalfIsLeft
<1>1. FInv => NothingHalfIsLeft
  BY DEF FInv, Finished, Settled, NothingHalfIsLeft
<1> QED
  BY <1>1, FinishedInvariant, PTL
=============================================================================
