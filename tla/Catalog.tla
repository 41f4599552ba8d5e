------------------------------ MODULE Catalog ------------------------------
(***************************************************************************)
(* GET /meta.7z over the game library: what clients that cache the catalog *)
(* come to hold while Library changes the rows.                            *)
(*                                                                         *)
(* The handler reads the visible games and then, by another statement, the *)
(* newest last_updated of the table. From the first it computes the ETag,  *)
(* from the second Last-Modified, and it answers 304 when the conditional  *)
(* header the client sent matches. Clients are external: one kind sends    *)
(* If-None-Match, the other only If-Modified-Since.                        *)
(*                                                                         *)
(* A hash is modelled by what is hashed. The catalog of a game is its      *)
(* version; thumbnails, notes, trailers and the trailer language, which    *)
(* only enters the hash, are left out.                                     *)
(***************************************************************************)
EXTENDS Library

CONSTANTS TagClients, DateClients, NoCopy, NoList

Clients == TagClients \cup DateClients

ASSUME ClientsAssumption == TagClients \cap DateClients = {}

VARIABLES
    copy,      \* the catalog each client holds, with the headers it came with
    list,      \* what a request in progress has read of the games, or NoList
    inception, \* when the server was started
    dated      \* history: games whose last write was stamped with a file's mtime

cvars == <<disk, clock, rows, locks, pending, job, scan, ops, copy, list, inception, dated>>

MaxOf(S) == CHOOSE n \in S : \A m \in S : m <= n

\* ListGamesForMeta7z and BuildGameListForMeta7z.
Visible ==
    [g \in {h \in Packages : rows[h] # NoRow /\ rows[h].exposed /\ ~rows[h].corrupted} |->
        [ver |-> rows[g].ver, stamp |-> rows[g].stamp, dated |-> g \in dated]]

Stamps(l) == {l[g].stamp : g \in DOMAIN l}

\* Mutant: only the names of the games are hashed.
NamesTag(l) == [names |-> DOMAIN l, newest |-> 0]

\* computeCatalogETag
CatalogTag(l) == [names |-> DOMAIN l, newest |-> MaxOf({0} \cup Stamps(l))]

\* GetCatalogLastModified over all rows, and without rows the fallbacks.
LastModified(l) ==
    LET all == {rows[g].stamp : g \in {h \in Packages : rows[h] # NoRow}} IN
    IF all # {} THEN MaxOf(all) ELSE IF DOMAIN l # {} THEN MaxOf(Stamps(l)) ELSE inception

CInit ==
    /\ Init
    /\ copy = [c \in Clients |-> NoCopy]
    /\ list = [c \in Clients |-> NoList]
    /\ inception = 0
    /\ dated = {}

----------------------------------------------------------------------------
(* The handler. *)

CatalogRead(c) ==
    /\ list[c] = NoList
    /\ list' = [list EXCEPT ![c] = Visible]
    /\ UNCHANGED copy

\* Mutant: a tag that does not match leaves the decision to the date.
MatchesEither(c) ==
    /\ copy[c] # NoCopy
    /\ \/ c \in TagClients /\ copy[c].tag = CatalogTag(list[c])
       \/ copy[c].date >= LastModified(list[c])

\* matchesClientCache
Matches(c) ==
    /\ copy[c] # NoCopy
    /\ IF c \in TagClients THEN copy[c].tag = CatalogTag(list[c])
                           ELSE copy[c].date >= LastModified(list[c])

NotModified(c) ==
    /\ list[c] # NoList
    /\ Matches(c)
    /\ list' = [list EXCEPT ![c] = NoList]
    /\ UNCHANGED copy

CatalogServed(c) ==
    /\ list[c] # NoList
    /\ ~Matches(c)
    /\ copy' = [copy EXCEPT ![c] = [games |-> list[c], tag |-> CatalogTag(list[c]),
                                    date |-> LastModified(list[c])]]
    /\ list' = [list EXCEPT ![c] = NoList]

\* GenerateMeta7z fails, or the answer is lost: the client keeps what it has.
CatalogFails(c) ==
    /\ list[c] # NoList
    /\ ~Matches(c)
    /\ list' = [list EXCEPT ![c] = NoList]
    /\ UNCHANGED copy

Handle(c) == CatalogRead(c) \/ NotModified(c) \/ CatalogServed(c) \/ CatalogFails(c)

----------------------------------------------------------------------------

\* Which games carry the mtime of a file as last_updated.
Restamp ==
    dated' = {g \in Packages :
        \/ g \in dated /\ rows'[g] = rows[g]
        \/ \E w \in Workers : /\ job[w].at \in {"rwrite", "mwrite"} /\ job'[w] # job[w]
                              /\ job[w].game = g}

Operate ==
    \/ Environment
    \/ \E w \in Watchers : WatchStep(w)
    \/ \E s \in Scanners : ScanStep(s)
    \/ \E a \in Admins : Manual(a)
    \/ Requests

\* The handler changes nothing of the library.
Alone == UNCHANGED <<vars, inception, dated>>

CNext ==
    \/ Operate /\ Restamp /\ UNCHANGED <<copy, list, inception>>
    \/ /\ Crash
       /\ inception' = clock
       /\ list' = [c \in Clients |-> NoList]
       /\ UNCHANGED <<copy, dated>>
    \/ (\E c \in Clients : Handle(c)) /\ Alone

CSpec == CInit /\ [][CNext]_cvars

\* Clients keep asking, the handler answers, and 7z does not fail for ever.
CFairness ==
    \A c \in Clients :
        /\ WF_cvars(CatalogRead(c) /\ Alone)
        /\ WF_cvars(NotModified(c) /\ Alone)
        /\ SF_cvars(CatalogServed(c) /\ Alone)

CFairSpec == CSpec /\ CFairness

----------------------------------------------------------------------------
(* Properties *)

\* A client with an ETag that is told its copy is current holds an old version
\* of a game only if that game was last written by a revalidation, which stamps
\* the mtime of a file, or in the second of the newest stamp of its copy
\* (computeCatalogETag hashes the newest last_updated and the names).
TagMissesOnlyDatedChanges ==
    \A c \in TagClients :
        list[c] # NoList /\ Matches(c) =>
            \A g \in DOMAIN list[c] :
                \/ list[c][g].ver = copy[c].games[g].ver
                \/ list[c][g].dated
                \/ list[c][g].stamp = copy[c].tag.newest

\* Once the rows stop changing, every client with an ETag ends up with the
\* games that are visible, no more and no fewer.
TagClientsCatchUp ==
    \A c \in TagClients : <>[](copy[c] # NoCopy /\ DOMAIN copy[c].games = DOMAIN Visible)
=============================================================================
