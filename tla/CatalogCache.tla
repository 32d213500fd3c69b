----------------------------- MODULE CatalogCache -----------------------------
(***************************************************************************)
(* The list of the brains of every root that the desktop shows             *)
(* (ipc_worker.py), and the file it is served from: what was found in each *)
(* root, and the last list under a fingerprint of the roots and of the     *)
(* size and time of each workspace database.                               *)
(*                                                                         *)
(* The file is loaded, changed and written whole under a lock of the       *)
(* process; the workers of a desktop are several processes.                *)
(***************************************************************************)
EXTENDS Naturals, FiniteSets

CONSTANTS
    Desktops,         \* the workers
    Routes,           \* the roots, each with at most one workspace
    MainRoute,        \* the root there is at first
    NoCatalog,        \* there is no list, no fingerprint
    MaxCatalogs,      \* bound: lists
    MaxCatalogEvents  \* bound: what happens between: writes of a database, versions, roots
                      \* dropped, starts of the desktop, databases that cannot be read

ASSUME CatalogCacheAssumption ==
    /\ MainRoute \in Routes
    /\ {MaxCatalogs, MaxCatalogEvents} \subseteq Nat

\* The size and time of a database change with every write.
Stamps == 0..(MaxCatalogEvents + 1)
\* What a list shows of a workspace.
Entries == [rows : 0..MaxCatalogEvents, versions : 0..MaxCatalogEvents]
Payloads == UNION {[R -> Entries] : R \in SUBSET Routes}
Fingerprints == UNION {[R -> Stamps] : R \in SUBSET Routes}
Scans == {"never", "empty", "found"}
\* History: what another one wrote while a list was made.
Races == SUBSET {"file", "database"}
\* A list that is kept; skipped when a database could not be read.
KeptCatalogs == [fingerprint : Fingerprints, payload : Payloads, skipped : BOOLEAN,
                 raced : Races]

ListSteps == {"idle", "add", "added", "list", "read", "found", "store", "answer"}

-----------------------------------------------------------------------------
VARIABLES
    routes,         \* the roots that are registered
    stamp,          \* of the workspace database of each root, 0 when there is none
    database,       \* what is in it, and the versions of its brains
    versionsSeen,   \* history: the versions there were when a database was last written
    catalogFile,    \* what was found in each root, and the last list
    request,        \* the list each worker makes
    catalogs, catalogEvents

cacheVars == <<routes, stamp, database, versionsSeen, catalogFile, request, catalogs,
               catalogEvents>>

CacheFiles == [scanned : [Routes -> Scans], snapshot : KeptCatalogs \cup {NoCatalog}]
EmptyFile == [scanned |-> [r \in Routes |-> "never"], snapshot |-> NoCatalog]

NoRequest == [step |-> "idle", refresh |-> FALSE, route |-> MainRoute, history |-> {},
              left |-> {}, payload |-> [r \in {} |-> 0], found |-> "never",
              loaded |-> NoCatalog, skipped |-> FALSE, must |-> {},
              raced |-> {}]

CacheTypeOK ==
    /\ routes \subseteq Routes
    /\ stamp \in [Routes -> Stamps] /\ database \in [Routes -> Entries]
    /\ versionsSeen \in [Routes -> 0..MaxCatalogEvents]
    /\ catalogFile \in CacheFiles
    /\ \A w \in Desktops :
        LET q == request[w]
        IN  /\ q.step \in ListSteps /\ q.route \in Routes
            /\ {q.refresh, q.skipped} \subseteq BOOLEAN
            /\ q.left \cup q.must \subseteq Routes /\ q.history \subseteq Routes
            /\ q.payload \in Payloads /\ q.loaded \in CacheFiles \cup {NoCatalog}
            /\ q.found \in Scans /\ q.raced \in Races
    /\ catalogs \in 0..MaxCatalogs /\ catalogEvents \in 0..MaxCatalogEvents

\* The desktop starts with one root; there may be a workspace in the others.
CacheInit ==
    /\ routes = {MainRoute}
    /\ \E R \in {{MainRoute}, Routes} : stamp = [r \in Routes |-> IF r \in R THEN 1 ELSE 0]
    /\ database = [r \in Routes |-> [rows |-> 0, versions |-> 0]]
    /\ versionsSeen = [r \in Routes |-> 0]
    /\ catalogFile = EmptyFile
    /\ request = [w \in Desktops |-> NoRequest]
    /\ catalogs = 0 /\ catalogEvents = 0

-----------------------------------------------------------------------------
(* The workspaces.                                                         *)

Exists(r) == stamp[r] > 0

Happens == catalogEvents < MaxCatalogEvents /\ catalogEvents' = catalogEvents + 1

\* Whoever makes a list meanwhile may keep what was there before.
Raced(requests, others, race) ==
    [w \in Desktops |-> IF w \in others /\ requests[w].step # "idle"
                        THEN [requests[w] EXCEPT !.raced = @ \cup {race}] ELSE requests[w]]

\* A write of a database: of its brains, or of a setting.
WriteDatabase(r, rows) ==
    /\ Happens
    /\ stamp' = [stamp EXCEPT ![r] = @ + 1]
    /\ database' = [database EXCEPT ![r].rows = @ + rows]
    /\ request' = Raced(request, Desktops, "database")
    /\ versionsSeen' = [versionsSeen EXCEPT ![r] = database[r].versions]

EditBrains(r) ==
    /\ WriteDatabase(r, 1)
    /\ UNCHANGED <<routes, catalogFile, catalogs>>

\* The selection is kept in the settings of the workspace.
SelectBrain(r) ==
    /\ Exists(r) /\ WriteDatabase(r, 0)
    /\ UNCHANGED <<routes, catalogFile, catalogs>>

\* A version is captured in the folder of the brain; the database is not written.
CaptureBrainVersion(r) ==
    /\ Exists(r) /\ Happens
    /\ database' = [database EXCEPT ![r].versions = @ + 1]
    /\ UNCHANGED <<routes, stamp, versionsSeen, catalogFile, request, catalogs>>

-----------------------------------------------------------------------------
(* The list.                                                               *)

IsFound(file, r) == file.scanned[r] = "found"

\* There is no fingerprint while a root was never looked at.
FingerprintOfRoutes(history, file) ==
    IF \E r \in history : file.scanned[r] = "never" THEN NoCatalog ELSE [r \in history |-> 0]
Fingerprint(history, file) ==
    IF \E r \in history : file.scanned[r] = "never" THEN NoCatalog
    ELSE [r \in history |-> IF IsFound(file, r) THEN stamp[r] ELSE 0]

\* The kept list is served as long as its fingerprint is that of the databases.
Served(file, history) ==
    /\ file.snapshot # NoCatalog
    /\ Fingerprint(history, file) # NoCatalog
    /\ file.snapshot.fingerprint = Fingerprint(history, file)

Listing(q) ==
    IF ~q.refresh /\ Served(catalogFile, routes)
    THEN [q EXCEPT !.step = "answer", !.history = routes,
                   !.payload = catalogFile.snapshot.payload,
                   !.skipped = catalogFile.snapshot.skipped,
                   !.raced = @ \cup catalogFile.snapshot.raced]
    ELSE [q EXCEPT !.step = "read", !.history = routes, !.left = routes]

StartCatalog(w, refresh) ==
    /\ request[w].step = "idle"
    /\ catalogs < MaxCatalogs /\ catalogs' = catalogs + 1
    /\ request' = [request EXCEPT ![w] =
            Listing([NoRequest EXCEPT !.refresh = refresh,
                         !.must = IF refresh THEN {r \in routes : Exists(r)} ELSE {}])]
    /\ UNCHANGED <<routes, stamp, database, versionsSeen, catalogFile, catalogEvents>>

\* A root is added: it is looked at, and then the list is made.
AddRoute(w, r) ==
    /\ request[w].step = "idle" /\ r # MainRoute
    /\ catalogs < MaxCatalogs /\ catalogs' = catalogs + 1
    /\ routes' = routes \cup {r}
    /\ request' = [request EXCEPT ![w] =
                      [NoRequest EXCEPT !.step = "add", !.route = r,
                                        !.must = IF Exists(r) THEN {r} ELSE {}]]
    /\ UNCHANGED <<stamp, database, versionsSeen, catalogFile, catalogEvents>>

\* The roots are taken in the order they are registered in.
IsNext(r, left) == r \in left /\ (MainRoute \in left => r = MainRoute)

\* A root is looked at when it is added, when the list is made anew, and the first time.
ScanRoute(w, r) ==
    /\ \/ request[w].step = "add" /\ r = request[w].route
       \/ /\ request[w].step = "read" /\ IsNext(r, request[w].left)
          /\ request[w].refresh \/ catalogFile.scanned[r] = "never"
    /\ request' = [request EXCEPT ![w].step = IF @ = "add" THEN "added" ELSE "found",
                                  ![w].route = r, ![w].loaded = catalogFile,
                                  ![w].found = IF Exists(r) THEN "found" ELSE "empty"]
    /\ UNCHANGED <<routes, stamp, database, versionsSeen, catalogFile, catalogs,
                   catalogEvents>>

\* What was loaded is written back with the change, whatever is in the file by now.
WriteFile(w, file, after) ==
    /\ catalogFile' = file
    /\ request' = Raced([request EXCEPT ![w] = after], Desktops \ {w}, "file")

RecordAddedRoute(w) ==
    /\ request[w].step = "added"
    /\ WriteFile(w, [request[w].loaded EXCEPT !.scanned[request[w].route] = request[w].found],
                 [request[w] EXCEPT !.step = "list", !.loaded = NoCatalog])
    /\ UNCHANGED <<routes, stamp, database, versionsSeen, catalogs, catalogEvents>>

ListCatalog(w) ==
    /\ request[w].step = "list"
    /\ request' = [request EXCEPT ![w] = Listing(@)]
    /\ UNCHANGED <<routes, stamp, database, versionsSeen, catalogFile, catalogs,
                   catalogEvents>>

\* The brains of a workspace are read with the versions of each; a database that cannot be
\* read is told and left out.
TakeRows(q, r, found, skipped) ==
    [q EXCEPT !.left = @ \ {r}, !.step = IF q.left = {r} THEN "store" ELSE "read",
              !.payload = [s \in DOMAIN @ \cup (IF found /\ ~skipped THEN {r} ELSE {}) |->
                              IF s = r THEN database[r] ELSE @[s]],
              !.skipped = @ \/ skipped, !.loaded = NoCatalog]

\* Whether the database of a root that has one can be read.
CanBeRead(skipped, found) ==
    IF skipped THEN found /\ Happens ELSE UNCHANGED catalogEvents

RecordRoute(w, skipped) ==
    LET q == request[w]
    IN  /\ q.step = "found"
        /\ CanBeRead(skipped, q.found = "found")
        /\ WriteFile(w, [q.loaded EXCEPT !.scanned[q.route] = q.found],
                     TakeRows([q EXCEPT !.found = "never"], q.route, q.found = "found",
                              skipped))
        /\ UNCHANGED <<routes, stamp, database, versionsSeen, catalogs>>

ReadKnownRoute(w, r, skipped) ==
    /\ request[w].step = "read" /\ IsNext(r, request[w].left)
    /\ ~request[w].refresh /\ catalogFile.scanned[r] # "never"
    /\ CanBeRead(skipped, IsFound(catalogFile, r))
    /\ request' = [request EXCEPT ![w] = TakeRows(@, r, IsFound(catalogFile, r), skipped)]
    /\ UNCHANGED <<routes, stamp, database, versionsSeen, catalogFile, catalogs>>

\* The list is kept under the fingerprint that the databases have now.
KeepCatalog(w) ==
    LET q == request[w]
        print == Fingerprint(q.history, catalogFile)
        answer == [q EXCEPT !.step = "answer"]
    IN  /\ q.step = "store"
        /\ \/ /\ print = NoCatalog
              /\ request' = [request EXCEPT ![w] = answer]
              /\ UNCHANGED catalogFile
           \/ /\ print # NoCatalog
              /\ WriteFile(w, [catalogFile EXCEPT !.snapshot =
                                  [fingerprint |-> print, payload |-> q.payload,
                                   skipped |-> q.skipped, raced |-> q.raced]], answer)
        /\ UNCHANGED <<routes, stamp, database, versionsSeen, catalogs, catalogEvents>>

AnswerCatalog(w) ==
    /\ request[w].step = "answer"
    /\ request' = [request EXCEPT ![w] = NoRequest]
    /\ UNCHANGED <<routes, stamp, database, versionsSeen, catalogFile, catalogs,
                   catalogEvents>>

-----------------------------------------------------------------------------
(* The roots.                                                              *)

\* A root is dropped, and what was found in it forgotten together with the list.
DropRoute(r) ==
    /\ r \in routes \ {MainRoute}
    /\ Happens
    /\ routes' = routes \ {r}
    /\ catalogFile' = IF catalogFile.scanned[r] = "never" THEN catalogFile
                      ELSE [scanned |-> [catalogFile.scanned EXCEPT ![r] = "never"],
                            snapshot |-> NoCatalog]
    /\ request' = Raced(request, Desktops, "file")
    /\ UNCHANGED <<stamp, database, versionsSeen, catalogs>>

\* The start of the desktop leaves one root, and what was found in it.
RetainOnly(r, scan) ==
    /\ routes' = {r}
    /\ catalogFile' = [scanned |-> [s \in Routes |-> IF s = r THEN scan ELSE "never"],
                       snapshot |-> NoCatalog]

InitWorkspace ==
    /\ Happens
    /\ RetainOnly(MainRoute, catalogFile.scanned[MainRoute])
    /\ request' = Raced(request, Desktops, "file")
    /\ UNCHANGED <<stamp, database, versionsSeen, catalogs>>

-----------------------------------------------------------------------------
CacheNext ==
    \/ InitWorkspace
    \/ \E r \in Routes :
        EditBrains(r) \/ SelectBrain(r) \/ CaptureBrainVersion(r) \/ DropRoute(r)
    \/ \E w \in Desktops :
        \/ \E refresh \in BOOLEAN : StartCatalog(w, refresh)
        \/ RecordAddedRoute(w) \/ ListCatalog(w) \/ KeepCatalog(w)
        \/ AnswerCatalog(w)
        \/ \E skipped \in BOOLEAN : RecordRoute(w, skipped)
        \/ \E r \in Routes :
            \/ AddRoute(w, r) \/ ScanRoute(w, r)
            \/ \E skipped \in BOOLEAN : ReadKnownRoute(w, r, skipped)

CacheSpec == CacheInit /\ [][CacheNext]_cacheVars

-----------------------------------------------------------------------------
\* The list that an ordinary start of the desktop is served, when nothing was written while it
\* was made.
ServedUnraced ==
    Served(catalogFile, routes) /\ catalogFile.snapshot.raced = {}

\* It shows the brains of the databases as they are, and every workspace that was found.
ServedListShowsTheRows ==
    ServedUnraced =>
        LET shown == catalogFile.snapshot.payload
        IN  /\ \A r \in DOMAIN shown : shown[r].rows = database[r].rows
            /\ ~catalogFile.snapshot.skipped =>
                   DOMAIN shown = {r \in routes : IsFound(catalogFile, r)}

\* It may be behind with the versions, but not by more than what was captured since the
\* database was last written.
ServedListShowsTheVersions ==
    ServedUnraced =>
        \A r \in DOMAIN catalogFile.snapshot.payload :
            catalogFile.snapshot.payload[r].versions >= versionsSeen[r]

\* A list that was asked for anew, or after a root was added, shows every workspace there was,
\* unless a database could not be read or another worker wrote the file meanwhile.
AskedListIsComplete ==
    \A w \in Desktops :
        LET q == request[w]
        IN  q.step = "answer" /\ ~q.skipped /\ "file" \notin q.raced =>
                q.must \cap q.history \subseteq DOMAIN q.payload

CatalogSnapshotIsTrue ==
    ServedListShowsTheRows /\ ServedListShowsTheVersions /\ AskedListIsComplete
===============================================================================
