----------------------------- MODULE CodexHandoff -----------------------------
(***************************************************************************)
(* What is handed to the next session of Codex (codex_handoff.py): the     *)
(* difference of the two latest versions marked good, with the package of  *)
(* the later one.                                                          *)
(*                                                                         *)
(* The commands run one at a time.  The package is a file that anyone can  *)
(* replace while a handoff is made, which reads it three times: before it  *)
(* starts, for its manifest and for its archive.                           *)
(***************************************************************************)
EXTENDS Naturals, Sequences

CONSTANTS
    NoPackage,       \* there is no valid ChatGPT and Gemini package
    NoPair,          \* no handoff is made
    MaxHandoffBuilds,\* bound: builds
    MaxMarks,        \* bound: versions marked good
    MaxHandoffs,     \* bound: handoffs asked for
    MaxHands,        \* bound: replaced packages, and lost archives
    MaxHandoffFaults \* bound: crashes, and builds that fail

ASSUME HandoffAssumption ==
    /\ NoPackage \notin Nat
    /\ {MaxHandoffBuilds, MaxMarks, MaxHandoffs, MaxHands, MaxHandoffFaults} \subseteq Nat

Builds == 1..MaxHandoffBuilds
GoodVersions == 1..MaxHandoffBuilds

\* A version marked good: the package recorded for it, and when.
Marks == [package : Builds, at : 1..MaxMarks]
Unmarked == [package |-> NoPackage, at |-> 0]

HandoffSteps == {"idle", "diff", "manifest", "archive", "validate", "register"}

\* The version handed over and the one before it, the package in the archive and the one its
\* manifest declares, and whether the archive is still what was registered.
Handoffs == [current : GoodVersions, previous : GoodVersions, embeds : Builds,
             declares : Builds, package : Builds, swapped : BOOLEAN, whole : BOOLEAN]

-----------------------------------------------------------------------------
VARIABLES
    builtSoFar,      \* the builds so far: what the brain holds
    package,         \* the build the packages are of
    captured,        \* the build each version is of
    dropped,         \* the versions that were dropped
    good,            \* the versions marked good
    marks,           \* the clock of the marks
    diffRuns,        \* pairs of versions whose difference is recorded
    handoffRows,      \* the handoffs that are registered
    handoff,         \* the command that runs
    handed,          \* the answers: the handoff, and the pair and package then recorded
    handoffs, hands, handoffFaults,
    mixed            \* history: a package was of another build than the latest version

handoffVars == <<builtSoFar, package, captured, dropped, good, marks, diffRuns, handoffRows,
                 handoff, handed, handoffs, hands, handoffFaults, mixed>>

HandoffTypeOK ==
    /\ builtSoFar \in 0..MaxHandoffBuilds
    /\ package \in Builds \cup {NoPackage}
    /\ captured \in Seq(Builds) /\ Len(captured) <= MaxHandoffBuilds
    /\ dropped \subseteq GoodVersions
    /\ good \in [GoodVersions -> Marks \cup {Unmarked}]
    /\ marks \in 0..MaxMarks
    /\ diffRuns \subseteq GoodVersions \X GoodVersions
    /\ handoffRows \in Seq(Handoffs)
    /\ handoff \in [step : HandoffSteps, pair : (GoodVersions \X GoodVersions) \cup {NoPair},
                    declares : Builds \cup {NoPackage}, embeds : Builds \cup {NoPackage},
                    swaps : 0..MaxHands]
    /\ \A x \in handed : x.handoff \in Handoffs
    /\ handoffs \in 0..MaxHandoffs /\ hands \in 0..MaxHands
    /\ handoffFaults \in 0..MaxHandoffFaults
    /\ mixed \in BOOLEAN

NoHandoff == [step |-> "idle", pair |-> NoPair, declares |-> NoPackage,
              embeds |-> NoPackage, swaps |-> 0]

HandoffInit ==
    /\ builtSoFar = 0 /\ package = NoPackage /\ captured = <<>> /\ dropped = {}
    /\ good = [v \in GoodVersions |-> Unmarked] /\ marks = 0
    /\ diffRuns = {} /\ handoffRows = <<>> /\ handoff = NoHandoff /\ handed = {}
    /\ handoffs = 0 /\ hands = 0 /\ handoffFaults = 0 /\ mixed = FALSE

-----------------------------------------------------------------------------
(* The builds and the versions.                                            *)

NoHandoffRuns == handoff.step = "idle"

\* A build replaces the packages and captures a version last; when it fails, the packages are
\* gone or of what the latest version does not hold.
BuildPackages ==
    /\ NoHandoffRuns
    /\ builtSoFar < MaxHandoffBuilds
    /\ builtSoFar' = builtSoFar + 1
    /\ \/ /\ package' = builtSoFar'
          /\ captured' = Append(captured, builtSoFar')
          /\ UNCHANGED <<handoffFaults, mixed>>
       \/ /\ handoffFaults < MaxHandoffFaults /\ handoffFaults' = handoffFaults + 1
          /\ package' \in {NoPackage, builtSoFar'}
          /\ mixed' = TRUE
          /\ UNCHANGED captured
    /\ UNCHANGED <<dropped, good, marks, diffRuns, handoffRows, handoff, handed, handoffs,
                   hands>>

\* Another valid package takes the place of the one that is there.
ReplacePackage ==
    /\ hands < MaxHands /\ hands' = hands + 1
    /\ package # NoPackage
    /\ package' \in (1..builtSoFar) \ {package}
    /\ mixed' = TRUE
    /\ handoff' = IF NoHandoffRuns THEN handoff ELSE [handoff EXCEPT !.swaps = @ + 1]
    /\ UNCHANGED <<builtSoFar, captured, dropped, good, marks, diffRuns, handoffRows, handed,
                   handoffs, handoffFaults>>

\* The latest version and the packages that are there are recorded together, again when the
\* version is marked again.
MarkBuildGood ==
    /\ NoHandoffRuns
    /\ marks < MaxMarks /\ marks' = marks + 1
    /\ package # NoPackage /\ captured # <<>>
    /\ good' = [good EXCEPT ![Len(captured)] = [package |-> package, at |-> marks']]
    /\ UNCHANGED <<builtSoFar, package, captured, dropped, diffRuns, handoffRows, handoff,
                   handed, handoffs, hands, handoffFaults, mixed>>

\* The row of a dropped version stays good; the latest version cannot be dropped.
DropGoodVersion(v) ==
    /\ NoHandoffRuns
    /\ v < Len(captured) /\ v \notin dropped
    /\ dropped' = dropped \cup {v}
    /\ UNCHANGED <<builtSoFar, package, captured, good, marks, diffRuns, handoffRows, handoff,
                   handed, handoffs, hands, handoffFaults, mixed>>

\* An archive that was handed over is deleted or changed.
LoseArchive(i) ==
    /\ hands < MaxHands /\ hands' = hands + 1
    /\ handoffRows[i].whole
    /\ handoffRows' = [handoffRows EXCEPT ![i].whole = FALSE]
    /\ UNCHANGED <<builtSoFar, package, captured, dropped, good, marks, diffRuns, handoff,
                   handed, handoffs, handoffFaults, mixed>>

-----------------------------------------------------------------------------
(* The handoff.                                                            *)

Marked == {v \in GoodVersions : good[v] # Unmarked}

\* The two versions marked last.
IsGoodPair(current, previous) ==
    /\ {current, previous} \subseteq Marked
    /\ good[previous].at < good[current].at
    /\ \A v \in Marked \ {current, previous} : good[v].at < good[previous].at

\* The versions of the pair are there, and so is the package that was recorded.
Preflight(pair) ==
    /\ package = good[pair[1]].package
    /\ {pair[1], pair[2]} \cap dropped = {}

\* The archive registered last for a pair can be handed over again: it is what was registered,
\* and the package it declares is the one that is there.
AnswerableIfWhole(pair, i) ==
    /\ <<handoffRows[i].current, handoffRows[i].previous>> = pair
    /\ \A j \in DOMAIN handoffRows : j > i =>
           <<handoffRows[j].current, handoffRows[j].previous>> # pair
    /\ handoffRows[i].whole

Answerable(pair, i) ==
    AnswerableIfWhole(pair, i) /\ handoffRows[i].declares = package

\* What is answered, and what is recorded as good at that time.
Answered(h) ==
    [handoff |-> h,
     versions |-> CHOOSE p \in Marked \X Marked : IsGoodPair(p[1], p[2]),
     package |-> package]

StartHandoff ==
    /\ NoHandoffRuns
    /\ handoffs < MaxHandoffs /\ handoffs' = handoffs + 1
    /\ \E pair \in Marked \X Marked :
        /\ IsGoodPair(pair[1], pair[2])
        /\ Preflight(pair)
        /\ \/ \E i \in DOMAIN handoffRows :
                /\ Answerable(pair, i)
                /\ handed' = handed \cup {Answered(handoffRows[i])}
                /\ UNCHANGED handoff
           \/ /\ \A i \in DOMAIN handoffRows : ~Answerable(pair, i)
              /\ handoff' = [NoHandoff EXCEPT !.step = "diff", !.pair = pair]
              /\ UNCHANGED handed
    /\ UNCHANGED <<builtSoFar, package, captured, dropped, good, marks, diffRuns, handoffRows,
                   hands, handoffFaults, mixed>>

\* The difference is committed before there is anything to hand over.
RecordDiff ==
    /\ handoff.step = "diff"
    /\ diffRuns' = diffRuns \cup {handoff.pair}
    /\ handoff' = [handoff EXCEPT !.step = "manifest"]
    /\ UNCHANGED <<builtSoFar, package, captured, dropped, good, marks, handoffRows, handed,
                   handoffs, hands, handoffFaults, mixed>>

WriteHandoffManifest ==
    /\ handoff.step = "manifest"
    /\ handoff' = [handoff EXCEPT !.step = "archive", !.declares = package]
    /\ UNCHANGED <<builtSoFar, package, captured, dropped, good, marks, diffRuns, handoffRows,
                   handed, handoffs, hands, handoffFaults, mixed>>

WriteHandoffArchive ==
    /\ handoff.step = "archive"
    /\ handoff' = [handoff EXCEPT !.step = "validate", !.embeds = package]
    /\ UNCHANGED <<builtSoFar, package, captured, dropped, good, marks, diffRuns, handoffRows,
                   handed, handoffs, hands, handoffFaults, mixed>>

\* The declared package is the one that is there and the one of the pointer; what the archive
\* holds is not compared.
Validates ==
    /\ handoff.declares = package
    /\ good[handoff.pair[1]].package = handoff.declares

ValidateHandoff ==
    /\ handoff.step = "validate"
    /\ handoff' = IF Validates THEN [handoff EXCEPT !.step = "register"] ELSE NoHandoff
    /\ UNCHANGED <<builtSoFar, package, captured, dropped, good, marks, diffRuns, handoffRows,
                   handed, handoffs, hands, handoffFaults, mixed>>

RegisterHandoff ==
    /\ handoff.step = "register"
    /\ LET h == [current |-> handoff.pair[1], previous |-> handoff.pair[2],
                 embeds |-> handoff.embeds, declares |-> handoff.declares,
                 package |-> good[handoff.pair[1]].package,
                 swapped |-> handoff.swaps > 1, whole |-> TRUE]
       IN  /\ handoffRows' = Append(handoffRows, h)
           /\ handed' = handed \cup {[Answered(h) EXCEPT !.package = h.package]}
    /\ handoff' = NoHandoff
    /\ UNCHANGED <<builtSoFar, package, captured, dropped, good, marks, diffRuns, handoffs,
                   hands, handoffFaults, mixed>>

\* What was written so far stays.
CrashHandoff ==
    /\ ~NoHandoffRuns
    /\ handoffFaults < MaxHandoffFaults /\ handoffFaults' = handoffFaults + 1
    /\ handoff' = NoHandoff
    /\ UNCHANGED <<builtSoFar, package, captured, dropped, good, marks, diffRuns, handoffRows,
                   handed, handoffs, hands, mixed>>

-----------------------------------------------------------------------------
HandoffNext ==
    \/ BuildPackages \/ ReplacePackage \/ MarkBuildGood
    \/ \E v \in GoodVersions : DropGoodVersion(v)
    \/ \E i \in DOMAIN handoffRows : LoseArchive(i)
    \/ StartHandoff \/ RecordDiff \/ WriteHandoffManifest \/ WriteHandoffArchive
    \/ ValidateHandoff \/ RegisterHandoff \/ CrashHandoff

HandoffSpec == HandoffInit /\ [][HandoffNext]_handoffVars

-----------------------------------------------------------------------------
\* What is registered holds the package recorded for its version and declares that one,
\* whatever became of the file meanwhile, unless it was replaced and put back.
HandoffHoldsItsPackage ==
    \A i \in DOMAIN handoffRows :
        /\ handoffRows[i].declares = handoffRows[i].package
        /\ ~handoffRows[i].swapped => handoffRows[i].embeds = handoffRows[i].package

\* An answer is of the two versions marked last, of which one follows the other, is whole, and
\* holds the package that is recorded for the later, made now or handed over again.
AnswerIsOfTheGoodPair ==
    \A x \in handed :
        /\ <<x.handoff.current, x.handoff.previous>> = x.versions
        /\ x.handoff.current # x.handoff.previous
        /\ x.handoff.whole
        /\ ~x.handoff.swapped => x.handoff.embeds = x.package
        /\ x.versions \in diffRuns

\* The package of a good version is of the build the version is of, as long as no build failed
\* and nobody replaced a package.
GoodPackageIsOfItsVersion ==
    ~mixed => \A v \in Marked : good[v].package = captured[v]

HandoffsAreTrue ==
    HandoffHoldsItsPackage /\ AnswerIsOfTheGoodPair /\ GoodPackageIsOfItsVersion
===============================================================================
