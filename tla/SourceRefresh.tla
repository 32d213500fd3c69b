---------------------------- MODULE SourceRefresh -----------------------------
(***************************************************************************)
(* Which sources a refresh takes in (refresh_brain.py, ipc_worker.py).     *)
(*                                                                         *)
(* The workspace keeps a list of registered sources; the brain an index of *)
(* what it ingested, with the stat of each source at that moment.  A       *)
(* refresh compares the two and classifies every source, without reading   *)
(* one whose stat is the recorded one.  It then takes out of a candidate   *)
(* what is registered no longer, ingests what changed, and leaves the      *)
(* candidate to a reviewer.  The list and the files change meanwhile.      *)
(***************************************************************************)
EXTENDS Naturals

CONSTANTS
    PlainSources,     \* sources of lanes that can take a source out of the search
    ResearchSources,  \* sources of the lane that only grows
    ChatSources,      \* sources whose later text must continue the earlier one
    SourceTexts,      \* what a source may hold
    FirstText,        \* what every source holds at first
    Continuations,    \* pairs of a text and one that continues it
    NoText,           \* the file of a source is missing
    Unindexed,        \* the brain never ingested the source
    MaxListChanges,   \* bound: changes of the list and of the files
    MaxTakeIns        \* bound: refreshes

RefreshSources == PlainSources \cup ResearchSources \cup ChatSources

ASSUME SourceRefreshAssumption ==
    /\ PlainSources \cap (ResearchSources \cup ChatSources) = {}
    /\ ResearchSources \cap ChatSources = {}
    /\ Continuations \subseteq SourceTexts \X SourceTexts
    /\ FirstText \in SourceTexts /\ NoText \notin SourceTexts
    /\ MaxListChanges \in Nat /\ MaxTakeIns \in Nat

\* What the index tells of a source: its hash, whether it is searched, the stat the
\* fingerprint cache has of it, and whether a research source has older versions.
IndexRows == [hash : SourceTexts, available : BOOLEAN, stat : 0..MaxListChanges,
              older : BOOLEAN]

ASSUME UnindexedIsNoRow == Unindexed \notin IndexRows

Classes == {"UNCHANGED_REUSE", "CHANGED_REBUILD", "NEW_REGISTER", "REMOVED_TOMBSTONE",
            "BLOCKED", "UNTOLD"}

-----------------------------------------------------------------------------
VARIABLES
    registered,     \* the list: the sources on it, and whether they are active
    text,           \* the file of each source
    stat,           \* its stat: another one after every change
    listChanges,    \* the changes so far
    brainIndex,     \* the index of the brain
    newIndex,       \* the index of the candidate
    classes,        \* the classification of each source
    classified,     \* the list, as it was classified
    inputStep,      \* where the running refresh is
    inputOutcome,   \* how the last one ended
    takeIns,        \* the refreshes so far
    asClassified,   \* history: the files as they were when they were classified
    unsettled       \* history: files changed since

inputVars == <<registered, text, stat, listChanges, brainIndex, newIndex, classes,
               classified, inputStep, inputOutcome, takeIns, asClassified, unsettled>>

Registrations == [RefreshSources -> {"active", "inactive", "absent"}]

InputTypeOK ==
    /\ registered \in Registrations /\ classified \in Registrations
    /\ text \in [RefreshSources -> SourceTexts \cup {NoText}]
    /\ asClassified \in [RefreshSources -> SourceTexts \cup {NoText}]
    /\ stat \in [RefreshSources -> 0..MaxListChanges]
    /\ listChanges \in 0..MaxListChanges
    /\ brainIndex \in [RefreshSources -> IndexRows \cup {Unindexed}]
    /\ newIndex \in [RefreshSources -> IndexRows \cup {Unindexed}]
    /\ classes \in [RefreshSources -> Classes]
    /\ inputStep \in {"idle", "tombstones", "build", "products", "review"}
    /\ inputOutcome \in {"none", "blocked", "failed", "abandoned", "unchanged", "review"}
    /\ takeIns \in 0..MaxTakeIns
    /\ unsettled \subseteq RefreshSources

\* Some sources are indexed as they are; others are registered and new.
InputInit ==
    /\ \E old \in SUBSET RefreshSources :
        /\ text = [s \in RefreshSources |-> FirstText]
        /\ brainIndex = [s \in RefreshSources |->
               IF s \in old THEN [hash |-> FirstText, available |-> TRUE, stat |-> 0,
                                   older |-> FALSE]
               ELSE Unindexed]
    /\ registered = [s \in RefreshSources |-> "active"]
    /\ stat = [s \in RefreshSources |-> 0]
    /\ listChanges = 0
    /\ newIndex = brainIndex
    /\ classes = [s \in RefreshSources |-> "UNTOLD"]
    /\ classified = registered /\ asClassified = text /\ unsettled = {}
    /\ inputStep = "idle" /\ inputOutcome = "none" /\ takeIns = 0

-----------------------------------------------------------------------------
(* The list and the files.                                                 *)

ChangeSources ==
    /\ listChanges < MaxListChanges
    /\ listChanges' = listChanges + 1
    /\ UNCHANGED <<brainIndex, newIndex, classes, classified, inputStep, inputOutcome,
                   takeIns, asClassified>>

\* sources.add: a source that exists, active or not; it replaces the one of its identity.
AddSource(s, active) ==
    /\ text[s] # NoText
    /\ registered[s] # active
    /\ ChangeSources
    /\ registered' = [registered EXCEPT ![s] = active]
    /\ UNCHANGED <<text, stat, unsettled>>

\* sources.remove and sources.removeLane: the brain is left as it is.
RemoveSources(gone) ==
    /\ \E s \in gone : registered[s] # "absent"
    /\ ChangeSources
    /\ registered' = [s \in RefreshSources |-> IF s \in gone THEN "absent" ELSE registered[s]]
    /\ UNCHANGED <<text, stat, unsettled>>

EditListed(s, t) ==
    /\ text[s] # t
    /\ ChangeSources
    /\ text' = [text EXCEPT ![s] = t]
    /\ stat' = [stat EXCEPT ![s] = listChanges']
    /\ unsettled' = unsettled \cup {s}
    /\ UNCHANGED registered

-----------------------------------------------------------------------------
(* The classification.                                                     *)

Indexed(s) == brainIndex[s] # Unindexed
Available(s) == Indexed(s) /\ brainIndex[s].available

\* A hash was recorded with the stat the source has now.
StatIsRecorded(s) == brainIndex[s].stat = stat[s]

ClassIgnoringState(s) ==
    CASE registered[s] # "active" ->
             IF Available(s) THEN "REMOVED_TOMBSTONE"
             ELSE IF registered[s] = "absent" THEN "UNTOLD" ELSE "UNCHANGED_REUSE"
      [] registered[s] = "active" /\ text[s] = NoText ->
             IF Indexed(s) THEN "REMOVED_TOMBSTONE" ELSE "BLOCKED"
      [] registered[s] = "active" /\ text[s] # NoText /\ ~Indexed(s) -> "NEW_REGISTER"
      [] OTHER -> IF StatIsRecorded(s) THEN "UNCHANGED_REUSE" ELSE "CHANGED_REBUILD"

ClassOf(s) ==
    CASE registered[s] # "active" ->
             IF Available(s) THEN "REMOVED_TOMBSTONE"
             ELSE IF registered[s] = "absent" THEN "UNTOLD" ELSE "UNCHANGED_REUSE"
      [] registered[s] = "active" /\ text[s] = NoText ->
             IF Indexed(s) THEN "REMOVED_TOMBSTONE" ELSE "BLOCKED"
      [] registered[s] = "active" /\ text[s] # NoText /\ ~Available(s) -> "NEW_REGISTER"
      [] OTHER -> IF StatIsRecorded(s) THEN "UNCHANGED_REUSE" ELSE "CHANGED_REBUILD"

\* The classes that make a candidate necessary.
Changing == {"CHANGED_REBUILD", "NEW_REGISTER", "REMOVED_TOMBSTONE"}

\* The older versions of a research source are of no registered source: they count as
\* removed ones, for good.
HasOlder(s) == s \in ResearchSources /\ Indexed(s) /\ brainIndex[s].older

\* A refresh of the sources of some lanes.
StartInputs(scope) ==
    /\ inputStep = "idle"
    /\ takeIns < MaxTakeIns
    /\ takeIns' = takeIns + 1
    /\ classes' = [s \in RefreshSources |-> IF s \in scope THEN ClassOf(s) ELSE "UNTOLD"]
    /\ classified' = registered
    /\ asClassified' = text
    /\ unsettled' = {}
    /\ newIndex' = brainIndex
    /\ \/ /\ \E s \in scope : classes'[s] = "BLOCKED"
          /\ inputStep' = "idle" /\ inputOutcome' = "blocked"
       \/ /\ \A s \in scope : ~HasOlder(s) /\ classes'[s] \notin Changing \cup {"BLOCKED"}
          /\ inputStep' = "idle" /\ inputOutcome' = "unchanged"
       \/ /\ \A s \in scope : classes'[s] # "BLOCKED"
          /\ \E s \in scope : HasOlder(s) \/ classes'[s] \in Changing
          /\ inputStep' = "tombstones" /\ inputOutcome' = "none"
    /\ UNCHANGED <<registered, text, stat, listChanges, brainIndex>>

-----------------------------------------------------------------------------
(* The candidate.                                                          *)

InputFolder == <<registered, text, stat, listChanges, brainIndex, classes, classified,
                 takeIns, asClassified, unsettled>>

Removed == {s \in RefreshSources : classes[s] = "REMOVED_TOMBSTONE"}
Rebuilt == {s \in RefreshSources : classes[s] \in {"CHANGED_REBUILD", "NEW_REGISTER"}}

FailInputs ==
    /\ inputStep' = "idle" /\ inputOutcome' = "failed"
    /\ UNCHANGED <<InputFolder, newIndex>>

\* A research source stays.  The activity of a chat source is appended to its text,
\* which it does not continue: the append is refused.
TakeOut ==
    /\ inputStep = "tombstones"
    /\ \/ /\ Removed \cap ChatSources # {}
          /\ FailInputs
       \/ /\ Removed \cap ChatSources = {}
          /\ newIndex' = [s \in RefreshSources |->
                 IF s \in Removed \ ResearchSources
                 THEN [newIndex[s] EXCEPT !.available = FALSE] ELSE newIndex[s]]
          /\ inputStep' = "build"
          /\ UNCHANGED <<InputFolder, inputOutcome>>

\* What was ingested of a chat must be the beginning of what is ingested now.
Ingestible(index, s) ==
    /\ text[s] # NoText
    /\ s \in ChatSources /\ index[s] # Unindexed =>
           \/ text[s] = index[s].hash
           \/ <<index[s].hash, text[s]>> \in Continuations

\* The sources are ingested as they are by now.
IndexWith(index, some) ==
    [s \in RefreshSources |->
        IF s \in some
        THEN [hash |-> text[s], available |-> TRUE, stat |-> stat[s],
              older |-> /\ s \in ResearchSources /\ index[s] # Unindexed
                        /\ index[s].older \/ index[s].hash # text[s]]
        ELSE index[s]]

\* What two indexes must share for their brains to be the same.
SameBrain(a, b) ==
    \A s \in RefreshSources :
        \/ a[s] = b[s]
        \/ /\ a[s] # Unindexed /\ b[s] # Unindexed
           /\ a[s].hash = b[s].hash /\ a[s].available = b[s].available

\* build_brain of the candidate: the sources are ingested.
BuildCandidate ==
    /\ inputStep = "build"
    /\ \/ /\ \E s \in Rebuilt : ~Ingestible(newIndex, s)
          /\ FailInputs
       \/ /\ \A s \in Rebuilt : Ingestible(newIndex, s)
          /\ newIndex' = IndexWith(newIndex, Rebuilt)
          /\ inputStep' = "products"
          /\ UNCHANGED <<InputFolder, inputOutcome>>

\* The topology, the packages derived one from the other or the databases of the
\* candidate do not pass, or the refresh is cancelled.
ProductsFail ==
    /\ inputStep = "products"
    /\ inputStep' = "idle" /\ inputOutcome' = "abandoned"
    /\ UNCHANGED <<InputFolder, newIndex>>

\* A candidate that is the brain again is thrown away.
CompareCandidate ==
    /\ inputStep = "products"
    /\ \/ inputStep' = "review" /\ inputOutcome' = "review"
       \/ /\ SameBrain(newIndex, brainIndex)
          /\ inputStep' = "idle" /\ inputOutcome' = "unchanged"
    /\ UNCHANGED <<InputFolder, newIndex>>

\* The fuse makes the candidate the brain, and the list the one it was made of.
DecideInputs(fused) ==
    /\ inputStep = "review"
    /\ brainIndex' = IF fused THEN newIndex ELSE brainIndex
    /\ registered' = IF fused THEN classified ELSE registered
    /\ inputStep' = "idle" /\ inputOutcome' = "none"
    /\ UNCHANGED <<text, stat, listChanges, newIndex, classes, classified,
                   takeIns, asClassified, unsettled>>

\* brain.build: sources that are registered are ingested into the brain itself.
BuildRegistered(some) ==
    /\ inputStep = "idle"
    /\ takeIns < MaxTakeIns
    /\ takeIns' = takeIns + 1
    /\ \A s \in some : registered[s] = "active" /\ Ingestible(brainIndex, s)
    /\ brainIndex' = IndexWith(brainIndex, some)
    /\ inputOutcome' = "none"
    /\ UNCHANGED <<registered, text, stat, listChanges, newIndex, classes, classified,
                   inputStep, asClassified, unsettled>>

-----------------------------------------------------------------------------
InputNext ==
    \/ \E s \in RefreshSources : \/ \E a \in {"active", "inactive"} : AddSource(s, a)
                                \/ RemoveSources({s})
                                \/ \E t \in SourceTexts \cup {NoText} : EditListed(s, t)
    \/ \E scope \in {RefreshSources, PlainSources} : StartInputs(scope)
    \/ TakeOut \/ BuildCandidate \/ ProductsFail \/ CompareCandidate
    \/ \E fused \in BOOLEAN : DecideInputs(fused)
    \/ \E s \in RefreshSources : BuildRegistered({s})

InputSpec == InputInit /\ [][InputNext]_inputVars

-----------------------------------------------------------------------------
Settled == RefreshSources \ unsettled
InScope == {s \in RefreshSources : classes[s] # "UNTOLD"}

\* The candidate a reviewer sees holds every active source that was there as it was, and
\* of the others nothing that is searched but research; what was not classified is as in
\* the brain.  Files changed since the classification are excepted.
CandidateHoldsInputs ==
    inputOutcome = "review" => \A s \in Settled :
        /\ classified[s] = "active" /\ asClassified[s] # NoText /\ s \in InScope =>
               newIndex[s] # Unindexed /\ newIndex[s].available /\ newIndex[s].hash = asClassified[s]
        /\ classified[s] # "active" /\ s \in InScope \ ResearchSources =>
               newIndex[s] = Unindexed \/ ~newIndex[s].available
        /\ s \notin InScope => newIndex[s] = brainIndex[s]

\* A refresh that finds nothing to do leaves a brain that holds every active source it
\* looked at as the source was, although it read none of them.
UnchangedIsTrue ==
    inputOutcome = "unchanged" => \A s \in Settled \cap InScope :
        classified[s] = "active" /\ asClassified[s] # NoText =>
            Indexed(s) /\ brainIndex[s].available /\ brainIndex[s].hash = asClassified[s]

\* A refresh fails for a file that changed while it ran, for a chat that was rewritten, or
\* because an indexed chat is registered no longer.
FailureHasCause ==
    inputOutcome = "failed" =>
        \/ Rebuilt \cap unsettled # {}
        \/ Removed \cap ChatSources # {}
        \/ \E s \in Rebuilt \cap ChatSources : Indexed(s) /\ brainIndex[s].hash # asClassified[s]

InputsAreTold == CandidateHoldsInputs /\ UnchangedIsTrue /\ FailureHasCause
===============================================================================
