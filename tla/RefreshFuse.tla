----------------------------- MODULE RefreshFuse -----------------------------
(***************************************************************************)
(* The governed refresh of one brain (refresh_brain.py).                   *)
(*                                                                         *)
(* A refresh builds a candidate copy of the brain in a directory of its    *)
(* own, a person approves, rejects or supersedes it, and a separate        *)
(* command, the fuse, promotes an approved candidate by renaming two       *)
(* directories.  The records of the refresh (CURRENT_REFRESH.json and      *)
(* history/<candidate>.json) and the version store live inside the very    *)
(* directories the fuse renames, so they travel with them: a directory is  *)
(* a record, and "the state of candidate c" is read from the directory     *)
(* that is at the canonical path now.                                      *)
(*                                                                         *)
(* The commands that change a brain run one at a time, under the mutation  *)
(* lock of ipc_worker.py (module MutationLock).  What interleaves with a   *)
(* command is a crash of the worker, an edit made outside the program, and *)
(* the status read of another process, which takes no lock.                *)
(***************************************************************************)
EXTENDS Naturals

CONSTANTS
    Candidates,       \* candidate ids, each given to one refresh
    Sources,          \* sources a user may register with the brain
    Contents,         \* authoritative contents a build can produce
    Initial,          \* the content of the first captured version
    Unverified,       \* content left by an outside edit or a half-done build
    Empty,            \* no authoritative file at all
    NoDir,            \* nothing at the path
    None,             \* no candidate
    MaxVersions,      \* bound: versions captured
    MaxCrashes,       \* bound: crashes of the worker
    MaxFaults,        \* bound: renames, captures or ledger writes that fail
    MaxEdits,         \* bound: edits made outside the program
    ConcurrentReader  \* TRUE: another process reads the status at any time

ASSUME NamesDiffer ==
    /\ Initial \in Contents
    /\ Unverified \notin Contents /\ Empty \notin Contents /\ Unverified # Empty
    /\ None \notin Candidates
    /\ ConcurrentReader \in BOOLEAN

ASSUME BoundsAreNaturals ==
    /\ MaxVersions \in Nat /\ MaxCrashes \in Nat
    /\ MaxFaults \in Nat /\ MaxEdits \in Nat

-----------------------------------------------------------------------------
(* Records kept on disk.                                                   *)

AnyContent == Contents \cup {Unverified, Empty}

Decisions == {"APPROVE", "REJECT", "SUPERSEDE"}

\* NOT_STARTED stands for a history file that is not there.
Statuses == {"NOT_STARTED", "REFRESHING", "TESTING", "NO_CHANGE", "AWAITING_FUSE",
             "REJECTED", "SUPERSEDED", "FUSING", "FUSED", "FAILED", "DROPPED",
             "QUARANTINED", "TEMP_UNFUSED"}

ActiveCandidateStates ==
    {"REFRESHING", "TESTING", "AWAITING_FUSE", "FAILED", "QUARANTINED"}

\* One immutable version: its number, the content it holds and the number of
\* the version that was the last one when it was captured.
Version == [id : Nat, snap : AnyContent, prev : Nat]

NoVersion == [id |-> 0, snap |-> Empty, prev |-> 0]

\* What history/<candidate>.json says of a candidate.
State == [status     : Statuses,
          base       : Version,                 \* baseline
          expected   : AnyContent,              \* candidate_snapshot_hash
          accepted   : SUBSET Sources,          \* accepted_sources
          decision   : Decisions \cup {"NONE"}, \* hil_decision
          unchanged  : BOOLEAN,                 \* verified_brain_unchanged
          preserved  : BOOLEAN,                 \* candidate_preserved_for_diagnosis
          fuseFailed : BOOLEAN,                 \* exact_error starts with FUSE_FAILED
          cancel     : BOOLEAN,                 \* cancel_requested
          workspace  : BOOLEAN,                 \* candidate_workspace is recorded
          fused      : Nat]                     \* immutable_version

NotStarted == [status |-> "NOT_STARTED", base |-> NoVersion, expected |-> Empty,
               accepted |-> {}, decision |-> "NONE", unchanged |-> FALSE,
               preserved |-> FALSE, fuseFailed |-> FALSE, cancel |-> FALSE,
               workspace |-> FALSE, fused |-> 0]

\* A brain directory.  packet and receipt are the review packet and the
\* decision receipt of the candidate the directory was built as, its origin.
Dir == [snap     : AnyContent,
        versions : SUBSET Version,
        dropped  : SUBSET Version,              \* tombstones of the manifest
        good     : Nat,                         \* latest good snapshot's version
        hist     : [Candidates -> State],
        packet   : AnyContent,
        receipt  : Decisions \cup {"NONE"},
        origin   : Candidates \cup {None}]

\* _state_directory creates the directory it is asked for: what a read of the
\* status leaves at a canonical path that had nothing.
Shell == [snap |-> Empty, versions |-> {}, dropped |-> {}, good |-> 0,
          hist |-> [c \in Candidates |-> NotStarted],
          packet |-> Empty, receipt |-> "NONE", origin |-> None]

ASSUME NoDirIsNoDirectory == NoDir \notin Dir

-----------------------------------------------------------------------------
VARIABLES
    canonical,   \* the directory at the canonical path of the brain
    candidate,   \* candidate_root of each candidate
    archive,     \* the archive of the brain each candidate replaced
    registered,  \* the sources registered in the workspace database
    op,          \* the command running under the mutation lock
    used,        \* candidate ids handed out
    nextVersion, \* the number the next captured version gets
    recorded,    \* history variable: versions accepted by a command that succeeded
    faults       \* how often each kind of fault has happened

vars == <<canonical, candidate, archive, registered, op, used, nextVersion,
          recorded, faults>>

MaybeDir == Dir \cup {NoDir}

Steps == {"idle", "materialize", "build", "decide", "archive", "promote",
          "restore", "capture", "commit", "finish", "undoPromote", "undoArchive"}

\* mem is the state dictionary the running command holds in memory.
Idle == [step |-> "idle", cand |-> None, mem |-> NotStarted]

TypeOK ==
    /\ canonical \in MaybeDir
    /\ candidate \in [Candidates -> MaybeDir]
    /\ archive \in [Candidates -> MaybeDir]
    /\ registered \subseteq Sources
    /\ op \in [step : Steps, cand : Candidates \cup {None}, mem : State]
    /\ (op.step # "idle") => op.cand \in Candidates
    /\ used \subseteq Candidates
    /\ nextVersion \in Nat
    /\ recorded \subseteq Version
    /\ faults \in [crash : Nat, fail : Nat, edit : Nat]

First == [id |-> 1, snap |-> Initial, prev |-> 0]

Init ==
    /\ canonical = [Shell EXCEPT !.snap = Initial, !.versions = {First}]
    /\ candidate = [c \in Candidates |-> NoDir]
    /\ archive = [c \in Candidates |-> NoDir]
    /\ registered = {}
    /\ op = Idle
    /\ used = {}
    /\ nextVersion = 2
    /\ recorded = {First}
    /\ faults = [crash |-> 0, fail |-> 0, edit |-> 0]

-----------------------------------------------------------------------------
(* Reading and writing the records.                                        *)

\* The directory a command finds at the canonical path, created on demand.
Live == IF canonical = NoDir THEN Shell ELSE canonical

Hist(c) == Live.hist[c]

\* _persist_state
Persist(c, st) == canonical' = [Live EXCEPT !.hist[c] = st]

\* _persist_candidate_copy
PersistCopy(c, st) ==
    candidate' = IF candidate[c] = NoDir THEN candidate
                 ELSE [candidate EXCEPT ![c].hist[c] = st]

IsLatest(d, v) == v \in d.versions /\ \A w \in d.versions : w.id <= v.id

\* _latest_verified_baseline: the version of the latest good snapshot, or,
\* where there is none, the latest version.
IsBaseline(d, v) ==
    /\ v \in d.versions
    /\ IF d.good # 0 THEN v.id = d.good ELSE IsLatest(d, v)

\* capture_brain_version in the directory d: the one record it can write, which
\* names the last version of the manifest as the previous one.
Captures(d) ==
    LET last == IF d.versions = {} THEN {0}
                ELSE {v.id : v \in {w \in d.versions : IsLatest(d, w)}}
    IN  {[id |-> nextVersion, snap |-> d.snap, prev |-> p] : p \in last}

WithVersion(d, v) == [d EXCEPT !.versions = @ \cup {v}]

Running(step) == op.step = step

GoTo(step) == op' = [op EXCEPT !.step = step]

Return == op' = Idle

\* A system call of the running command fails.
Fault ==
    /\ faults.fail < MaxFaults
    /\ faults' = [faults EXCEPT !.fail = @ + 1]

-----------------------------------------------------------------------------
(* start_refresh_brain                                                     *)

\* A refresh that ends before a candidate directory exists: the caller
\* expected another snapshot or the brain differs from its baseline
\* (QUARANTINED), an input is blocked (FAILED), no input changed (NO_CHANGE).
RefuseRefresh(c) ==
    /\ op = Idle /\ canonical # NoDir
    /\ c \notin used
    /\ \E b \in canonical.versions, s \in {"QUARANTINED", "FAILED", "NO_CHANGE"} :
         /\ IsBaseline(canonical, b)
         /\ s # "QUARANTINED" => canonical.snap = b.snap
         /\ Persist(c, [NotStarted EXCEPT !.status = s, !.base = b,
                                          !.unchanged = TRUE])
    /\ used' = used \cup {c}
    /\ UNCHANGED <<candidate, archive, registered, op, nextVersion, recorded, faults>>

BeginRefresh(c) ==
    /\ op = Idle /\ canonical # NoDir
    /\ c \notin used
    /\ \E b \in canonical.versions :
         LET st == [NotStarted EXCEPT !.status = "REFRESHING", !.base = b,
                                      !.accepted = registered,
                                      !.unchanged = TRUE, !.workspace = TRUE]
         IN  /\ IsBaseline(canonical, b)
             /\ canonical.snap = b.snap
             /\ Persist(c, st)
             /\ op' = [step |-> "materialize", cand |-> c, mem |-> st]
    /\ used' = used \cup {c}
    /\ UNCHANGED <<candidate, archive, registered, nextVersion, recorded, faults>>

\* materialize_brain_version_candidate and _copy_candidate_history_and_cache:
\* the content of the baseline and a copy of the version store as it is now.
Materialize ==
    /\ Running("materialize")
    /\ LET st == [op.mem EXCEPT !.status = "TESTING"]
       IN  /\ candidate' = [candidate EXCEPT ![op.cand] =
                  [Shell EXCEPT !.snap = op.mem.base.snap,
                                !.versions = Live.versions,
                                !.dropped = Live.dropped,
                                !.good = Live.good,
                                !.origin = op.cand]]
           /\ Persist(op.cand, st)
           /\ op' = [op EXCEPT !.step = "build", !.mem = st]
    /\ UNCHANGED <<archive, registered, used, nextVersion, recorded, faults>>

\* _create_candidate_products passed.  A candidate equal to the baseline is
\* recycled; any other gets a review packet bound to its snapshot and waits.
FinishBuild ==
    /\ Running("build")
    /\ \E s \in Contents :
         \/ /\ s = op.mem.base.snap
            /\ Persist(op.cand, [op.mem EXCEPT !.status = "NO_CHANGE"])
            /\ candidate' = [candidate EXCEPT ![op.cand] = NoDir]
         \/ LET st == [op.mem EXCEPT !.status = "AWAITING_FUSE", !.expected = s]
            IN  /\ s # op.mem.base.snap
                /\ Persist(op.cand, st)
                /\ candidate' = [candidate EXCEPT
                       ![op.cand] = [@ EXCEPT !.snap = s, !.packet = s,
                                              !.hist[op.cand] = st]]
    /\ Return
    /\ UNCHANGED <<archive, registered, used, nextVersion, recorded, faults>>

\* The except clause: the candidate, whatever it holds, is kept for diagnosis.
FailBuild ==
    /\ op.step \in {"materialize", "build"}
    /\ LET made == candidate[op.cand] # NoDir
           st == [op.mem EXCEPT !.status = "FAILED", !.preserved = made]
       IN  /\ Persist(op.cand, st)
           /\ candidate' = IF ~made THEN candidate
                           ELSE [candidate EXCEPT
                                   ![op.cand] = [@ EXCEPT !.snap = Unverified,
                                                          !.hist[op.cand] = st]]
    /\ Return
    /\ UNCHANGED <<archive, registered, used, nextVersion, recorded, faults>>

\* retry_refresh_brain: a new candidate in the place of one that is over.
Retry(old, c) ==
    /\ Hist(old).status \in {"FAILED", "DROPPED", "QUARANTINED", "TEMP_UNFUSED"}
    /\ RefuseRefresh(c) \/ BeginRefresh(c)

-----------------------------------------------------------------------------
(* record_refresh_hil_decision: the receipt first, then the state.         *)

DecidedByName(d) == d   \* mutant: the decision is taken for the status

DecidedStatus(d) ==
    CASE d = "APPROVE"   -> "AWAITING_FUSE"
      [] d = "REJECT"    -> "REJECTED"
      [] d = "SUPERSEDE" -> "SUPERSEDED"

ReceiptOverwritten(c, d) == d \in Decisions   \* mutant: the old receipt is ignored

\* record_review_decision: a receipt that is there already is used again, and
\* a different decision is refused.
ReceiptAllows(c, d) == candidate[c].receipt \in {"NONE", d}

WriteReceipt(c, d) ==
    LET st == Hist(c)
    IN  /\ op = Idle
        /\ st.status = "AWAITING_FUSE" /\ st.decision = "NONE"
        /\ candidate[c] # NoDir
        /\ candidate[c].packet = st.expected
        /\ ReceiptAllows(c, d)
        /\ candidate' = [candidate EXCEPT ![c].receipt = d]
        /\ op' = [step |-> "decide", cand |-> c,
                  mem |-> [st EXCEPT !.status = DecidedStatus(d), !.decision = d]]
        /\ UNCHANGED <<canonical, archive, registered, used, nextVersion,
                       recorded, faults>>

PersistDecision ==
    /\ Running("decide")
    /\ Persist(op.cand, op.mem)
    /\ PersistCopy(op.cand, op.mem)
    /\ Return
    /\ UNCHANGED <<archive, registered, used, nextVersion, recorded, faults>>

-----------------------------------------------------------------------------
(* fuse_refresh_candidate                                                  *)

\* mutant: a failed build is taken for a failed fuse
ResumableUnchecked(st) == st.status = "FAILED" /\ st.unchanged /\ st.preserved

\* A fuse that failed with everything put back may be tried again.
Resumable(st) ==
    st.status = "FAILED" /\ st.unchanged /\ st.preserved /\ st.fuseFailed

ApprovedByReceipt(c) == candidate[c].receipt = "APPROVE"   \* mutant: one of two

Approved(c) == Hist(c).decision = "APPROVE" /\ candidate[c].receipt = "APPROVE"

BaselineListed(c) == Hist(c).base \in canonical.versions   \* mutant: not compared

\* The brain is still the one the candidate was compared with.
BaselineUnchanged(c) ==
    Hist(c).base \in canonical.versions /\ canonical.snap = Hist(c).base.snap

StartFuse(c) ==
    LET st == Hist(c)
        fusing == [st EXCEPT !.status = "FUSING"]
    IN  /\ op = Idle /\ canonical # NoDir
        /\ nextVersion <= MaxVersions
        /\ st.status = "AWAITING_FUSE" \/ Resumable(st)
        /\ candidate[c] # NoDir
        /\ candidate[c].packet = st.expected
        /\ Approved(c) /\ BaselineUnchanged(c)
        /\ candidate[c].snap = st.expected
        /\ archive[c] = NoDir
        /\ Persist(c, fusing)
        /\ PersistCopy(c, fusing)
        /\ op' = [step |-> "archive", cand |-> c, mem |-> st]
        /\ UNCHANGED <<archive, registered, used, nextVersion, recorded, faults>>

\* mutant: the record does not look at the canonical path
FailFuseSure(live, there) ==
    /\ canonical' = [live EXCEPT !.hist[op.cand] =
           [op.mem EXCEPT !.status = "FAILED", !.unchanged = TRUE, !.fuseFailed = TRUE]]
    /\ PersistCopy(op.cand, op.mem)
    /\ Return

\* The except clause: the record says whether the canonical path holds a
\* directory (there), which is what it calls "verified brain unchanged".
FailFuse(live, there) ==
    LET st == [op.mem EXCEPT !.status = "FAILED", !.unchanged = there,
                             !.fuseFailed = TRUE, !.fused = 0,
                             !.preserved = candidate[op.cand] # NoDir]
    IN  /\ canonical' = [live EXCEPT !.hist[op.cand] = st]
        /\ PersistCopy(op.cand, st)
        /\ Return

\* mutant: the first rename is made outside the try
ArchiveOutsideTry ==
    /\ Running("archive")
    /\ \/ /\ archive' = [archive EXCEPT ![op.cand] = canonical]
          /\ canonical' = NoDir
          /\ GoTo("promote")
          /\ UNCHANGED faults
       \/ Fault /\ Return /\ UNCHANGED <<canonical, archive>>
    /\ UNCHANGED <<candidate, registered, used, nextVersion, recorded>>

ArchiveCanonical ==
    /\ Running("archive")
    /\ \/ /\ archive' = [archive EXCEPT ![op.cand] = canonical]
          /\ canonical' = NoDir
          /\ GoTo("promote")
          /\ UNCHANGED <<candidate, faults>>
       \/ /\ Fault
          /\ FailFuse(canonical, TRUE)
          /\ UNCHANGED archive
    /\ UNCHANGED <<registered, used, nextVersion, recorded>>

\* A rename onto a path that holds a directory fails as well.
PromoteCandidate ==
    /\ Running("promote")
    /\ \/ /\ canonical = NoDir
          /\ canonical' = candidate[op.cand]
          /\ candidate' = [candidate EXCEPT ![op.cand] = NoDir]
          /\ GoTo("capture")
          /\ UNCHANGED faults
       \/ /\ IF canonical = NoDir THEN Fault ELSE UNCHANGED faults
          /\ GoTo("restore")
          /\ UNCHANGED <<canonical, candidate>>
    /\ UNCHANGED <<archive, registered, used, nextVersion, recorded>>

\* The first rename is taken back.  The path may hold the shell a status read
\* made: then the archive stays where it is and the record goes to the shell.
RestoreArchive ==
    /\ Running("restore")
    /\ \/ /\ canonical = NoDir
          /\ FailFuse(archive[op.cand], TRUE)
          /\ archive' = [archive EXCEPT ![op.cand] = NoDir]
          /\ UNCHANGED faults
       \/ /\ IF canonical = NoDir THEN Fault ELSE UNCHANGED faults
          /\ FailFuse(Live, canonical # NoDir)
          /\ UNCHANGED archive
    /\ UNCHANGED <<registered, used, nextVersion, recorded>>

\* A step of the promoted brain fails: the exception leads to the undo.
Undo ==
    /\ Fault
    /\ GoTo("undoPromote")

CapturedUnchecked(v) == v \in Version   \* mutant: the capture is not compared

\* The new version must hold the snapshot that was reviewed.
CapturedAsReviewed(v) == v.snap = op.mem.expected

CaptureFused ==
    /\ Running("capture")
    /\ \/ /\ \E v \in Captures(canonical) :
               /\ canonical' = WithVersion(canonical, v)
               /\ op' = [op EXCEPT !.mem.fused = v.id,
                                   !.step = IF CapturedAsReviewed(v)
                                            THEN "commit" ELSE "undoPromote"]
          /\ nextVersion' = nextVersion + 1
          /\ UNCHANGED faults
       \/ /\ Undo
          /\ UNCHANGED <<canonical, nextVersion>>
    /\ UNCHANGED <<candidate, archive, registered, used, recorded>>

CommittedLater == registered   \* mutant: the commit is forgotten

CommittedSources == op.mem.accepted

\* mark_current_passing_build_good where there are public packages, then
\* source_commit: the accepted sources replace the registered ones.
CommitFused ==
    /\ Running("commit")
    /\ \E g \in {canonical.good, op.mem.fused} :
         canonical' = [canonical EXCEPT !.good = g]
    /\ \/ /\ registered' = CommittedSources
          /\ GoTo("finish")
          /\ UNCHANGED faults
       \/ Undo /\ UNCHANGED registered
    /\ UNCHANGED <<candidate, archive, used, nextVersion, recorded>>

\* The fusion receipt, the ledger event and the state FUSED.
FinishFuse ==
    /\ Running("finish")
    /\ \/ /\ Persist(op.cand, [op.mem EXCEPT !.status = "FUSED", !.unchanged = FALSE])
          /\ recorded' = recorded \cup
                {v \in canonical.versions : v.id = op.mem.fused}
          /\ Return
          /\ UNCHANGED faults
       \/ Undo /\ UNCHANGED <<canonical, recorded>>
    /\ UNCHANGED <<candidate, archive, registered, used, nextVersion>>

\* The promoted brain goes back to the candidate path.  A rename that fails
\* inside the except clause leaves the command, and nothing is recorded.
UndoPromote ==
    /\ Running("undoPromote")
    /\ \/ /\ candidate' = [candidate EXCEPT ![op.cand] = canonical]
          /\ canonical' = NoDir
          /\ GoTo("undoArchive")
          /\ UNCHANGED faults
       \/ /\ Fault
          /\ Return
          /\ UNCHANGED <<canonical, candidate>>
    /\ UNCHANGED <<archive, registered, used, nextVersion, recorded>>

UndoArchive ==
    /\ Running("undoArchive")
    /\ \/ /\ canonical = NoDir
          /\ FailFuse(archive[op.cand], TRUE)
          /\ archive' = [archive EXCEPT ![op.cand] = NoDir]
          /\ UNCHANGED faults
       \/ /\ IF canonical = NoDir THEN Fault ELSE UNCHANGED faults
          /\ Return
          /\ UNCHANGED <<canonical, candidate, archive>>
    /\ UNCHANGED <<registered, used, nextVersion, recorded>>

-----------------------------------------------------------------------------
(* Ending a candidate.                                                     *)

\* The candidate workspace is known only from the state: a state that is gone
\* leaves the directory behind.
Discard(c, status) ==
    LET st == Hist(c)
    IN  /\ op = Idle
        /\ candidate' = IF st.workspace THEN [candidate EXCEPT ![c] = NoDir]
                        ELSE candidate
        /\ Persist(c, [st EXCEPT !.status = status, !.unchanged = TRUE])
        /\ used' = used \cup {c}
        /\ UNCHANGED <<archive, registered, op, nextVersion, recorded, faults>>

\* drop_refresh_candidate
Drop(c) == Hist(c).status # "FUSED" /\ Discard(c, "DROPPED")

\* cancel_refresh_brain: a waiting candidate is dropped; a state that says the
\* build is running (only a crash leaves one: the build holds the lock) gets
\* the request flag.
Cancel(c) ==
    \/ Hist(c).status = "AWAITING_FUSE" /\ Drop(c)
    \/ /\ op = Idle
       /\ Hist(c).status \in {"REFRESHING", "TESTING"}
       /\ Persist(c, [Hist(c) EXCEPT !.cancel = TRUE])
       /\ UNCHANGED <<candidate, archive, registered, op, used, nextVersion,
                      recorded, faults>>

\* cleanup_unfused_refresh_candidate: a drop and a second record.
Cleanup(c) ==
    Hist(c).status \in ActiveCandidateStates /\ Discard(c, "TEMP_UNFUSED")

-----------------------------------------------------------------------------
(* The other commands and the surroundings.                                *)

\* brain.version.capture
CaptureVersion ==
    /\ op = Idle /\ canonical # NoDir
    /\ canonical.snap # Empty
    /\ nextVersion <= MaxVersions
    /\ \E v \in Captures(canonical) :
         /\ canonical' = WithVersion(canonical, v)
         /\ recorded' = recorded \cup {v}
    /\ nextVersion' = nextVersion + 1
    /\ UNCHANGED <<candidate, archive, registered, op, used, faults>>

\* brain.snapshot.markGood
MarkGood ==
    /\ op = Idle /\ canonical # NoDir
    /\ \E v \in canonical.versions :
         /\ IsLatest(canonical, v)
         /\ canonical' = [canonical EXCEPT !.good = v.id]
    /\ UNCHANGED <<candidate, archive, registered, op, used, nextVersion,
                   recorded, faults>>

\* buildAll writes the brain in place and captures a version last; a build
\* that fails in between leaves the content without a version.
Rebuild(s) ==
    /\ op = Idle /\ canonical # NoDir
    /\ canonical.snap # Empty
    /\ nextVersion <= MaxVersions
    /\ LET built == [canonical EXCEPT !.snap = s]
       IN  \/ \E v \in Captures(built) :
                /\ canonical' = WithVersion(built, v)
                /\ recorded' = recorded \cup {v}
                /\ nextVersion' = nextVersion + 1
           \/ /\ canonical' = built
              /\ UNCHANGED <<recorded, nextVersion>>
    /\ UNCHANGED <<candidate, archive, registered, op, used, faults>>

\* mutant: the version goes without a tombstone
DropVersionSilently(v) ==
    /\ op = Idle /\ canonical # NoDir
    /\ v \in canonical.versions /\ ~IsLatest(canonical, v)
    /\ canonical' = [canonical EXCEPT !.versions = @ \ {v}]
    /\ UNCHANGED <<candidate, archive, registered, op, used, nextVersion,
                   recorded, faults>>

\* drop_brain_version_to_recycle_bin: not the last version; a tombstone stays.
DropVersion(v) ==
    /\ op = Idle /\ canonical # NoDir
    /\ v \in canonical.versions /\ ~IsLatest(canonical, v)
    /\ canonical' = [canonical EXCEPT !.versions = @ \ {v}, !.dropped = @ \cup {v}]
    /\ UNCHANGED <<candidate, archive, registered, op, used, nextVersion,
                   recorded, faults>>

\* source.add and source.remove
Register(sources) ==
    /\ op = Idle
    /\ registered' = sources
    /\ UNCHANGED <<canonical, candidate, archive, op, used, nextVersion,
                   recorded, faults>>

\* Another process, or this one between commands, reads the refresh status.
StatusRead ==
    /\ op = Idle \/ ConcurrentReader
    /\ canonical = NoDir
    /\ canonical' = Shell
    /\ UNCHANGED <<candidate, archive, registered, op, used, nextVersion,
                   recorded, faults>>

\* Someone writes to a brain directory or a candidate outside the program.
OutsideEdit ==
    /\ faults.edit < MaxEdits
    /\ faults' = [faults EXCEPT !.edit = @ + 1]
    /\ \/ /\ canonical # NoDir
          /\ canonical.snap # Empty
          /\ canonical' = [canonical EXCEPT !.snap = Unverified]
          /\ UNCHANGED candidate
       \/ \E c \in Candidates :
            /\ candidate[c] # NoDir
            /\ candidate' = [candidate EXCEPT ![c].snap = Unverified]
            /\ UNCHANGED canonical
    /\ UNCHANGED <<archive, registered, op, used, nextVersion, recorded>>

\* The worker dies: the directories stay, the running command is lost.
Crash ==
    /\ op # Idle
    /\ faults.crash < MaxCrashes
    /\ faults' = [faults EXCEPT !.crash = @ + 1]
    /\ Return
    /\ UNCHANGED <<canonical, candidate, archive, registered, used, nextVersion,
                   recorded>>

-----------------------------------------------------------------------------
\* The steps of the command that holds the lock.
CommandStep ==
    \/ Materialize \/ FinishBuild \/ FailBuild
    \/ PersistDecision
    \/ ArchiveCanonical \/ PromoteCandidate \/ RestoreArchive
    \/ CaptureFused \/ CommitFused \/ FinishFuse
    \/ UndoPromote \/ UndoArchive

Request ==
    \/ \E c \in Candidates :
         \/ RefuseRefresh(c) \/ BeginRefresh(c)
         \/ \E old \in Candidates : Retry(old, c)
         \/ \E d \in Decisions : WriteReceipt(c, d)
         \/ StartFuse(c) \/ Drop(c) \/ Cancel(c) \/ Cleanup(c)
    \/ CaptureVersion \/ MarkGood
    \/ \E s \in Contents : Rebuild(s)
    \/ canonical # NoDir /\ \E v \in canonical.versions : DropVersion(v)
    \/ \E sources \in SUBSET Sources : Register(sources)

Next == CommandStep \/ Request \/ StatusRead \/ OutsideEdit \/ Crash

Spec == Init /\ [][Next]_vars

\* The worker runs the command it has accepted to its end.
FairSpec == Spec /\ WF_vars(CommandStep)

-----------------------------------------------------------------------------
(* Safety.                                                                 *)

\* The directories that are or were the brain.
BrainDirs == ({canonical} \cup {archive[c] : c \in Candidates}) \ {NoDir}

WasApproved(d) ==
    /\ d.receipt = "APPROVE"
    /\ d.hist[d.origin].decision = "APPROVE"
    /\ d.packet = d.hist[d.origin].expected

\* The human gate (README.md:47): a directory that was ever promoted, at the
\* canonical path or archived since, carries an APPROVE receipt and an APPROVE
\* in its state, for the review packet of exactly the snapshot its candidate
\* waited with.  It must survive crashes between the receipt and the state,
\* failed and resumed fuses, and candidates that share a baseline.
PromotedWasApproved ==
    \A d \in BrainDirs : d.origin # None => WasApproved(d)

\* A fuse that ended well captured, as its version, the content of the review
\* packet, whatever was edited outside the program between the checks and the
\* renames: the version is in the version store or has its tombstone there.
FusedVersionIsReviewed ==
    \A d \in BrainDirs : \A c \in Candidates :
        d.hist[c].status = "FUSED" =>
            \E v \in d.versions \cup d.dropped :
                v.id = d.hist[c].fused /\ v.snap = d.packet /\ d.origin = c

\* A fuse replaces the very brain the candidate was compared with: what it
\* archived has the content of the candidate's baseline, unless someone edited
\* the directory outside the program in the instant before the rename.  So of
\* two approved candidates of one baseline the second never overwrites the first.
FuseReplacesBaseline ==
    \A c \in Candidates : archive[c] # NoDir =>
        archive[c].snap \in {archive[c].hist[c].base.snap, Unverified}

\* No version that a command reported as captured is ever lost: after crashes,
\* failed renames, undone fuses and dropped candidates it is still in the
\* version store, or among the tombstones, of the brain or of an archived brain.
RecordedVersionsSurvive ==
    \A v \in recorded : \E d \in BrainDirs : v \in d.versions \cup d.dropped

\* A fuse that is recorded as failed with "verified brain unchanged" has not
\* left an empty brain at the canonical path.
FailedFuseKeepsBrain ==
    canonical # NoDir => \A c \in Candidates :
        LET st == canonical.hist[c]
        IN  st.status = "FAILED" /\ st.fuseFailed /\ st.unchanged
                => canonical.snap # Empty

\* A resumable fuse has all it needs: what it replaces is at the canonical path
\* and not in its archive, and the candidate is in place with its approval.
ResumeIsPossible ==
    (op = Idle /\ canonical # NoDir) => \A c \in Candidates :
        (Resumable(canonical.hist[c]) /\ canonical.snap # Empty) =>
            /\ archive[c] = NoDir
            /\ candidate[c] # NoDir
            /\ candidate[c].receipt = "APPROVE"

\* Once written, a decision receipt is never replaced by a different decision,
\* though a crash can lose the state that should have recorded it.
ReceiptIsFinal ==
    [][\A c \in Candidates :
         (candidate[c] # NoDir /\ candidate'[c] # NoDir) =>
             candidate[c].receipt \in {"NONE", candidate'[c].receipt}]_vars

\* The sources a fuse leaves registered are the ones its candidate was built
\* from, at the moment the fuse reports success.
FuseCommitsReviewedSources ==
    [][\A c \in Candidates :
         (Hist(c)'.status = "FUSED" /\ Hist(c).status # "FUSED" /\ c = op.cand) =>
             registered' = Hist(c)'.accepted]_vars

-----------------------------------------------------------------------------
(* Why the safety properties hold: what is true between the steps.         *)

\* The steps of a fuse before the promotion, after it, and after its undo.
Waiting  == {"archive", "promote", "restore"}
Promoted == {"capture", "commit", "finish", "undoPromote"}

\* Where the directories of the running command are.
DirsInPlace ==
    /\ Running("materialize") => candidate[op.cand] = NoDir
    /\ Running("build") => candidate[op.cand] # NoDir
    /\ Running("archive") => canonical # NoDir /\ archive[op.cand] = NoDir
    /\ op.step \in Waiting \cup {"undoArchive"} => candidate[op.cand] # NoDir
    /\ op.step \in Promoted => canonical # NoDir /\ candidate[op.cand] = NoDir
    /\ op.step \in (Promoted \cup {"promote", "restore", "undoArchive"}) =>
           archive[op.cand] # NoDir

\* A candidate id is one directory: a candidate in its place is no brain, and
\* what a running command builds or decides is not one yet.
OneDirectoryEach ==
    /\ \A c \in Candidates : candidate[c] # NoDir =>
           /\ c \in used
           /\ candidate[c].origin = c
           /\ \A d \in BrainDirs : d.origin # c
    /\ \A d \in BrainDirs : d.origin \in used \cup {None}
    /\ op.step \in {"materialize", "build", "decide"} =>
           \A d \in BrainDirs : d.origin # op.cand
    /\ op.step # "idle" => op.cand \in used
    /\ op.step \in Promoted =>
           /\ canonical.origin = op.cand
           /\ \A c \in Candidates :
                  archive[c] # NoDir => archive[c].origin # op.cand

\* The running fuse holds the approval in memory and in what it promotes.
FuseIsApproved ==
    /\ op.step \in Waiting =>
           /\ WasApproved(candidate[op.cand])
           /\ op.mem.expected = candidate[op.cand].packet
    /\ op.step \in Promoted => op.mem.expected = canonical.packet
    /\ op.step \in Waiting \cup Promoted => op.mem.decision = "APPROVE"

\* What a running fuse can still undo is in the archive already.
ArchiveHolds ==
    /\ Running("archive") =>
           canonical.snap \in {canonical.hist[op.cand].base.snap, Unverified}
    /\ op.step \in Promoted \cup {"promote", "restore", "undoArchive"} =>
           \A v \in recorded : \E c \in Candidates :
               archive[c] # NoDir /\ v \in archive[c].versions \cup archive[c].dropped

\* The inductive invariant of the proofs.  Beyond the three properties it says
\* which of the three paths each directory of a running fuse is at.
FuseInvariant ==
    /\ DirsInPlace /\ OneDirectoryEach /\ FuseIsApproved /\ ArchiveHolds
    /\ PromotedWasApproved /\ FuseReplacesBaseline /\ RecordedVersionsSurvive

\* What a fuse needs to be tried again.
CanResume(c) ==
    archive[c] = NoDir /\ candidate[c] # NoDir /\ candidate[c].receipt = "APPROVE"

\* A brain with content can resume every fuse it says is resumable.
ResumesIn(d) ==
    d.snap # Empty => \A c \in Candidates : Resumable(d.hist[c]) => CanResume(c)

\* The part of FusedVersionIsReviewed that is about one directory, and no
\* version of it was captured from an empty directory.
BrainSound(d) ==
    /\ \A v \in d.versions : v.snap # Empty
    /\ \A c \in Candidates : d.hist[c].status = "FUSED" =>
           \E v \in d.versions \cup d.dropped :
               v.id = d.hist[c].fused /\ v.snap = d.packet /\ d.origin = c

\* A candidate holds a brain, and knows of no fuse that ended but, when it
\* failed, its own.
CandidateSound(c, d) ==
    /\ d.snap # Empty
    /\ \A v \in d.versions : v.snap # Empty
    /\ \A e \in Candidates : d.hist[e].status # "FUSED"
    /\ \A e \in Candidates \ {c} : d.hist[e].status # "FAILED"

\* The directories, whatever command runs.
DirsSound ==
    /\ \A d \in BrainDirs : BrainSound(d)
    /\ \A c \in Candidates :
           /\ candidate[c] # NoDir => CandidateSound(c, candidate[c])
           /\ archive[c] # NoDir => archive[c].snap # Empty
    /\ canonical # NoDir => ResumesIn(canonical)
    /\ ~ConcurrentReader => FailedFuseKeepsBrain

\* What the running command holds in memory: a build has not failed in a fuse,
\* a decision is no failure, and a fuse that is about to succeed has captured
\* the reviewed version and registered the sources.
MemorySound ==
    /\ op.mem.status # "FUSED"
    /\ Running("materialize") => op.mem.base.snap # Empty
    /\ op.step \in {"materialize", "build"} => ~op.mem.fuseFailed
    /\ Running("decide") => op.mem.status # "FAILED"
    /\ op.step \in {"commit", "finish"} =>
           \E v \in canonical.versions :
               v.id = op.mem.fused /\ v.snap = op.mem.expected
    /\ Running("finish") => registered = op.mem.accepted

\* What the running fuse moves: no brain it has to put back is empty, none says
\* that this fuse has failed, and only the shell a reader made is in the way.
FuseSound ==
    /\ Running("archive") =>
           canonical.snap # Empty /\ canonical.hist[op.cand].status # "FAILED"
    /\ op.step \in Waiting => candidate[op.cand].hist[op.cand].status # "FAILED"
    /\ op.step \in Promoted =>
           /\ canonical.snap # Empty
           /\ \A e \in Candidates : canonical.hist[e].status \notin {"FAILED", "FUSED"}
    /\ op.step \in Promoted \cup {"promote", "restore", "undoArchive"} =>
           /\ archive[op.cand].hist[op.cand].status # "FAILED"
           /\ \A e \in Candidates \ {op.cand} :
                  Resumable(archive[op.cand].hist[e]) => CanResume(e)
    /\ op.step \in {"promote", "restore", "undoArchive"} =>
           \/ canonical = NoDir
           \/ ConcurrentReader /\ canonical.snap = Empty
    /\ Running("undoArchive") => candidate[op.cand].receipt = "APPROVE"

\* The inductive invariant of the proofs about how a fuse ends.
RecoveryInvariant == DirsSound /\ MemorySound /\ FuseSound

-----------------------------------------------------------------------------
(* Liveness.                                                               *)

\* A fuse that has begun ends with a record that says so, FUSED or FAILED, as
\* long as the worker keeps running and at most one thing goes wrong, a failing
\* system call or an outside edit: the second one can hit the undo of the first,
\* which then leaves FUSING behind for good.
FuseResolves ==
    \A c \in Candidates :
        (Hist(c).status = "FUSING") ~>
            \/ Hist(c).status \in {"FUSED", "FAILED"}
            \/ faults.fail + faults.edit > 1 \/ faults.crash > 0

-----------------------------------------------------------------------------
(* What the tests and comments say and the code does not do.               *)

\* test_t023_refresh_brain_all_lane_double_replay.py:420 takes a dropped
\* candidate to mean that the verified brain is unchanged.
DroppedWasNotPromoted ==
    canonical # NoDir => \A c \in Candidates :
        canonical.hist[c].status = "DROPPED" => canonical.origin # c

\* brain_versions.py:447-449: a signed tombstone remains in the manifest.
TombstonesRemain ==
    canonical # NoDir => \A c \in Candidates :
        (canonical.origin = c /\ canonical.hist[c].status = "FUSED") =>
            archive[c].dropped \subseteq canonical.dropped

==============================================================================
