---------------------------- MODULE RefreshTruth ----------------------------
(***************************************************************************)
(* What a refresh says has changed (refresh_delta_truth.py).               *)
(*                                                                         *)
(* A refresh first takes the state of a source folder: with git the        *)
(* changes that are not staged, those that are, the files git does not     *)
(* know and, when there are none, the commits since the last refresh;      *)
(* without git the hashes of the files.  A candidate then indexes the      *)
(* folder.  At the end the changes taken first and the difference of the   *)
(* two indexes are put together, each changed file is validated where it   *)
(* is, and gets a colour.  The owner of the folder works on it meanwhile.  *)
(***************************************************************************)
EXTENDS Naturals

CONSTANTS
    Paths,          \* paths of files of the folder
    CodeContents,   \* what a file may hold
    Broken,         \* contents that fail the validation of their file
    Checked,        \* paths of a kind of file that has a validation
    Importing,      \* contents that have a relation to another file
    Gone,           \* no file
    Same,           \* no change
    MaxTreeEdits,   \* bound: edits of the folder, stagings and commits
    MaxRefreshes    \* bound: refreshes

Kinds == {"ADDED", "DELETED", "MODIFIED", "RENAMED"}

ASSUME TruthAssumption ==
    /\ Broken \subseteq CodeContents /\ Importing \subseteq CodeContents
    /\ Checked \subseteq Paths
    /\ Gone \notin CodeContents
    /\ Same \notin Paths \cup Kinds \cup {"GREEN", "RED", "NEUTRAL"}
    /\ MaxTreeEdits \in Nat /\ MaxRefreshes \in Nat

FolderTrees == [Paths -> CodeContents \cup {Gone}]

\* A commit, known by its number; 0 is the one the folder began with.
FolderCommits == [n : 0..MaxTreeEdits, tree : FolderTrees]

-----------------------------------------------------------------------------
VARIABLES
    git,         \* the folder has a repository
    worktree,    \* the files
    staging,     \* the index of git
    headCommit,  \* its last commit
    treeEdits,   \* the edits so far
    baseline,    \* the index of the brain, and the commit it was made at
    candidate,   \* the index of the candidate, and its commit
    taken,       \* the change of each file as it was taken first
    overlay,     \* the row of each file, and of the relation it has
    refreshStep, \* where the running refresh is
    refreshHead, \* the commit it found
    refreshes,   \* the refreshes so far
    touched      \* history: files worked on since the refresh began

truthVars == <<git, worktree, staging, headCommit, treeEdits, baseline, candidate, taken,
               overlay, refreshStep, refreshHead, refreshes, touched>>

folder == <<git, worktree, staging, headCommit, treeEdits, touched>>

RefreshSteps == {"idle", "unstaged", "staged", "untracked", "commits", "hashes", "ingest",
                 "overlay", "review"}

NoChange == [kind |-> Same, from |-> Same]
Changes == [kind : Kinds, from : Paths \cup {Same}] \cup {NoChange}
Colours == {"GREEN", "RED", "NEUTRAL", Same}
Rows == [kind : Kinds \cup {Same}, truth : Colours, edge : Colours]
NoRowAtAll == [kind |-> Same, truth |-> Same, edge |-> Same]

TruthTypeOK ==
    /\ git \in BOOLEAN
    /\ worktree \in FolderTrees /\ staging \in FolderTrees /\ headCommit \in FolderCommits
    /\ treeEdits \in 0..MaxTreeEdits
    /\ baseline \in FolderCommits /\ candidate \in FolderCommits
    /\ taken \in [Paths -> Changes]
    /\ overlay \in [Paths -> Rows]
    /\ refreshStep \in RefreshSteps /\ refreshHead \in FolderCommits
    /\ refreshes \in 0..MaxRefreshes
    /\ touched \subseteq Paths

\* Folders with one file.
OneFile == {[q \in Paths |-> IF q = p THEN c ELSE Gone] :
                p \in Paths, c \in CodeContents \ Broken}

\* A folder that was indexed as it is, all of it committed.
TruthInit ==
    /\ git \in BOOLEAN
    /\ worktree \in OneFile
    /\ staging = worktree
    /\ headCommit = [n |-> 0, tree |-> worktree]
    /\ treeEdits = 0
    /\ baseline = headCommit /\ candidate = headCommit /\ refreshHead = headCommit
    /\ taken = [p \in Paths |-> NoChange]
    /\ overlay = [p \in Paths |-> NoRowAtAll]
    /\ refreshStep = "idle" /\ refreshes = 0
    /\ touched = {}

-----------------------------------------------------------------------------
(* The folder.                                                             *)

EditTree ==
    /\ treeEdits < MaxTreeEdits
    /\ treeEdits' = treeEdits + 1
    /\ UNCHANGED <<git, baseline, candidate, taken, overlay, refreshStep, refreshHead,
                   refreshes>>

EditFile(p, c) ==
    /\ worktree[p] # c
    /\ EditTree
    /\ worktree' = [worktree EXCEPT ![p] = c]
    /\ touched' = touched \cup {p}
    /\ UNCHANGED <<staging, headCommit>>

StageFile(p) ==
    /\ git
    /\ staging[p] # worktree[p]
    /\ EditTree
    /\ staging' = [staging EXCEPT ![p] = worktree[p]]
    /\ touched' = touched \cup {p}
    /\ UNCHANGED <<worktree, headCommit>>

CommitStaged ==
    /\ git
    /\ staging # headCommit.tree
    /\ EditTree
    /\ headCommit' = [n |-> treeEdits', tree |-> staging]
    /\ touched' = touched \cup {p \in Paths : staging[p] # headCommit.tree[p]}
    /\ UNCHANGED <<worktree, staging>>

-----------------------------------------------------------------------------
(* The difference of two trees.                                            *)

Deleted(a, b) == {p \in Paths : a[p] # Gone /\ b[p] = Gone}
Added(a, b) == {p \in Paths : a[p] = Gone /\ b[p] # Gone}

\* A file that went and one that came with the same content, when it is clear which.
IsRename(a, b, old, new) ==
    /\ old \in Deleted(a, b) /\ new \in Added(a, b)
    /\ {p \in Deleted(a, b) : a[p] = a[old]} = {old}
    /\ {p \in Added(a, b) : b[p] = a[old]} = {new}

\* The change of one file.  What a file was renamed from has none of its own.
ChangeOf(a, b, p) ==
    CASE \E old \in Paths : IsRename(a, b, old, p) ->
             [kind |-> "RENAMED", from |-> CHOOSE old \in Paths : IsRename(a, b, old, p)]
      [] p \in Added(a, b) /\ (\A old \in Paths : ~IsRename(a, b, old, p)) ->
             [kind |-> "ADDED", from |-> Same]
      [] p \in Deleted(a, b) /\ (\A new \in Paths : ~IsRename(a, b, p, new)) ->
             [kind |-> "DELETED", from |-> Same]
      [] a[p] # Gone /\ b[p] # Gone /\ a[p] # b[p] ->
             [kind |-> "MODIFIED", from |-> Same]
      [] OTHER -> NoChange

ChangesOf(a, b) == [p \in Paths |-> ChangeOf(a, b, p)]

\* A later list overrides an earlier one.
Over(earlier, later) ==
    [p \in Paths |-> IF later[p] # NoChange THEN later[p] ELSE earlier[p]]

-----------------------------------------------------------------------------
(* The state of the source.                                                *)

StartTruth ==
    /\ refreshStep = "idle"
    /\ refreshes < MaxRefreshes
    /\ refreshes' = refreshes + 1
    /\ refreshStep' = IF git THEN "unstaged" ELSE "hashes"
    /\ refreshHead' = headCommit
    /\ taken' = [p \in Paths |-> NoChange]
    /\ overlay' = [p \in Paths |-> NoRowAtAll]
    /\ touched' = {}
    /\ UNCHANGED <<git, worktree, staging, headCommit, treeEdits, baseline, candidate>>

Take(step, changes, next) ==
    /\ refreshStep = step
    /\ taken' = changes
    /\ refreshStep' = next
    /\ UNCHANGED <<folder, baseline, candidate, overlay, refreshHead, refreshes>>

\* Files git knows: gone, or not what was staged.
UnstagedChanges ==
    [p \in Paths |->
        IF staging[p] = Gone \/ staging[p] = worktree[p] THEN NoChange
        ELSE [kind |-> IF worktree[p] = Gone THEN "DELETED" ELSE "MODIFIED", from |-> Same]]

StagedChanges == ChangesOf(headCommit.tree, staging)

UntrackedChanges ==
    [p \in Paths |->
        IF staging[p] = Gone /\ worktree[p] # Gone THEN [kind |-> "ADDED", from |-> Same]
        ELSE NoChange]

CommittedChanges == ChangesOf(baseline.tree, refreshHead.tree)

TakeUnstaged == Take("unstaged", Over(taken, UnstagedChanges), "staged")
TakeStaged == Take("staged", Over(taken, StagedChanges), "untracked")
TakeUntracked == Take("untracked", Over(taken, UntrackedChanges), "commits")

\* Commits count when the folder is clean.
Clean == taken = [p \in Paths |-> NoChange]

TakeCommits ==
    Take("commits",
         IF Clean /\ refreshHead.n # baseline.n THEN Over(taken, CommittedChanges) ELSE taken,
         "ingest")

HashChanges == ChangesOf(baseline.tree, worktree)

TakeHashes == Take("hashes", Over(taken, HashChanges), "ingest")

\* The candidate indexes the folder as it is by now.
IndexCandidate ==
    /\ refreshStep = "ingest"
    /\ candidate' = [n |-> headCommit.n, tree |-> worktree]
    /\ refreshStep' = "overlay"
    /\ UNCHANGED <<folder, baseline, taken, overlay, refreshHead, refreshes>>

-----------------------------------------------------------------------------
(* The truth.                                                              *)

\* The difference of the two indexes, which knows no renames.
IndexChange(p) ==
    CASE baseline.tree[p] = candidate.tree[p] -> Same
      [] baseline.tree[p] # Gone /\ candidate.tree[p] = Gone -> "DELETED"
      [] baseline.tree[p] = Gone /\ candidate.tree[p] # Gone -> "ADDED"
      [] OTHER -> "MODIFIED"

\* What was taken first comes before what the indexes tell.
TakenKind(p) == taken[p].kind
KindOf(p) == IF taken[p].kind # Same THEN taken[p].kind ELSE IndexChange(p)

\* A deletion is valid as it is; a file is validated where it is now.
Validation(p) ==
    CASE KindOf(p) = "DELETED" -> "PASS"
      [] KindOf(p) # "DELETED" /\ (p \notin Checked \/ worktree[p] = Gone) ->
             "REVIEW_REQUIRED"
      [] OTHER -> IF worktree[p] \in Broken THEN "FAIL" ELSE "PASS"

Truth(p) ==
    CASE KindOf(p) = Same -> Same
      [] KindOf(p) = "DELETED" \/ Validation(p) = "FAIL" -> "RED"
      [] KindOf(p) \notin {Same, "DELETED"} /\ Validation(p) = "PASS" -> "GREEN"
      [] OTHER -> "NEUTRAL"

\* A path with a row, and one a file was renamed from.
Impacted(p) == KindOf(p) # Same \/ (\E q \in Paths : taken[q].from = p)

\* A relation that came has the colour of its file, one that went is red.
EdgeTruth(p) ==
    LET before == baseline.tree[p] \in Importing
        after == candidate.tree[p] \in Importing
    IN CASE before /\ ~after -> "RED"
         [] ~before /\ after -> IF Truth(p) \in {"GREEN", "RED"} THEN Truth(p)
                                ELSE "NEUTRAL"
         [] before /\ after /\ Impacted(p) -> "NEUTRAL"
         [] OTHER -> Same

BuildOverlay ==
    /\ refreshStep = "overlay"
    /\ overlay' = [p \in Paths |-> [kind |-> KindOf(p), truth |-> Truth(p),
                                    edge |-> EdgeTruth(p)]]
    /\ refreshStep' = "review"
    /\ UNCHANGED <<folder, baseline, candidate, taken, refreshHead, refreshes>>

\* The candidate is fused, or it is not.
DecideFuse(fused) ==
    /\ refreshStep = "review"
    /\ baseline' = IF fused THEN candidate ELSE baseline
    /\ refreshStep' = "idle"
    /\ overlay' = [p \in Paths |-> NoRowAtAll]
    /\ UNCHANGED <<folder, candidate, taken, refreshHead, refreshes>>

-----------------------------------------------------------------------------
TruthNext ==
    \/ \E p \in Paths : \/ StageFile(p)
                        \/ \E c \in CodeContents \cup {Gone} : EditFile(p, c)
    \/ CommitStaged
    \/ StartTruth \/ TakeUnstaged \/ TakeStaged \/ TakeUntracked \/ TakeCommits
    \/ TakeHashes \/ IndexCandidate \/ BuildOverlay
    \/ \E fused \in BOOLEAN : DecideFuse(fused)

TruthSpec == TruthInit /\ [][TruthNext]_truthVars

-----------------------------------------------------------------------------
InReview == refreshStep = "review"

\* Every file the candidate has otherwise than the brain has a row, whatever git said and
\* whoever worked on the folder: a reviewer sees all that a fuse would change.
DifferencesAreShown ==
    InReview => \A p \in Paths :
        baseline.tree[p] # candidate.tree[p] => overlay[p].kind # Same

\* A green file is in the candidate and passes its validation, and so does one with a
\* green relation; unless it was worked on after the refresh began.
GreenIsValid ==
    InReview => \A p \in Paths \ touched :
        "GREEN" \in {overlay[p].truth, overlay[p].edge} =>
            candidate.tree[p] \in CodeContents \ Broken

\* A red file is not in the candidate, or fails, with the same exception.
RedHasReason ==
    InReview => \A p \in Paths \ touched :
        overlay[p].truth = "RED" => candidate.tree[p] \in Broken \cup {Gone}

\* A file that is said to be deleted is gone; without git the converse holds too.  (With
\* git a file staged one way and removed since is told as it was staged.)
DeletedIsGone ==
    InReview => \A p \in Paths \ touched :
        /\ overlay[p].kind = "DELETED" => candidate.tree[p] = Gone
        /\ ~git /\ overlay[p].kind # Same /\ candidate.tree[p] = Gone =>
               overlay[p].kind = "DELETED"

OverlayIsTrue == DifferencesAreShown /\ GreenIsValid /\ RedHasReason /\ DeletedIsGone
===============================================================================
