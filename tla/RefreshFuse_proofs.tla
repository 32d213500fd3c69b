--------------------------- MODULE RefreshFuse_proofs ---------------------------
(***************************************************************************)
(* Proofs about RefreshFuse for every set of candidates, sources and       *)
(* contents and every bound.                                               *)
(***************************************************************************)
EXTENDS RefreshFuse, TLAPS

-----------------------------------------------------------------------------
(* The records.                                                            *)

\* The first version and the records a directory starts with are well-typed.
LEMMA FirstRecords ==
    /\ NotStarted \in State
    /\ Shell \in Dir
    /\ First \in Version
    /\ Idle \in [step : Steps, cand : Candidates \cup {None}, mem : State]
<1>1. First \in Version /\ NoVersion \in Version
  BY NamesDiffer DEF First, NoVersion, Version, AnyContent
<1>2. NotStarted \in State
  BY <1>1 DEF NotStarted, State, Statuses, AnyContent
<1>3. Shell \in Dir
  BY <1>2 DEF Shell, Dir, AnyContent
<1>4. QED
  BY <1>1, <1>2, <1>3 DEF Idle, Steps

\* Recording the state of one candidate leaves a directory that differs in
\* that state only.
LEMMA HistUpdate ==
    ASSUME NEW d \in Dir, NEW c \in Candidates, NEW st \in State
    PROVE  LET e == [d EXCEPT !.hist[c] = st]
           IN  /\ e \in Dir
               /\ e.snap = d.snap /\ e.versions = d.versions
               /\ e.dropped = d.dropped /\ e.good = d.good
               /\ e.packet = d.packet /\ e.receipt = d.receipt
               /\ e.origin = d.origin
               /\ e.hist[c] = st
               /\ \A o \in Candidates \ {c} : e.hist[o] = d.hist[o]
  BY DEF Dir

\* A capture writes one well-typed version, and recording it keeps the type.
LEMMA CaptureTypes ==
    ASSUME NEW d \in Dir, nextVersion \in Nat
    PROVE  /\ Captures(d) \subseteq Version
           /\ \A v \in Captures(d) : v.snap = d.snap /\ v.id = nextVersion
           /\ \A v \in Version :
                 /\ WithVersion(d, v) \in Dir
                 /\ WithVersion(d, v) = [d EXCEPT !.versions = d.versions \cup {v}]
<1>1. d.snap \in AnyContent /\ \A v \in d.versions : v.id \in Nat
  BY DEF Dir, Version
<1>2. Captures(d) \subseteq Version
  BY <1>1 DEF Captures, Version
<1>3. \A v \in Captures(d) : v.snap = d.snap /\ v.id = nextVersion
  BY DEF Captures
<1>4. ASSUME NEW v \in Version
      PROVE  /\ WithVersion(d, v) \in Dir
             /\ WithVersion(d, v) = [d EXCEPT !.versions = d.versions \cup {v}]
  BY DEF WithVersion, Dir
<1>5. QED
  BY <1>2, <1>3, <1>4

-----------------------------------------------------------------------------
(* Type correctness.                                                       *)

\* What the type invariant gives every step.
LEMMA TypedReads ==
    ASSUME TypeOK
    PROVE  /\ Live \in Dir
           /\ \A c \in Candidates : Hist(c) \in State
           /\ op.mem \in State /\ op.step \in Steps
           /\ NoDir \notin Dir
           /\ canonical # NoDir => canonical \in Dir /\ Live = canonical
           /\ \A c \in Candidates :
                 /\ candidate[c] # NoDir => candidate[c] \in Dir
                 /\ archive[c] # NoDir => archive[c] \in Dir
  BY FirstRecords, NoDirIsNoDirectory DEF TypeOK, Live, MaybeDir, Hist, Dir

\* Writing a state down keeps the two maps of directories typed.
LEMMA TypedWrites ==
    ASSUME TypeOK, NEW c \in Candidates, NEW st \in State
    PROVE  /\ Persist(c, st) => canonical' \in Dir
           /\ PersistCopy(c, st) => candidate' \in [Candidates -> MaybeDir]
<1>1. Persist(c, st) => canonical' \in Dir
  BY TypedReads, HistUpdate DEF Persist
<1>2. CASE candidate[c] = NoDir
  BY <1>1, <1>2 DEF PersistCopy, TypeOK
<1>3. CASE candidate[c] # NoDir
  BY <1>3, TypedReads, HistUpdate, <1>1 DEF PersistCopy, TypeOK, MaybeDir
<1>4. QED
  BY <1>2, <1>3

\* The record of a failed fuse keeps the types.
LEMMA TypedFailure ==
    ASSUME TypeOK, op.cand \in Candidates,
           NEW live \in Dir, NEW there \in BOOLEAN, FailFuse(live, there)
    PROVE  /\ canonical' \in Dir
           /\ candidate' \in [Candidates -> MaybeDir]
           /\ op' = Idle
<1> DEFINE st == [op.mem EXCEPT !.status = "FAILED", !.unchanged = there,
                               !.fuseFailed = TRUE, !.fused = 0,
                               !.preserved = candidate[op.cand] # NoDir]
<1>1. st \in State
  BY ZenonT(60), TypedReads DEF State, Statuses
<1>2. /\ canonical' = [live EXCEPT !.hist[op.cand] = st]
      /\ PersistCopy(op.cand, st)
      /\ op' = Idle
  BY DEF FailFuse, Return
<1>3. QED
  BY <1>1, <1>2, HistUpdate, TypedWrites

\* The actions that begin, build, decide or end a candidate keep the types.
LEMMA TypedRequests ==
    ASSUME TypeOK, DirsInPlace, NEW c \in Candidates
    PROVE  /\ RefuseRefresh(c) \/ BeginRefresh(c) => TypeOK'
           /\ StartFuse(c) => TypeOK'
           /\ \A d \in Decisions : WriteReceipt(c, d) => TypeOK'
           /\ Drop(c) \/ Cancel(c) \/ Cleanup(c) => TypeOK'
<1> USE TypedReads, TypedWrites
<1>1. ASSUME RefuseRefresh(c) PROVE TypeOK'
  <2>1. PICK b \in canonical.versions, s \in {"QUARANTINED", "FAILED", "NO_CHANGE"} :
          Persist(c, [NotStarted EXCEPT !.status = s, !.base = b, !.unchanged = TRUE])
    BY <1>1 DEF RefuseRefresh
  <2>2. b \in Version
    BY <1>1 DEF RefuseRefresh, Dir
  <2>3. [NotStarted EXCEPT !.status = s, !.base = b, !.unchanged = TRUE] \in State
    BY <2>2, FirstRecords DEF State, Statuses
  <2>4. canonical' \in Dir
    BY <2>1, <2>3
  <2>5. QED
    BY <1>1, <2>4 DEF RefuseRefresh, TypeOK, MaybeDir
<1>2. ASSUME BeginRefresh(c) PROVE TypeOK'
  <2> DEFINE st(b) == [NotStarted EXCEPT !.status = "REFRESHING", !.base = b,
                                         !.accepted = registered,
                                         !.unchanged = TRUE, !.workspace = TRUE]
  <2>1. PICK b \in canonical.versions :
          /\ Persist(c, st(b))
          /\ op' = [step |-> "materialize", cand |-> c, mem |-> st(b)]
    BY <1>2 DEF BeginRefresh
  <2>2. b \in Version
    BY <1>2 DEF BeginRefresh, Dir
  <2>3. st(b) \in State
    BY <2>2, FirstRecords DEF State, Statuses, TypeOK
  <2>4. canonical' \in Dir
    BY <2>1, <2>3
  <2>5. op' \in [step : Steps, cand : Candidates \cup {None}, mem : State]
    BY <2>1, <2>3 DEF Steps
  <2>6. op'.cand \in Candidates
    BY <2>1
  <2>7. QED
    BY <1>2, <2>4, <2>5, <2>6 DEF BeginRefresh, TypeOK, MaybeDir
<1>3. ASSUME StartFuse(c) PROVE TypeOK'
  <2> DEFINE fusing == [Hist(c) EXCEPT !.status = "FUSING"]
  <2>1. fusing \in State
    BY DEF State, Statuses
  <2>2. canonical' \in Dir /\ candidate' \in [Candidates -> MaybeDir]
    BY <1>3, <2>1 DEF StartFuse
  <2>3. op' = [step |-> "archive", cand |-> c, mem |-> Hist(c)]
    BY <1>3 DEF StartFuse
  <2>4. QED
    BY <1>3, <2>2, <2>3 DEF StartFuse, TypeOK, MaybeDir, Steps
<1>4. ASSUME NEW d \in Decisions, WriteReceipt(c, d) PROVE TypeOK'
  <2> DEFINE st == [Hist(c) EXCEPT !.status = DecidedStatus(d), !.decision = d]
  <2>1. st \in State
    BY DEF State, Statuses, DecidedStatus, Decisions
  <2>2. /\ candidate[c] \in Dir
        /\ candidate' = [candidate EXCEPT ![c].receipt = d]
        /\ op' = [step |-> "decide", cand |-> c, mem |-> st]
    BY <1>4 DEF WriteReceipt
  <2>3. [candidate[c] EXCEPT !.receipt = d] \in Dir
    BY <2>2 DEF Dir
  <2>4. candidate' \in [Candidates -> MaybeDir]
    BY <2>2, <2>3 DEF TypeOK, MaybeDir
  <2>5. op' \in [step : Steps, cand : Candidates \cup {None}, mem : State]
    BY <2>1, <2>2 DEF Steps
  <2>6. QED
    BY <1>4, <2>2, <2>4, <2>5 DEF WriteReceipt, TypeOK
<1>5. ASSUME NEW s \in Statuses, Discard(c, s) PROVE TypeOK'
  <2>1. [Hist(c) EXCEPT !.status = s, !.unchanged = TRUE] \in State
    BY DEF State
  <2>2. canonical' \in Dir
    BY <1>5, <2>1 DEF Discard
  <2>3. candidate' \in [Candidates -> MaybeDir]
    BY <1>5 DEF Discard, TypeOK, MaybeDir
  <2>4. QED
    BY <1>5, <2>2, <2>3 DEF Discard, TypeOK, MaybeDir
<1>6. ASSUME Cancel(c) PROVE TypeOK'
  <2>1. CASE Drop(c)
    BY <1>5, <2>1 DEF Drop, Statuses
  <2>2. CASE Persist(c, [Hist(c) EXCEPT !.cancel = TRUE]) /\ op = Idle
    <3>1. [Hist(c) EXCEPT !.cancel = TRUE] \in State
      BY DEF State
    <3>2. canonical' \in Dir
      BY <2>2, <3>1
    <3>3. QED
      BY <1>5, <1>6, <3>2 DEF Cancel, Drop, Statuses, TypeOK, MaybeDir
  <2>3. QED
    BY <1>6, <2>1, <2>2 DEF Cancel
<1>7. QED
  BY <1>1, <1>2, <1>3, <1>4, <1>5, <1>6 DEF Drop, Cleanup, Statuses

\* The steps of a build and of a decision keep the types.
LEMMA TypedBuild ==
    ASSUME TypeOK, DirsInPlace
    PROVE  Materialize \/ FinishBuild \/ FailBuild \/ PersistDecision => TypeOK'
<1> USE TypedReads, TypedWrites
<1>1. ASSUME Materialize PROVE TypeOK'
  <2> DEFINE st == [op.mem EXCEPT !.status = "TESTING"]
             new == [Shell EXCEPT !.snap = op.mem.base.snap,
                                  !.versions = Live.versions,
                                  !.dropped = Live.dropped,
                                  !.good = Live.good, !.origin = op.cand]
  <2>1. op.cand \in Candidates
    BY <1>1 DEF Materialize, Running, TypeOK
  <2>2. st \in State
    BY DEF State, Statuses
  <2>3. op.mem.base.snap \in AnyContent
    BY DEF State, Version
  <2>4. new \in Dir
    BY <2>1, <2>3, FirstRecords DEF Dir
  <2>5. /\ candidate' = [candidate EXCEPT ![op.cand] = new]
        /\ Persist(op.cand, st)
        /\ op' = [op EXCEPT !.step = "build", !.mem = st]
    BY <1>1 DEF Materialize
  <2>6. candidate' \in [Candidates -> MaybeDir]
    BY <2>4, <2>5 DEF TypeOK, MaybeDir
  <2>7. op' \in [step : Steps, cand : Candidates \cup {None}, mem : State]
    BY <2>2, <2>5 DEF Steps, TypeOK
  <2>8. op'.cand \in Candidates /\ canonical' \in Dir
    BY <2>1, <2>2, <2>5 DEF TypeOK
  <2>9. QED
    BY <1>1, <2>6, <2>7, <2>8 DEF Materialize, TypeOK, MaybeDir
<1>2. ASSUME FinishBuild PROVE TypeOK'
  <2> DEFINE st(s) == [op.mem EXCEPT !.status = "AWAITING_FUSE", !.expected = s]
             same == [op.mem EXCEPT !.status = "NO_CHANGE"]
             built(s) == [candidate[op.cand] EXCEPT !.snap = s, !.packet = s,
                                                    !.hist[op.cand] = st(s)]
  <2>1. op.cand \in Candidates /\ candidate[op.cand] \in Dir
    BY <1>2 DEF FinishBuild, Running, TypeOK, DirsInPlace
  <2>2. PICK s \in Contents :
          \/ /\ Persist(op.cand, same)
             /\ candidate' = [candidate EXCEPT ![op.cand] = NoDir]
          \/ /\ Persist(op.cand, st(s))
             /\ candidate' = [candidate EXCEPT ![op.cand] = built(s)]
    BY <1>2 DEF FinishBuild
  <2>3. same \in State /\ st(s) \in State
    BY DEF State, Statuses, AnyContent
  <2>4. built(s) \in Dir
    BY <2>1, <2>3 DEF Dir, AnyContent
  <2>5. canonical' \in Dir
    BY <2>1, <2>2, <2>3
  <2>6. candidate' \in [Candidates -> MaybeDir]
    BY <2>1, <2>2, <2>4 DEF TypeOK, MaybeDir
  <2>7. QED
    BY <1>2, <2>5, <2>6, FirstRecords DEF FinishBuild, Return, TypeOK, MaybeDir, Idle
<1>3. ASSUME FailBuild PROVE TypeOK'
  <2> DEFINE made == candidate[op.cand] # NoDir
             st == [op.mem EXCEPT !.status = "FAILED", !.preserved = made]
             kept == [candidate[op.cand] EXCEPT !.snap = Unverified,
                                                !.hist[op.cand] = st]
  <2>1. op.cand \in Candidates
    BY <1>3 DEF FailBuild, TypeOK
  <2>2. st \in State
    BY DEF State, Statuses
  <2>3. /\ Persist(op.cand, st)
        /\ candidate' = IF ~made THEN candidate
                         ELSE [candidate EXCEPT ![op.cand] = kept]
    BY <1>3 DEF FailBuild
  <2>4. made => kept \in Dir
    BY <2>1, <2>2 DEF Dir, AnyContent
  <2>5. candidate' \in [Candidates -> MaybeDir]
    BY <2>3, <2>4 DEF TypeOK, MaybeDir
  <2>6. canonical' \in Dir
    BY <2>1, <2>2, <2>3
  <2>7. QED
    BY <1>3, <2>5, <2>6, FirstRecords DEF FailBuild, Return, TypeOK, MaybeDir, Idle
<1>4. ASSUME PersistDecision PROVE TypeOK'
  BY <1>4, FirstRecords DEF PersistDecision, Running, TypeOK, Return, MaybeDir, Idle
<1>5. QED
  BY <1>1, <1>2, <1>3, <1>4

\* The steps of a fuse keep the types.
LEMMA TypedFuse ==
    ASSUME TypeOK, DirsInPlace
    PROVE  /\ ArchiveCanonical \/ PromoteCandidate \/ RestoreArchive => TypeOK'
           /\ CaptureFused \/ CommitFused \/ FinishFuse => TypeOK'
           /\ UndoPromote \/ UndoArchive => TypeOK'
<1> USE TypedReads, TypedWrites
<1>0. /\ \A step \in Steps \ {"idle"} : GoTo(step) /\ op.cand \in Candidates =>
             /\ op' \in [step : Steps, cand : Candidates \cup {None}, mem : State]
             /\ op'.cand \in Candidates
      /\ Fault => faults' \in [crash : Nat, fail : Nat, edit : Nat]
      /\ Idle \in [step : Steps, cand : Candidates \cup {None}, mem : State]
  BY FirstRecords DEF TypeOK, GoTo, Fault
<1>1. ASSUME ArchiveCanonical PROVE TypeOK'
  <2>1. op.cand \in Candidates /\ canonical \in Dir
    BY <1>1 DEF ArchiveCanonical, Running, TypeOK, DirsInPlace
  <2>2. CASE /\ archive' = [archive EXCEPT ![op.cand] = canonical]
             /\ canonical' = NoDir
             /\ GoTo("promote")
             /\ UNCHANGED <<candidate, faults>>
    BY <1>0, <2>1, <2>2, <1>1 DEF Steps, ArchiveCanonical, TypeOK, MaybeDir
  <2>3. CASE Fault /\ FailFuse(canonical, TRUE) /\ UNCHANGED archive
    <3>1. canonical' \in Dir /\ candidate' \in [Candidates -> MaybeDir] /\ op' = Idle
      BY <2>1, <2>3, TypedFailure
    <3>2. faults' \in [crash : Nat, fail : Nat, edit : Nat]
      BY <1>0, <2>3
    <3>3. QED
      BY <1>0, <1>1, <2>3, <3>1, <3>2 DEF ArchiveCanonical, TypeOK, MaybeDir, Idle
  <2>4. QED
    BY <1>1, <2>2, <2>3 DEF ArchiveCanonical
<1>2. ASSUME PromoteCandidate PROVE TypeOK'
  BY <1>2, <1>0 DEF PromoteCandidate, Running, TypeOK, MaybeDir, Steps
<1>3. ASSUME RestoreArchive PROVE TypeOK'
  <2>1. op.cand \in Candidates /\ archive[op.cand] \in Dir
    BY <1>3 DEF RestoreArchive, Running, TypeOK, DirsInPlace
  <2>2. faults' \in [crash : Nat, fail : Nat, edit : Nat]
    BY <1>0, <1>3 DEF RestoreArchive, TypeOK
  <2>3. canonical' \in Dir /\ candidate' \in [Candidates -> MaybeDir] /\ op' = Idle
    BY <1>3, <2>1, TypedFailure DEF RestoreArchive
  <2>4. archive' \in [Candidates -> MaybeDir]
    BY <1>3 DEF RestoreArchive, TypeOK, MaybeDir
  <2>5. QED
    BY <1>0, <1>3, <2>2, <2>3, <2>4 DEF RestoreArchive, TypeOK, MaybeDir, Idle
<1>4. ASSUME CaptureFused PROVE TypeOK'
  <2>1. op.cand \in Candidates /\ canonical \in Dir
    BY <1>4 DEF CaptureFused, Running, TypeOK, DirsInPlace, Promoted
  <2>2. CASE \E v \in Captures(canonical) :
               /\ canonical' = WithVersion(canonical, v)
               /\ op' = [op EXCEPT !.mem.fused = v.id,
                                   !.step = IF CapturedAsReviewed(v)
                                            THEN "commit" ELSE "undoPromote"]
    <3>1. PICK v \in Captures(canonical) :
               /\ canonical' = WithVersion(canonical, v)
               /\ op' = [op EXCEPT !.mem.fused = v.id,
                                   !.step = IF CapturedAsReviewed(v)
                                            THEN "commit" ELSE "undoPromote"]
      BY <2>2
    <3>2. v \in Version /\ v.id \in Nat /\ canonical' \in Dir
      BY <2>1, <3>1, CaptureTypes DEF TypeOK, Version
    <3>3. op' \in [step : Steps, cand : Candidates \cup {None}, mem : State]
      BY <3>1, <3>2 DEF TypeOK, State, Steps
    <3>4. op'.cand \in Candidates
      BY <2>1, <3>1 DEF TypeOK
    <3>5. nextVersion' \in {nextVersion, nextVersion + 1} /\ (faults' = faults \/ Fault)
      BY <1>4 DEF CaptureFused, Undo
    <3>6. nextVersion' \in Nat /\ faults' \in [crash : Nat, fail : Nat, edit : Nat]
      BY <1>0, <3>5 DEF TypeOK
    <3>7. QED
      BY <1>4, <3>2, <3>3, <3>4, <3>6 DEF CaptureFused, TypeOK, MaybeDir
  <2>3. CASE Undo /\ UNCHANGED <<canonical, nextVersion>>
    BY <1>0, <1>4, <2>1, <2>3 DEF CaptureFused, Undo, TypeOK, MaybeDir, Steps
  <2>4. QED
    BY <1>4, <2>2, <2>3 DEF CaptureFused
<1>5. ASSUME CommitFused PROVE TypeOK'
  <2>1. op.cand \in Candidates /\ canonical \in Dir
    BY <1>5 DEF CommitFused, Running, TypeOK, DirsInPlace, Promoted
  <2>2. PICK g \in {canonical.good, op.mem.fused} :
          canonical' = [canonical EXCEPT !.good = g]
    BY <1>5 DEF CommitFused
  <2>3. canonical' \in Dir
    BY <2>1, <2>2 DEF Dir, State
  <2>4. registered' \subseteq Sources
    BY <1>5 DEF CommitFused, CommittedSources, State, TypeOK
  <2>5. QED
    BY <1>0, <1>5, <2>1, <2>3, <2>4 DEF CommitFused, Undo, TypeOK, MaybeDir, Steps
<1>6. ASSUME FinishFuse PROVE TypeOK'
  <2>1. op.cand \in Candidates /\ canonical \in Dir
    BY <1>6 DEF FinishFuse, Running, TypeOK, DirsInPlace, Promoted
  <2>2. [op.mem EXCEPT !.status = "FUSED", !.unchanged = FALSE] \in State
    BY DEF State, Statuses
  <2>3. canonical' \in Dir
    BY <1>6, <2>1, <2>2 DEF FinishFuse
  <2>4. recorded' \subseteq Version
    BY <1>6, <2>1 DEF FinishFuse, TypeOK, Dir
  <2>5. QED
    BY <1>0, <1>6, <2>1, <2>3, <2>4 DEF FinishFuse, Undo, Return, Idle, TypeOK, MaybeDir, Steps
<1>7. ASSUME UndoPromote PROVE TypeOK'
  BY <1>7, <1>0 DEF UndoPromote, Running, TypeOK, Return, Idle, MaybeDir, Steps
<1>8. ASSUME UndoArchive PROVE TypeOK'
  <2>1. op.cand \in Candidates /\ archive[op.cand] \in Dir
    BY <1>8 DEF UndoArchive, Running, TypeOK, DirsInPlace
  <2>2. faults' \in [crash : Nat, fail : Nat, edit : Nat]
    BY <1>0, <1>8 DEF UndoArchive, TypeOK
  <2>3. canonical' \in MaybeDir /\ candidate' \in [Candidates -> MaybeDir] /\ op' = Idle
    BY <1>8, <2>1, TypedFailure DEF UndoArchive, Return, TypeOK, MaybeDir
  <2>4. archive' \in [Candidates -> MaybeDir]
    BY <1>8 DEF UndoArchive, TypeOK, MaybeDir
  <2>5. QED
    BY <1>0, <1>8, <2>2, <2>3, <2>4 DEF UndoArchive, TypeOK, Idle
<1>9. QED
  BY <1>1, <1>2, <1>3, <1>4, <1>5, <1>6, <1>7, <1>8

\* The other commands and the surroundings keep the types.
LEMMA TypedSurroundings ==
    ASSUME TypeOK
    PROVE  /\ CaptureVersion \/ MarkGood => TypeOK'
           /\ \A s \in Contents : Rebuild(s) => TypeOK'
           /\ \A v : DropVersion(v) => TypeOK'
           /\ \A sources \in SUBSET Sources : Register(sources) => TypeOK'
           /\ StatusRead \/ OutsideEdit \/ Crash => TypeOK'
<1> USE TypedReads
<1>1. ASSUME CaptureVersion PROVE TypeOK'
  BY <1>1, CaptureTypes DEF CaptureVersion, TypeOK, MaybeDir
<1>2. ASSUME MarkGood PROVE TypeOK'
  BY <1>2 DEF MarkGood, Dir, Version, TypeOK, MaybeDir
<1>3. ASSUME NEW s \in Contents, Rebuild(s) PROVE TypeOK'
  <2> DEFINE built == [canonical EXCEPT !.snap = s]
  <2>1. built \in Dir
    BY <1>3 DEF Rebuild, Dir, AnyContent
  <2>2. CASE \E v \in Captures(built) :
               /\ canonical' = WithVersion(built, v)
               /\ recorded' = recorded \cup {v}
               /\ nextVersion' = nextVersion + 1
    <3> HIDE DEF built
    <3>1. PICK v \in Captures(built) :
               /\ canonical' = WithVersion(built, v)
               /\ recorded' = recorded \cup {v}
               /\ nextVersion' = nextVersion + 1
      BY <2>2
    <3>2. v \in Version /\ canonical' \in Dir
      BY <2>1, <3>1, CaptureTypes DEF TypeOK
    <3>3. QED
      BY <1>3, <3>1, <3>2 DEF Rebuild, TypeOK, MaybeDir
  <2>3. CASE canonical' = built /\ UNCHANGED <<recorded, nextVersion>>
    BY <1>3, <2>1, <2>3 DEF Rebuild, TypeOK, MaybeDir
  <2>4. QED
    BY <1>3, <2>2, <2>3 DEF Rebuild
<1>4. ASSUME NEW v, DropVersion(v) PROVE TypeOK'
  <2>1. canonical' \in Dir
    BY <1>4 DEF DropVersion, Dir
  <2>2. QED
    BY <1>4, <2>1 DEF DropVersion, TypeOK, MaybeDir
<1>5. ASSUME NEW sources \in SUBSET Sources, Register(sources) PROVE TypeOK'
  BY <1>5 DEF Register, TypeOK
<1>6. ASSUME StatusRead PROVE TypeOK'
  BY <1>6, FirstRecords DEF StatusRead, TypeOK, MaybeDir
<1>7. ASSUME OutsideEdit PROVE TypeOK'
  <2>1. faults' \in [crash : Nat, fail : Nat, edit : Nat]
    BY <1>7 DEF OutsideEdit, TypeOK
  <2>2. CASE /\ canonical # NoDir
             /\ canonical' = [canonical EXCEPT !.snap = Unverified]
             /\ UNCHANGED candidate
    BY <2>2, <1>7, <2>1 DEF Dir, AnyContent, OutsideEdit, TypeOK, MaybeDir
  <2>3. ASSUME NEW c \in Candidates, candidate[c] # NoDir,
               candidate' = [candidate EXCEPT ![c] = [candidate[c] EXCEPT !.snap = Unverified]],
               UNCHANGED canonical
        PROVE TypeOK'
    <3>1. [candidate[c] EXCEPT !.snap = Unverified] \in Dir
      BY <2>3 DEF Dir, AnyContent
    <3>2. candidate' \in [Candidates -> MaybeDir]
      BY <2>3, <3>1 DEF TypeOK, MaybeDir
    <3>3. QED
      BY <1>7, <2>1, <2>3, <3>2 DEF OutsideEdit, TypeOK, MaybeDir
  <2>4. QED
    BY <1>7, <2>2, <2>3 DEF OutsideEdit
<1>8. ASSUME Crash PROVE TypeOK'
  BY <1>8, FirstRecords DEF Crash, Return, Idle, TypeOK
<1>9. QED
  BY <1>1, <1>2, <1>3, <1>4, <1>5, <1>6, <1>7, <1>8

\* Every step keeps the types, given where the directories are.
LEMMA TypeStep == TypeOK /\ DirsInPlace /\ [Next]_vars => TypeOK'
<1> SUFFICES ASSUME TypeOK, DirsInPlace, [Next]_vars PROVE TypeOK'
  OBVIOUS
<1>1. CASE CommandStep
  BY <1>1, TypedBuild, TypedFuse DEF CommandStep
<1>2. CASE Request
  BY TypedRequests, TypedSurroundings, <1>2 DEF Retry, Request
<1>3. CASE StatusRead \/ OutsideEdit \/ Crash
  BY <1>3, TypedSurroundings
<1>4. CASE UNCHANGED vars
  BY <1>4 DEF vars, TypeOK
<1>5. QED
  BY <1>1, <1>2, <1>3, <1>4 DEF Next

-----------------------------------------------------------------------------
(* The fuse invariant.                                                     *)

\* e is what is left of the brain directory d after a command: the same origin
\* with the same approval, and no version is gone without a tombstone.
Keeps(d, e) ==
    /\ e \in Dir
    /\ e.origin = d.origin /\ e.receipt = d.receipt /\ e.packet = d.packet
    /\ d.origin # None =>
           /\ e.hist[d.origin].decision = d.hist[d.origin].decision
           /\ e.hist[d.origin].expected = d.hist[d.origin].expected
    /\ d.versions \cup d.dropped \subseteq e.versions \cup e.dropped

\* What is known of the directories when the types and the invariant hold.
LEMMA InvariantReads ==
    ASSUME TypeOK, FuseInvariant
    PROVE  /\ \A d \in BrainDirs : d \in Dir /\ d.origin \in used \cup {None}
           /\ canonical # NoDir => canonical \in BrainDirs
           /\ \A c \in Candidates :
                 archive[c] # NoDir => archive[c] \in BrainDirs /\ archive[c] \in Dir
           /\ \A d \in BrainDirs : d = canonical \/ \E c \in Candidates : d = archive[c]
           /\ Live.origin # None => WasApproved(Live)
           /\ Live.origin \in used \cup {None}
           /\ used \subseteq Candidates
           /\ \A c \in Candidates : candidate[c] # NoDir => Live.origin # c
<1>1. \A d \in BrainDirs : d \in Dir
  BY TypedReads DEF BrainDirs
<1>2. /\ canonical # NoDir => canonical \in BrainDirs
      /\ \A c \in Candidates : archive[c] # NoDir => archive[c] \in BrainDirs
      /\ \A d \in BrainDirs : d = canonical \/ \E c \in Candidates : d = archive[c]
  BY DEF BrainDirs
<1>3. CASE canonical = NoDir
  <2>1. Live.origin = None
    BY <1>3 DEF Live, Shell
  <2>2. QED
    BY <1>1, <1>2, <2>1, NamesDiffer, TypedReads
       DEF FuseInvariant, OneDirectoryEach, TypeOK
<1>4. CASE canonical # NoDir
  BY <1>1, <1>2, <1>4, TypedReads
     DEF FuseInvariant, OneDirectoryEach, PromotedWasApproved, TypeOK
<1>5. QED
  BY <1>3, <1>4

\* Recording the state of c keeps the brain when c is not its origin, or when
\* the state has the decision and the snapshot the record had.
LEMMA PersistKeeps ==
    ASSUME NEW d \in Dir, NEW c \in Candidates, NEW st \in State,
           \/ d.origin # c
           \/ /\ st.decision = d.hist[c].decision
              /\ st.expected = d.hist[c].expected
    PROVE  Keeps(d, [d EXCEPT !.hist[c] = st])
<1> DEFINE e == [d EXCEPT !.hist[c] = st]
<1>1. /\ e \in Dir
      /\ e.versions = d.versions /\ e.dropped = d.dropped
      /\ e.packet = d.packet /\ e.receipt = d.receipt /\ e.origin = d.origin
      /\ e.hist[c] = st
      /\ \A o \in Candidates \ {c} : e.hist[o] = d.hist[o]
  BY HistUpdate
<1>2. d.origin \in Candidates \cup {None}
  BY DEF Dir
<1> HIDE DEF e
<1>3. Keeps(d, e)
  BY <1>1, <1>2 DEF Keeps
<1>4. QED
  BY <1>3 DEF e

\* A step that keeps the brain and the archives keeps the three properties, and
\* makes no directory of a new origin.
LEMMA BrainKept ==
    ASSUME TypeOK, FuseInvariant, archive' = archive,
           canonical' = canonical \/ Keeps(Live, canonical'),
           \A v \in recorded' :
               \/ v \in recorded
               \/ canonical' # NoDir /\ v \in canonical'.versions \cup canonical'.dropped
    PROVE  /\ PromotedWasApproved' /\ FuseReplacesBaseline' /\ RecordedVersionsSurvive'
           /\ \A d \in BrainDirs' :
                 d.origin = None \/ \E e \in BrainDirs : e.origin = d.origin
<1>1. \A d \in BrainDirs' :
        \/ d \in BrainDirs
        \/ d = canonical' /\ Keeps(Live, d)
  BY DEF BrainDirs
<1>2. canonical = NoDir => Live.origin = None
  BY DEF Live, Shell
<1>3. \A d \in BrainDirs' : d.origin # None =>
        WasApproved(d) /\ \E e \in BrainDirs : e.origin = d.origin
  BY <1>2, InvariantReads, TypedReads, <1>1 DEF FuseInvariant, PromotedWasApproved, Keeps,
     WasApproved
<1>4. PromotedWasApproved'
  BY <1>3 DEF PromotedWasApproved, WasApproved
<1>5. FuseReplacesBaseline'
  BY DEF FuseReplacesBaseline, FuseInvariant
<1>6. RecordedVersionsSurvive'
  BY InvariantReads, NoDirIsNoDirectory DEF RecordedVersionsSurvive, FuseInvariant,
     BrainDirs, Keeps, Live
<1>7. QED
  BY <1>3, <1>4, <1>5, <1>6

\* A command that ends with the brain kept, and no new candidate, keeps the
\* invariant.
LEMMA EndStep ==
    ASSUME TypeOK, FuseInvariant, TypeOK',
           op'.step = "idle", archive' = archive,
           canonical' = canonical \/ Keeps(Live, canonical'),
           \A c \in Candidates : candidate'[c] # NoDir =>
               candidate[c] # NoDir /\ candidate'[c].origin = candidate[c].origin,
           used \subseteq used',
           \A v \in recorded' :
               \/ v \in recorded
               \/ canonical' # NoDir /\ v \in canonical'.versions \cup canonical'.dropped
    PROVE  FuseInvariant'
  BY BrainKept, NamesDiffer DEF OneDirectoryEach, FuseInvariant, Promoted, DirsInPlace,
     FuseIsApproved, ArchiveHolds, Running, Waiting

\* The actions that only change what is recorded of a candidate, or end it.
LEMMA CandidateEnds ==
    ASSUME TypeOK, FuseInvariant, TypeOK', NEW c \in Candidates
    PROVE  RefuseRefresh(c) \/ Drop(c) \/ Cancel(c) \/ Cleanup(c) => FuseInvariant'
<1> USE TypedReads, InvariantReads
<1>1. ASSUME RefuseRefresh(c) PROVE FuseInvariant'
  <2>1. PICK b \in canonical.versions, s \in {"QUARANTINED", "FAILED", "NO_CHANGE"} :
          Persist(c, [NotStarted EXCEPT !.status = s, !.base = b, !.unchanged = TRUE])
    BY <1>1 DEF RefuseRefresh
  <2>2. [NotStarted EXCEPT !.status = s, !.base = b, !.unchanged = TRUE] \in State
    BY ZenonT(60), <1>1, FirstRecords DEF RefuseRefresh, Dir, State, Statuses
  <2>3. Live.origin # c
    BY <1>1, NamesDiffer DEF RefuseRefresh
  <2>4. Keeps(Live, canonical')
    BY <2>1, <2>2, <2>3, PersistKeeps DEF Persist
  <2>5. op'.step = "idle"
    BY <1>1 DEF RefuseRefresh, Idle
  <2>6. QED
    BY <1>1, <2>4, <2>5, EndStep DEF RefuseRefresh
<1>2. ASSUME NEW s \in Statuses, Discard(c, s) PROVE FuseInvariant'
  <2> DEFINE st == [Hist(c) EXCEPT !.status = s, !.unchanged = TRUE]
  <2>1. st \in State /\ st.decision = Live.hist[c].decision
                     /\ st.expected = Live.hist[c].expected
    BY DEF State, Hist
  <2>2. Persist(c, st)
    BY <1>2 DEF Discard
  <2>3. Keeps(Live, canonical')
    BY <2>1, <2>2, PersistKeeps DEF Persist
  <2>4. \A o \in Candidates : candidate'[o] # NoDir =>
          candidate[o] # NoDir /\ candidate'[o].origin = candidate[o].origin
    BY <1>2 DEF Discard, TypeOK
  <2>5. op'.step = "idle"
    BY <1>2 DEF Discard, Idle
  <2>6. QED
    BY <1>2, <2>3, <2>4, <2>5, EndStep DEF Discard
<1>3. ASSUME op = Idle, Persist(c, [Hist(c) EXCEPT !.cancel = TRUE]),
             UNCHANGED <<candidate, archive, registered, op, used, nextVersion,
                         recorded, faults>>
      PROVE FuseInvariant'
  <2> DEFINE st == [Hist(c) EXCEPT !.cancel = TRUE]
  <2>1. st \in State /\ st.decision = Live.hist[c].decision
                     /\ st.expected = Live.hist[c].expected
    BY DEF State, Hist
  <2>2. Keeps(Live, canonical')
    BY <1>3, <2>1, PersistKeeps DEF Persist
  <2>3. QED
    BY <1>3, <2>2, EndStep DEF Idle
<1>4. QED
  BY <1>1, <1>2, <1>3 DEF Drop, Cancel, Cleanup, Statuses

\* The steps that end a build or a decision.
LEMMA BuildEnds ==
    ASSUME TypeOK, FuseInvariant, TypeOK'
    PROVE  FinishBuild \/ FailBuild \/ PersistDecision => FuseInvariant'
<1> USE TypedReads, InvariantReads
<1>1. ASSUME op.step \in {"materialize", "build", "decide"},
             NEW st \in State, Persist(op.cand, st)
      PROVE  Keeps(Live, canonical')
  <2>1. op.cand \in Candidates /\ (canonical # NoDir => canonical.origin # op.cand)
    BY <1>1 DEF TypeOK, FuseInvariant, OneDirectoryEach
  <2>2. Live.origin # op.cand
    BY <2>1, NamesDiffer DEF Live, Shell
  <2>3. QED
    BY <1>1, <2>1, <2>2, PersistKeeps DEF Persist
<1>2. ASSUME FinishBuild PROVE FuseInvariant'
  <2> DEFINE st(s) == [op.mem EXCEPT !.status = "AWAITING_FUSE", !.expected = s]
             same == [op.mem EXCEPT !.status = "NO_CHANGE"]
             built(s) == [candidate[op.cand] EXCEPT !.snap = s, !.packet = s,
                                                    !.hist[op.cand] = st(s)]
  <2>1. op.cand \in Candidates /\ candidate[op.cand] \in Dir /\ op.step = "build"
    BY <1>2 DEF FinishBuild, Running, TypeOK, FuseInvariant, DirsInPlace
  <2>2. PICK s \in Contents :
          \/ /\ Persist(op.cand, same)
             /\ candidate' = [candidate EXCEPT ![op.cand] = NoDir]
          \/ /\ Persist(op.cand, st(s))
             /\ candidate' = [candidate EXCEPT ![op.cand] = built(s)]
    BY <1>2 DEF FinishBuild
  <2>3. same \in State /\ st(s) \in State
    BY DEF State, Statuses, AnyContent
  <2>4. Keeps(Live, canonical')
    BY <1>1, <2>1, <2>2, <2>3
  <2>5. built(s).origin = candidate[op.cand].origin
    BY <2>1 DEF Dir
  <2>6. \A o \in Candidates : candidate'[o] # NoDir =>
          candidate[o] # NoDir /\ candidate'[o].origin = candidate[o].origin
    BY ZenonT(60), <2>1, <2>2, <2>5 DEF TypeOK
  <2>7. op'.step = "idle"
    BY <1>2 DEF FinishBuild, Return, Idle
  <2>8. QED
    BY <1>2, <2>4, <2>6, <2>7, EndStep DEF FinishBuild
<1>3. ASSUME FailBuild PROVE FuseInvariant'
  <2> DEFINE made == candidate[op.cand] # NoDir
             st == [op.mem EXCEPT !.status = "FAILED", !.preserved = made]
             kept == [candidate[op.cand] EXCEPT !.snap = Unverified,
                                                !.hist[op.cand] = st]
  <2>1. op.cand \in Candidates /\ op.step \in {"materialize", "build"}
    BY <1>3 DEF FailBuild, TypeOK
  <2>2. st \in State
    BY DEF State, Statuses
  <2>3. /\ Persist(op.cand, st)
        /\ candidate' = IF ~made THEN candidate
                         ELSE [candidate EXCEPT ![op.cand] = kept]
    BY <1>3 DEF FailBuild
  <2>4. Keeps(Live, canonical')
    BY <1>1, <2>1, <2>2, <2>3
  <2>5. made => kept.origin = candidate[op.cand].origin
    BY <2>1 DEF Dir
  <2>6. \A o \in Candidates : candidate'[o] # NoDir =>
          candidate[o] # NoDir /\ candidate'[o].origin = candidate[o].origin
    BY <2>1, <2>3, <2>5 DEF TypeOK
  <2>7. op'.step = "idle"
    BY <1>3 DEF FailBuild, Return, Idle
  <2>8. QED
    BY <1>3, <2>4, <2>6, <2>7, EndStep DEF FailBuild
<1>4. ASSUME PersistDecision PROVE FuseInvariant'
  BY <1>4, <1>1, HistUpdate, EndStep DEF PersistDecision, Running, TypeOK, PersistCopy,
     Return, Idle
<1>5. QED
  BY <1>2, <1>3, <1>4

\* The actions that begin a build or a decision.
LEMMA BuildBegins ==
    ASSUME TypeOK, FuseInvariant, TypeOK', NEW c \in Candidates
    PROVE  /\ BeginRefresh(c) => FuseInvariant'
           /\ \A d \in Decisions : WriteReceipt(c, d) => FuseInvariant'
<1> USE TypedReads, InvariantReads
<1>1. ASSUME BeginRefresh(c) PROVE FuseInvariant'
  <2> DEFINE st(b) == [NotStarted EXCEPT !.status = "REFRESHING", !.base = b,
                                         !.accepted = registered,
                                         !.unchanged = TRUE, !.workspace = TRUE]
  <2>1. PICK b \in canonical.versions :
          /\ Persist(c, st(b))
          /\ op' = [step |-> "materialize", cand |-> c, mem |-> st(b)]
    BY <1>1 DEF BeginRefresh
  <2>2. st(b) \in State
    <3>1. b \in Version /\ registered \subseteq Sources
      BY <1>1 DEF BeginRefresh, TypeOK, MaybeDir, Dir
    <3>2. NotStarted \in State
      BY FirstRecords
    <3>3. QED
      BY <3>1, <3>2 DEF State, Statuses
  <2>3. /\ c \notin used /\ used' = used \cup {c}
        /\ UNCHANGED <<candidate, archive, recorded>>
    BY <1>1 DEF BeginRefresh
  <2>4. Keeps(Live, canonical')
    BY <2>1, <2>2, <2>3, NamesDiffer, PersistKeeps DEF Persist
  <2>5. candidate[c] = NoDir /\ \A d \in BrainDirs : d.origin # c
    BY <2>3, NamesDiffer DEF FuseInvariant, OneDirectoryEach
  <2>6. OneDirectoryEach'
    BY <2>1, <2>3, <2>4, <2>5, BrainKept, NamesDiffer
       DEF OneDirectoryEach, FuseInvariant, Promoted
  <2>7. DirsInPlace' /\ FuseIsApproved' /\ ArchiveHolds'
    BY <2>1, <2>3, <2>5 DEF DirsInPlace, FuseIsApproved, ArchiveHolds, Running, Waiting, Promoted
  <2>8. QED
    BY <2>3, <2>4, <2>6, <2>7, BrainKept DEF FuseInvariant
<1>2. ASSUME NEW d \in Decisions, WriteReceipt(c, d) PROVE FuseInvariant'
  <2>1. /\ candidate[c] \in Dir /\ op'.step = "decide" /\ op'.cand = c
        /\ candidate' = [candidate EXCEPT ![c] = [candidate[c] EXCEPT !.receipt = d]]
        /\ UNCHANGED <<canonical, archive, used, recorded>>
    BY <1>2 DEF WriteReceipt
  <2>2. \A o \in Candidates : candidate'[o] # NoDir =>
          candidate[o] # NoDir /\ candidate'[o].origin = candidate[o].origin
    BY <2>1 DEF TypeOK, Dir
  <2>3. \A e \in BrainDirs : e.origin # c
    BY <2>1 DEF FuseInvariant, OneDirectoryEach
  <2>4. c \in used
    BY <2>1 DEF FuseInvariant, OneDirectoryEach
  <2>5. OneDirectoryEach'
    BY <2>1, <2>2, <2>3, <2>4, BrainKept, NamesDiffer
       DEF OneDirectoryEach, FuseInvariant, Promoted
  <2>6. DirsInPlace' /\ FuseIsApproved' /\ ArchiveHolds'
    BY <2>1 DEF DirsInPlace, FuseIsApproved, ArchiveHolds, Running, Waiting, Promoted
  <2>7. QED
    BY <2>1, <2>5, <2>6, BrainKept DEF FuseInvariant
<1>3. QED
  BY <1>1, <1>2

\* The candidate of a refresh is made where there was none.
LEMMA MaterializeStep ==
    ASSUME TypeOK, FuseInvariant, TypeOK', Materialize
    PROVE  FuseInvariant'
<1> USE TypedReads, InvariantReads
<1> DEFINE st == [op.mem EXCEPT !.status = "TESTING"]
           new == [Shell EXCEPT !.snap = op.mem.base.snap,
                                !.versions = Live.versions,
                                !.dropped = Live.dropped,
                                !.good = Live.good, !.origin = op.cand]
<1>1. /\ op.cand \in Candidates /\ op.step = "materialize" /\ op.cand \in used
      /\ \A d \in BrainDirs : d.origin # op.cand
  BY DEF Materialize, Running, TypeOK, FuseInvariant, OneDirectoryEach
<1>2. /\ Persist(op.cand, st)
      /\ candidate' = [candidate EXCEPT ![op.cand] = new]
      /\ op'.step = "build" /\ op'.cand = op.cand
      /\ UNCHANGED <<archive, used, recorded>>
  BY DEF Materialize, TypeOK
<1>3. st \in State
  BY DEF State, Statuses
<1>4. Live.origin # op.cand
  BY <1>1, NamesDiffer DEF Live, Shell
<1>5. Keeps(Live, canonical')
  BY <1>1, <1>2, <1>3, <1>4, PersistKeeps DEF Persist
<1>6. /\ candidate'[op.cand] = new /\ new.origin = op.cand /\ candidate'[op.cand] \in MaybeDir
      /\ \A o \in Candidates \ {op.cand} : candidate'[o] = candidate[o]
  BY <1>1, <1>2 DEF TypeOK, Shell
<1>7. OneDirectoryEach'
  BY <1>1, <1>2, <1>5, <1>6, BrainKept, NamesDiffer
     DEF OneDirectoryEach, FuseInvariant, Promoted
<1>8. candidate'[op.cand] # NoDir
  <2>1. op.mem.base.snap \in AnyContent
    BY DEF State, Version
  <2>2. new \in Dir
    BY <1>1, <2>1, FirstRecords DEF Dir
  <2>3. QED
    BY <1>6, <2>2
<1>9. DirsInPlace' /\ FuseIsApproved' /\ ArchiveHolds'
  BY <1>2, <1>8 DEF DirsInPlace, FuseIsApproved, ArchiveHolds, Running, Waiting, Promoted
<1>10. QED
  BY <1>2, <1>5, <1>7, <1>9, BrainKept DEF FuseInvariant

\* A fuse begins with an approved candidate and an unchanged baseline.
LEMMA StartFuseStep ==
    ASSUME TypeOK, FuseInvariant, TypeOK', NEW c \in Candidates, StartFuse(c)
    PROVE  FuseInvariant'
<1> USE TypedReads, InvariantReads
<1> DEFINE fusing == [Hist(c) EXCEPT !.status = "FUSING"]
           copy == [candidate[c] EXCEPT !.hist[c] = fusing]
<1>1. /\ fusing \in State /\ fusing.decision = Hist(c).decision
      /\ fusing.expected = Hist(c).expected /\ fusing.base = Hist(c).base
  BY DEF State, Statuses
<1>2. /\ candidate[c] \in Dir /\ candidate[c].origin = c /\ c \in used
      /\ \A d \in BrainDirs : d.origin # c
      /\ canonical \in Dir /\ Live = canonical /\ Live.origin # c
  BY DEF StartFuse, FuseInvariant, OneDirectoryEach
<1>3. /\ canonical' = [canonical EXCEPT !.hist[c] = fusing]
      /\ candidate' = [candidate EXCEPT ![c] = copy]
      /\ op' = [step |-> "archive", cand |-> c, mem |-> Hist(c)]
      /\ archive[c] = NoDir
      /\ UNCHANGED <<archive, used, recorded>>
  BY <1>2 DEF StartFuse, Persist, PersistCopy
<1>4. /\ Keeps(Live, canonical') /\ canonical' \in Dir
      /\ canonical'.snap = canonical.snap /\ canonical'.hist[c] = fusing
  BY <1>1, <1>2, <1>3, PersistKeeps, HistUpdate DEF Persist
<1>5. /\ copy \in Dir /\ copy.origin = c /\ copy.hist[c] = fusing
      /\ copy.packet = candidate[c].packet /\ copy.receipt = candidate[c].receipt
  BY <1>1, <1>2, HistUpdate
<1> HIDE DEF fusing, copy
<1>6. /\ candidate'[c] = copy /\ copy # NoDir
      /\ \A o \in Candidates \ {c} : candidate'[o] = candidate[o]
  BY <1>3, <1>5 DEF TypeOK
<1>7. OneDirectoryEach'
  BY <1>2, <1>3, <1>4, <1>5, <1>6, BrainKept, NamesDiffer
     DEF OneDirectoryEach, FuseInvariant, Promoted
<1>8. DirsInPlace'
  BY <1>3, <1>4, <1>6 DEF DirsInPlace, Running, Waiting, Promoted
<1>9. FuseIsApproved'
  BY <1>1, <1>3, <1>5, <1>6
     DEF FuseIsApproved, WasApproved, Waiting, Promoted, StartFuse, Approved
<1>10. ArchiveHolds'
  BY <1>1, <1>2, <1>3, <1>4
     DEF ArchiveHolds, Running, Promoted, StartFuse, BaselineUnchanged
<1>11. QED
  BY <1>3, <1>4, <1>7, <1>8, <1>9, <1>10, BrainKept DEF FuseInvariant

\* The record of a failed fuse keeps the brain it is written to, unless that
\* brain is the candidate.
LEMMA FailureKeeps ==
    ASSUME TypeOK, op.cand \in Candidates, NEW live \in Dir, NEW there \in BOOLEAN,
           live.origin # op.cand, FailFuse(live, there)
    PROVE  /\ Keeps(live, canonical')
           /\ canonical'.snap = live.snap /\ canonical'.versions = live.versions
           /\ canonical'.dropped = live.dropped /\ canonical'.origin = live.origin
           /\ \A o \in Candidates : candidate'[o] # NoDir =>
                 candidate[o] # NoDir /\ candidate'[o].origin = candidate[o].origin
           /\ op'.step = "idle"
<1> USE TypedReads
<1> DEFINE st == [op.mem EXCEPT !.status = "FAILED", !.unchanged = there,
                               !.fuseFailed = TRUE, !.fused = 0,
                               !.preserved = candidate[op.cand] # NoDir]
<1>1. st \in State
  BY ZenonT(60) DEF State, Statuses
<1>2. /\ canonical' = [live EXCEPT !.hist[op.cand] = st]
      /\ PersistCopy(op.cand, st)
      /\ op'.step = "idle"
  BY DEF FailFuse, Return, Idle
<1> HIDE DEF st
<1>3. Keeps(live, canonical')
  BY <1>1, <1>2, PersistKeeps
<1>4. \A o \in Candidates : candidate'[o] # NoDir =>
        candidate[o] # NoDir /\ candidate'[o].origin = candidate[o].origin
  BY <1>2, <1>1, HistUpdate DEF PersistCopy, TypeOK
<1>5. QED
  BY <1>1, <1>2, <1>3, <1>4, HistUpdate

\* A failed step that leaves the brain, or the shell, where it is.
LEMMA FailureStep ==
    ASSUME TypeOK, FuseInvariant, TypeOK',
           op.step \in Waiting, NEW there \in BOOLEAN, FailFuse(Live, there),
           UNCHANGED <<archive, used, recorded>>
    PROVE  FuseInvariant'
  BY TypedReads, InvariantReads, FailureKeeps, EndStep DEF FuseInvariant, DirsInPlace,
     TypeOK, Waiting

\* The undo of the first rename: the archive becomes the brain again.
LEMMA RestoreStep ==
    ASSUME TypeOK, FuseInvariant, TypeOK',
           op.step \in {"restore", "undoArchive"}, canonical = NoDir,
           FailFuse(archive[op.cand], TRUE),
           archive' = [archive EXCEPT ![op.cand] = NoDir],
           UNCHANGED <<used, recorded>>
    PROVE  FuseInvariant'
<1> DEFINE old == archive[op.cand]
<1>1. /\ op.cand \in Candidates /\ candidate[op.cand] # NoDir
      /\ old \in Dir /\ old \in BrainDirs
  BY TypedReads, InvariantReads DEF FuseInvariant, DirsInPlace, TypeOK, Waiting
<1>2. old.origin # op.cand
  BY <1>1 DEF FuseInvariant, OneDirectoryEach
<1>3. /\ Keeps(old, canonical') /\ canonical' # NoDir
      /\ canonical'.versions = old.versions /\ canonical'.dropped = old.dropped
      /\ canonical'.origin = old.origin
      /\ \A o \in Candidates : candidate'[o] # NoDir =>
            candidate[o] # NoDir /\ candidate'[o].origin = candidate[o].origin
      /\ op'.step = "idle"
  BY <1>1, <1>2, FailureKeeps, NoDirIsNoDirectory DEF Keeps
<1>4. /\ archive'[op.cand] = NoDir
      /\ \A o \in Candidates \ {op.cand} : archive'[o] = archive[o]
  BY <1>1 DEF TypeOK
<1>5. \A d \in BrainDirs' : d \in BrainDirs \/ d = canonical'
  BY <1>4 DEF BrainDirs
<1>6. PromotedWasApproved'
  BY <1>1, <1>3, <1>5, NamesDiffer
     DEF PromotedWasApproved, WasApproved, Keeps, FuseInvariant
<1>7. FuseReplacesBaseline'
  BY <1>4 DEF FuseReplacesBaseline, FuseInvariant
<1>8. RecordedVersionsSurvive'
  BY <1>3, <1>4 DEF RecordedVersionsSurvive, FuseInvariant, ArchiveHolds, BrainDirs
<1>9. OneDirectoryEach'
  BY <1>1, <1>3, <1>5 DEF OneDirectoryEach, FuseInvariant, Promoted
<1>10. DirsInPlace' /\ FuseIsApproved' /\ ArchiveHolds'
  BY <1>3 DEF DirsInPlace, FuseIsApproved, ArchiveHolds, Running, Waiting, Promoted
<1>11. QED
  BY <1>6, <1>7, <1>8, <1>9, <1>10 DEF FuseInvariant

\* The two renames of a fuse, with their failures.
LEMMA RenameSteps ==
    ASSUME TypeOK, FuseInvariant, TypeOK'
    PROVE  ArchiveCanonical \/ PromoteCandidate \/ RestoreArchive => FuseInvariant'
<1> USE TypedReads, InvariantReads
<1>1. ASSUME ArchiveCanonical PROVE FuseInvariant'
  <2>1. /\ op.cand \in Candidates /\ op.step = "archive" /\ canonical \in Dir
        /\ archive[op.cand] = NoDir /\ candidate[op.cand] # NoDir
        /\ Live = canonical /\ UNCHANGED <<used, recorded>>
    BY <1>1 DEF ArchiveCanonical, Running, TypeOK, FuseInvariant, DirsInPlace, Waiting
  <2>2. CASE /\ archive' = [archive EXCEPT ![op.cand] = canonical]
             /\ canonical' = NoDir
             /\ GoTo("promote")
             /\ UNCHANGED <<candidate, faults>>
    <3>1. /\ archive'[op.cand] = canonical
          /\ \A o \in Candidates \ {op.cand} : archive'[o] = archive[o]
          /\ op'.step = "promote" /\ op'.cand = op.cand /\ op'.mem = op.mem
      BY <2>1, <2>2 DEF TypeOK, GoTo
    <3>2. \A d \in BrainDirs' : d \in BrainDirs
      BY <2>1, <2>2, <3>1 DEF BrainDirs
    <3>3. PromotedWasApproved'
      BY <3>2 DEF PromotedWasApproved, WasApproved, FuseInvariant
    <3>4. FuseReplacesBaseline'
      BY <2>1, <3>1 DEF FuseReplacesBaseline, FuseInvariant, ArchiveHolds, Running
    <3>5. ASSUME NEW v \in recorded
          PROVE  \E o \in Candidates :
                   /\ archive'[o] # NoDir
                   /\ v \in archive'[o].versions \cup archive'[o].dropped
      BY <2>1, <3>1 DEF FuseInvariant, RecordedVersionsSurvive, BrainDirs
    <3>6. RecordedVersionsSurvive'
      BY <2>1, <3>5 DEF RecordedVersionsSurvive, BrainDirs
    <3>7. ArchiveHolds'
      BY <2>1, <3>1, <3>5 DEF ArchiveHolds, Running
    <3>8. OneDirectoryEach'
      BY <2>1, <2>2, <3>1, <3>2 DEF OneDirectoryEach, FuseInvariant, Promoted
    <3>9. DirsInPlace' /\ FuseIsApproved'
      BY <2>1, <2>2, <3>1
         DEF DirsInPlace, FuseIsApproved, WasApproved, Running, Waiting, Promoted, FuseInvariant
    <3>10. QED
      BY <3>3, <3>4, <3>6, <3>7, <3>8, <3>9 DEF FuseInvariant
  <2>3. CASE Fault /\ FailFuse(canonical, TRUE) /\ UNCHANGED archive
    BY <2>1, <2>3, FailureStep DEF Waiting
  <2>4. QED
    BY <1>1, <2>2, <2>3 DEF ArchiveCanonical
<1>2. ASSUME PromoteCandidate PROVE FuseInvariant'
  <2>1. /\ op.cand \in Candidates /\ op.step = "promote"
        /\ archive[op.cand] # NoDir /\ candidate[op.cand] \in Dir
        /\ candidate[op.cand].origin = op.cand
        /\ \A d \in BrainDirs : d.origin # op.cand
        /\ WasApproved(candidate[op.cand])
        /\ op.mem.expected = candidate[op.cand].packet /\ op.mem.decision = "APPROVE"
        /\ UNCHANGED <<archive, used, recorded>>
    BY <1>2 DEF PromoteCandidate, Running, TypeOK, FuseInvariant, DirsInPlace, Waiting,
                OneDirectoryEach, FuseIsApproved
  <2>2. CASE /\ canonical = NoDir
             /\ canonical' = candidate[op.cand]
             /\ candidate' = [candidate EXCEPT ![op.cand] = NoDir]
             /\ GoTo("capture")
    <3>1. /\ candidate'[op.cand] = NoDir
          /\ \A o \in Candidates \ {op.cand} : candidate'[o] = candidate[o]
          /\ op'.step = "capture" /\ op'.cand = op.cand /\ op'.mem = op.mem
      BY <2>1, <2>2 DEF TypeOK, GoTo
    <3>2. /\ \A d \in BrainDirs' : d \in BrainDirs \/ d = candidate[op.cand]
          /\ \A d \in BrainDirs : d \in BrainDirs'
      BY <2>1, <2>2 DEF BrainDirs
    <3>3. PromotedWasApproved'
      BY <2>1, <3>2 DEF PromotedWasApproved, WasApproved, FuseInvariant
    <3>4. FuseReplacesBaseline'
      BY <2>1 DEF FuseReplacesBaseline, FuseInvariant
    <3>5. RecordedVersionsSurvive'
      BY <2>1, <3>2 DEF RecordedVersionsSurvive, FuseInvariant
    <3>6. ArchiveHolds'
      BY <2>1, <3>1 DEF ArchiveHolds, Running, Promoted, FuseInvariant
    <3>7. OneDirectoryEach'
      BY <2>1, <2>2, <3>1, <3>2 DEF OneDirectoryEach, FuseInvariant, Promoted
    <3>8. DirsInPlace' /\ FuseIsApproved'
      BY <2>1, <2>2, <3>1
         DEF DirsInPlace, FuseIsApproved, WasApproved, Running, Waiting, Promoted, FuseInvariant
    <3>9. QED
      BY <3>3, <3>4, <3>5, <3>6, <3>7, <3>8 DEF FuseInvariant
  <2>3. CASE GoTo("restore") /\ UNCHANGED <<canonical, candidate>>
    <3>1. op'.step = "restore" /\ op'.cand = op.cand /\ op'.mem = op.mem
      BY <2>3 DEF TypeOK, GoTo
    <3>2. OneDirectoryEach'
      BY <2>1, <2>3, <3>1, BrainKept, NamesDiffer DEF OneDirectoryEach, FuseInvariant, Promoted
    <3>3. DirsInPlace' /\ FuseIsApproved' /\ ArchiveHolds'
      BY <2>1, <2>3, <3>1
         DEF DirsInPlace, FuseIsApproved, WasApproved, ArchiveHolds, Running, Waiting,
             Promoted, FuseInvariant
    <3>4. QED
      BY <2>1, <2>3, <3>2, <3>3, BrainKept DEF FuseInvariant
  <2>4. QED
    BY <1>2, <2>2, <2>3 DEF PromoteCandidate
<1>3. ASSUME RestoreArchive PROVE FuseInvariant'
  BY <1>3, RestoreStep, FailureStep DEF RestoreArchive, Running, Waiting
<1>4. QED
  BY <1>1, <1>2, <1>3

\* A step of the promoted brain that leads to another one.
LEMMA PromotedStep ==
    ASSUME TypeOK, FuseInvariant, TypeOK',
           op.step \in Promoted, op'.step \in Promoted, op'.cand = op.cand,
           op'.mem.expected = op.mem.expected, op'.mem.decision = op.mem.decision,
           Keeps(canonical, canonical'),
           UNCHANGED <<candidate, archive, used, recorded>>
    PROVE  FuseInvariant'
<1>1. Live = canonical /\ canonical' \in Dir /\ canonical' # NoDir
  BY NoDirIsNoDirectory DEF FuseInvariant, DirsInPlace, Live, Keeps
<1>2. OneDirectoryEach'
  BY <1>1, BrainKept, NamesDiffer DEF OneDirectoryEach, FuseInvariant, Promoted, Keeps
<1>3. DirsInPlace'
  BY <1>1 DEF DirsInPlace, FuseInvariant, Running, Waiting, Promoted
<1>4. FuseIsApproved'
  BY DEF FuseIsApproved, FuseInvariant, Waiting, Promoted, Keeps
<1>5. ArchiveHolds'
  BY DEF ArchiveHolds, FuseInvariant, Running, Promoted
<1>6. QED
  BY <1>1, <1>2, <1>3, <1>4, <1>5, BrainKept DEF FuseInvariant

\* The steps after the promotion, and the undo.
LEMMA PromotedSteps ==
    ASSUME TypeOK, FuseInvariant, TypeOK'
    PROVE  CaptureFused \/ CommitFused \/ FinishFuse \/ UndoPromote \/ UndoArchive
             => FuseInvariant'
<1> USE TypedReads, InvariantReads
<1>1. ASSUME op.step \in Promoted
      PROVE  /\ op.cand \in Candidates /\ canonical \in Dir /\ Live = canonical
             /\ canonical.origin = op.cand /\ candidate[op.cand] = NoDir
             /\ op.mem.decision = "APPROVE" /\ op.mem.expected = canonical.packet
             /\ canonical.hist[op.cand].decision = "APPROVE"
             /\ canonical.hist[op.cand].expected = canonical.packet
  <2>1. /\ op.cand \in Candidates /\ canonical \in Dir /\ Live = canonical
        /\ canonical.origin = op.cand /\ candidate[op.cand] = NoDir
        /\ op.mem.decision = "APPROVE" /\ op.mem.expected = canonical.packet
    BY <1>1 DEF FuseInvariant, DirsInPlace, OneDirectoryEach, FuseIsApproved, TypeOK, Promoted
  <2>2. WasApproved(canonical)
    BY <2>1, NamesDiffer
  <2>3. QED
    BY <2>1, <2>2 DEF WasApproved
<1>2. ASSUME op.step \in Promoted, Undo, UNCHANGED <<candidate, archive, used, recorded>>,
             Keeps(canonical, canonical')
      PROVE  FuseInvariant'
  BY <1>2, PromotedStep DEF Undo, GoTo, TypeOK, Promoted
<1>3. ASSUME NEW d \in Dir PROVE Keeps(d, d)
  BY <1>3 DEF Keeps
<1>4. ASSUME CaptureFused PROVE FuseInvariant'
  <2>1. op.step \in Promoted /\ UNCHANGED <<candidate, archive, used, recorded>>
    BY <1>4 DEF CaptureFused, Running, Promoted
  <2>2. CASE Undo /\ UNCHANGED canonical
    BY <1>1, <1>2, <1>3, <2>1, <2>2
  <2>3. ASSUME NEW v \in Captures(canonical),
               canonical' = WithVersion(canonical, v),
               op' = [op EXCEPT !.mem.fused = v.id,
                                !.step = IF CapturedAsReviewed(v)
                                         THEN "commit" ELSE "undoPromote"]
        PROVE  FuseInvariant'
    <3>1. v \in Version
      BY <1>1, <2>1, <2>3, CaptureTypes DEF TypeOK
    <3>2. canonical' \in Dir /\ canonical' = [canonical EXCEPT !.versions = canonical.versions \cup {v}]
      BY <1>1, <2>1, <2>3, <3>1, CaptureTypes DEF TypeOK
    <3>3. Keeps(canonical, canonical')
      BY <1>1, <2>1, <3>2 DEF Keeps, Dir
    <3>4. /\ op'.step \in Promoted /\ op'.cand = op.cand
          /\ op'.mem.expected = op.mem.expected /\ op'.mem.decision = op.mem.decision
      BY <2>3 DEF TypeOK, Promoted, State
    <3>5. QED
      BY <2>1, <3>3, <3>4, PromotedStep
  <2>4. QED
    BY <1>4, <2>2, <2>3 DEF CaptureFused
<1>5. ASSUME CommitFused PROVE FuseInvariant'
  <2>1. op.step \in Promoted /\ UNCHANGED <<candidate, archive, used, recorded>>
    BY <1>5 DEF CommitFused, Running, Promoted
  <2>2. PICK g \in {canonical.good, op.mem.fused} :
          canonical' = [canonical EXCEPT !.good = g]
    BY <1>5 DEF CommitFused
  <2>3. canonical' \in Dir
    BY <1>1, <2>1, <2>2 DEF Dir, State
  <2>4. Keeps(canonical, canonical')
    BY <1>1, <2>1, <2>2, <2>3 DEF Keeps, Dir
  <2>5. CASE GoTo("finish")
    BY <2>5, <2>1, <2>4, PromotedStep DEF GoTo, TypeOK, Promoted
  <2>6. CASE Undo
    BY <1>2, <2>1, <2>4, <2>6
  <2>7. QED
    BY <1>5, <2>5, <2>6 DEF CommitFused
<1>6. ASSUME FinishFuse PROVE FuseInvariant'
  <2> DEFINE st == [op.mem EXCEPT !.status = "FUSED", !.unchanged = FALSE]
  <2>1. op.step \in Promoted /\ UNCHANGED <<candidate, archive, used>>
    BY <1>6 DEF FinishFuse, Running, Promoted
  <2>2. CASE Undo /\ UNCHANGED <<canonical, recorded>>
    BY <1>1, <1>2, <1>3, <2>1, <2>2
  <2>3. CASE /\ Persist(op.cand, st)
             /\ recorded' = recorded \cup
                   {v \in canonical.versions : v.id = op.mem.fused}
             /\ Return
    <3>1. st \in State /\ st.decision = op.mem.decision /\ st.expected = op.mem.expected
      BY DEF State, Statuses
    <3>2. recorded' = recorded \cup {v \in canonical.versions : v.id = op.mem.fused}
      BY <2>3
    <3> HIDE DEF st
    <3>3. canonical' = [canonical EXCEPT !.hist[op.cand] = st]
      BY <1>1, <2>1, <2>3 DEF Persist
    <3>4. Keeps(Live, canonical') /\ canonical' \in Dir
      BY <1>1, <2>1, <3>1, <3>3, PersistKeeps DEF Keeps
    <3>5. canonical'.versions = canonical.versions /\ canonical' # NoDir
      BY <1>1, <2>1, <3>1, <3>3, <3>4, HistUpdate
    <3>6. op'.step = "idle"
      BY <2>3 DEF Return, Idle
    <3>7. QED
      BY <2>1, <3>2, <3>4, <3>5, <3>6, EndStep
  <2>4. QED
    BY <1>6, <2>2, <2>3 DEF FinishFuse
<1>7. ASSUME UndoPromote PROVE FuseInvariant'
  <2>1. op.step = "undoPromote" /\ UNCHANGED <<archive, used, recorded>>
    BY <1>7 DEF UndoPromote, Running
  <2>2. CASE /\ candidate' = [candidate EXCEPT ![op.cand] = canonical]
             /\ canonical' = NoDir
             /\ GoTo("undoArchive")
    <3>1. /\ candidate'[op.cand] = canonical
          /\ \A o \in Candidates \ {op.cand} : candidate'[o] = candidate[o]
          /\ op'.step = "undoArchive" /\ op'.cand = op.cand /\ op'.mem = op.mem
      BY <1>1, <2>1, <2>2 DEF TypeOK, GoTo, Promoted
    <3>2. \A d \in BrainDirs' :
             d \in BrainDirs /\ \E o \in Candidates : d = archive[o] /\ archive[o] # NoDir
      BY <2>1, <2>2 DEF BrainDirs
    <3>3. PromotedWasApproved'
      BY <3>2 DEF PromotedWasApproved, WasApproved, FuseInvariant
    <3>4. FuseReplacesBaseline'
      BY <2>1 DEF FuseReplacesBaseline, FuseInvariant
    <3>5. ArchiveHolds'
      BY <2>1, <3>1 DEF ArchiveHolds, Running, Promoted, FuseInvariant
    <3>6. RecordedVersionsSurvive'
      BY <2>1 DEF RecordedVersionsSurvive, ArchiveHolds, Promoted, FuseInvariant, BrainDirs
    <3>7. OneDirectoryEach'
      BY <1>1, <2>1, <3>1, <3>2 DEF OneDirectoryEach, FuseInvariant, Promoted
    <3>8. DirsInPlace' /\ FuseIsApproved'
      BY <1>1, <2>1, <2>2, <3>1
         DEF DirsInPlace, FuseIsApproved, Running, Waiting, Promoted, FuseInvariant
    <3>9. QED
      BY <3>3, <3>4, <3>5, <3>6, <3>7, <3>8 DEF FuseInvariant
  <2>3. CASE Return /\ UNCHANGED <<canonical, candidate>>
    BY <2>1, <2>3, EndStep DEF Return, Idle
  <2>4. QED
    BY <1>7, <2>2, <2>3 DEF UndoPromote
<1>8. ASSUME UndoArchive PROVE FuseInvariant'
  <2>1. op.step = "undoArchive" /\ UNCHANGED <<used, recorded>>
    BY <1>8 DEF UndoArchive, Running
  <2>2. CASE /\ canonical = NoDir
             /\ FailFuse(archive[op.cand], TRUE)
             /\ archive' = [archive EXCEPT ![op.cand] = NoDir]
    BY <2>1, <2>2, RestoreStep
  <2>3. CASE Return /\ UNCHANGED <<canonical, candidate, archive>>
    BY <2>1, <2>3, EndStep DEF Return, Idle
  <2>4. QED
    BY <1>8, <2>2, <2>3 DEF UndoArchive
<1>9. QED
  BY <1>4, <1>5, <1>6, <1>7, <1>8

\* The other commands and the surroundings.
LEMMA SurroundingSteps ==
    ASSUME TypeOK, FuseInvariant, TypeOK'
    PROVE  /\ CaptureVersion \/ MarkGood => FuseInvariant'
           /\ \A s \in Contents : Rebuild(s) => FuseInvariant'
           /\ \A v : DropVersion(v) => FuseInvariant'
           /\ \A sources \in SUBSET Sources : Register(sources) => FuseInvariant'
           /\ StatusRead \/ OutsideEdit \/ Crash => FuseInvariant'
<1> USE TypedReads, InvariantReads
<1>1. ASSUME op = Idle, canonical # NoDir, UNCHANGED <<candidate, archive, op, used>>,
             Keeps(canonical, canonical'),
             \A v \in recorded' : v \in recorded \/ v \in canonical'.versions
      PROVE  FuseInvariant'
  BY <1>1, EndStep, NoDirIsNoDirectory DEF Idle, Keeps
<1>2. ASSUME CaptureVersion PROVE FuseInvariant'
  BY <1>2, CaptureTypes, <1>1 DEF CaptureVersion, TypeOK, Keeps, Dir
<1>3. ASSUME MarkGood PROVE FuseInvariant'
  BY <1>3, <1>1 DEF MarkGood, Dir, Version, Keeps
<1>4. ASSUME NEW s \in Contents, Rebuild(s) PROVE FuseInvariant'
  <2> DEFINE built == [canonical EXCEPT !.snap = s]
  <2>1. canonical \in Dir /\ built \in Dir
    BY <1>4 DEF Rebuild, Dir, AnyContent
  <2>2. Keeps(canonical, built)
    BY <2>1 DEF Keeps, Dir
  <2>3. ASSUME NEW v \in Captures(built), canonical' = WithVersion(built, v),
               recorded' = recorded \cup {v}
        PROVE  FuseInvariant'
    <3> HIDE DEF built
    <3>1. v \in Version
      BY <2>1, <2>3, CaptureTypes DEF TypeOK
    <3>2. canonical' \in Dir /\ canonical' = [built EXCEPT !.versions = built.versions \cup {v}]
      BY <2>1, <2>3, <3>1, CaptureTypes DEF TypeOK
    <3>3. Keeps(built, canonical') /\ v \in canonical'.versions
      BY <2>1, <3>2 DEF Keeps, Dir
    <3>4. Keeps(canonical, canonical')
      BY <2>2, <3>3 DEF Keeps
    <3>5. QED
      BY <1>1, <1>4, <2>3, <3>3, <3>4 DEF Rebuild
  <2>4. CASE canonical' = built /\ UNCHANGED <<recorded, nextVersion>>
    BY <1>1, <1>4, <2>2, <2>4 DEF Rebuild
  <2>5. QED
    BY <1>4, <2>3, <2>4 DEF Rebuild
<1>5. ASSUME NEW v, DropVersion(v) PROVE FuseInvariant'
  <2>1. canonical \in Dir
    BY <1>5 DEF DropVersion
  <2>2. canonical' = [canonical EXCEPT !.versions = canonical.versions \ {v},
                                       !.dropped = canonical.dropped \cup {v}]
        /\ v \in canonical.versions
    BY <1>5 DEF DropVersion
  <2>3. canonical' \in Dir
    <3>1. v \in Version
      BY <2>1, <2>2 DEF Dir
    <3>2. /\ canonical.versions \ {v} \in SUBSET Version
          /\ canonical.dropped \cup {v} \in SUBSET Version
      BY <2>1, <3>1 DEF Dir
    <3>3. QED
      BY <2>1, <2>2, <3>2 DEF Dir
  <2>4. Keeps(canonical, canonical')
    BY <2>1, <2>2, <2>3 DEF Dir, Keeps
  <2>5. QED
    BY <1>1, <1>5, <2>4 DEF DropVersion
<1>6. ASSUME NEW sources \in SUBSET Sources, Register(sources) PROVE FuseInvariant'
  BY <1>6, EndStep DEF Register, Idle
<1>7. ASSUME StatusRead PROVE FuseInvariant'
  <2>1. /\ canonical = NoDir /\ canonical' = Shell /\ Live = Shell
        /\ UNCHANGED <<candidate, archive, op, used, recorded>>
    BY <1>7 DEF StatusRead, Live
  <2>2. Keeps(Live, canonical')
    BY <2>1, FirstRecords DEF Keeps
  <2>3. OneDirectoryEach'
    BY <2>1, <2>2, BrainKept, NamesDiffer
       DEF OneDirectoryEach, FuseInvariant, Promoted, DirsInPlace
  <2>4. DirsInPlace' /\ FuseIsApproved' /\ ArchiveHolds'
    BY <2>1, FirstRecords
       DEF DirsInPlace, FuseIsApproved, WasApproved, ArchiveHolds, Running, Waiting,
           Promoted, FuseInvariant
  <2>5. QED
    BY <2>1, <2>2, <2>3, <2>4, BrainKept DEF FuseInvariant
<1>8. ASSUME OutsideEdit PROVE FuseInvariant'
  <2>1. UNCHANGED <<archive, op, used, recorded>>
    BY <1>8 DEF OutsideEdit
  <2>2. CASE /\ canonical # NoDir
             /\ canonical' = [canonical EXCEPT !.snap = Unverified]
             /\ UNCHANGED candidate
    <3>1. /\ canonical' \in Dir /\ canonical' # NoDir /\ canonical'.snap = Unverified
          /\ canonical'.packet = canonical.packet /\ canonical'.origin = canonical.origin
      BY <2>2 DEF Dir, AnyContent
    <3>2. Keeps(Live, canonical')
      BY <2>2, <3>1 DEF Keeps, Dir
    <3>3. OneDirectoryEach'
      BY <2>1, <2>2, <3>1, <3>2, BrainKept, NamesDiffer
         DEF OneDirectoryEach, FuseInvariant, Promoted
    <3>4. DirsInPlace' /\ FuseIsApproved' /\ ArchiveHolds'
      BY <2>1, <2>2, <3>1
         DEF DirsInPlace, FuseIsApproved, WasApproved, ArchiveHolds, Running, Waiting,
             Promoted, FuseInvariant
    <3>5. QED
      BY <2>1, <3>2, <3>3, <3>4, BrainKept DEF FuseInvariant
  <2>3. ASSUME NEW c \in Candidates, candidate[c] # NoDir,
               candidate' = [candidate EXCEPT ![c] = [candidate[c] EXCEPT !.snap = Unverified]],
               UNCHANGED canonical
        PROVE FuseInvariant'
    <3> DEFINE edited == [candidate[c] EXCEPT !.snap = Unverified]
    <3>1. /\ edited \in Dir /\ edited.origin = candidate[c].origin
          /\ edited.receipt = candidate[c].receipt /\ edited.packet = candidate[c].packet
          /\ edited.hist = candidate[c].hist
      BY <2>3 DEF Dir, AnyContent
    <3>2. /\ candidate'[c] = edited /\ edited # NoDir
          /\ \A o \in Candidates \ {c} : candidate'[o] = candidate[o]
      BY <2>3, <3>1 DEF TypeOK
    <3> HIDE DEF edited
    <3>3. \A o \in Candidates :
            /\ candidate'[o] # NoDir <=> candidate[o] # NoDir
            /\ candidate'[o].origin = candidate[o].origin
            /\ candidate'[o].packet = candidate[o].packet
            /\ WasApproved(candidate[o]) => WasApproved(candidate'[o])
      BY <2>3, <3>1, <3>2 DEF WasApproved
    <3>4. OneDirectoryEach'
      BY <2>1, <2>3, <3>3, BrainKept, NamesDiffer DEF OneDirectoryEach, FuseInvariant, Promoted
    <3>5. DirsInPlace' /\ ArchiveHolds'
      BY <2>1, <2>3, <3>3
         DEF DirsInPlace, ArchiveHolds, Running, Waiting, Promoted, FuseInvariant, TypeOK
    <3>6. FuseIsApproved'
      <4>1. op.step \in Waiting => op.cand \in Candidates
        BY DEF Waiting, TypeOK
      <4>2. QED
        BY SMTT(30), <2>1, <2>3, <3>3, <4>1 DEF FuseIsApproved, WasApproved, FuseInvariant
    <3>7. QED
      BY <2>1, <2>3, <3>4, <3>5, <3>6, BrainKept DEF FuseInvariant
  <2>4. QED
    BY <1>8, <2>2, <2>3 DEF OutsideEdit
<1>9. ASSUME Crash PROVE FuseInvariant'
  BY <1>9, EndStep DEF Crash, Return, Idle
<1>10. QED
  BY <1>2, <1>3, <1>4, <1>5, <1>6, <1>7, <1>8, <1>9

\* Every step keeps the invariant.
LEMMA InvariantStep == TypeOK /\ FuseInvariant /\ [Next]_vars => FuseInvariant'
<1> SUFFICES ASSUME TypeOK, FuseInvariant, [Next]_vars PROVE FuseInvariant'
  OBVIOUS
<1>0. TypeOK'
  BY TypeStep DEF FuseInvariant
<1>1. CASE CommandStep
  BY <1>0, <1>1, MaterializeStep, BuildEnds, RenameSteps, PromotedSteps DEF CommandStep
<1>2. CASE Request
  BY <1>0, CandidateEnds, BuildBegins, StartFuseStep, SurroundingSteps, <1>2 DEF Retry,
     Request
<1>3. CASE StatusRead \/ OutsideEdit \/ Crash
  BY <1>0, <1>3, SurroundingSteps
<1>4. CASE UNCHANGED vars
  <2>1. /\ UNCHANGED <<canonical, candidate, archive, op, used, recorded>>
        /\ BrainDirs' = BrainDirs
    BY <1>4 DEF vars, BrainDirs
  <2>2. DirsInPlace' /\ OneDirectoryEach' /\ FuseIsApproved' /\ ArchiveHolds'
    BY <2>1 DEF FuseInvariant, DirsInPlace, OneDirectoryEach, FuseIsApproved, WasApproved,
                ArchiveHolds, Running, Waiting, Promoted
  <2>3. PromotedWasApproved' /\ FuseReplacesBaseline' /\ RecordedVersionsSurvive'
    BY <2>1 DEF FuseInvariant, PromotedWasApproved, WasApproved, FuseReplacesBaseline,
                RecordedVersionsSurvive
  <2>4. QED
    BY <2>2, <2>3 DEF FuseInvariant
<1>5. QED
  BY <1>1, <1>2, <1>3, <1>4 DEF Next

\* The brain a workspace starts with has one version and no candidate.
LEMMA InitInvariant == Init => TypeOK /\ FuseInvariant
<1> SUFFICES ASSUME Init PROVE TypeOK /\ FuseInvariant
  OBVIOUS
<1>1. /\ canonical \in Dir /\ canonical.origin = None /\ canonical.versions = {First}
  BY FirstRecords, NamesDiffer DEF Init, Dir, AnyContent, Shell
<1>2. TypeOK
  BY <1>1, FirstRecords DEF Init, TypeOK, MaybeDir, Idle
<1>3. BrainDirs = {canonical} /\ op.step = "idle" /\ recorded = {First}
  BY <1>1, NoDirIsNoDirectory DEF Init, BrainDirs, Idle
<1>4. DirsInPlace /\ OneDirectoryEach /\ FuseIsApproved /\ ArchiveHolds
  BY <1>1, <1>3 DEF Init, DirsInPlace, OneDirectoryEach, FuseIsApproved, ArchiveHolds,
                    Running, Waiting, Promoted
<1>5. PromotedWasApproved /\ FuseReplacesBaseline /\ RecordedVersionsSurvive
  BY <1>1, <1>3 DEF Init, PromotedWasApproved, FuseReplacesBaseline, RecordedVersionsSurvive
<1>6. QED
  BY <1>2, <1>4, <1>5 DEF FuseInvariant

-----------------------------------------------------------------------------
(* The theorems.                                                           *)

\* The types and the fuse invariant hold in every reachable state, for any
\* number of candidates, versions, crashes, faults, edits and readers.
THEOREM Correctness == Spec => [](TypeOK /\ FuseInvariant)
<1>1. Init => TypeOK /\ FuseInvariant
  BY InitInvariant
<1>2. TypeOK /\ FuseInvariant /\ [Next]_vars => (TypeOK /\ FuseInvariant)'
  BY TypeStep, InvariantStep DEF FuseInvariant
<1>3. QED
  BY <1>1, <1>2, PTL DEF Spec

\* Every variable has its type: the records a crash or an undone fuse leaves
\* behind are always records the next command can read.
THEOREM TypeCorrect == Spec => []TypeOK
  BY Correctness, PTL

\* The human gate: whatever crashes, fails or is retried, only a directory with
\* an APPROVE receipt for its own review packet is ever the brain.
THEOREM HumanGate == Spec => []PromotedWasApproved
<1>1. FuseInvariant => PromotedWasApproved
  BY DEF FuseInvariant
<1>2. QED
  BY <1>1, Correctness, PTL

\* A fuse archives the brain its candidate was compared with.
THEOREM BaselineReplaced == Spec => []FuseReplacesBaseline
<1>1. FuseInvariant => FuseReplacesBaseline
  BY DEF FuseInvariant
<1>2. QED
  BY <1>1, Correctness, PTL

\* No version a command reported as captured is lost.
THEOREM VersionsSurvive == Spec => []RecordedVersionsSurvive
<1>1. FuseInvariant => RecordedVersionsSurvive
  BY DEF FuseInvariant
<1>2. QED
  BY <1>1, Correctness, PTL

\* Recording a state in a candidate changes no receipt.
LEMMA CopyKeepsReceipt ==
    ASSUME TypeOK, NEW c \in Candidates, NEW st \in State, PersistCopy(c, st)
    PROVE  \A o \in Candidates : candidate'[o] # NoDir =>
               candidate[o] # NoDir /\ candidate'[o].receipt = candidate[o].receipt
  BY TypedReads, HistUpdate DEF PersistCopy, TypeOK

\* A step changes a candidate's receipt only where there was none.
LEMMA ReceiptStep ==
    ASSUME TypeOK, FuseInvariant, [Next]_vars
    PROVE  \A o \in Candidates : (candidate[o] # NoDir /\ candidate'[o] # NoDir) =>
               candidate[o].receipt \in {"NONE", candidate'[o].receipt}
<1> DEFINE Same == \A o \in Candidates : (candidate[o] # NoDir /\ candidate'[o] # NoDir) =>
                      candidate[o].receipt \in {"NONE", candidate'[o].receipt}
<1> USE TypedReads
<1>1. CASE UNCHANGED candidate
  BY <1>1
<1>2. ASSUME NEW c \in Candidates, NEW d \in Decisions, WriteReceipt(c, d) PROVE Same
  BY <1>2 DEF WriteReceipt, ReceiptAllows, TypeOK, Dir
<1>3. ASSUME NEW c \in Candidates, StartFuse(c) PROVE Same
  BY <1>3, CopyKeepsReceipt DEF State, Statuses, StartFuse
<1>4. ASSUME NEW c \in Candidates, NEW s, Discard(c, s) PROVE Same
  BY <1>4 DEF Discard, TypeOK
<1>5. ASSUME NEW live, NEW there \in BOOLEAN, FailFuse(live, there), op.cand \in Candidates
      PROVE  Same
  <2> DEFINE st == [op.mem EXCEPT !.status = "FAILED", !.unchanged = there,
                                 !.fuseFailed = TRUE, !.fused = 0,
                                 !.preserved = candidate[op.cand] # NoDir]
  <2>1. st \in State /\ PersistCopy(op.cand, st)
    BY <1>5 DEF FailFuse, State, Statuses
  <2> HIDE DEF st
  <2>2. QED
    BY <1>5, <2>1, CopyKeepsReceipt
<1>6. CASE Materialize \/ UndoPromote
  BY <1>6 DEF Materialize, UndoPromote, Running, FuseInvariant, DirsInPlace, Promoted, TypeOK
<1>7. CASE FinishBuild \/ FailBuild
  <2>1. op.cand \in Candidates
    BY <1>7 DEF FinishBuild, FailBuild, Running, TypeOK
  <2>2. ASSUME NEW s, NEW st, candidate[op.cand] # NoDir,
               candidate' = [candidate EXCEPT ![op.cand] =
                   [candidate[op.cand] EXCEPT !.snap = s, !.hist[op.cand] = st]]
        PROVE Same
    BY <2>1, <2>2 DEF TypeOK, Dir
  <2>3. ASSUME NEW s, NEW st, candidate[op.cand] # NoDir,
               candidate' = [candidate EXCEPT ![op.cand] =
                   [candidate[op.cand] EXCEPT !.snap = s, !.packet = s, !.hist[op.cand] = st]]
        PROVE Same
    BY <2>1, <2>3 DEF TypeOK, Dir
  <2>4. CASE candidate' = [candidate EXCEPT ![op.cand] = NoDir]
    BY <2>1, <2>4 DEF TypeOK
  <2>5. QED
    BY <1>1, <1>7, <2>2, <2>3, <2>4
       DEF FinishBuild, FailBuild, Running, FuseInvariant, DirsInPlace
<1>8. CASE PersistDecision
  BY <1>8, CopyKeepsReceipt DEF PersistDecision, Running, TypeOK
<1>9. CASE ArchiveCanonical \/ PromoteCandidate \/ RestoreArchive \/ UndoArchive
  BY <1>9, <1>1, <1>5 DEF ArchiveCanonical, PromoteCandidate, RestoreArchive, UndoArchive,
     Running, TypeOK
<1>10. CASE CaptureFused \/ CommitFused \/ FinishFuse
  BY <1>1, <1>10 DEF CaptureFused, CommitFused, FinishFuse
<1>11. CASE OutsideEdit
  BY <1>1, <1>11 DEF TypeOK, Dir, OutsideEdit
<1>12. CASE StatusRead \/ Crash \/ UNCHANGED vars
  BY <1>1, <1>12 DEF StatusRead, Crash, vars
<1>13. CASE Request
  <2>1. ASSUME NEW c \in Candidates, RefuseRefresh(c) \/ BeginRefresh(c) PROVE Same
    BY <1>1, <2>1 DEF RefuseRefresh, BeginRefresh
  <2>2. ASSUME NEW c \in Candidates, Drop(c) \/ Cancel(c) \/ Cleanup(c) PROVE Same
    BY <1>1, <1>4, <2>2 DEF Drop, Cancel, Cleanup
  <2>3. ASSUME NEW c \in Candidates,
               \/ \E old \in Candidates : Retry(old, c)
               \/ \E d \in Decisions : WriteReceipt(c, d)
               \/ StartFuse(c)
        PROVE  Same
    BY <1>2, <1>3, <2>1, <2>3 DEF Retry
  <2>4. CASE \/ CaptureVersion \/ MarkGood
             \/ \E s \in Contents : Rebuild(s)
             \/ canonical # NoDir /\ \E v \in canonical.versions : DropVersion(v)
             \/ \E sources \in SUBSET Sources : Register(sources)
    BY <1>1, <2>4 DEF CaptureVersion, MarkGood, Rebuild, DropVersion, Register
  <2>5. QED
    BY <1>13, <2>1, <2>2, <2>3, <2>4 DEF Request
<1>14. QED
  BY <1>6, <1>7, <1>8, <1>9, <1>10, <1>11, <1>12, <1>13 DEF Next, CommandStep

\* A decision receipt is final, though a crash may lose the state it led to.
THEOREM ReceiptsAreFinal == Spec => ReceiptIsFinal
<1>1. TypeOK /\ FuseInvariant /\ [Next]_vars =>
        [\A c \in Candidates : (candidate[c] # NoDir /\ candidate'[c] # NoDir) =>
             candidate[c].receipt \in {"NONE", candidate'[c].receipt}]_vars
  BY ReceiptStep
<1>2. QED
  BY <1>1, Correctness, PTL DEF Spec, ReceiptIsFinal

-----------------------------------------------------------------------------
(* How a fuse ends.                                                        *)

\* The part of FailedFuseKeepsBrain that is about one directory.
KeepsBrain(d) ==
    \A c \in Candidates :
        (d.hist[c].status = "FAILED" /\ d.hist[c].fuseFailed /\ d.hist[c].unchanged)
            => d.snap # Empty

\* The shell a read leaves is as sound as any directory.
LEMMA LiveSound ==
    ASSUME TypeOK, DirsSound
    PROVE  /\ BrainSound(Live) /\ ResumesIn(Live)
           /\ ~ConcurrentReader => KeepsBrain(Live)
  BY DEF Live, Shell, NotStarted, BrainSound, ResumesIn, KeepsBrain, BrainDirs, DirsSound,
     FailedFuseKeepsBrain

\* The directories stay sound when each new one is.
LEMMA DirsStep ==
    ASSUME DirsSound,
           canonical' # NoDir =>
               /\ canonical' = canonical \/ BrainSound(canonical')
               /\ ResumesIn(canonical)'
               /\ ~ConcurrentReader => KeepsBrain(canonical'),
           \A c \in Candidates :
               /\ \/ archive'[c] \in {archive[c], NoDir}
                  \/ archive'[c] = canonical /\ canonical.snap # Empty
               /\ \/ candidate'[c] \in {candidate[c], NoDir}
                  \/ CandidateSound(c, candidate'[c])
    PROVE  DirsSound'
<1>1. \A d \in BrainDirs' : BrainSound(d)
  BY DEF DirsSound, BrainDirs
<1>2. ~ConcurrentReader => FailedFuseKeepsBrain'
  BY DEF FailedFuseKeepsBrain, KeepsBrain
<1>3. \A c \in Candidates :
        /\ candidate'[c] # NoDir => CandidateSound(c, candidate'[c])
        /\ archive'[c] # NoDir => archive'[c].snap # Empty
  BY DEF DirsSound
<1>4. QED
  BY <1>1, <1>2, <1>3 DEF DirsSound

\* A command that is over has nothing in memory and moves nothing.
LEMMA IdleSound == op' = Idle => MemorySound' /\ FuseSound'
  BY DEF Idle, NotStarted, MemorySound, FuseSound, Running, Waiting, Promoted

\* Recording that a candidate is anything but fused, or failed in a fuse, keeps
\* the directories sound, and so does what becomes of that candidate.
LEMMA PersistSound ==
    ASSUME TypeOK, DirsSound, NEW c \in Candidates, NEW st \in State, Persist(c, st),
           st.status # "FUSED", ~(st.status = "FAILED" /\ st.fuseFailed),
           archive' = archive,
           \A e \in Candidates \ {c} : candidate'[e] = candidate[e],
           candidate'[c] \in {candidate[c], NoDir} \/ CandidateSound(c, candidate'[c])
    PROVE  DirsSound'
<1>1. /\ canonical' \in Dir /\ canonical'.snap = Live.snap
      /\ canonical'.versions = Live.versions /\ canonical'.dropped = Live.dropped
      /\ canonical'.packet = Live.packet /\ canonical'.origin = Live.origin
      /\ canonical'.hist[c] = st
      /\ \A o \in Candidates \ {c} : canonical'.hist[o] = Live.hist[o]
  BY TypedReads, HistUpdate DEF Persist
<1>2. BrainSound(canonical') /\ (~ConcurrentReader => KeepsBrain(canonical'))
  BY <1>1, LiveSound DEF BrainSound, KeepsBrain
<1>3. ResumesIn(canonical)'
  BY <1>1, LiveSound DEF ResumesIn, Resumable, CanResume
<1>4. QED
  BY <1>2, <1>3, DirsStep

\* Recording a state in a candidate leaves it where and what it is.
LEMMA CopySound ==
    ASSUME TypeOK, DirsSound, NEW c \in Candidates, NEW st \in State,
           PersistCopy(c, st), st.status # "FUSED"
    PROVE  /\ \A e \in Candidates \ {c} : candidate'[e] = candidate[e]
           /\ candidate'[c] # NoDir <=> candidate[c] # NoDir
           /\ candidate'[c] = candidate[c] \/ CandidateSound(c, candidate'[c])
           /\ candidate[c] # NoDir => /\ candidate'[c].receipt = candidate[c].receipt
                                      /\ candidate'[c].hist[c] = st
<1>1. CASE candidate[c] = NoDir
  BY <1>1 DEF PersistCopy
<1>2. CASE candidate[c] # NoDir
  <2> DEFINE copy == [candidate[c] EXCEPT !.hist[c] = st]
  <2>1. /\ candidate' = [candidate EXCEPT ![c] = copy]
        /\ candidate[c] \in Dir /\ CandidateSound(c, candidate[c])
    BY <1>2, TypedReads DEF PersistCopy, DirsSound
  <2>2. /\ copy \in Dir /\ copy.snap = candidate[c].snap
        /\ copy.versions = candidate[c].versions /\ copy.receipt = candidate[c].receipt
        /\ copy.hist[c] = st
        /\ \A o \in Candidates \ {c} : copy.hist[o] = candidate[c].hist[o]
    BY <2>1, HistUpdate
  <2> HIDE DEF copy
  <2>3. CandidateSound(c, copy)
    BY <2>1, <2>2 DEF CandidateSound
  <2>4. /\ candidate'[c] = copy
        /\ \A e \in Candidates \ {c} : candidate'[e] = candidate[e]
    BY <2>1 DEF TypeOK
  <2>5. QED
    BY <1>2, <2>2, <2>3, <2>4, TypedReads
<1>3. QED
  BY <1>1, <1>2

\* A failed fuse is recorded in a brain that can resume it, or in none.
LEMMA FailureSound ==
    ASSUME TypeOK, DirsSound, op.cand \in Candidates,
           NEW live \in Dir, NEW there \in BOOLEAN, FailFuse(live, there),
           BrainSound(live),
           \A e \in Candidates \ {op.cand} : archive'[e] = archive[e],
           archive'[op.cand] \in {archive[op.cand], NoDir},
           live.snap # Empty =>
               /\ \A e \in Candidates \ {op.cand} :
                      Resumable(live.hist[e]) => CanResume(e)
               /\ there => /\ archive'[op.cand] = NoDir
                           /\ candidate[op.cand] # NoDir
                           /\ candidate[op.cand].receipt = "APPROVE",
           ~ConcurrentReader => KeepsBrain(live) /\ (there => live.snap # Empty)
    PROVE  RecoveryInvariant'
<1> DEFINE st == [op.mem EXCEPT !.status = "FAILED", !.unchanged = there,
                               !.fuseFailed = TRUE, !.fused = 0,
                               !.preserved = candidate[op.cand] # NoDir]
<1>1. st \in State /\ st.status = "FAILED" /\ st.unchanged = there
  BY ZenonT(60), TypedReads DEF State, Statuses
<1>2. /\ canonical' = [live EXCEPT !.hist[op.cand] = st]
      /\ PersistCopy(op.cand, st)
      /\ op' = Idle
  BY DEF FailFuse, Return
<1> HIDE DEF st
<1>3. /\ canonical' \in Dir /\ canonical'.snap = live.snap
      /\ canonical'.versions = live.versions /\ canonical'.dropped = live.dropped
      /\ canonical'.packet = live.packet /\ canonical'.origin = live.origin
      /\ canonical'.hist[op.cand] = st
      /\ \A o \in Candidates \ {op.cand} : canonical'.hist[o] = live.hist[o]
  BY <1>1, <1>2, HistUpdate
<1>4. /\ \A e \in Candidates \ {op.cand} : candidate'[e] = candidate[e]
      /\ candidate'[op.cand] # NoDir <=> candidate[op.cand] # NoDir
      /\ candidate'[op.cand] = candidate[op.cand]
            \/ CandidateSound(op.cand, candidate'[op.cand])
      /\ candidate[op.cand] # NoDir =>
            candidate'[op.cand].receipt = candidate[op.cand].receipt
  BY <1>1, <1>2, CopySound
<1>5. BrainSound(canonical') /\ (~ConcurrentReader => KeepsBrain(canonical'))
  BY <1>1, <1>3 DEF BrainSound, KeepsBrain
<1>6. ResumesIn(canonical)'
  BY <1>1, <1>3, <1>4 DEF ResumesIn, Resumable, CanResume
<1>7. DirsSound'
  BY <1>4, <1>5, <1>6, DirsStep
<1>8. QED
  BY <1>2, <1>7, IdleSound DEF RecoveryInvariant

\* The commands that end a candidate, and the refresh that begins.
LEMMA SoundRequests ==
    ASSUME TypeOK, FuseInvariant, RecoveryInvariant, NEW c \in Candidates
    PROVE  /\ RefuseRefresh(c) => RecoveryInvariant'
           /\ BeginRefresh(c) => RecoveryInvariant'
           /\ Drop(c) \/ Cancel(c) \/ Cleanup(c) => RecoveryInvariant'
           /\ \A d \in Decisions : WriteReceipt(c, d) => RecoveryInvariant'
<1> USE TypedReads DEF RecoveryInvariant
<1>1. ASSUME RefuseRefresh(c) PROVE RecoveryInvariant'
  <2> DEFINE st(b, s) == [NotStarted EXCEPT !.status = s, !.base = b, !.unchanged = TRUE]
  <2>1. PICK b \in canonical.versions, s \in {"QUARANTINED", "FAILED", "NO_CHANGE"} :
          Persist(c, st(b, s))
    BY <1>1 DEF RefuseRefresh
  <2>2. /\ st(b, s) \in State /\ st(b, s).status # "FUSED"
        /\ ~st(b, s).fuseFailed
    <3>1. st(b, s) \in State /\ st(b, s).status = s
      BY ZenonT(60), <1>1, FirstRecords DEF RefuseRefresh, Dir, State, Statuses
    <3>2. st(b, s).fuseFailed = FALSE
      BY DEF NotStarted
    <3>3. QED
      BY <3>1, <3>2
  <2>3. op' = Idle /\ UNCHANGED <<candidate, archive>>
    BY <1>1 DEF RefuseRefresh
  <2>4. DirsSound'
    BY <2>1, <2>2, <2>3, PersistSound
  <2>5. QED
    BY <2>3, <2>4, IdleSound
<1>2. ASSUME BeginRefresh(c) PROVE RecoveryInvariant'
  <2> DEFINE st(b) == [NotStarted EXCEPT !.status = "REFRESHING", !.base = b,
                                         !.accepted = registered,
                                         !.unchanged = TRUE, !.workspace = TRUE]
  <2>1. PICK b \in canonical.versions :
          /\ canonical.snap = b.snap
          /\ Persist(c, st(b))
          /\ op' = [step |-> "materialize", cand |-> c, mem |-> st(b)]
    BY <1>2 DEF BeginRefresh
  <2>2. /\ st(b) \in State /\ st(b).status = "REFRESHING" /\ ~st(b).fuseFailed
        /\ st(b).base = b
    <3>1. st(b) \in State /\ st(b).status = "REFRESHING" /\ st(b).base = b
      BY ZenonT(60), <1>2, FirstRecords DEF BeginRefresh, Dir, State, Statuses, TypeOK
    <3>2. st(b).fuseFailed = FALSE
      BY DEF NotStarted
    <3>3. QED
      BY <3>1, <3>2
  <2>3. UNCHANGED <<candidate, archive>> /\ canonical # NoDir
    BY <1>2 DEF BeginRefresh
  <2>4. b.snap # Empty
    BY <2>3 DEF DirsSound, BrainSound, BrainDirs
  <2>5. DirsSound'
    BY <2>1, <2>2, <2>3, PersistSound
  <2> HIDE DEF st
  <2>6. MemorySound' /\ FuseSound'
    BY <2>1, <2>2, <2>4 DEF MemorySound, FuseSound, Running, Waiting, Promoted
  <2>7. QED
    BY <2>5, <2>6
<1>3. ASSUME NEW s \in Statuses \ {"FUSED", "FAILED"}, Discard(c, s)
      PROVE  RecoveryInvariant'
  <2> DEFINE st == [Hist(c) EXCEPT !.status = s, !.unchanged = TRUE]
  <2>1. st \in State /\ st.status = s
    BY DEF State
  <2>2. /\ Persist(c, st) /\ op' = Idle /\ archive' = archive
        /\ \A e \in Candidates \ {c} : candidate'[e] = candidate[e]
        /\ candidate'[c] \in {candidate[c], NoDir}
    BY <1>3 DEF Discard, TypeOK
  <2> HIDE DEF st
  <2>3. DirsSound'
    BY <2>1, <2>2, PersistSound
  <2>4. QED
    BY <2>2, <2>3, IdleSound
<1>4. ASSUME op = Idle, op' = op, Hist(c).status \in {"REFRESHING", "TESTING"},
             Persist(c, [Hist(c) EXCEPT !.cancel = TRUE]),
             UNCHANGED <<candidate, archive>>
      PROVE  RecoveryInvariant'
  <2> DEFINE st == [Hist(c) EXCEPT !.cancel = TRUE]
  <2>1. st \in State /\ st.status = Hist(c).status
    BY DEF State
  <2>2. Persist(c, st)
    BY <1>4
  <2> HIDE DEF st
  <2>3. DirsSound'
    BY <1>4, <2>1, <2>2, PersistSound
  <2>4. QED
    BY <1>4, <2>3, IdleSound
<1>5. ASSUME Drop(c) \/ Cancel(c) \/ Cleanup(c) PROVE RecoveryInvariant'
  BY <1>3, <1>4, <1>5 DEF Drop, Cancel, Cleanup, Statuses
<1>6. ASSUME NEW d \in Decisions, WriteReceipt(c, d) PROVE RecoveryInvariant'
  <2> DEFINE signed == [candidate[c] EXCEPT !.receipt = d]
             mem == [Hist(c) EXCEPT !.status = DecidedStatus(d), !.decision = d]
  <2>1. /\ candidate[c] \in Dir /\ CandidateSound(c, candidate[c])
        /\ candidate' = [candidate EXCEPT ![c] = signed]
        /\ op' = [step |-> "decide", cand |-> c, mem |-> mem]
        /\ Hist(c).status = "AWAITING_FUSE"
        /\ UNCHANGED <<canonical, archive>>
    BY <1>6 DEF WriteReceipt, DirsSound
  <2>2. /\ signed.snap = candidate[c].snap /\ signed.versions = candidate[c].versions
        /\ signed.hist = candidate[c].hist
    BY <2>1 DEF Dir
  <2>3. mem.status \in {"AWAITING_FUSE", "REJECTED", "SUPERSEDED"}
    BY DEF DecidedStatus, Decisions, State
  <2> HIDE DEF signed, mem
  <2>4. CandidateSound(c, signed)
    BY <2>1, <2>2 DEF CandidateSound
  <2>5. /\ candidate'[c] = signed
        /\ \A e \in Candidates \ {c} : candidate'[e] = candidate[e]
    BY <2>1 DEF TypeOK
  <2>6. canonical # NoDir => ResumesIn(canonical)'
    BY <2>1, <2>5 DEF ResumesIn, Resumable, Hist, DirsSound, CanResume
  <2>7. DirsSound'
    BY <2>1, <2>4, <2>5, <2>6, DirsStep DEF DirsSound, FailedFuseKeepsBrain, KeepsBrain
  <2>8. MemorySound' /\ FuseSound'
    BY <2>1, <2>3 DEF MemorySound, FuseSound, Running, Waiting, Promoted
  <2>9. QED
    BY <2>7, <2>8
<1>7. QED
  BY <1>1, <1>2, <1>5, <1>6

\* The steps of a build and of a decision.
LEMMA SoundBuild ==
    ASSUME TypeOK, FuseInvariant, RecoveryInvariant
    PROVE  Materialize \/ FinishBuild \/ FailBuild \/ PersistDecision
             => RecoveryInvariant'
<1> USE TypedReads DEF RecoveryInvariant
<1>1. ASSUME Materialize PROVE RecoveryInvariant'
  <2> DEFINE st == [op.mem EXCEPT !.status = "TESTING"]
             new == [Shell EXCEPT !.snap = op.mem.base.snap,
                                  !.versions = Live.versions,
                                  !.dropped = Live.dropped,
                                  !.good = Live.good, !.origin = op.cand]
  <2>1. /\ op.cand \in Candidates /\ op.step = "materialize"
        /\ op.mem.base.snap # Empty /\ ~op.mem.fuseFailed
    BY <1>1 DEF Materialize, Running, TypeOK, MemorySound
  <2>2. /\ st \in State /\ st.status = "TESTING" /\ st.fuseFailed = op.mem.fuseFailed
    BY DEF State, Statuses
  <2>3. /\ Persist(op.cand, st) /\ archive' = archive
        /\ candidate' = [candidate EXCEPT ![op.cand] = new]
        /\ op'.step = "build" /\ op'.cand = op.cand /\ op'.mem = st
    BY <1>1 DEF Materialize, TypeOK
  <2>4. CandidateSound(op.cand, new)
    BY <2>1, LiveSound DEF CandidateSound, BrainSound, Shell, NotStarted
  <2> HIDE DEF st, new
  <2>5. /\ candidate'[op.cand] = new
        /\ \A e \in Candidates \ {op.cand} : candidate'[e] = candidate[e]
    BY <2>1, <2>3 DEF TypeOK
  <2>6. DirsSound'
    BY <2>1, <2>2, <2>3, <2>4, <2>5, PersistSound
  <2>7. MemorySound' /\ FuseSound'
    BY <2>1, <2>2, <2>3 DEF MemorySound, FuseSound, Running, Waiting, Promoted
  <2>8. QED
    BY <2>6, <2>7
<1>2. ASSUME FinishBuild PROVE RecoveryInvariant'
  <2> DEFINE st(s) == [op.mem EXCEPT !.status = "AWAITING_FUSE", !.expected = s]
             same == [op.mem EXCEPT !.status = "NO_CHANGE"]
             built(s) == [candidate[op.cand] EXCEPT !.snap = s, !.packet = s,
                                                    !.hist[op.cand] = st(s)]
  <2>1. /\ op.cand \in Candidates /\ candidate[op.cand] \in Dir
        /\ CandidateSound(op.cand, candidate[op.cand])
        /\ op' = Idle /\ archive' = archive
    BY <1>2 DEF FinishBuild, Running, Return, TypeOK, FuseInvariant, DirsInPlace, DirsSound
  <2>2. PICK s \in Contents :
          \/ /\ Persist(op.cand, same)
             /\ candidate' = [candidate EXCEPT ![op.cand] = NoDir]
          \/ /\ Persist(op.cand, st(s))
             /\ candidate' = [candidate EXCEPT ![op.cand] = built(s)]
    BY <1>2 DEF FinishBuild
  <2>3. /\ same \in State /\ same.status = "NO_CHANGE"
        /\ st(s) \in State /\ st(s).status = "AWAITING_FUSE"
    BY DEF State, Statuses, AnyContent
  <2>4. /\ built(s).snap = s /\ built(s).versions = candidate[op.cand].versions
        /\ built(s).hist[op.cand] = st(s)
        /\ \A e \in Candidates \ {op.cand} :
              built(s).hist[e] = candidate[op.cand].hist[e]
    BY <2>1 DEF Dir
  <2> HIDE DEF st, same, built
  <2>5. CandidateSound(op.cand, built(s))
    BY <2>1, <2>3, <2>4, NamesDiffer DEF CandidateSound
  <2>6. /\ candidate'[op.cand] \in {NoDir, built(s)}
        /\ \A e \in Candidates \ {op.cand} : candidate'[e] = candidate[e]
    BY <2>1, <2>2 DEF TypeOK
  <2>7. DirsSound'
    BY <2>1, <2>2, <2>3, <2>5, <2>6, PersistSound
  <2>8. QED
    BY <2>1, <2>7, IdleSound
<1>3. ASSUME FailBuild PROVE RecoveryInvariant'
  <2> DEFINE made == candidate[op.cand] # NoDir
             st == [op.mem EXCEPT !.status = "FAILED", !.preserved = made]
             kept == [candidate[op.cand] EXCEPT !.snap = Unverified,
                                                !.hist[op.cand] = st]
  <2>1. /\ op.cand \in Candidates /\ ~op.mem.fuseFailed
        /\ op' = Idle /\ archive' = archive
    BY <1>3 DEF FailBuild, Return, TypeOK, MemorySound
  <2>2. st \in State /\ st.status = "FAILED" /\ st.fuseFailed = op.mem.fuseFailed
    BY DEF State, Statuses
  <2>3. /\ Persist(op.cand, st)
        /\ candidate' = IF ~made THEN candidate
                         ELSE [candidate EXCEPT ![op.cand] = kept]
    BY <1>3 DEF FailBuild
  <2>4. made => /\ kept.snap = Unverified /\ kept.versions = candidate[op.cand].versions
                /\ kept.hist[op.cand] = st
                /\ \A e \in Candidates \ {op.cand} :
                      kept.hist[e] = candidate[op.cand].hist[e]
    BY <2>1 DEF Dir
  <2>5. made => CandidateSound(op.cand, candidate[op.cand])
    BY <2>1 DEF DirsSound
  <2> HIDE DEF st, kept
  <2>6. made => CandidateSound(op.cand, kept)
    BY <2>1, <2>2, <2>4, <2>5, NamesDiffer DEF CandidateSound
  <2>7. /\ candidate'[op.cand] = candidate[op.cand] \/ (made /\ candidate'[op.cand] = kept)
        /\ \A e \in Candidates \ {op.cand} : candidate'[e] = candidate[e]
    BY <2>1, <2>3 DEF TypeOK
  <2>8. DirsSound'
    BY <2>1, <2>2, <2>3, <2>6, <2>7, PersistSound
  <2>9. QED
    BY <2>1, <2>8, IdleSound
<1>4. ASSUME PersistDecision PROVE RecoveryInvariant'
  BY <1>4, CopySound, PersistSound, IdleSound DEF PersistDecision, Running, Return, TypeOK,
     MemorySound
<1>5. QED
  BY <1>1, <1>2, <1>3, <1>4

\* A fuse begins with a brain that has the content of a version.
LEMMA SoundStart ==
    ASSUME TypeOK, FuseInvariant, RecoveryInvariant, NEW c \in Candidates, StartFuse(c)
    PROVE  RecoveryInvariant'
<1> USE TypedReads DEF RecoveryInvariant
<1> DEFINE fusing == [Hist(c) EXCEPT !.status = "FUSING"]
<1>1. fusing \in State /\ fusing.status = "FUSING"
  BY DEF State, Statuses
<1>2. /\ Hist(c).status \in {"AWAITING_FUSE", "FAILED"}
      /\ candidate[c] # NoDir /\ canonical \in Dir /\ Live = canonical
      /\ Hist(c).base \in canonical.versions /\ canonical.snap = Hist(c).base.snap
      /\ Persist(c, fusing) /\ PersistCopy(c, fusing) /\ archive' = archive
      /\ op' = [step |-> "archive", cand |-> c, mem |-> Hist(c)]
  BY DEF StartFuse, Resumable, BaselineUnchanged
<1> HIDE DEF fusing
<1>3. canonical.snap # Empty
  BY <1>2 DEF DirsSound, BrainSound, BrainDirs
<1>4. canonical'.snap = canonical.snap /\ canonical'.hist[c] = fusing
  BY <1>1, <1>2, HistUpdate DEF Persist
<1>5. candidate'[c].hist[c] = fusing
  BY <1>1, <1>2, CopySound
<1>6. DirsSound'
  BY <1>1, <1>2, CopySound, PersistSound
<1>7. MemorySound' /\ FuseSound'
  BY <1>1, <1>2, <1>3, <1>4, <1>5 DEF MemorySound, FuseSound, Running, Waiting, Promoted
<1>8. QED
  BY <1>6, <1>7

\* The renames of a fuse: what is archived is what may have to come back.
LEMMA SoundRenames ==
    ASSUME TypeOK, FuseInvariant, RecoveryInvariant
    PROVE  /\ ArchiveCanonical \/ PromoteCandidate \/ RestoreArchive => RecoveryInvariant'
           /\ UndoPromote \/ UndoArchive => RecoveryInvariant'
<1> USE TypedReads DEF RecoveryInvariant
<1>1. ASSUME ArchiveCanonical PROVE RecoveryInvariant'
  <2>1. /\ op.cand \in Candidates /\ op.step = "archive" /\ canonical \in Dir
        /\ archive[op.cand] = NoDir /\ candidate[op.cand] # NoDir
        /\ candidate[op.cand].receipt = "APPROVE"
        /\ candidate[op.cand].hist[op.cand].status # "FAILED"
        /\ canonical.snap # Empty /\ canonical.hist[op.cand].status # "FAILED"
        /\ ResumesIn(canonical) /\ BrainSound(canonical)
        /\ ~ConcurrentReader => KeepsBrain(canonical)
    BY <1>1, LiveSound
       DEF ArchiveCanonical, Running, TypeOK, FuseInvariant, DirsInPlace, FuseIsApproved,
           WasApproved, Waiting, FuseSound
  <2>2. CASE /\ archive' = [archive EXCEPT ![op.cand] = canonical]
             /\ canonical' = NoDir
             /\ GoTo("promote")
             /\ UNCHANGED <<candidate, faults>>
    <3>1. /\ archive'[op.cand] = canonical
          /\ \A e \in Candidates \ {op.cand} : archive'[e] = archive[e]
          /\ op'.step = "promote" /\ op'.cand = op.cand /\ op'.mem = op.mem
      BY <2>1, <2>2 DEF TypeOK, GoTo
    <3>2. DirsSound'
      BY <2>1, <2>2, <3>1, DirsStep
    <3>3. MemorySound'
      BY <3>1 DEF MemorySound, Running
    <3>4. FuseSound'
      BY <2>1, <2>2, <3>1
         DEF FuseSound, ResumesIn, CanResume, Resumable, Running, Waiting, Promoted
    <3>5. QED
      BY <3>2, <3>3, <3>4
  <2>3. CASE Fault /\ FailFuse(canonical, TRUE) /\ UNCHANGED archive
    BY <2>1, <2>3, FailureSound DEF ResumesIn
  <2>4. QED
    BY <1>1, <2>2, <2>3 DEF ArchiveCanonical
<1>2. ASSUME PromoteCandidate PROVE RecoveryInvariant'
  <2>1. /\ op.cand \in Candidates /\ op.step = "promote"
        /\ candidate[op.cand] \in Dir /\ CandidateSound(op.cand, candidate[op.cand])
        /\ candidate[op.cand].hist[op.cand].status # "FAILED"
        /\ archive' = archive
    BY <1>2 DEF PromoteCandidate, Running, TypeOK, FuseInvariant, DirsInPlace, Waiting,
                DirsSound, FuseSound
  <2>2. CASE /\ canonical = NoDir
             /\ canonical' = candidate[op.cand]
             /\ candidate' = [candidate EXCEPT ![op.cand] = NoDir]
             /\ GoTo("capture")
    <3>1. /\ candidate'[op.cand] = NoDir
          /\ \A e \in Candidates \ {op.cand} : candidate'[e] = candidate[e]
          /\ op'.step = "capture" /\ op'.cand = op.cand /\ op'.mem = op.mem
      BY <2>1, <2>2 DEF TypeOK, GoTo
    <3>2. /\ canonical'.snap # Empty /\ BrainSound(canonical') /\ KeepsBrain(canonical')
          /\ \A e \in Candidates : canonical'.hist[e].status \notin {"FAILED", "FUSED"}
      BY <2>1, <2>2 DEF CandidateSound, BrainSound, KeepsBrain
    <3>3. ResumesIn(canonical)'
      BY <3>2 DEF ResumesIn, Resumable
    <3>4. DirsSound'
      BY <2>1, <3>1, <3>2, <3>3, DirsStep
    <3>5. MemorySound'
      BY <3>1 DEF MemorySound, Running
    <3>6. FuseSound'
      BY <2>1, <3>1, <3>2 DEF FuseSound, CanResume, Running, Waiting, Promoted
    <3>7. QED
      BY <3>4, <3>5, <3>6
  <2>3. CASE GoTo("restore") /\ UNCHANGED <<canonical, candidate>>
    BY <2>3, <2>1 DEF TypeOK, GoTo, DirsSound, BrainDirs, ResumesIn, CanResume,
       FailedFuseKeepsBrain, MemorySound, Running, FuseSound, Waiting, Promoted
  <2>4. QED
    BY <1>2, <2>2, <2>3 DEF PromoteCandidate
<1>3. ASSUME op.step \in {"restore", "undoArchive"}, canonical = NoDir,
             FailFuse(archive[op.cand], TRUE),
             archive' = [archive EXCEPT ![op.cand] = NoDir]
      PROVE  RecoveryInvariant'
  BY <1>3, InvariantReads, FailureSound DEF TypeOK, FuseInvariant, DirsInPlace,
     FuseIsApproved, WasApproved, Waiting, FuseSound, Running, DirsSound, KeepsBrain
<1>4. ASSUME RestoreArchive PROVE RecoveryInvariant'
  BY <1>4, <1>3, LiveSound, FailureSound DEF RestoreArchive, Running, TypeOK, FuseSound,
     Live, Shell
<1>5. ASSUME op' = Idle, UNCHANGED <<canonical, candidate, archive>>
      PROVE  RecoveryInvariant'
  <2>1. DirsSound'
    BY <1>5 DEF DirsSound, BrainDirs, ResumesIn, CanResume, FailedFuseKeepsBrain
  <2>2. QED
    BY <1>5, <2>1, IdleSound
<1>6. ASSUME UndoPromote PROVE RecoveryInvariant'
  <2>1. /\ op.cand \in Candidates /\ op.step = "undoPromote" /\ canonical \in Dir
        /\ canonical.snap # Empty /\ BrainSound(canonical)
        /\ \A e \in Candidates : canonical.hist[e].status \notin {"FAILED", "FUSED"}
        /\ canonical.origin = op.cand /\ archive' = archive
    BY <1>6, LiveSound
       DEF UndoPromote, Running, TypeOK, FuseInvariant, DirsInPlace, OneDirectoryEach,
           Promoted, FuseSound
  <2>2. canonical.receipt = "APPROVE"
    BY <2>1, NamesDiffer, InvariantReads
       DEF FuseInvariant, PromotedWasApproved, WasApproved
  <2>3. CASE /\ candidate' = [candidate EXCEPT ![op.cand] = canonical]
             /\ canonical' = NoDir
             /\ GoTo("undoArchive")
    BY <2>1, <2>3, DirsStep, <2>2 DEF TypeOK, GoTo, CandidateSound, BrainSound,
       MemorySound, Running, FuseSound, CanResume, Waiting, Promoted
  <2>4. CASE Return /\ UNCHANGED <<canonical, candidate>>
    BY <1>5, <2>1, <2>4 DEF Return
  <2>5. QED
    BY <1>6, <2>3, <2>4 DEF UndoPromote
<1>7. ASSUME UndoArchive PROVE RecoveryInvariant'
  BY <1>7, <1>3, <1>5 DEF UndoArchive, Running, Return
<1>8. QED
  BY <1>1, <1>2, <1>4, <1>6, <1>7

\* A change of the brain that leaves its records alone, keeps an empty one empty
\* and any other with content, and captures no empty version.
LEMMA ContentStep ==
    ASSUME DirsSound, canonical \in Dir,
           canonical'.hist = canonical.hist, canonical'.packet = canonical.packet,
           canonical'.origin = canonical.origin,
           canonical.snap = Empty <=> canonical'.snap = Empty,
           \A v \in canonical'.versions : v.snap # Empty,
           canonical.versions \cup canonical.dropped
               \subseteq canonical'.versions \cup canonical'.dropped,
           canonical # NoDir, UNCHANGED <<candidate, archive>>
    PROVE  DirsSound'
<1>1. /\ BrainSound(canonical) /\ ResumesIn(canonical)
      /\ ~ConcurrentReader => KeepsBrain(canonical)
  BY DEF DirsSound, BrainDirs, FailedFuseKeepsBrain, KeepsBrain
<1>2. BrainSound(canonical') /\ (~ConcurrentReader => KeepsBrain(canonical'))
  BY <1>1 DEF BrainSound, KeepsBrain
<1>3. ResumesIn(canonical)'
  BY <1>1 DEF ResumesIn, CanResume, Resumable
<1>4. QED
  BY <1>2, <1>3, DirsStep

\* The steps after the promotion: the version of a fuse that is recorded as
\* FUSED is the one the capture compared with the review packet.
LEMMA SoundPromoted ==
    ASSUME TypeOK, FuseInvariant, RecoveryInvariant
    PROVE  CaptureFused \/ CommitFused \/ FinishFuse => RecoveryInvariant'
<1> USE TypedReads DEF RecoveryInvariant
<1>1. ASSUME op.step \in Promoted
      PROVE  /\ op.cand \in Candidates /\ canonical \in Dir /\ Live = canonical
             /\ canonical.origin = op.cand /\ op.mem.expected = canonical.packet
             /\ canonical.snap # Empty
             /\ BrainSound(canonical) /\ ResumesIn(canonical)
             /\ \A e \in Candidates : canonical.hist[e].status \notin {"FAILED", "FUSED"}
  BY <1>1, LiveSound
     DEF FuseInvariant, DirsInPlace, OneDirectoryEach, FuseIsApproved, TypeOK, Promoted,
         FuseSound
<1>2. ASSUME op.step \in Promoted, op'.step \in Promoted, op'.cand = op.cand,
             canonical'.hist = canonical.hist, canonical'.snap = canonical.snap,
             UNCHANGED <<candidate, archive>>
      PROVE  FuseSound'
  BY <1>1, <1>2 DEF FuseSound, CanResume, Running, Waiting, Promoted
<1>3. ASSUME op.step \in Promoted, Undo, canonical'.hist = canonical.hist,
             canonical'.snap = canonical.snap, UNCHANGED <<candidate, archive>>, DirsSound'
      PROVE  RecoveryInvariant'
  BY <1>3, <1>2 DEF Undo, GoTo, TypeOK, Promoted, MemorySound, Running
<1>4. ASSUME op.step \in Promoted, canonical' = canonical, UNCHANGED <<candidate, archive>>
      PROVE  DirsSound'
  BY <1>4 DEF DirsSound, BrainDirs, ResumesIn, CanResume, FailedFuseKeepsBrain
<1>5. ASSUME CaptureFused PROVE RecoveryInvariant'
  <2>1. op.step \in Promoted /\ UNCHANGED <<candidate, archive, registered>>
    BY <1>5 DEF CaptureFused, Running, Promoted
  <2>2. CASE Undo /\ UNCHANGED canonical
    BY <1>3, <1>4, <2>1, <2>2
  <2>3. ASSUME NEW v \in Captures(canonical),
               canonical' = WithVersion(canonical, v),
               op' = [op EXCEPT !.mem.fused = v.id,
                                !.step = IF CapturedAsReviewed(v)
                                         THEN "commit" ELSE "undoPromote"]
        PROVE  RecoveryInvariant'
    <3>1. v \in Version /\ v.snap = canonical.snap
      BY <1>1, <2>1, <2>3, CaptureTypes DEF TypeOK
    <3>2. canonical' = [canonical EXCEPT !.versions = canonical.versions \cup {v}]
      BY <1>1, <2>1, <2>3, <3>1, CaptureTypes DEF TypeOK
    <3>3. /\ canonical'.hist = canonical.hist /\ canonical'.packet = canonical.packet
          /\ canonical'.origin = canonical.origin /\ canonical'.snap = canonical.snap
          /\ canonical'.versions = canonical.versions \cup {v}
          /\ canonical'.dropped = canonical.dropped
      BY <1>1, <2>1, <3>2 DEF Dir
    <3>4. DirsSound'
      BY <1>1, <2>1, <3>1, <3>3, ContentStep DEF BrainSound
    <3>5. /\ op'.step \in {"commit", "undoPromote"} /\ op'.cand = op.cand
          /\ op'.step = "commit" => v.snap = op.mem.expected
          /\ op'.mem.expected = op.mem.expected /\ op'.mem.status = op.mem.status
          /\ op'.mem.fused = v.id
      BY <2>3 DEF TypeOK, State, CapturedAsReviewed
    <3>6. FuseSound'
      BY <1>2, <2>1, <3>3, <3>5 DEF Promoted
    <3>7. MemorySound'
      BY <3>3, <3>5 DEF MemorySound, Running
    <3>8. QED
      BY <3>4, <3>6, <3>7
  <2>4. QED
    BY <1>5, <2>2, <2>3 DEF CaptureFused
<1>6. ASSUME CommitFused PROVE RecoveryInvariant'
  <2>1. /\ op.step = "commit" /\ op.step \in Promoted
        /\ UNCHANGED <<candidate, archive>>
    BY <1>6 DEF CommitFused, Running, Promoted
  <2>2. PICK g \in {canonical.good, op.mem.fused} :
          canonical' = [canonical EXCEPT !.good = g]
    BY <1>6 DEF CommitFused
  <2>3. /\ canonical'.hist = canonical.hist /\ canonical'.packet = canonical.packet
        /\ canonical'.origin = canonical.origin /\ canonical'.snap = canonical.snap
        /\ canonical'.versions = canonical.versions
        /\ canonical'.dropped = canonical.dropped
    BY <1>1, <2>1, <2>2 DEF Dir
  <2>4. DirsSound'
    BY <1>1, <2>1, <2>3, ContentStep DEF BrainSound
  <2>5. CASE registered' = CommittedSources /\ GoTo("finish")
    BY <2>5, <1>2, <2>1, <2>3, <2>4 DEF GoTo, TypeOK, Promoted, MemorySound, Running,
       CommittedSources
  <2>6. CASE Undo
    BY <1>3, <2>1, <2>3, <2>4, <2>6
  <2>7. QED
    BY <1>6, <2>5, <2>6 DEF CommitFused
<1>7. ASSUME FinishFuse PROVE RecoveryInvariant'
  <2> DEFINE st == [op.mem EXCEPT !.status = "FUSED", !.unchanged = FALSE]
  <2>1. /\ op.step = "finish" /\ op.step \in Promoted
        /\ UNCHANGED <<candidate, archive>>
    BY <1>7 DEF FinishFuse, Running, Promoted
  <2>2. CASE Undo /\ UNCHANGED canonical
    BY <1>3, <1>4, <2>1, <2>2
  <2>3. CASE Persist(op.cand, st) /\ Return
    <3>1. st \in State /\ st.status = "FUSED" /\ st.fused = op.mem.fused
      BY DEF State, Statuses
    <3>2. canonical' = [canonical EXCEPT !.hist[op.cand] = st]
      BY <1>1, <2>1, <2>3 DEF Persist
    <3> HIDE DEF st
    <3>3. /\ canonical'.snap = canonical.snap /\ canonical'.versions = canonical.versions
          /\ canonical'.dropped = canonical.dropped
          /\ canonical'.packet = canonical.packet /\ canonical'.origin = canonical.origin
          /\ canonical'.hist[op.cand] = st
          /\ \A o \in Candidates \ {op.cand} : canonical'.hist[o] = canonical.hist[o]
      BY <1>1, <2>1, <3>1, <3>2, HistUpdate
    <3>4. PICK v \in canonical.versions : v.id = op.mem.fused /\ v.snap = op.mem.expected
      BY <2>1 DEF MemorySound
    <3>5. BrainSound(canonical')
      BY <1>1, <2>1, <3>1, <3>3, <3>4 DEF BrainSound
    <3>6. ResumesIn(canonical)' /\ KeepsBrain(canonical')
      BY <1>1, <2>1, <3>1, <3>3 DEF ResumesIn, Resumable, KeepsBrain
    <3>7. DirsSound'
      BY <2>1, <3>5, <3>6, DirsStep
    <3>8. QED
      BY <2>3, <3>7, IdleSound DEF Return
  <2>4. QED
    BY <1>7, <2>2, <2>3 DEF FinishFuse
<1>8. QED
  BY <1>5, <1>6, <1>7

\* The other commands and the surroundings.
LEMMA SoundSurroundings ==
    ASSUME TypeOK, FuseInvariant, RecoveryInvariant
    PROVE  /\ CaptureVersion \/ MarkGood => RecoveryInvariant'
           /\ \A s \in Contents : Rebuild(s) => RecoveryInvariant'
           /\ \A v : DropVersion(v) => RecoveryInvariant'
           /\ \A sources \in SUBSET Sources : Register(sources) => RecoveryInvariant'
           /\ StatusRead \/ OutsideEdit \/ Crash => RecoveryInvariant'
<1> USE TypedReads DEF RecoveryInvariant
<1>1. canonical # NoDir => BrainSound(canonical)
  BY DEF DirsSound, BrainDirs
<1>2. ASSUME NEW d \in Dir, NEW v \in Captures(d), d.snap # Empty,
             canonical' = WithVersion(d, v)
      PROVE  /\ canonical'.hist = d.hist /\ canonical'.packet = d.packet
             /\ canonical'.origin = d.origin /\ canonical'.snap = d.snap
             /\ canonical'.versions = d.versions \cup {v} /\ v.snap # Empty
             /\ canonical'.dropped = d.dropped
  BY CaptureTypes, <1>2 DEF TypeOK, Dir
<1>3. ASSUME CaptureVersion PROVE RecoveryInvariant'
  BY <1>3, <1>1, <1>2, ContentStep, IdleSound DEF CaptureVersion, BrainSound
<1>4. ASSUME MarkGood PROVE RecoveryInvariant'
  BY <1>4, <1>1, ContentStep, IdleSound DEF MarkGood, Dir, BrainSound
<1>5. ASSUME NEW s \in Contents, Rebuild(s) PROVE RecoveryInvariant'
  <2> DEFINE built == [canonical EXCEPT !.snap = s]
  <2>1. /\ canonical \in Dir /\ canonical.snap # Empty /\ op' = Idle
        /\ UNCHANGED <<candidate, archive>>
    BY <1>5 DEF Rebuild
  <2>2. /\ built \in Dir /\ built.snap = s
        /\ built.hist = canonical.hist /\ built.packet = canonical.packet
        /\ built.origin = canonical.origin /\ built.versions = canonical.versions
        /\ built.dropped = canonical.dropped
    BY <2>1 DEF Dir, AnyContent
  <2>3. built.snap # Empty
    BY <2>2, NamesDiffer
  <2>4. CASE \E v \in Captures(built) : canonical' = WithVersion(built, v)
    <3> HIDE DEF built
    <3>1. PICK v \in Captures(built) : canonical' = WithVersion(built, v)
      BY <2>4
    <3>2. /\ canonical'.hist = built.hist /\ canonical'.packet = built.packet
          /\ canonical'.origin = built.origin /\ canonical'.snap = built.snap
          /\ canonical'.versions = built.versions \cup {v} /\ v.snap # Empty
          /\ canonical'.dropped = built.dropped
      BY <1>2, <2>2, <2>3, <3>1
    <3>3. DirsSound'
      BY <1>1, <2>1, <2>2, <2>3, <3>2, ContentStep DEF BrainSound
    <3>4. QED
      BY <2>1, <3>3, IdleSound
  <2>5. CASE canonical' = built
    <3> HIDE DEF built
    <3>1. DirsSound'
      BY <1>1, <2>1, <2>2, <2>3, <2>5, ContentStep DEF BrainSound
    <3>2. QED
      BY <2>1, <3>1, IdleSound
  <2>6. QED
    BY <1>5, <2>4, <2>5 DEF Rebuild
<1>6. ASSUME NEW v, DropVersion(v) PROVE RecoveryInvariant'
  BY <1>6, <1>1, ContentStep, IdleSound DEF DropVersion, Dir, BrainSound
<1>7. ASSUME op' = Idle, UNCHANGED <<canonical, candidate, archive>>
      PROVE  RecoveryInvariant'
  <2>1. DirsSound'
    BY <1>7 DEF DirsSound, BrainDirs, ResumesIn, CanResume, FailedFuseKeepsBrain
  <2>2. QED
    BY <1>7, <2>1, IdleSound
<1>8. ASSUME StatusRead PROVE RecoveryInvariant'
  <2>1. /\ canonical = NoDir /\ canonical' = Shell /\ Live = Shell
        /\ op = Idle \/ ConcurrentReader
        /\ UNCHANGED <<candidate, archive, registered, op>>
    BY <1>8 DEF StatusRead, Live
  <2>2. /\ Shell.snap = Empty /\ BrainSound(Shell)
        /\ ~ConcurrentReader => KeepsBrain(Shell)
    BY <2>1, LiveSound DEF Shell
  <2>3. ResumesIn(canonical)'
    BY <2>1, <2>2 DEF ResumesIn
  <2>4. DirsSound'
    BY <2>1, <2>2, <2>3, DirsStep
  <2>5. op.step \notin Promoted \cup {"archive"}
    BY <2>1 DEF FuseInvariant, DirsInPlace, Running, Promoted
  <2>6. MemorySound'
    BY <2>1, <2>5 DEF MemorySound, Running, Promoted
  <2>7. CASE op = Idle
    BY <2>1, <2>4, <2>7, IdleSound
  <2>8. CASE ConcurrentReader
    <3>1. FuseSound'
      BY <2>1, <2>2, <2>5, <2>8 DEF FuseSound, CanResume, Running, Waiting, Promoted
    <3>2. QED
      BY <2>4, <2>6, <3>1
  <2>9. QED
    BY <2>1, <2>7, <2>8
<1>9. ASSUME OutsideEdit PROVE RecoveryInvariant'
  <2>1. UNCHANGED <<archive, op, registered>>
    BY <1>9 DEF OutsideEdit
  <2>2. CASE /\ canonical # NoDir /\ canonical.snap # Empty
             /\ canonical' = [canonical EXCEPT !.snap = Unverified]
             /\ UNCHANGED candidate
    BY <2>2, NamesDiffer, <1>1, <2>1, ContentStep DEF Dir, BrainSound, FuseSound,
       MemorySound, Running, CanResume, Waiting, Promoted
  <2>3. ASSUME NEW c \in Candidates, candidate[c] # NoDir,
               candidate' = [candidate EXCEPT ![c] = [candidate[c] EXCEPT !.snap = Unverified]],
               UNCHANGED canonical
        PROVE  RecoveryInvariant'
    <3> DEFINE edited == [candidate[c] EXCEPT !.snap = Unverified]
    <3>1. /\ edited.hist = candidate[c].hist /\ edited.receipt = candidate[c].receipt
          /\ edited.versions = candidate[c].versions /\ edited.snap = Unverified
          /\ edited \in Dir
      BY <2>3 DEF Dir, AnyContent
    <3>2. /\ candidate'[c] = edited /\ edited # NoDir
          /\ \A o \in Candidates \ {c} : candidate'[o] = candidate[o]
      BY <2>3, <3>1 DEF TypeOK
    <3> HIDE DEF edited
    <3>3. CandidateSound(c, edited)
      BY <2>3, <3>1, NamesDiffer DEF DirsSound, CandidateSound
    <3>4. \A e \in Candidates : /\ CanResume(e) => CanResume(e)'
                                /\ candidate'[e].hist = candidate[e].hist
                                /\ candidate'[e].receipt = candidate[e].receipt
      BY <2>1, <2>3, <3>1, <3>2 DEF CanResume
    <3>5. canonical # NoDir => ResumesIn(canonical)'
      BY <2>3, <3>4 DEF DirsSound, ResumesIn, Resumable
    <3>6. DirsSound'
      BY <2>1, <2>3, <3>2, <3>3, <3>5, DirsStep
         DEF DirsSound, FailedFuseKeepsBrain, KeepsBrain
    <3>7. MemorySound'
      BY <2>1, <2>3 DEF MemorySound, Running
    <3>8. op.step # "idle" => op.cand \in Candidates
      BY DEF TypeOK
    <3>9. FuseSound'
      BY <2>1, <2>3, <3>4, <3>8 DEF FuseSound, Resumable, Running, Waiting, Promoted
    <3>10. QED
      BY <3>6, <3>7, <3>9
  <2>4. QED
    BY <1>9, <2>2, <2>3 DEF OutsideEdit
<1>10. ASSUME Crash PROVE RecoveryInvariant'
  BY <1>7, <1>10 DEF Crash, Return
<1>11. ASSUME NEW sources \in SUBSET Sources, Register(sources) PROVE RecoveryInvariant'
  BY <1>7, <1>11 DEF Register
<1>12. QED
  BY <1>3, <1>4, <1>5, <1>6, <1>8, <1>9, <1>10, <1>11

\* Every step keeps the invariant.
LEMMA RecoveryStep ==
    TypeOK /\ FuseInvariant /\ RecoveryInvariant /\ [Next]_vars => RecoveryInvariant'
<1> SUFFICES ASSUME TypeOK, FuseInvariant, RecoveryInvariant, [Next]_vars
             PROVE  RecoveryInvariant'
  OBVIOUS
<1>1. CASE CommandStep
  BY <1>1, SoundBuild, SoundRenames, SoundPromoted DEF CommandStep
<1>2. CASE Request
  BY SoundRequests, SoundStart, SoundSurroundings, <1>2 DEF Retry, Request
<1>3. CASE StatusRead \/ OutsideEdit \/ Crash
  BY <1>3, SoundSurroundings
<1>4. CASE UNCHANGED vars
  BY <1>4 DEF vars, RecoveryInvariant, DirsSound, BrainDirs, ResumesIn, CanResume,
     FailedFuseKeepsBrain, MemorySound, FuseSound, Running, Waiting, Promoted
<1>5. QED
  BY <1>1, <1>2, <1>3, <1>4 DEF Next

\* The brain a workspace starts with has no refresh to remember.
LEMMA InitRecovery == Init => RecoveryInvariant
<1> SUFFICES ASSUME Init PROVE RecoveryInvariant
  OBVIOUS
<1>1. /\ canonical.hist = [c \in Candidates |-> NotStarted]
      /\ canonical.versions = {First} /\ First.snap # Empty
      /\ BrainDirs \subseteq {canonical}
  BY NamesDiffer DEF Init, Shell, First, BrainDirs
<1>2. \A c \in Candidates : canonical.hist[c].status = "NOT_STARTED"
  <2>1. NotStarted.status = "NOT_STARTED"
    BY DEF NotStarted
  <2>2. QED
    BY <1>1, <2>1
<1>3. DirsSound
  BY <1>1, <1>2
     DEF Init, DirsSound, BrainSound, ResumesIn, Resumable, FailedFuseKeepsBrain
<1>4. MemorySound /\ FuseSound
  BY DEF Init, Idle, NotStarted, MemorySound, FuseSound, Running, Waiting, Promoted
<1>5. QED
  BY <1>3, <1>4 DEF RecoveryInvariant

\* The invariant of how a fuse ends holds in every reachable state.
THEOREM Recovery == Spec => []RecoveryInvariant
<1>1. Init => RecoveryInvariant
  BY InitRecovery
<1>2. TypeOK /\ FuseInvariant /\ RecoveryInvariant /\ [Next]_vars => RecoveryInvariant'
  BY RecoveryStep
<1>3. QED
  BY <1>1, <1>2, Correctness, PTL DEF Spec

\* A fuse recorded as FUSED captured, as its version, the content of the review
\* packet, whatever outside edits, crashes and undone fuses came in between.
THEOREM FusedIsReviewed == Spec => []FusedVersionIsReviewed
<1>1. RecoveryInvariant => FusedVersionIsReviewed
  BY DEF RecoveryInvariant, DirsSound, BrainSound, FusedVersionIsReviewed
<1>2. QED
  BY <1>1, Recovery, PTL

\* A fuse recorded as failed with the verified brain unchanged has left a brain,
\* provided no other process reads the status while the fuse runs.
THEOREM FailureKeepsBrain ==
    ASSUME ~ConcurrentReader
    PROVE  Spec => []FailedFuseKeepsBrain
<1>1. RecoveryInvariant => FailedFuseKeepsBrain
  BY DEF RecoveryInvariant, DirsSound
<1>2. QED
  BY <1>1, Recovery, PTL

\* A fuse recorded as resumable can be resumed, with or without a reader: the
\* archive is free and the candidate in its place with its approval.
THEOREM FuseCanResume == Spec => []ResumeIsPossible
<1>1. RecoveryInvariant => ResumeIsPossible
  BY DEF RecoveryInvariant, DirsSound, ResumesIn, CanResume, ResumeIsPossible
<1>2. QED
  BY <1>1, Recovery, PTL

\* Only the last step of a fuse records the running candidate as FUSED.
LEMMA OnlyFinishFuses ==
    ASSUME TypeOK, FuseInvariant, RecoveryInvariant, Next,
           NEW c \in Candidates, c = op.cand,
           Hist(c)'.status = "FUSED", Hist(c).status # "FUSED"
    PROVE  FinishFuse
<1> USE TypedReads
<1>1. canonical' = canonical => FALSE
  BY DEF Hist, Live
<1>2. ASSUME NEW d \in Candidates, NEW st \in State, Persist(d, st), st.status # "FUSED"
      PROVE  FALSE
  <2>1. /\ canonical' \in Dir /\ canonical'.hist[d] = st
        /\ \A o \in Candidates \ {d} : canonical'.hist[o] = Live.hist[o]
    BY SMTT(30), <1>2, HistUpdate DEF Persist
  <2>2. Live' = canonical'
    BY <2>1, NoDirIsNoDirectory DEF Live
  <2>3. QED
    BY <1>2, <2>1, <2>2 DEF Hist
<1>3. canonical' # NoDir /\ canonical'.hist[c].status = "FUSED"
  BY DEF Hist, Live, Shell, NotStarted
<1>4. ASSUME NEW live \in Dir, NEW there \in BOOLEAN, FailFuse(live, there) PROVE FALSE
  <2> DEFINE st == [op.mem EXCEPT !.status = "FAILED", !.unchanged = there,
                                 !.fuseFailed = TRUE, !.fused = 0,
                                 !.preserved = candidate[op.cand] # NoDir]
  <2>1. st \in State /\ st.status = "FAILED"
    BY ZenonT(60) DEF State, Statuses
  <2>2. canonical' = [live EXCEPT !.hist[op.cand] = st]
    BY <1>4 DEF FailFuse
  <2> HIDE DEF st
  <2>3. canonical'.hist[op.cand] = st
    BY <2>1, <2>2, HistUpdate
  <2>4. QED
    BY <1>3, <2>1, <2>3
<1>5. ASSUME canonical \in Dir, canonical'.hist = canonical.hist PROVE FALSE
  BY <1>3, <1>5 DEF Hist, Live
<1>6. CASE CommandStep
  <2>1. CASE Materialize \/ FinishBuild \/ FailBuild \/ PersistDecision
    <3>1. op.mem.status # "FUSED"
      BY DEF RecoveryInvariant, MemorySound
    <3>2. /\ \A s \in Statuses : [op.mem EXCEPT !.status = s] \in State
                                 /\ [op.mem EXCEPT !.status = s].status = s
          /\ \A s \in Contents :
                LET st == [op.mem EXCEPT !.status = "AWAITING_FUSE", !.expected = s]
                IN  st \in State /\ st.status = "AWAITING_FUSE"
          /\ \A made \in BOOLEAN :
                LET st == [op.mem EXCEPT !.status = "FAILED", !.preserved = made]
                IN  st \in State /\ st.status = "FAILED"
      BY ZenonT(60) DEF State, Statuses, AnyContent
    <3>3. QED
      BY <1>2, <2>1, <3>1, <3>2
         DEF Materialize, FinishBuild, FailBuild, PersistDecision, Statuses
  <2>2. CASE ArchiveCanonical
    BY <1>3, <1>4, <2>2 DEF ArchiveCanonical, FuseInvariant, DirsInPlace
  <2>3. CASE PromoteCandidate
    BY <1>1, <1>3, <2>3
       DEF PromoteCandidate, Running, FuseInvariant, DirsInPlace, Waiting,
           RecoveryInvariant, DirsSound, CandidateSound
  <2>4. CASE RestoreArchive \/ UndoArchive
    BY <1>1, <1>4, <2>4
       DEF RestoreArchive, UndoArchive, Running, FuseInvariant, DirsInPlace
  <2>5. CASE CaptureFused
    <3>1. canonical \in Dir
      BY <2>5 DEF CaptureFused, Running, FuseInvariant, DirsInPlace, Promoted
    <3>2. PICK v \in Captures(canonical) : canonical' = WithVersion(canonical, v)
      BY <1>1, <2>5 DEF CaptureFused
    <3>3. v \in Version
      BY <3>1, <3>2, CaptureTypes DEF TypeOK
    <3>4. canonical' = [canonical EXCEPT !.versions = canonical.versions \cup {v}]
      BY <3>1, <3>2, <3>3, CaptureTypes DEF TypeOK
    <3>5. QED
      BY <1>5, <3>1, <3>4 DEF Dir
  <2>6. CASE CommitFused
    BY <1>5, <2>6 DEF CommitFused, Running, FuseInvariant, DirsInPlace, Promoted, Dir
  <2>7. CASE UndoPromote
    BY <1>1, <1>3, <2>7 DEF UndoPromote
  <2>8. QED
    BY <1>6, <2>1, <2>2, <2>3, <2>4, <2>5, <2>6, <2>7 DEF CommandStep
<1>7. CASE Request
  <2>1. op = Idle
    BY <1>1, <1>7
       DEF Request, RefuseRefresh, BeginRefresh, Retry, WriteReceipt, StartFuse, Drop,
           Cancel, Cleanup, Discard, CaptureVersion, MarkGood, Rebuild, DropVersion, Register
  <2>2. QED
    BY <2>1, NamesDiffer DEF Idle
<1>8. CASE StatusRead
  BY <1>3, <1>8 DEF StatusRead, Shell, NotStarted
<1>9. CASE OutsideEdit
  BY <1>1, <1>5, <1>9 DEF OutsideEdit, Dir
<1>10. CASE Crash
  BY <1>1, <1>10 DEF Crash
<1>11. QED
  BY <1>6, <1>7, <1>8, <1>9, <1>10 DEF Next

\* The sources a fuse leaves registered are the ones its candidate was built
\* from: between the commit and the record of success nothing registers another.
THEOREM FuseCommitsSources == Spec => FuseCommitsReviewedSources
<1>1. ASSUME TypeOK, FuseInvariant, RecoveryInvariant, [Next]_vars
      PROVE  [\A c \in Candidates :
                (Hist(c)'.status = "FUSED" /\ Hist(c).status # "FUSED" /\ c = op.cand) =>
                    registered' = Hist(c)'.accepted]_vars
  <2>1. SUFFICES ASSUME Next, NEW c \in Candidates, c = op.cand,
                        Hist(c)'.status = "FUSED", Hist(c).status # "FUSED"
                 PROVE  registered' = Hist(c)'.accepted
    BY <1>1
  <2> DEFINE st == [op.mem EXCEPT !.status = "FUSED", !.unchanged = FALSE]
  <2>2. FinishFuse
    BY <1>1, <2>1, OnlyFinishFuses
  <2>3. /\ Persist(op.cand, st) /\ registered' = registered
        /\ registered = op.mem.accepted
    BY <1>1, <2>1, <2>2 DEF FinishFuse, Hist, Live, RecoveryInvariant, MemorySound
  <2>4. st \in State /\ st.accepted = op.mem.accepted
    BY <1>1, TypedReads DEF State, Statuses
  <2> HIDE DEF st
  <2>5. canonical' \in Dir /\ canonical'.hist[c] = st
    BY <1>1, <2>1, <2>3, <2>4, TypedReads, HistUpdate DEF Persist
  <2>6. Hist(c)' = st
    BY <2>5, NoDirIsNoDirectory DEF Hist, Live
  <2>7. QED
    BY <2>3, <2>4, <2>6
<1>2. QED
  BY <1>1, Correctness, Recovery, PTL DEF Spec, FuseCommitsReviewedSources

==============================================================================
