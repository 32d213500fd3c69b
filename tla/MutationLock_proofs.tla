------------------------- MODULE MutationLock_proofs -------------------------
(***************************************************************************)
(* What holds of the mutation lock for any number of workers and crashes.  *)
(*                                                                         *)
(* OneHolder needs Windows' rule that an open file cannot be unlinked      *)
(* (OpenFilesStay): then the file at the path of the lock is the one the   *)
(* running command has open, and neither a worker that judged an earlier   *)
(* file stale nor one that releases late can take it away.                 *)
(***************************************************************************)
EXTENDS MutationLock, TLAPS

\* Every step writes values of the declared types.
LEMMA TypeStep == TypeOK /\ [Next]_vars => TypeOK'
<1> SUFFICES ASSUME TypeOK, [Next]_vars PROVE TypeOK'
  OBVIOUS
<1> USE DEF TypeOK, MaybeFile, Places, GoTo, Answer
<1>1. CASE UNCHANGED vars
  BY <1>1 DEF vars
<1>2. ASSUME NEW w \in Workers, Step(w) PROVE TypeOK'
  <2>0. Own(w) \in LockFile
    BY DEF Own, LockFile
  <2>1. CASE Create(w)
    BY <2>0, <2>1 DEF Create, NewFile
  <2>2. CASE Exists(w)
    BY <2>2 DEF Exists
  <2>3. CASE Name(w)
    BY <2>0, <2>3 DEF Name
  <2>4. CASE OpenToRead(w)
    BY <2>4 DEF OpenToRead
  <2>5. CASE CloseRead(w)
    BY <2>5 DEF CloseRead
  <2>6. CASE Discard(w)
    BY <2>6 DEF Discard
  <2>7. CASE Retry(w)
    BY <2>7 DEF Retry
  <2>8. CASE Close(w)
    BY <2>8 DEF Close
  <2>9. CASE Unlink(w)
    BY <2>9 DEF Unlink
  <2> QED
    BY <1>2, <2>1, <2>2, <2>3, <2>4, <2>5, <2>6, <2>7, <2>8, <2>9 DEF Step
<1>3. ASSUME NEW w \in Workers, Request(w) \/ DeadlinePasses(w) PROVE TypeOK'
  BY <1>3 DEF Request, DeadlinePasses
<1>4. ASSUME NEW w \in Workers, Crash(w) PROVE TypeOK'
  BY <1>4 DEF Crash
<1> QED
  BY <1>1, <1>2, <1>3, <1>4 DEF Next

\* The type invariant holds of every reachable state.
THEOREM TypeCorrect == Spec => []TypeOK
<1>1. Init => TypeOK
  BY DEF Init, TypeOK, MaybeFile, Places
<1> QED
  BY <1>1, TypeStep, PTL DEF Spec

-----------------------------------------------------------------------------
\* A worker in the block owns a file, and no file is missing from its path.
LEMMA OwnIsAFile == ASSUME NEW w \in Workers, TypeOK
                    PROVE Own(w) \in LockFile /\ Own(w) # NoFile
BY LockAssumption DEF Own, LockFile, TypeOK

\* While files in use stay, a file that a worker has open is not removed.
LEMMA HeldStays ==
    ASSUME OpenFilesStay, NEW w \in Workers, opened[w] = lock
    PROVE  ~CanUnlink
BY DEF CanUnlink

\* No step disturbs the lock of a command in its block.
LEMMA LockStep ==
    OpenFilesStay /\ TypeOK /\ LockInvariant /\ [Next]_vars => LockInvariant'
<1> SUFFICES ASSUME OpenFilesStay, TypeOK, LockInvariant, [Next]_vars,
                    NEW w \in Workers, InBlock(w)'
             PROVE  lock' = Own(w)' /\ opened'[w] = Own(w)'
  BY DEF LockInvariant
<1> USE DEF GoTo, Answer
<1>0. InBlock(w) => lock = Own(w) /\ opened[w] = Own(w) /\ ~CanUnlink /\ lock # NoFile
  BY HeldStays, OwnIsAFile DEF LockInvariant
<1>1. CASE UNCHANGED vars
  BY <1>0, <1>1 DEF vars, InBlock, Own
<1>2. ASSUME NEW v \in Workers, Step(v) PROVE lock' = Own(w)' /\ opened'[w] = Own(w)'
  <2>0. life' = life
    BY <1>2 DEF Step, Create, NewFile, Exists, Name, OpenToRead, CloseRead, Discard,
                Retry, Close, Unlink
  <2>1. CASE Create(v)
    BY <1>0, <2>0, <2>1 DEF Create, NewFile, InBlock, Own, TypeOK
  <2>2. CASE Exists(v)
    BY <1>0, <2>0, <2>2 DEF Exists, InBlock, Own, TypeOK
  <2>3. CASE Name(v)
    BY <1>0, <2>0, <2>3 DEF Name, InBlock, Own, TypeOK
  <2>4. CASE OpenToRead(v)
    BY <1>0, <2>0, <2>4 DEF OpenToRead, InBlock, Own, TypeOK
  <2>5. CASE CloseRead(v)
    BY <1>0, <2>0, <2>5 DEF CloseRead, InBlock, Own, TypeOK
  <2>6. CASE Discard(v)
    BY <1>0, <2>0, <2>6 DEF Discard, InBlock, Own, TypeOK
  <2>7. CASE Retry(v)
    BY <1>0, <2>0, <2>7 DEF Retry, InBlock, Own, TypeOK
  <2>8. CASE Close(v)
    BY <1>0, <2>0, <2>8 DEF Close, InBlock, Own, TypeOK
  <2>9. CASE Unlink(v)
    BY <1>0, <2>0, <2>9 DEF Unlink, InBlock, Own, TypeOK
  <2> QED
    BY <1>2, <2>1, <2>2, <2>3, <2>4, <2>5, <2>6, <2>7, <2>8, <2>9 DEF Step
<1>3. ASSUME NEW v \in Workers, Request(v) \/ DeadlinePasses(v)
      PROVE lock' = Own(w)' /\ opened'[w] = Own(w)'
  BY <1>0, <1>3 DEF Request, DeadlinePasses, InBlock, Own, TypeOK
<1>4. ASSUME NEW v \in Workers, Crash(v) PROVE lock' = Own(w)' /\ opened'[w] = Own(w)'
  BY <1>0, <1>4 DEF Crash, InBlock, Own, TypeOK
<1> QED
  BY <1>1, <1>2, <1>3, <1>4 DEF Next

\* Where open files cannot be unlinked, the running command's own file is at the
\* path of the lock, open.
THEOREM HolderHasTheLock == OpenFilesStay => (Spec => []LockInvariant)
<1> SUFFICES ASSUME OpenFilesStay PROVE Spec => []LockInvariant
  OBVIOUS
<1>1. Init => LockInvariant
  BY DEF Init, LockInvariant, InBlock
<1>2. TypeOK /\ LockInvariant /\ [Next]_vars => LockInvariant'
  BY LockStep
<1> QED
  BY <1>1, <1>2, TypeCorrect, PTL DEF Spec

\* Where open files cannot be unlinked, two commands never change the brain at
\* the same time.
THEOREM Exclusion == OpenFilesStay => (Spec => []OneHolder)
<1>1. LockInvariant => OneHolder
  <2> SUFFICES ASSUME LockInvariant,
                      NEW v \in Workers, NEW w \in Workers, InBlock(v), InBlock(w)
               PROVE  v = w
    BY DEF OneHolder
  <2>1. Own(v).owner = v /\ Own(w).owner = w
    BY DEF Own
  <2> QED
    BY <2>1 DEF LockInvariant
<1>2. OpenFilesStay => (Spec => []LockInvariant)
  BY HolderHasTheLock
<1> SUFFICES ASSUME OpenFilesStay PROVE Spec => []OneHolder
  OBVIOUS
<1>3. Spec => []LockInvariant
  BY <1>2
<1> QED
  BY <1>1, <1>3, PTL

-----------------------------------------------------------------------------
\* A step that leaves the lock of a live worker behind says so.
LEMMA LeftoverStep ==
    TypeOK /\ LeftoverInvariant /\ [Next]_vars => LeftoverInvariant'
<1> SUFFICES ASSUME TypeOK, LeftoverInvariant, [Next]_vars PROVE LeftoverInvariant'
  OBVIOUS
<1> USE DEF GoTo, Answer, LeftoverInvariant, InBlock, TypeOK
<1>1. CASE UNCHANGED vars
  BY <1>1 DEF vars, Own
<1>2. ASSUME NEW v \in Workers, Step(v) PROVE LeftoverInvariant'
  <2>0. Own(v) # NoFile /\ \A w \in Workers : Own(w).life = life[w] /\ Own(w).owner = w
    BY OwnIsAFile DEF Own
  <2>1. CASE Create(v)
    BY <2>0, <2>1 DEF Create, NewFile, Own
  <2>2. CASE Exists(v)
    BY <2>2 DEF Exists, Own
  <2>3. CASE Name(v)
    BY <2>3 DEF Name, Own
  <2>4. CASE OpenToRead(v)
    BY <2>4 DEF OpenToRead, Own
  <2>5. CASE CloseRead(v)
    BY <2>5 DEF CloseRead, Own
  <2>6. CASE Discard(v)
    BY <2>6, OwnIsAFile DEF Discard, Own
  <2>7. CASE Retry(v)
    BY <2>7 DEF Retry, Own
  <2>8. CASE Close(v)
    BY <2>8 DEF Close, Own
  <2>9. CASE Unlink(v)
    BY <2>9, OwnIsAFile DEF Unlink, Own
  <2> QED
    BY <1>2, <2>1, <2>2, <2>3, <2>4, <2>5, <2>6, <2>7, <2>8, <2>9 DEF Step
<1>3. ASSUME NEW v \in Workers, Request(v) \/ DeadlinePasses(v) PROVE LeftoverInvariant'
  BY <1>3 DEF Request, DeadlinePasses, Own
<1>4. ASSUME NEW v \in Workers, Crash(v) PROVE LeftoverInvariant'
  BY <1>4, LockAssumption DEF Crash, Own, LockFile, MaybeFile
<1> QED
  BY <1>1, <1>2, <1>3, <1>4 DEF Next

\* On every platform: a worker that is done and alive has either removed its
\* lock or answered its command with an error (or, later ones, with BUSY).
THEOREM LeftoversAreReported == Spec => []LeftoverIsReported
<1>1. Init => LeftoverInvariant
  BY OwnIsAFile, LockAssumption DEF Init, LeftoverInvariant, Own, LockFile
<1>2. TypeOK /\ LeftoverInvariant => LeftoverIsReported
  BY DEF LeftoverInvariant, LeftoverIsReported, InBlock
<1> QED
  BY <1>1, <1>2, LeftoverStep, TypeCorrect, PTL DEF Spec
=============================================================================
