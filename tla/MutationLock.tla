---------------------------- MODULE MutationLock ----------------------------
(***************************************************************************)
(* The mutation lock of one brain (_mutation_coordinator, ipc_worker.py).  *)
(*                                                                         *)
(* A command that changes a brain runs while its worker process has        *)
(* created <runtime_key>.lock with O_EXCL.  The file names its owner, by   *)
(* process id and creation time, so that a later worker can tell a lock    *)
(* whose owner is dead and remove it.  Creating, naming, closing and       *)
(* removing the file are separate system calls, as are reading another     *)
(* owner's lock and removing it.                                           *)
(*                                                                         *)
(* A worker is single-threaded (main serves one line at a time), so the    *)
(* in-process RLock before the file never makes it wait.  The runtime key  *)
(* is the slug of the brain's name: one file per brain.                    *)
(***************************************************************************)
EXTENDS Naturals

CONSTANTS
    Workers,        \* worker processes that may serve the brain
    NoFile,         \* nothing at the path of the lock
    OpenFilesStay,  \* TRUE (Windows): unlink fails on a file that is open
    MaxCrashes      \* bound: crashes of workers

\* A lock file, known by the process that created it: process id and creation
\* time, here the worker and its incarnation.
LockFile == [owner : Workers, life : Nat]

ASSUME LockAssumption ==
    /\ NoFile \notin LockFile
    /\ OpenFilesStay \in BOOLEAN
    /\ MaxCrashes \in Nat

-----------------------------------------------------------------------------
VARIABLES
    lock,    \* the file at the path of the lock
    named,   \* files whose content, the owner's identity, has been written
    pc,      \* where each worker is in _mutation_coordinator
    opened,  \* the lock file a worker has open, its own or one it reads
    late,    \* the deadline of the worker's acquisition has passed
    life,    \* incarnation of each worker
    answer   \* how the worker's last command ended

vars == <<lock, named, pc, opened, late, life, answer>>

Places == {"idle", "acquire", "created", "holding", "closed",
           "found", "reading", "stale", "retry"}

MaybeFile == LockFile \cup {NoFile}

TypeOK ==
    /\ lock \in MaybeFile
    /\ named \subseteq LockFile
    /\ pc \in [Workers -> Places]
    /\ opened \in [Workers -> MaybeFile]
    /\ late \in [Workers -> BOOLEAN]
    /\ life \in [Workers -> Nat]
    /\ answer \in [Workers -> {"none", "done", "busy", "error"}]

Init ==
    /\ lock = NoFile
    /\ named = {}
    /\ pc = [w \in Workers |-> "idle"]
    /\ opened = [w \in Workers |-> NoFile]
    /\ late = [w \in Workers |-> FALSE]
    /\ life = [w \in Workers |-> 0]
    /\ answer = [w \in Workers |-> "none"]

-----------------------------------------------------------------------------
GoTo(w, place) == pc' = [pc EXCEPT ![w] = place]

\* mutant: the answer is taken for the place
AnswerSwapped(w, how) == GoTo(w, how) /\ answer' = [answer EXCEPT ![w] = "idle"]

Answer(w, how) == GoTo(w, "idle") /\ answer' = [answer EXCEPT ![w] = how]

Own(w) == [owner |-> w, life |-> life[w]]

\* _discard_stale_mutation_lock: the recorded process is gone, or its process
\* id belongs to a process created at another time.  A file that names nobody
\* cannot be judged and stays.
Stale(f) == f \in named /\ f.life # life[f.owner]

\* Python opens files without FILE_SHARE_DELETE: on Windows nobody can unlink a
\* file that someone has open.
CanUnlink == OpenFilesStay => \A w \in Workers : opened[w] # lock

-----------------------------------------------------------------------------
(* Acquiring.                                                              *)

Request(w) ==
    /\ pc[w] = "idle"
    /\ GoTo(w, "acquire")
    /\ late' = [late EXCEPT ![w] = FALSE]
    /\ UNCHANGED <<lock, named, opened, life, answer>>

\* The file is created and open.
NewFile(w) ==
    /\ lock' = Own(w)
    /\ named' = named \ {Own(w)}
    /\ opened' = [opened EXCEPT ![w] = Own(w)]
    /\ GoTo(w, "created")
    /\ UNCHANGED <<late, life, answer>>

\* mutant: the file is opened without O_EXCL
CreateOver(w) == pc[w] = "acquire" /\ NewFile(w)

\* O_CREAT | O_EXCL on a path that is free.
Create(w) == pc[w] = "acquire" /\ lock = NoFile /\ NewFile(w)

\* FileExistsError
Exists(w) ==
    /\ pc[w] = "acquire"
    /\ lock # NoFile
    /\ GoTo(w, "found")
    /\ UNCHANGED <<lock, named, opened, late, life, answer>>

\* os.write of the owner's identity; a write that fails leaves through the
\* finally clause.
Name(w) ==
    /\ pc[w] = "created"
    /\ \/ /\ named' = named \cup {Own(w)}
          /\ GoTo(w, "holding")
          /\ UNCHANGED <<opened, answer>>
       \/ /\ GoTo(w, "closed")
          /\ opened' = [opened EXCEPT ![w] = NoFile]
          /\ answer' = [answer EXCEPT ![w] = "error"]
          /\ UNCHANGED named
    /\ UNCHANGED <<lock, late, life>>

-----------------------------------------------------------------------------
(* Judging the lock of another command.                                    *)

\* read_text opens the file; where it is gone by now, the lock is not stale.
OpenToRead(w) ==
    /\ pc[w] = "found"
    /\ opened' = [opened EXCEPT ![w] = lock]
    /\ GoTo(w, IF lock = NoFile THEN "retry" ELSE "reading")
    /\ UNCHANGED <<lock, named, late, life, answer>>

\* The file is read and closed; its process is looked up after that.
CloseRead(w) ==
    /\ pc[w] = "reading"
    /\ opened' = [opened EXCEPT ![w] = NoFile]
    /\ GoTo(w, IF Stale(opened[w]) THEN "stale" ELSE "retry")
    /\ UNCHANGED <<lock, named, late, life, answer>>

\* mutant: a discard that fails is tried again at once, whatever the time
DiscardAgain(w) ==
    /\ pc[w] = "stale"
    /\ IF CanUnlink THEN lock' = NoFile ELSE UNCHANGED lock
    /\ GoTo(w, "acquire")
    /\ UNCHANGED <<named, opened, late, life, answer>>

\* lock_path.unlink(): whatever is at the path now.
Discard(w) ==
    /\ pc[w] = "stale"
    /\ IF CanUnlink
       THEN lock' = NoFile /\ GoTo(w, "acquire")
       ELSE GoTo(w, "retry") /\ UNCHANGED lock
    /\ UNCHANGED <<named, opened, late, life, answer>>

\* Not stale: BUSY after the deadline, another try before it.
Retry(w) ==
    /\ pc[w] = "retry"
    /\ IF late[w] THEN Answer(w, "busy") ELSE GoTo(w, "acquire") /\ UNCHANGED answer
    /\ UNCHANGED <<lock, named, opened, late, life>>

DeadlinePasses(w) ==
    /\ pc[w] \in {"acquire", "found", "reading", "stale", "retry"}
    /\ ~late[w]
    /\ late' = [late EXCEPT ![w] = TRUE]
    /\ UNCHANGED <<lock, named, pc, opened, life, answer>>

-----------------------------------------------------------------------------
(* Holding and releasing.                                                  *)

\* The handler returns or raises; os.close of the finally clause.
Close(w) ==
    /\ pc[w] = "holding"
    /\ GoTo(w, "closed")
    /\ opened' = [opened EXCEPT ![w] = NoFile]
    /\ answer' = [answer EXCEPT ![w] = "done"]
    /\ UNCHANGED <<lock, named, late, life>>

\* mutant: a failing unlink is ignored
UnlinkQuietly(w) ==
    /\ pc[w] = "closed"
    /\ IF CanUnlink THEN lock' = NoFile ELSE UNCHANGED lock
    /\ GoTo(w, "idle")
    /\ UNCHANGED <<named, opened, late, life, answer>>

\* lock_path.unlink(missing_ok=True), of whatever is at the path: an error takes
\* the place of the answer.
Unlink(w) ==
    /\ pc[w] = "closed"
    /\ \/ CanUnlink /\ lock' = NoFile /\ GoTo(w, "idle") /\ UNCHANGED answer
       \/ ~CanUnlink /\ Answer(w, "error") /\ UNCHANGED lock
    /\ UNCHANGED <<named, opened, late, life>>

\* The process dies; the host starts another one.
Crash(w) ==
    /\ pc[w] # "idle"
    /\ life[w] < MaxCrashes
    /\ life' = [life EXCEPT ![w] = @ + 1]
    /\ GoTo(w, "idle")
    /\ opened' = [opened EXCEPT ![w] = NoFile]
    /\ answer' = [answer EXCEPT ![w] = "none"]
    /\ UNCHANGED <<lock, named, late>>

-----------------------------------------------------------------------------
\* What a worker does by itself once it has taken a request.
Step(w) ==
    \/ Create(w) \/ Exists(w) \/ Name(w)
    \/ OpenToRead(w) \/ CloseRead(w) \/ Discard(w) \/ Retry(w)
    \/ Close(w) \/ Unlink(w)

Next == \E w \in Workers : Step(w) \/ Request(w) \/ DeadlinePasses(w) \/ Crash(w)

Spec == Init /\ [][Next]_vars

\* Handlers return, the system runs every worker, and time passes.
FairSpec ==
    /\ Spec
    /\ \A w \in Workers : WF_vars(Step(w)) /\ WF_vars(DeadlinePasses(w))

-----------------------------------------------------------------------------
(* Properties.                                                             *)

InBlock(w) == pc[w] \in {"created", "holding"}

\* Two commands never change the brain at the same time, over worker processes,
\* crashes and the removal of the locks of dead processes.
OneHolder ==
    \A v, w \in Workers : InBlock(v) /\ InBlock(w) => v = w

\* The inductive invariant of the proof: the file at the path is the one the
\* running command has open, which is why nobody can remove it.
LockInvariant ==
    \A w \in Workers : InBlock(w) => lock = Own(w) /\ opened[w] = Own(w)

\* What LeftoverIsReported needs to be inductive: the lock of a live worker is
\* held, on its way out, or was reported.
LeftoverInvariant ==
    /\ \A w \in Workers : lock = Own(w) =>
           InBlock(w) \/ pc[w] = "closed" \/ answer[w] \in {"error", "busy"}
    /\ lock # NoFile => lock.life <= life[lock.owner]

\* A lock that a live worker leaves behind is never silent: that worker's
\* command was answered with an error, or found its own leftover and was BUSY.
LeftoverIsReported ==
    \A w \in Workers : (pc[w] = "idle" /\ lock = Own(w)) =>
        answer[w] \in {"error", "busy"}

\* A request for the lock is answered: the deadline ends the wait whatever the
\* other workers do, though the loop that removes stale locks does not look at
\* the deadline.
AcquireEnds ==
    \A w \in Workers : (pc[w] = "acquire") ~> (pc[w] \in {"holding", "idle"})

-----------------------------------------------------------------------------
(* What the tests say and the code does not do.                            *)

\* test_t021_persistent_worker_concurrency.py:238: after the block the lock file
\* does not exist.
FinishedReleases ==
    \A w \in Workers : pc[w] = "idle" => lock # Own(w)

=============================================================================
