---------------------------- MODULE SectorMutation ----------------------------
(***************************************************************************)
(* A governed mutation of a sector (governed_sector_mutation in            *)
(* env15_project_schema.py), by which every sector but two is written.     *)
(*                                                                         *)
(* It spans two databases and files.  The router gets a grant and a        *)
(* snapshot of the sector is taken; the sector is changed and committed;   *)
(* a second snapshot is taken, and the router gets the receipt.  The       *)
(* router's transaction is open meanwhile.  When a step fails, the sector  *)
(* is copied back from the first snapshot and the grant is revoked, and    *)
(* both of these may fail too.  There is no recovery after a crash: the    *)
(* next mutation starts from what is there.  Mutations of a brain run one  *)
(* at a time (module MutationLock).                                        *)
(***************************************************************************)
EXTENDS Naturals

CONSTANTS
    Grants,             \* mutations, by their grants
    NoGrant,            \* no mutation
    MaxMutationFaults   \* bound: steps that fail and crashes

ASSUME MutationAssumption == NoGrant \notin Grants /\ MaxMutationFaults \in Nat

\* What the router says of a mutation: of its grant, of its event, and whether it
\* has a receipt.
Entry == [grant : {"NONE", "ISSUED", "CONSUMED", "REVOKED"},
          event : {"NONE", "RUNNING", "PASS", "FAILED_ROLLED_BACK"}, receipt : BOOLEAN]

NoEntry == [grant |-> "NONE", event |-> "NONE", receipt |-> FALSE]

\* The contents of a sector are the mutations it has: each adds a receipt.
\* The snapshot that is current and the hash of the head are contents too.
Router == [entries : [Grants -> Entry], current : SUBSET Grants, head : SUBSET Grants]

-----------------------------------------------------------------------------
VARIABLES
    content,   \* the mutations that are in the sector
    torn,      \* the file of the sector is half copied
    locked,    \* the file of the sector is read-only
    router,    \* the router, as committed
    draft,     \* the router, as its open transaction has it
    before,    \* the snapshot taken before the running mutation
    files,     \* the receipt files
    mutation,  \* the running mutation and its step
    mutationFaults,
    crashed,   \* history: mutations in which the worker died
    failedAt,  \* history: the step at which a mutation failed
    unrevoked  \* history: mutations that failed and could not be revoked

mutationVars == <<content, torn, locked, router, draft, before, files, mutation,
                  mutationFaults, crashed, failedAt, unrevoked>>

MutationSteps == {"idle", "unlock", "mutate", "relock", "check", "record", "commit",
                  "receipt", "restore", "revoke"}

MutationTypeOK ==
    /\ content \subseteq Grants /\ before \subseteq Grants
    /\ torn \in BOOLEAN /\ locked \in BOOLEAN
    /\ router \in Router /\ draft \in Router
    /\ files \subseteq Grants
    /\ mutation \in [step : MutationSteps, grant : Grants \cup {NoGrant}]
    /\ mutationFaults \in Nat
    /\ crashed \subseteq Grants
    /\ failedAt \in [Grants -> MutationSteps]
    /\ unrevoked \subseteq Grants

NewRouter == [entries |-> [g \in Grants |-> NoEntry], current |-> {}, head |-> {}]

Idle == [step |-> "idle", grant |-> NoGrant]

MutationInit ==
    /\ content = {} /\ before = {}
    /\ torn = FALSE /\ locked = TRUE
    /\ router = NewRouter /\ draft = NewRouter
    /\ files = {}
    /\ mutation = Idle
    /\ mutationFaults = 0
    /\ crashed = {}
    /\ failedAt = [g \in Grants |-> "idle"]
    /\ unrevoked = {}

-----------------------------------------------------------------------------
(* A mutation that works.                                                  *)

InStep(step) == mutation.step = step

Proceed(step) == mutation' = [mutation EXCEPT !.step = step]

History == UNCHANGED <<mutationFaults, crashed, failedAt, unrevoked>>

Commits == draft' = router'

\* The router with another entry of a mutation.
Entered(r, g, entry) == [r EXCEPT !.entries = [r.entries EXCEPT ![g] = entry]]

\* The project verifies; the grant, the event and the snapshot of before are
\* committed to the router.
IssueGrant(g) ==
    /\ mutation = Idle
    /\ router.entries[g] = NoEntry
    /\ ~torn
    /\ before' = content
    /\ router' = Entered(router, g,
                         [grant |-> "ISSUED", event |-> "RUNNING", receipt |-> FALSE])
    /\ Commits
    /\ mutation' = [step |-> "unlock", grant |-> g]
    /\ UNCHANGED <<content, torn, locked, files>> /\ History

UnlockSector ==
    /\ InStep("unlock")
    /\ locked' = FALSE
    /\ Proceed("mutate")
    /\ UNCHANGED <<content, torn, router, draft, before, files>> /\ History

\* The change and its receipt, in one transaction of the sector.
MutateSector ==
    /\ InStep("mutate")
    /\ content' = content \cup {mutation.grant}
    /\ Proceed("relock")
    /\ UNCHANGED <<torn, locked, router, draft, before, files>> /\ History

RelockSector ==
    /\ InStep("relock")
    /\ locked' = TRUE
    /\ Proceed("check")
    /\ UNCHANGED <<content, torn, router, draft, before, files>> /\ History

\* Integrity, and the snapshot that becomes the current one.
CheckSector ==
    /\ InStep("check")
    /\ draft' = [draft EXCEPT !.current = content]
    /\ Proceed("record")
    /\ UNCHANGED <<content, torn, locked, router, before, files>> /\ History

\* The receipt, the end of the grant and of the event, the head.
RecordMutation ==
    /\ InStep("record")
    /\ draft' = [Entered(draft, mutation.grant,
                         [grant |-> "CONSUMED", event |-> "PASS", receipt |-> TRUE])
                 EXCEPT !.head = content]
    /\ Proceed("commit")
    /\ UNCHANGED <<content, torn, locked, router, before, files>> /\ History

CommitRouter ==
    /\ InStep("commit")
    /\ router' = draft
    /\ Proceed("receipt")
    /\ UNCHANGED <<content, torn, locked, draft, before, files>> /\ History

WriteReceiptFile ==
    /\ InStep("receipt")
    /\ files' = files \cup {mutation.grant}
    /\ mutation' = Idle
    /\ UNCHANGED <<content, torn, locked, router, draft, before>> /\ History

-----------------------------------------------------------------------------
(* A mutation that fails.                                                  *)

MutationFault ==
    /\ mutationFaults < MaxMutationFaults
    /\ mutationFaults' = mutationFaults + 1

Fails(step) == failedAt' = [failedAt EXCEPT ![mutation.grant] = step]

\* Making the file writable is not yet in the try clause.
UnlockFails ==
    /\ InStep("unlock")
    /\ MutationFault
    /\ Fails("unlock")
    /\ mutation' = Idle
    /\ UNCHANGED <<content, torn, locked, router, draft, before, files, crashed, unrevoked>>

\* A failure after the sector was committed finds it changed, and one after the
\* router was committed finds the grant consumed.
MutationFails ==
    /\ mutation.step \in {"mutate", "relock", "check", "record", "commit", "receipt"}
    /\ MutationFault
    /\ Fails(mutation.step)
    /\ Proceed("restore")
    /\ UNCHANGED <<content, torn, locked, router, draft, before, files, crashed, unrevoked>>

\* mutant: the transaction is rolled back and nothing is copied
RollbackOnly ==
    /\ InStep("restore")
    /\ locked' = TRUE
    /\ Proceed("revoke")
    /\ UNCHANGED <<content, torn, router, draft, before, files>> /\ History

RestoreSector ==
    /\ InStep("restore")
    /\ content' = before
    /\ locked' = TRUE
    /\ Proceed("revoke")
    /\ UNCHANGED <<torn, router, draft, before, files>> /\ History

\* The finally clause revokes the grant even so.
RestoreFails ==
    /\ InStep("restore")
    /\ MutationFault
    /\ Fails("restore")
    /\ \/ content' = before /\ UNCHANGED torn
       \/ UNCHANGED content /\ \E half \in BOOLEAN : torn' = half
    /\ locked' = FALSE
    /\ Proceed("revoke")
    /\ UNCHANGED <<router, draft, before, files, crashed, unrevoked>>

\* What the open transaction has of the mutation is committed with the end of it.
RevokeGrant ==
    /\ InStep("revoke")
    /\ router' = Entered(draft, mutation.grant,
                         [grant |-> "REVOKED", event |-> "FAILED_ROLLED_BACK",
                          receipt |-> draft.entries[mutation.grant].receipt])
    /\ Commits
    /\ mutation' = Idle
    /\ UNCHANGED <<content, torn, locked, before, files>> /\ History

\* The router cannot be written, for what made the mutation fail or something else:
\* it is closed, and its open transaction is gone.
RevokeFails ==
    /\ InStep("revoke")
    /\ MutationFault
    /\ unrevoked' = unrevoked \cup {mutation.grant}
    /\ draft' = router
    /\ mutation' = Idle
    /\ UNCHANGED <<content, torn, locked, router, before, files, crashed, failedAt>>

\* The worker dies; SQLite rolls the open transactions back.
MutationCrash ==
    /\ mutation # Idle
    /\ MutationFault
    /\ crashed' = crashed \cup {mutation.grant}
    /\ \E half \in BOOLEAN : torn' = (InStep("restore") /\ half)
    /\ draft' = router
    /\ mutation' = Idle
    /\ UNCHANGED <<content, locked, router, before, files, failedAt, unrevoked>>

MutationNext ==
    \/ \E g \in Grants : IssueGrant(g)
    \/ UnlockSector \/ MutateSector \/ RelockSector \/ CheckSector
    \/ RecordMutation \/ CommitRouter \/ WriteReceiptFile
    \/ UnlockFails \/ MutationFails \/ RestoreSector \/ RestoreFails \/ RevokeGrant
    \/ RevokeFails \/ MutationCrash

MutationSpec == MutationInit /\ [][MutationNext]_mutationVars

-----------------------------------------------------------------------------
(* Properties.                                                             *)

Quiet == mutation = Idle

Says(g) == router.entries[g]

\* A mutation that has not come to its end in the router.
Unfinished(g) == g \in crashed \/ g \in unrevoked

\* What the router says has happened has happened in the sector: a grant that was
\* consumed is in it with its receipts, unless it failed after the commit and the
\* revocation was never committed; one that was revoked is not in it, unless copying
\* back failed; and a grant is left open, its event running, only by a crash, a
\* revocation that failed or a file that could not be made writable.  What is in
\* the sector of an open grant a crash or a failed copying back has left there.
GrantsAreSettled ==
    Quiet => \A g \in Grants :
        /\ Says(g).grant = "CONSUMED" =>
              /\ Says(g).event = "PASS" /\ Says(g).receipt
              /\ g \in content \/ (Unfinished(g) /\ failedAt[g] \in {"receipt", "restore"})
              /\ g \in files \/ Unfinished(g)
        /\ Says(g).grant = "REVOKED" =>
              /\ Says(g).event = "FAILED_ROLLED_BACK"
              /\ g \notin content \/ failedAt[g] = "restore"
              /\ g \notin files
        /\ Says(g).grant = "ISSUED" =>
              /\ Says(g).event = "RUNNING" /\ g \notin files
              /\ Unfinished(g) \/ failedAt[g] = "unlock"
              /\ g \notin content \/ g \in crashed \/ failedAt[g] = "restore"

\* A mutation that failed leaves no receipt, and the snapshot that is current and
\* the head are those of the sector, unless it failed after the snapshot was
\* entered (or it died, or could not be copied back).
RouterFollowsSector ==
    (Quiet /\ crashed = {} /\ \A g \in Grants : failedAt[g] # "restore") =>
        /\ \A g \in Grants : (Says(g).grant = "REVOKED" /\ Says(g).receipt) =>
                                 failedAt[g] \in {"commit", "receipt"}
        /\ (\A g \in Grants : failedAt[g] \notin {"record", "commit", "receipt"}) =>
                router.current = content /\ router.head = content

MutationsAreSettled == GrantsAreSettled /\ RouterFollowsSector
===============================================================================
