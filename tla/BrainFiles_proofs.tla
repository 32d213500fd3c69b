--------------------------- MODULE BrainFiles_proofs ---------------------------
(***************************************************************************)
(* What is in the folder of a brain, for any sources, names and versions   *)
(* and any number of edits, commands, failures and deaths: the mutations   *)
(* of its sectors (env15_project_schema.py), the sources that are taken in *)
(* (env15_ingestion.py, env15_chat_lineage.py), and what is made of them:  *)
(* the build with its packages (ipc_worker.py), the portable folder        *)
(* (portable_brain_package.py), the handoff (codex_handoff.py) and the     *)
(* folder of a new brain (env15_project_schema.py).                        *)
(*                                                                         *)
(* MutationsAreSettled speaks of the moments at which no mutation runs.    *)
(* What makes it so is where each of its five records stands while one     *)
(* does: the sector, the snapshot taken before, the router as committed,   *)
(* the router as its open transaction has it, and the receipt file.        *)
(* The invariants of the other parts are made the same way: what is true   *)
(* at rest, and for every step of a command how far it has come.  A source *)
(* was read at a size and time it may have had only once; a history is     *)
(* what it was with one turn more; an archive carries the number of the    *)
(* one it was made from; a folder is what its last finished step left.     *)
(***************************************************************************)
EXTENDS SectorMutation, SourceIngestion, LineageAppends, BrainBuild,
        PortablePackage, CodexHandoff, BrainRoot, SequenceTheorems, TLAPS

-----------------------------------------------------------------------------
(* A mutation of a sector.                                                 *)

\* What the router says of a mutation that was begun, and of one that is done.
Begun == [grant |-> "ISSUED", event |-> "RUNNING", receipt |-> FALSE]
Done  == [grant |-> "CONSUMED", event |-> "PASS", receipt |-> TRUE]

Working == {"unlock", "mutate", "relock", "check", "record", "commit", "receipt"}
Late    == {"commit", "receipt", "restore"}

\* GrantsAreSettled, of one grant.
GrantIsSettled(g) ==
    /\ Says(g).grant = "CONSUMED" =>
          /\ Says(g).event = "PASS" /\ Says(g).receipt
          /\ g \in content \/ (Unfinished(g) /\ failedAt[g] \in {"receipt", "restore"})
          /\ g \in files \/ Unfinished(g)
    /\ Says(g).grant = "REVOKED" =>
          /\ Says(g).event = "FAILED_ROLLED_BACK"
          /\ g \notin content \/ failedAt[g] = "restore"
          /\ g \notin files
          /\ Says(g).receipt => failedAt[g] \in Late
    /\ Says(g).grant = "ISSUED" =>
          /\ Says(g).event = "RUNNING" /\ g \notin files
          /\ Unfinished(g) \/ failedAt[g] = "unlock"
          /\ g \notin content \/ g \in crashed \/ failedAt[g] = "restore"

\* A mutation that was not begun has left nothing.
NothingBefore ==
    \A g \in Grants : router.entries[g].grant = "NONE" =>
        /\ g \notin content /\ g \notin files /\ failedAt[g] = "idle"
        /\ ~Unfinished(g)

\* Of the mutations that do not run, both states of the router say the same, and what
\* they say is so.
OthersAreSettled ==
    \A g \in Grants : g # mutation.grant =>
        GrantIsSettled(g) /\ draft.entries[g] = router.entries[g]

\* The sector is the snapshot, or the snapshot and the mutation that runs.
SectorInPlace ==
    mutation # Idle =>
        /\ mutation.grant \in Grants /\ mutation.step # "idle"
        /\ mutation.grant \notin before /\ mutation.grant \notin files
        /\ mutation.grant \notin crashed
        /\ content = before \/ content = before \cup {mutation.grant}
        /\ mutation.step \in {"unlock", "mutate"} => content = before
        /\ mutation.step \in Working \ {"unlock", "mutate"} =>
               content = before \cup {mutation.grant}
        /\ mutation.step = "revoke" =>
               content = before \/ failedAt[mutation.grant] = "restore"

\* What the router says of the mutation that runs, and where a failure found it.
GrantInPlace ==
    LET step == mutation.step
        mine == router.entries[mutation.grant]
        next == draft.entries[mutation.grant]
    IN  mutation # Idle =>
          /\ step \in Working => failedAt[mutation.grant] = "idle"
          /\ step \in Working \ {"receipt"} => mine = Begun
          /\ step = "receipt" => mine = Done
          /\ step \in Working \ {"commit", "receipt"} => next = Begun
          /\ step \in {"commit", "receipt"} => next = Done
          /\ step \in {"restore", "revoke"} =>
                /\ mine = Begun \/ (mine = Done /\ failedAt[mutation.grant] \in {"receipt", "restore"})
                /\ next.receipt => failedAt[mutation.grant] \in Late

\* The open transaction holds nothing until the snapshot that becomes the current one.
DraftInPlace ==
    \/ mutation.step \in {"idle", "unlock", "mutate", "relock", "check", "receipt"}
    \/ /\ mutation.step \in {"restore", "revoke"}
       /\ failedAt[mutation.grant] \in {"mutate", "relock", "check"}
    => draft = router

\* A mutation that is undone failed behind its start.
FailedLater ==
    mutation.step \in {"restore", "revoke"} =>
        failedAt[mutation.grant] \in {"mutate", "relock", "check", "record"} \cup Late

\* The snapshot that is current, and the head, while nothing but early failures happened.
Undisturbed ==
    crashed = {} /\ \A g \in Grants : failedAt[g] \notin ({"record"} \cup Late)

HeadsInPlace ==
    Undisturbed =>
        /\ mutation = Idle => draft.current = content /\ draft.head = content
        /\ mutation.step \in {"unlock", "mutate", "relock", "check", "restore", "revoke"} =>
               draft.current = before /\ draft.head = before
        /\ mutation.step = "record" => draft.current = content /\ draft.head = before
        /\ mutation.step \in {"commit", "receipt"} =>
               draft.current = content /\ draft.head = content

\* The inductive invariant.
SectorInvariant ==
    /\ MutationTypeOK
    /\ NothingBefore /\ OthersAreSettled
    /\ SectorInPlace /\ GrantInPlace /\ DraftInPlace /\ FailedLater /\ HeadsInPlace

-----------------------------------------------------------------------------
(* What the assignments of the steps do.                                   *)

\* The router with another entry differs in that entry.
LEMMA EnteredIsRouter ==
    ASSUME NEW r \in Router, NEW g \in Grants, NEW e \in Entry
    PROVE  /\ Entered(r, g, e) \in Router
           /\ Entered(r, g, e).current = r.current /\ Entered(r, g, e).head = r.head
           /\ Entered(r, g, e).entries[g] = e
           /\ \A k \in Grants : k # g => Entered(r, g, e).entries[k] = r.entries[k]
<1>1. r.entries \in [Grants -> Entry] /\ r.current \in SUBSET Grants /\ r.head \in SUBSET Grants
  BY DEF Router
<1> DEFINE entries == [r.entries EXCEPT ![g] = e]
<1>2. entries \in [Grants -> Entry] /\ entries[g] = e
      /\ \A k \in Grants : k # g => entries[k] = r.entries[k]
  BY <1>1
<1>3. Entered(r, g, e) = [entries |-> entries, current |-> r.current, head |-> r.head]
  BY <1>1 DEF Entered, Router
<1> HIDE DEF entries
<1> QED
  BY <1>1, <1>2, <1>3 DEF Router

\* The router with another snapshot or head differs in nothing else.
LEMMA HeadIsRouter ==
    ASSUME NEW r \in Router, NEW c \in SUBSET Grants
    PROVE  /\ [r EXCEPT !.current = c] \in Router /\ [r EXCEPT !.head = c] \in Router
           /\ [r EXCEPT !.current = c].current = c /\ [r EXCEPT !.head = c].head = c
           /\ [r EXCEPT !.current = c].head = r.head
           /\ [r EXCEPT !.head = c].current = r.current
           /\ [r EXCEPT !.current = c].entries = r.entries
           /\ [r EXCEPT !.head = c].entries = r.entries
BY DEF Router

\* A mutation goes on to its next step, or is at its end.
LEMMA MutationGoes ==
    ASSUME MutationTypeOK, NEW s \in MutationSteps, Proceed(s)
    PROVE  /\ mutation' = [step |-> s, grant |-> mutation.grant]
           /\ mutation'.step = s /\ mutation'.grant = mutation.grant
           /\ mutation' \in [step : MutationSteps, grant : Grants \cup {NoGrant}]
BY DEF MutationTypeOK, Proceed

LEMMA RouterEntries ==
    /\ Begun \in Entry /\ Done \in Entry
    /\ \A e \in Entry : [grant |-> "REVOKED", event |-> "FAILED_ROLLED_BACK",
                         receipt |-> e.receipt] \in Entry
BY DEF Begun, Done, Entry

-----------------------------------------------------------------------------
\* Every step writes values of the declared types.
LEMMA SectorTypeStep ==
    SectorInvariant /\ [MutationNext]_mutationVars => MutationTypeOK'
<1> SUFFICES ASSUME SectorInvariant, [MutationNext]_mutationVars PROVE MutationTypeOK'
  OBVIOUS
<1>0. MutationTypeOK /\ SectorInPlace
  BY DEF SectorInvariant
<1>a. mutation.step # "idle" => mutation.grant \in Grants
  BY <1>0 DEF SectorInPlace, Idle, MutationTypeOK
<1> USE DEF InStep, History, Commits
<1>1. CASE UNCHANGED mutationVars
  BY <1>0, <1>1 DEF mutationVars, MutationTypeOK
<1>2. ASSUME NEW g \in Grants, IssueGrant(g) PROVE MutationTypeOK'
  BY <1>0, <1>2, EnteredIsRouter, RouterEntries DEF IssueGrant, Begun, MutationTypeOK,
     MutationSteps
<1>3. CASE UnlockSector
  BY <1>0, <1>3, MutationGoes, <1>a DEF UnlockSector, MutationSteps, MutationTypeOK
<1>4. CASE MutateSector
  BY <1>0, <1>4, MutationGoes, <1>a DEF MutateSector, MutationSteps, MutationTypeOK
<1>5. CASE RelockSector
  BY <1>0, <1>5, MutationGoes, <1>a DEF RelockSector, MutationSteps, MutationTypeOK
<1>6. CASE CheckSector
  BY <1>0, <1>6, HeadIsRouter, MutationGoes DEF CheckSector, MutationTypeOK, MutationSteps
<1>7. CASE RecordMutation
  BY <1>a, <1>7, <1>0, EnteredIsRouter, RouterEntries, HeadIsRouter, MutationGoes DEF
     RecordMutation, MutationTypeOK, Done, MutationSteps
<1>8. CASE CommitRouter
  BY <1>0, <1>8, MutationGoes, <1>a DEF CommitRouter, MutationSteps, MutationTypeOK
<1>9. CASE WriteReceiptFile
  BY <1>0, <1>a, <1>9 DEF WriteReceiptFile, Idle, MutationTypeOK, MutationSteps
<1>10. CASE UnlockFails
  BY <1>0, <1>a, <1>10 DEF UnlockFails, MutationFault, Fails, Idle, MutationTypeOK,
     MutationSteps
<1>11. CASE MutationFails
  BY <1>0, <1>11, MutationGoes, <1>a DEF MutationFails, MutationSteps, MutationFault,
     Fails, MutationTypeOK
<1>12. CASE RestoreSector
  BY <1>0, <1>12, MutationGoes, <1>a DEF RestoreSector, MutationSteps, MutationTypeOK
<1>13. CASE RestoreFails
  <2>1. mutation' \in [step : MutationSteps, grant : Grants \cup {NoGrant}]
    BY <1>0, <1>13, MutationGoes DEF RestoreFails, MutationSteps
  <2>2. torn' \in BOOLEAN
    BY <1>0, <1>13, Zenon DEF RestoreFails, MutationTypeOK
  <2>3. content' \subseteq Grants
    BY <1>0, <1>13 DEF RestoreFails, MutationTypeOK
  <2>4. failedAt' \in [Grants -> MutationSteps] /\ mutationFaults' \in Nat
    <3>1. /\ failedAt' = [failedAt EXCEPT ![mutation.grant] = "restore"]
          /\ mutationFaults' = mutationFaults + 1
      BY <1>13 DEF RestoreFails, MutationFault, Fails
    <3>2. failedAt \in [Grants -> MutationSteps] /\ mutationFaults \in Nat
      BY <1>0 DEF MutationTypeOK
    <3>3. "restore" \in MutationSteps
      BY DEF MutationSteps
    <3>4. failedAt' \in [Grants -> MutationSteps]
      BY <3>1, <3>2, <3>3
    <3>5. mutationFaults' \in Nat
      BY <3>1, <3>2
    <3> QED
      BY <3>4, <3>5
  <2>6. locked' \in BOOLEAN
    BY <1>13 DEF RestoreFails
  <2>5. UNCHANGED <<router, draft, before, files, crashed, unrevoked>>
    BY <1>13 DEF RestoreFails
  <2> QED
    BY <1>0, <2>1, <2>2, <2>3, <2>4, <2>5, <2>6 DEF MutationTypeOK
<1>14. CASE RevokeGrant
  <2>1. mutation.grant \in Grants /\ draft.entries[mutation.grant] \in Entry
    BY <1>0, <1>a, <1>14 DEF RevokeGrant, MutationTypeOK, Router
  <2>2. router' \in Router
    BY <1>0, <1>14, <2>1, EnteredIsRouter, RouterEntries DEF RevokeGrant, MutationTypeOK
  <2> QED
    BY <1>0, <1>14, <2>2 DEF RevokeGrant, Idle, MutationTypeOK, MutationSteps
<1>15. CASE MutationCrash
  BY <1>0, <1>a, <1>15 DEF MutationCrash, MutationFault, Idle, MutationTypeOK, MutationSteps
<1>16. CASE RevokeFails
  BY <1>0, <1>a, <1>16 DEF RevokeFails, MutationFault, Idle, MutationTypeOK, MutationSteps
<1> QED
  BY <1>1, <1>2, <1>3, <1>4, <1>5, <1>6, <1>7, <1>8, <1>9, <1>10, <1>11, <1>12, <1>13,
     <1>14, <1>15, <1>16 DEF MutationNext

\* What a grant says stays so while nothing it speaks of changes.
LEMMA SettledStays ==
    ASSUME NEW k \in Grants, GrantIsSettled(k), router'.entries[k] = router.entries[k],
           k \in content' <=> k \in content, k \in files' <=> k \in files,
           k \in crashed' <=> k \in crashed, k \in unrevoked' <=> k \in unrevoked,
           failedAt'[k] = failedAt[k]
    PROVE  GrantIsSettled(k)'
BY DEF GrantIsSettled, Says, Unfinished

-----------------------------------------------------------------------------
\* No step disturbs what the records of a mutation say.
LEMMA SectorStep == SectorInvariant /\ [MutationNext]_mutationVars => SectorInvariant'
<1> SUFFICES ASSUME SectorInvariant, [MutationNext]_mutationVars PROVE SectorInvariant'
  OBVIOUS
<1>0. /\ MutationTypeOK /\ MutationTypeOK' /\ NothingBefore /\ OthersAreSettled
      /\ SectorInPlace /\ GrantInPlace /\ DraftInPlace /\ FailedLater /\ HeadsInPlace
  BY SectorTypeStep DEF SectorInvariant
<1>a. mutation = Idle <=> mutation.step = "idle"
  BY <1>0 DEF SectorInPlace, Idle
<1>b. mutation # Idle => mutation.grant \in Grants
  BY <1>0 DEF SectorInPlace
<1>c. /\ router.entries \in [Grants -> Entry] /\ draft.entries \in [Grants -> Entry]
      /\ content \subseteq Grants /\ before \subseteq Grants /\ files \subseteq Grants
      /\ crashed \subseteq Grants /\ unrevoked \subseteq Grants /\ failedAt \in [Grants -> MutationSteps]
  BY <1>0 DEF MutationTypeOK, Router
<1>d. /\ Begun.grant = "ISSUED" /\ Begun.event = "RUNNING" /\ Begun.receipt = FALSE
      /\ Done.grant = "CONSUMED" /\ Done.event = "PASS" /\ Done.receipt = TRUE
  BY DEF Begun, Done
<1>1. CASE UNCHANGED mutationVars
  BY <1>0, <1>1 DEF mutationVars, SectorInvariant, NothingBefore, OthersAreSettled,
     GrantIsSettled, Unfinished,
     Says, SectorInPlace, GrantInPlace, DraftInPlace, FailedLater, HeadsInPlace, Undisturbed
<1>2. ASSUME NEW g \in Grants, IssueGrant(g) PROVE SectorInvariant'
  <2>g. /\ router' = Entered(router, g, Begun) /\ draft' = router' /\ before' = content
        /\ mutation = Idle /\ mutation' = [step |-> "unlock", grant |-> g]
        /\ router.entries[g] = NoEntry
        /\ UNCHANGED <<content, files, crashed, failedAt, unrevoked>>
    BY <1>2 DEF IssueGrant, Begun, Commits, History
  <2>h. /\ mutation'.step = "unlock" /\ mutation'.grant = g
        /\ mutation.step = "idle" /\ mutation.grant = NoGrant /\ g # NoGrant
        /\ \A k \in Grants : k # mutation.grant
        /\ router.entries[g].grant = "NONE"
    BY <2>g, MutationAssumption DEF Idle, NoEntry
  <2>f. /\ mutation'.step = "unlock" /\ mutation'.grant = g /\ mutation' # Idle
        /\ mutation = Idle /\ mutation.step = "idle" /\ mutation.grant = NoGrant
        /\ router'.entries[g] = Begun /\ draft' = router' /\ before' = content
        /\ \A k \in Grants : k # g => router'.entries[k] = router.entries[k]
        /\ router'.current = router.current /\ router'.head = router.head
        /\ UNCHANGED <<content, files, crashed, failedAt, unrevoked>>
    <3>1. mutation' # Idle
      BY <2>h DEF Idle
    <3>2. /\ router'.entries[g] = Begun
          /\ \A k \in Grants : k # g => router'.entries[k] = router.entries[k]
          /\ router'.current = router.current /\ router'.head = router.head
      <4>1. router' = Entered(router, g, Begun)
        BY <2>g
      <4>2. router \in Router /\ Begun \in Entry
        BY <1>0, RouterEntries DEF MutationTypeOK
      <4> QED
        BY <4>1, <4>2, EnteredIsRouter
    <3>3. draft' = router' /\ before' = content /\ UNCHANGED <<content, files, crashed, failedAt, unrevoked>>
      BY <2>g
    <3>4. mutation = Idle
      BY <2>g
    <3> QED
      BY <2>h, <3>1, <3>2, <3>3, <3>4
  <2>p. /\ g \notin content /\ g \notin files /\ g \notin crashed /\ failedAt[g] = "idle"
        /\ draft = router
    BY <1>0, <2>h DEF NothingBefore, DraftInPlace, Unfinished
  <2>1. NothingBefore'
    BY <1>0, <1>a, <1>c, <1>d, <2>f, <2>h, <2>p DEF NothingBefore, Unfinished
  <2>2. OthersAreSettled'
    BY <1>0, <2>f, <2>h, <2>p, SettledStays DEF OthersAreSettled
  <2>3. SectorInPlace'
    BY <1>0, <1>a, <1>c, <1>d, <2>f, <2>h, <2>p DEF SectorInPlace, Working
  <2>4. GrantInPlace'
    BY <1>0, <1>a, <1>c, <1>d, <2>f, <2>h, <2>p DEF GrantInPlace, Working, Late
  <2>5. DraftInPlace'
    BY <1>0, <1>a, <1>c, <1>d, <2>f, <2>h, <2>p DEF DraftInPlace
  <2>6. HeadsInPlace'
    BY <1>0, <1>a, <1>c, <1>d, <2>f, <2>h, <2>p DEF HeadsInPlace, Undisturbed, Late
  <2>7. FailedLater'
    BY <1>0, <2>f DEF FailedLater, Late
  <2> QED
    BY <1>0, <2>1, <2>2, <2>3, <2>4, <2>5, <2>6, <2>7 DEF SectorInvariant
<1>3. CASE UnlockSector
  <2>f. /\ mutation'.step = "mutate" /\ mutation'.grant = mutation.grant /\ mutation' # Idle
        /\ mutation.step = "unlock" /\ mutation # Idle
        /\ UNCHANGED <<content, router, draft, before, files, crashed, failedAt, unrevoked>>
    BY <1>0, <1>3, MutationGoes DEF UnlockSector, InStep, History, Commits, MutationSteps, Idle
  <2>p. /\ mutation.grant \in Grants /\ mutation.grant \notin before
        /\ mutation.grant \notin files /\ mutation.grant \notin crashed
        /\ content = before
        /\ failedAt[mutation.grant] = "idle"
        /\ router.entries[mutation.grant] = Begun
        /\ draft.entries[mutation.grant] = Begun
        /\ draft = router
    BY <1>0, <2>f, <1>d DEF SectorInPlace, GrantInPlace, DraftInPlace, Working, Late
  <2>1. NothingBefore'
    BY <1>0, <1>a, <1>c, <1>d, <2>f, <2>p DEF NothingBefore, Unfinished
  <2>2. OthersAreSettled'
    BY <1>0, <2>f, <2>p, SettledStays, <1>c, <1>d DEF OthersAreSettled, GrantIsSettled,
       Says, Late, Unfinished
  <2>3. SectorInPlace'
    BY <1>0, <1>a, <1>c, <1>d, <2>f, <2>p DEF SectorInPlace, Working
  <2>4. GrantInPlace'
    BY <1>0, <1>a, <1>c, <1>d, <2>f, <2>p DEF GrantInPlace, Working, Late
  <2>5. DraftInPlace'
    BY <1>0, <1>a, <1>c, <1>d, <2>f, <2>p DEF DraftInPlace
  <2>6. HeadsInPlace'
    BY <1>0, <1>a, <1>c, <1>d, <2>f, <2>p DEF HeadsInPlace, Undisturbed, Late
  <2>7. FailedLater'
    BY <1>0, <2>f DEF FailedLater, Late
  <2> QED
    BY <1>0, <2>1, <2>2, <2>3, <2>4, <2>5, <2>6, <2>7 DEF SectorInvariant
<1>4. CASE MutateSector
  <2>f. /\ mutation'.step = "relock" /\ mutation'.grant = mutation.grant /\ mutation' # Idle
        /\ mutation.step = "mutate" /\ mutation # Idle
        /\ content' = content \cup {mutation.grant}
        /\ UNCHANGED <<router, draft, before, files, crashed, failedAt, unrevoked>>
    BY <1>0, <1>4, MutationGoes DEF MutateSector, InStep, History, Commits, MutationSteps, Idle
  <2>p. /\ mutation.grant \in Grants /\ mutation.grant \notin before
        /\ mutation.grant \notin files /\ mutation.grant \notin crashed
        /\ content = before
        /\ failedAt[mutation.grant] = "idle"
        /\ router.entries[mutation.grant] = Begun
        /\ draft.entries[mutation.grant] = Begun
        /\ draft = router
    BY <1>0, <2>f, <1>d DEF SectorInPlace, GrantInPlace, DraftInPlace, Working, Late
  <2>1. NothingBefore'
    BY <1>0, <1>a, <1>c, <1>d, <2>f, <2>p DEF NothingBefore, Unfinished
  <2>2. OthersAreSettled'
    BY <1>0, <2>f, <2>p, SettledStays, <1>c, <1>d DEF OthersAreSettled, GrantIsSettled,
       Says, Late, Unfinished
  <2>3. SectorInPlace'
    BY <1>0, <1>a, <1>c, <1>d, <2>f, <2>p DEF SectorInPlace, Working
  <2>4. GrantInPlace'
    BY <1>0, <1>a, <1>c, <1>d, <2>f, <2>p DEF GrantInPlace, Working, Late
  <2>5. DraftInPlace'
    BY <1>0, <1>a, <1>c, <1>d, <2>f, <2>p DEF DraftInPlace
  <2>6. HeadsInPlace'
    BY <1>0, <1>a, <1>c, <1>d, <2>f, <2>p DEF HeadsInPlace, Undisturbed, Late
  <2>7. FailedLater'
    BY <1>0, <2>f DEF FailedLater, Late
  <2> QED
    BY <1>0, <2>1, <2>2, <2>3, <2>4, <2>5, <2>6, <2>7 DEF SectorInvariant
<1>5. CASE RelockSector
  <2>f. /\ mutation'.step = "check" /\ mutation'.grant = mutation.grant /\ mutation' # Idle
        /\ mutation.step = "relock" /\ mutation # Idle
        /\ UNCHANGED <<content, router, draft, before, files, crashed, failedAt, unrevoked>>
    BY <1>0, <1>5, MutationGoes DEF RelockSector, InStep, History, Commits, MutationSteps, Idle
  <2>p. /\ mutation.grant \in Grants /\ mutation.grant \notin before
        /\ mutation.grant \notin files /\ mutation.grant \notin crashed
        /\ content = before \cup {mutation.grant}
        /\ failedAt[mutation.grant] = "idle"
        /\ router.entries[mutation.grant] = Begun
        /\ draft.entries[mutation.grant] = Begun
        /\ draft = router
    BY <1>0, <2>f, <1>d DEF SectorInPlace, GrantInPlace, DraftInPlace, Working, Late
  <2>1. NothingBefore'
    BY <1>0, <1>a, <1>c, <1>d, <2>f, <2>p DEF NothingBefore, Unfinished
  <2>2. OthersAreSettled'
    BY <1>0, <2>f, <2>p, SettledStays, <1>c, <1>d DEF OthersAreSettled, GrantIsSettled,
       Says, Late, Unfinished
  <2>3. SectorInPlace'
    BY <1>0, <1>a, <1>c, <1>d, <2>f, <2>p DEF SectorInPlace, Working
  <2>4. GrantInPlace'
    BY <1>0, <1>a, <1>c, <1>d, <2>f, <2>p DEF GrantInPlace, Working, Late
  <2>5. DraftInPlace'
    BY <1>0, <1>a, <1>c, <1>d, <2>f, <2>p DEF DraftInPlace
  <2>6. HeadsInPlace'
    BY <1>0, <1>a, <1>c, <1>d, <2>f, <2>p DEF HeadsInPlace, Undisturbed, Late
  <2>7. FailedLater'
    BY <1>0, <2>f DEF FailedLater, Late
  <2> QED
    BY <1>0, <2>1, <2>2, <2>3, <2>4, <2>5, <2>6, <2>7 DEF SectorInvariant
<1>6. CASE CheckSector
  <2>f. /\ mutation'.step = "record" /\ mutation'.grant = mutation.grant /\ mutation' # Idle
        /\ mutation.step = "check" /\ mutation # Idle
        /\ draft'.entries = draft.entries /\ draft'.current = content /\ draft'.head = draft.head
        /\ UNCHANGED <<content, router, before, files, crashed, failedAt, unrevoked>>
    BY <1>0, <1>6, MutationGoes, HeadIsRouter DEF CheckSector, InStep, History, Commits,
       MutationSteps, Idle, MutationTypeOK
  <2>p. /\ mutation.grant \in Grants /\ mutation.grant \notin before
        /\ mutation.grant \notin files /\ mutation.grant \notin crashed
        /\ content = before \cup {mutation.grant}
        /\ failedAt[mutation.grant] = "idle"
        /\ router.entries[mutation.grant] = Begun
        /\ draft.entries[mutation.grant] = Begun
        /\ draft = router
    BY <1>0, <2>f, <1>d DEF SectorInPlace, GrantInPlace, DraftInPlace, Working, Late
  <2>1. NothingBefore'
    BY <1>0, <1>a, <1>c, <1>d, <2>f, <2>p DEF NothingBefore, Unfinished
  <2>2. OthersAreSettled'
    BY <1>0, <2>f, <2>p, SettledStays, <1>c, <1>d DEF OthersAreSettled, GrantIsSettled,
       Says, Late, Unfinished
  <2>3. SectorInPlace'
    BY <1>0, <1>a, <1>c, <1>d, <2>f, <2>p DEF SectorInPlace, Working
  <2>4. GrantInPlace'
    BY <1>0, <1>a, <1>c, <1>d, <2>f, <2>p DEF GrantInPlace, Working, Late
  <2>5. DraftInPlace'
    BY <1>0, <1>a, <1>c, <1>d, <2>f, <2>p DEF DraftInPlace
  <2>6. HeadsInPlace'
    BY <1>0, <1>a, <1>c, <1>d, <2>f, <2>p DEF HeadsInPlace, Undisturbed, Late
  <2>7. FailedLater'
    BY <1>0, <2>f DEF FailedLater, Late
  <2> QED
    BY <1>0, <2>1, <2>2, <2>3, <2>4, <2>5, <2>6, <2>7 DEF SectorInvariant
<1>7. CASE RecordMutation
  <2>d. mutation.step = "record" /\ mutation # Idle /\ mutation.grant \in Grants
    BY <1>a, <1>b, <1>7 DEF RecordMutation, InStep
  <2>e. /\ Entered(draft, mutation.grant, Done) \in Router
        /\ Entered(draft, mutation.grant, Done).entries[mutation.grant] = Done
        /\ \A k \in Grants : k # mutation.grant =>
               Entered(draft, mutation.grant, Done).entries[k] = draft.entries[k]
        /\ Entered(draft, mutation.grant, Done).current = draft.current
    BY <1>0, <2>d, EnteredIsRouter, RouterEntries DEF MutationTypeOK
  <2>f. /\ mutation'.step = "commit" /\ mutation'.grant = mutation.grant /\ mutation' # Idle
        /\ mutation.step = "record" /\ mutation # Idle
        /\ draft'.entries[mutation.grant] = Done
        /\ \A k \in Grants : k # mutation.grant => draft'.entries[k] = draft.entries[k]
        /\ draft'.current = draft.current /\ draft'.head = content
        /\ UNCHANGED <<content, router, before, files, crashed, failedAt, unrevoked>>
    BY <1>0, <1>c, <1>7, <2>d, <2>e, MutationGoes, HeadIsRouter DEF RecordMutation, InStep,
       History, MutationSteps, Idle, Done
  <2>p. /\ mutation.grant \in Grants /\ mutation.grant \notin before
        /\ mutation.grant \notin files /\ mutation.grant \notin crashed
        /\ content = before \cup {mutation.grant}
        /\ failedAt[mutation.grant] = "idle"
        /\ router.entries[mutation.grant] = Begun
        /\ draft.entries[mutation.grant] = Begun
    BY <1>0, <2>f, <1>d DEF SectorInPlace, GrantInPlace, DraftInPlace, Working, Late
  <2>1. NothingBefore'
    BY <1>0, <1>a, <1>c, <1>d, <2>f, <2>p DEF NothingBefore, Unfinished
  <2>2. OthersAreSettled'
    BY <1>0, <2>f, <2>p, SettledStays, <1>c, <1>d DEF OthersAreSettled, GrantIsSettled,
       Says, Late, Unfinished
  <2>3. SectorInPlace'
    BY <1>0, <1>a, <1>c, <1>d, <2>f, <2>p DEF SectorInPlace, Working
  <2>4. GrantInPlace'
    BY <1>0, <1>a, <1>c, <1>d, <2>f, <2>p DEF GrantInPlace, Working, Late
  <2>5. DraftInPlace'
    BY <1>0, <1>a, <1>c, <1>d, <2>f, <2>p DEF DraftInPlace
  <2>6. HeadsInPlace'
    BY <1>0, <1>a, <1>c, <1>d, <2>f, <2>p DEF HeadsInPlace, Undisturbed, Late
  <2>7. FailedLater'
    BY <1>0, <2>f DEF FailedLater, Late
  <2> QED
    BY <1>0, <2>1, <2>2, <2>3, <2>4, <2>5, <2>6, <2>7 DEF SectorInvariant
<1>8. CASE CommitRouter
  <2>f. /\ mutation'.step = "receipt" /\ mutation'.grant = mutation.grant /\ mutation' # Idle
        /\ mutation.step = "commit" /\ mutation # Idle
        /\ router' = draft
        /\ UNCHANGED <<content, draft, before, files, crashed, failedAt, unrevoked>>
    BY <1>0, <1>8, MutationGoes DEF CommitRouter, InStep, History, Commits, MutationSteps, Idle
  <2>p. /\ mutation.grant \in Grants /\ mutation.grant \notin before
        /\ mutation.grant \notin files /\ mutation.grant \notin crashed
        /\ content = before \cup {mutation.grant}
        /\ failedAt[mutation.grant] = "idle"
        /\ router.entries[mutation.grant] = Begun
        /\ draft.entries[mutation.grant] = Done
    BY <1>0, <2>f, <1>d DEF SectorInPlace, GrantInPlace, DraftInPlace, Working, Late
  <2>1. NothingBefore'
    BY <1>0, <1>a, <1>c, <1>d, <2>f, <2>p DEF NothingBefore, OthersAreSettled, Unfinished
  <2>2. OthersAreSettled'
    BY <1>0, <2>f, <2>p, SettledStays, <1>c, <1>d DEF OthersAreSettled, GrantIsSettled,
       Says, Late, Unfinished
  <2>3. SectorInPlace'
    BY <1>0, <1>a, <1>c, <1>d, <2>f, <2>p DEF SectorInPlace, Working
  <2>4. GrantInPlace'
    BY <1>0, <1>a, <1>c, <1>d, <2>f, <2>p DEF GrantInPlace, Working, Late
  <2>5. DraftInPlace'
    BY <1>0, <1>a, <1>c, <1>d, <2>f, <2>p DEF DraftInPlace
  <2>6. HeadsInPlace'
    BY <1>0, <1>a, <1>c, <1>d, <2>f, <2>p DEF HeadsInPlace, Undisturbed, Late
  <2>7. FailedLater'
    BY <1>0, <2>f DEF FailedLater, Late
  <2> QED
    BY <1>0, <2>1, <2>2, <2>3, <2>4, <2>5, <2>6, <2>7 DEF SectorInvariant
<1>9. CASE WriteReceiptFile
  <2>f. /\ mutation' = Idle /\ mutation'.step = "idle" /\ mutation'.grant = NoGrant
        /\ mutation.step = "receipt" /\ mutation # Idle /\ mutation.grant # NoGrant
        /\ files' = files \cup {mutation.grant}
        /\ UNCHANGED <<content, router, draft, before, crashed, failedAt, unrevoked>>
    BY <1>a, <1>b, <1>9, MutationAssumption DEF WriteReceiptFile, InStep, History, Idle
  <2>p. /\ mutation.grant \in Grants /\ mutation.grant \notin before
        /\ mutation.grant \notin files /\ mutation.grant \notin crashed
        /\ content = before \cup {mutation.grant}
        /\ failedAt[mutation.grant] = "idle"
        /\ router.entries[mutation.grant] = Done
        /\ draft = router
    BY <1>0, <2>f, <1>d DEF SectorInPlace, GrantInPlace, DraftInPlace, Working, Late
  <2>1. NothingBefore'
    BY <1>0, <1>a, <1>c, <1>d, <2>f, <2>p DEF NothingBefore, Unfinished
  <2>2. OthersAreSettled'
    BY <1>0, <2>f, <2>p, SettledStays, <1>c, <1>d DEF OthersAreSettled, GrantIsSettled,
       Says, Late, Unfinished
  <2>3. SectorInPlace'
    BY <1>0, <1>a, <1>c, <1>d, <2>f, <2>p DEF SectorInPlace, Working
  <2>4. GrantInPlace'
    BY <1>0, <1>a, <1>c, <1>d, <2>f, <2>p DEF GrantInPlace, Working, Late
  <2>5. DraftInPlace'
    BY <1>0, <1>a, <1>c, <1>d, <2>f, <2>p DEF DraftInPlace
  <2>6. HeadsInPlace'
    BY <1>0, <1>a, <1>c, <1>d, <2>f, <2>p DEF HeadsInPlace, Undisturbed, Late
  <2>7. FailedLater'
    BY <1>0, <2>f DEF FailedLater, Late
  <2> QED
    BY <1>0, <2>1, <2>2, <2>3, <2>4, <2>5, <2>6, <2>7 DEF SectorInvariant
<1>10. CASE UnlockFails
  <2>f. /\ mutation' = Idle /\ mutation'.step = "idle" /\ mutation'.grant = NoGrant
        /\ mutation.step = "unlock" /\ mutation # Idle /\ mutation.grant # NoGrant
        /\ failedAt'[mutation.grant] = "unlock"
        /\ \A k \in Grants : k # mutation.grant => failedAt'[k] = failedAt[k]
        /\ UNCHANGED <<content, router, draft, before, files, crashed, unrevoked>>
    BY <1>a, <1>b, <1>c, <1>10, MutationAssumption DEF UnlockFails, Fails, InStep, Idle
  <2>p. /\ mutation.grant \in Grants /\ mutation.grant \notin before
        /\ mutation.grant \notin files /\ mutation.grant \notin crashed
        /\ content = before
        /\ failedAt[mutation.grant] = "idle"
        /\ router.entries[mutation.grant] = Begun
        /\ draft.entries[mutation.grant] = Begun
        /\ draft = router
    BY <1>0, <2>f, <1>d DEF SectorInPlace, GrantInPlace, DraftInPlace, Working, Late
  <2>1. NothingBefore'
    BY <1>0, <1>a, <1>c, <1>d, <2>f, <2>p DEF NothingBefore, Unfinished
  <2>2. OthersAreSettled'
    BY <1>0, <2>f, <2>p, SettledStays, <1>c, <1>d DEF OthersAreSettled, GrantIsSettled,
       Says, Late, Unfinished
  <2>3. SectorInPlace'
    BY <1>0, <1>a, <1>c, <1>d, <2>f, <2>p DEF SectorInPlace, Working
  <2>4. GrantInPlace'
    BY <1>0, <1>a, <1>c, <1>d, <2>f, <2>p DEF GrantInPlace, Working, Late
  <2>5. DraftInPlace'
    BY <1>0, <1>a, <1>c, <1>d, <2>f, <2>p DEF DraftInPlace
  <2>6. HeadsInPlace'
    BY <1>0, <1>a, <1>c, <1>d, <2>f, <2>p DEF HeadsInPlace, Undisturbed, Late
  <2>7. FailedLater'
    BY <1>0, <2>f DEF FailedLater, Late
  <2> QED
    BY <1>0, <2>1, <2>2, <2>3, <2>4, <2>5, <2>6, <2>7 DEF SectorInvariant
<1>11. CASE MutationFails
  <2>f. /\ mutation'.step = "restore" /\ mutation'.grant = mutation.grant /\ mutation' # Idle
        /\ mutation.step \in Working \ {"unlock"} /\ mutation # Idle
        /\ failedAt'[mutation.grant] = mutation.step
        /\ \A k \in Grants : k # mutation.grant => failedAt'[k] = failedAt[k]
        /\ UNCHANGED <<content, router, draft, before, files, crashed, unrevoked>>
    BY <1>0, <1>a, <1>b, <1>c, <1>11, MutationGoes DEF MutationFails, Fails, MutationSteps,
       Idle, Working
  <2>q. /\ mutation.grant \in Grants /\ mutation.grant \notin before
        /\ mutation.grant \notin files /\ mutation.grant \notin crashed
        /\ content = before \/ content = before \cup {mutation.grant}
    BY <1>0, <2>f DEF SectorInPlace
  <2>r. /\ mutation.step \in {"relock", "check", "record", "commit", "receipt"} =>
               content = before \cup {mutation.grant}
    BY <1>0, <2>f DEF SectorInPlace, Working
  <2>s. failedAt[mutation.grant] = "idle"
    BY <1>0, <2>f DEF GrantInPlace, Working
  <2>t. \/ router.entries[mutation.grant] = Begun
        \/ router.entries[mutation.grant] = Done /\ mutation.step = "receipt"
    BY <1>0, <2>f DEF GrantInPlace, Working
  <2>u. \/ draft.entries[mutation.grant] = Begun
        \/ draft.entries[mutation.grant] = Done /\ mutation.step \in {"commit", "receipt"}
    BY <1>0, <2>f DEF GrantInPlace, Working
  <2>1. NothingBefore'
    BY <1>0, <1>a, <1>c, <1>d, <2>f, <2>q, <2>r, <2>s, <2>t, <2>u DEF NothingBefore, Unfinished
  <2>2. OthersAreSettled'
    <3> SUFFICES ASSUME NEW k \in Grants, k # mutation'.grant
                 PROVE  GrantIsSettled(k)' /\ draft'.entries[k] = router'.entries[k]
      BY DEF OthersAreSettled
    <3>1. CASE k # mutation.grant
      BY <1>0, <3>1, <2>f, <2>q, <2>r, <2>s, <2>t, <2>u, SettledStays DEF OthersAreSettled
    <3>2. CASE k = mutation.grant
      BY <1>c, <1>d, <2>f, <2>q, <2>r, <2>s, <2>t, <2>u, <3>2 DEF GrantIsSettled, Says, Late, Unfinished
    <3> QED
      BY <3>1, <3>2
  <2>3. SectorInPlace'
    BY <1>0, <1>a, <1>c, <1>d, <2>f, <2>q, <2>r, <2>s, <2>t, <2>u DEF SectorInPlace, Working
  <2>4. GrantInPlace'
    BY <1>0, <1>a, <1>c, <1>d, <2>f, <2>q, <2>r, <2>s, <2>t, <2>u DEF GrantInPlace, Working,
       Late
  <2>5. DraftInPlace'
    BY <1>0, <1>a, <1>c, <1>d, <2>f, <2>q, <2>r, <2>s, <2>t, <2>u DEF DraftInPlace
  <2>6. HeadsInPlace'
    BY <1>a, <2>f, <2>q, <2>s, <1>0 DEF HeadsInPlace, Undisturbed, Working, Late
  <2>7. FailedLater'
    BY <2>f DEF FailedLater, Late, Working
  <2> QED
    BY <1>0, <2>1, <2>2, <2>3, <2>4, <2>5, <2>6, <2>7 DEF SectorInvariant
<1>12. CASE RestoreSector
  <2>f. /\ mutation'.step = "revoke" /\ mutation'.grant = mutation.grant /\ mutation' # Idle
        /\ mutation.step = "restore" /\ mutation # Idle
        /\ content' = before
        /\ UNCHANGED <<router, draft, before, files, crashed, failedAt, unrevoked>>
    BY <1>0, <1>12, MutationGoes DEF RestoreSector, InStep, History, Commits, MutationSteps,
       Idle
  <2>p. /\ mutation.grant \in Grants /\ mutation.grant \notin before
        /\ mutation.grant \notin files /\ mutation.grant \notin crashed
        /\ content = before \/ content = before \cup {mutation.grant}
        /\ \/ router.entries[mutation.grant] = Begun
           \/ /\ router.entries[mutation.grant] = Done
              /\ failedAt[mutation.grant] \in {"receipt", "restore"}
        /\ draft.entries[mutation.grant].receipt => failedAt[mutation.grant] \in Late
    BY <1>0, <2>f, <1>d DEF SectorInPlace, GrantInPlace, DraftInPlace, Working, Late
  <2>1. NothingBefore'
    BY <1>0, <1>a, <1>c, <1>d, <2>f, <2>p DEF NothingBefore, Unfinished
  <2>2. OthersAreSettled'
    <3> SUFFICES ASSUME NEW k \in Grants, k # mutation'.grant
                 PROVE  GrantIsSettled(k)' /\ draft'.entries[k] = router'.entries[k]
      BY DEF OthersAreSettled
    <3>1. CASE k # mutation.grant
      BY <1>0, <3>1, <2>f, <2>p, SettledStays DEF OthersAreSettled
    <3>2. CASE k = mutation.grant
      BY <1>c, <1>d, <2>f, <2>p, <3>2 DEF GrantIsSettled, Says, Late, Unfinished
    <3> QED
      BY <3>1, <3>2
  <2>3. SectorInPlace'
    BY <1>0, <1>a, <1>c, <1>d, <2>f, <2>p DEF SectorInPlace, Working
  <2>4. GrantInPlace'
    BY <1>0, <1>a, <1>c, <1>d, <2>f, <2>p DEF GrantInPlace, Working, Late
  <2>5. DraftInPlace'
    BY <1>0, <1>a, <1>c, <1>d, <2>f, <2>p DEF DraftInPlace
  <2>6. HeadsInPlace'
    BY <1>0, <1>a, <1>c, <1>d, <2>f, <2>p DEF HeadsInPlace, Undisturbed, Late
  <2>7. FailedLater'
    BY <1>0, <2>f DEF FailedLater, Late
  <2> QED
    BY <1>0, <2>1, <2>2, <2>3, <2>4, <2>5, <2>6, <2>7 DEF SectorInvariant
<1>13. CASE RestoreFails
  <2>f. /\ mutation'.step = "revoke" /\ mutation'.grant = mutation.grant /\ mutation' # Idle
        /\ mutation.step = "restore" /\ mutation # Idle
        /\ failedAt'[mutation.grant] = "restore"
        /\ \A k \in Grants : k # mutation.grant => failedAt'[k] = failedAt[k]
        /\ content' = before \/ content' = content
        /\ UNCHANGED <<router, draft, before, files, crashed, unrevoked>>
    BY <1>0, <1>a, <1>b, <1>c, <1>13, MutationGoes DEF RestoreFails, Fails, InStep,
       MutationSteps, Idle
  <2>p. /\ mutation.grant \in Grants /\ mutation.grant \notin before
        /\ mutation.grant \notin files /\ mutation.grant \notin crashed
        /\ content = before \/ content = before \cup {mutation.grant}
        /\ \/ router.entries[mutation.grant] = Begun
           \/ /\ router.entries[mutation.grant] = Done
              /\ failedAt[mutation.grant] \in {"receipt", "restore"}
        /\ draft.entries[mutation.grant].receipt => failedAt[mutation.grant] \in Late
    BY <1>0, <2>f, <1>d DEF SectorInPlace, GrantInPlace, DraftInPlace, Working, Late
  <2>1. NothingBefore'
    BY <1>0, <1>a, <1>c, <1>d, <2>f, <2>p DEF NothingBefore, Unfinished
  <2>2. OthersAreSettled'
    <3> SUFFICES ASSUME NEW k \in Grants, k # mutation'.grant
                 PROVE  GrantIsSettled(k)' /\ draft'.entries[k] = router'.entries[k]
      BY DEF OthersAreSettled
    <3>1. CASE k # mutation.grant
      BY <1>0, <3>1, <2>f, <2>p, SettledStays DEF OthersAreSettled
    <3>2. CASE k = mutation.grant
      BY <1>c, <1>d, <2>f, <2>p, <3>2 DEF GrantIsSettled, Says, Late, Unfinished
    <3> QED
      BY <3>1, <3>2
  <2>3. SectorInPlace'
    BY <1>0, <1>a, <1>c, <1>d, <2>f, <2>p DEF SectorInPlace, Working
  <2>4. GrantInPlace'
    BY <1>0, <1>a, <1>c, <1>d, <2>f, <2>p DEF GrantInPlace, Working, Late
  <2>5. DraftInPlace'
    BY <1>0, <1>a, <1>c, <1>d, <2>f, <2>p DEF DraftInPlace
  <2>6. HeadsInPlace'
    BY <1>0, <1>a, <1>c, <1>d, <2>f, <2>p DEF HeadsInPlace, Undisturbed, Late
  <2>7. FailedLater'
    BY <1>0, <2>f DEF FailedLater, Late
  <2> QED
    BY <1>0, <2>1, <2>2, <2>3, <2>4, <2>5, <2>6, <2>7 DEF SectorInvariant
<1>14. CASE RevokeGrant
  <2>d. mutation.step = "revoke" /\ mutation # Idle /\ mutation.grant \in Grants
    BY <1>a, <1>b, <1>14 DEF RevokeGrant, InStep
  <2> DEFINE last == [grant |-> "REVOKED", event |-> "FAILED_ROLLED_BACK",
                      receipt |-> draft.entries[mutation.grant].receipt]
  <2>e. /\ last \in Entry /\ last.grant = "REVOKED" /\ last.event = "FAILED_ROLLED_BACK"
        /\ last.receipt = draft.entries[mutation.grant].receipt
    BY <1>c, <2>d, RouterEntries
  <2>g. router' = Entered(draft, mutation.grant, last)
    BY <1>14 DEF RevokeGrant
  <2> HIDE DEF last
  <2>f. /\ mutation' = Idle /\ mutation'.step = "idle" /\ mutation'.grant = NoGrant
        /\ mutation.step = "revoke" /\ mutation # Idle /\ mutation.grant # NoGrant
        /\ router'.entries[mutation.grant].grant = "REVOKED"
        /\ router'.entries[mutation.grant].event = "FAILED_ROLLED_BACK"
        /\ router'.entries[mutation.grant].receipt = draft.entries[mutation.grant].receipt
        /\ \A k \in Grants : k # mutation.grant => router'.entries[k] = draft.entries[k]
        /\ router'.current = draft.current /\ router'.head = draft.head
        /\ draft' = router'
        /\ UNCHANGED <<content, before, files, crashed, failedAt, unrevoked>>
    <3>1. /\ mutation' = Idle /\ mutation.step = "revoke" /\ draft' = router'
          /\ UNCHANGED <<content, before, files, crashed, failedAt, unrevoked>>
      BY <1>14 DEF RevokeGrant, Commits, History, InStep
    <3>2. /\ mutation'.step = "idle" /\ mutation'.grant = NoGrant
          /\ mutation # Idle /\ mutation.grant # NoGrant
      BY <2>d, <3>1, MutationAssumption DEF Idle
    <3>3. /\ router'.entries[mutation.grant] = last
          /\ \A k \in Grants : k # mutation.grant => router'.entries[k] = draft.entries[k]
          /\ router'.current = draft.current /\ router'.head = draft.head
      BY <1>0, <2>d, <2>e, <2>g, EnteredIsRouter DEF MutationTypeOK
    <3> QED
      BY <2>e, <3>1, <3>2, <3>3
  <2>p. /\ mutation.grant \in Grants /\ mutation.grant \notin before
        /\ mutation.grant \notin files /\ mutation.grant \notin crashed
        /\ content = before \/ content = before \cup {mutation.grant}
        /\ \/ router.entries[mutation.grant] = Begun
           \/ /\ router.entries[mutation.grant] = Done
              /\ failedAt[mutation.grant] \in {"receipt", "restore"}
        /\ draft.entries[mutation.grant].receipt => failedAt[mutation.grant] \in Late
        /\ content = before \/ failedAt[mutation.grant] = "restore"
    BY <1>0, <2>f, <1>d DEF SectorInPlace, GrantInPlace, DraftInPlace, Working, Late
  <2>1. NothingBefore'
    BY <1>0, <1>a, <1>c, <1>d, <2>f, <2>p DEF NothingBefore, OthersAreSettled, Unfinished
  <2>2. OthersAreSettled'
    <3> SUFFICES ASSUME NEW k \in Grants, k # mutation'.grant
                 PROVE  GrantIsSettled(k)' /\ draft'.entries[k] = router'.entries[k]
      BY DEF OthersAreSettled
    <3>1. CASE k # mutation.grant
      BY <1>0, <3>1, <2>f, <2>p, SettledStays DEF OthersAreSettled
    <3>2. CASE k = mutation.grant
      BY <1>c, <1>d, <2>f, <2>p, <3>2 DEF GrantIsSettled, Says, Late, Unfinished
    <3> QED
      BY <3>1, <3>2
  <2>3. SectorInPlace'
    BY <1>0, <1>a, <1>c, <1>d, <2>f, <2>p DEF SectorInPlace, Working
  <2>4. GrantInPlace'
    BY <1>0, <1>a, <1>c, <1>d, <2>f, <2>p DEF GrantInPlace, Working, Late
  <2>5. DraftInPlace'
    BY <1>0, <1>a, <1>c, <1>d, <2>f, <2>p DEF DraftInPlace
  <2>6. HeadsInPlace'
    BY <1>0, <1>a, <1>c, <1>d, <2>f, <2>p DEF HeadsInPlace, Undisturbed, Late
  <2>7. FailedLater'
    BY <1>0, <2>f DEF FailedLater, Late
  <2> QED
    BY <1>0, <2>1, <2>2, <2>3, <2>4, <2>5, <2>6, <2>7 DEF SectorInvariant
<1>15. CASE MutationCrash
  <2>f. /\ mutation' = Idle /\ mutation'.step = "idle" /\ mutation'.grant = NoGrant
        /\ mutation # Idle /\ mutation.grant # NoGrant
        /\ crashed' = crashed \cup {mutation.grant} /\ draft' = router
        /\ UNCHANGED <<content, router, before, files, failedAt, unrevoked>>
    BY <1>a, <1>b, <1>15, MutationAssumption DEF MutationCrash, Idle
  <2>q. /\ mutation.grant \in Grants /\ mutation.grant \notin before
        /\ mutation.grant \notin files /\ mutation.grant \notin crashed
        /\ content = before \/ content = before \cup {mutation.grant}
    BY <1>0, <2>f DEF SectorInPlace
  <2>r. mutation.step = "receipt" => content = before \cup {mutation.grant}
    BY <1>0, <2>f DEF SectorInPlace, Working
  <2>s. mutation.step \in Working \cup {"restore", "revoke"}
    BY <1>0, <1>a, <2>f DEF MutationTypeOK, MutationSteps, Working
  <2>t. \/ router.entries[mutation.grant] = Begun
        \/ /\ router.entries[mutation.grant] = Done
           /\ \/ mutation.step = "receipt"
              \/ failedAt[mutation.grant] \in {"receipt", "restore"}
    BY <1>0, <2>f, <2>s DEF GrantInPlace, Working
  <2>1. NothingBefore'
    BY <1>0, <1>a, <1>c, <1>d, <2>f, <2>q, <2>r, <2>t DEF NothingBefore, Unfinished
  <2>2. OthersAreSettled'
    <3> SUFFICES ASSUME NEW k \in Grants, k # mutation'.grant
                 PROVE  GrantIsSettled(k)' /\ draft'.entries[k] = router'.entries[k]
      BY DEF OthersAreSettled
    <3>1. CASE k # mutation.grant
      BY <1>0, <3>1, <2>f, <2>q, <2>r, <2>t, SettledStays DEF OthersAreSettled
    <3>2. CASE k = mutation.grant
      BY <1>c, <1>d, <2>f, <2>q, <2>r, <2>t, <3>2 DEF GrantIsSettled, Says, Late, Unfinished
    <3> QED
      BY <3>1, <3>2
  <2>3. SectorInPlace'
    BY <1>0, <1>a, <1>c, <1>d, <2>f, <2>q, <2>r, <2>t DEF SectorInPlace, Working
  <2>4. GrantInPlace'
    BY <1>0, <1>a, <1>c, <1>d, <2>f, <2>q, <2>r, <2>t DEF GrantInPlace, Working, Late
  <2>5. DraftInPlace'
    BY <1>0, <1>a, <1>c, <1>d, <2>f, <2>q, <2>r, <2>t DEF DraftInPlace
  <2>6. HeadsInPlace'
    BY <1>0, <1>a, <1>c, <1>d, <2>f, <2>q, <2>r, <2>t DEF HeadsInPlace, Undisturbed, Late
  <2>7. FailedLater'
    BY <1>0, <2>f DEF FailedLater, Late
  <2> QED
    BY <1>0, <2>1, <2>2, <2>3, <2>4, <2>5, <2>6, <2>7 DEF SectorInvariant
<1>16. CASE RevokeFails
  <2>f. /\ mutation' = Idle /\ mutation'.step = "idle" /\ mutation'.grant = NoGrant
        /\ mutation.step = "revoke" /\ mutation # Idle /\ mutation.grant # NoGrant
        /\ unrevoked' = unrevoked \cup {mutation.grant} /\ draft' = router
        /\ UNCHANGED <<content, router, before, files, crashed, failedAt>>
    BY <1>a, <1>b, <1>16, MutationAssumption DEF RevokeFails, InStep, Idle
  <2>p. /\ mutation.grant \in Grants /\ mutation.grant \notin before
        /\ mutation.grant \notin files /\ mutation.grant \notin crashed
        /\ content = before \/ content = before \cup {mutation.grant}
        /\ \/ router.entries[mutation.grant] = Begun
           \/ /\ router.entries[mutation.grant] = Done
              /\ failedAt[mutation.grant] \in {"receipt", "restore"}
        /\ content = before \/ failedAt[mutation.grant] = "restore"
    BY <1>0, <2>f, <1>d DEF SectorInPlace, GrantInPlace, Working, Late
  <2>1. NothingBefore'
    BY <1>0, <1>a, <1>c, <1>d, <2>f, <2>p DEF NothingBefore, Unfinished
  <2>2. OthersAreSettled'
    <3> SUFFICES ASSUME NEW k \in Grants, k # mutation'.grant
                 PROVE  GrantIsSettled(k)' /\ draft'.entries[k] = router'.entries[k]
      BY DEF OthersAreSettled
    <3>1. CASE k # mutation.grant
      BY <1>0, <3>1, <2>f, <2>p, SettledStays DEF OthersAreSettled
    <3>2. CASE k = mutation.grant
      BY <1>c, <1>d, <2>f, <2>p, <3>2 DEF GrantIsSettled, Says, Late, Unfinished
    <3> QED
      BY <3>1, <3>2
  <2>3. SectorInPlace'
    BY <1>0, <1>a, <1>c, <1>d, <2>f, <2>p DEF SectorInPlace, Working
  <2>4. GrantInPlace'
    BY <1>0, <1>a, <1>c, <1>d, <2>f, <2>p DEF GrantInPlace, Working, Late
  <2>5. DraftInPlace'
    BY <1>0, <1>a, <1>c, <1>d, <2>f, <2>p DEF DraftInPlace
  <2>6. HeadsInPlace'
    <3> SUFFICES ASSUME Undisturbed PROVE router.current = before /\ router.head = before
                                          /\ content = before
      BY <2>f DEF HeadsInPlace, Undisturbed
    <3>1. failedAt[mutation.grant] \in {"mutate", "relock", "check"}
      BY <1>0, <2>f, <2>p DEF Undisturbed, FailedLater
    <3>2. draft = router
      BY <1>0, <2>f, <3>1 DEF DraftInPlace
    <3>3. content = before
      BY <2>p, <3>1
    <3> QED
      BY <1>0, <2>f, <3>2, <3>3 DEF HeadsInPlace
  <2>7. FailedLater'
    BY <1>0, <2>f DEF FailedLater, Late
  <2> QED
    BY <1>0, <2>1, <2>2, <2>3, <2>4, <2>5, <2>6, <2>7 DEF SectorInvariant
<1> QED
  BY <1>1, <1>2, <1>3, <1>4, <1>5, <1>6, <1>7, <1>8, <1>9, <1>10, <1>11, <1>12, <1>13,
     <1>14, <1>15, <1>16 DEF MutationNext

-----------------------------------------------------------------------------
\* The invariant holds of every reachable state.
LEMMA SectorInvariantCorrect == MutationSpec => []SectorInvariant
<1>1. MutationInit => SectorInvariant
  <2> SUFFICES ASSUME MutationInit PROVE SectorInvariant
    OBVIOUS
  <2>1. NewRouter \in Router /\ \A g \in Grants : NewRouter.entries[g] = NoEntry
    BY DEF NewRouter, NoEntry, Router, Entry
  <2>2. MutationTypeOK
    BY <2>1 DEF MutationInit, MutationTypeOK, MutationSteps, Idle
  <2>3. /\ NoEntry.grant = "NONE" /\ Idle.step = "idle"
        /\ NewRouter.current = {} /\ NewRouter.head = {}
    BY DEF NoEntry, Idle, NewRouter
  <2> QED
    BY <2>1, <2>2, <2>3 DEF MutationInit, SectorInvariant, NothingBefore, OthersAreSettled,
       GrantIsSettled, Says, Unfinished, SectorInPlace, GrantInPlace, DraftInPlace,
       FailedLater, HeadsInPlace
<1> QED
  BY <1>1, SectorStep, PTL DEF MutationSpec

\* When no mutation runs, the router and the sector tell the same of every one there was.
LEMMA InvariantSettles == SectorInvariant => MutationsAreSettled
<1> SUFFICES ASSUME SectorInvariant PROVE MutationsAreSettled
  OBVIOUS
<1>1. MutationTypeOK /\ OthersAreSettled /\ DraftInPlace /\ HeadsInPlace
  BY DEF SectorInvariant
<1>2. Quiet => mutation.step = "idle" /\ \A g \in Grants : g # mutation.grant
  BY MutationAssumption DEF Quiet, Idle
<1>3. GrantsAreSettled
  <2>1. ASSUME Quiet, NEW g \in Grants PROVE GrantIsSettled(g)
    BY <1>1, <1>2, <2>1 DEF OthersAreSettled
  <2>2. ASSUME Quiet, NEW g \in Grants
        PROVE  /\ Says(g).grant = "CONSUMED" =>
                     /\ Says(g).event = "PASS" /\ Says(g).receipt
                     /\ g \in content \/ (Unfinished(g) /\ failedAt[g] \in {"receipt", "restore"})
                     /\ g \in files \/ Unfinished(g)
               /\ Says(g).grant = "REVOKED" =>
                     /\ Says(g).event = "FAILED_ROLLED_BACK"
                     /\ g \notin content \/ failedAt[g] = "restore"
                     /\ g \notin files
               /\ Says(g).grant = "ISSUED" =>
                     /\ Says(g).event = "RUNNING" /\ g \notin files
                     /\ Unfinished(g) \/ failedAt[g] = "unlock"
                     /\ g \notin content \/ g \in crashed \/ failedAt[g] = "restore"
    BY <2>1, <2>2 DEF GrantIsSettled
  <2> QED
    BY <2>2 DEF GrantsAreSettled
<1>4. RouterFollowsSector
  BY <1>1, <1>2 DEF RouterFollowsSector, Quiet, OthersAreSettled, GrantIsSettled, DraftInPlace,
     HeadsInPlace, Undisturbed, Late
<1> QED
  BY <1>3, <1>4 DEF MutationsAreSettled

\* Whatever fails, copying back and the revocation too, and whenever the worker dies: a
\* mutation the router calls done is in the sector, one it calls revoked is not, and one
\* that it leaves open was interrupted, but for the failures the property names.
THEOREM MutationsSettle == MutationSpec => []MutationsAreSettled
BY SectorInvariantCorrect, InvariantSettles, PTL

\* The types, of every reachable state.
THEOREM MutationTypes == MutationSpec => []MutationTypeOK
<1>1. SectorInvariant => MutationTypeOK
  BY DEF SectorInvariant
<1> QED
  BY <1>1, SectorInvariantCorrect, PTL

-----------------------------------------------------------------------------
(* The ingestion of the sources of a brain.                                *)

\* Every edit gives a source a later stat.
StatsGrow ==
    \A s \in Ingested :
        /\ sourceStat[s] <= sourceEdits
        /\ cached[s] # NoRow => cached[s].stat <= sourceStat[s]
        /\ accepted[s] # NoRow => accepted[s] <= sourceStat[s]

\* A row whose projection is still to come.
ProjectionIsDue(s) ==
    s = source /\ s \in StructuralLane /\ ingestion.step \in {"record", "project", "check"}

RowsAreWhole ==
    \A s \in Ingested \ disturbed :
        sectorRows[s] # NoRow =>
            /\ sectorRows[s].chunks = sectorRows[s].hash
            /\ sectorRows[s].hash \in sectorRows[s].projection \/ ProjectionIsDue(s)

AcceptedIsThere ==
    \A s \in Ingested :
        accepted[s] = sourceStat[s] =>
            /\ sectorRows[s] # NoRow /\ sectorRows[s].hash = sourceFile[s]
            /\ s \notin disturbed => sourceFile[s] \in sectorRows[s].projection

Probed == \/ ingestion.step \in {"inspect", "read", "mutate", "record", "project", "check"}
          \/ ingestion.step = "stage" /\ source \in CodeLane
Hashed == ingestion.step \in {"read", "mutate", "record", "project", "check"}

\* What an ingestion has read so far is what its source holds, until the source is edited.
ReadingFits ==
    /\ ingestion.step = "idle" => ingestion = NoIngestion
    /\ ingestion.step # "idle" => source \in Ingested
    /\ ingestion.step \in {"project", "check"} => source \in StructuralLane
    /\ ingestion.step \in {"inspect", "read"} => source \notin CodeLane
    /\ Probed => /\ ingestion.stat <= sourceStat[source]
                 /\ accepted[source] # NoRow => accepted[source] <= ingestion.stat
    /\ Hashed =>
        /\ ingestion.stat = sourceStat[source] => ingestion.hash = sourceFile[source]
        /\ source \notin disturbed => ingestion.hash = sourceFile[source]
                                      /\ ingestion.chunks = sourceFile[source]
        /\ source \notin Unverified => ingestion.chunks = ingestion.hash
    /\ ingestion.step \in {"record", "project", "check"} =>
           sectorRows[source] # NoRow /\ sectorRows[source].hash = ingestion.hash
    /\ source \in SemanticLane \ disturbed /\ ingestion.step # "stage" =>
           ingestion.staged = sourceFile[source]
    /\ ingestion.step = "check" /\ source \notin disturbed =>
           ingestion.staged = sourceFile[source]

IngestionInvariant ==
    /\ IngestionTypeOK /\ StatsGrow /\ CacheIsTrue /\ RowsAreWhole /\ AcceptedIsThere
    /\ ChunksHaveTheHash /\ SearchIsOfAvailable /\ ReadingFits

-----------------------------------------------------------------------------
LEMMA NoIngestionTyped ==
    /\ NoIngestion \in [step : IngestionSteps, source : Ingested \cup {NoSource},
                        stat : SourceStats, hash : Contents, chunks : Contents,
                        staged : Contents]
    /\ NoIngestion.step = "idle" /\ NoIngestion.source = NoSource
  BY IngestionAssumption DEF FirstContent, SourceStats, NoIngestion, IngestionSteps

LEMMA IngestionStart == IngestionInit => IngestionInvariant
<1> SUFFICES ASSUME IngestionInit PROVE IngestionInvariant
  OBVIOUS
<1>1. FirstContent \in Contents /\ 0 \in SourceStats
  BY IngestionAssumption DEF FirstContent, SourceStats
<1>2. IngestionTypeOK
  BY <1>1, NoIngestionTyped, IngestionAssumption DEF IngestionInit, IngestionTypeOK
<1>3. \A s \in Ingested : accepted[s] = NoRow /\ sourceStat[s] = 0 /\ NoRow # 0
                          /\ sectorRows[s] = NoRow /\ cached[s] = NoRow
  BY NoRowIsNothing DEF IngestionInit
<1>4. StatsGrow /\ CacheIsTrue /\ RowsAreWhole /\ AcceptedIsThere /\ ChunksHaveTheHash
      /\ SearchIsOfAvailable
  BY <1>3 DEF IngestionInit, StatsGrow, CacheIsTrue, RowsAreWhole, AcceptedIsThere,
     ChunksHaveTheHash, SearchIsOfAvailable, KnownHash
<1>5. ReadingFits
  BY NoIngestionTyped, IngestionAssumption DEF IngestionInit, ReadingFits, Probed, Hashed,
     source, Ingested
<1> QED
  BY <1>2, <1>4, <1>5 DEF IngestionInvariant

-----------------------------------------------------------------------------
\* An ingestion that ends leaves the rows as they are.
LEMMA EndIngestionKeeps ==
    ASSUME IngestionInvariant, ingestion' = NoIngestion,
           UNCHANGED <<sourceFile, sourceStat, sourceEdits, sectorRows, reactivated>>,
           disturbed' \subseteq Ingested, disturbed \subseteq disturbed',
           badStages' \subseteq CodeLane, ingested' \in 0..MaxIngestions,
           ingestFaults' \in 0..MaxIngestFaults,
           cached' \in [Ingested -> [stat : SourceStats, hash : Contents] \cup {NoRow}],
           accepted' \in [Ingested -> SourceStats \cup {NoRow}],
           StatsGrow', CacheIsTrue', AcceptedIsThere',
           \A s \in Ingested \ disturbed' :
               sectorRows[s] # NoRow /\ ProjectionIsDue(s) =>
                   sectorRows[s].hash \in sectorRows[s].projection
    PROVE  IngestionInvariant'
<1>1. IngestionTypeOK'
  BY NoIngestionTyped DEF IngestionInvariant, IngestionTypeOK
<1>2. RowsAreWhole' /\ ChunksHaveTheHash' /\ SearchIsOfAvailable'
  BY DEF IngestionInvariant, RowsAreWhole, ChunksHaveTheHash, SearchIsOfAvailable
<1>3. ReadingFits'
  BY NoIngestionTyped, IngestionAssumption DEF ReadingFits, Probed, Hashed, source, Ingested
<1> QED
  BY <1>1, <1>2, <1>3 DEF IngestionInvariant

\* A step of an ingestion that only reads.
LEMMA ReadingMoves ==
    ASSUME IngestionInvariant, NEW g \in [step : IngestionSteps, source : Ingested \cup {NoSource},
                      stat : SourceStats, hash : Contents, chunks : Contents,
                      staged : Contents], ingestion' = g,
           UNCHANGED <<sourceFile, sourceStat, sourceEdits, sectorRows, reactivated, disturbed,
                       badStages, ingestFaults, accepted>>,
           cached' \in [Ingested -> [stat : SourceStats, hash : Contents] \cup {NoRow}],
           ingested' \in 0..MaxIngestions, StatsGrow', CacheIsTrue',
           \A s \in Ingested : ProjectionIsDue(s) => ProjectionIsDue(s)',
           ReadingFits'
    PROVE  IngestionInvariant'
<1>1. IngestionTypeOK'
  BY DEF IngestionInvariant, IngestionTypeOK
<1>2. RowsAreWhole'
  BY DEF IngestionInvariant, RowsAreWhole
<1>3. AcceptedIsThere' /\ ChunksHaveTheHash' /\ SearchIsOfAvailable'
  BY DEF IngestionInvariant, AcceptedIsThere, ChunksHaveTheHash, SearchIsOfAvailable
<1> QED
  BY <1>1, <1>2, <1>3 DEF IngestionInvariant

LEMMA BeginIngestionKeeps ==
    ASSUME IngestionInvariant, NEW s \in Ingested, BeginIngestion(s)
    PROVE  IngestionInvariant'
<1> DEFINE step == IF s \in SemanticLane THEN "stage" ELSE "probe"
           g == [NoIngestion EXCEPT !.step = step, !.source = s]
<1>1. /\ ingestion = NoIngestion /\ ingested < MaxIngestions /\ ingested' = ingested + 1
      /\ ingestion' = g
      /\ UNCHANGED <<cached, sectorRows, badStages, ingestFaults, accepted, disturbed,
                     sourceFile, sourceStat, sourceEdits, reactivated>>
  BY DEF BeginIngestion, Unmoved, SourcesStay
<1>2. /\ g \in [step : IngestionSteps, source : Ingested \cup {NoSource},
                stat : SourceStats, hash : Contents, chunks : Contents, staged : Contents]
      /\ g.step = step /\ g.source = s
  BY NoIngestionTyped DEF IngestionSteps
<1>3. ingested' \in 0..MaxIngestions
  BY <1>1, IngestionAssumption DEF IngestionInvariant, IngestionTypeOK
<1>4. StatsGrow' /\ CacheIsTrue'
  BY <1>1 DEF IngestionInvariant, StatsGrow, CacheIsTrue, KnownHash
<1>5. ReadingFits'
  BY <1>1, <1>2, IngestionAssumption DEF ReadingFits, Probed, Hashed, source
<1>6. \A t \in Ingested : ~ProjectionIsDue(t)
  BY <1>1, NoIngestionTyped DEF ProjectionIsDue
<1> HIDE DEF g
<1>7. cached' \in [Ingested -> [stat : SourceStats, hash : Contents] \cup {NoRow}]
  BY <1>1 DEF IngestionInvariant, IngestionTypeOK
<1> QED
  BY <1>1, <1>2, <1>3, <1>4, <1>5, <1>6, <1>7, ReadingMoves

LEMMA StageProjectionKeeps == IngestionInvariant /\ StageProjection => IngestionInvariant'
<1> SUFFICES ASSUME IngestionInvariant, StageProjection PROVE IngestionInvariant'
  OBVIOUS
<1> DEFINE g == [ingestion EXCEPT !.step = "probe", !.staged = sourceFile[source]]
<1>1. /\ ingestion.step = "stage" /\ source \in SemanticLane /\ ingestion' = g
      /\ UNCHANGED <<cached, sectorRows, badStages, ingested, ingestFaults, accepted, disturbed,
                     sourceFile, sourceStat, sourceEdits, reactivated>>
  BY DEF StageProjection, StagedProjection, Unmoved, SourcesStay
<1>2. IngestionTypeOK
  BY DEF IngestionInvariant
<1>3. source \in Ingested /\ sourceFile[source] \in Contents
  BY <1>1, <1>2 DEF IngestionTypeOK, Ingested
<1>4. /\ g \in [step : IngestionSteps, source : Ingested \cup {NoSource},
                stat : SourceStats, hash : Contents, chunks : Contents, staged : Contents]
      /\ g.step = "probe" /\ g.source = source /\ g.staged = sourceFile[source]
  BY <1>2, <1>3 DEF IngestionTypeOK, IngestionSteps, source
<1>5. StatsGrow' /\ CacheIsTrue'
  BY <1>1 DEF IngestionInvariant, StatsGrow, CacheIsTrue, KnownHash
<1> HIDE DEF g
<1>6. source' = source
  BY <1>1, <1>4 DEF source
<1>7. ReadingFits'
  BY <1>1, <1>3, <1>4, <1>6 DEF ReadingFits, Probed, Hashed
<1>8. \A t \in Ingested : ~ProjectionIsDue(t)
  BY <1>1 DEF ProjectionIsDue
<1>9. /\ cached' \in [Ingested -> [stat : SourceStats, hash : Contents] \cup {NoRow}]
      /\ ingested' \in 0..MaxIngestions
  BY <1>1, <1>2 DEF IngestionTypeOK
<1> QED
  BY <1>1, <1>4, <1>5, <1>7, <1>8, <1>9, ReadingMoves

LEMMA ProbeSourceKeeps == IngestionInvariant /\ ProbeSource => IngestionInvariant'
<1> SUFFICES ASSUME IngestionInvariant, ProbeSource PROVE IngestionInvariant'
  OBVIOUS
<1>1. /\ ingestion.step = "probe"
      /\ UNCHANGED <<cached, sectorRows, badStages, ingested, ingestFaults, disturbed,
                     sourceFile, sourceStat, sourceEdits, reactivated>>
  BY DEF ProbeSource, Unmoved, SourcesStay
<1>2. IngestionTypeOK /\ source \in Ingested
  BY <1>1 DEF IngestionInvariant, ReadingFits
<1>3. /\ sourceStat[source] \in SourceStats /\ sourceFile[source] \in Contents
      /\ cached' \in [Ingested -> [stat : SourceStats, hash : Contents] \cup {NoRow}]
      /\ ingested' \in 0..MaxIngestions /\ SourceStats \subseteq Nat
  BY <1>1, <1>2, IngestionAssumption DEF IngestionTypeOK, SourceStats
<1>4. \A s \in Ingested : ~ProjectionIsDue(s)
  BY <1>1 DEF ProjectionIsDue
<1>5. CASE /\ KnownHash(source) /\ IsCurrent(source, cached[source].hash)
           /\ accepted' = [accepted EXCEPT ![source] = sourceStat[source]]
           /\ ingestion' = NoIngestion
  <2>1. accepted' \in [Ingested -> SourceStats \cup {NoRow}]
    BY <1>2, <1>3, <1>5 DEF IngestionTypeOK
  <2>2. /\ accepted'[source] = sourceStat[source]
        /\ \A s \in Ingested \ {source} : accepted'[s] = accepted[s]
    BY <1>2, <1>5 DEF IngestionTypeOK
  <2>a. StatsGrow /\ CacheIsTrue /\ sourceStat[source] \in Nat
    BY <1>3 DEF IngestionInvariant
  <2>b. \A s \in Ingested : accepted'[s] # NoRow => accepted'[s] <= sourceStat[s]
    BY <2>2, <2>a DEF StatsGrow
  <2>3. StatsGrow' /\ CacheIsTrue'
    BY <1>1, <2>a, <2>b DEF StatsGrow, CacheIsTrue, KnownHash
  <2>4. sectorRows[source] # NoRow /\ sectorRows[source].hash = sourceFile[source]
    BY <1>2, <1>5 DEF IsCurrent, IngestionInvariant, CacheIsTrue
  <2>5. AcceptedIsThere'
    BY <1>1, <1>4, <2>4, <2>2 DEF AcceptedIsThere, IngestionInvariant, RowsAreWhole
  <2>6. disturbed' \subseteq Ingested /\ badStages' \subseteq CodeLane
        /\ ingestFaults' \in 0..MaxIngestFaults /\ disturbed \subseteq disturbed'
    BY <1>1, <1>2 DEF IngestionTypeOK
  <2> QED
    BY <1>1, <1>3, <1>4, <1>5, <2>1, <2>3, <2>5, <2>6, EndIngestionKeeps
<1>6. CASE /\ ingestion' = [ingestion EXCEPT !.step = IF source \in CodeLane THEN "stage"
                                                     ELSE "inspect",
                                            !.stat = sourceStat[source]]
           /\ UNCHANGED accepted
  <2> DEFINE step == IF source \in CodeLane THEN "stage" ELSE "inspect"
             g == [ingestion EXCEPT !.step = step, !.stat = sourceStat[source]]
  <2>1. /\ g \in [step : IngestionSteps, source : Ingested \cup {NoSource},
                  stat : SourceStats, hash : Contents, chunks : Contents, staged : Contents]
        /\ g.step = step /\ g.source = source /\ g.stat = sourceStat[source]
        /\ g.staged = ingestion.staged
    BY <1>2, <1>3 DEF IngestionTypeOK, IngestionSteps, source
  <2>2. ingestion' = g
    BY <1>6
  <2> HIDE DEF g
  <2>3. source' = source
    BY <2>1, <2>2 DEF source
  <2>4. sourceStat[source] \in Nat /\ (accepted[source] # NoRow => accepted[source] <= sourceStat[source])
    BY <1>2, <1>3 DEF IngestionInvariant, StatsGrow
  <2>5. source \in SemanticLane \ disturbed => ingestion.staged = sourceFile[source]
    BY <1>1 DEF IngestionInvariant, ReadingFits
  <2>a. step \in {"stage", "inspect"} /\ (step = "stage" <=> source \in CodeLane)
    OBVIOUS
  <2>b. source \in SemanticLane => source \notin CodeLane
    BY IngestionAssumption
  <2> HIDE DEF step
  <2>6. ReadingFits'
    BY <1>1, <1>2, <1>6, <2>1, <2>2, <2>3, <2>4, <2>5, <2>a, <2>b DEF ReadingFits, Probed,
       Hashed
  <2>7. StatsGrow' /\ CacheIsTrue'
    BY <1>1, <1>6 DEF IngestionInvariant, StatsGrow, CacheIsTrue, KnownHash
  <2> QED
    BY <1>1, <1>3, <1>4, <1>6, <2>1, <2>2, <2>6, <2>7, ReadingMoves
<1> QED
  BY <1>5, <1>6 DEF ProbeSource

\* What is recorded for a stat is what the source held when it was read, which is what it
\* holds if the stat is still that one.
LEMMA RecordedHashFits ==
    ASSUME IngestionInvariant, NEW s \in Ingested, NEW st \in SourceStats, NEW hash \in Contents,
           st <= sourceStat[s], st = sourceStat[s] => hash = sourceFile[s],
           UNCHANGED <<sourceFile, sourceStat, sourceEdits>>,
           cached' = [cached EXCEPT ![s] = [stat |-> st, hash |-> hash]],
           \A x \in Ingested : accepted'[x] # NoRow => accepted'[x] <= sourceStat[x]
    PROVE  /\ cached' \in [Ingested -> [stat : SourceStats, hash : Contents] \cup {NoRow}]
           /\ StatsGrow' /\ CacheIsTrue'
<1> DEFINE e == [stat |-> st, hash |-> hash]
<1>1. e \in [stat : SourceStats, hash : Contents] /\ e.stat = st /\ e.hash = hash
  OBVIOUS
<1> HIDE DEF e
<1>2. cached' = [cached EXCEPT ![s] = e]
  BY DEF e
<1>3. cached \in [Ingested -> [stat : SourceStats, hash : Contents] \cup {NoRow}]
  BY DEF IngestionInvariant, IngestionTypeOK
<1>4. cached'[s] = e /\ \A x \in Ingested \ {s} : cached'[x] = cached[x]
  BY <1>2, <1>3
<1>5. StatsGrow'
  BY <1>1, <1>4 DEF IngestionInvariant, StatsGrow
<1>6. CacheIsTrue'
  BY <1>1, <1>4 DEF IngestionInvariant, CacheIsTrue, KnownHash
<1> QED
  BY <1>1, <1>2, <1>3, <1>5, <1>6

\* The hash of a source is taken: what is there is kept, or it is to be written.
LEMMA SameContentKeeps ==
    ASSUME IngestionInvariant, source \in Ingested, SameContent(sourceFile[source]),
           \/ ingestion.step = "inspect" /\ source \notin CodeLane
           \/ ingestion.step = "stage" /\ source \in CodeLane,
           UNCHANGED <<sectorRows, badStages, ingested, ingestFaults, disturbed,
                       sourceFile, sourceStat, sourceEdits, reactivated>>
    PROVE  IngestionInvariant'
<1>1. /\ IngestionTypeOK /\ Probed /\ ingestion.stat <= sourceStat[source]
      /\ accepted[source] # NoRow => accepted[source] <= ingestion.stat
  BY DEF IngestionInvariant, ReadingFits, Probed
<1>2. /\ sourceFile[source] \in Contents /\ ingestion.stat \in SourceStats
      /\ sourceStat[source] \in SourceStats /\ SourceStats \subseteq Nat
      /\ ingested' \in 0..MaxIngestions /\ ingestFaults' \in 0..MaxIngestFaults
      /\ disturbed' \subseteq Ingested /\ disturbed \subseteq disturbed'
      /\ badStages' \subseteq CodeLane
  BY <1>1, IngestionAssumption DEF IngestionTypeOK, SourceStats
<1>3. \A s \in Ingested : ~ProjectionIsDue(s)
  BY DEF ProjectionIsDue
<1>4. CASE /\ IsCurrent(source, sourceFile[source])
           /\ cached' = [cached EXCEPT ![source] = [stat |-> ingestion.stat,
                                                    hash |-> sourceFile[source]]]
           /\ AcceptSource
           /\ ingestion' = NoIngestion
  <2>1. accepted' = [accepted EXCEPT ![source] = ingestion.stat]
    BY <1>4 DEF AcceptSource
  <2>2. accepted' \in [Ingested -> SourceStats \cup {NoRow}]
    BY <1>1, <1>2, <2>1 DEF IngestionTypeOK
  <2>3. /\ accepted'[source] = ingestion.stat
        /\ \A s \in Ingested \ {source} : accepted'[s] = accepted[s]
    BY <1>1, <2>1 DEF IngestionTypeOK
  <2>4. \A s \in Ingested : accepted'[s] # NoRow => accepted'[s] <= sourceStat[s]
    BY <1>1, <2>3 DEF IngestionInvariant, StatsGrow
  <2>5. /\ cached' \in [Ingested -> [stat : SourceStats, hash : Contents] \cup {NoRow}]
        /\ StatsGrow' /\ CacheIsTrue'
    BY <1>1, <1>2, <1>4, <2>4, RecordedHashFits
  <2>6. AcceptedIsThere'
    BY <1>3, <1>4, <2>3 DEF AcceptedIsThere, IngestionInvariant, RowsAreWhole, IsCurrent
  <2> QED
    BY <1>2, <1>3, <1>4, <2>2, <2>5, <2>6, EndIngestionKeeps
<1>5. CASE /\ ingestion' = [ingestion EXCEPT !.hash = sourceFile[source],
                                             !.chunks = sourceFile[source],
                                         !.step = IF source \in CodeLane THEN "mutate"
                                                  ELSE "read"]
           /\ UNCHANGED <<cached, accepted>>
  <2> DEFINE step == IF source \in CodeLane THEN "mutate" ELSE "read"
             g == [ingestion EXCEPT !.hash = sourceFile[source], !.chunks = sourceFile[source],
                                    !.step = step]
  <2>1. /\ g \in [step : IngestionSteps, source : Ingested \cup {NoSource},
                  stat : SourceStats, hash : Contents, chunks : Contents, staged : Contents]
        /\ g.step = step /\ g.source = source /\ g.stat = ingestion.stat
        /\ g.hash = sourceFile[source] /\ g.chunks = sourceFile[source]
        /\ g.staged = ingestion.staged
    BY <1>1, <1>2 DEF IngestionTypeOK, IngestionSteps, source
  <2>2. ingestion' = g
    BY <1>5
  <2> HIDE DEF g
  <2>3. source' = source
    BY <2>1, <2>2 DEF source
  <2>5. source \in SemanticLane \ disturbed => ingestion.staged = sourceFile[source]
    BY IngestionAssumption DEF IngestionInvariant, ReadingFits
  <2>a. step \in {"mutate", "read"} /\ (step = "mutate" <=> source \in CodeLane)
    OBVIOUS
  <2> HIDE DEF step
  <2>6. ReadingFits'
    BY <1>1, <1>5, <2>1, <2>2, <2>3, <2>5, <2>a DEF ReadingFits, Probed, Hashed
  <2>7. StatsGrow' /\ CacheIsTrue'
    BY <1>5 DEF IngestionInvariant, StatsGrow, CacheIsTrue, KnownHash
  <2>8. cached' \in [Ingested -> [stat : SourceStats, hash : Contents] \cup {NoRow}]
    BY <1>1, <1>5 DEF IngestionTypeOK
  <2> QED
    BY <1>2, <1>3, <1>5, <2>1, <2>2, <2>6, <2>7, <2>8, ReadingMoves
<1> QED
  BY <1>4, <1>5 DEF SameContent

LEMMA InspectSourceKeeps == IngestionInvariant /\ InspectSource => IngestionInvariant'
<1> SUFFICES ASSUME IngestionInvariant, InspectSource PROVE IngestionInvariant'
  OBVIOUS
<1>1. /\ ingestion.step = "inspect" /\ SameContent(sourceFile[source])
      /\ UNCHANGED <<sectorRows, badStages, ingested, ingestFaults, disturbed,
                     sourceFile, sourceStat, sourceEdits, reactivated>>
  BY DEF InspectSource, DocumentHash, Unmoved, SourcesStay
<1>2. source \in Ingested /\ source \notin CodeLane
  BY <1>1 DEF IngestionInvariant, ReadingFits
<1> QED
  BY <1>1, <1>2, SameContentKeeps

LEMMA StageCodeKeeps == IngestionInvariant /\ StageCode => IngestionInvariant'
<1> SUFFICES ASSUME IngestionInvariant, StageCode PROVE IngestionInvariant'
  OBVIOUS
<1>1. /\ ingestion.step = "stage" /\ source \in CodeLane /\ SameContent(sourceFile[source])
      /\ UNCHANGED <<sectorRows, badStages, ingested, ingestFaults, disturbed,
                     sourceFile, sourceStat, sourceEdits, reactivated>>
  BY DEF StageCode, ParsedCode, Unmoved, SourcesStay
<1>2. source \in Ingested
  BY <1>1 DEF Ingested
<1> QED
  BY <1>1, <1>2, SameContentKeeps

LEMMA ReadSourceKeeps == IngestionInvariant /\ ReadSource => IngestionInvariant'
<1> SUFFICES ASSUME IngestionInvariant, ReadSource PROVE IngestionInvariant'
  OBVIOUS
<1> DEFINE g == [ingestion EXCEPT !.step = "mutate", !.chunks = sourceFile[source]]
<1>1. /\ ingestion.step = "read" /\ ingestion' = g
      /\ source \in Unverified \/ sourceFile[source] = ingestion.hash
      /\ UNCHANGED <<cached, sectorRows, badStages, ingested, ingestFaults, accepted, disturbed,
                     sourceFile, sourceStat, sourceEdits, reactivated>>
  BY DEF ReadSource, DocumentText, Unmoved, SourcesStay
<1>2. /\ IngestionTypeOK /\ source \in Ingested /\ source \notin CodeLane /\ Probed /\ Hashed
      /\ ReadingFits
  BY <1>1 DEF IngestionInvariant, ReadingFits, Probed, Hashed
<1>3. sourceFile[source] \in Contents
  BY <1>2 DEF IngestionTypeOK
<1>4. /\ g \in [step : IngestionSteps, source : Ingested \cup {NoSource},
                stat : SourceStats, hash : Contents, chunks : Contents, staged : Contents]
      /\ g.step = "mutate" /\ g.source = source /\ g.stat = ingestion.stat
      /\ g.hash = ingestion.hash /\ g.chunks = sourceFile[source]
      /\ g.staged = ingestion.staged
  BY <1>2, <1>3 DEF IngestionTypeOK, IngestionSteps, source
<1> HIDE DEF g
<1>5. source' = source
  BY <1>1, <1>4 DEF source
<1>6. source \in SemanticLane \ disturbed => ingestion.staged = sourceFile[source]
  BY <1>1, <1>2 DEF ReadingFits
<1>7. ReadingFits'
  BY <1>1, <1>2, <1>4, <1>5, <1>6 DEF ReadingFits, Probed, Hashed
<1>8. StatsGrow' /\ CacheIsTrue'
  BY <1>1 DEF IngestionInvariant, StatsGrow, CacheIsTrue, KnownHash
<1>9. \A s \in Ingested : ~ProjectionIsDue(s)
  BY <1>1 DEF ProjectionIsDue
<1>10. /\ cached' \in [Ingested -> [stat : SourceStats, hash : Contents] \cup {NoRow}]
       /\ ingested' \in 0..MaxIngestions
  BY <1>1, <1>2 DEF IngestionTypeOK
<1> QED
  BY <1>1, <1>4, <1>7, <1>8, <1>9, <1>10, ReadingMoves

LEMMA ReadStructureKeeps == IngestionInvariant /\ ReadStructure => IngestionInvariant'
<1> SUFFICES ASSUME IngestionInvariant, ReadStructure PROVE IngestionInvariant'
  OBVIOUS
<1> DEFINE g == [ingestion EXCEPT !.step = "check", !.staged = sourceFile[source]]
<1>1. /\ ingestion.step = "project" /\ ingestion' = g
      /\ UNCHANGED <<cached, sectorRows, badStages, ingested, ingestFaults, accepted, disturbed,
                     sourceFile, sourceStat, sourceEdits, reactivated>>
  BY DEF ReadStructure, SourceStructure, Unmoved, SourcesStay
<1>2. /\ IngestionTypeOK /\ source \in StructuralLane /\ source \in Ingested /\ Probed /\ Hashed
      /\ ReadingFits /\ source \notin SemanticLane
  BY <1>1, IngestionAssumption DEF IngestionInvariant, ReadingFits, Probed, Hashed
<1>3. sourceFile[source] \in Contents
  BY <1>2 DEF IngestionTypeOK
<1>4. /\ g \in [step : IngestionSteps, source : Ingested \cup {NoSource},
                stat : SourceStats, hash : Contents, chunks : Contents, staged : Contents]
      /\ g.step = "check" /\ g.source = source /\ g.stat = ingestion.stat
      /\ g.hash = ingestion.hash /\ g.chunks = ingestion.chunks
      /\ g.staged = sourceFile[source]
  BY <1>2, <1>3 DEF IngestionTypeOK, IngestionSteps, source
<1> HIDE DEF g
<1>5. source' = source
  BY <1>1, <1>4 DEF source
<1>7. ReadingFits'
  BY <1>1, <1>2, <1>4, <1>5 DEF ReadingFits, Probed, Hashed
<1>8. StatsGrow' /\ CacheIsTrue'
  BY <1>1 DEF IngestionInvariant, StatsGrow, CacheIsTrue, KnownHash
<1>9. \A s \in Ingested : ProjectionIsDue(s) => ProjectionIsDue(s)'
  BY <1>1, <1>4, <1>5 DEF ProjectionIsDue
<1>10. /\ cached' \in [Ingested -> [stat : SourceStats, hash : Contents] \cup {NoRow}]
       /\ ingested' \in 0..MaxIngestions
  BY <1>1, <1>2 DEF IngestionTypeOK
<1> QED
  BY <1>1, <1>4, <1>7, <1>8, <1>9, <1>10, ReadingMoves

-----------------------------------------------------------------------------
\* The rows of a source are written.
LEMMA WritingMoves ==
    ASSUME IngestionInvariant, source \in Ingested, ingestion.step = "mutate",
           NEW r \in SectorRow, r.hash = ingestion.hash, r.state = "AVAILABLE",
           r.chunks = ingestion.chunks, r.search = {ingestion.chunks},
           source \notin StructuralLane /\ source \notin disturbed =>
               ingestion.hash \in r.projection,
           source \in StructuralLane /\ sectorRows[source] # NoRow =>
               sectorRows[source].projection \subseteq r.projection,
           sectorRows' = [sectorRows EXCEPT ![source] = r],
           reactivated' = reactivated \ {source}, IngestStep("record"),
           UNCHANGED <<cached, badStages, ingested, ingestFaults, accepted, disturbed,
                       sourceFile, sourceStat, sourceEdits>>
    PROVE  IngestionInvariant'
<1> DEFINE g == [ingestion EXCEPT !.step = "record"]
<1>1. /\ IngestionTypeOK /\ Probed /\ Hashed /\ StatsGrow /\ CacheIsTrue /\ RowsAreWhole
      /\ AcceptedIsThere /\ ChunksHaveTheHash /\ SearchIsOfAvailable /\ ReadingFits
  BY DEF IngestionInvariant, Probed, Hashed
<1>2. /\ g \in [step : IngestionSteps, source : Ingested \cup {NoSource},
                stat : SourceStats, hash : Contents, chunks : Contents, staged : Contents]
      /\ g.step = "record" /\ g.source = source /\ g.stat = ingestion.stat
      /\ g.hash = ingestion.hash /\ g.chunks = ingestion.chunks
      /\ g.staged = ingestion.staged
  BY <1>1 DEF IngestionTypeOK, IngestionSteps, source
<1>3. ingestion' = g
  BY DEF IngestStep
<1> HIDE DEF g
<1>4. source' = source
  BY <1>2, <1>3 DEF source
<1>5. /\ sectorRows'[source] = r
      /\ \A s \in Ingested \ {source} : sectorRows'[s] = sectorRows[s]
      /\ sectorRows' \in [Ingested -> SectorRow \cup {NoRow}]
  BY <1>1 DEF IngestionTypeOK
<1>6. r # NoRow
  BY NoRowIsNothing
<1>7. IngestionTypeOK'
  BY <1>1, <1>2, <1>3, <1>5 DEF IngestionTypeOK
<1>8. StatsGrow' /\ CacheIsTrue'
  BY <1>1 DEF StatsGrow, CacheIsTrue, KnownHash
<1>9. ingestion.chunks = ingestion.hash \/ source \in disturbed
  BY <1>1 DEF ReadingFits
<1>10. RowsAreWhole'
  BY <1>2, <1>3, <1>4, <1>5, <1>9, <1>1 DEF ProjectionIsDue, RowsAreWhole
<1>11. AcceptedIsThere'
  <2>1. accepted[source] = sourceStat[source] => ingestion.hash = sourceFile[source]
    BY <1>1, IngestionAssumption, NoRowIsNothing DEF IngestionTypeOK, SourceStats,
       ReadingFits
  <2> SUFFICES ASSUME NEW s \in Ingested, accepted[s] = sourceStat[s]
               PROVE  /\ sectorRows'[s] # NoRow /\ sectorRows'[s].hash = sourceFile[s]
                      /\ s \notin disturbed => sourceFile[s] \in sectorRows'[s].projection
    BY DEF AcceptedIsThere
  <2>2. CASE s = source
    BY <1>1, <1>5, <1>6, <2>1, <2>2 DEF AcceptedIsThere
  <2>3. CASE s # source
    BY <1>1, <1>5, <2>3 DEF AcceptedIsThere
  <2> QED
    BY <2>2, <2>3
<1>12. ChunksHaveTheHash'
  BY <1>1, <1>5 DEF ReadingFits, ChunksHaveTheHash
<1>13. SearchIsOfAvailable'
  BY <1>1, <1>5 DEF SearchIsOfAvailable
<1>14. ReadingFits'
  BY <1>1, <1>2, <1>3, <1>4, <1>5, <1>6 DEF ReadingFits, Probed, Hashed
<1> QED
  BY <1>7, <1>8, <1>10, <1>11, <1>12, <1>13, <1>14 DEF IngestionInvariant

LEMMA MutateDocumentKeeps == IngestionInvariant /\ MutateDocument => IngestionInvariant'
<1> SUFFICES ASSUME IngestionInvariant, MutateDocument PROVE IngestionInvariant'
  OBVIOUS
<1> DEFINE projection == IF source \in SemanticLane THEN SemanticProjection
                         ELSE StructuralProjection
           r == WrittenDocument(projection)
<1>1. /\ ingestion.step = "mutate" /\ source \notin CodeLane
      /\ sectorRows' = [sectorRows EXCEPT ![source] = r]
      /\ reactivated' = reactivated \ {source} /\ IngestStep("record")
      /\ UNCHANGED <<cached, badStages, ingested, ingestFaults, accepted, disturbed,
                     sourceFile, sourceStat, sourceEdits>>
  BY DEF MutateDocument, SourcesStay
<1>2. IngestionTypeOK /\ ReadingFits /\ source \in Ingested /\ Hashed
  BY <1>1 DEF IngestionInvariant, ReadingFits, Hashed
<1>3. projection \subseteq Contents
  BY <1>2 DEF IngestionTypeOK, SectorRow, SemanticProjection, StructuralProjection
<1>4. source \notin StructuralLane /\ source \notin disturbed => ingestion.hash \in projection
  BY <1>1, <1>2 DEF Ingested, ReadingFits, SemanticProjection
<1>a. source \in StructuralLane /\ sectorRows[source] # NoRow =>
          sectorRows[source].projection \subseteq projection
  BY IngestionAssumption DEF StructuralProjection
<1> HIDE DEF projection
<1>5. /\ r \in SectorRow /\ r.hash = ingestion.hash /\ r.state = "AVAILABLE"
      /\ r.chunks = ingestion.chunks /\ r.search = {ingestion.chunks}
      /\ r.projection = projection
  BY <1>2, <1>3 DEF WrittenDocument, SectorRow, IngestionTypeOK
<1> HIDE DEF r
<1> QED
  BY <1>1, <1>2, <1>4, <1>5, <1>a, WritingMoves

LEMMA MutateCodeKeeps == IngestionInvariant /\ MutateCode => IngestionInvariant'
<1> SUFFICES ASSUME IngestionInvariant, MutateCode PROVE IngestionInvariant'
  OBVIOUS
<1> DEFINE r == WrittenCode
<1>1. /\ ingestion.step = "mutate" /\ sectorRows' = [sectorRows EXCEPT ![source] = r]
      /\ reactivated' = reactivated \ {source} /\ IngestStep("record")
      /\ UNCHANGED <<cached, badStages, ingested, ingestFaults, accepted, disturbed,
                     sourceFile, sourceStat, sourceEdits>>
  BY DEF MutateCode, SourcesStay
<1>2. IngestionTypeOK /\ source \in Ingested
  BY <1>1 DEF IngestionInvariant, ReadingFits
<1>3. /\ r \in SectorRow /\ r.hash = ingestion.hash /\ r.state = "AVAILABLE"
      /\ r.chunks = ingestion.chunks /\ r.search = {ingestion.chunks}
      /\ ingestion.hash \in r.projection
  BY <1>2 DEF WrittenCode, CodeProjection, SectorRow, IngestionTypeOK
<1> HIDE DEF r
<1>4. source \notin StructuralLane
  BY IngestionAssumption DEF MutateCode
<1> QED
  BY <1>1, <1>2, <1>3, <1>4, WritingMoves

-----------------------------------------------------------------------------
\* The hash of what was read is recorded, and the source accepted if nothing is left to do.
LEMMA RecordContentKeeps == IngestionInvariant /\ RecordContent => IngestionInvariant'
<1> SUFFICES ASSUME IngestionInvariant, RecordContent PROVE IngestionInvariant'
  OBVIOUS
<1>1. /\ ingestion.step = "record" /\ RecordHash
      /\ UNCHANGED <<sectorRows, badStages, ingested, ingestFaults, disturbed,
                     sourceFile, sourceStat, sourceEdits, reactivated>>
  BY DEF RecordContent, Unmoved, SourcesStay
<1>2. /\ IngestionTypeOK /\ Probed /\ Hashed /\ ReadingFits /\ source \in Ingested
      /\ RowsAreWhole /\ AcceptedIsThere /\ StatsGrow
  BY <1>1 DEF IngestionInvariant, ReadingFits, Probed, Hashed
<1>3. /\ ingestion.stat \in SourceStats /\ ingestion.hash \in Contents
      /\ ingestion.stat <= sourceStat[source] /\ SourceStats \subseteq Nat
      /\ ingestion.stat = sourceStat[source] => ingestion.hash = sourceFile[source]
      /\ sectorRows[source] # NoRow /\ sectorRows[source].hash = ingestion.hash
  BY <1>1, <1>2, IngestionAssumption DEF IngestionTypeOK, ReadingFits, SourceStats
<1>4. cached' = [cached EXCEPT ![source] = [stat |-> ingestion.stat, hash |-> ingestion.hash]]
  BY <1>1 DEF RecordHash, HashRecorded
<1>5. /\ disturbed' \subseteq Ingested /\ badStages' \subseteq CodeLane
      /\ ingestFaults' \in 0..MaxIngestFaults /\ disturbed \subseteq disturbed'
      /\ ingested' \in 0..MaxIngestions
  BY <1>1, <1>2 DEF IngestionTypeOK
<1>6. CASE source \in StructuralLane /\ IngestStep("project") /\ UNCHANGED accepted
  <2> DEFINE g == [ingestion EXCEPT !.step = "project"]
  <2>1. /\ g \in [step : IngestionSteps, source : Ingested \cup {NoSource},
                  stat : SourceStats, hash : Contents, chunks : Contents, staged : Contents]
        /\ g.step = "project" /\ g.source = source /\ g.stat = ingestion.stat
        /\ g.hash = ingestion.hash /\ g.chunks = ingestion.chunks
        /\ g.staged = ingestion.staged
    BY <1>2 DEF IngestionTypeOK, IngestionSteps, source
  <2>2. ingestion' = g
    BY <1>6 DEF IngestStep
  <2> HIDE DEF g
  <2>3. source' = source
    BY <2>1, <2>2 DEF source
  <2>4. source \notin CodeLane /\ source \notin SemanticLane
    BY <1>6, IngestionAssumption
  <2>5. ReadingFits'
    BY <1>1, <1>2, <1>3, <1>6, <2>1, <2>2, <2>3, <2>4 DEF ReadingFits, Probed, Hashed
  <2>6. \A x \in Ingested : accepted'[x] # NoRow => accepted'[x] <= sourceStat[x]
    BY <1>2, <1>6 DEF StatsGrow
  <2>7. /\ cached' \in [Ingested -> [stat : SourceStats, hash : Contents] \cup {NoRow}]
        /\ StatsGrow' /\ CacheIsTrue'
    BY <1>1, <1>2, <1>3, <1>4, <2>6, RecordedHashFits
  <2>8. \A s \in Ingested : ProjectionIsDue(s) => ProjectionIsDue(s)'
    BY <1>1, <2>1, <2>2, <2>3 DEF ProjectionIsDue
  <2> QED
    BY <1>1, <1>5, <1>6, <2>1, <2>2, <2>5, <2>7, <2>8, ReadingMoves
<1>7. CASE source \notin StructuralLane /\ AcceptSource /\ ingestion' = NoIngestion
  <2>1. accepted' = [accepted EXCEPT ![source] = ingestion.stat]
    BY <1>7 DEF AcceptSource
  <2>2. /\ accepted' \in [Ingested -> SourceStats \cup {NoRow}]
        /\ accepted'[source] = ingestion.stat
        /\ \A s \in Ingested \ {source} : accepted'[s] = accepted[s]
    BY <1>2, <1>3, <2>1 DEF IngestionTypeOK
  <2>3. \A x \in Ingested : accepted'[x] # NoRow => accepted'[x] <= sourceStat[x]
    BY <1>2, <1>3, <2>2 DEF StatsGrow
  <2>4. /\ cached' \in [Ingested -> [stat : SourceStats, hash : Contents] \cup {NoRow}]
        /\ StatsGrow' /\ CacheIsTrue'
    BY <1>1, <1>2, <1>3, <1>4, <2>3, RecordedHashFits
  <2>5. AcceptedIsThere'
    BY <1>1, <1>7, <1>2, <1>3, <2>2 DEF AcceptedIsThere, ProjectionIsDue, RowsAreWhole
  <2>6. \A s \in Ingested : ~ProjectionIsDue(s)
    BY <1>7 DEF ProjectionIsDue
  <2> QED
    BY <1>1, <1>5, <1>7, <2>2, <2>4, <2>5, <2>6, EndIngestionKeeps
<1> QED
  BY <1>1, <1>6, <1>7 DEF RecordContent

LEMMA ProjectStructureKeeps == IngestionInvariant /\ ProjectStructure => IngestionInvariant'
<1> SUFFICES ASSUME IngestionInvariant, ProjectStructure PROVE IngestionInvariant'
  OBVIOUS
<1> DEFINE r == [sectorRows[source] EXCEPT !.projection = @ \cup {ingestion.staged}]
<1>1. /\ ingestion.step = "check" /\ sourceFile[source] = ingestion.staged
      /\ sectorRows' = [sectorRows EXCEPT ![source].projection = @ \cup {ingestion.staged}]
      /\ AcceptSource /\ ingestion' = NoIngestion
      /\ UNCHANGED <<cached, badStages, ingested, ingestFaults, disturbed,
                     sourceFile, sourceStat, sourceEdits, reactivated>>
  BY DEF ProjectStructure, Unmoved, SourcesStay
<1>2. /\ IngestionTypeOK /\ Probed /\ Hashed /\ ReadingFits /\ source \in Ingested
      /\ RowsAreWhole /\ AcceptedIsThere /\ StatsGrow /\ CacheIsTrue /\ ChunksHaveTheHash
      /\ SearchIsOfAvailable
  BY <1>1 DEF IngestionInvariant, ReadingFits, Probed, Hashed
<1>3. /\ ingestion.stat \in SourceStats /\ ingestion.staged \in Contents
      /\ ingestion.stat <= sourceStat[source] /\ SourceStats \subseteq Nat
      /\ ingestion.stat = sourceStat[source] => ingestion.hash = sourceFile[source]
      /\ sectorRows[source] # NoRow /\ sectorRows[source].hash = ingestion.hash
      /\ source \notin disturbed => ingestion.hash = sourceFile[source]
  BY <1>1, <1>2, IngestionAssumption DEF IngestionTypeOK, ReadingFits, SourceStats
<1>4. sectorRows[source] \in SectorRow
  BY <1>2, <1>3 DEF IngestionTypeOK
<1>5. /\ r \in SectorRow /\ r.hash = sectorRows[source].hash
      /\ r.state = sectorRows[source].state /\ r.chunks = sectorRows[source].chunks
      /\ r.search = sectorRows[source].search
      /\ r.projection = sectorRows[source].projection \cup {ingestion.staged}
  BY <1>3, <1>4 DEF SectorRow
<1>6. sectorRows' = [sectorRows EXCEPT ![source] = r]
  BY <1>1, <1>2 DEF IngestionTypeOK
<1> HIDE DEF r
<1>7. /\ sectorRows'[source] = r /\ r # NoRow
      /\ \A s \in Ingested \ {source} : sectorRows'[s] = sectorRows[s]
      /\ sectorRows' \in [Ingested -> SectorRow \cup {NoRow}]
  BY <1>2, <1>5, <1>6, NoRowIsNothing DEF IngestionTypeOK
<1>8. accepted' = [accepted EXCEPT ![source] = ingestion.stat]
  BY <1>1 DEF AcceptSource
<1>9. /\ accepted' \in [Ingested -> SourceStats \cup {NoRow}]
      /\ accepted'[source] = ingestion.stat
      /\ \A s \in Ingested \ {source} : accepted'[s] = accepted[s]
  BY <1>2, <1>3, <1>8 DEF IngestionTypeOK
<1>10. StatsGrow' /\ CacheIsTrue'
  BY <1>1, <1>2, <1>3, <1>9 DEF StatsGrow, CacheIsTrue, KnownHash
<1>11. IngestionTypeOK'
  BY <1>1, <1>2, <1>7, <1>9, NoIngestionTyped DEF IngestionTypeOK
<1>12. RowsAreWhole'
  BY <1>1, <1>2, <1>3, <1>5, <1>7 DEF RowsAreWhole, ProjectionIsDue
<1>13. AcceptedIsThere'
  <2> SUFFICES ASSUME NEW s \in Ingested, accepted'[s] = sourceStat[s]
               PROVE  /\ sectorRows'[s] # NoRow /\ sectorRows'[s].hash = sourceFile[s]
                      /\ s \notin disturbed => sourceFile[s] \in sectorRows'[s].projection
    BY <1>1 DEF AcceptedIsThere
  <2>1. CASE s = source
    BY <1>1, <1>3, <1>5, <1>7, <1>9, <2>1
  <2>2. CASE s # source
    BY <1>2, <1>7, <1>9, <2>2 DEF AcceptedIsThere
  <2> QED
    BY <2>1, <2>2
<1>14. ChunksHaveTheHash' /\ SearchIsOfAvailable'
  <2>1. source \notin Unverified => r.chunks = r.hash
    BY <1>2, <1>3, <1>5 DEF ChunksHaveTheHash
  <2>2. r.search = (IF r.state = "AVAILABLE" /\ source \notin reactivated
                    THEN {r.chunks} ELSE {})
    BY <1>2, <1>3, <1>5 DEF SearchIsOfAvailable
  <2>3. ChunksHaveTheHash'
    BY <1>2, <1>7, <2>1 DEF ChunksHaveTheHash
  <2>4. SearchIsOfAvailable'
    BY <1>1, <1>2, <1>7, <2>2 DEF SearchIsOfAvailable
  <2> QED
    BY <2>3, <2>4
<1>15. ReadingFits'
  BY <1>1, NoIngestionTyped, IngestionAssumption DEF ReadingFits, Probed, Hashed, source,
     Ingested
<1> QED
  BY <1>10, <1>11, <1>12, <1>13, <1>14, <1>15 DEF IngestionInvariant

-----------------------------------------------------------------------------
\* An ingestion that ends in an error leaves a row without its projection at most, and
\* then says so.
LEMMA EndWithErrorKeeps ==
    ASSUME IngestionInvariant, ingestion # NoIngestion, EndWithError,
           badStages' \subseteq CodeLane, ingestFaults' \in 0..MaxIngestFaults
    PROVE  IngestionInvariant'
<1>1. /\ ingestion' = NoIngestion
      /\ disturbed' = IF LeavesHalfDone THEN disturbed \cup {source} ELSE disturbed
      /\ UNCHANGED <<cached, sectorRows, ingested, accepted,
                     sourceFile, sourceStat, sourceEdits, reactivated>>
  BY DEF EndWithError, Unmoved, SourcesStay
<1>2. IngestionTypeOK /\ ReadingFits /\ source \in Ingested
  BY DEF IngestionInvariant, ReadingFits, IngestionTypeOK
<1>3. /\ disturbed' \subseteq Ingested /\ disturbed \subseteq disturbed'
      /\ ingested' \in 0..MaxIngestions
      /\ cached' \in [Ingested -> [stat : SourceStats, hash : Contents] \cup {NoRow}]
      /\ accepted' \in [Ingested -> SourceStats \cup {NoRow}]
  BY <1>1, <1>2 DEF IngestionTypeOK
<1>4. StatsGrow' /\ CacheIsTrue' /\ AcceptedIsThere'
  BY <1>1 DEF IngestionInvariant, StatsGrow, CacheIsTrue, KnownHash, AcceptedIsThere
<1>5. \A s \in Ingested \ disturbed' : ~ProjectionIsDue(s)
  BY <1>1 DEF ProjectionIsDue, LeavesHalfDone
<1> QED
  BY <1>1, <1>3, <1>4, <1>5, EndIngestionKeeps

LEMMA RefuseSourceKeeps == IngestionInvariant /\ RefuseSource => IngestionInvariant'
<1> SUFFICES ASSUME IngestionInvariant, RefuseSource PROVE IngestionInvariant'
  OBVIOUS
<1>1. EndWithError /\ UNCHANGED <<badStages, ingestFaults>> /\ ingestion.step # "idle"
  BY DEF RefuseSource
<1>2. ingestion # NoIngestion
  BY <1>1, NoIngestionTyped
<1>3. badStages' \subseteq CodeLane /\ ingestFaults' \in 0..MaxIngestFaults
  BY <1>1 DEF IngestionInvariant, IngestionTypeOK
<1> QED
  BY <1>1, <1>2, <1>3, EndWithErrorKeeps

LEMMA FailIngestionKeeps == IngestionInvariant /\ FailIngestion => IngestionInvariant'
<1> SUFFICES ASSUME IngestionInvariant, FailIngestion PROVE IngestionInvariant'
  OBVIOUS
<1>1. /\ EndWithError /\ ingestion # NoIngestion /\ ingestFaults < MaxIngestFaults
      /\ ingestFaults' = ingestFaults + 1
      /\ \/ badStages' = badStages
         \/ badStages' = badStages \cup {source} /\ source \in CodeLane
  BY DEF FailIngestion
<1>2. badStages' \subseteq CodeLane /\ ingestFaults' \in 0..MaxIngestFaults
  BY <1>1, IngestionAssumption DEF IngestionInvariant, IngestionTypeOK
<1> QED
  BY <1>1, <1>2, EndWithErrorKeeps

-----------------------------------------------------------------------------
\* A source that is edited has a stat no ingestion and no cache has seen.
LEMMA EditContentKeeps ==
    ASSUME IngestionInvariant, NEW s \in Ingested, EditContent(s)
    PROVE  IngestionInvariant'
<1>1. PICK c \in Contents : sourceFile' = [sourceFile EXCEPT ![s] = c]
  BY DEF EditContent
<1>2. /\ sourceEdits < MaxSourceEdits /\ sourceEdits' = sourceEdits + 1
      /\ sourceStat' = [sourceStat EXCEPT ![s] = sourceEdits + 1]
      /\ disturbed' = IF source = s THEN disturbed \cup {s} ELSE disturbed
      /\ UNCHANGED <<cached, sectorRows, badStages, ingestion, ingested, ingestFaults, accepted,
                     reactivated>>
  BY DEF EditContent
<1>3. /\ IngestionTypeOK /\ ReadingFits /\ RowsAreWhole /\ AcceptedIsThere /\ StatsGrow
      /\ CacheIsTrue /\ ChunksHaveTheHash /\ SearchIsOfAvailable
  BY DEF IngestionInvariant
<1>4. sourceEdits \in Nat /\ sourceEdits' \in SourceStats /\ SourceStats \subseteq Nat
  BY <1>2, <1>3, IngestionAssumption DEF IngestionTypeOK, SourceStats
<1>5. /\ sourceFile'[s] = c /\ sourceStat'[s] = sourceEdits + 1
      /\ \A x \in Ingested \ {s} : sourceFile'[x] = sourceFile[x] /\ sourceStat'[x] = sourceStat[x]
      /\ \A x \in Ingested : sourceStat[x] \in Nat
      /\ \A x \in Ingested : accepted[x] # NoRow => accepted[x] \in Nat
      /\ \A x \in Ingested : cached[x] # NoRow => cached[x].stat \in Nat
  BY <1>1, <1>2, <1>3, <1>4 DEF IngestionTypeOK
<1>6. IngestionTypeOK'
  BY <1>1, <1>2, <1>3, <1>4 DEF IngestionTypeOK
<1>7. StatsGrow'
  BY <1>2, <1>3, <1>4, <1>5 DEF StatsGrow
<1>8. CacheIsTrue'
  BY <1>2, <1>3, <1>4, <1>5 DEF CacheIsTrue, KnownHash, StatsGrow
<1>9. source' = source
  BY <1>2 DEF source
<1>10. \A x \in Ingested : ProjectionIsDue(x) => ProjectionIsDue(x)'
  BY <1>2, <1>9 DEF ProjectionIsDue
<1>11. RowsAreWhole'
  BY <1>2, <1>3, <1>10 DEF RowsAreWhole
<1>12. AcceptedIsThere'
  BY <1>2, <1>4, <1>5, NoRowIsNothing, <1>3 DEF AcceptedIsThere, StatsGrow
<1>13. ChunksHaveTheHash' /\ SearchIsOfAvailable'
  BY <1>2, <1>3 DEF ChunksHaveTheHash, SearchIsOfAvailable
<1>14. ReadingFits'
  <2>1. CASE source # s
    <3>1. disturbed' = disturbed
      BY <1>2, <2>1
    <3>2. ingestion.step # "idle" =>
             sourceFile'[source] = sourceFile[source] /\ sourceStat'[source] = sourceStat[source]
      BY <1>3, <1>5, <2>1 DEF ReadingFits
    <3>3. source \in Ingested =>
             sourceFile'[source] = sourceFile[source] /\ sourceStat'[source] = sourceStat[source]
      BY <1>5, <2>1
    <3>4. source \in SemanticLane => source \in Ingested
      BY DEF Ingested
    <3> HIDE DEF source
    <3> QED
      BY <1>2, <1>3, <1>9, <3>1, <3>2, <3>3, <3>4 DEF ReadingFits, Probed, Hashed
  <2>2. CASE source = s
    <3>1. source \in disturbed'
      BY <1>2, <2>2
    <3>2. Probed => ingestion.stat \in Nat /\ ingestion.stat < sourceStat'[source]
      <4> SUFFICES ASSUME Probed PROVE ingestion.stat \in Nat /\ ingestion.stat < sourceStat'[source]
        OBVIOUS
      <4>1. ingestion.stat \in Nat
        BY <1>3, <1>4 DEF IngestionTypeOK
      <4>2. ingestion.stat <= sourceStat[source] /\ sourceStat[source] <= sourceEdits
        BY <1>3, <2>2 DEF ReadingFits, StatsGrow
      <4> QED
        BY <1>4, <1>5, <2>2, <4>1, <4>2
    <3>3. Hashed => Probed
      BY DEF Probed, Hashed
    <3>4. (Probed' <=> Probed) /\ (Hashed' <=> Hashed)
      BY <1>2, <1>9 DEF Probed, Hashed
    <3>5. sourceStat'[source] \in Nat
      BY <1>4, <1>5, <2>2
    <3>6. Probed' => /\ ingestion'.stat <= sourceStat'[source]
                     /\ accepted'[source] # NoRow => accepted'[source] <= ingestion'.stat
      BY <1>2, <1>3, <3>2, <3>4, <3>5 DEF ReadingFits
    <3>7. Hashed' =>
            /\ ingestion'.stat # sourceStat'[source]
            /\ source \notin Unverified => ingestion'.chunks = ingestion'.hash
      BY <1>2, <1>3, <3>2, <3>3, <3>4, <3>5 DEF ReadingFits
    <3>8. /\ ingestion'.step = "idle" => ingestion' = NoIngestion
          /\ ingestion'.step # "idle" => source \in Ingested
          /\ ingestion'.step \in {"project", "check"} => source \in StructuralLane
          /\ ingestion'.step \in {"inspect", "read"} => source \notin CodeLane
          /\ ingestion'.step \in {"record", "project", "check"} =>
                 sectorRows'[source] # NoRow /\ sectorRows'[source].hash = ingestion'.hash
      BY <1>2, <1>3 DEF ReadingFits
    <3> QED
      BY <1>9, <3>1, <3>6, <3>7, <3>8 DEF ReadingFits
  <2> QED
    BY <2>1, <2>2
<1> QED
  BY <1>6, <1>7, <1>8, <1>11, <1>12, <1>13, <1>14 DEF IngestionInvariant

-----------------------------------------------------------------------------
\* The state of a row changes while nothing is ingested.
LEMMA StateMoves ==
    ASSUME IngestionInvariant, NEW s \in Ingested, sectorRows[s] # NoRow,
           NEW r \in SectorRow, r.hash = sectorRows[s].hash, r.chunks = sectorRows[s].chunks,
           r.projection = sectorRows[s].projection,
           r.search = (IF r.state = "AVAILABLE" /\ s \notin reactivated'
                       THEN {r.chunks} ELSE {}),
           sectorRows' = [sectorRows EXCEPT ![s] = r],
           reactivated \subseteq reactivated', reactivated' \subseteq reactivated \cup {s},
           ingestion = NoIngestion,
           UNCHANGED <<sourceFile, sourceStat, sourceEdits, cached, badStages, ingestion,
                       ingested, ingestFaults, accepted, disturbed>>
    PROVE  IngestionInvariant'
<1>1. /\ IngestionTypeOK /\ ReadingFits /\ RowsAreWhole /\ AcceptedIsThere /\ StatsGrow
      /\ CacheIsTrue /\ ChunksHaveTheHash /\ SearchIsOfAvailable
  BY DEF IngestionInvariant
<1>2. /\ sectorRows'[s] = r /\ r # NoRow
      /\ \A x \in Ingested \ {s} : sectorRows'[x] = sectorRows[x]
      /\ sectorRows' \in [Ingested -> SectorRow \cup {NoRow}]
  BY <1>1, NoRowIsNothing DEF IngestionTypeOK
<1>3. IngestionTypeOK'
  BY <1>1, <1>2 DEF IngestionTypeOK
<1>4. StatsGrow' /\ CacheIsTrue'
  BY <1>1 DEF StatsGrow, CacheIsTrue, KnownHash
<1>5. \A x \in Ingested : ~ProjectionIsDue(x)
  BY NoIngestionTyped DEF ProjectionIsDue
<1>6. RowsAreWhole'
  BY <1>1, <1>2, <1>5 DEF RowsAreWhole
<1>7. AcceptedIsThere' /\ ChunksHaveTheHash'
  BY <1>1, <1>2 DEF AcceptedIsThere, ChunksHaveTheHash
<1>8. SearchIsOfAvailable'
  BY <1>2, <1>1 DEF SearchIsOfAvailable
<1>9. ReadingFits'
  BY NoIngestionTyped, IngestionAssumption DEF ReadingFits, Probed, Hashed, source, Ingested
<1> QED
  BY <1>3, <1>4, <1>6, <1>7, <1>8, <1>9 DEF IngestionInvariant

LEMMA SetSourceInactiveKeeps ==
    ASSUME IngestionInvariant, NEW s \in Ingested, SetSourceInactive(s)
    PROVE  IngestionInvariant'
<1> DEFINE r == Searchless(s)
<1>1. /\ ingestion = NoIngestion /\ sectorRows[s] # NoRow
      /\ sectorRows' = [sectorRows EXCEPT ![s] = r]
      /\ UNCHANGED <<sourceFile, sourceStat, sourceEdits, cached, badStages, ingestion,
                     ingested, ingestFaults, accepted, disturbed, reactivated>>
  BY DEF SetSourceInactive
<1>2. sectorRows[s] \in SectorRow
  BY <1>1 DEF IngestionInvariant, IngestionTypeOK
<1>3. /\ r \in SectorRow /\ r.hash = sectorRows[s].hash /\ r.chunks = sectorRows[s].chunks
      /\ r.projection = sectorRows[s].projection /\ r.state = "INACTIVE" /\ r.search = {}
  BY <1>2 DEF Searchless, SectorRow
<1> HIDE DEF r
<1>4. r.search = (IF r.state = "AVAILABLE" /\ s \notin reactivated'
                  THEN {r.chunks} ELSE {})
  BY <1>3
<1> QED
  BY <1>1, <1>3, <1>4, StateMoves

LEMMA SetSourceActiveKeeps ==
    ASSUME IngestionInvariant, NEW s \in Ingested, SetSourceActive(s)
    PROVE  IngestionInvariant'
<1> DEFINE r == [sectorRows[s] EXCEPT !.state = "AVAILABLE"]
<1>1. /\ ingestion = NoIngestion /\ sectorRows[s] # NoRow /\ sectorRows[s].state = "INACTIVE"
      /\ sectorRows' = [sectorRows EXCEPT ![s].state = "AVAILABLE"]
      /\ reactivated' = reactivated \cup {s}
      /\ UNCHANGED <<sourceFile, sourceStat, sourceEdits, cached, badStages, ingestion,
                     ingested, ingestFaults, accepted, disturbed>>
  BY DEF SetSourceActive
<1>2. sectorRows[s] \in SectorRow /\ sectorRows' = [sectorRows EXCEPT ![s] = r]
      /\ sectorRows[s].search = {}
  BY <1>1 DEF IngestionInvariant, IngestionTypeOK, SearchIsOfAvailable
<1>3. /\ r \in SectorRow /\ r.hash = sectorRows[s].hash /\ r.chunks = sectorRows[s].chunks
      /\ r.projection = sectorRows[s].projection /\ r.state = "AVAILABLE" /\ r.search = {}
  BY <1>2 DEF SectorRow
<1> HIDE DEF r
<1>4. r.search = (IF r.state = "AVAILABLE" /\ s \notin reactivated'
                  THEN {r.chunks} ELSE {})
  BY <1>1, <1>3
<1> QED
  BY <1>1, <1>2, <1>3, <1>4, StateMoves

-----------------------------------------------------------------------------
LEMMA IngestionStepKeeps ==
  IngestionInvariant /\ [IngestionNext]_ingestionVars => IngestionInvariant'
<1> SUFFICES ASSUME IngestionInvariant, [IngestionNext]_ingestionVars PROVE IngestionInvariant'
  OBVIOUS
<1>1. CASE \E s \in Ingested : \/ BeginIngestion(s) \/ EditContent(s)
                               \/ SetSourceInactive(s) \/ SetSourceActive(s)
  BY <1>1, BeginIngestionKeeps, EditContentKeeps, SetSourceInactiveKeeps, SetSourceActiveKeeps
<1>2. CASE StageProjection \/ ProbeSource \/ InspectSource \/ StageCode \/ ReadSource
  BY <1>2, StageProjectionKeeps, ProbeSourceKeeps, InspectSourceKeeps, StageCodeKeeps,
     ReadSourceKeeps
<1>3. CASE MutateDocument \/ MutateCode \/ RecordContent \/ ReadStructure \/ ProjectStructure
  BY <1>3, MutateDocumentKeeps, MutateCodeKeeps, RecordContentKeeps, ReadStructureKeeps,
     ProjectStructureKeeps
<1>4. CASE RefuseSource \/ FailIngestion
  BY <1>4, RefuseSourceKeeps, FailIngestionKeeps
<1>5. CASE UNCHANGED ingestionVars
  BY ZenonT(30), <1>5 DEF ingestionVars, IngestionInvariant, IngestionTypeOK, StatsGrow,
     CacheIsTrue,
     KnownHash, RowsAreWhole, ProjectionIsDue, AcceptedIsThere, ChunksHaveTheHash,
     SearchIsOfAvailable, ReadingFits, Probed, Hashed, source
<1> QED
  BY <1>1, <1>2, <1>3, <1>4, <1>5 DEF IngestionNext

\* IngestionInvariant holds in every state of an ingestion.
THEOREM IngestionInvariantCorrect == IngestionSpec => []IngestionInvariant
<1> QED
  BY IngestionStart, IngestionStepKeeps, PTL DEF IngestionSpec

\* What the sector and the cache say of a source is true of it (env15_ingestion.py).
THEOREM IngestionTrue == IngestionSpec => []IngestionIsTrue
<1>1. IngestionInvariant => IngestionIsTrue
  BY DEF AcceptedIsIndexed, IngestionInvariant, AcceptedIsThere, RowsAreWhole,
     IngestionIsTrue
<1> QED
  BY <1>1, IngestionInvariantCorrect, PTL

-----------------------------------------------------------------------------
(* The histories that only grow.                                           *)

HasMax(S) == S # {} => \E m \in S : \A j \in S : j <= m

\* The turns of a source before a place.
TurnsBefore(q, s, i) == {j \in TurnsIn(q, s) : j < i}

HistoryFits(q, s) ==
    /\ \A i \in 1..(Len(q) + 1) : HasMax(TurnsBefore(q, s, i))
    /\ OneOfEach(q, s)
    /\ s \in ChatLogs => Reassembles(q, s)

StatsFit ==
    \A s \in Logs :
        /\ logStat[s] <= logEdits
        /\ fingerprint[s] # Unseen => fingerprint[s].stat <= logStat[s]

FingerprintsFit ==
    \A s \in Logs \ misled :
        fingerprint[s] # Unseen =>
            /\ fingerprint[s].stat = logStat[s] => fingerprint[s].version = logs[s]
            /\ TurnKept(s, fingerprint[s].version)

TurnsFit ==
    /\ \A s \in Logs : HistoryFits(histories[LogHistory(s)], s)
    /\ AppendedIsKept /\ ReceiptsAreTrue

StatIsTrue(s) ==
    /\ append.stat <= logStat[s]
    /\ s \notin misled /\ append.stat = logStat[s] => append.version = logs[s]

\* What an append knows of its source and of the history.
AppendFits ==
    /\ append.step = "idle" => append = NoAppend
    /\ append.step # "idle" => log \in Logs
    /\ append.step = "probe" =>
           append.stat <= logStat[log] /\ (append.stat = logStat[log] => append.version = logs[log])
    /\ append.step \in {"look", "copy", "commit", "seal", "receipt", "record", "discard"} =>
           StatIsTrue(log)
    /\ append.step \in {"copy", "commit"} => ~TurnKept(log, append.version) /\ ~Diverged
    /\ append.step \in {"seal", "receipt", "record", "discard"} => TurnKept(log, append.version)

\* What the copy of a sector holds: all but what was told of the running append.
BackupFits ==
    HasCopy =>
        /\ \A s \in Logs : LogHistory(s) = itsHistory => HistoryFits(append.backup, s)
        /\ \A v \in appended : LogHistory(v[1]) = itsHistory => KeptIn(append.backup, v[1], v[2])
        /\ \A s \in Logs \ misled :
             LogHistory(s) = itsHistory /\ fingerprint[s] # Unseen /\ ~(Told /\ s = log) =>
                 KeptIn(append.backup, s, fingerprint[s].version)
        /\ \A r \in turnReceipts :
             LogHistory(r[1]) = itsHistory /\ r[1] \notin misled /\ ~(Told /\ r[1] = log) =>
                 KeptIn(append.backup, r[1], r[2])

AppendInvariant ==
    AppendTypeOK /\ StatsFit /\ FingerprintsFit /\ TurnsFit /\ AppendFits /\ BackupFits

-----------------------------------------------------------------------------
(* Texts.                                                                  *)

LEMMA TextIsSeq ==
    ASSUME NEW t \in Texts
    PROVE  t \in Seq(Lines) /\ Len(t) \in 1..2
<1>1. PICK n \in 1..2 : t \in [1..n -> Lines]
  BY DEF Texts
<1>2. t \in Seq(Lines) /\ Len(t) = n
  BY <1>1
<1> QED
  BY <1>1, <1>2

LEMMA SeqIsText ==
    ASSUME NEW t \in Seq(Lines), Len(t) \in 1..2
    PROVE  t \in Texts
<1>1. t \in [1..Len(t) -> Lines]
  BY LenProperties
<1> QED
  BY <1>1 DEF Texts

\* The part of a text after the beginning of it.
LEMMA TextAfter ==
    ASSUME NEW p \in Texts, NEW t \in Texts, IsPrefix(p, t)
    PROVE  p \o SubSeq(t, Len(p) + 1, Len(t)) = t
<1>1. p \in Seq(Lines) /\ t \in Seq(Lines) /\ Len(p) \in 1..2 /\ Len(t) \in 1..2
  BY TextIsSeq
<1>2. Len(p) <= Len(t) /\ SubSeq(p, 1, Len(p)) = SubSeq(t, 1, Len(p))
  BY DEF IsPrefix
<1>3. SubSeq(p, 1, Len(p)) = p /\ SubSeq(t, 1, Len(t)) = t
  BY <1>1, SubSeqFull
<1>4. 1 \in 1..(Len(t) + 1) /\ Len(p) \in (1 - 1)..Len(t) /\ Len(t) \in Len(p)..Len(t)
  BY <1>1, <1>2
<1>5. SubSeq(t, 1, Len(p)) \o SubSeq(t, Len(p) + 1, Len(t)) = SubSeq(t, 1, Len(t))
  BY <1>1, <1>4, ConcatAdjacentSubSeq
<1> QED
  BY <1>2, <1>3, <1>5

LEMMA PartIsText ==
    ASSUME NEW t \in Texts, NEW k \in 2..3
    PROVE  SubSeq(t, k, Len(t)) \in Texts \cup {<<>>}
<1>1. t \in Seq(Lines) /\ Len(t) \in 1..2
  BY TextIsSeq
<1>2. CASE k <= Len(t)
  <2>1. \A i \in k..Len(t) : t[i] \in Lines
    BY <1>1, ElementOfSeq
  <2>2. /\ SubSeq(t, k, Len(t)) \in Seq(Lines)
        /\ Len(SubSeq(t, k, Len(t))) = (IF k <= Len(t) THEN Len(t) - k + 1 ELSE 0)
    BY <1>1, <2>1, SubSeqProperties
  <2>3. Len(SubSeq(t, k, Len(t))) \in 1..2
    BY <1>1, <1>2, <2>2
  <2> QED
    BY <2>2, <2>3, SeqIsText
<1>3. CASE Len(t) < k
  BY <1>1, <1>3, SubSeqEmpty
<1> QED
  BY <1>1, <1>2, <1>3

-----------------------------------------------------------------------------
(* Histories that grow.                                                    *)

LEMMA TurnsGrow ==
    ASSUME NEW q \in Seq(LogTurns), NEW t \in LogTurns, NEW s
    PROVE  /\ Append(q, t) \in Seq(LogTurns) /\ Len(Append(q, t)) = Len(q) + 1 /\ Len(q) \in Nat
           /\ TurnsIn(q, s) \subseteq 1..Len(q)
           /\ TurnsIn(Append(q, t), s) =
                  TurnsIn(q, s) \cup (IF t.log = s THEN {Len(q) + 1} ELSE {})
           /\ \A i \in 1..Len(q) : Append(q, t)[i] = q[i]
           /\ Append(q, t)[Len(q) + 1] = t
<1> DEFINE p == Append(q, t)
           n == Len(q)
<1>1. /\ p \in Seq(LogTurns) /\ Len(p) = n + 1
      /\ \A i \in 1..n : p[i] = q[i] /\ p[n + 1] = t
  BY AppendProperties
<1>1a. p[n + 1] = t
  BY AppendProperties
<1>1b. \A i \in 1..n : p[i] = q[i]
  BY <1>1
<1>2. DOMAIN p = 1..(n + 1) /\ DOMAIN q = 1..n /\ n \in Nat
  BY <1>1, LenProperties
<1> HIDE DEF p, n
<1>3. TurnsIn(p, s) = TurnsIn(q, s) \cup (IF t.log = s THEN {n + 1} ELSE {})
  BY <1>2, <1>1a, <1>1b DEF TurnsIn
<1>4. TurnsIn(q, s) \subseteq 1..n
  BY <1>2 DEF TurnsIn
<1> QED
  BY <1>1, <1>1a, <1>1b, <1>2, <1>3, <1>4 DEF p, n

LEMMA KeptGrows ==
    ASSUME NEW q \in Seq(LogTurns), NEW t \in LogTurns, NEW s, NEW v
    PROVE  /\ KeptIn(q, s, v) => KeptIn(Append(q, t), s, v)
           /\ KeptIn(Append(q, t), t.log, t.version)
<1> DEFINE p == Append(q, t)
<1>1. /\ TurnsIn(q, s) \subseteq TurnsIn(p, s) /\ TurnsIn(q, s) \subseteq 1..Len(q)
      /\ \A i \in 1..Len(q) : p[i] = q[i]
  BY TurnsGrow
<1>2. Len(q) + 1 \in TurnsIn(p, t.log) /\ p[Len(q) + 1] = t
  BY TurnsGrow
<1> HIDE DEF p
<1>3. KeptIn(q, s, v) => KeptIn(p, s, v)
  BY <1>1 DEF KeptIn
<1>4. KeptIn(p, t.log, t.version)
  BY <1>2 DEF KeptIn
<1> QED
  BY <1>3, <1>4 DEF p

LEMMA MaxIsThere ==
    ASSUME NEW S \in SUBSET Nat, S # {}, HasMax(S)
    PROVE  Max(S) \in S /\ \A j \in S : j <= Max(S)
  BY DEF HasMax, Max

\* The text a source had before a place does not change when the history grows.
LEMMA TextBeforeStays ==
    ASSUME NEW q \in Seq(LogTurns), NEW t \in LogTurns, NEW s, NEW i \in 1..(Len(q) + 1),
           HasMax(TurnsBefore(q, s, i))
    PROVE  /\ TurnsBefore(Append(q, t), s, i) = TurnsBefore(q, s, i)
           /\ TextBefore(Append(q, t), s, i) = TextBefore(q, s, i)
<1> DEFINE p == Append(q, t)
           b == TurnsBefore(q, s, i)
<1>1. /\ Len(q) \in Nat /\ TurnsIn(q, s) \subseteq 1..Len(q)
      /\ TurnsIn(p, s) = TurnsIn(q, s) \cup (IF t.log = s THEN {Len(q) + 1} ELSE {})
      /\ \A j \in 1..Len(q) : p[j] = q[j]
  BY TurnsGrow
<1> HIDE DEF p
<1>2. TurnsBefore(p, s, i) = b
  BY <1>1 DEF TurnsBefore
<1>3. b \subseteq 1..Len(q) /\ b \in SUBSET Nat
  BY <1>1 DEF TurnsBefore
<1>4. b # {} => Max(b) \in b
  BY <1>3, MaxIsThere
<1>5. b # {} => p[Max(b)] = q[Max(b)]
  BY <1>1, <1>3, <1>4
<1>6. /\ TextBefore(p, s, i) = (IF TurnsBefore(p, s, i) = {} THEN <<>>
                               ELSE p[Max(TurnsBefore(p, s, i))].version.text)
      /\ TextBefore(q, s, i) = IF b = {} THEN <<>> ELSE q[Max(b)].version.text
  BY DEF TextBefore, TurnsBefore
<1>7. TextBefore(p, s, i) = TextBefore(q, s, i)
  BY <1>2, <1>5, <1>6
<1> QED
  BY <1>2, <1>7 DEF p

\* A new turn that goes on from the last one of its source leaves the history whole.
LEMMA HistoryGrows ==
    ASSUME NEW q \in Seq(LogTurns), NEW t \in LogTurns, NEW s \in Logs, HistoryFits(q, s),
           t.log = s => ~KeptIn(q, s, t.version),
           t.log = s /\ s \in ChatLogs =>
               t.version.text = TextBefore(q, s, Len(q) + 1) \o t.added
    PROVE  HistoryFits(Append(q, t), s)
<1> DEFINE p == Append(q, t)
           n == Len(q)
<1>1. /\ n \in Nat /\ TurnsIn(q, s) \subseteq 1..n /\ Len(p) = n + 1
      /\ TurnsIn(p, s) = TurnsIn(q, s) \cup (IF t.log = s THEN {n + 1} ELSE {})
      /\ \A j \in 1..n : p[j] = q[j]
      /\ p[n + 1] = t
  BY TurnsGrow
<1>2. \A i \in 1..(n + 1) : /\ HasMax(TurnsBefore(q, s, i))
                            /\ TurnsBefore(p, s, i) = TurnsBefore(q, s, i)
                            /\ TextBefore(p, s, i) = TextBefore(q, s, i)
  BY TextBeforeStays DEF HistoryFits
<1>3. t.log = s => ~KeptIn(q, s, t.version)
  OBVIOUS
<1> HIDE DEF p, n
<1>4. ASSUME NEW i \in 1..(Len(p) + 1) PROVE HasMax(TurnsBefore(p, s, i))
  <2>1. CASE i \in 1..(n + 1)
    BY <1>2, <2>1
  <2>2. CASE i = n + 2
    <3>1. CASE t.log = s
      <4>1. n + 1 \in TurnsBefore(p, s, i) /\ \A j \in TurnsBefore(p, s, i) : j <= n + 1
        BY <1>1, <2>2, <3>1 DEF TurnsBefore
      <4> QED
        BY <4>1 DEF HasMax
    <3>2. CASE t.log # s
      BY <1>1, <2>2, <3>2, <1>2 DEF TurnsBefore
    <3> QED
      BY <3>1, <3>2
  <2> QED
    BY <1>1, <2>1, <2>2
<1>5. OneOfEach(p, s)
  <2> SUFFICES ASSUME NEW i \in TurnsIn(p, s), NEW j \in TurnsIn(p, s), p[i].version = p[j].version
               PROVE  i = j
    BY DEF OneOfEach
  <2>1. OneOfEach(q, s)
    BY DEF HistoryFits
  <2>2. CASE i \in TurnsIn(q, s) /\ j \in TurnsIn(q, s)
    BY <1>1, <2>1, <2>2 DEF OneOfEach
  <2>3. CASE i \in TurnsIn(q, s) /\ j \notin TurnsIn(q, s)
    BY <1>1, <1>3, <2>3 DEF KeptIn
  <2>4. CASE i \notin TurnsIn(q, s) /\ j \in TurnsIn(q, s)
    BY <1>1, <1>3, <2>4 DEF KeptIn
  <2>5. CASE i \notin TurnsIn(q, s) /\ j \notin TurnsIn(q, s)
    BY <1>1, <2>5
  <2> QED
    BY <2>2, <2>3, <2>4, <2>5
<1>6. ASSUME s \in ChatLogs PROVE Reassembles(p, s)
  <2> SUFFICES ASSUME NEW i \in TurnsIn(p, s)
               PROVE  p[i].version.text = TextBefore(p, s, i) \o p[i].added
    BY DEF Reassembles
  <2>1. CASE i \in TurnsIn(q, s)
    <3>1. q[i].version.text = TextBefore(q, s, i) \o q[i].added
      BY <1>6, <2>1 DEF HistoryFits, Reassembles
    <3>2. p[i] = q[i] /\ i \in 1..(n + 1)
      BY <1>1, <2>1
    <3> QED
      BY <1>2, <3>1, <3>2
  <2>2. CASE i \notin TurnsIn(q, s)
    <3>1. i = n + 1 /\ t.log = s /\ i \in 1..(n + 1)
      BY <1>1, <2>2
    <3>2. t.version.text = TextBefore(q, s, n + 1) \o t.added
      BY <1>6, <3>1 DEF n
    <3> QED
      BY <1>1, <1>2, <3>1, <3>2
  <2> QED
    BY <2>1, <2>2
<1> QED
  BY <1>4, <1>5, <1>6 DEF HistoryFits, p

-----------------------------------------------------------------------------
LEMMA NoAppendTyped ==
    /\ NoAppend \in [step : AppendSteps, log : Logs \cup {NoLog}, version : LogVersions,
                     stat : LogStats, backup : Seq(LogTurns)]
    /\ NoAppend.step = "idle" /\ NoAppend.log = NoLog
<1>1. FirstVersion \in LogVersions
  <2>1. PICK l \in Lines, r \in Responses : TRUE
    BY LineageAssumption
  <2>2. [i \in 1..1 |-> l] \in Texts
    BY DEF Texts
  <2>3. [text |-> [i \in 1..1 |-> l], response |-> r] \in LogVersions
    BY <2>2 DEF LogVersions
  <2> QED
    BY <2>3 DEF FirstVersion
<1>2. <<>> \in Seq(LogTurns) /\ 0 \in LogStats /\ "idle" \in AppendSteps
  BY LineageAssumption DEF LogStats, AppendSteps
<1> QED
  BY <1>1, <1>2 DEF NoAppend

LEMMA AppendStart == AppendInit => AppendInvariant
<1> SUFFICES ASSUME AppendInit PROVE AppendInvariant
  OBVIOUS
<1>1. FirstVersion \in LogVersions /\ 0 \in LogStats
  BY NoAppendTyped DEF NoAppend
<1>2. \A s \in Logs : histories[LogHistory(s)] = <<>>
  BY DEF AppendInit, LogHistory, Histories
<1>3. AppendTypeOK
  BY <1>1, NoAppendTyped, LineageAssumption DEF AppendInit, AppendTypeOK, LogStats
<1>4. StatsFit
  BY LineageAssumption DEF AppendInit, StatsFit
<1>5. FingerprintsFit
  BY DEF AppendInit, FingerprintsFit
<1>6. TurnsFit
  <2>1. ASSUME NEW s \in Logs PROVE HistoryFits(<<>>, s)
    BY DEF HistoryFits, TurnsBefore, TurnsIn, HasMax, OneOfEach, Reassembles
  <2> QED
    BY <1>2, <2>1 DEF AppendInit, TurnsFit, AppendedIsKept, ReceiptsAreTrue
<1>7. AppendFits /\ BackupFits
  BY NoAppendTyped DEF AppendInit, AppendFits, BackupFits, HasCopy, AppendAt, IsChat
<1> QED
  BY <1>3, <1>4, <1>5, <1>6, <1>7 DEF AppendInvariant

-----------------------------------------------------------------------------
(* The source is edited; an append begins, reads and looks.                *)

LEMMA EditLogKeeps ==
    ASSUME AppendInvariant, NEW s \in Logs, EditLog(s)
    PROVE  AppendInvariant'
<1>1. PICK v \in LogVersions : logs' = [logs EXCEPT ![s] = v]
  BY DEF EditLog
<1>2. /\ logEdits < MaxLogEdits /\ logEdits' = logEdits + 1
      /\ logStat' = [logStat EXCEPT ![s] = logEdits']
      /\ UNCHANGED <<histories, sealed, sectorCopies, turnReceipts, fingerprint, append, appends,
                     appendFaults, appended, misled>>
  BY DEF EditLog, sectorFiles, toldVars, appendLimits, appendHistory
<1>3. AppendTypeOK /\ StatsFit /\ FingerprintsFit /\ TurnsFit /\ AppendFits /\ BackupFits
  BY DEF AppendInvariant
<1>4. logEdits \in Nat /\ logEdits' \in LogStats /\ LogStats \subseteq Nat
  BY <1>2, <1>3, LineageAssumption DEF AppendTypeOK, LogStats
<1>5. /\ logs'[s] = v /\ logStat'[s] = logEdits + 1
      /\ \A x \in Logs \ {s} : logs'[x] = logs[x] /\ logStat'[x] = logStat[x]
      /\ \A x \in Logs : logStat[x] \in Nat
      /\ \A x \in Logs : fingerprint[x] # Unseen => fingerprint[x].stat \in Nat
      /\ append.stat \in Nat
  BY <1>1, <1>2, <1>3, <1>4 DEF AppendTypeOK
<1>6. AppendTypeOK'
  BY <1>1, <1>2, <1>3, <1>4 DEF AppendTypeOK
<1>7. ASSUME NEW x \in Logs
      PROVE  /\ logStat[x] <= logEdits
             /\ fingerprint[x] # Unseen => fingerprint[x].stat <= logStat[x]
             /\ logStat'[x] <= logEdits'
             /\ fingerprint[x] # Unseen => fingerprint[x].stat <= logStat'[x]
             /\ fingerprint[x] # Unseen /\ fingerprint[x].stat = logStat'[x] => x # s
  BY <1>3, <1>2, <1>4, <1>5 DEF StatsFit
<1>8. StatsFit'
  BY <1>2, <1>7 DEF StatsFit
<1>9. \A x, y : TurnKept(x, y)' = TurnKept(x, y)
  BY <1>2 DEF TurnKept
<1>10. FingerprintsFit'
  BY <1>2, <1>3, <1>5, <1>7, <1>9 DEF FingerprintsFit
<1>11. TurnsFit' /\ BackupFits'
  BY <1>2, <1>3 DEF TurnsFit, AppendedIsKept, ReceiptsAreTrue, TurnKept, BackupFits, HasCopy,
     AppendAt, IsChat, log, itsHistory, Told
<1>12. AppendFits'
  BY <1>2, <1>3, <1>7, <1>4, <1>5, <1>9 DEF log, Diverged, IsChat, HasCursor, TurnsOf,
     Cursor, AppendFits, StatIsTrue
<1> QED
  BY <1>6, <1>8, <1>10, <1>11, <1>12 DEF AppendInvariant

\* A step of the running append that leaves the sources and the histories as they are.
LEMMA AppendMoves ==
    ASSUME AppendInvariant,
           append' \in [step : AppendSteps, log : Logs \cup {NoLog}, version : LogVersions,
                        stat : LogStats, backup : Seq(LogTurns)],
           UNCHANGED <<logs, logStat, logEdits, histories>>,
           sealed' \subseteq Histories, sectorCopies' \subseteq Histories,
           turnReceipts' \subseteq Logs \X LogVersions,
           fingerprint' \in [Logs -> [stat : LogStats, version : LogVersions] \cup {Unseen}],
           appends' \in 0..MaxAppends, appendFaults' \in 0..MaxAppendFaults,
           appended' \subseteq Logs \X LogVersions, misled \subseteq misled', misled' \subseteq Logs,
           \A s \in Logs : fingerprint'[s] # fingerprint[s] =>
               /\ fingerprint'[s].stat <= logStat[s]
               /\ s \notin misled' /\ fingerprint'[s].stat = logStat[s] =>
                      fingerprint'[s].version = logs[s]
               /\ TurnKept(s, fingerprint'[s].version),
           \A v \in appended' \ appended : TurnKept(v[1], v[2]),
           \A r \in turnReceipts' \ turnReceipts : TurnKept(r[1], r[2]),
           AppendFits', BackupFits'
    PROVE  AppendInvariant'
<1>1. AppendTypeOK'
  BY DEF AppendInvariant, AppendTypeOK
<1>2. \A x, y : TurnKept(x, y)' = TurnKept(x, y)
  BY DEF TurnKept
<1>3. StatsFit'
  BY DEF AppendInvariant, StatsFit
<1>4. FingerprintsFit'
  BY <1>2 DEF AppendInvariant, FingerprintsFit
<1>5. TurnsFit'
  BY <1>2 DEF AppendInvariant, TurnsFit, AppendedIsKept, ReceiptsAreTrue
<1> QED
  BY <1>1, <1>3, <1>4, <1>5 DEF AppendInvariant

\* The copy is as good as it was: what is new was told of the running append.
LEMMA BackupStays ==
    ASSUME AppendInvariant, append'.log = append.log, append'.backup = append.backup,
           HasCopy' => HasCopy /\ (Told => Told'), appended' = appended, misled \subseteq misled',
           \A s \in Logs : fingerprint'[s] # fingerprint[s] => s = log /\ Told',
           \A r \in turnReceipts' \ turnReceipts : r[1] = log /\ Told'
    PROVE  BackupFits'
  BY DEF log, itsHistory, AppendInvariant, BackupFits

\* A step of an append that has no copy yet, or none any more.
LEMMA NoCopyIsLeft ==
    ASSUME append'.step \notin {"commit", "seal", "record", "discard", "receipt"}
    PROVE  BackupFits'
  BY DEF BackupFits, HasCopy, AppendAt

\* What is of no interest to a step.
LEMMA UsualTypes ==
    ASSUME AppendInvariant
    PROVE  /\ sealed \subseteq Histories /\ sectorCopies \subseteq Histories
           /\ turnReceipts \subseteq Logs \X LogVersions
           /\ fingerprint \in [Logs -> [stat : LogStats, version : LogVersions] \cup {Unseen}]
           /\ appends \in 0..MaxAppends /\ appendFaults \in 0..MaxAppendFaults
           /\ appended \subseteq Logs \X LogVersions /\ misled \subseteq Logs
           /\ append \in [step : AppendSteps, log : Logs \cup {NoLog}, version : LogVersions,
                          stat : LogStats, backup : Seq(LogTurns)]
  BY DEF AppendInvariant, AppendTypeOK

LEMMA StartLogAppendKeeps ==
    ASSUME AppendInvariant, NEW s \in Logs, StartLogAppend(s)
    PROVE  AppendInvariant'
<1> DEFINE g == [NoAppend EXCEPT !.step = "read", !.log = s]
<1>1. /\ appends < MaxAppends /\ appends' = appends + 1 /\ append' = g
      /\ UNCHANGED <<logs, logStat, logEdits, histories, sealed, sectorCopies, turnReceipts,
                     fingerprint, appendFaults, appended, misled>>
  BY DEF StartLogAppend, editVars, sectorFiles, toldVars, appendHistory
<1>2. /\ g \in [step : AppendSteps, log : Logs \cup {NoLog}, version : LogVersions,
                stat : LogStats, backup : Seq(LogTurns)]
      /\ g.step = "read" /\ g.log = s
  BY NoAppendTyped DEF AppendSteps
<1> HIDE DEF g
<1>3. BackupFits'
  BY <1>1, <1>2, NoCopyIsLeft
<1>4. AppendFits'
  BY <1>1, <1>2 DEF AppendFits, log
<1>5. appends' \in 0..MaxAppends
  BY <1>1, UsualTypes, LineageAssumption
<1> QED
  BY <1>1, <1>2, <1>3, <1>4, <1>5, UsualTypes, AppendMoves

LEMMA ReadLogKeeps == AppendInvariant /\ ReadLog => AppendInvariant'
<1> SUFFICES ASSUME AppendInvariant, ReadLog PROVE AppendInvariant'
  OBVIOUS
<1> DEFINE g == [append EXCEPT !.step = "probe", !.version = logs[log], !.stat = logStat[log]]
<1>1. /\ append.step = "read" /\ append' = g
      /\ UNCHANGED <<logs, logStat, logEdits, histories, sealed, sectorCopies, turnReceipts,
                     fingerprint, appends, appendFaults, appended, misled>>
  BY DEF ReadLog, AppendAt, editVars, sectorFiles, toldVars, appendHistory, appendLimits
<1>2. log \in Logs /\ logs[log] \in LogVersions /\ logStat[log] \in LogStats
  BY <1>1 DEF AppendInvariant, AppendFits, AppendTypeOK
<1>2a. logStat[log] <= logStat[log]
  BY <1>2, LineageAssumption DEF LogStats
<1>3. /\ g \in [step : AppendSteps, log : Logs \cup {NoLog}, version : LogVersions,
                stat : LogStats, backup : Seq(LogTurns)]
      /\ g.step = "probe" /\ g.log = log /\ g.version = logs[log] /\ g.stat = logStat[log]
  BY <1>2, UsualTypes DEF AppendSteps, log
<1> HIDE DEF g
<1>4. log' = log
  BY <1>1, <1>3 DEF log
<1>5. AppendFits'
  BY <1>1, <1>2, <1>2a, <1>3, <1>4 DEF AppendFits
<1>6. BackupFits'
  BY <1>1, <1>3, NoCopyIsLeft
<1> QED
  BY <1>1, <1>3, <1>5, <1>6, UsualTypes, AppendMoves

LEMMA ProbeLogKeeps == AppendInvariant /\ ProbeLog => AppendInvariant'
<1> SUFFICES ASSUME AppendInvariant, ProbeLog PROVE AppendInvariant'
  OBVIOUS
<1> DEFINE g == [append EXCEPT !.step = "look", !.stat = logStat[log]]
<1>1. /\ append.step = "probe" /\ append' = g
      /\ misled' = IF append.stat # logStat[log] THEN misled \cup {log} ELSE misled
      /\ UNCHANGED <<logs, logStat, logEdits, histories, sealed, sectorCopies, turnReceipts,
                     fingerprint, appends, appendFaults, appended>>
  BY DEF ProbeLog, AppendAt, editVars, sectorFiles, toldVars, appendLimits
<1>2. /\ log \in Logs /\ logStat[log] \in LogStats
      /\ append.stat = logStat[log] => append.version = logs[log]
  BY <1>1 DEF AppendInvariant, AppendFits, AppendTypeOK
<1>2a. logStat[log] <= logStat[log]
  BY <1>2, LineageAssumption DEF LogStats
<1>3. /\ g \in [step : AppendSteps, log : Logs \cup {NoLog}, version : LogVersions,
                stat : LogStats, backup : Seq(LogTurns)]
      /\ g.step = "look" /\ g.log = log /\ g.version = append.version /\ g.stat = logStat[log]
  BY <1>2, UsualTypes DEF AppendSteps, log
<1> HIDE DEF g
<1>4. log' = log
  BY <1>1, <1>3 DEF log
<1>5. StatIsTrue(log)'
  BY <1>1, <1>2, <1>2a, <1>3, <1>4 DEF StatIsTrue
<1>6. AppendFits'
  BY <1>1, <1>2, <1>3, <1>4, <1>5 DEF AppendFits
<1>7. BackupFits'
  BY <1>1, <1>3, NoCopyIsLeft
<1>8. misled \subseteq misled' /\ misled' \subseteq Logs
  BY <1>1, <1>2, UsualTypes
<1> QED
  BY <1>1, <1>3, <1>6, <1>7, <1>8, UsualTypes, AppendMoves

\* An append that is over.
LEMMA OverFits ==
    ASSUME append' = NoAppend
    PROVE  AppendFits' /\ BackupFits'
  BY NoAppendTyped, NoCopyIsLeft DEF AppendFits

\* The hash is recorded of what was read.
LEMMA VersionRecorded ==
    ASSUME AppendInvariant, RecordVersion, log \in Logs, StatIsTrue(log),
           TurnKept(log, append.version)
    PROVE  /\ fingerprint' \in [Logs -> [stat : LogStats, version : LogVersions] \cup {Unseen}]
           /\ \A s \in Logs : fingerprint'[s] # fingerprint[s] =>
               /\ s = log /\ fingerprint'[s].stat <= logStat[s]
               /\ s \notin misled /\ fingerprint'[s].stat = logStat[s] =>
                      fingerprint'[s].version = logs[s]
               /\ TurnKept(s, fingerprint'[s].version)
<1> DEFINE e == [stat |-> append.stat, version |-> append.version]
<1>1. /\ e \in [stat : LogStats, version : LogVersions]
      /\ e.stat = append.stat /\ e.version = append.version
  BY UsualTypes
<1>2. fingerprint' = [fingerprint EXCEPT ![log] = e]
  BY DEF RecordVersion
<1> HIDE DEF e
<1> QED
  BY <1>1, <1>2, UsualTypes DEF StatIsTrue

LEMMA SkipKnownKeeps == AppendInvariant /\ SkipKnown => AppendInvariant'
<1> SUFFICES ASSUME AppendInvariant, SkipKnown PROVE AppendInvariant'
  OBVIOUS
<1>1. /\ append.step = "look" /\ TurnKept(log, append.version) /\ RecordVersion
      /\ appended' = appended \cup {<<log, append.version>>} /\ append' = NoAppend
      /\ UNCHANGED <<logs, logStat, logEdits, histories, sealed, sectorCopies, turnReceipts,
                     appends, appendFaults, misled>>
  BY DEF SkipKnown, Succeed, thisVersion, AppendAt, editVars, sectorFiles, appendLimits
<1>2. log \in Logs /\ StatIsTrue(log)
  BY <1>1 DEF AppendInvariant, AppendFits
<1>3. /\ fingerprint' \in [Logs -> [stat : LogStats, version : LogVersions] \cup {Unseen}]
      /\ \A s \in Logs : fingerprint'[s] # fingerprint[s] =>
               /\ s = log /\ fingerprint'[s].stat <= logStat[s]
               /\ s \notin misled /\ fingerprint'[s].stat = logStat[s] =>
                      fingerprint'[s].version = logs[s]
               /\ TurnKept(s, fingerprint'[s].version)
  BY <1>1, <1>2, VersionRecorded
<1>4. /\ appended' \subseteq Logs \X LogVersions
      /\ \A v \in appended' \ appended : TurnKept(v[1], v[2])
  BY <1>1, <1>2, UsualTypes
<1> QED
  BY <1>1, <1>3, <1>4, OverFits, NoAppendTyped, UsualTypes, AppendMoves

LEMMA RefuseDivergedKeeps == AppendInvariant /\ RefuseDiverged => AppendInvariant'
  BY OverFits, NoAppendTyped, UsualTypes, AppendMoves DEF RefuseDiverged, editVars,
     sectorFiles, toldVars, appendLimits, appendHistory

LEMMA AcceptNewKeeps == AppendInvariant /\ AcceptNew => AppendInvariant'
<1> SUFFICES ASSUME AppendInvariant, AcceptNew PROVE AppendInvariant'
  OBVIOUS
<1> DEFINE g == [append EXCEPT !.step = "copy"]
<1>1. /\ append.step = "look" /\ ~TurnKept(log, append.version) /\ ~Diverged /\ append' = g
      /\ UNCHANGED <<logs, logStat, logEdits, histories, sealed, sectorCopies, turnReceipts,
                     fingerprint, appends, appendFaults, appended, misled>>
  BY DEF AcceptNew, AppendAt, AppendThen, editVars, sectorFiles, toldVars, appendLimits,
     appendHistory
<1>2. log \in Logs /\ StatIsTrue(log)
  BY <1>1 DEF AppendInvariant, AppendFits
<1>3. /\ g \in [step : AppendSteps, log : Logs \cup {NoLog}, version : LogVersions,
                stat : LogStats, backup : Seq(LogTurns)]
      /\ g.step = "copy" /\ g.log = log /\ g.version = append.version /\ g.stat = append.stat
  BY UsualTypes DEF AppendSteps, log
<1> HIDE DEF g
<1>4. log' = log
  BY <1>1, <1>3 DEF log
<1>5. StatIsTrue(log)' /\ TurnKept(log, append.version)' = TurnKept(log, append.version)
      /\ Diverged' = Diverged
  BY <1>1, <1>2, <1>3, <1>4 DEF StatIsTrue, TurnKept, Diverged, IsChat, HasCursor, TurnsOf,
     Cursor
<1>6. AppendFits'
  BY <1>1, <1>2, <1>3, <1>4, <1>5 DEF AppendFits
<1>7. BackupFits'
  BY <1>1, <1>3, NoCopyIsLeft
<1> QED
  BY <1>1, <1>3, <1>6, <1>7, UsualTypes, AppendMoves

-----------------------------------------------------------------------------
(* The sector is copied and changed.                                       *)

LEMMA CopySectorKeeps == AppendInvariant /\ CopySector => AppendInvariant'
<1> SUFFICES ASSUME AppendInvariant, CopySector PROVE AppendInvariant'
  OBVIOUS
<1> DEFINE g == [append EXCEPT !.step = "commit", !.backup = histories[itsHistory]]
<1>1. /\ append.step = "copy" /\ append' = g /\ sealed' = sealed \ {itsHistory}
      /\ UNCHANGED <<logs, logStat, logEdits, histories, sectorCopies, turnReceipts,
                     fingerprint, appends, appendFaults, appended, misled>>
  BY DEF CopySector, AppendAt, editVars, toldVars, appendLimits, appendHistory
<1>2. /\ log \in Logs /\ StatIsTrue(log) /\ ~TurnKept(log, append.version) /\ ~Diverged
      /\ AppendTypeOK /\ TurnsFit /\ FingerprintsFit
  BY <1>1 DEF AppendInvariant, AppendFits
<1>3. histories[itsHistory] \in Seq(LogTurns)
  BY <1>2 DEF AppendTypeOK, itsHistory, LogHistory, Histories
<1>4. /\ g \in [step : AppendSteps, log : Logs \cup {NoLog}, version : LogVersions,
                stat : LogStats, backup : Seq(LogTurns)]
      /\ g.step = "commit" /\ g.log = log /\ g.version = append.version /\ g.stat = append.stat
      /\ g.backup = histories[itsHistory]
  BY <1>3, UsualTypes DEF AppendSteps, log
<1> HIDE DEF g
<1>5. log' = log /\ itsHistory' = itsHistory
  BY <1>1, <1>4 DEF log, itsHistory
<1>6. StatIsTrue(log)' /\ TurnKept(log, append.version)' = TurnKept(log, append.version)
      /\ Diverged' = Diverged
  BY <1>1, <1>2, <1>4, <1>5 DEF StatIsTrue, TurnKept, Diverged, IsChat, HasCursor, TurnsOf,
     Cursor
<1>7. AppendFits'
  BY <1>1, <1>2, <1>4, <1>5, <1>6 DEF AppendFits
<1>8. BackupFits'
  BY <1>2, <1>4, <1>1, <1>5 DEF TurnsFit, AppendedIsKept, TurnKept, FingerprintsFit,
     ReceiptsAreTrue, BackupFits
<1>9. sealed' \subseteq Histories
  BY <1>1, UsualTypes
<1> QED
  BY <1>1, <1>4, <1>7, <1>8, <1>9, UsualTypes, AppendMoves

\* The last turn of a source.
LEMMA CursorIsLast ==
    ASSUME AppendInvariant, NEW s \in Logs, NEW q, q = histories[LogHistory(s)]
    PROVE  /\ q \in Seq(LogTurns) /\ LogHistory(s) \in Histories /\ Len(q) \in Nat
           /\ TextBefore(q, s, Len(q) + 1) = IF HasCursor(s) THEN Cursor(s).text ELSE <<>>
           /\ HasCursor(s) => Cursor(s) \in LogVersions
<1>1. AppendTypeOK /\ HistoryFits(q, s)
  BY DEF AppendInvariant, TurnsFit
<1>2. LogHistory(s) \in Histories /\ q \in Seq(LogTurns)
  BY <1>1 DEF AppendTypeOK, LogHistory, Histories
<1>3. Len(q) \in Nat /\ DOMAIN q = 1..Len(q)
  BY <1>2, LenProperties
<1>4. TurnsOf(s) = TurnsIn(q, s) /\ TurnsIn(q, s) \subseteq 1..Len(q)
  BY <1>3 DEF TurnsOf, TurnsIn
<1>5. {j \in TurnsIn(q, s) : j < Len(q) + 1} = TurnsIn(q, s)
  BY <1>3, <1>4
<1>6. HasMax(TurnsIn(q, s))
  <2>1. Len(q) + 1 \in 1..(Len(q) + 1)
    BY <1>3
  <2> QED
    BY <1>1, <1>5, <2>1 DEF HistoryFits, TurnsBefore
<1>7. HasCursor(s) => Max(TurnsOf(s)) \in TurnsOf(s)
  BY <1>3, <1>4, <1>6, MaxIsThere DEF HasCursor
<1>8. HasCursor(s) => Cursor(s) \in LogVersions
  <2> SUFFICES ASSUME HasCursor(s) PROVE Cursor(s) \in LogVersions
    OBVIOUS
  <2>1. Max(TurnsOf(s)) \in 1..Len(q)
    BY <1>4, <1>7
  <2>2. q[Max(TurnsOf(s))] \in LogTurns
    BY <1>2, <2>1, ElementOfSeq
  <2> QED
    BY <2>2 DEF Cursor, LogTurns
<1>9. TextBefore(q, s, Len(q) + 1) = IF HasCursor(s) THEN Cursor(s).text ELSE <<>>
  BY <1>4, <1>5 DEF TextBefore, HasCursor, Cursor
<1> QED
  BY <1>2, <1>3, <1>8, <1>9

LEMMA CommitTurnKeeps == AppendInvariant /\ CommitTurn => AppendInvariant'
<1> SUFFICES ASSUME AppendInvariant, CommitTurn PROVE AppendInvariant'
  OBVIOUS
<1> DEFINE q == histories[itsHistory]
           g == [append EXCEPT !.step = "seal"]
           t == IF IsChat THEN ChatTurn ELSE ResearchTurn
<1>1. /\ append.step = "commit" /\ append' = g
      /\ histories' = [histories EXCEPT ![itsHistory] = Append(q, t)]
      /\ UNCHANGED <<logs, logStat, logEdits, sealed, sectorCopies, turnReceipts,
                     fingerprint, appends, appendFaults, appended, misled>>
  BY DEF CommitTurn, AppendAt, AppendThen, editVars, toldVars, appendLimits, appendHistory
<1>2. /\ log \in Logs /\ StatIsTrue(log) /\ ~TurnKept(log, append.version) /\ ~Diverged
      /\ AppendTypeOK /\ TurnsFit /\ FingerprintsFit /\ StatsFit
  BY <1>1 DEF AppendInvariant, AppendFits
<1>3. append.version \in LogVersions /\ append.version.text \in Texts
  BY UsualTypes DEF LogVersions
<1>4. /\ g \in [step : AppendSteps, log : Logs \cup {NoLog}, version : LogVersions,
                stat : LogStats, backup : Seq(LogTurns)]
      /\ g.step = "seal" /\ g.log = log /\ g.version = append.version /\ g.stat = append.stat
      /\ g.backup = append.backup
  BY UsualTypes DEF AppendSteps, log
<1> HIDE DEF g, q
<1>5. log' = log /\ itsHistory' = itsHistory /\ itsHistory = LogHistory(log)
  BY <1>1, <1>4 DEF log, itsHistory
<1>6. /\ q \in Seq(LogTurns) /\ itsHistory \in Histories /\ Len(q) \in Nat
      /\ TextBefore(q, log, Len(q) + 1) = IF HasCursor(log) THEN Cursor(log).text ELSE <<>>
      /\ HasCursor(log) => Cursor(log) \in LogVersions
  BY <1>2, <1>5, CursorIsLast DEF q
<1>7. HasCursor(log) => Cursor(log).text \in Texts /\ Len(Cursor(log).text) \in 1..2
  BY <1>6, TextIsSeq DEF LogVersions
<1>8. UnseenText \in Texts \cup {<<>>}
  <2>1. CASE HasCursor(log)
    <3> DEFINE c == Len(Cursor(log).text)
    <3>a. c \in 1..2
      BY <1>7, <2>1
    <3> HIDE DEF c
    <3>b. c + 1 \in 2..3
      BY <3>a
    <3>1. Len(Cursor(log).text) + 1 \in 2..3
      BY <3>b DEF c
    <3> QED
      BY <1>3, <2>1, <3>1, PartIsText DEF UnseenText
  <2>2. CASE ~HasCursor(log)
    BY <1>3, <2>2 DEF UnseenText
  <2> QED
    BY <2>1, <2>2
<1>9. /\ t \in LogTurns /\ t.log = log /\ t.version = append.version
      /\ IsChat => t.added = UnseenText
  BY <1>2, <1>3, <1>8 DEF ChatTurn, ResearchTurn, LogTurns
<1>10. log \in ChatLogs => append.version.text = TextBefore(q, log, Len(q) + 1) \o t.added
  BY <1>9, <1>2, <1>3, <1>6, <1>7, TextAfter, TextIsSeq, ConcatEmptySeq DEF IsChat,
     Diverged, UnseenText
<1> HIDE DEF t
<1>11. /\ histories'[itsHistory] = Append(q, t)
       /\ \A h \in Histories \ {itsHistory} : histories'[h] = histories[h]
       /\ histories' \in [Histories -> Seq(LogTurns)]
  BY <1>6, <1>9, AppendProperties, <1>1, <1>2 DEF AppendTypeOK
<1>12. \A s \in Logs : LogHistory(s) \in Histories
  BY DEF LogHistory, Histories
<1>13. ASSUME NEW s \in Logs, NEW v, TurnKept(s, v) PROVE TurnKept(s, v)'
  BY <1>13, <1>6, <1>9, KeptGrows, <1>11, <1>12 DEF TurnKept, q
<1>14. AppendTypeOK'
  BY <1>1, <1>2, <1>4, <1>11 DEF AppendTypeOK
<1>15. StatsFit'
  BY <1>1, <1>2 DEF StatsFit
<1>16. FingerprintsFit'
  BY <1>1, <1>2, <1>13 DEF FingerprintsFit
<1>17. TurnsFit'
  <2>1. ASSUME NEW s \in Logs PROVE HistoryFits(histories'[LogHistory(s)], s)
    <3>1. HistoryFits(histories[LogHistory(s)], s)
      BY <1>2 DEF TurnsFit
    <3>2. CASE LogHistory(s) = itsHistory
      BY <3>1, <3>2, <1>2, <1>5, <1>9, <1>6, <1>10, HistoryGrows, <1>11 DEF q, TurnKept
    <3>3. CASE LogHistory(s) # itsHistory
      BY <1>11, <1>12, <3>1, <3>3
    <3> QED
      BY <3>2, <3>3
  <2>2. AppendedIsKept'
    BY <1>2, UsualTypes, <1>1, <1>13 DEF TurnsFit, AppendedIsKept
  <2>3. ReceiptsAreTrue'
    BY <1>2, UsualTypes, <1>1, <1>13 DEF TurnsFit, ReceiptsAreTrue
  <2> QED
    BY <2>1, <2>2, <2>3 DEF TurnsFit
<1>18. AppendFits'
  BY <1>6, <1>9, KeptGrows, <1>1, <1>4, <1>5, <1>11, <1>2 DEF TurnKept, StatIsTrue,
     AppendFits
<1>19. BackupFits'
  BY <1>1, <1>4, BackupStays DEF HasCopy, Told, AppendAt, log
<1> QED
  BY <1>14, <1>15, <1>16, <1>17, <1>18, <1>19 DEF AppendInvariant

-----------------------------------------------------------------------------
(* The turn is told of.                                                    *)

LEMMA LaterStep ==
    ASSUME AppendInvariant, append.step \in {"seal", "receipt", "record", "discard"},
           NEW step \in {"receipt", "record", "discard"}, AppendThen(step),
           UNCHANGED <<logs, logStat, histories, misled>>
    PROVE  /\ append' \in [step : AppendSteps, log : Logs \cup {NoLog}, version : LogVersions,
                           stat : LogStats, backup : Seq(LogTurns)]
           /\ append'.step = step /\ append'.log = append.log /\ append'.backup = append.backup
           /\ AppendFits' /\ log \in Logs /\ StatIsTrue(log) /\ TurnKept(log, append.version)
           /\ (IsChat' <=> IsChat)
<1> DEFINE g == [append EXCEPT !.step = step]
<1>1. append' = g
  BY DEF AppendThen
<1>2. /\ g \in [step : AppendSteps, log : Logs \cup {NoLog}, version : LogVersions,
                stat : LogStats, backup : Seq(LogTurns)]
      /\ g.step = step /\ g.log = append.log /\ g.version = append.version
      /\ g.stat = append.stat /\ g.backup = append.backup
  BY UsualTypes DEF AppendSteps
<1> HIDE DEF g
<1>3. log' = log /\ IsChat' = IsChat
  BY <1>1, <1>2 DEF log, IsChat
<1>4. log \in Logs /\ StatIsTrue(log) /\ TurnKept(log, append.version)
  BY DEF AppendInvariant, AppendFits
<1>5. StatIsTrue(log)' /\ TurnKept(log, append.version)'
  BY <1>1, <1>2, <1>3, <1>4 DEF StatIsTrue, TurnKept
<1>6. AppendFits'
  BY <1>1, <1>2, <1>3, <1>4, <1>5 DEF AppendFits
<1> QED
  BY <1>1, <1>2, <1>3, <1>4, <1>6

LEMMA SealSectorKeeps == AppendInvariant /\ SealSector => AppendInvariant'
<1> SUFFICES ASSUME AppendInvariant, SealSector PROVE AppendInvariant'
  OBVIOUS
<1> DEFINE step == IF IsChat THEN "record" ELSE "receipt"
<1>1. /\ append.step = "seal" /\ AppendThen(step) /\ sealed' = sealed \cup {itsHistory}
      /\ UNCHANGED <<logs, logStat, logEdits, histories, sectorCopies, turnReceipts,
                     fingerprint, appends, appendFaults, appended, misled>>
  BY DEF SealSector, AppendAt, editVars, toldVars, appendLimits, appendHistory
<1>2. step \in {"receipt", "record", "discard"}
  OBVIOUS
<1>3. /\ append' \in [step : AppendSteps, log : Logs \cup {NoLog}, version : LogVersions,
                      stat : LogStats, backup : Seq(LogTurns)]
      /\ append'.log = append.log /\ append'.backup = append.backup /\ AppendFits'
  BY <1>1, <1>2, LaterStep
<1>4. BackupFits'
  BY <1>1, <1>3, BackupStays DEF HasCopy, Told, AppendAt
<1>5. sealed' \subseteq Histories
  BY <1>1, UsualTypes DEF itsHistory, LogHistory, Histories
<1> QED
  BY <1>1, <1>3, <1>4, <1>5, UsualTypes, AppendMoves

LEMMA RecordLogKeeps == AppendInvariant /\ RecordLog => AppendInvariant'
<1> SUFFICES ASSUME AppendInvariant, RecordLog PROVE AppendInvariant'
  OBVIOUS
<1>1. /\ append.step = "record" /\ AppendThen("discard") /\ RecordVersion
      /\ UNCHANGED <<logs, logStat, logEdits, histories, sealed, sectorCopies, turnReceipts,
                     appends, appendFaults, appended, misled>>
  BY DEF RecordLog, AppendAt, editVars, sectorFiles, appendLimits, appendHistory
<1>2. /\ append' \in [step : AppendSteps, log : Logs \cup {NoLog}, version : LogVersions,
                      stat : LogStats, backup : Seq(LogTurns)]
      /\ append'.step = "discard" /\ append'.log = append.log /\ append'.backup = append.backup
      /\ AppendFits' /\ log \in Logs /\ StatIsTrue(log) /\ TurnKept(log, append.version)
  BY <1>1, LaterStep
<1>3. /\ fingerprint' \in [Logs -> [stat : LogStats, version : LogVersions] \cup {Unseen}]
      /\ \A s \in Logs : fingerprint'[s] # fingerprint[s] =>
               /\ s = log /\ fingerprint'[s].stat <= logStat[s]
               /\ s \notin misled /\ fingerprint'[s].stat = logStat[s] =>
                      fingerprint'[s].version = logs[s]
               /\ TurnKept(s, fingerprint'[s].version)
  BY <1>1, <1>2, VersionRecorded
<1>4. HasCopy /\ Told'
  BY <1>1, <1>2 DEF HasCopy, Told, AppendAt
<1>5. BackupFits'
  BY <1>1, <1>2, <1>3, <1>4, BackupStays
<1> QED
  BY <1>1, <1>2, <1>3, <1>5, UsualTypes, AppendMoves

LEMMA DiscardCopyKeeps == AppendInvariant /\ DiscardCopy => AppendInvariant'
<1> SUFFICES ASSUME AppendInvariant, DiscardCopy PROVE AppendInvariant'
  OBVIOUS
<1>1. /\ append.step = "discard"
      /\ IF IsChat THEN AppendThen("receipt") /\ UNCHANGED appended
         ELSE append' = NoAppend /\ Succeed
      /\ UNCHANGED <<logs, logStat, logEdits, histories, sealed, sectorCopies, turnReceipts,
                     fingerprint, appends, appendFaults, misled>>
  BY DEF DiscardCopy, AppendAt, editVars, sectorFiles, toldVars, appendLimits
<1>2. log \in Logs /\ TurnKept(log, append.version)
  BY <1>1 DEF AppendInvariant, AppendFits
<1>3. CASE IsChat
  BY <1>1, <1>3, LaterStep, UsualTypes, AppendMoves DEF BackupFits, HasCopy, AppendAt
<1>4. CASE ~IsChat
  BY <1>1, <1>4, <1>2, UsualTypes, OverFits, NoAppendTyped, AppendMoves DEF Succeed,
     thisVersion
<1> QED
  BY <1>3, <1>4

LEMMA WriteAppendReceiptKeeps == AppendInvariant /\ WriteAppendReceipt => AppendInvariant'
<1> SUFFICES ASSUME AppendInvariant, WriteAppendReceipt PROVE AppendInvariant'
  OBVIOUS
<1>1. /\ append.step = "receipt" /\ turnReceipts' = turnReceipts \cup {<<log, append.version>>}
      /\ IF IsChat THEN append' = NoAppend /\ Succeed
         ELSE AppendThen("record") /\ UNCHANGED appended
      /\ UNCHANGED <<logs, logStat, logEdits, histories, sealed, sectorCopies,
                     fingerprint, appends, appendFaults, misled>>
  BY DEF WriteAppendReceipt, thisVersion, AppendAt, editVars, sectorFiles, appendLimits
<1>2. log \in Logs /\ TurnKept(log, append.version)
  BY <1>1 DEF AppendInvariant, AppendFits
<1>3. /\ turnReceipts' \subseteq Logs \X LogVersions
      /\ \A r \in turnReceipts' \ turnReceipts : r[1] = log /\ TurnKept(r[1], r[2])
  BY <1>1, <1>2, UsualTypes
<1>4. CASE ~IsChat
  BY <1>1, <1>4, LaterStep, <1>3, BackupStays, UsualTypes, AppendMoves DEF HasCopy, Told,
     AppendAt
<1>5. CASE IsChat
  BY <1>1, <1>5, <1>2, UsualTypes, <1>3, OverFits, NoAppendTyped, AppendMoves DEF Succeed,
     thisVersion
<1> QED
  BY <1>4, <1>5

-----------------------------------------------------------------------------
(* An append that does not end well.                                       *)

LEMMA AppendFaultMoves ==
    ASSUME AppendInvariant, AppendFault
    PROVE  /\ append' = NoAppend /\ appendFaults' \in 0..MaxAppendFaults
           /\ UNCHANGED <<logs, logStat, logEdits, turnReceipts, fingerprint, appends, appended>>
           /\ append.step # "idle" /\ log \in Logs /\ itsHistory \in Histories
<1>1. /\ append.step # "idle" /\ appendFaults < MaxAppendFaults
      /\ appendFaults' = appendFaults + 1 /\ append' = NoAppend
      /\ UNCHANGED <<logs, logStat, logEdits, turnReceipts, fingerprint, appends, appended>>
  BY DEF AppendFault, AppendAt, editVars, toldVars
<1>2. appendFaults' \in 0..MaxAppendFaults
  BY <1>1, UsualTypes, LineageAssumption
<1>3. log \in Logs /\ itsHistory \in Histories
  BY <1>1 DEF AppendInvariant, AppendFits, itsHistory, LogHistory, Histories
<1> QED
  BY <1>1, <1>2, <1>3

LEMMA RestoreHistoryKeeps == AppendInvariant /\ RestoreHistory => AppendInvariant'
<1> SUFFICES ASSUME AppendInvariant, RestoreHistory PROVE AppendInvariant'
  OBVIOUS
<1> DEFINE q == append.backup
<1>1. /\ AppendFault /\ HasCopy /\ histories' = [histories EXCEPT ![itsHistory] = q]
      /\ sealed' = sealed \cup {itsHistory}
      /\ misled' = (IF Told THEN misled \cup {log} ELSE misled)
      /\ sectorCopies' = sectorCopies
  BY DEF RestoreHistory
<1>2. /\ append' = NoAppend /\ appendFaults' \in 0..MaxAppendFaults
      /\ UNCHANGED <<logs, logStat, logEdits, turnReceipts, fingerprint, appends, appended>>
      /\ log \in Logs /\ itsHistory \in Histories
  BY <1>1, AppendFaultMoves
<1>3. AppendTypeOK /\ StatsFit /\ FingerprintsFit /\ TurnsFit /\ BackupFits
  BY DEF AppendInvariant
<1>4. q \in Seq(LogTurns)
  BY UsualTypes
<1>5. /\ \A s \in Logs : LogHistory(s) = itsHistory => HistoryFits(q, s)
      /\ \A v \in appended : LogHistory(v[1]) = itsHistory => KeptIn(q, v[1], v[2])
      /\ \A s \in Logs \ misled :
             LogHistory(s) = itsHistory /\ fingerprint[s] # Unseen /\ ~(Told /\ s = log) =>
                 KeptIn(q, s, fingerprint[s].version)
      /\ \A r \in turnReceipts :
             LogHistory(r[1]) = itsHistory /\ r[1] \notin misled /\ ~(Told /\ r[1] = log) =>
                 KeptIn(q, r[1], r[2])
  BY <1>1, <1>3 DEF BackupFits
<1> HIDE DEF q
<1>6. /\ histories' \in [Histories -> Seq(LogTurns)] /\ histories'[itsHistory] = q
      /\ \A h \in Histories \ {itsHistory} : histories'[h] = histories[h]
  BY <1>1, <1>2, <1>3, <1>4 DEF AppendTypeOK
<1>7. \A s \in Logs : LogHistory(s) \in Histories
  BY DEF LogHistory, Histories
<1>8. misled \subseteq misled' /\ (Told => log \in misled')
  BY <1>1
<1>9. AppendTypeOK'
  BY <1>1, <1>2, UsualTypes, <1>3, <1>6, NoAppendTyped DEF AppendTypeOK
<1>10. StatsFit'
  BY <1>2, <1>3 DEF StatsFit
<1>11. ASSUME NEW s \in Logs, NEW v, TurnKept(s, v), LogHistory(s) = itsHistory => KeptIn(q, s, v)
       PROVE  TurnKept(s, v)'
  BY <1>6, <1>7, <1>11 DEF TurnKept
<1>12. FingerprintsFit'
  BY <1>2, <1>3, <1>8, <1>5, <1>6, <1>7 DEF FingerprintsFit, TurnKept
<1>13. TurnsFit'
  BY <1>3, <1>5, <1>6, <1>7, <1>2, UsualTypes, <1>11, <1>8 DEF TurnsFit, AppendedIsKept,
     ReceiptsAreTrue
<1> QED
  BY <1>2, <1>9, <1>10, <1>12, <1>13, OverFits DEF AppendInvariant

LEMMA OtherFaultsKeep ==
    AppendInvariant /\ (FailReceipt \/ FailBeforeCopy \/ CrashAppend) => AppendInvariant'
<1> SUFFICES ASSUME AppendInvariant, FailReceipt \/ FailBeforeCopy \/ CrashAppend
             PROVE  AppendInvariant'
  OBVIOUS
<1>1. /\ AppendFault /\ histories' = histories /\ misled' = misled
      /\ sealed' = sealed \/ sealed' = sealed \ {itsHistory}
      /\ sectorCopies' = sectorCopies \/ sectorCopies' = sectorCopies \cup {itsHistory}
  BY DEF FailReceipt, FailBeforeCopy, CrashAppend, sectorFiles
<1>2. /\ append' = NoAppend /\ appendFaults' \in 0..MaxAppendFaults
      /\ UNCHANGED <<logs, logStat, logEdits, turnReceipts, fingerprint, appends, appended>>
      /\ log \in Logs /\ itsHistory \in Histories
  BY <1>1, AppendFaultMoves
<1>3. sealed' \subseteq Histories /\ sectorCopies' \subseteq Histories
  BY <1>1, <1>2, UsualTypes
<1> QED
  BY <1>1, <1>2, <1>3, OverFits, NoAppendTyped, UsualTypes, AppendMoves

-----------------------------------------------------------------------------
LEMMA AppendStepKeeps == AppendInvariant /\ [AppendNext]_appendVars => AppendInvariant'
<1> SUFFICES ASSUME AppendInvariant, [AppendNext]_appendVars PROVE AppendInvariant'
  OBVIOUS
<1>1. CASE \E s \in Logs : EditLog(s) \/ StartLogAppend(s)
  BY <1>1, EditLogKeeps, StartLogAppendKeeps
<1>2. CASE ReadLog \/ ProbeLog \/ SkipKnown \/ RefuseDiverged \/ AcceptNew
  BY <1>2, ReadLogKeeps, ProbeLogKeeps, SkipKnownKeeps, RefuseDivergedKeeps, AcceptNewKeeps
<1>3. CASE CopySector \/ CommitTurn \/ SealSector
  BY <1>3, CopySectorKeeps, CommitTurnKeeps, SealSectorKeeps
<1>4. CASE RecordLog \/ DiscardCopy \/ WriteAppendReceipt
  BY <1>4, RecordLogKeeps, DiscardCopyKeeps, WriteAppendReceiptKeeps
<1>5. CASE RestoreHistory \/ FailReceipt \/ FailBeforeCopy \/ CrashAppend
  BY <1>5, RestoreHistoryKeeps, OtherFaultsKeep
<1>6. CASE UNCHANGED appendVars
  <2>1. log' = log /\ itsHistory' = itsHistory /\ IsChat' = IsChat
    BY <1>6 DEF appendVars, log, itsHistory, IsChat
  <2>2. AppendTypeOK' /\ StatsFit' /\ FingerprintsFit' /\ TurnsFit'
    BY <1>6 DEF appendVars, AppendInvariant, AppendTypeOK, StatsFit, FingerprintsFit, TurnsFit,
       AppendedIsKept, ReceiptsAreTrue, TurnKept
  <2>3. AppendFits'
    BY <1>6, <2>1 DEF appendVars, AppendInvariant, AppendFits, StatIsTrue, TurnKept, Diverged,
       HasCursor, TurnsOf, Cursor
  <2>4. BackupFits'
    BY <1>6, <2>1 DEF appendVars, AppendInvariant, BackupFits, HasCopy, Told, AppendAt
  <2> QED
    BY <2>2, <2>3, <2>4 DEF AppendInvariant
<1> QED
  BY <1>1, <1>2, <1>3, <1>4, <1>5, <1>6 DEF AppendNext

\* AppendInvariant holds in every state of the appends.
THEOREM AppendInvariantCorrect == AppendSpec => []AppendInvariant
<1> QED
  BY AppendStart, AppendStepKeeps, PTL DEF AppendSpec

\* What was appended to the history of a brain is kept, once and whole
\* (env15_chat_lineage.py, env15_research.py).
THEOREM AppendsKept == AppendSpec => []AppendsAreKept
<1>1. AppendInvariant => AppendsAreKept
  BY DEF AppendInvariant, TurnsFit, HistoryFits, ChatsReassemble, LogHistory, Logs,
     NoVersionTwice, FingerprintsFit, UnchangedIsAppended, AppendsAreKept
<1> QED
  BY <1>1, AppendInvariantCorrect, PTL

-----------------------------------------------------------------------------
(* The build of a brain.                                                   *)

BuildingProducts == {"decide", "mmd", "render", "retire chatgpt", "chatgpt", "retire gemini",
                     "gemini", "check", "codex", "truth", "version", "complete"}

\* Steps of a build that still works on the sectors and the authority.
WorkingSteps == {"sources", "head", "pointers", "index", "dots", "diagram", "receipt"}

\* Where the products are remade from, and the archives have been made.
RedrawnSteps == {"retire chatgpt", "chatgpt", "retire gemini", "gemini", "check", "codex",
                 "truth", "version", "complete"}
DerivedSteps == {"check", "codex", "truth", "version", "complete"}

\* A build has a number, is in the pipeline when it is a full one, and has noted what it
\* changed: once its receipt is written the lanes are its own.
BuildFits ==
    /\ build.step # "idle" => builds \in 1..MaxBuilds
    /\ build.step \in {"validate"} \cup BuildingProducts => build.all
    /\ build.step # "idle" /\ build.all => stage = "RUNNING"
    /\ build.step \in {"validate", "enter"} => ~build.indexed /\ ~build.changed
    /\ build.reuse => build.step \in {"check", "truth", "version", "complete"}
    /\ build.step \in WorkingSteps /\ (build.indexed \/ build.changed) => unauthored /\ unpacked
    /\ build.step \in WorkingSteps /\ ~build.changed => activation = build.lanes
    /\ build.step \in {"mark"} \cup BuildingProducts => activation = build.lanes

\* The authority is of the brain as it is, or is being written part by part.
AuthorityFits ==
    /\ ~unauthored => /\ activation # Absent
                      /\ \A p \in AuthorityParts : authority[p] = PresentBrain
    /\ build.step \in AuthorityParts => unauthored
    /\ build.step \in {"pointers", "index", "dots"} => authority["head"] = Authored
    /\ build.step \in {"index", "dots"} => authority["pointers"] = Authored
    /\ build.step = "dots" => authority["index"] = Authored
    /\ build.step \in {"diagram", "receipt"} /\ (build.indexed \/ build.changed) =>
        \A p \in AuthorityParts : authority[p] = Authored

\* What a full build has made by each of its steps.
MadeSoFar ==
    /\ build.step \in RedrawnSteps /\ ~build.reuse => topology = Drawn
    /\ build.step \in {"retire gemini", "gemini"} =>
        /\ HasChatGPT
        /\ packages.chatgpt.of = PresentBrain /\ packages.chatgpt.topology = topology
    /\ build.step \in DerivedSteps =>
        /\ HasChatGPT => packages.chatgpt.topology = topology
        /\ packages.gemini # Absent
        /\ HasGemini => HasChatGPT
    /\ build.step \in DerivedSteps /\ ~build.reuse =>
        /\ HasChatGPT => packages.chatgpt.of = PresentBrain
        /\ HasGemini => /\ packages.gemini.of = PresentBrain
                        /\ packages.gemini.from = packages.chatgpt.id
    /\ build.step \in DerivedSteps \ {"check"} /\ HasGemini =>
        packages.gemini.from = packages.chatgpt.id
    /\ build.reuse => HasCodex /\ version # Absent
    /\ build.step \in {"truth", "version", "complete"} =>
        HasCodex /\ (~build.reuse => packages.codex.of = PresentBrain)
    /\ build.step \in {"version", "complete"} => truth = sectors
    /\ build.step = "complete" => version # Absent /\ (~build.reuse => version = PresentBrain)

\* The products of a pipeline that completed belong together.
Together ==
    stage = "COMPLETE" =>
        /\ HasGemini => /\ HasChatGPT
                        /\ packages.gemini.from = packages.chatgpt.id
        /\ packages.gemini # Absent /\ HasCodex /\ version # Absent
        /\ HasChatGPT => packages.chatgpt.topology.image = topology.image

\* They are those of the brain as it is until something changes.
CurrentProducts ==
    ~unpacked =>
        /\ activation # Absent /\ HasCodex
        /\ HasChatGPT => packages.chatgpt.of = PresentBrain
        /\ HasGemini => packages.gemini.of = PresentBrain
        /\ packages.codex.of = PresentBrain
        /\ version = PresentBrain
        /\ truth = sectors
        /\ topology = Drawn

\* Codex derives from ChatGPT but between the two.
ArchivesAreChained ==
    HasChatGPT /\ ~detached /\ ~BetweenPackages =>
        HasCodex /\ packages.codex.from = packages.chatgpt.id

BuildInvariant ==
    /\ BuildTypeOK
    /\ BuildFits
    /\ AuthorityFits
    /\ MadeSoFar
    /\ Together
    /\ CurrentProducts
    /\ ArchivesAreChained

BuildRecords == [step : BuildSteps, all : BOOLEAN, todo : SUBSET BuildSources,
                 lanes : SUBSET BuildSources, indexed : BOOLEAN, changed : BOOLEAN,
                 reuse : BOOLEAN, mode : UseModes]

LEMMA NoBuildFits ==
  /\ NoBuild \in BuildRecords
  /\ NoBuild.step = "idle" /\ ~NoBuild.all /\ ~NoBuild.indexed /\ ~NoBuild.changed
  /\ ~NoBuild.reuse
  BY BuildAssumption DEF NoBuild, BuildRecords, BuildSteps

\* What describes a brain whose receipt was written is something.
LEMMA PresentBrainIsSome ==
  ASSUME sectors \in Nat, activation \in SUBSET BuildSources
  PROVE  PresentBrain \in Described /\ PresentBrain # Absent
<1>1. PresentBrain \in Described
  BY DEF PresentBrain, Described, SectorStates
<1> QED
  BY <1>1, AbsentIsNone

\* The Codex archive that is made is one, of the ChatGPT package or of the brain.
LEMMA CodexArchiveFits ==
  ASSUME BuildInvariant, build.step = "codex"
  PROVE  /\ CodexArchive \in DerivedPackage /\ CodexArchive # Absent
         /\ HasChatGPT => /\ CodexArchive.of = packages.chatgpt.of
                          /\ CodexArchive.from = packages.chatgpt.id
         /\ ~HasChatGPT => CodexArchive.of = PresentBrain
<1>1. PresentBrain \in Described
  BY PresentBrainIsSome DEF BuildInvariant, BuildTypeOK, SectorStates, BuildFits,
     BuildingProducts
<1>2. CASE HasChatGPT
  BY <1>2, BuildAssumption, AbsentIsNone DEF BuildInvariant, BuildTypeOK, HasChatGPT,
     ChatGPTPackage, CodexArchive, DerivedPackage
<1>3. CASE ~HasChatGPT
  <2>1. 0 \in 0..MaxBuilds
    BY BuildAssumption
  <2> QED
    BY <1>1, <1>3, <2>1, AbsentIsNone DEF CodexArchive, DerivedPackage
<1> QED
  BY <1>2, <1>3

LEMMA EditRegisteredKeeps ==
  ASSUME BuildInvariant, NEW s \in BuildSources, EditRegistered(s)
  PROVE  BuildInvariant'
<1>1. BuildTypeOK'
  <2> QED
    BY BuildAssumption DEF BuildInvariant, BuildTypeOK, EditRegistered, countVars,
       historyVars, outcomeVars, productVars, BuildRecords
<1>2. BuildFits'
  BY DEF BuildInvariant, EditRegistered, countVars, historyVars, outcomeVars, BuildFits,
     BuildingProducts, WorkingSteps
<1>3. AuthorityFits'
  BY DEF BuildInvariant, EditRegistered, historyVars, outcomeVars, AuthorityFits, Authored,
     AuthorityParts, PresentBrain
<1>4. MadeSoFar'
  BY DEF BuildInvariant, EditRegistered, productVars, MadeSoFar, Drawn, HasChatGPT,
     HasCodex, HasGemini, PresentBrain
<1>5. Together'
  BY DEF BuildInvariant, EditRegistered, outcomeVars, productVars, Together, HasChatGPT,
     HasCodex, HasGemini
<1>6. CurrentProducts'
  BY DEF BuildInvariant, EditRegistered, historyVars, productVars, CurrentProducts, Drawn,
     HasChatGPT, HasCodex, HasGemini, PresentBrain
<1>7. ArchivesAreChained'
  BY DEF BuildInvariant, EditRegistered, historyVars, productVars, ArchivesAreChained,
     BetweenPackages, HasChatGPT, HasCodex
<1> QED
  BY <1>1, <1>2, <1>3, <1>4, <1>5, <1>6, <1>7 DEF BuildInvariant

LEMMA ChooseSourceKeeps ==
  ASSUME BuildInvariant, NEW s \in BuildSources, ChooseSource(s)
  PROVE  BuildInvariant'
<1>1. BuildTypeOK'
  <2> QED
    BY BuildAssumption DEF BuildInvariant, BuildTypeOK, ChooseSource, countVars,
       historyVars, outcomeVars, productVars, sectorVars, BuildRecords
<1>2. BuildFits'
  BY DEF BuildInvariant, ChooseSource, BuildAt, BuildFits, WorkingSteps
<1>3. AuthorityFits'
  BY DEF BuildInvariant, ChooseSource, BuildAt, historyVars, sectorVars, AuthorityFits,
     PresentBrain
<1>4. MadeSoFar'
  BY DEF BuildInvariant, ChooseSource, productVars, sectorVars, MadeSoFar, Drawn,
     HasChatGPT, HasCodex, HasGemini, PresentBrain
<1>5. Together'
  BY DEF BuildInvariant, ChooseSource, outcomeVars, productVars, Together, HasChatGPT,
     HasCodex, HasGemini
<1>6. CurrentProducts'
  BY DEF BuildInvariant, ChooseSource, historyVars, productVars, sectorVars,
     CurrentProducts, Drawn, HasChatGPT, HasCodex, HasGemini, PresentBrain
<1>7. ArchivesAreChained'
  BY DEF BuildInvariant, ChooseSource, historyVars, productVars, ArchivesAreChained,
     BetweenPackages,
     HasChatGPT, HasCodex
<1> QED
  BY <1>1, <1>2, <1>3, <1>4, <1>5, <1>6, <1>7 DEF BuildInvariant

LEMMA IndexSourceKeeps ==
  ASSUME BuildInvariant, NEW s \in BuildSources, IndexSource(s)
  PROVE  BuildInvariant'
<1>1. BuildTypeOK'
  <2>1. build' \in BuildRecords
    BY DEF BuildInvariant, BuildTypeOK, IndexSource, BuildRecords
  <2>2. UNCHANGED <<chosenSources, sourceChanges, activation, authority, topology,
                     packages, version, truth, buildStatus, stage,
                     builds, buildFaults, detached>>
    BY DEF IndexSource, Touched, countVars, outcomeVars, productVars, sourceVars
  <2>3. /\ unindexed' \subseteq BuildSources /\ available' \subseteq BuildSources
        /\ sectors' \in SectorStates /\ shape' \in SectorStates
        /\ unauthored' \in BOOLEAN /\ unpacked' \in BOOLEAN
    BY BuildAssumption DEF BuildInvariant, BuildTypeOK, SectorStates, IndexSource, Touched
  <2> QED
    BY <2>1, <2>2, <2>3 DEF BuildInvariant, BuildTypeOK, BuildRecords
<1>2. BuildFits'
  BY AbsentIsNone, BuildAssumption DEF BuildInvariant, IndexSource, BuildAt, Touched,
     countVars, outcomeVars, BuildFits
<1>3. AuthorityFits'
  BY DEF IndexSource, BuildAt, Touched, countVars, AuthorityFits, Authored
<1>4. MadeSoFar'
  BY AbsentIsNone, BuildAssumption DEF BuildInvariant, IndexSource, BuildAt, productVars,
     MadeSoFar, DerivedSteps, HasCodex, RedrawnSteps, BuildTypeOK
<1>5. Together'
  BY DEF BuildInvariant, IndexSource, outcomeVars, productVars, Together, HasChatGPT,
     HasCodex, HasGemini
<1>6. CurrentProducts'
  BY DEF IndexSource, BuildAt, IsReference, Touched, CurrentProducts, Drawn
<1>7. ArchivesAreChained'
  BY DEF BuildInvariant, IndexSource, BuildAt, Touched, productVars, ArchivesAreChained,
     BetweenPackages, HasChatGPT, HasCodex
<1> QED
  BY <1>1, <1>2, <1>3, <1>4, <1>5, <1>6, <1>7 DEF BuildInvariant

LEMMA SkipSourceKeeps ==
  ASSUME BuildInvariant, NEW s \in BuildSources, SkipSource(s)
  PROVE  BuildInvariant'
<1>1. BuildTypeOK'
  BY BuildAssumption DEF BuildInvariant, BuildTypeOK, SkipSource, BuildRecords, brainVars,
     countVars, historyVars, outcomeVars, productVars, sectorVars, sourceVars
<1>2. BuildFits'
  BY AbsentIsNone, BuildAssumption DEF BuildInvariant, SkipSource, brainVars, countVars,
     historyVars, outcomeVars, BuildFits, BuildTypeOK
<1>3. AuthorityFits'
  BY DEF BuildInvariant, SkipSource, BuildAt, brainVars, historyVars, sectorVars,
     AuthorityFits, PresentBrain
<1>4. MadeSoFar'
  BY AbsentIsNone, BuildAssumption DEF BuildInvariant, SkipSource, BuildAt, MadeSoFar,
     DerivedSteps, RedrawnSteps, BuildFits, BuildTypeOK
<1>5. Together'
  BY DEF BuildInvariant, SkipSource, outcomeVars, productVars, Together, HasChatGPT,
     HasCodex, HasGemini
<1>6. CurrentProducts'
  BY DEF BuildInvariant, SkipSource, brainVars, historyVars, productVars, sectorVars,
     CurrentProducts, Drawn, HasChatGPT, HasCodex, HasGemini, PresentBrain
<1>7. ArchivesAreChained'
  BY DEF BuildInvariant, SkipSource, BuildAt, historyVars, productVars, ArchivesAreChained,
     BetweenPackages, HasChatGPT, HasCodex
<1> QED
  BY <1>1, <1>2, <1>3, <1>4, <1>5, <1>6, <1>7 DEF BuildInvariant

LEMMA ReferenceSourceKeeps ==
  ASSUME BuildInvariant, NEW s \in BuildSources, ReferenceSource(s)
  PROVE  BuildInvariant'
<1>1. BuildTypeOK'
  BY BuildAssumption DEF BuildInvariant, BuildTypeOK, ReferenceSource, BuildRecords,
     Touched, countVars, outcomeVars, productVars, sourceVars, SectorStates
<1>2. BuildFits'
  BY AbsentIsNone, BuildAssumption DEF BuildInvariant, ReferenceSource, Touched, countVars,
     outcomeVars, BuildFits
<1>3. AuthorityFits'
  BY DEF ReferenceSource, BuildAt, Touched, countVars, AuthorityFits, Authored
<1>4. MadeSoFar'
  BY AbsentIsNone, BuildAssumption DEF BuildInvariant, ReferenceSource, BuildAt,
     productVars, MadeSoFar, DerivedSteps, HasCodex, RedrawnSteps, BuildTypeOK
<1>5. Together'
  BY DEF BuildInvariant, ReferenceSource, outcomeVars, productVars, Together, HasChatGPT,
     HasCodex, HasGemini
<1>6. CurrentProducts'
  BY DEF ReferenceSource, BuildAt, IsReference, Touched, CurrentProducts, Drawn
<1>7. ArchivesAreChained'
  BY DEF BuildInvariant, ReferenceSource, BuildAt, Touched, productVars, ArchivesAreChained,
     BetweenPackages, HasChatGPT, HasCodex
<1> QED
  BY <1>1, <1>2, <1>3, <1>4, <1>5, <1>6, <1>7 DEF BuildInvariant

LEMMA StartBuildKeeps ==
  ASSUME BuildInvariant, NEW all \in BOOLEAN, NEW mode \in UseModes, StartBuild(all, mode)
  PROVE  BuildInvariant'
<1>1. BuildTypeOK'
  <2>1. build' \in BuildRecords
    BY NoBuildFits DEF BuildInvariant, BuildTypeOK, StartBuild, SourcesForBuild,
       BuildRecords, BuildSteps
  <2> QED
    BY BuildAssumption, <2>1 DEF BuildInvariant, BuildTypeOK, StartBuild, brainVars,
       historyVars, productVars, sectorVars, sourceVars, BuildRecords
<1>2. BuildFits'
  <2>1. /\ build'.step \in {"validate", "enter"} /\ ~build'.indexed /\ ~build'.changed
        /\ ~build'.reuse /\ build'.all = all /\ (build'.step = "validate" => all)
    BY NoBuildFits DEF StartBuild, BuildRecords
  <2>2. builds' \in 1..MaxBuilds /\ (all => stage' = "RUNNING")
    BY BuildAssumption DEF BuildInvariant, BuildTypeOK, StartBuild
  <2> QED
    BY <2>1, <2>2 DEF BuildFits, BuildingProducts, WorkingSteps
<1>3. AuthorityFits'
  BY NoBuildFits DEF BuildInvariant, StartBuild, brainVars, historyVars, sectorVars,
     AuthorityFits, AuthorityParts, PresentBrain
<1>4. MadeSoFar'
  BY NoBuildFits DEF StartBuild, MadeSoFar, DerivedSteps, RedrawnSteps
<1>5. Together'
  BY NoBuildFits DEF BuildInvariant, StartBuild, BuildAt, productVars, Together,
     HasChatGPT, HasCodex, HasGemini
<1>6. CurrentProducts'
  BY NoBuildFits DEF BuildInvariant, StartBuild, brainVars, historyVars, productVars,
     sectorVars, CurrentProducts, Drawn, HasChatGPT, HasCodex, HasGemini, PresentBrain
<1>7. ArchivesAreChained'
  BY NoBuildFits DEF BuildInvariant, StartBuild, BuildAt, historyVars, productVars,
     ArchivesAreChained, BetweenPackages, HasChatGPT, HasCodex
<1> QED
  BY <1>1, <1>2, <1>3, <1>4, <1>5, <1>6, <1>7 DEF BuildInvariant

LEMMA ValidateSourcesKeeps ==
  ASSUME BuildInvariant, ValidateSources
  PROVE  BuildInvariant'
<1>1. BuildTypeOK'
  <2>1. build' \in BuildRecords
    BY DEF BuildInvariant, BuildTypeOK, ValidateSources, BuildThen, BuildRecords,
       BuildSteps
  <2> QED
    BY BuildAssumption, <2>1 DEF BuildInvariant, BuildTypeOK, ValidateSources, brainVars,
       countVars, historyVars, outcomeVars, productVars, sectorVars, sourceVars,
       BuildRecords
<1>2. BuildFits'
  BY DEF BuildInvariant, ValidateSources, BuildAt, BuildThen, countVars, outcomeVars,
     BuildFits, BuildingProducts, WorkingSteps
<1>3. AuthorityFits'
  BY DEF BuildInvariant, ValidateSources, BuildThen, brainVars, historyVars, sectorVars,
     AuthorityFits, AuthorityParts, PresentBrain
<1>4. MadeSoFar'
  BY DEF BuildInvariant, ValidateSources, BuildAt, BuildThen, productVars, MadeSoFar,
     DerivedSteps, HasCodex, RedrawnSteps
<1>5. Together'
  BY DEF BuildInvariant, ValidateSources, outcomeVars, productVars, Together, HasChatGPT,
     HasCodex, HasGemini
<1>6. CurrentProducts'
  BY DEF BuildInvariant, ValidateSources, brainVars, historyVars, productVars, sectorVars,
     CurrentProducts, Drawn, HasChatGPT, HasCodex, HasGemini, PresentBrain
<1>7. ArchivesAreChained'
  BY DEF BuildInvariant, ValidateSources, BuildAt, historyVars, productVars,
     ArchivesAreChained,
     BetweenPackages, HasChatGPT, HasCodex
<1> QED
  BY <1>1, <1>2, <1>3, <1>4, <1>5, <1>6, <1>7 DEF BuildInvariant

LEMMA EnterBuildKeeps ==
  ASSUME BuildInvariant, EnterBuild
  PROVE  BuildInvariant'
<1>1. BuildTypeOK'
  <2>1. build' \in BuildRecords
    BY DEF BuildInvariant, BuildTypeOK, EnterBuild, BuildRecords, BuildSteps
  <2>2. UNCHANGED <<chosenSources, sourceChanges, unindexed, available, sectors, shape,
                     activation, authority, topology, packages,
                     version, truth, buildStatus, stage, builds,
                     buildFaults>>
    BY DEF EnterBuild, brainVars, countVars, outcomeVars, productVars, sectorVars,
       sourceVars
  <2>3. unauthored' \in BOOLEAN /\ unpacked' \in BOOLEAN /\ detached' \in BOOLEAN
    BY BuildAssumption DEF BuildInvariant, BuildTypeOK, EnterBuild, Touched, historyVars
  <2> QED
    BY <2>1, <2>2, <2>3 DEF BuildInvariant, BuildTypeOK, BuildRecords
<1>2. BuildFits'
  BY AbsentIsNone, BuildAssumption DEF BuildInvariant, EnterBuild, BuildAt, Touched,
     brainVars, countVars, outcomeVars, BuildFits, BuildingProducts, BuildTypeOK
<1>3. AuthorityFits'
  BY DEF BuildInvariant, EnterBuild, Touched, brainVars, historyVars, sectorVars,
     AuthorityFits, AuthorityParts, PresentBrain
<1>4. MadeSoFar'
  BY DEF BuildInvariant, EnterBuild, BuildAt, productVars, MadeSoFar, DerivedSteps,
     HasCodex, RedrawnSteps
<1>5. Together'
  BY DEF BuildInvariant, EnterBuild, outcomeVars, productVars, Together, HasChatGPT,
     HasCodex, HasGemini
<1>6. CurrentProducts'
  BY DEF BuildInvariant, EnterBuild, Touched, brainVars, historyVars, productVars,
     sectorVars, CurrentProducts, Drawn, HasChatGPT, HasCodex, HasGemini, PresentBrain
<1>7. ArchivesAreChained'
  BY DEF BuildInvariant, EnterBuild, BuildAt, Touched, historyVars, productVars,
     ArchivesAreChained,
     BetweenPackages, HasChatGPT, HasCodex
<1> QED
  BY <1>1, <1>2, <1>3, <1>4, <1>5, <1>6, <1>7 DEF BuildInvariant

LEMMA EndOfSourcesKeeps ==
  ASSUME BuildInvariant, EndOfSources
  PROVE  BuildInvariant'
<1>1. BuildTypeOK'
  <2>1. build' \in BuildRecords
    BY DEF BuildInvariant, BuildTypeOK, EndOfSources, BuildThen, BuildRecords, BuildSteps
  <2> QED
    BY BuildAssumption, <2>1 DEF BuildInvariant, BuildTypeOK, EndOfSources, brainVars,
       countVars, historyVars, outcomeVars, productVars, sectorVars, sourceVars,
       BuildRecords
<1>2. BuildFits'
  BY DEF BuildInvariant, EndOfSources, BuildAt, BuildThen, brainVars, countVars,
     historyVars, outcomeVars, BuildFits, BuildingProducts, WorkingSteps
<1>3. AuthorityFits'
  <2>1. authority["index"] = Absent => unauthored
    BY PresentBrainIsSome DEF BuildInvariant, BuildTypeOK, AuthorityFits, SectorStates,
       AuthorityParts
  <2> QED
    BY <2>1 DEF BuildInvariant, EndOfSources, BuildAt, BuildThen, FinalizeNeeded,
       brainVars, sectorVars, historyVars, AuthorityFits, AuthorityParts, PresentBrain,
       BuildFits, WorkingSteps
<1>4. MadeSoFar'
  BY DEF BuildInvariant, EndOfSources, BuildAt, BuildThen, productVars, MadeSoFar,
     DerivedSteps, HasCodex, RedrawnSteps
<1>5. Together'
  BY DEF BuildInvariant, EndOfSources, outcomeVars, productVars, Together, HasChatGPT,
     HasCodex, HasGemini
<1>6. CurrentProducts'
  BY DEF BuildInvariant, EndOfSources, brainVars, historyVars, productVars, sectorVars,
     CurrentProducts, Drawn, HasChatGPT, HasCodex, HasGemini, PresentBrain
<1>7. ArchivesAreChained'
  BY DEF BuildInvariant, EndOfSources, BuildAt, historyVars, productVars, ArchivesAreChained,
     BetweenPackages, HasChatGPT, HasCodex
<1> QED
  BY <1>1, <1>2, <1>3, <1>4, <1>5, <1>6, <1>7 DEF BuildInvariant

LEMMA WriteHeadKeeps ==
  ASSUME BuildInvariant, WriteHead
  PROVE  BuildInvariant'
<1>1. BuildTypeOK'
  <2>1. build' \in BuildRecords
    BY DEF BuildInvariant, BuildTypeOK, WriteHead, WriteAuthority, BuildThen, BuildRecords,
       BuildSteps
  <2>2. authority' \in [AuthorityParts -> Described \cup {Absent}]
    BY DEF BuildInvariant, BuildTypeOK, WriteHead, WriteAuthority, Authored, Described,
       SectorStates
  <2> QED
    BY BuildAssumption, <2>1, <2>2 DEF BuildInvariant, BuildTypeOK, WriteHead,
       WriteAuthority, countVars, historyVars, outcomeVars, productVars, sectorVars,
       sourceVars, BuildRecords
<1>2. BuildFits'
  BY DEF BuildInvariant, WriteHead, WriteAuthority, BuildAt, BuildThen, countVars,
     historyVars, outcomeVars, BuildFits, BuildingProducts, WorkingSteps
<1>3. AuthorityFits'
  BY AbsentIsNone, BuildAssumption DEF BuildInvariant, WriteHead, WriteAuthority, Authored,
     BuildAt, BuildThen, historyVars, sectorVars, AuthorityFits, AuthorityParts,
     BuildTypeOK
<1>4. MadeSoFar'
  BY DEF BuildInvariant, WriteHead, WriteAuthority, BuildAt, BuildThen, productVars,
     MadeSoFar, DerivedSteps, HasCodex, RedrawnSteps
<1>5. Together'
  BY DEF BuildInvariant, WriteHead, WriteAuthority, outcomeVars, productVars, Together,
     HasChatGPT, HasCodex, HasGemini
<1>6. CurrentProducts'
  BY DEF BuildInvariant, WriteHead, WriteAuthority, historyVars, productVars, sectorVars,
     CurrentProducts, Drawn, HasChatGPT, HasCodex, HasGemini, PresentBrain
<1>7. ArchivesAreChained'
  BY DEF BuildInvariant, WriteHead, WriteAuthority, BuildAt, historyVars, productVars,
     ArchivesAreChained, BetweenPackages, HasChatGPT, HasCodex
<1> QED
  BY <1>1, <1>2, <1>3, <1>4, <1>5, <1>6, <1>7 DEF BuildInvariant

LEMMA WritePointersKeeps ==
  ASSUME BuildInvariant, WritePointers
  PROVE  BuildInvariant'
<1>1. BuildTypeOK'
  <2>1. build' \in BuildRecords
    BY DEF BuildInvariant, BuildTypeOK, WritePointers, WriteAuthority, BuildThen,
       BuildRecords, BuildSteps
  <2>2. authority' \in [AuthorityParts -> Described \cup {Absent}]
    BY DEF BuildInvariant, BuildTypeOK, WritePointers, WriteAuthority, Authored, Described,
       SectorStates
  <2> QED
    BY BuildAssumption, <2>1, <2>2 DEF BuildInvariant, BuildTypeOK, WritePointers,
       WriteAuthority, countVars, historyVars, outcomeVars, productVars, sectorVars,
       sourceVars, BuildRecords
<1>2. BuildFits'
  BY DEF BuildInvariant, WritePointers, WriteAuthority, BuildAt, BuildThen, countVars,
     historyVars, outcomeVars, BuildFits, BuildingProducts, WorkingSteps
<1>3. AuthorityFits'
  BY AbsentIsNone, BuildAssumption DEF BuildInvariant, WritePointers, WriteAuthority,
     Authored, BuildAt, BuildThen, historyVars, sectorVars, AuthorityFits, AuthorityParts,
     BuildTypeOK
<1>4. MadeSoFar'
  BY DEF BuildInvariant, WritePointers, WriteAuthority, BuildAt, BuildThen, productVars,
     MadeSoFar, DerivedSteps, HasCodex, RedrawnSteps
<1>5. Together'
  BY DEF BuildInvariant, WritePointers, WriteAuthority, outcomeVars, productVars, Together,
     HasChatGPT, HasCodex, HasGemini
<1>6. CurrentProducts'
  BY DEF BuildInvariant, WritePointers, WriteAuthority, historyVars, productVars,
     sectorVars, CurrentProducts, Drawn, HasChatGPT, HasCodex, HasGemini, PresentBrain
<1>7. ArchivesAreChained'
  BY DEF BuildInvariant, WritePointers, WriteAuthority, BuildAt, historyVars, productVars,
     ArchivesAreChained, BetweenPackages, HasChatGPT, HasCodex
<1> QED
  BY <1>1, <1>2, <1>3, <1>4, <1>5, <1>6, <1>7 DEF BuildInvariant

LEMMA WriteIndexKeeps ==
  ASSUME BuildInvariant, WriteIndex
  PROVE  BuildInvariant'
<1>1. BuildTypeOK'
  <2>1. build' \in BuildRecords
    BY DEF BuildInvariant, BuildTypeOK, WriteIndex, WriteAuthority, BuildThen,
       BuildRecords, BuildSteps
  <2>2. authority' \in [AuthorityParts -> Described \cup {Absent}]
    BY DEF BuildInvariant, BuildTypeOK, WriteIndex, WriteAuthority, Authored, Described,
       SectorStates
  <2> QED
    BY BuildAssumption, <2>1, <2>2 DEF BuildInvariant, BuildTypeOK, WriteIndex,
       WriteAuthority, countVars, historyVars, outcomeVars, productVars, sectorVars,
       sourceVars, BuildRecords
<1>2. BuildFits'
  BY DEF BuildInvariant, WriteIndex, WriteAuthority, BuildAt, BuildThen, countVars,
     historyVars, outcomeVars, BuildFits, BuildingProducts, WorkingSteps
<1>3. AuthorityFits'
  BY AbsentIsNone, BuildAssumption DEF BuildInvariant, WriteIndex, WriteAuthority,
     Authored, BuildAt, BuildThen, historyVars, sectorVars, AuthorityFits, AuthorityParts,
     BuildTypeOK
<1>4. MadeSoFar'
  BY DEF BuildInvariant, WriteIndex, WriteAuthority, BuildAt, BuildThen, productVars,
     MadeSoFar, DerivedSteps, HasCodex, RedrawnSteps
<1>5. Together'
  BY DEF BuildInvariant, WriteIndex, WriteAuthority, outcomeVars, productVars, Together,
     HasChatGPT, HasCodex, HasGemini
<1>6. CurrentProducts'
  BY DEF BuildInvariant, WriteIndex, WriteAuthority, historyVars, productVars, sectorVars,
     CurrentProducts, Drawn, HasChatGPT, HasCodex, HasGemini, PresentBrain
<1>7. ArchivesAreChained'
  BY DEF BuildInvariant, WriteIndex, WriteAuthority, BuildAt, historyVars, productVars,
     ArchivesAreChained, BetweenPackages, HasChatGPT, HasCodex
<1> QED
  BY <1>1, <1>2, <1>3, <1>4, <1>5, <1>6, <1>7 DEF BuildInvariant

LEMMA WriteDotsKeeps ==
  ASSUME BuildInvariant, WriteDots
  PROVE  BuildInvariant'
<1>1. BuildTypeOK'
  <2>1. build' \in BuildRecords
    BY DEF BuildInvariant, BuildTypeOK, WriteDots, WriteAuthority, BuildThen, BuildRecords,
       BuildSteps
  <2>2. authority' \in [AuthorityParts -> Described \cup {Absent}]
    BY DEF BuildInvariant, BuildTypeOK, WriteDots, WriteAuthority, Authored, Described,
       SectorStates
  <2> QED
    BY BuildAssumption, <2>1, <2>2 DEF BuildInvariant, BuildTypeOK, WriteDots,
       WriteAuthority, countVars, historyVars, outcomeVars, productVars, sectorVars,
       sourceVars, BuildRecords
<1>2. BuildFits'
  BY DEF BuildInvariant, WriteDots, WriteAuthority, BuildAt, BuildThen, countVars,
     historyVars, outcomeVars, BuildFits, BuildingProducts, WorkingSteps
<1>3. AuthorityFits'
  BY AbsentIsNone, BuildAssumption DEF BuildInvariant, WriteDots, WriteAuthority, Authored,
     BuildAt, BuildThen, historyVars, sectorVars, AuthorityFits, AuthorityParts,
     BuildTypeOK
<1>4. MadeSoFar'
  BY DEF BuildInvariant, WriteDots, WriteAuthority, BuildAt, BuildThen, productVars,
     MadeSoFar, DerivedSteps, HasCodex, RedrawnSteps
<1>5. Together'
  BY DEF BuildInvariant, WriteDots, WriteAuthority, outcomeVars, productVars, Together,
     HasChatGPT, HasCodex, HasGemini
<1>6. CurrentProducts'
  BY DEF BuildInvariant, WriteDots, WriteAuthority, historyVars, productVars, sectorVars,
     CurrentProducts, Drawn, HasChatGPT, HasCodex, HasGemini, PresentBrain
<1>7. ArchivesAreChained'
  BY DEF BuildInvariant, WriteDots, WriteAuthority, BuildAt, historyVars, productVars,
     ArchivesAreChained, BetweenPackages, HasChatGPT, HasCodex
<1> QED
  BY <1>1, <1>2, <1>3, <1>4, <1>5, <1>6, <1>7 DEF BuildInvariant

LEMMA DrawDiagramKeeps ==
  ASSUME BuildInvariant, DrawDiagram
  PROVE  BuildInvariant'
<1>1. BuildTypeOK'
  <2>1. build' \in BuildRecords
    BY DEF BuildInvariant, BuildTypeOK, DrawDiagram, BuildThen, BuildRecords, BuildSteps
  <2>2. topology' \in Diagram
    BY DEF BuildInvariant, BuildTypeOK, DrawDiagram, Diagram
  <2> QED
    BY BuildAssumption, <2>1, <2>2 DEF BuildInvariant, BuildTypeOK, DrawDiagram, brainVars,
       countVars, historyVars, outcomeVars, sectorVars, sourceVars, BuildRecords
<1>2. BuildFits'
  BY DEF BuildInvariant, DrawDiagram, BuildAt, BuildThen, brainVars, countVars,
     historyVars, outcomeVars, BuildFits, BuildingProducts, WorkingSteps
<1>3. AuthorityFits'
  BY DEF BuildInvariant, DrawDiagram, BuildAt, BuildThen, brainVars, historyVars,
     sectorVars, AuthorityFits, Authored, AuthorityParts, PresentBrain
<1>4. MadeSoFar'
  BY DEF BuildInvariant, DrawDiagram, BuildAt, BuildThen, MadeSoFar, DerivedSteps,
     HasCodex, RedrawnSteps
<1>5. Together'
  BY DEF BuildInvariant, DrawDiagram, outcomeVars, Together, HasChatGPT, HasCodex,
     HasGemini
<1>6. CurrentProducts'
  BY DEF BuildInvariant, DrawDiagram, brainVars, historyVars, sectorVars, CurrentProducts,
     Drawn, HasChatGPT, HasCodex, HasGemini, PresentBrain
<1>7. ArchivesAreChained'
  BY DEF BuildInvariant, DrawDiagram, BuildAt, historyVars, ArchivesAreChained,
     BetweenPackages,
     HasChatGPT, HasCodex
<1> QED
  BY <1>1, <1>2, <1>3, <1>4, <1>5, <1>6, <1>7 DEF BuildInvariant

LEMMA WriteReceiptKeeps ==
  ASSUME BuildInvariant, WriteReceipt
  PROVE  BuildInvariant'
<1>1. BuildTypeOK'
  <2>1. build' \in BuildRecords
    BY DEF BuildInvariant, BuildTypeOK, WriteReceipt, BuildThen, BuildRecords, BuildSteps
  <2> QED
    BY BuildAssumption, <2>1 DEF BuildInvariant, BuildTypeOK, WriteReceipt, LaneActivation,
       countVars, outcomeVars, productVars, sectorVars, sourceVars, BuildRecords
<1>2. BuildFits'
  BY DEF BuildInvariant, WriteReceipt, BuildAt, BuildThen, LaneActivation, countVars,
     outcomeVars, BuildFits, BuildingProducts, WorkingSteps
<1>3. AuthorityFits'
  BY AbsentIsNone, BuildAssumption DEF BuildInvariant, WriteReceipt, BuildAt, BuildThen,
     LaneActivation, sectorVars, AuthorityFits, Authored, AuthorityParts, PresentBrain,
     BuildFits, WorkingSteps, BuildTypeOK
<1>4. MadeSoFar'
  BY DEF BuildInvariant, WriteReceipt, BuildAt, BuildThen, productVars, MadeSoFar,
     DerivedSteps, HasCodex, RedrawnSteps
<1>5. Together'
  BY DEF BuildInvariant, WriteReceipt, outcomeVars, productVars, Together, HasChatGPT,
     HasCodex, HasGemini
<1>6. CurrentProducts'
  BY DEF BuildInvariant, WriteReceipt, BuildAt, LaneActivation, productVars, sectorVars,
     CurrentProducts, Drawn, HasChatGPT, HasCodex, HasGemini, PresentBrain, BuildFits,
     WorkingSteps
<1>7. ArchivesAreChained'
  BY DEF BuildInvariant, WriteReceipt, BuildAt, productVars, ArchivesAreChained,
     BetweenPackages,
     HasChatGPT, HasCodex
<1> QED
  BY <1>1, <1>2, <1>3, <1>4, <1>5, <1>6, <1>7 DEF BuildInvariant

LEMMA MarkBuiltKeeps ==
  ASSUME BuildInvariant, MarkBuilt
  PROVE  BuildInvariant'
<1>1. BuildTypeOK'
  <2>1. build' \in BuildRecords
    BY ZenonT(30), NoBuildFits DEF BuildInvariant, BuildTypeOK, MarkBuilt, BuildThen,
       BuildRecords,
       BuildSteps
  <2> QED
    BY <2>1 DEF BuildInvariant, BuildTypeOK, MarkBuilt, MarkSources, brainVars, sourceVars,
       sectorVars,
       productVars, countVars, historyVars, BuildRecords
<1>2. BuildFits'
  <2>1. CASE build.all
    BY <2>1 DEF BuildInvariant, BuildTypeOK, MarkBuilt, BuildAt, BuildThen, brainVars,
       countVars, BuildFits, WorkingSteps
  <2>2. CASE ~build.all
    BY <2>2, NoBuildFits DEF MarkBuilt, BuildFits, WorkingSteps, BuildingProducts
  <2> QED
    BY <2>1, <2>2
<1>3. AuthorityFits'
  BY NoBuildFits DEF BuildInvariant, BuildTypeOK, MarkBuilt, BuildThen, brainVars,
     sectorVars, historyVars, AuthorityFits, PresentBrain, AuthorityParts
<1>4. MadeSoFar'
  BY NoBuildFits DEF BuildInvariant, BuildTypeOK, MarkBuilt, BuildAt, BuildThen, MadeSoFar,
     RedrawnSteps, DerivedSteps, BuildFits, Drawn
<1>5. Together'
  BY NoBuildFits DEF BuildInvariant, MarkBuilt, productVars, Together, HasChatGPT,
     HasCodex, HasGemini
<1>6. CurrentProducts'
  BY NoBuildFits DEF BuildInvariant, MarkBuilt, brainVars, historyVars, productVars,
     sectorVars, CurrentProducts, Drawn, HasChatGPT, HasCodex, HasGemini, PresentBrain
<1>7. ArchivesAreChained'
  BY NoBuildFits DEF BuildInvariant, MarkBuilt, BuildAt, historyVars, productVars,
     ArchivesAreChained,
     BetweenPackages, HasChatGPT, HasCodex
<1> QED
  BY <1>1, <1>2, <1>3, <1>4, <1>5, <1>6, <1>7 DEF BuildInvariant

LEMMA DecideReuseKeeps ==
  ASSUME BuildInvariant, DecideReuse
  PROVE  BuildInvariant'
<1>1. BuildTypeOK'
  <2>1. build' \in BuildRecords
    BY DEF BuildInvariant, BuildTypeOK, DecideReuse, CodeIsLoaded, Reusable, BuildRecords,
       BuildSteps
  <2>2. UNCHANGED <<chosenSources, sourceChanges, unindexed, available, sectors, shape,
                     activation, authority, topology, packages,
                     version, truth, buildStatus, stage, builds,
                     buildFaults, unauthored, unpacked, detached>>
    BY DEF DecideReuse, brainVars, countVars, historyVars, outcomeVars, productVars,
       sectorVars, sourceVars
  <2> QED
    BY <2>1, <2>2 DEF BuildInvariant, BuildTypeOK, BuildRecords
<1>2. BuildFits'
  BY AbsentIsNone, BuildAssumption DEF BuildInvariant, DecideReuse, BuildAt, brainVars,
     countVars, outcomeVars, BuildFits, BuildingProducts, WorkingSteps, BuildTypeOK
<1>3. AuthorityFits'
  BY DEF BuildInvariant, DecideReuse, brainVars, historyVars, sectorVars, AuthorityFits,
     AuthorityParts, PresentBrain
<1>4. MadeSoFar'
  BY AbsentIsNone, BuildAssumption DEF BuildInvariant, DecideReuse, Reusable, productVars,
     ProductsAreThere, HasChatGPT, HasCodex, HasGemini, MadeSoFar, DerivedSteps,
     RedrawnSteps, BuildTypeOK
<1>5. Together'
  BY DEF BuildInvariant, DecideReuse, outcomeVars, productVars, HasChatGPT, HasCodex,
     HasGemini, Together
<1>6. CurrentProducts'
  BY DEF BuildInvariant, DecideReuse, brainVars, historyVars, productVars, sectorVars,
     HasChatGPT, HasCodex, HasGemini, CurrentProducts, Drawn, PresentBrain
<1>7. ArchivesAreChained'
  BY DEF BuildInvariant, DecideReuse, BuildAt, historyVars, productVars,
     AllSourcesUnchanged, HasChatGPT, HasCodex, HasGemini, ArchivesAreChained, BetweenPackages
<1> QED
  BY <1>1, <1>2, <1>3, <1>4, <1>5, <1>6, <1>7 DEF BuildInvariant

LEMMA GenerateMmdKeeps ==
  ASSUME BuildInvariant, GenerateMmd
  PROVE  BuildInvariant'
<1>1. BuildTypeOK'
  <2>1. build' \in BuildRecords
    BY DEF BuildInvariant, BuildTypeOK, GenerateMmd, BuildThen, BuildRecords, BuildSteps
  <2>2. topology' \in Diagram
    BY DEF BuildInvariant, BuildTypeOK, GenerateMmd, Diagram
  <2> QED
    BY BuildAssumption, <2>1, <2>2 DEF BuildInvariant, BuildTypeOK, GenerateMmd, brainVars,
       countVars, historyVars, outcomeVars, sectorVars, sourceVars, BuildRecords
<1>2. BuildFits'
  BY DEF BuildInvariant, GenerateMmd, BuildAt, BuildThen, brainVars, countVars,
     outcomeVars, BuildFits, BuildingProducts, WorkingSteps
<1>3. AuthorityFits'
  BY DEF BuildInvariant, GenerateMmd, BuildThen, brainVars, historyVars, sectorVars,
     AuthorityFits, AuthorityParts, PresentBrain
<1>4. MadeSoFar'
  BY DEF BuildInvariant, GenerateMmd, BuildAt, BuildThen, MadeSoFar, DerivedSteps,
     HasCodex, RedrawnSteps
<1>5. Together'
  BY DEF BuildInvariant, GenerateMmd, BuildAt, outcomeVars, Together, HasChatGPT, HasCodex,
     HasGemini
<1>6. CurrentProducts'
  BY DEF BuildInvariant, GenerateMmd, brainVars, historyVars, sectorVars, CurrentProducts,
     Drawn, HasChatGPT, HasCodex, HasGemini, PresentBrain
<1>7. ArchivesAreChained'
  BY DEF BuildInvariant, GenerateMmd, BuildAt, historyVars, ArchivesAreChained,
     BetweenPackages,
     HasChatGPT, HasCodex
<1> QED
  BY <1>1, <1>2, <1>3, <1>4, <1>5, <1>6, <1>7 DEF BuildInvariant

LEMMA RenderTopologyKeeps ==
  ASSUME BuildInvariant, RenderTopology
  PROVE  BuildInvariant'
<1>1. BuildTypeOK'
  <2>1. build' \in BuildRecords
    BY DEF BuildInvariant, BuildTypeOK, RenderTopology, BuildThen, BuildRecords, BuildSteps
  <2>2. UNCHANGED <<chosenSources, sourceChanges, unindexed, available, sectors, shape,
                     activation, authority, packages, version, truth,
                     buildStatus, stage, builds, buildFaults,
                     unauthored, unpacked, detached>>
    BY DEF RenderTopology, Drawn, brainVars, countVars, historyVars, outcomeVars,
       sectorVars, sourceVars
  <2>3. topology' \in Diagram
    BY BuildAssumption DEF BuildInvariant, BuildTypeOK, RenderTopology, Drawn, Diagram
  <2> QED
    BY <2>1, <2>2, <2>3 DEF BuildInvariant, BuildTypeOK, BuildRecords
<1>2. BuildFits'
  BY AbsentIsNone, BuildAssumption DEF BuildInvariant, RenderTopology, BuildAt, BuildThen,
     brainVars, countVars, outcomeVars, BuildFits, BuildingProducts, WorkingSteps,
     BuildTypeOK
<1>3. AuthorityFits'
  BY AbsentIsNone, BuildAssumption DEF BuildInvariant, RenderTopology, BuildThen,
     brainVars, historyVars, sectorVars, AuthorityFits, AuthorityParts, PresentBrain,
     BuildTypeOK
<1>4. MadeSoFar'
  BY AbsentIsNone, BuildAssumption DEF BuildInvariant, RenderTopology, BuildThen, Drawn,
     brainVars, sectorVars, MadeSoFar, DerivedSteps, HasCodex, BuildTypeOK
<1>5. Together'
  BY DEF BuildInvariant, RenderTopology, BuildAt, outcomeVars, Together, BuildFits,
     BuildingProducts
<1>6. CurrentProducts'
  BY DEF BuildInvariant, RenderTopology, Drawn, brainVars, historyVars, sectorVars,
     CurrentProducts, HasChatGPT, HasCodex, HasGemini, PresentBrain
<1>7. ArchivesAreChained'
  BY DEF BuildInvariant, RenderTopology, BuildAt, historyVars, ArchivesAreChained,
     BetweenPackages,
     HasChatGPT, HasCodex
<1> QED
  BY <1>1, <1>2, <1>3, <1>4, <1>5, <1>6, <1>7 DEF BuildInvariant

LEMMA RetireChatGPTKeeps ==
  ASSUME BuildInvariant, RetireChatGPT
  PROVE  BuildInvariant'
<1>1. BuildTypeOK'
  <2>1. build' \in BuildRecords
    BY DEF BuildInvariant, BuildTypeOK, RetireChatGPT, Package, BuildThen, BuildRecords,
       BuildSteps
  <2>2. DOMAIN packages' = Products
    BY DEF BuildInvariant, BuildTypeOK, RetireChatGPT, Package
  <2>3. packages'.chatgpt \in ChatGPTPackage \cup {Absent, Skipped}
    BY DEF BuildInvariant, BuildTypeOK, RetireChatGPT, Package, BuildThen, Products
  <2>4. packages'.gemini \in DerivedPackage \cup {Absent, Skipped}
    BY DEF BuildInvariant, BuildTypeOK, RetireChatGPT, Package, Products
  <2>5. packages'.codex \in DerivedPackage \cup {Absent}
    BY DEF BuildInvariant, BuildTypeOK, RetireChatGPT, Package, Products
  <2> QED
    BY BuildAssumption, <2>1, <2>2, <2>3, <2>4, <2>5 DEF BuildInvariant, BuildTypeOK,
       RetireChatGPT, Package, brainVars, countVars, historyVars, outcomeVars, sectorVars,
       sourceVars, BuildRecords
<1>2. BuildFits'
  BY AbsentIsNone, BuildAssumption DEF BuildInvariant, RetireChatGPT, BuildAt, Package,
     BuildThen, brainVars, countVars, outcomeVars, BuildFits, BuildingProducts,
     WorkingSteps, BuildTypeOK
<1>3. AuthorityFits'
  BY AbsentIsNone, BuildAssumption DEF BuildInvariant, RetireChatGPT, Package, BuildThen,
     brainVars, historyVars, sectorVars, AuthorityFits, AuthorityParts, PresentBrain,
     BuildTypeOK
<1>4. MadeSoFar'
  BY AbsentIsNone, BuildAssumption DEF BuildInvariant, RetireChatGPT, BuildAt, Package,
     BuildThen, brainVars, sectorVars, MadeSoFar, DerivedSteps, Drawn, RedrawnSteps,
     BuildFits, BuildTypeOK
<1>5. Together'
  BY DEF BuildInvariant, RetireChatGPT, BuildAt, Package, outcomeVars, Together, BuildFits,
     BuildingProducts
<1>6. CurrentProducts'
  BY AbsentIsNone, BuildAssumption DEF BuildInvariant, RetireChatGPT, Package, brainVars,
     historyVars, sectorVars, CurrentProducts, Drawn, HasChatGPT, HasCodex, HasGemini,
     PresentBrain, BuildTypeOK, Products
<1>7. ArchivesAreChained'
  BY AbsentIsNone, BuildAssumption DEF BuildInvariant, RetireChatGPT, Package,
     ArchivesAreChained,
     HasChatGPT, BuildTypeOK, Products
<1> QED
  BY <1>1, <1>2, <1>3, <1>4, <1>5, <1>6, <1>7 DEF BuildInvariant

LEMMA ExportChatGPTKeeps ==
  ASSUME BuildInvariant, ExportChatGPT
  PROVE  BuildInvariant'
<1>1. BuildTypeOK'
  <2>1. build' \in BuildRecords
    BY DEF BuildInvariant, BuildTypeOK, ExportChatGPT, Package, StagedBrain, BuildThen,
       BuildRecords, BuildSteps
  <2>2. DOMAIN packages' = Products
    BY DEF BuildInvariant, BuildTypeOK, ExportChatGPT, Package
  <2>3. packages'.chatgpt \in ChatGPTPackage \cup {Absent, Skipped}
    BY DEF BuildInvariant, BuildTypeOK, ExportChatGPT, BuildAt, ChatGPTArchive, Package,
       StagedBrain, PresentBrain, Products, ChatGPTPackage, Described, BuildFits,
       BuildingProducts
  <2>4. packages'.gemini \in DerivedPackage \cup {Absent, Skipped}
    BY DEF BuildInvariant, BuildTypeOK, ExportChatGPT, BuildAt, ChatGPTArchive, Package,
       Products, ChatGPTPackage
  <2>5. packages'.codex \in DerivedPackage \cup {Absent}
    BY DEF BuildInvariant, BuildTypeOK, ExportChatGPT, Package, PresentBrain, Products
  <2> QED
    BY BuildAssumption, <2>1, <2>2, <2>3, <2>4, <2>5 DEF BuildInvariant, BuildTypeOK,
       ExportChatGPT, ChatGPTArchive, Package, brainVars, countVars, historyVars,
       outcomeVars, PresentBrain, sectorVars, sourceVars, BuildRecords
<1>2. BuildFits'
  BY AbsentIsNone, BuildAssumption DEF BuildInvariant, ExportChatGPT, BuildAt, Package,
     BuildThen, brainVars, countVars, outcomeVars, BuildFits, BuildingProducts,
     WorkingSteps, BuildTypeOK
<1>3. AuthorityFits'
  BY AbsentIsNone, BuildAssumption DEF BuildInvariant, ExportChatGPT, Package, BuildThen,
     brainVars, historyVars, PresentBrain, sectorVars, AuthorityFits, AuthorityParts,
     BuildTypeOK
<1>4. MadeSoFar'
  BY AbsentIsNone, BuildAssumption DEF BuildInvariant, ExportChatGPT, BuildAt,
     ChatGPTArchive, Package, StagedBrain, BuildThen, brainVars, PresentBrain, sectorVars,
     MadeSoFar, DerivedSteps, Drawn, HasChatGPT, RedrawnSteps, BuildFits, BuildingProducts,
     BuildTypeOK, Described, ChatGPTPackage, Products
<1>5. Together'
  BY DEF BuildInvariant, ExportChatGPT, BuildAt, Package, outcomeVars, Together, BuildFits,
     BuildingProducts
<1>6. CurrentProducts'
  BY AbsentIsNone, BuildAssumption DEF BuildInvariant, ExportChatGPT, ChatGPTArchive,
     Package, StagedBrain, brainVars, historyVars, PresentBrain, sectorVars,
     CurrentProducts, Drawn, HasCodex, HasGemini, BuildTypeOK, Products
<1>7. ArchivesAreChained'
  BY AbsentIsNone, BuildAssumption DEF BuildInvariant, ExportChatGPT, BuildAt, Package,
     BuildThen, ArchivesAreChained, BetweenPackages, BuildFits, BuildTypeOK
<1> QED
  BY <1>1, <1>2, <1>3, <1>4, <1>5, <1>6, <1>7 DEF BuildInvariant

LEMMA ChatGPTIsTooLargeKeeps ==
  ASSUME BuildInvariant, ChatGPTIsTooLarge
  PROVE  BuildInvariant'
<1>1. BuildTypeOK'
  <2>1. build' \in BuildRecords
    BY DEF BuildInvariant, BuildTypeOK, ChatGPTIsTooLarge, BuildThen, BuildRecords,
       BuildSteps
  <2>2. DOMAIN packages' = Products
    BY DEF BuildInvariant, BuildTypeOK, ChatGPTIsTooLarge, BuildAt, BuildThen,
       Products
  <2>3. packages'.chatgpt \in ChatGPTPackage \cup {Absent, Skipped}
    BY DEF ChatGPTIsTooLarge
  <2>4. packages'.gemini \in DerivedPackage \cup {Absent, Skipped}
    BY DEF ChatGPTIsTooLarge
  <2>5. packages'.codex \in DerivedPackage \cup {Absent}
    BY DEF BuildInvariant, BuildTypeOK, ChatGPTIsTooLarge, BuildAt, BuildThen,
       Products
  <2> QED
    BY BuildAssumption, <2>1, <2>2, <2>3, <2>4, <2>5 DEF BuildInvariant, BuildTypeOK,
       ChatGPTIsTooLarge, brainVars, countVars, historyVars, outcomeVars, sectorVars,
       sourceVars, BuildRecords
<1>2. BuildFits'
  BY DEF BuildInvariant, ChatGPTIsTooLarge, BuildAt, BuildThen, brainVars, countVars,
     outcomeVars, BuildFits, BuildingProducts, WorkingSteps
<1>3. AuthorityFits'
  BY DEF BuildInvariant, ChatGPTIsTooLarge, BuildThen, brainVars, historyVars, sectorVars,
     AuthorityFits, AuthorityParts, PresentBrain
<1>4. MadeSoFar'
  BY AbsentIsNone, BuildAssumption DEF BuildInvariant, ChatGPTIsTooLarge, BuildAt,
     BuildThen, brainVars, sectorVars, MadeSoFar, Drawn, HasChatGPT, HasCodex, HasGemini,
     RedrawnSteps
<1>5. Together'
  BY DEF BuildInvariant, ChatGPTIsTooLarge, BuildAt, outcomeVars, Together, BuildFits,
     BuildingProducts
<1>6. CurrentProducts'
  BY DEF BuildInvariant, ChatGPTIsTooLarge, brainVars, historyVars, sectorVars,
     CurrentProducts, Drawn, HasChatGPT, HasCodex, HasGemini, PresentBrain
<1>7. ArchivesAreChained'
  BY DEF ChatGPTIsTooLarge, BuildAt, BuildThen, brainVars, ArchivesAreChained, BetweenPackages,
     HasChatGPT, HasCodex
<1> QED
  BY <1>1, <1>2, <1>3, <1>4, <1>5, <1>6, <1>7 DEF BuildInvariant

LEMMA RetireGeminiKeeps ==
  ASSUME BuildInvariant, RetireGemini
  PROVE  BuildInvariant'
<1>1. BuildTypeOK'
  <2>1. build' \in BuildRecords
    BY DEF BuildInvariant, BuildTypeOK, RetireGemini, Package, BuildThen, BuildRecords,
       BuildSteps
  <2>2. DOMAIN packages' = Products
    BY DEF BuildInvariant, BuildTypeOK, RetireGemini, Package
  <2>3. packages'.chatgpt \in ChatGPTPackage \cup {Absent, Skipped}
    BY DEF BuildInvariant, BuildTypeOK, RetireGemini, Package, BuildThen, Products
  <2>4. packages'.gemini \in DerivedPackage \cup {Absent, Skipped}
    BY DEF BuildInvariant, BuildTypeOK, RetireGemini, Package, Products
  <2>5. packages'.codex \in DerivedPackage \cup {Absent}
    BY DEF BuildInvariant, BuildTypeOK, RetireGemini, Package, Products
  <2> QED
    BY BuildAssumption, <2>1, <2>2, <2>3, <2>4, <2>5 DEF BuildInvariant, BuildTypeOK,
       RetireGemini, Package, brainVars, countVars, historyVars, outcomeVars, sectorVars,
       sourceVars, BuildRecords
<1>2. BuildFits'
  BY AbsentIsNone, BuildAssumption DEF BuildInvariant, RetireGemini, BuildAt, Package,
     BuildThen, brainVars, countVars, outcomeVars, BuildFits, BuildingProducts,
     WorkingSteps, BuildTypeOK
<1>3. AuthorityFits'
  BY AbsentIsNone, BuildAssumption DEF BuildInvariant, RetireGemini, Package, BuildThen,
     brainVars, historyVars, sectorVars, AuthorityFits, AuthorityParts, PresentBrain,
     BuildTypeOK
<1>4. MadeSoFar'
  BY AbsentIsNone, BuildAssumption DEF BuildInvariant, RetireGemini, BuildAt, Package,
     BuildThen, brainVars, sectorVars, MadeSoFar, DerivedSteps, Drawn, HasChatGPT,
     HasCodex, PresentBrain, RedrawnSteps, BuildTypeOK, Products
<1>5. Together'
  BY DEF BuildInvariant, RetireGemini, BuildAt, Package, outcomeVars, Together, BuildFits,
     BuildingProducts
<1>6. CurrentProducts'
  BY AbsentIsNone, BuildAssumption DEF BuildInvariant, RetireGemini, Package, brainVars,
     historyVars, sectorVars, CurrentProducts, Drawn, HasChatGPT, HasCodex, HasGemini,
     PresentBrain, BuildTypeOK, Products
<1>7. ArchivesAreChained'
  BY AbsentIsNone, BuildAssumption DEF BuildInvariant, RetireGemini, BuildAt, Package,
     BuildThen, ArchivesAreChained, BetweenPackages, BuildFits, BuildTypeOK
<1> QED
  BY <1>1, <1>2, <1>3, <1>4, <1>5, <1>6, <1>7 DEF BuildInvariant

LEMMA ExportGeminiKeeps ==
  ASSUME BuildInvariant, ExportGemini
  PROVE  BuildInvariant'
<1>1. BuildTypeOK'
  <2>1. build' \in BuildRecords
    BY DEF BuildInvariant, BuildTypeOK, ExportGemini, Package, BuildThen, BuildRecords,
       BuildSteps
  <2>2. DOMAIN packages' = Products
    BY DEF BuildInvariant, BuildTypeOK, ExportGemini, Package
  <2>3. packages'.chatgpt \in ChatGPTPackage \cup {Absent, Skipped}
    BY DEF BuildInvariant, BuildTypeOK, ExportGemini, Package
  <2>4. packages'.gemini \in DerivedPackage \cup {Absent, Skipped}
    BY DEF BuildInvariant, BuildTypeOK, ExportGemini, BuildAt, GeminiArchive, Package,
       ChatGPTPackage, DerivedPackage, MadeSoFar, HasChatGPT
  <2>5. packages'.codex \in DerivedPackage \cup {Absent}
    BY DEF BuildInvariant, BuildTypeOK, ExportGemini, Package
  <2> QED
    BY BuildAssumption, <2>1, <2>2, <2>3, <2>4, <2>5 DEF BuildInvariant, BuildTypeOK,
       ExportGemini, Package, brainVars, countVars, historyVars, outcomeVars, sectorVars,
       sourceVars, BuildRecords
<1>2. BuildFits'
  BY DEF BuildInvariant, ExportGemini, BuildAt, Package, BuildThen, brainVars, countVars,
     outcomeVars, BuildFits, BuildingProducts, WorkingSteps
<1>3. AuthorityFits'
  BY DEF BuildInvariant, ExportGemini, Package, PresentBrain, BuildThen, brainVars,
     historyVars, sectorVars, AuthorityFits, AuthorityParts
<1>4. MadeSoFar'
  <2>1. /\ GeminiArchive \in DerivedPackage
        /\ GeminiArchive.of = PresentBrain /\ GeminiArchive.from = packages.chatgpt.id
    BY DEF BuildInvariant, BuildTypeOK, MadeSoFar, ExportGemini, BuildAt, GeminiArchive,
       DerivedPackage, ChatGPTPackage, HasChatGPT
  <2>2. GeminiArchive # Absent
    BY <2>1, AbsentIsNone
  <2> HIDE DEF GeminiArchive
  <2> QED
    BY <2>1, <2>2, BuildAssumption DEF BuildInvariant, BuildTypeOK, ExportGemini, Package,
       BuildAt, BuildThen, brainVars, sectorVars, MadeSoFar, RedrawnSteps, Drawn,
       PresentBrain, HasChatGPT, HasGemini, HasCodex, Products
<1>5. Together'
  BY DEF BuildInvariant, ExportGemini, BuildAt, Package, outcomeVars, Together, BuildFits,
     BuildingProducts
<1>6. CurrentProducts'
  BY DEF BuildInvariant, ExportGemini, GeminiArchive, Package, PresentBrain, brainVars,
     historyVars, sectorVars, CurrentProducts, Drawn, HasChatGPT, HasCodex, HasGemini
<1>7. ArchivesAreChained'
  BY DEF BuildInvariant, ExportGemini, BuildAt, Package, BuildThen, historyVars,
     ArchivesAreChained,
     BetweenPackages, HasChatGPT, HasCodex
<1> QED
  BY <1>1, <1>2, <1>3, <1>4, <1>5, <1>6, <1>7 DEF BuildInvariant

LEMMA CheckDerivationKeeps ==
  ASSUME BuildInvariant, CheckDerivation
  PROVE  BuildInvariant'
<1>1. BuildTypeOK'
  <2>1. build' \in BuildRecords
    BY DEF BuildInvariant, BuildTypeOK, CheckDerivation, BuildThen, BuildRecords,
       BuildSteps
  <2> QED
    BY BuildAssumption, <2>1 DEF BuildInvariant, BuildTypeOK, CheckDerivation, brainVars,
       countVars, historyVars, outcomeVars, productVars, sectorVars, sourceVars,
       BuildRecords
<1>2. BuildFits'
  BY DEF BuildInvariant, CheckDerivation, BuildAt, BuildThen, brainVars, countVars,
     outcomeVars, BuildFits, BuildingProducts, WorkingSteps
<1>3. AuthorityFits'
  BY DEF BuildInvariant, CheckDerivation, BuildThen, brainVars, historyVars, sectorVars,
     AuthorityFits, AuthorityParts, PresentBrain
<1>4. MadeSoFar'
  BY DEF BuildInvariant, CheckDerivation, BuildAt, BuildThen, DerivationHolds, brainVars,
     productVars, HasGemini, sectorVars, MadeSoFar, DerivedSteps, Drawn, HasChatGPT,
     HasCodex, PresentBrain, RedrawnSteps
<1>5. Together'
  BY DEF BuildInvariant, CheckDerivation, outcomeVars, productVars, HasGemini, sectorVars,
     sourceVars, Together, HasChatGPT, HasCodex
<1>6. CurrentProducts'
  BY DEF BuildInvariant, CheckDerivation, brainVars, historyVars, productVars, HasGemini,
     sectorVars, CurrentProducts, Drawn, HasChatGPT, HasCodex, PresentBrain
<1>7. ArchivesAreChained'
  BY DEF BuildInvariant, CheckDerivation, BuildAt, BuildThen, historyVars, productVars,
     sourceVars, ArchivesAreChained, BetweenPackages, HasChatGPT, HasCodex
<1> QED
  BY <1>1, <1>2, <1>3, <1>4, <1>5, <1>6, <1>7 DEF BuildInvariant

LEMMA ExportCodexKeeps ==
  ASSUME BuildInvariant, ExportCodex
  PROVE  BuildInvariant'
<1>1. /\ CodexArchive \in DerivedPackage /\ CodexArchive # Absent
      /\ HasChatGPT => /\ CodexArchive.of = packages.chatgpt.of
                       /\ CodexArchive.from = packages.chatgpt.id
      /\ ~HasChatGPT => CodexArchive.of = PresentBrain
  BY CodexArchiveFits DEF ExportCodex, BuildAt
<1>2. /\ packages'.codex = CodexArchive
      /\ packages'.chatgpt = packages.chatgpt /\ packages'.gemini = packages.gemini
      /\ DOMAIN packages' = Products
  BY DEF BuildInvariant, BuildTypeOK, ExportCodex, Products
<1>3. build' \in BuildRecords /\ build' = [build EXCEPT !.step = "truth"]
  BY DEF BuildInvariant, BuildTypeOK, ExportCodex, BuildThen, BuildRecords, BuildSteps
<1>4. UNCHANGED <<chosenSources, sourceChanges, unindexed, available, sectors, shape, activation,
                  authority, topology, version, truth, buildStatus, stage, builds, buildFaults,
                  unauthored, unpacked>> /\ detached' = FALSE /\ build.step = "codex"
  BY DEF ExportCodex, BuildAt, brainVars, sourceVars, sectorVars, outcomeVars, countVars
<1>5. BuildTypeOK'
  BY ZenonT(30), <1>1, <1>2, <1>3, <1>4 DEF BuildInvariant, BuildTypeOK, BuildRecords
<1>6. BuildFits'
  BY <1>3, <1>4 DEF BuildInvariant, BuildTypeOK, BuildFits, BuildingProducts, WorkingSteps
<1>7. AuthorityFits'
  BY <1>3, <1>4 DEF BuildInvariant, BuildTypeOK, AuthorityFits, PresentBrain, Authored,
     AuthorityParts
<1>8. MadeSoFar'
  BY <1>1, <1>2, <1>3, <1>4 DEF BuildInvariant, MadeSoFar, RedrawnSteps, DerivedSteps,
     Drawn, PresentBrain, HasChatGPT, HasGemini, HasCodex
<1>9. Together'
  BY <1>1, <1>2, <1>3, <1>4 DEF BuildInvariant, Together, HasChatGPT, HasGemini, HasCodex
<1>10. CurrentProducts'
  BY <1>1, <1>2, <1>4 DEF BuildInvariant, CurrentProducts, Drawn, PresentBrain, HasChatGPT,
     HasGemini, HasCodex
<1>11. ArchivesAreChained'
  BY <1>1, <1>2 DEF ArchivesAreChained, HasChatGPT, HasCodex
<1> QED
  BY <1>5, <1>6, <1>7, <1>8, <1>9, <1>10, <1>11 DEF BuildInvariant

LEMMA RecordTruthKeeps ==
  ASSUME BuildInvariant, RecordTruth
  PROVE  BuildInvariant'
<1>1. BuildTypeOK'
  <2>1. build' \in BuildRecords
    BY DEF BuildInvariant, BuildTypeOK, RecordTruth, BuildThen, BuildRecords, BuildSteps
  <2> QED
    BY BuildAssumption, <2>1 DEF BuildInvariant, BuildTypeOK, RecordTruth,
       RegisteredSectors, brainVars, countVars, historyVars, outcomeVars, sectorVars,
       sourceVars, BuildRecords
<1>2. BuildFits'
  BY DEF BuildInvariant, RecordTruth, BuildAt, BuildThen, brainVars, countVars,
     outcomeVars, BuildFits, BuildingProducts, WorkingSteps
<1>3. AuthorityFits'
  BY DEF BuildInvariant, RecordTruth, BuildThen, brainVars, historyVars, sectorVars,
     AuthorityFits, AuthorityParts, PresentBrain
<1>4. MadeSoFar'
  BY DEF BuildInvariant, RecordTruth, BuildAt, BuildThen, RegisteredSectors, brainVars,
     sectorVars, MadeSoFar, DerivedSteps, Drawn, HasChatGPT, HasCodex, HasGemini,
     PresentBrain, RedrawnSteps
<1>5. Together'
  BY DEF BuildInvariant, RecordTruth, outcomeVars, Together, HasChatGPT, HasCodex,
     HasGemini
<1>6. CurrentProducts'
  BY DEF BuildInvariant, RecordTruth, RegisteredSectors, brainVars, historyVars,
     sectorVars, CurrentProducts, Drawn, HasChatGPT, HasCodex, HasGemini, PresentBrain
<1>7. ArchivesAreChained'
  BY DEF BuildInvariant, RecordTruth, BuildAt, historyVars, ArchivesAreChained,
     BetweenPackages,
     HasChatGPT, HasCodex
<1> QED
  BY <1>1, <1>2, <1>3, <1>4, <1>5, <1>6, <1>7 DEF BuildInvariant

LEMMA CaptureVersionKeeps ==
  ASSUME BuildInvariant, CaptureVersion
  PROVE  BuildInvariant'
<1>1. BuildTypeOK'
  <2>1. build' \in BuildRecords
    BY DEF BuildInvariant, BuildTypeOK, CaptureVersion, BuildThen, BuildRecords, BuildSteps
  <2>2. UNCHANGED <<chosenSources, sourceChanges, unindexed, available, sectors, shape,
                     activation, authority, topology, packages, truth,
                     buildStatus, stage, builds, buildFaults,
                     unauthored, unpacked, detached>>
    BY DEF CaptureVersion, PresentBrain, brainVars, countVars, historyVars, outcomeVars,
       sectorVars, sourceVars
  <2>3. version' \in Described \cup {Absent}
    BY BuildAssumption DEF BuildInvariant, BuildTypeOK, CaptureVersion, BuildAt,
       PresentBrain, BuildFits, BuildingProducts, Described
  <2> QED
    BY <2>1, <2>2, <2>3 DEF BuildInvariant, BuildTypeOK, BuildRecords
<1>2. BuildFits'
  BY DEF BuildInvariant, CaptureVersion, BuildAt, BuildThen, brainVars, countVars,
     outcomeVars, BuildFits, BuildingProducts, WorkingSteps
<1>3. AuthorityFits'
  BY DEF BuildInvariant, CaptureVersion, BuildThen, PresentBrain, brainVars, historyVars,
     sectorVars, AuthorityFits, AuthorityParts
<1>4. MadeSoFar'
  BY AbsentIsNone, BuildAssumption DEF BuildInvariant, CaptureVersion, BuildAt, BuildThen,
     PresentBrain, brainVars, sectorVars, MadeSoFar, DerivedSteps, Drawn, HasChatGPT,
     HasCodex, HasGemini, RedrawnSteps, BuildFits, BuildingProducts, BuildTypeOK, Described
<1>5. Together'
  BY DEF BuildInvariant, CaptureVersion, BuildAt, outcomeVars, Together, BuildFits,
     BuildingProducts
<1>6. CurrentProducts'
  BY DEF BuildInvariant, CaptureVersion, PresentBrain, brainVars, historyVars, sectorVars,
     CurrentProducts, Drawn, HasChatGPT, HasCodex, HasGemini
<1>7. ArchivesAreChained'
  BY DEF BuildInvariant, CaptureVersion, BuildAt, historyVars, ArchivesAreChained,
     BetweenPackages,
     HasChatGPT, HasCodex
<1> QED
  BY <1>1, <1>2, <1>3, <1>4, <1>5, <1>6, <1>7 DEF BuildInvariant

LEMMA CompleteBuildKeeps ==
  ASSUME BuildInvariant, CompleteBuild
  PROVE  BuildInvariant'
<1>1. BuildTypeOK'
  <2>1. build' \in BuildRecords
    BY NoBuildFits DEF BuildInvariant, BuildTypeOK, CompleteBuild, BuildAt,
       BuildRecords, BuildSteps
  <2> QED
    BY BuildAssumption, <2>1 DEF BuildInvariant, BuildTypeOK, CompleteBuild, brainVars,
       countVars, productVars, sectorVars, sourceVars, BuildRecords
<1>2. BuildFits'
  BY NoBuildFits DEF CompleteBuild, BuildFits, BuildingProducts, WorkingSteps
<1>3. AuthorityFits'
  BY NoBuildFits DEF BuildInvariant, CompleteBuild, brainVars, sectorVars, AuthorityFits,
     AuthorityParts, PresentBrain
<1>4. MadeSoFar'
  BY NoBuildFits DEF CompleteBuild, MadeSoFar, DerivedSteps, PresentBrain, RedrawnSteps
<1>5. Together'
  BY NoBuildFits, AbsentIsNone, BuildAssumption DEF BuildInvariant, CompleteBuild, BuildAt,
     productVars, Together, HasChatGPT, HasCodex, HasGemini, MadeSoFar, DerivedSteps
<1>6. CurrentProducts'
  BY NoBuildFits, AbsentIsNone, BuildAssumption DEF BuildInvariant, CompleteBuild, BuildAt,
     brainVars, productVars, sectorVars, CurrentProducts, Drawn, HasChatGPT, HasCodex,
     HasGemini, PresentBrain, BuildFits, BuildingProducts, BuildTypeOK, MadeSoFar,
     DerivedSteps, RedrawnSteps
<1>7. ArchivesAreChained'
  BY NoBuildFits DEF BuildInvariant, CompleteBuild, BuildAt, productVars, sourceVars,
     ArchivesAreChained, BetweenPackages, HasChatGPT, HasCodex
<1> QED
  BY <1>1, <1>2, <1>3, <1>4, <1>5, <1>6, <1>7 DEF BuildInvariant

LEMMA EndInErrorKeeps ==
  ASSUME BuildInvariant, EndInError, ~BuildAt("idle"), buildFaults' \in 0..MaxBuildFaults
  PROVE  BuildInvariant'
<1>1. BuildTypeOK'
  BY NoBuildFits, BuildAssumption DEF EndInError, BuildInvariant, BuildTypeOK, MarkSources,
     Detaches, brainVars, productVars, sectorVars, sourceVars, BuildRecords
<1>2. BuildFits'
  BY NoBuildFits DEF EndInError, BuildFits, BuildingProducts, WorkingSteps
<1>3. AuthorityFits'
  BY NoBuildFits DEF BuildInvariant, EndInError, Detaches, brainVars, sectorVars,
     AuthorityFits, AuthorityParts, PresentBrain
<1>4. MadeSoFar'
  BY NoBuildFits DEF EndInError, sourceVars, MadeSoFar, DerivedSteps, Drawn, HasGemini,
     PresentBrain, RedrawnSteps
<1>5. Together'
  BY NoBuildFits DEF BuildInvariant, EndInError, productVars, Together, HasChatGPT,
     HasCodex, HasGemini
<1>6. CurrentProducts'
  BY NoBuildFits DEF BuildInvariant, EndInError, Detaches, brainVars, productVars,
     sectorVars, CurrentProducts, Drawn, HasChatGPT, HasCodex, HasGemini, PresentBrain
<1>7. ArchivesAreChained'
  BY NoBuildFits DEF BuildInvariant, EndInError, Detaches, productVars, ArchivesAreChained,
     HasChatGPT, HasCodex
<1> QED
  BY <1>1, <1>2, <1>3, <1>4, <1>5, <1>6, <1>7 DEF BuildInvariant

LEMMA CrashBuildKeeps ==
  ASSUME BuildInvariant, CrashBuild
  PROVE  BuildInvariant'
<1>1. BuildTypeOK'
  <2>1. build' \in BuildRecords
    BY NoBuildFits DEF CrashBuild
  <2>2. UNCHANGED <<chosenSources, sourceChanges, unindexed, available, sectors, shape,
                     activation, authority, topology, packages,
                     version, truth, buildStatus, stage, builds,
                     unauthored, unpacked>>
    BY DEF CrashBuild, Detaches, brainVars, outcomeVars, productVars, sectorVars,
       sourceVars
  <2>3. buildFaults' \in 0..MaxBuildFaults
    BY BuildAssumption DEF BuildInvariant, BuildTypeOK, CrashBuild
  <2>4. detached' \in BOOLEAN
    BY DEF CrashBuild, Detaches, BetweenPackages
  <2> QED
    BY <2>1, <2>2, <2>3, <2>4 DEF BuildInvariant, BuildTypeOK, BuildRecords
<1>2. BuildFits'
  BY NoBuildFits DEF CrashBuild, BuildFits, BuildingProducts, WorkingSteps
<1>3. AuthorityFits'
  BY NoBuildFits DEF BuildInvariant, CrashBuild, Detaches, brainVars, sectorVars,
     AuthorityFits, AuthorityParts, PresentBrain
<1>4. MadeSoFar'
  BY NoBuildFits DEF CrashBuild, sourceVars, MadeSoFar, DerivedSteps, Drawn, HasGemini,
     PresentBrain, RedrawnSteps
<1>5. Together'
  BY NoBuildFits DEF BuildInvariant, CrashBuild, outcomeVars, productVars, Together,
     HasChatGPT, HasCodex, HasGemini
<1>6. CurrentProducts'
  BY NoBuildFits DEF BuildInvariant, CrashBuild, Detaches, brainVars, productVars,
     sectorVars, CurrentProducts, Drawn, HasChatGPT, HasCodex, HasGemini, PresentBrain
<1>7. ArchivesAreChained'
  BY NoBuildFits DEF BuildInvariant, CrashBuild, Detaches, productVars, sourceVars,
     ArchivesAreChained, HasChatGPT, HasCodex
<1> QED
  BY <1>1, <1>2, <1>3, <1>4, <1>5, <1>6, <1>7 DEF BuildInvariant

LEMMA BuildFailsKeeps ==
  ASSUME BuildInvariant, RefuseDerivation \/ FailBuild
  PROVE  BuildInvariant'
  BY BuildAssumption, EndInErrorKeeps DEF RefuseDerivation, FailBuild, BuildAt,
     BuildInvariant, BuildTypeOK

LEMMA BuildStutterKeeps ==
  ASSUME BuildInvariant, UNCHANGED buildVars
  PROVE  BuildInvariant'
<1>1. BuildTypeOK' /\ BuildFits'
  BY DEF BuildInvariant, BuildTypeOK, BuildFits, buildVars
<1>2. AuthorityFits'
  BY DEF BuildInvariant, AuthorityFits, PresentBrain, Authored, buildVars
<1>3. MadeSoFar'
  BY DEF BuildInvariant, MadeSoFar, Drawn, PresentBrain, HasChatGPT, HasGemini, HasCodex,
     buildVars
<1>4. Together' /\ CurrentProducts' /\ ArchivesAreChained'
  BY DEF BuildInvariant, Together, CurrentProducts, ArchivesAreChained, BetweenPackages, Drawn,
     PresentBrain, HasChatGPT, HasGemini, HasCodex, buildVars
<1> QED
  BY <1>1, <1>2, <1>3, <1>4 DEF BuildInvariant

LEMMA BuildBegins == BuildInit => BuildInvariant
<1> SUFFICES ASSUME BuildInit PROVE BuildInvariant
  OBVIOUS
<1>1. BuildTypeOK
  <2>1. /\ DOMAIN packages = Products
        /\ packages.chatgpt = Absent /\ packages.gemini = Absent /\ packages.codex = Absent
    BY DEF BuildInit, Products
  <2>2. /\ topology \in Diagram /\ sectors \in SectorStates /\ shape \in SectorStates
        /\ truth \in SectorStates
    BY DEF BuildInit, Diagram, SectorStates
  <2>3. authority \in [AuthorityParts -> Described \cup {Absent}]
    BY DEF BuildInit
  <2>4. build \in BuildRecords
    BY NoBuildFits DEF BuildInit
  <2>5. sourceChanges \in 0..MaxSourceChanges /\ builds \in 0..MaxBuilds
        /\ buildFaults \in 0..MaxBuildFaults
    BY BuildAssumption DEF BuildInit
  <2> QED
    BY <2>1, <2>2, <2>3, <2>4, <2>5 DEF BuildInit, BuildTypeOK, BuildRecords
<1>2. BuildFits /\ AuthorityFits /\ MadeSoFar
  BY NoBuildFits DEF BuildInit, BuildFits, AuthorityFits, MadeSoFar, BuildingProducts,
     WorkingSteps, RedrawnSteps, DerivedSteps
<1>3. Together /\ CurrentProducts /\ ArchivesAreChained
  BY DEF BuildInit, Together, CurrentProducts, ArchivesAreChained, HasChatGPT, Products
<1> QED
  BY <1>1, <1>2, <1>3 DEF BuildInvariant

\* Whatever steps a build has taken, failed at or died after: how far it is tells what the
\* authority and the products describe.
THEOREM BuildInvariantCorrect == BuildSpec => []BuildInvariant
<1>1. ASSUME BuildInvariant, [BuildNext]_buildVars PROVE BuildInvariant'
  <2>1. CASE UNCHANGED buildVars
    BY <1>1, <2>1, BuildStutterKeeps
  <2>2. ASSUME NEW s \in BuildSources,
               \/ EditRegistered(s) \/ ChooseSource(s)
               \/ IndexSource(s) \/ SkipSource(s) \/ ReferenceSource(s)
        PROVE  BuildInvariant'
    BY <1>1, <2>2, EditRegisteredKeeps, ChooseSourceKeeps, IndexSourceKeeps, SkipSourceKeeps,
       ReferenceSourceKeeps
  <2>3. ASSUME NEW all \in BOOLEAN, NEW mode \in UseModes, StartBuild(all, mode)
        PROVE  BuildInvariant'
    BY <1>1, <2>3, StartBuildKeeps
  <2>4. CASE ValidateSources \/ EnterBuild \/ EndOfSources \/ DrawDiagram \/ WriteReceipt
    BY <1>1, <2>4, ValidateSourcesKeeps, EnterBuildKeeps, EndOfSourcesKeeps,
       DrawDiagramKeeps, WriteReceiptKeeps
  <2>5. CASE WriteHead \/ WritePointers \/ WriteIndex \/ WriteDots
    BY <1>1, <2>5, WriteHeadKeeps, WritePointersKeeps, WriteIndexKeeps, WriteDotsKeeps
  <2>6. CASE MarkBuilt \/ DecideReuse \/ GenerateMmd \/ RenderTopology
    BY <1>1, <2>6, MarkBuiltKeeps, DecideReuseKeeps, GenerateMmdKeeps, RenderTopologyKeeps
  <2>7. CASE RetireChatGPT \/ ExportChatGPT \/ ChatGPTIsTooLarge \/ RetireGemini \/ ExportGemini
    BY <1>1, <2>7, RetireChatGPTKeeps, ExportChatGPTKeeps, ChatGPTIsTooLargeKeeps,
       RetireGeminiKeeps, ExportGeminiKeeps
  <2>8. CASE CheckDerivation \/ ExportCodex \/ RecordTruth \/ CaptureVersion \/ CompleteBuild
    BY <1>1, <2>8, CheckDerivationKeeps, ExportCodexKeeps, RecordTruthKeeps,
       CaptureVersionKeeps, CompleteBuildKeeps
  <2>9. CASE RefuseDerivation \/ FailBuild \/ CrashBuild
    BY <1>1, <2>9, BuildFailsKeeps, CrashBuildKeeps
  <2> QED
    BY <1>1, <2>1, <2>2, <2>3, <2>4, <2>5, <2>6, <2>7, <2>8, <2>9 DEF BuildNext
<1> QED
  BY <1>1, BuildBegins, PTL DEF BuildSpec

\* The authority and the products of a brain are those of the brain as it is, once a build
\* that reached them has ended.
THEOREM BuildsAreTrue == BuildSpec => []BuildIsTrue
<1>1. ASSUME BuildInvariant PROVE BuildIsTrue
  BY <1>1 DEF BuildInvariant, AuthorityFits, AuthorityIsWhole, Together,
     PackagesBelongTogether, Completed, CurrentProducts, ArchivesAreChained,
     ProductsAreCurrent, BetweenPackages, BuildAt, Drawn, BuildIsTrue
<1> QED
  BY <1>1, BuildInvariantCorrect, PTL

-----------------------------------------------------------------------------
(* The portable folder of a brain.                                         *)

\* The steps of a create, those with a snapshot and those that come after its pointer.
SnapshotSteps == {"ledger", "pointers", "sidecars", "manifest", "validate", "register"}
PointedSteps == {"sidecars", "manifest", "validate", "register"}
ExportSteps == {"freeze", "archive", "thaw"}

MakingRecords == [step : CommandSteps, todo : SUBSET Databases, stat : [Databases -> Stats],
                  hash : Identities, rows : Identities, delta : GoalDeltas, kind : RowKinds]
AnsweredRecords == [whole : BOOLEAN, deltas : SUBSET GoalDeltas,
                    archives : [Identities -> Archives \cup {NoSnapshot}]]

\* A size and time is of one edit: a database that has those that were noted was not edited
\* since.
StatsOfEdits ==
    \A d \in Databases :
        /\ databases[d].stat <= databaseEdits
        /\ making.stat[d] <= databaseEdits
        /\ snapshot # NoSnapshot => snapshot.stat[d] <= databaseEdits

\* What has been hashed and read of a database that was not edited is what it holds.
DatabasesRead ==
    \A d \in Databases : making.stat[d] = databases[d].stat =>
        /\ (making.step = "hash" /\ d \notin making.todo) \/ making.step \in {"read", "replace"}
            => making.hash[d] = databases[d].content
        /\ (making.step = "read" /\ d \notin making.todo) \/ making.step = "replace"
            => making.rows[d] = databases[d].content

SnapshotIsOf ==
    snapshot # NoSnapshot =>
        \A d \in Databases : snapshot.stat[d] = databases[d].stat =>
            snapshot.rows[d] = databases[d].content /\ snapshot.hash[d] = databases[d].content

\* The rows of the ledger are those of commands, one at most of each.
LedgerFits ==
    /\ making.step # "idle" => commands \in 1..MaxCommands
    /\ \A k \in RowKinds : /\ operations.rows[k] <= commands
                           /\ making.step = "row" => operations.rows[k] < commands
    /\ ~operations.exists => operations.schema = 0 /\ operations.born = 0
    /\ operations.born <= operations.schema
    /\ making.step \in {"row", "sidecar"} => LedgerIsUsable
    /\ making.step \in {"pointers", "sidecars", "manifest", "validate", "register"} =>
        LedgerIsUsable

\* The log of the steers lacks the row that is being written beside the ledger at most.
SidecarsFit ==
    /\ making.step = "sidecar" =>
        making.kind \in SidecarKinds /\ operations.rows[making.kind] >= 1
    /\ \A k \in SidecarKinds :
           sidecars[k] \subseteq 1..operations.rows[k] \/ sidecars[k] = CutFile
    /\ commandFaults = 0 /\ ~(making.step = "sidecar" /\ making.kind = "steer") =>
        sidecars.steer = 1..operations.rows.steer
    /\ commandFaults = 0 /\ making.step = "sidecar" /\ making.kind = "steer" =>
        sidecars.steer = 1..(operations.rows.steer - 1)

\* A manifest is of a snapshot and the pointer to it, and the snapshot of a running command
\* is there.
ManifestFits ==
    /\ packageManifest # NoSnapshot =>
        /\ packageManifest.fixed.snapshot # NoSnapshot
        /\ packageManifest.fixed.pointer = packageManifest.fixed.snapshot.hash
    /\ making.step \in SnapshotSteps \cup ExportSteps => snapshot # NoSnapshot
    /\ making.step \in PointedSteps \cup ExportSteps => brainPointer = snapshot.hash
    /\ making.step \in {"validate", "register"} =>
        packageManifest # NoSnapshot /\ ~packageManifest.frozen
    /\ making.step = "register" => PackageIsValid

\* A folder that was answered for is valid, and its manifest is frozen for an export only.
FolderIsWhole ==
    answered.whole =>
        /\ making.step \in {"idle", "row", "sidecar"} \cup ExportSteps
        /\ PackageIsValid
        /\ making.step \notin {"archive", "thaw"} => ~packageManifest.frozen

\* An archive is of the snapshot it is named after, and none is written over.
ArchivesFit ==
    /\ \A i \in Identities :
        /\ archives[i] # NoSnapshot => archives[i].fixed.snapshot.hash = i
        /\ answered.archives[i] # NoSnapshot =>
            archives[i] = answered.archives[i] /\ ArchiveIsValid(archives[i])
    /\ making.step \in {"freeze", "archive"} => archives[brainPointer] = NoSnapshot

PackageInvariant ==
    /\ PackageTypeOK
    /\ StatsOfEdits
    /\ DatabasesRead
    /\ SnapshotIsOf
    /\ LedgerFits
    /\ LedgerTellsOnce
    /\ SidecarsFit
    /\ ManifestFits
    /\ FolderIsWhole
    /\ ArchivesFit

LEMMA NoPackageCommandFits ==
  /\ NoPackageCommand \in MakingRecords
  /\ NoPackageCommand.step = "idle" /\ NoPackageCommand.todo = {}
  /\ NoPackageCommand.kind = "usage"
  /\ NoPackageCommand.stat = [d \in Databases |-> 0]
<1>1. (CHOOSE v \in Versions : TRUE) \in Versions /\ (CHOOSE d \in GoalDeltas : TRUE) \in GoalDeltas
  BY PackageAssumption
<1>2. [d \in Databases |-> CHOOSE v \in Versions : TRUE] \in Identities
  BY <1>1 DEF Identities
<1>3. [d \in Databases |-> 0] \in [Databases -> Stats]
  BY PackageAssumption DEF Stats
<1> QED
  BY <1>1, <1>2, <1>3 DEF NoPackageCommand, MakingRecords, CommandSteps, RowKinds

\* A manifest that is written names the files as they are.
LEMMA ManifestOfFits ==
  ASSUME PackageTypeOK, NEW frozen \in BOOLEAN
  PROVE  /\ ManifestOf(frozen) \in Manifests /\ ManifestOf(frozen) # NoSnapshot
         /\ ManifestOf(frozen).frozen = frozen
         /\ ManifestOf(frozen).fixed = FixedFiles
         /\ ManifestOf(frozen).operational = OperationalFiles
<1>1. FixedFiles \in FixedParts
  BY DEF PackageTypeOK, FixedFiles, FixedParts
<1>2. OperationalFiles \in OperationalParts
  BY DEF PackageTypeOK, OperationalFiles, OperationalParts
<1>3. ManifestOf(frozen) \in Manifests
  BY <1>1, <1>2 DEF ManifestOf, Manifests
<1> QED
  BY <1>3, NoSnapshotIsNone DEF ManifestOf

\* An archive has the files as they are, with the manifest that is there.
LEMMA MembersTyped ==
  ASSUME PackageTypeOK
  PROVE  /\ Members \in Archives /\ Members # NoSnapshot
         /\ CutArchive \in Archives /\ CutArchive # NoSnapshot
         /\ Members.fixed = FixedFiles /\ CutArchive.fixed = FixedFiles
         /\ FixedFiles.snapshot = snapshot
<1>1. FixedFiles \in FixedParts
  BY DEF PackageTypeOK, FixedFiles, FixedParts
<1>2. OperationalFiles \in OperationalParts
  BY DEF PackageTypeOK, OperationalFiles, OperationalParts
<1>3. Members \in Archives /\ Members.fixed = FixedFiles
  BY <1>1, <1>2 DEF PackageTypeOK, Members, Archives
<1>4. CutArchive = [fixed |-> FixedFiles, operational |-> OperationalFiles,
                    manifest |-> NoSnapshot]
  BY DEF CutArchive, Members
<1>5. CutArchive \in Archives /\ CutArchive.fixed = FixedFiles
  BY <1>1, <1>2, <1>4 DEF Archives
<1> QED
  BY <1>3, <1>5, NoSnapshotIsNone DEF FixedFiles

\* A command that ends leaves none that runs.
LEMMA MakingEnds ==
  ASSUME making' = NoPackageCommand
  PROVE  /\ making' \in MakingRecords /\ making'.step = "idle"
         /\ \A d \in Databases : making'.stat[d] = 0
BY NoPackageCommandFits

LEMMA EditDatabaseKeeps ==
  ASSUME PackageInvariant, NEW d \in Databases, EditDatabase(d)
  PROVE  PackageInvariant'
<1>1. PackageTypeOK'
  BY PackageAssumption, NoSnapshotIsNone DEF PackageInvariant, EditDatabase, folderVars,
     limitVars, LedgerFits, PackageTypeOK, Stats
<1>2. StatsOfEdits'
  BY PackageAssumption, NoSnapshotIsNone DEF PackageInvariant, EditDatabase, StatsOfEdits,
     PackageTypeOK, Stats, Snapshots
<1>3. DatabasesRead'
  BY SMTT(30), PackageAssumption, NoSnapshotIsNone DEF PackageInvariant, EditDatabase, folderVars,
     limitVars, DatabasesRead, LedgerFits, ManifestFits, LedgerIsUsable, ExportSteps,
     PackageIsValid, PointedSteps, SnapshotSteps, FixedFiles, OperationalFiles,
     PackageTypeOK, Stats, Identities, Snapshots, OperationLedgers, FixedParts,
     OperationalParts, Manifests, Archives, CommandSteps, RowKinds, SidecarKinds,
     LatestSchema, FirstSchema, SidecarsFit, FolderIsWhole, ArchivesFit, StatsOfEdits,
     LedgerTellsOnce, CutFile, ArchiveIsValid
<1>4. SnapshotIsOf'
  BY PackageAssumption DEF EditDatabase, SnapshotIsOf, PackageInvariant, PackageTypeOK,
     Snapshots, Stats, StatsOfEdits
<1>5. LedgerFits'
  BY DEF PackageInvariant, EditDatabase, folderVars, limitVars, LedgerFits,
     LedgerIsUsable
<1>6. LedgerTellsOnce'
  BY DEF PackageInvariant, EditDatabase, folderVars, limitVars, LedgerTellsOnce
<1>7. SidecarsFit'
  BY DEF PackageInvariant, EditDatabase, folderVars, limitVars, SidecarsFit, CutFile
<1>8. ManifestFits'
  BY DEF PackageInvariant, EditDatabase, folderVars, ManifestFits, PackageIsValid,
     FixedFiles, LedgerIsUsable
<1>9. FolderIsWhole'
  BY DEF PackageInvariant, EditDatabase, folderVars, FolderIsWhole, PackageIsValid,
     FixedFiles, LedgerIsUsable, OperationalFiles
<1>10. ArchivesFit'
  BY DEF PackageInvariant, EditDatabase, folderVars, limitVars, ArchivesFit,
     ArchiveIsValid
<1> QED
  BY <1>1, <1>2, <1>3, <1>4, <1>5, <1>6, <1>7, <1>8, <1>9, <1>10 DEF PackageInvariant

LEMMA HashDatabaseKeeps ==
  ASSUME PackageInvariant, NEW d \in Databases, HashDatabase(d)
  PROVE  PackageInvariant'
<1>1. PackageTypeOK'
  BY PackageAssumption, NoSnapshotIsNone DEF PackageInvariant, HashDatabase, CommandAt,
     folderVars, otherVars, databaseVars, limitVars, PackageTypeOK, Stats, Identities,
     CommandSteps
<1>2. StatsOfEdits'
  BY DEF PackageInvariant, HashDatabase, CommandAt, folderVars, otherVars, databaseVars,
     limitVars, StatsOfEdits
<1>3. DatabasesRead'
  BY PackageAssumption, NoSnapshotIsNone DEF PackageInvariant, HashDatabase, CommandAt,
     otherVars, databaseVars, DatabasesRead, PackageTypeOK, Identities
<1>4. SnapshotIsOf'
  BY DEF PackageInvariant, HashDatabase, CommandAt, folderVars, otherVars, databaseVars,
     limitVars, SnapshotIsOf
<1>5. LedgerFits'
  BY DEF PackageInvariant, HashDatabase, CommandAt, folderVars, otherVars, limitVars,
     LedgerFits
<1>6. LedgerTellsOnce'
  BY DEF PackageInvariant, HashDatabase, CommandAt, folderVars, otherVars, databaseVars,
     limitVars, LedgerTellsOnce
<1>7. SidecarsFit'
  BY DEF PackageInvariant, HashDatabase, CommandAt, folderVars, otherVars, limitVars,
     SidecarsFit
<1>8. ManifestFits'
  BY DEF PackageInvariant, HashDatabase, CommandAt, folderVars, ManifestFits, ExportSteps,
     PointedSteps, SnapshotSteps
<1>9. FolderIsWhole'
  BY DEF PackageInvariant, HashDatabase, CommandAt, FolderIsWhole, ExportSteps
<1>10. ArchivesFit'
  BY DEF PackageInvariant, HashDatabase, CommandAt, folderVars, otherVars, ArchivesFit
<1> QED
  BY <1>1, <1>2, <1>3, <1>4, <1>5, <1>6, <1>7, <1>8, <1>9, <1>10 DEF PackageInvariant

LEMMA ReadDatabaseKeeps ==
  ASSUME PackageInvariant, NEW d \in Databases, ReadDatabase(d)
  PROVE  PackageInvariant'
<1>1. PackageTypeOK'
  BY PackageAssumption, NoSnapshotIsNone DEF PackageInvariant, ReadDatabase, folderVars,
     otherVars, databaseVars, limitVars, PackageTypeOK, Identities, CommandSteps
<1>2. StatsOfEdits'
  BY DEF PackageInvariant, ReadDatabase, CommandAt, folderVars, otherVars, databaseVars,
     limitVars, StatsOfEdits
<1>3. DatabasesRead'
  BY PackageAssumption, NoSnapshotIsNone DEF PackageInvariant, ReadDatabase, CommandAt,
     otherVars, databaseVars, DatabasesRead, PackageTypeOK, Identities
<1>4. SnapshotIsOf'
  BY DEF PackageInvariant, ReadDatabase, CommandAt, folderVars, otherVars, databaseVars,
     limitVars, SnapshotIsOf
<1>5. LedgerFits'
  BY DEF PackageInvariant, ReadDatabase, CommandAt, folderVars, otherVars, limitVars,
     LedgerFits
<1>6. LedgerTellsOnce'
  BY DEF PackageInvariant, ReadDatabase, CommandAt, folderVars, otherVars, databaseVars,
     limitVars, LedgerTellsOnce
<1>7. SidecarsFit'
  BY DEF PackageInvariant, ReadDatabase, CommandAt, folderVars, otherVars, limitVars,
     SidecarsFit
<1>8. ManifestFits'
  BY DEF PackageInvariant, ReadDatabase, CommandAt, folderVars, ManifestFits, ExportSteps,
     PointedSteps, SnapshotSteps
<1>9. FolderIsWhole'
  BY DEF PackageInvariant, ReadDatabase, CommandAt, FolderIsWhole, ExportSteps
<1>10. ArchivesFit'
  BY DEF PackageInvariant, ReadDatabase, CommandAt, folderVars, otherVars, ArchivesFit
<1> QED
  BY <1>1, <1>2, <1>3, <1>4, <1>5, <1>6, <1>7, <1>8, <1>9, <1>10 DEF PackageInvariant

LEMMA StartCreateKeeps ==
  ASSUME PackageInvariant, NEW delta \in GoalDeltas, StartCreate(delta)
  PROVE  PackageInvariant'
<1>1. PackageTypeOK'
  <2>1. making' \in MakingRecords
    BY NoPackageCommandFits DEF StartCreate, BeginPackageCommand, MakingRecords,
       CommandSteps
  <2>2. commands' \in 0..MaxCommands
    BY PackageAssumption DEF PackageInvariant, PackageTypeOK, StartCreate,
       BeginPackageCommand
  <2>3. answered' \in AnsweredRecords
    BY DEF PackageInvariant, PackageTypeOK, StartCreate, AnsweredRecords
  <2>4. UNCHANGED <<databases, databaseEdits, snapshot, operations, sidecars,
                     brainPointer, packageManifest, archives,
                     commandFaults>>
    BY DEF StartCreate, BeginPackageCommand, databaseVars, folderVars
  <2> QED
    BY <2>1, <2>2, <2>3, <2>4 DEF PackageInvariant, PackageTypeOK, MakingRecords,
       AnsweredRecords
<1>2. StatsOfEdits'
  BY NoPackageCommandFits, PackageAssumption, NoSnapshotIsNone DEF PackageInvariant,
     StartCreate, BeginPackageCommand, databaseVars, StatsOfEdits, PackageTypeOK, Stats
<1>3. DatabasesRead'
  BY NoPackageCommandFits DEF PackageInvariant, StartCreate, BeginPackageCommand,
     CommandAt, databaseVars, folderVars, DatabasesRead
<1>4. SnapshotIsOf'
  BY DEF PackageInvariant, StartCreate, BeginPackageCommand, CommandAt, databaseVars,
     folderVars, SnapshotIsOf
<1>5. LedgerFits'
  BY NoPackageCommandFits, PackageAssumption, NoSnapshotIsNone DEF PackageInvariant,
     StartCreate, BeginPackageCommand, folderVars, LedgerFits, PackageTypeOK,
     OperationLedgers
<1>6. LedgerTellsOnce'
  BY DEF PackageInvariant, StartCreate, BeginPackageCommand, CommandAt, databaseVars,
     folderVars, LedgerTellsOnce
<1>7. SidecarsFit'
  BY NoPackageCommandFits DEF PackageInvariant, StartCreate, BeginPackageCommand,
     CommandAt, databaseVars, folderVars, SidecarsFit, CutFile
<1>8. ManifestFits'
  BY NoPackageCommandFits DEF PackageInvariant, StartCreate, BeginPackageCommand,
     folderVars, ManifestFits, ExportSteps, PointedSteps, SnapshotSteps
<1>9. FolderIsWhole'
  BY NoPackageCommandFits DEF PackageInvariant, StartCreate, BeginPackageCommand,
     CommandAt, databaseVars, folderVars, FolderIsWhole, ExportSteps
<1>10. ArchivesFit'
  BY NoPackageCommandFits DEF PackageInvariant, StartCreate, BeginPackageCommand,
     CommandAt, databaseVars, folderVars, ArchivesFit, ArchiveIsValid
<1> QED
  BY <1>1, <1>2, <1>3, <1>4, <1>5, <1>6, <1>7, <1>8, <1>9, <1>10 DEF PackageInvariant

LEMMA DiscoverDatabasesKeeps ==
  ASSUME PackageInvariant, DiscoverDatabases
  PROVE  PackageInvariant'
<1>1. PackageTypeOK'
  BY PackageAssumption, NoSnapshotIsNone DEF PackageInvariant, DiscoverDatabases,
     CurrentStats, folderVars, otherVars, databaseVars, limitVars, PackageTypeOK,
     CommandSteps
<1>2. StatsOfEdits'
  BY DEF PackageInvariant, DiscoverDatabases, CommandAt, CurrentStats, otherVars,
     databaseVars, StatsOfEdits
<1>3. DatabasesRead'
  BY DEF PackageInvariant, DiscoverDatabases, limitVars, DatabasesRead
<1>4. SnapshotIsOf'
  BY DEF PackageInvariant, DiscoverDatabases, otherVars, databaseVars, limitVars,
     SnapshotIsOf
<1>5. LedgerFits'
  BY DEF PackageInvariant, DiscoverDatabases, CommandAt, folderVars, otherVars, limitVars,
     LedgerFits
<1>6. LedgerTellsOnce'
  BY DEF PackageInvariant, DiscoverDatabases, SnapshotReusable, folderVars, LedgerTellsOnce
<1>7. SidecarsFit'
  BY DEF PackageInvariant, DiscoverDatabases, CommandAt, folderVars, otherVars, limitVars,
     SidecarsFit
<1>8. ManifestFits'
  BY DEF PackageInvariant, DiscoverDatabases, SnapshotReusable, folderVars, otherVars,
     ManifestFits, ExportSteps, PointedSteps, SnapshotSteps
<1>9. FolderIsWhole'
  BY DEF PackageInvariant, DiscoverDatabases, CommandAt, FolderIsWhole, ExportSteps
<1>10. ArchivesFit'
  BY DEF PackageInvariant, DiscoverDatabases, otherVars, ArchivesFit
<1> QED
  BY <1>1, <1>2, <1>3, <1>4, <1>5, <1>6, <1>7, <1>8, <1>9, <1>10 DEF PackageInvariant

LEMMA ReplaceSnapshotKeeps ==
  ASSUME PackageInvariant, ReplaceSnapshot
  PROVE  PackageInvariant'
<1>1. PackageTypeOK'
  BY PackageAssumption, NoSnapshotIsNone DEF PackageInvariant, ReplaceSnapshot, NextStep,
     StatKept, databaseVars, folderVars, limitVars, PackageTypeOK, Snapshots, CommandSteps
<1>2. StatsOfEdits'
  BY DEF PackageInvariant, ReplaceSnapshot, NextStep, StatKept, databaseVars, StatsOfEdits
<1>3. DatabasesRead'
  BY DEF ReplaceSnapshot, CommandAt, NextStep, StatKept, limitVars, DatabasesRead
<1>4. SnapshotIsOf'
  BY DEF ReplaceSnapshot, StatKept, CommandAt, databaseVars, PackageInvariant,
     DatabasesRead, SnapshotIsOf
<1>5. LedgerFits'
  BY DEF PackageInvariant, ReplaceSnapshot, CommandAt, NextStep, folderVars, limitVars,
     LedgerFits
<1>6. LedgerTellsOnce'
  BY DEF PackageInvariant, ReplaceSnapshot, CommandAt, folderVars, LedgerTellsOnce
<1>7. SidecarsFit'
  BY DEF PackageInvariant, ReplaceSnapshot, CommandAt, NextStep, folderVars, limitVars,
     SidecarsFit
<1>8. ManifestFits'
  BY PackageAssumption, NoSnapshotIsNone DEF PackageInvariant, ReplaceSnapshot, NextStep,
     StatKept, folderVars, ManifestFits, ExportSteps, PointedSteps, PackageTypeOK,
     Snapshots
<1>9. FolderIsWhole'
  BY DEF PackageInvariant, ReplaceSnapshot, CommandAt, NextStep, FolderIsWhole, ExportSteps
<1>10. ArchivesFit'
  BY DEF PackageInvariant, ReplaceSnapshot, CommandAt, NextStep, ArchivesFit
<1> QED
  BY <1>1, <1>2, <1>3, <1>4, <1>5, <1>6, <1>7, <1>8, <1>9, <1>10 DEF PackageInvariant

LEMMA CreateLedgerKeeps ==
  ASSUME PackageInvariant, CreateLedger
  PROVE  PackageInvariant'
<1>1. PackageTypeOK'
  <2>1. operations' \in OperationLedgers
    <3>1. operations \in [exists : BOOLEAN, schema : 0..3, born : 0..3, receipts : 0..3,
                          rows : [RowKinds -> 0..MaxCommands], deltas : [GoalDeltas -> 0..1]]
      BY DEF PackageInvariant, PackageTypeOK, OperationLedgers, LatestSchema
    <3>2. operations' = [operations EXCEPT !.exists = TRUE, !.schema = 3, !.born = 3]
      BY DEF CreateLedger, LatestSchema
    <3>3. 3 \in 0..3
      OBVIOUS
    <3>4. operations' = [exists |-> TRUE, schema |-> 3, born |-> 3,
                         receipts |-> operations.receipts, rows |-> operations.rows,
                         deltas |-> operations.deltas]
      BY <3>1, <3>2
    <3>5. /\ operations.receipts \in 0..3 /\ operations.rows \in [RowKinds -> 0..MaxCommands]
          /\ operations.deltas \in [GoalDeltas -> 0..1]
      BY <3>1
    <3> QED
      BY <3>3, <3>4, <3>5 DEF OperationLedgers, LatestSchema
  <2>2. making' \in MakingRecords
    BY DEF PackageInvariant, PackageTypeOK, CreateLedger, NextStep, MakingRecords,
       CommandSteps,
       RowKinds
  <2>3. sidecars' \in [SidecarKinds -> SUBSET (0..MaxCommands)]
    BY DEF PackageInvariant, PackageTypeOK, CreateLedger
  <2>4. UNCHANGED <<databases, databaseEdits, snapshot, brainPointer, packageManifest, archives,
                     commands, commandFaults, answered>>
    BY DEF CreateLedger, otherVars, databaseVars, limitVars
  <2> QED
    BY <2>1, <2>2, <2>3, <2>4 DEF PackageInvariant, PackageTypeOK, MakingRecords,
       AnsweredRecords
<1>2. StatsOfEdits'
  BY DEF PackageInvariant, CreateLedger, CommandAt, NextStep, otherVars, databaseVars,
     limitVars, StatsOfEdits
<1>3. DatabasesRead'
  BY DEF PackageInvariant, CreateLedger, CommandAt, NextStep, otherVars, databaseVars,
     limitVars, DatabasesRead
<1>4. SnapshotIsOf'
  BY DEF PackageInvariant, CreateLedger, CommandAt, NextStep, otherVars, databaseVars,
     limitVars, SnapshotIsOf
<1>5. LedgerFits'
  BY PackageAssumption, NoSnapshotIsNone DEF PackageInvariant, CreateLedger, CommandAt,
     NextStep, otherVars, limitVars, LedgerFits, LedgerIsUsable, LatestSchema
<1>6. LedgerTellsOnce'
  BY PackageAssumption, NoSnapshotIsNone DEF PackageInvariant, CreateLedger,
     LedgerTellsOnce, LedgerFits, LatestSchema
<1>7. SidecarsFit'
  BY PackageAssumption, NoSnapshotIsNone DEF PackageInvariant, CreateLedger, CommandAt,
     NextStep, otherVars, limitVars, SidecarsFit, SidecarKinds
<1>8. ManifestFits'
  BY DEF PackageInvariant, CreateLedger, CommandAt, NextStep, otherVars, ManifestFits,
     ExportSteps, PointedSteps, SnapshotSteps
<1>9. FolderIsWhole'
  BY DEF PackageInvariant, CreateLedger, CommandAt, FolderIsWhole, ExportSteps
<1>10. ArchivesFit'
  BY DEF PackageInvariant, CreateLedger, CommandAt, NextStep, otherVars, ArchivesFit
<1> QED
  BY <1>1, <1>2, <1>3, <1>4, <1>5, <1>6, <1>7, <1>8, <1>9, <1>10 DEF PackageInvariant

LEMMA MigrateLedgerKeeps ==
  ASSUME PackageInvariant, MigrateLedger
  PROVE  PackageInvariant'
<1>1. PackageTypeOK'
  <2>1. operations' \in OperationLedgers
    <3>1. operations \in [exists : BOOLEAN, schema : 0..3, born : 0..3, receipts : 0..3,
                          rows : [RowKinds -> 0..MaxCommands], deltas : [GoalDeltas -> 0..1]]
      BY DEF PackageInvariant, PackageTypeOK, OperationLedgers, LatestSchema
    <3>2. operations' = [operations EXCEPT !.schema = @ + 1, !.receipts = @ + 1]
      BY DEF MigrateLedger, Migrated
    <3>3. operations.schema \in 0..3 /\ operations.born \in 0..3 /\ operations.receipts \in 0..3
      BY <3>1
    <3>4. operations.schema < 3
      BY DEF MigrateLedger, LatestSchema
    <3>5. operations.receipts = operations.schema - operations.born
      BY DEF PackageInvariant, LedgerTellsOnce
    <3>6. operations.schema + 1 \in 0..3 /\ operations.receipts + 1 \in 0..3
      BY <3>3, <3>4, <3>5
    <3>7. operations' = [exists |-> operations.exists, schema |-> operations.schema + 1,
                         born |-> operations.born, receipts |-> operations.receipts + 1,
                         rows |-> operations.rows, deltas |-> operations.deltas]
      BY <3>1, <3>2
    <3>8. /\ operations.exists \in BOOLEAN /\ operations.born \in 0..3
          /\ operations.rows \in [RowKinds -> 0..MaxCommands]
          /\ operations.deltas \in [GoalDeltas -> 0..1]
      BY <3>1
    <3> QED
      BY <3>6, <3>7, <3>8 DEF OperationLedgers, LatestSchema
  <2>2. sidecars' \in [SidecarKinds -> SUBSET (0..MaxCommands)]
    BY DEF PackageInvariant, PackageTypeOK, MigrateLedger
  <2>3. UNCHANGED <<databases, databaseEdits, snapshot, brainPointer, packageManifest, archives,
                     making, commands, commandFaults, answered>>
    BY DEF MigrateLedger, otherVars, databaseVars, limitVars
  <2> QED
    BY <2>1, <2>2, <2>3 DEF PackageInvariant, PackageTypeOK
<1>2. StatsOfEdits'
  BY DEF PackageInvariant, MigrateLedger, CommandAt, otherVars, databaseVars, StatsOfEdits
<1>3. DatabasesRead'
  BY DEF MigrateLedger, CommandAt, limitVars, DatabasesRead
<1>4. SnapshotIsOf'
  BY DEF PackageInvariant, MigrateLedger, CommandAt, otherVars, databaseVars, SnapshotIsOf
<1>5. LedgerFits'
  BY PackageAssumption, NoSnapshotIsNone DEF PackageInvariant, MigrateLedger,
     LedgerIsUsable, Migrated, otherVars, limitVars, LedgerFits, PackageTypeOK,
     OperationLedgers
<1>6. LedgerTellsOnce'
  BY PackageAssumption, NoSnapshotIsNone DEF PackageInvariant, MigrateLedger, Migrated,
     LedgerTellsOnce, PackageTypeOK, OperationLedgers
<1>7. SidecarsFit'
  BY PackageAssumption, NoSnapshotIsNone DEF PackageInvariant, MigrateLedger, Migrated,
     otherVars, limitVars, SidecarsFit, SidecarKinds
<1>8. ManifestFits'
  BY DEF PackageInvariant, MigrateLedger, CommandAt, otherVars, ManifestFits
<1>9. FolderIsWhole'
  BY DEF PackageInvariant, MigrateLedger, CommandAt, FolderIsWhole, ExportSteps
<1>10. ArchivesFit'
  BY DEF PackageInvariant, MigrateLedger, Migrated, otherVars, ArchivesFit
<1> QED
  BY <1>1, <1>2, <1>3, <1>4, <1>5, <1>6, <1>7, <1>8, <1>9, <1>10 DEF PackageInvariant

LEMMA KeepLedgerKeeps ==
  ASSUME PackageInvariant, KeepLedger
  PROVE  PackageInvariant'
<1>1. PackageTypeOK'
  BY PackageAssumption, NoSnapshotIsNone DEF PackageInvariant, KeepLedger, NextStep,
     folderVars, otherVars, databaseVars, limitVars, PackageTypeOK, CommandSteps
<1>2. StatsOfEdits'
  BY DEF PackageInvariant, KeepLedger, NextStep, otherVars, databaseVars, StatsOfEdits
<1>3. DatabasesRead'
  BY DEF KeepLedger, NextStep, folderVars, DatabasesRead
<1>4. SnapshotIsOf'
  BY DEF PackageInvariant, KeepLedger, otherVars, databaseVars, limitVars, SnapshotIsOf
<1>5. LedgerFits'
  BY DEF PackageInvariant, KeepLedger, CommandAt, LedgerIsUsable, NextStep, folderVars,
     otherVars, limitVars, LedgerFits
<1>6. LedgerTellsOnce'
  BY DEF PackageInvariant, KeepLedger, NextStep, folderVars, LedgerTellsOnce
<1>7. SidecarsFit'
  BY DEF PackageInvariant, KeepLedger, CommandAt, NextStep, folderVars, otherVars,
     limitVars, SidecarsFit
<1>8. ManifestFits'
  BY DEF PackageInvariant, KeepLedger, CommandAt, NextStep, folderVars, otherVars,
     ManifestFits, ExportSteps, PointedSteps, SnapshotSteps
<1>9. FolderIsWhole'
  BY DEF PackageInvariant, KeepLedger, CommandAt, LedgerIsUsable, FolderIsWhole, ExportSteps
<1>10. ArchivesFit'
  BY DEF PackageInvariant, KeepLedger, NextStep, otherVars, ArchivesFit
<1> QED
  BY <1>1, <1>2, <1>3, <1>4, <1>5, <1>6, <1>7, <1>8, <1>9, <1>10 DEF PackageInvariant

LEMMA RefuseHalfLedgerKeeps ==
  ASSUME PackageInvariant, RefuseHalfLedger
  PROVE  PackageInvariant'
<1>1. PackageTypeOK'
  BY NoPackageCommandFits DEF PackageInvariant, PackageTypeOK, RefuseHalfLedger, NextStep,
     MakingRecords, CommandSteps, RowKinds, folderVars, otherVars, databaseVars, limitVars,
     AnsweredRecords
<1>2. StatsOfEdits'
  BY NoPackageCommandFits, PackageAssumption, NoSnapshotIsNone DEF PackageInvariant,
     RefuseHalfLedger, otherVars, databaseVars, StatsOfEdits, PackageTypeOK, Stats
<1>3. DatabasesRead'
  BY NoPackageCommandFits DEF PackageInvariant, RefuseHalfLedger, CommandAt, folderVars,
     otherVars, databaseVars, limitVars, DatabasesRead
<1>4. SnapshotIsOf'
  BY DEF PackageInvariant, RefuseHalfLedger, CommandAt, folderVars, otherVars,
     databaseVars, limitVars, SnapshotIsOf
<1>5. LedgerFits'
  BY NoPackageCommandFits DEF PackageInvariant, RefuseHalfLedger, folderVars, otherVars,
     limitVars, LedgerFits
<1>6. LedgerTellsOnce'
  BY DEF PackageInvariant, RefuseHalfLedger, CommandAt, folderVars, otherVars,
     databaseVars, limitVars, LedgerTellsOnce
<1>7. SidecarsFit'
  BY NoPackageCommandFits DEF PackageInvariant, RefuseHalfLedger, CommandAt, folderVars,
     otherVars, limitVars, SidecarsFit
<1>8. ManifestFits'
  BY NoPackageCommandFits DEF PackageInvariant, RefuseHalfLedger, folderVars, ManifestFits,
     ExportSteps, PointedSteps, SnapshotSteps
<1>9. FolderIsWhole'
  BY NoPackageCommandFits DEF PackageInvariant, RefuseHalfLedger, CommandAt, FolderIsWhole,
     ExportSteps
<1>10. ArchivesFit'
  BY NoPackageCommandFits DEF PackageInvariant, RefuseHalfLedger, CommandAt, folderVars,
     otherVars, ArchivesFit
<1> QED
  BY <1>1, <1>2, <1>3, <1>4, <1>5, <1>6, <1>7, <1>8, <1>9, <1>10 DEF PackageInvariant

LEMMA WriteSidecarsKeeps ==
  ASSUME PackageInvariant, WriteSidecars
  PROVE  PackageInvariant'
<1>1. PackageTypeOK'
  BY PackageAssumption, NoSnapshotIsNone DEF PackageInvariant, WriteSidecars, NextStep,
     Reset, otherVars, databaseVars, limitVars, PackageTypeOK, CommandSteps
<1>2. StatsOfEdits'
  BY DEF PackageInvariant, WriteSidecars, NextStep, otherVars, databaseVars, StatsOfEdits
<1>3. DatabasesRead'
  BY DEF WriteSidecars, CommandAt, NextStep, Reset, limitVars, DatabasesRead
<1>4. SnapshotIsOf'
  BY DEF PackageInvariant, WriteSidecars, CommandAt, otherVars, databaseVars, SnapshotIsOf
<1>5. LedgerFits'
  BY DEF PackageInvariant, WriteSidecars, CommandAt, NextStep, otherVars, limitVars,
     LedgerFits, LedgerIsUsable
<1>6. LedgerTellsOnce'
  BY DEF PackageInvariant, WriteSidecars, CommandAt, LedgerTellsOnce
<1>7. SidecarsFit'
  BY PackageAssumption, NoSnapshotIsNone DEF PackageInvariant, WriteSidecars, CommandAt,
     NextStep, Reset, otherVars, limitVars, SidecarsFit, SidecarKinds
<1>8. ManifestFits'
  BY DEF PackageInvariant, WriteSidecars, CommandAt, NextStep, otherVars, ManifestFits,
     PointedSteps, SnapshotSteps
<1>9. FolderIsWhole'
  BY DEF PackageInvariant, WriteSidecars, CommandAt, NextStep, FolderIsWhole, ExportSteps
<1>10. ArchivesFit'
  BY DEF PackageInvariant, WriteSidecars, CommandAt, NextStep, Reset, otherVars,
     ArchivesFit
<1> QED
  BY <1>1, <1>2, <1>3, <1>4, <1>5, <1>6, <1>7, <1>8, <1>9, <1>10 DEF PackageInvariant

LEMMA WritePackagePointersKeeps ==
  ASSUME PackageInvariant, WritePackagePointers
  PROVE  PackageInvariant'
<1>1. PackageTypeOK'
  BY PackageAssumption, NoSnapshotIsNone DEF PackageInvariant, WritePackagePointers,
     CommandAt, NextStep, otherVars, databaseVars, limitVars, ManifestFits, SnapshotSteps,
     PackageTypeOK, Snapshots, CommandSteps
<1>2. StatsOfEdits'
  BY DEF PackageInvariant, WritePackagePointers, CommandAt, NextStep, otherVars,
     databaseVars, limitVars, StatsOfEdits
<1>3. DatabasesRead'
  BY DEF PackageInvariant, WritePackagePointers, CommandAt, NextStep, otherVars,
     databaseVars, limitVars, DatabasesRead
<1>4. SnapshotIsOf'
  BY DEF PackageInvariant, WritePackagePointers, CommandAt, NextStep, otherVars,
     databaseVars, limitVars, SnapshotIsOf
<1>5. LedgerFits'
  BY DEF PackageInvariant, WritePackagePointers, CommandAt, NextStep, otherVars, limitVars,
     LedgerFits, LedgerIsUsable
<1>6. LedgerTellsOnce'
  BY DEF PackageInvariant, WritePackagePointers, CommandAt, NextStep, otherVars,
     databaseVars, limitVars, LedgerTellsOnce
<1>7. SidecarsFit'
  BY DEF PackageInvariant, WritePackagePointers, CommandAt, NextStep, otherVars, limitVars,
     SidecarsFit
<1>8. ManifestFits'
  BY DEF PackageInvariant, WritePackagePointers, CommandAt, NextStep, otherVars,
     ManifestFits, SnapshotSteps
<1>9. FolderIsWhole'
  BY DEF PackageInvariant, WritePackagePointers, CommandAt, FolderIsWhole, ExportSteps
<1>10. ArchivesFit'
  BY DEF PackageInvariant, WritePackagePointers, CommandAt, NextStep, otherVars,
     ArchivesFit
<1> QED
  BY <1>1, <1>2, <1>3, <1>4, <1>5, <1>6, <1>7, <1>8, <1>9, <1>10 DEF PackageInvariant

LEMMA WritePackageManifestKeeps ==
  ASSUME PackageInvariant, WritePackageManifest
  PROVE  PackageInvariant'
<1>1. PackageTypeOK'
  BY PackageAssumption, NoSnapshotIsNone DEF PackageInvariant, WritePackageManifest,
     ManifestOf, NextStep, otherVars, FixedFiles, OperationalFiles, databaseVars,
     limitVars, PackageTypeOK, FixedParts, OperationalParts, Manifests, CommandSteps
<1>2. StatsOfEdits'
  BY DEF PackageInvariant, WritePackageManifest, NextStep, otherVars, databaseVars,
     StatsOfEdits
<1>3. DatabasesRead'
  BY DEF PackageInvariant, WritePackageManifest, ManifestOf, NextStep, DatabasesRead
<1>4. SnapshotIsOf'
  BY DEF PackageInvariant, WritePackageManifest, otherVars, databaseVars, SnapshotIsOf
<1>5. LedgerFits'
  BY DEF PackageInvariant, WritePackageManifest, CommandAt, NextStep, otherVars, limitVars,
     LedgerFits, LedgerIsUsable
<1>6. LedgerTellsOnce'
  BY DEF PackageInvariant, WritePackageManifest, CommandAt, limitVars, LedgerTellsOnce
<1>7. SidecarsFit'
  BY DEF PackageInvariant, WritePackageManifest, CommandAt, NextStep, otherVars, limitVars,
     SidecarsFit
<1>8. ManifestFits'
  <2>1. /\ packageManifest' = ManifestOf(FALSE) /\ UNCHANGED <<snapshot, brainPointer>>
        /\ making.step = "manifest" /\ making' = [making EXCEPT !.step = "validate"]
    BY DEF WritePackageManifest, CommandAt, NextStep, otherVars
  <2>2. /\ ManifestOf(FALSE).fixed = FixedFiles /\ ManifestOf(FALSE).frozen = FALSE
        /\ ManifestOf(FALSE) # NoSnapshot
    BY ManifestOfFits DEF PackageInvariant
  <2>3. FixedFiles.snapshot = snapshot /\ FixedFiles.pointer = brainPointer
    BY DEF FixedFiles
  <2>4. making'.step = "validate"
    BY <2>1 DEF PackageInvariant, PackageTypeOK
  <2> QED
    BY <2>1, <2>2, <2>3, <2>4 DEF PackageInvariant, ManifestFits, SnapshotSteps, PointedSteps,
       ExportSteps
<1>9. FolderIsWhole'
  BY DEF PackageInvariant, WritePackageManifest, CommandAt, ManifestOf, FolderIsWhole,
     ExportSteps
<1>10. ArchivesFit'
  BY DEF PackageInvariant, WritePackageManifest, NextStep, otherVars, ArchivesFit
<1> QED
  BY <1>1, <1>2, <1>3, <1>4, <1>5, <1>6, <1>7, <1>8, <1>9, <1>10 DEF PackageInvariant

LEMMA ValidatePackageKeeps ==
  ASSUME PackageInvariant, ValidatePackage
  PROVE  PackageInvariant'
<1>1. PackageTypeOK'
  BY PackageAssumption, NoSnapshotIsNone DEF PackageInvariant, ValidatePackage, NextStep,
     folderVars, otherVars, databaseVars, limitVars, PackageTypeOK, CommandSteps
<1>2. StatsOfEdits'
  BY DEF PackageInvariant, ValidatePackage, NextStep, otherVars, databaseVars, StatsOfEdits
<1>3. DatabasesRead'
  BY DEF ValidatePackage, CommandAt, NextStep, PackageIsValid, limitVars, DatabasesRead
<1>4. SnapshotIsOf'
  BY DEF PackageInvariant, ValidatePackage, otherVars, databaseVars, SnapshotIsOf
<1>5. LedgerFits'
  BY DEF PackageInvariant, ValidatePackage, CommandAt, NextStep, folderVars, otherVars,
     LedgerIsUsable, limitVars, LedgerFits
<1>6. LedgerTellsOnce'
  BY DEF PackageInvariant, ValidatePackage, CommandAt, folderVars, LedgerTellsOnce
<1>7. SidecarsFit'
  BY DEF PackageInvariant, ValidatePackage, CommandAt, NextStep, folderVars, otherVars,
     limitVars, SidecarsFit
<1>8. ManifestFits'
  BY DEF PackageInvariant, ValidatePackage, CommandAt, PackageIsValid, folderVars,
     otherVars, FixedFiles, LedgerIsUsable, ManifestFits
<1>9. FolderIsWhole'
  BY DEF PackageInvariant, ValidatePackage, CommandAt, NextStep, FolderIsWhole, ExportSteps
<1>10. ArchivesFit'
  BY DEF PackageInvariant, ValidatePackage, CommandAt, NextStep, otherVars, ArchivesFit
<1> QED
  BY <1>1, <1>2, <1>3, <1>4, <1>5, <1>6, <1>7, <1>8, <1>9, <1>10 DEF PackageInvariant

LEMMA RegisterDeltaKeeps ==
  ASSUME PackageInvariant, RegisterDelta
  PROVE  PackageInvariant'
<1>1. PackageTypeOK'
  <2>1. making' \in MakingRecords
    BY NoPackageCommandFits DEF PackageInvariant, PackageTypeOK, RegisterDelta, NextStep,
       MakingRecords, CommandSteps, RowKinds
  <2>2. operations' \in OperationLedgers
    BY DEF PackageInvariant, PackageTypeOK, RegisterDelta, RegisteredOnce,
       OperationLedgers
  <2>3. answered' \in AnsweredRecords
    BY DEF PackageInvariant, PackageTypeOK, RegisterDelta, AnsweredRecords
  <2>4. UNCHANGED <<databases, databaseEdits, snapshot, sidecars, brainPointer,
                     packageManifest, archives, commands,
                     commandFaults>>
    BY DEF RegisterDelta, otherVars, databaseVars, limitVars
  <2> QED
    BY <2>1, <2>2, <2>3, <2>4 DEF PackageInvariant, PackageTypeOK, MakingRecords,
       AnsweredRecords
<1>2. StatsOfEdits'
  BY NoPackageCommandFits, PackageAssumption, NoSnapshotIsNone DEF PackageInvariant,
     RegisterDelta, otherVars, databaseVars, StatsOfEdits, PackageTypeOK, Stats
<1>3. DatabasesRead'
  BY NoPackageCommandFits DEF PackageInvariant, RegisterDelta, CommandAt, RegisteredOnce,
     otherVars, databaseVars, limitVars, DatabasesRead
<1>4. SnapshotIsOf'
  BY DEF PackageInvariant, RegisterDelta, CommandAt, RegisteredOnce, otherVars,
     databaseVars, limitVars, SnapshotIsOf
<1>5. LedgerFits'
  BY NoPackageCommandFits DEF PackageInvariant, RegisterDelta, RegisteredOnce, otherVars,
     limitVars, LedgerFits
<1>6. LedgerTellsOnce'
  BY PackageAssumption, NoSnapshotIsNone DEF PackageInvariant, RegisterDelta,
     RegisteredOnce, LedgerTellsOnce, PackageTypeOK, OperationLedgers
<1>7. SidecarsFit'
  BY NoPackageCommandFits DEF PackageInvariant, RegisterDelta, CommandAt, RegisteredOnce,
     otherVars, limitVars, SidecarsFit
<1>8. ManifestFits'
  BY NoPackageCommandFits DEF PackageInvariant, RegisterDelta, CommandAt, otherVars,
     ManifestFits, PackageIsValid, PointedSteps
<1>9. FolderIsWhole'
  BY NoPackageCommandFits DEF PackageInvariant, RegisterDelta, CommandAt, RegisteredOnce,
     otherVars, FolderIsWhole, PackageIsValid, FixedFiles, LedgerIsUsable, ManifestFits
<1>10. ArchivesFit'
  BY NoPackageCommandFits DEF PackageInvariant, RegisterDelta, CommandAt, RegisteredOnce,
     otherVars, ArchivesFit
<1> QED
  BY <1>1, <1>2, <1>3, <1>4, <1>5, <1>6, <1>7, <1>8, <1>9, <1>10 DEF PackageInvariant

LEMMA StartAppendKeeps ==
  ASSUME PackageInvariant, NEW kind \in RowKinds, StartAppend(kind)
  PROVE  PackageInvariant'
<1>1. PackageTypeOK'
  <2>1. making' \in MakingRecords
    BY NoPackageCommandFits DEF StartAppend, BeginPackageCommand, MakingRecords,
       CommandSteps
  <2>2. commands' \in 0..MaxCommands
    BY PackageAssumption DEF PackageInvariant, PackageTypeOK, StartAppend,
       BeginPackageCommand
  <2>3. UNCHANGED <<databases, databaseEdits, snapshot, operations, sidecars,
                     brainPointer, packageManifest, archives,
                     commandFaults, answered>>
    BY DEF StartAppend, BeginPackageCommand, databaseVars, folderVars
  <2> QED
    BY <2>1, <2>2, <2>3 DEF PackageInvariant, PackageTypeOK, MakingRecords, AnsweredRecords
<1>2. StatsOfEdits'
  BY NoPackageCommandFits, PackageAssumption, NoSnapshotIsNone DEF PackageInvariant,
     StartAppend, BeginPackageCommand, databaseVars, StatsOfEdits, PackageTypeOK, Stats
<1>3. DatabasesRead'
  BY NoPackageCommandFits DEF PackageInvariant, StartAppend, BeginPackageCommand,
     CommandAt, databaseVars, folderVars, DatabasesRead
<1>4. SnapshotIsOf'
  BY DEF PackageInvariant, StartAppend, BeginPackageCommand, CommandAt, databaseVars,
     folderVars, SnapshotIsOf
<1>5. LedgerFits'
  BY NoPackageCommandFits, PackageAssumption, NoSnapshotIsNone DEF PackageInvariant,
     StartAppend, BeginPackageCommand, folderVars, LedgerFits, LedgerIsUsable,
     PackageTypeOK, OperationLedgers, RowKinds, FirstSchema
<1>6. LedgerTellsOnce'
  BY DEF PackageInvariant, StartAppend, BeginPackageCommand, CommandAt, databaseVars,
     folderVars, LedgerTellsOnce
<1>7. SidecarsFit'
  BY NoPackageCommandFits DEF PackageInvariant, StartAppend, BeginPackageCommand,
     CommandAt, databaseVars, folderVars, SidecarsFit, CutFile
<1>8. ManifestFits'
  BY NoPackageCommandFits DEF PackageInvariant, StartAppend, BeginPackageCommand,
     folderVars, ManifestFits, ExportSteps, PointedSteps, SnapshotSteps
<1>9. FolderIsWhole'
  BY NoPackageCommandFits DEF PackageInvariant, StartAppend, BeginPackageCommand,
     CommandAt, folderVars, FolderIsWhole, PackageIsValid, FixedFiles, LedgerIsUsable
<1>10. ArchivesFit'
  BY NoPackageCommandFits DEF PackageInvariant, StartAppend, BeginPackageCommand,
     CommandAt, databaseVars, folderVars, ArchivesFit, ArchiveIsValid
<1> QED
  BY <1>1, <1>2, <1>3, <1>4, <1>5, <1>6, <1>7, <1>8, <1>9, <1>10 DEF PackageInvariant

LEMMA AppendRowKeeps ==
  ASSUME PackageInvariant, AppendRow
  PROVE  PackageInvariant'
<1>1. PackageTypeOK'
  <2>1. making' \in MakingRecords
    BY NoPackageCommandFits DEF PackageInvariant, PackageTypeOK, AppendRow, NextStep,
       MakingRecords, CommandSteps, RowKinds
  <2>2. operations' \in OperationLedgers
    BY SMTT(30), PackageAssumption DEF PackageInvariant, PackageTypeOK, AppendRow, CommandAt,
       LedgerFits, OperationLedgers
  <2>3. UNCHANGED <<databases, databaseEdits, snapshot, sidecars, brainPointer,
                     packageManifest, archives, commands,
                     commandFaults, answered>>
    BY DEF AppendRow, otherVars, databaseVars, limitVars
  <2> QED
    BY <2>1, <2>2, <2>3 DEF PackageInvariant, PackageTypeOK, MakingRecords, AnsweredRecords
<1>2. StatsOfEdits'
  BY NoPackageCommandFits DEF AppendRow, NextStep, PackageInvariant, PackageTypeOK, Stats,
     StatsOfEdits, otherVars, databaseVars
<1>3. DatabasesRead'
  BY NoPackageCommandFits, PackageAssumption, NoSnapshotIsNone DEF PackageInvariant,
     AppendRow, NextStep, DatabasesRead, PackageTypeOK
<1>4. SnapshotIsOf'
  BY DEF PackageInvariant, AppendRow, CommandAt, NextStep, otherVars, databaseVars,
     limitVars, SnapshotIsOf
<1>5. LedgerFits'
  BY NoPackageCommandFits, PackageAssumption, NoSnapshotIsNone DEF PackageInvariant,
     AppendRow, CommandAt, NextStep, otherVars, limitVars, LedgerFits, LedgerIsUsable,
     PackageTypeOK, OperationLedgers
<1>6. LedgerTellsOnce'
  BY DEF PackageInvariant, AppendRow, CommandAt, NextStep, otherVars, databaseVars,
     limitVars, LedgerTellsOnce
<1>7. SidecarsFit'
  <2>1. /\ making.step = "row" /\ making.kind \in RowKinds /\ UNCHANGED <<sidecars, commandFaults>>
        /\ operations' = [operations EXCEPT !.rows[making.kind] = @ + 1]
        /\ operations.rows \in [RowKinds -> Nat] /\ sidecars \in [SidecarKinds -> SUBSET Nat]
    BY DEF AppendRow, CommandAt, otherVars, limitVars, PackageInvariant, PackageTypeOK,
       OperationLedgers
  <2>2. \A k \in RowKinds : operations'.rows[k] =
            IF k = making.kind THEN operations.rows[k] + 1 ELSE operations.rows[k]
    BY <2>1 DEF PackageInvariant, PackageTypeOK, OperationLedgers
  <2>3. /\ making.kind \in SidecarKinds => making'.step = "sidecar" /\ making'.kind = making.kind
        /\ making.kind \notin SidecarKinds => making'.step = "idle"
    BY NoPackageCommandFits DEF AppendRow, NextStep, PackageInvariant, PackageTypeOK
  <2>4. SidecarKinds \subseteq RowKinds /\ "steer" \in SidecarKinds
    BY DEF SidecarKinds, RowKinds
  <2>5. \A k \in SidecarKinds :
            sidecars[k] \subseteq 1..operations'.rows[k] \/ sidecars[k] = CutFile
    BY <2>1, <2>2, <2>4 DEF PackageInvariant, SidecarsFit
  <2>6. commandFaults = 0 => sidecars.steer = 1..operations.rows.steer
    BY <2>1 DEF PackageInvariant, SidecarsFit
  <2>7. CASE making.kind = "steer"
    <3>1. operations'.rows.steer = operations.rows.steer + 1 /\ operations.rows.steer \in Nat
      BY <2>1, <2>2, <2>4, <2>7
    <3>2. operations'.rows.steer - 1 = operations.rows.steer
      BY <3>1
    <3>3. making'.step = "sidecar" /\ making'.kind = "steer" /\ operations'.rows.steer >= 1
      BY <2>3, <2>4, <2>7, <3>1
    <3> QED
      BY <2>1, <2>4, <2>5, <2>6, <3>2, <3>3 DEF SidecarsFit
  <2>8. CASE making.kind # "steer"
    BY <2>2, <2>4, <2>8, <2>1, <2>3, <2>5, <2>6 DEF SidecarsFit
  <2> QED
    BY <2>7, <2>8
<1>8. ManifestFits'
  BY NoPackageCommandFits, PackageAssumption, NoSnapshotIsNone DEF PackageInvariant,
     AppendRow, NextStep, ManifestFits, ExportSteps, PointedSteps, SnapshotSteps,
     PackageTypeOK
<1>9. FolderIsWhole'
  BY NoPackageCommandFits, PackageAssumption, NoSnapshotIsNone DEF PackageInvariant,
     AppendRow, CommandAt, NextStep, otherVars, FolderIsWhole, PackageIsValid, FixedFiles,
     LedgerIsUsable, PackageTypeOK
<1>10. ArchivesFit'
  BY NoPackageCommandFits DEF AppendRow, NextStep, PackageInvariant, PackageTypeOK,
     ArchivesFit, ArchiveIsValid, otherVars
<1> QED
  BY <1>1, <1>2, <1>3, <1>4, <1>5, <1>6, <1>7, <1>8, <1>9, <1>10 DEF PackageInvariant

LEMMA WriteSidecarKeeps ==
  ASSUME PackageInvariant, WriteSidecar
  PROVE  PackageInvariant'
<1>1. PackageTypeOK'
  <2>1. making' \in MakingRecords
    BY NoPackageCommandFits DEF PackageInvariant, PackageTypeOK, WriteSidecar, NextStep,
       MakingRecords, CommandSteps, RowKinds
  <2>2. sidecars' \in [SidecarKinds -> SUBSET (0..MaxCommands)]
    BY DEF PackageInvariant, PackageTypeOK, WriteSidecar, Shown, SidecarsFit, CommandAt,
       OperationLedgers
  <2>3. UNCHANGED <<databases, databaseEdits, snapshot, operations, brainPointer,
                     packageManifest, archives, commands,
                     commandFaults, answered>>
    BY DEF WriteSidecar, otherVars, databaseVars, limitVars
  <2> QED
    BY <2>1, <2>2, <2>3 DEF PackageInvariant, PackageTypeOK, MakingRecords, AnsweredRecords
<1>2. StatsOfEdits'
  BY NoPackageCommandFits, PackageAssumption, NoSnapshotIsNone DEF PackageInvariant,
     WriteSidecar, otherVars, databaseVars, StatsOfEdits, PackageTypeOK, Stats
<1>3. DatabasesRead'
  BY NoPackageCommandFits DEF WriteSidecar, CommandAt, limitVars, DatabasesRead
<1>4. SnapshotIsOf'
  BY DEF PackageInvariant, WriteSidecar, CommandAt, otherVars, databaseVars, SnapshotIsOf
<1>5. LedgerFits'
  BY NoPackageCommandFits DEF PackageInvariant, WriteSidecar, otherVars, limitVars,
     LedgerFits
<1>6. LedgerTellsOnce'
  BY DEF PackageInvariant, WriteSidecar, CommandAt, LedgerTellsOnce
<1>7. SidecarsFit'
  <2>1. /\ making.step = "sidecar" /\ UNCHANGED <<operations, commandFaults>>
        /\ sidecars' = [sidecars EXCEPT ![making.kind] = Shown(making.kind)]
        /\ sidecars \in [SidecarKinds -> SUBSET (0..MaxCommands)]
        /\ making.kind = "steer" => sidecars.steer # CutFile
        /\ making'.step = "idle"
    BY MakingEnds DEF WriteSidecar, CommandAt, otherVars, limitVars, PackageInvariant,
       PackageTypeOK
  <2>2. /\ making.kind \in SidecarKinds /\ operations.rows[making.kind] >= 1
        /\ operations.rows[making.kind] \in Nat
    BY <2>1 DEF PackageInvariant, PackageTypeOK, SidecarsFit, OperationLedgers,
       SidecarKinds, RowKinds
  <2>3. \A k \in SidecarKinds :
            sidecars'[k] = IF k = making.kind THEN Shown(k) ELSE sidecars[k]
    BY <2>1
  <2>4. Shown(making.kind) \subseteq 1..operations.rows[making.kind]
    BY <2>2, <2>1 DEF PackageInvariant, SidecarsFit, SidecarKinds, Shown
  <2>5. commandFaults = 0 => sidecars'.steer = 1..operations.rows.steer
    <3> SUFFICES ASSUME commandFaults = 0 PROVE sidecars'.steer = 1..operations.rows.steer
      OBVIOUS
    <3>1. CASE making.kind = "steer"
      BY <2>1, <3>1, <2>3, <2>2 DEF PackageInvariant, SidecarsFit, Shown, SidecarKinds
    <3>2. CASE making.kind # "steer"
      BY <2>3, <3>2 DEF PackageInvariant, SidecarsFit, SidecarKinds
    <3> QED
      BY <3>1, <3>2
  <2> QED
    BY <2>1, <2>3, <2>4, <2>5 DEF PackageInvariant, SidecarsFit
<1>8. ManifestFits'
  BY NoPackageCommandFits DEF PackageInvariant, WriteSidecar, ManifestFits, ExportSteps,
     PointedSteps, SnapshotSteps
<1>9. FolderIsWhole'
  BY NoPackageCommandFits DEF PackageInvariant, WriteSidecar, CommandAt, otherVars,
     FolderIsWhole, PackageIsValid, FixedFiles, LedgerIsUsable
<1>10. ArchivesFit'
  BY NoPackageCommandFits DEF PackageInvariant, WriteSidecar, Shown, otherVars, ArchivesFit
<1> QED
  BY <1>1, <1>2, <1>3, <1>4, <1>5, <1>6, <1>7, <1>8, <1>9, <1>10 DEF PackageInvariant

LEMMA RefuseCutLogKeeps ==
  ASSUME PackageInvariant, RefuseCutLog
  PROVE  PackageInvariant'
<1>1. PackageTypeOK'
  BY NoPackageCommandFits DEF PackageInvariant, PackageTypeOK, RefuseCutLog, NextStep,
     MakingRecords, CommandSteps, RowKinds, folderVars, otherVars, databaseVars, limitVars,
     AnsweredRecords
<1>2. StatsOfEdits'
  BY NoPackageCommandFits, PackageAssumption, NoSnapshotIsNone DEF PackageInvariant,
     RefuseCutLog, otherVars, databaseVars, StatsOfEdits, PackageTypeOK, Stats
<1>3. DatabasesRead'
  BY NoPackageCommandFits DEF RefuseCutLog, CommandAt, limitVars, DatabasesRead
<1>4. SnapshotIsOf'
  BY DEF PackageInvariant, RefuseCutLog, CommandAt, otherVars, databaseVars, SnapshotIsOf
<1>5. LedgerFits'
  BY NoPackageCommandFits DEF PackageInvariant, RefuseCutLog, folderVars, otherVars,
     limitVars, LedgerFits
<1>6. LedgerTellsOnce'
  BY DEF PackageInvariant, RefuseCutLog, CommandAt, CutFile, folderVars, LedgerTellsOnce
<1>7. SidecarsFit'
  BY NoPackageCommandFits DEF PackageInvariant, RefuseCutLog, CutFile, folderVars,
     otherVars, limitVars, SidecarsFit
<1>8. ManifestFits'
  BY NoPackageCommandFits DEF PackageInvariant, RefuseCutLog, folderVars, ManifestFits,
     ExportSteps, PointedSteps, SnapshotSteps
<1>9. FolderIsWhole'
  BY NoPackageCommandFits DEF PackageInvariant, RefuseCutLog, CommandAt, folderVars,
     otherVars, FolderIsWhole, PackageIsValid, FixedFiles, LedgerIsUsable
<1>10. ArchivesFit'
  BY NoPackageCommandFits DEF PackageInvariant, RefuseCutLog, folderVars, otherVars,
     ArchivesFit
<1> QED
  BY <1>1, <1>2, <1>3, <1>4, <1>5, <1>6, <1>7, <1>8, <1>9, <1>10 DEF PackageInvariant

LEMMA StartExportKeeps ==
  ASSUME PackageInvariant, StartExport
  PROVE  PackageInvariant'
<1>1. PackageTypeOK'
  <2>1. making' \in MakingRecords
    BY NoPackageCommandFits DEF StartExport, BeginPackageCommand, MakingRecords,
       CommandSteps
  <2>2. commands' \in 0..MaxCommands
    BY PackageAssumption DEF PackageInvariant, PackageTypeOK, StartExport,
       BeginPackageCommand
  <2>3. UNCHANGED <<databases, databaseEdits, snapshot, operations, sidecars,
                     brainPointer, packageManifest, archives,
                     commandFaults, answered>>
    BY DEF StartExport, BeginPackageCommand, databaseVars, folderVars
  <2> QED
    BY <2>1, <2>2, <2>3 DEF PackageInvariant, PackageTypeOK, MakingRecords, AnsweredRecords
<1>2. StatsOfEdits'
  BY NoPackageCommandFits, PackageAssumption, NoSnapshotIsNone DEF PackageInvariant,
     StartExport, BeginPackageCommand, databaseVars, StatsOfEdits, PackageTypeOK, Stats
<1>3. DatabasesRead'
  BY NoPackageCommandFits DEF PackageInvariant, StartExport, BeginPackageCommand,
     OperationalFiles, DatabasesRead
<1>4. SnapshotIsOf'
  BY DEF PackageInvariant, StartExport, BeginPackageCommand, databaseVars, SnapshotIsOf
<1>5. LedgerFits'
  BY NoPackageCommandFits, PackageAssumption, NoSnapshotIsNone DEF PackageInvariant,
     StartExport, BeginPackageCommand, folderVars, LedgerFits, PackageTypeOK,
     OperationLedgers
<1>6. LedgerTellsOnce'
  BY DEF PackageInvariant, StartExport, BeginPackageCommand, folderVars, LedgerTellsOnce
<1>7. SidecarsFit'
  BY NoPackageCommandFits DEF PackageInvariant, StartExport, BeginPackageCommand,
     CommandAt, folderVars, SidecarsFit
<1>8. ManifestFits'
  BY NoPackageCommandFits DEF PackageInvariant, StartExport, BeginPackageCommand,
     PackageIsValid, folderVars, FixedFiles, ManifestFits
<1>9. FolderIsWhole'
  BY NoPackageCommandFits DEF PackageInvariant, StartExport, BeginPackageCommand,
     PackageIsValid, CommandAt, folderVars, FixedFiles, LedgerIsUsable, FolderIsWhole,
     ExportSteps
<1>10. ArchivesFit'
  BY NoPackageCommandFits DEF PackageInvariant, StartExport, BeginPackageCommand,
     PackageIsValid, folderVars, ArchivesFit
<1> QED
  BY <1>1, <1>2, <1>3, <1>4, <1>5, <1>6, <1>7, <1>8, <1>9, <1>10 DEF PackageInvariant

LEMMA FreezeManifestKeeps ==
  ASSUME PackageInvariant, FreezeManifest
  PROVE  PackageInvariant'
<1>1. PackageTypeOK'
  BY PackageAssumption, NoSnapshotIsNone DEF PackageInvariant, FreezeManifest, ManifestOf,
     NextStep, otherVars, FixedFiles, OperationalFiles, databaseVars, limitVars,
     PackageTypeOK, FixedParts, OperationalParts, Manifests, CommandSteps
<1>2. StatsOfEdits'
  BY DEF PackageInvariant, FreezeManifest, NextStep, otherVars, databaseVars, StatsOfEdits
<1>3. DatabasesRead'
  BY DEF PackageInvariant, FreezeManifest, ManifestOf, NextStep, DatabasesRead
<1>4. SnapshotIsOf'
  BY DEF PackageInvariant, FreezeManifest, otherVars, databaseVars, SnapshotIsOf
<1>5. LedgerFits'
  BY DEF PackageInvariant, FreezeManifest, CommandAt, NextStep, otherVars, limitVars,
     LedgerFits
<1>6. LedgerTellsOnce'
  BY DEF PackageInvariant, FreezeManifest, CommandAt, limitVars, LedgerTellsOnce
<1>7. SidecarsFit'
  BY DEF PackageInvariant, FreezeManifest, CommandAt, NextStep, otherVars, limitVars,
     SidecarsFit
<1>8. ManifestFits'
  BY DEF PackageInvariant, FreezeManifest, CommandAt, ManifestOf, NextStep, otherVars,
     FixedFiles, ManifestFits, ExportSteps
<1>9. FolderIsWhole'
  BY NoPackageCommandFits, ManifestOfFits DEF FreezeManifest, CommandAt, NextStep,
     otherVars, PackageInvariant, PackageTypeOK, FixedFiles, OperationalFiles,
     LedgerIsUsable, FolderIsWhole, PackageIsValid, ExportSteps
<1>10. ArchivesFit'
  BY DEF PackageInvariant, FreezeManifest, CommandAt, ManifestOf, NextStep, otherVars,
     ArchivesFit
<1> QED
  BY <1>1, <1>2, <1>3, <1>4, <1>5, <1>6, <1>7, <1>8, <1>9, <1>10 DEF PackageInvariant

LEMMA WriteArchiveKeeps ==
  ASSUME PackageInvariant, WriteArchive
  PROVE  PackageInvariant'
<1>1. PackageTypeOK'
  BY PackageAssumption, NoSnapshotIsNone DEF PackageInvariant, WriteArchive, Members,
     NextStep, PackageIsValid, databaseVars, folderVars, limitVars, OperationalFiles,
     PackageTypeOK, OperationalParts, Manifests, Archives, CommandSteps
<1>2. StatsOfEdits'
  BY DEF PackageInvariant, WriteArchive, NextStep, databaseVars, StatsOfEdits
<1>3. DatabasesRead'
  BY DEF WriteArchive, CommandAt, Members, NextStep, LedgerIsUsable, DatabasesRead
<1>4. SnapshotIsOf'
  BY DEF PackageInvariant, WriteArchive, CommandAt, databaseVars, SnapshotIsOf
<1>5. LedgerFits'
  BY DEF PackageInvariant, WriteArchive, CommandAt, NextStep, folderVars, limitVars,
     LedgerFits
<1>6. LedgerTellsOnce'
  BY DEF PackageInvariant, WriteArchive, CommandAt, folderVars, LedgerTellsOnce
<1>7. SidecarsFit'
  BY DEF PackageInvariant, WriteArchive, CommandAt, NextStep, folderVars, limitVars,
     SidecarsFit
<1>8. ManifestFits'
  BY DEF PackageInvariant, WriteArchive, CommandAt, NextStep, folderVars, ManifestFits,
     ExportSteps
<1>9. FolderIsWhole'
  BY DEF WriteArchive, NextStep, PackageIsValid, folderVars, FixedFiles, OperationalFiles,
     LedgerIsUsable, FolderIsWhole, ExportSteps
<1>10. ArchivesFit'
  BY DEF PackageInvariant, WriteArchive, CommandAt, Members, NextStep, FixedFiles,
     ArchivesFit, ManifestFits, ExportSteps
<1> QED
  BY <1>1, <1>2, <1>3, <1>4, <1>5, <1>6, <1>7, <1>8, <1>9, <1>10 DEF PackageInvariant

LEMMA ThawManifestKeeps ==
  ASSUME PackageInvariant, ThawManifest
  PROVE  PackageInvariant'
<1>1. PackageTypeOK'
  BY NoPackageCommandFits, ManifestOfFits DEF PackageInvariant, PackageTypeOK,
     ThawManifest, NextStep, MakingRecords, CommandSteps, RowKinds, AnsweredRecords,
     otherVars, databaseVars, limitVars
<1>2. StatsOfEdits'
  BY NoPackageCommandFits, PackageAssumption, NoSnapshotIsNone DEF PackageInvariant,
     ThawManifest, otherVars, databaseVars, StatsOfEdits, PackageTypeOK, Stats
<1>3. DatabasesRead'
  BY NoPackageCommandFits DEF PackageInvariant, ThawManifest, ArchiveIsValid, limitVars,
     DatabasesRead
<1>4. SnapshotIsOf'
  BY DEF PackageInvariant, ThawManifest, otherVars, databaseVars, SnapshotIsOf
<1>5. LedgerFits'
  BY NoPackageCommandFits DEF PackageInvariant, ThawManifest, otherVars, limitVars,
     LedgerFits
<1>6. LedgerTellsOnce'
  BY DEF PackageInvariant, ThawManifest, ArchiveIsValid, limitVars, LedgerTellsOnce
<1>7. SidecarsFit'
  BY NoPackageCommandFits DEF PackageInvariant, ThawManifest, CommandAt, otherVars,
     limitVars, SidecarsFit
<1>8. ManifestFits'
  BY NoPackageCommandFits DEF PackageInvariant, ThawManifest, CommandAt, ManifestOf,
     otherVars, FixedFiles, ManifestFits, ExportSteps
<1>9. FolderIsWhole'
  BY NoPackageCommandFits, ManifestOfFits DEF ThawManifest, CommandAt, NextStep, otherVars,
     PackageInvariant, PackageTypeOK, FixedFiles, OperationalFiles, LedgerIsUsable,
     FolderIsWhole, PackageIsValid, ExportSteps
<1>10. ArchivesFit'
  BY NoPackageCommandFits DEF PackageInvariant, ThawManifest, otherVars, ArchivesFit
<1> QED
  BY <1>1, <1>2, <1>3, <1>4, <1>5, <1>6, <1>7, <1>8, <1>9, <1>10 DEF PackageInvariant

LEMMA FailCommandKeeps ==
  ASSUME PackageInvariant, FailCommand
  PROVE  PackageInvariant'
<1>1. PackageTypeOK'
  <2>1. making' \in MakingRecords
    BY NoPackageCommandFits DEF PackageInvariant, PackageTypeOK, FailCommand, NextStep,
       MakingRecords, CommandSteps, RowKinds
  <2>2. operations' \in OperationLedgers
    BY DEF PackageInvariant, PackageTypeOK, FailCommand, HalfMade, OperationLedgers
  <2>3. commandFaults' \in 0..MaxCommandFaults
    BY PackageAssumption DEF PackageInvariant, PackageTypeOK, FailCommand, CommandFaults
  <2>4. UNCHANGED <<databases, databaseEdits, snapshot, sidecars, brainPointer,
                     packageManifest, archives, commands, answered>>
    BY DEF FailCommand, CommandFaults, databaseVars
  <2> QED
    BY <2>1, <2>2, <2>3, <2>4 DEF PackageInvariant, PackageTypeOK, MakingRecords,
       AnsweredRecords
<1>2. StatsOfEdits'
  BY SMTT(30), NoPackageCommandFits, PackageAssumption, NoSnapshotIsNone DEF PackageInvariant,
     FailCommand, CommandAt, CommandFaults, HalfMade, NextStep, databaseVars, StatsOfEdits,
     LedgerFits, ManifestFits, LedgerIsUsable, ExportSteps, PackageIsValid, PointedSteps,
     SnapshotSteps, FixedFiles, OperationalFiles, PackageTypeOK, Stats, Identities,
     Snapshots, OperationLedgers, FixedParts, OperationalParts, Manifests, Archives,
     CommandSteps, RowKinds, SidecarKinds, LatestSchema, FirstSchema
<1>3. DatabasesRead'
  BY NoPackageCommandFits, PackageAssumption, NoSnapshotIsNone DEF PackageInvariant,
     FailCommand, NextStep, DatabasesRead, PackageTypeOK
<1>4. SnapshotIsOf'
  BY DEF PackageInvariant, FailCommand, CommandAt, CommandFaults, HalfMade, NextStep,
     databaseVars, SnapshotIsOf
<1>5. LedgerFits'
  BY NoPackageCommandFits, PackageAssumption, NoSnapshotIsNone DEF PackageInvariant,
     FailCommand, CommandFaults, HalfMade, NextStep, LedgerFits, PackageTypeOK
<1>6. LedgerTellsOnce'
  BY DEF PackageInvariant, FailCommand, CommandAt, CommandFaults, HalfMade, NextStep,
     databaseVars, LedgerTellsOnce
<1>7. SidecarsFit'
  BY MakingEnds DEF FailCommand, CommandFaults, HalfMade, PackageInvariant, PackageTypeOK,
     OperationLedgers, NextStep, SidecarsFit
<1>8. ManifestFits'
  BY NoPackageCommandFits, PackageAssumption, NoSnapshotIsNone DEF PackageInvariant,
     FailCommand, CommandFaults, NextStep, ManifestFits, ExportSteps, PointedSteps,
     SnapshotSteps, PackageTypeOK
<1>9. FolderIsWhole'
  BY NoPackageCommandFits, PackageAssumption, NoSnapshotIsNone DEF PackageInvariant,
     FailCommand, CommandAt, CommandFaults, HalfMade, NextStep, FolderIsWhole, ExportSteps,
     PackageIsValid, FixedFiles, LedgerIsUsable, OperationalFiles, PackageTypeOK
<1>10. ArchivesFit'
  BY NoPackageCommandFits DEF PackageInvariant, FailCommand, CommandAt, CommandFaults,
     HalfMade, ArchivesFit
<1> QED
  BY <1>1, <1>2, <1>3, <1>4, <1>5, <1>6, <1>7, <1>8, <1>9, <1>10 DEF PackageInvariant

LEMMA CrashCommandKeeps ==
  ASSUME PackageInvariant, CrashCommand
  PROVE  PackageInvariant'
<1>1. PackageTypeOK'
  <2>1. making' \in MakingRecords
    BY NoPackageCommandFits DEF PackageInvariant, PackageTypeOK, CrashCommand, NextStep,
       MakingRecords, CommandSteps, RowKinds
  <2>2. operations' \in OperationLedgers
    BY DEF PackageInvariant, PackageTypeOK, CrashCommand, HalfMade, OperationLedgers
  <2>3. commandFaults' \in 0..MaxCommandFaults
    BY PackageAssumption DEF PackageInvariant, PackageTypeOK, CrashCommand, CommandFaults
  <2>4. archives' \in [Identities -> Archives \cup {NoSnapshot}]
    BY MembersTyped DEF PackageInvariant, PackageTypeOK, CrashCommand
  <2>5. packageManifest' \in Manifests \cup {NoSnapshot}
    BY DEF PackageInvariant, PackageTypeOK, CrashCommand
  <2>6. answered' \in AnsweredRecords
    BY DEF PackageInvariant, PackageTypeOK, CrashCommand, AnsweredRecords
  <2>7. sidecars' \in [SidecarKinds -> SUBSET (0..MaxCommands)]
    <3>1. sidecars \in [SidecarKinds -> SUBSET (0..MaxCommands)]
      BY DEF PackageInvariant, PackageTypeOK
    <3>2. CutFile \in SUBSET (0..MaxCommands)
      BY PackageAssumption DEF CutFile
    <3>3. [sidecars EXCEPT ![making.kind] = CutFile] \in [SidecarKinds -> SUBSET (0..MaxCommands)]
      BY <3>1, <3>2
    <3>4. [sidecars EXCEPT !.usage = CutFile] \in [SidecarKinds -> SUBSET (0..MaxCommands)]
      BY <3>1, <3>2
    <3>5. CASE CommandAt("sidecar")
      BY <3>3, <3>5 DEF CrashCommand, CommandAt
    <3>6. CASE CommandAt("sidecars")
      BY <3>4, <3>6 DEF CrashCommand, CommandAt
    <3>7. CASE ~CommandAt("sidecar") /\ ~CommandAt("sidecars")
      BY <3>1, <3>7 DEF CrashCommand
    <3> QED
      BY <3>5, <3>6, <3>7
  <2>8. UNCHANGED <<databases, databaseEdits, snapshot, brainPointer, commands>>
    BY DEF CrashCommand, CommandFaults, databaseVars
  <2> QED
    BY <2>1, <2>2, <2>3, <2>4, <2>5, <2>6, <2>7, <2>8 DEF PackageInvariant, PackageTypeOK,
       MakingRecords, AnsweredRecords
<1>2. StatsOfEdits'
  BY NoPackageCommandFits, PackageAssumption, NoSnapshotIsNone DEF PackageInvariant,
     CrashCommand, CommandFaults, databaseVars, StatsOfEdits, PackageTypeOK, Stats
<1>3. DatabasesRead'
  BY NoPackageCommandFits DEF PackageInvariant, CrashCommand, CommandAt, CommandFaults,
     OperationalFiles, DatabasesRead
<1>4. SnapshotIsOf'
  BY DEF PackageInvariant, CrashCommand, CommandAt, CommandFaults, databaseVars,
     SnapshotIsOf
<1>5. LedgerFits'
  BY NoPackageCommandFits DEF PackageInvariant, CrashCommand, CommandFaults, HalfMade,
     LedgerFits
<1>6. LedgerTellsOnce'
  BY DEF PackageInvariant, CrashCommand, HalfMade, LedgerTellsOnce
<1>7. SidecarsFit'
  <2>1. /\ operations'.rows = operations.rows /\ commandFaults' # 0
    BY DEF CrashCommand, CommandFaults, HalfMade, PackageInvariant, PackageTypeOK,
       OperationLedgers
  <2>2. making'.step # "sidecar"
    BY MakingEnds DEF CrashCommand, NextStep, PackageInvariant, PackageTypeOK
  <2>3. \A k \in SidecarKinds : sidecars'[k] = sidecars[k] \/ sidecars'[k] = CutFile
    BY DEF CrashCommand, PackageInvariant, PackageTypeOK
  <2> QED
    BY <2>1, <2>2, <2>3 DEF PackageInvariant, SidecarsFit
<1>8. ManifestFits'
  BY NoPackageCommandFits DEF PackageInvariant, CrashCommand, ManifestFits, ExportSteps,
     PointedSteps, SnapshotSteps
<1>9. FolderIsWhole'
  BY NoPackageCommandFits DEF PackageInvariant, CrashCommand, CommandFaults, HalfMade,
     FixedFiles, FolderIsWhole, ExportSteps, PackageIsValid, LedgerIsUsable
<1>10. ArchivesFit'
  BY NoPackageCommandFits DEF PackageInvariant, CrashCommand, CommandAt, CutArchive,
     Members, FixedFiles, ArchivesFit, ManifestFits, ExportSteps
<1> QED
  BY <1>1, <1>2, <1>3, <1>4, <1>5, <1>6, <1>7, <1>8, <1>9, <1>10 DEF PackageInvariant

LEMMA PackageStutterKeeps ==
  ASSUME PackageInvariant, UNCHANGED packageVars
  PROVE  PackageInvariant'
<1>1. UNCHANGED <<databases, snapshot, operations, sidecars, brainPointer, packageManifest,
                  archives, making, databaseEdits, commands, commandFaults, answered>>
  BY DEF packageVars
<1>2. PackageTypeOK' /\ StatsOfEdits' /\ DatabasesRead' /\ SnapshotIsOf'
  BY <1>1 DEF PackageInvariant, PackageTypeOK, StatsOfEdits, DatabasesRead, SnapshotIsOf
<1>3. LedgerFits' /\ LedgerTellsOnce' /\ SidecarsFit'
  BY <1>1 DEF PackageInvariant, LedgerFits, LedgerTellsOnce, SidecarsFit, LedgerIsUsable
<1>4. ManifestFits' /\ FolderIsWhole' /\ ArchivesFit'
  BY <1>1 DEF PackageInvariant, ManifestFits, FolderIsWhole, ArchivesFit, PackageIsValid,
     LedgerIsUsable, FixedFiles, OperationalFiles
<1> QED
  BY <1>2, <1>3, <1>4 DEF PackageInvariant

LEMMA PackageBegins == PackageInit => PackageInvariant
<1> SUFFICES ASSUME PackageInit PROVE PackageInvariant
  OBVIOUS
<1>1. 0 \in 0..MaxDatabaseEdits /\ 0 \in 0..MaxCommands /\ 0 \in 0..MaxCommandFaults
      /\ 0 \in 0..LatestSchema /\ 1 \in 0..LatestSchema /\ 2 \in 0..LatestSchema /\ 0 \in 0..1
  BY PackageAssumption DEF LatestSchema
<1>2. NoLedgerYet \in OperationLedgers
  BY <1>1 DEF NoLedgerYet, OperationLedgers
<1>3. /\ operations \in OperationLedgers
      /\ operations.rows = [k \in RowKinds |-> 0]
      /\ operations.deltas = [d \in GoalDeltas |-> 0]
      /\ operations.receipts = 0 /\ operations.schema = operations.born
      /\ operations.schema \in {0, 1, 2}
      /\ ~operations.exists => operations.schema = 0
  <2>1. CASE operations = NoLedgerYet
    BY <1>2, <2>1 DEF NoLedgerYet
  <2>2. ASSUME NEW n \in {1, 2},
               operations = [NoLedgerYet EXCEPT !.exists = TRUE, !.schema = n, !.born = n]
        PROVE  operations = [exists |-> TRUE, schema |-> n, born |-> n, receipts |-> 0,
                             rows |-> [k \in RowKinds |-> 0],
                             deltas |-> [d \in GoalDeltas |-> 0]]
    BY <2>2 DEF NoLedgerYet
  <2>3. ASSUME NEW n \in {1, 2},
               operations = [exists |-> TRUE, schema |-> n, born |-> n, receipts |-> 0,
                             rows |-> [k \in RowKinds |-> 0],
                             deltas |-> [d \in GoalDeltas |-> 0]]
        PROVE  operations \in OperationLedgers
    BY <1>1, <2>3 DEF OperationLedgers
  <2>4. 1..2 = {1, 2}
    OBVIOUS
  <2>5. operations = NoLedgerYet \/ \E n \in {1, 2} :
            operations = [NoLedgerYet EXCEPT !.exists = TRUE, !.schema = n, !.born = n]
    BY <2>4 DEF PackageInit
  <2> QED
    BY <2>1, <2>2, <2>3, <2>5
<1>4. PackageTypeOK
  BY <1>1, PackageAssumption, NoPackageCommandFits, <1>3 DEF PackageInit, Stats,
     AnsweredRecords, PackageTypeOK, MakingRecords
<1>5. StatsOfEdits /\ DatabasesRead /\ SnapshotIsOf
  BY NoPackageCommandFits DEF PackageInit, StatsOfEdits, DatabasesRead, SnapshotIsOf
<1>6. LedgerFits /\ LedgerTellsOnce
  BY <1>3, NoPackageCommandFits DEF PackageInit, LedgerFits, LedgerTellsOnce
<1>7. SidecarsFit
  BY <1>3, NoPackageCommandFits DEF PackageInit, RowKinds, SidecarKinds, SidecarsFit
<1>8. ManifestFits /\ FolderIsWhole /\ ArchivesFit
  BY NoPackageCommandFits DEF PackageInit, ManifestFits, FolderIsWhole, ArchivesFit,
     SnapshotSteps, PointedSteps, ExportSteps
<1> QED
  BY <1>4, <1>5, <1>6, <1>7, <1>8 DEF PackageInvariant

\* Whatever commands have run, failed or died: the snapshot, the ledger, the files beside it,
\* the manifest and the archives fit together as far as the running command has come.
THEOREM PackageInvariantCorrect == PackageSpec => []PackageInvariant
<1>1. ASSUME PackageInvariant, [PackageNext]_packageVars PROVE PackageInvariant'
  <2>1. CASE UNCHANGED packageVars
    BY <1>1, <2>1, PackageStutterKeeps
  <2>2. ASSUME NEW d \in Databases, EditDatabase(d) \/ HashDatabase(d) \/ ReadDatabase(d)
        PROVE  PackageInvariant'
    BY <1>1, <2>2, EditDatabaseKeeps, HashDatabaseKeeps, ReadDatabaseKeeps
  <2>3. ASSUME NEW delta \in GoalDeltas, StartCreate(delta) PROVE PackageInvariant'
    BY <1>1, <2>3, StartCreateKeeps
  <2>4. ASSUME NEW kind \in RowKinds, StartAppend(kind) PROVE PackageInvariant'
    BY <1>1, <2>4, StartAppendKeeps
  <2>5. CASE DiscoverDatabases \/ ReplaceSnapshot \/ CreateLedger \/ MigrateLedger
             \/ KeepLedger \/ RefuseHalfLedger
    BY <1>1, <2>5, DiscoverDatabasesKeeps, ReplaceSnapshotKeeps, CreateLedgerKeeps,
       MigrateLedgerKeeps, KeepLedgerKeeps, RefuseHalfLedgerKeeps
  <2>6. CASE WriteSidecars \/ WritePackagePointers \/ WritePackageManifest
             \/ ValidatePackage \/ RegisterDelta
    BY <1>1, <2>6, WriteSidecarsKeeps, WritePackagePointersKeeps, WritePackageManifestKeeps,
       ValidatePackageKeeps, RegisterDeltaKeeps
  <2>7. CASE AppendRow \/ WriteSidecar \/ RefuseCutLog
    BY <1>1, <2>7, AppendRowKeeps, WriteSidecarKeeps, RefuseCutLogKeeps
  <2>8. CASE StartExport \/ FreezeManifest \/ WriteArchive \/ ThawManifest
    BY <1>1, <2>8, StartExportKeeps, FreezeManifestKeeps, WriteArchiveKeeps, ThawManifestKeeps
  <2>9. CASE FailCommand \/ CrashCommand
    BY <1>1, <2>9, FailCommandKeeps, CrashCommandKeeps
  <2> QED
    BY <1>1, <2>1, <2>2, <2>3, <2>4, <2>5, <2>6, <2>7, <2>8, <2>9 DEF PackageNext
<1> QED
  BY <1>1, PackageBegins, PTL DEF PackageSpec

\* The folder of a brain and its archives are what the commands that succeeded answered for,
\* and a snapshot that would be reused is of the databases as they are.
THEOREM PackagesTrue == PackageSpec => []PackageIsTrue
<1>1. ASSUME PackageInvariant PROVE PackageIsTrue
  <2>1. ReusedSnapshotIsTrue
    BY <1>1 DEF ReusedSnapshotIsTrue, SnapshotReusable, CurrentStats, PackageInvariant,
       SnapshotIsOf, PackageTypeOK, Snapshots, Identities, CurrentContents
  <2>2. FolderStaysValid
    BY <1>1 DEF PackageInvariant, FolderStaysValid, FolderIsWhole, ManifestFits,
       PackageIsValid,
       FixedFiles
  <2>3. LedgerTellsOnce
    BY <1>1 DEF PackageInvariant
  <2>4. SidecarsFollowTheLedger
    BY <1>1 DEF PackageInvariant, SidecarsFit, SidecarsFollowTheLedger, CommandAt
  <2>5. ArchivesStayTrue
    BY <1>1, NoSnapshotIsNone DEF PackageInvariant, ArchivesFit, ArchivesStayTrue
  <2> QED
    BY <2>1, <2>2, <2>3, <2>4, <2>5 DEF PackageIsTrue
<1> QED
  BY <1>1, PackageInvariantCorrect, PTL

-----------------------------------------------------------------------------
(* What is handed to the next session.                                     *)

\* The fields of what is answered.
HandoffAnswers == [handoff : Handoffs, versions : GoodVersions \X GoodVersions, package : Builds]

HandoffRunsOn == handoff.step # "idle"

HandoffRecords == [step : HandoffSteps, pair : (GoodVersions \X GoodVersions) \cup {NoPair},
                   declares : Builds \cup {NoPackage}, embeds : Builds \cup {NoPackage},
                   swaps : 0..MaxHands]

\* The package recorded for the version that is handed over.
RecordedPackage == good[handoff.pair[1]].package

\* A handoff is of the good pair, and counts the packages that came and went: without one
\* everything it read is the recorded package, and after one the package is another.
HandoffFits ==
    HandoffRunsOn =>
        /\ handoff.pair \in Marked \X Marked
        /\ IsGoodPair(handoff.pair[1], handoff.pair[2])
        /\ package \in Builds /\ RecordedPackage \in Builds
        /\ handoff.step # "diff" => handoff.pair \in diffRuns
        /\ handoff.swaps = 0 => package = RecordedPackage
        /\ handoff.step # "register" /\ handoff.swaps = 1 => package # RecordedPackage
        /\ handoff.step = "archive" => handoff.declares \in Builds
        /\ handoff.step = "archive" /\ handoff.swaps = 0 => handoff.declares = RecordedPackage
        /\ handoff.step = "validate" =>
            /\ handoff.declares \in Builds /\ handoff.embeds \in Builds
            /\ handoff.swaps = 0 => handoff.embeds = RecordedPackage
        /\ handoff.step = "register" =>
            /\ handoff.declares = RecordedPackage /\ handoff.embeds \in Builds
            /\ handoff.swaps <= 1 => handoff.embeds = RecordedPackage

PassesFit ==
    \A i \in DOMAIN handoffRows :
        /\ handoffRows[i].declares = handoffRows[i].package
        /\ ~handoffRows[i].swapped => handoffRows[i].embeds = handoffRows[i].package
        /\ <<handoffRows[i].current, handoffRows[i].previous>> \in diffRuns

\* Only captured versions are marked, and without a mishap the packages are of the latest.
MarksFit ==
    /\ Marked \subseteq 1..Len(captured)
    /\ Len(captured) <= builtSoFar
    /\ handoff.swaps <= hands
    /\ ~mixed /\ captured # <<>> => package = captured[Len(captured)]
    /\ ~mixed /\ captured = <<>> => package = NoPackage

HandoffInvariant ==
    /\ HandoffTypeOK
    /\ handed \subseteq HandoffAnswers
    /\ HandoffFits
    /\ PassesFit
    /\ AnswerIsOfTheGoodPair
    /\ MarksFit
    /\ GoodPackageIsOfItsVersion

LEMMA MarkedIsTyped ==
  ASSUME HandoffTypeOK, NEW v \in Marked
  PROVE  /\ v \in GoodVersions /\ good[v] \in Marks
         /\ good[v].package \in Builds /\ good[v].at \in Nat
  BY HandoffAssumption DEF Marked, HandoffTypeOK, Marks

\* There is one good pair at a time: the clock of the marks tells which.
LEMMA GoodPairIsOne ==
  ASSUME HandoffTypeOK, NEW pair \in Marked \X Marked, IsGoodPair(pair[1], pair[2])
  PROVE  (CHOOSE p \in Marked \X Marked : IsGoodPair(p[1], p[2])) = pair
<1> SUFFICES ASSUME NEW p \in Marked \X Marked, IsGoodPair(p[1], p[2]) PROVE p = pair
  OBVIOUS
<1>1. /\ pair[1] \in Marked /\ pair[2] \in Marked /\ p[1] \in Marked /\ p[2] \in Marked
      /\ pair = <<pair[1], pair[2]>> /\ p = <<p[1], p[2]>>
  OBVIOUS
<1>2. \A v \in Marked : good[v].at \in Nat
  BY MarkedIsTyped
<1>3. \A v \in Marked : good[v].at <= good[pair[1]].at
  BY <1>1, <1>2 DEF IsGoodPair
<1>4. \A v \in Marked : v # pair[1] => good[v].at < good[pair[1]].at
  BY <1>1, <1>2 DEF IsGoodPair
<1>5. \A v \in Marked : v # p[1] => good[v].at < good[p[1]].at
  BY <1>1, <1>2 DEF IsGoodPair
<1>6. p[1] = pair[1]
  BY <1>1, <1>2, <1>4, <1>5
<1>7. p[2] = pair[2]
  BY <1>1, <1>2, <1>6 DEF IsGoodPair
<1> QED
  BY <1>1, <1>6, <1>7

LEMMA BuildPackagesKeeps ==
  ASSUME HandoffInvariant, BuildPackages
  PROVE  HandoffInvariant'
<1>1. /\ UNCHANGED <<dropped, good, marks, diffRuns, handoffRows, handoff, handed, handoffs, hands>>
      /\ handoff.step = "idle"
      /\ builtSoFar < MaxHandoffBuilds /\ builtSoFar' = builtSoFar + 1
      /\ HandoffTypeOK
  BY DEF BuildPackages, NoHandoffRuns, HandoffInvariant
<1>2. builtSoFar' \in Builds
  BY <1>1, HandoffAssumption DEF HandoffTypeOK, Builds
<1>3. Marked' = Marked
  BY <1>1 DEF Marked
<1>4. HandoffFits' /\ PassesFit' /\ AnswerIsOfTheGoodPair' /\ handed' \subseteq HandoffAnswers
  BY <1>1 DEF HandoffInvariant, HandoffFits, HandoffRunsOn, PassesFit, AnswerIsOfTheGoodPair
<1>5. CASE /\ package' = builtSoFar' /\ captured' = Append(captured, builtSoFar')
           /\ UNCHANGED <<handoffFaults, mixed>>
  <2>1. /\ captured' \in Seq(Builds) /\ captured' # <<>>
        /\ Len(captured') = Len(captured) + 1
        /\ captured'[Len(captured')] = builtSoFar'
        /\ \A i \in 1..Len(captured) : captured'[i] = captured[i]
        /\ Len(captured) \in Nat
    BY SMTT(30), <1>2, <1>1, <1>5, AppendProperties, LenProperties DEF HandoffTypeOK
  <2>2. HandoffTypeOK'
    <3>1. Len(captured') <= MaxHandoffBuilds /\ builtSoFar' \in 0..MaxHandoffBuilds
      BY SMTT(30), <1>1, <2>1, HandoffAssumption DEF HandoffInvariant, HandoffTypeOK, MarksFit
    <3> QED
      BY <1>2, <1>1, <1>5, <2>1, <3>1 DEF HandoffTypeOK
  <2>3. MarksFit'
    BY SMTT(30), <1>1, <1>3, <1>5, <2>1 DEF HandoffInvariant, HandoffTypeOK, MarksFit
  <2>4. GoodPackageIsOfItsVersion'
    BY <1>1, <1>3, <1>5, <2>1 DEF HandoffInvariant, GoodPackageIsOfItsVersion, MarksFit
  <2> QED
    BY <1>4, <2>2, <2>3, <2>4 DEF HandoffInvariant
<1>6. CASE /\ handoffFaults < MaxHandoffFaults /\ handoffFaults' = handoffFaults + 1
           /\ package' \in {NoPackage, builtSoFar'}
           /\ mixed' = TRUE
           /\ UNCHANGED captured
  <2>1. HandoffTypeOK'
    <3>1. handoffFaults' \in 0..MaxHandoffFaults /\ builtSoFar' \in 0..MaxHandoffBuilds
      BY SMTT(30), <1>1, <1>6, HandoffAssumption DEF HandoffTypeOK
    <3>2. package' \in Builds \cup {NoPackage} /\ mixed' \in BOOLEAN
      BY <1>2, <1>6
    <3> QED
      BY <1>1, <1>6, <3>1, <3>2 DEF HandoffTypeOK
  <2>2. MarksFit' /\ GoodPackageIsOfItsVersion'
    BY <1>1, <1>3, <1>6, LenProperties
       DEF HandoffInvariant, HandoffTypeOK, MarksFit, GoodPackageIsOfItsVersion
  <2> QED
    BY <1>4, <2>1, <2>2 DEF HandoffInvariant
<1> QED
  BY <1>5, <1>6 DEF BuildPackages

LEMMA ReplacePackageKeeps ==
  ASSUME HandoffInvariant, ReplacePackage
  PROVE  HandoffInvariant'
<1>1. /\ UNCHANGED <<builtSoFar, captured, dropped, good, marks, diffRuns, handoffRows, handed,
                     handoffs, handoffFaults>>
      /\ package' # package /\ package' \in Builds /\ mixed' = TRUE
      /\ hands' = hands + 1 /\ hands' \in 0..MaxHands
      /\ HandoffTypeOK
  BY SMTT(30), HandoffAssumption DEF ReplacePackage, HandoffInvariant, HandoffTypeOK, Builds
<1>2. CASE handoff.step = "idle"
  BY <1>2, <1>1 DEF ReplacePackage, NoHandoffRuns, HandoffInvariant, HandoffTypeOK,
     HandoffFits, HandoffRunsOn, PassesFit, AnswerIsOfTheGoodPair, MarksFit, Marked,
     GoodPackageIsOfItsVersion
<1>3. CASE handoff.step # "idle"
  <2>1. handoff' = [handoff EXCEPT !.swaps = @ + 1]
    BY <1>3 DEF ReplacePackage, NoHandoffRuns
  <2>2. /\ handoff'.step = handoff.step /\ handoff'.pair = handoff.pair
        /\ handoff'.declares = handoff.declares /\ handoff'.embeds = handoff.embeds
        /\ handoff'.swaps = handoff.swaps + 1 /\ handoff.swaps \in Nat
        /\ handoff'.swaps <= hands'
    BY <1>1, <2>1 DEF HandoffInvariant, HandoffTypeOK, MarksFit
  <2>3. HandoffTypeOK'
    <3>1. handoff'.swaps \in 0..MaxHands
      BY SMTT(30), <1>1, <2>2, HandoffAssumption DEF HandoffTypeOK
    <3>2. handoff' \in [step : HandoffSteps, pair : (GoodVersions \X GoodVersions) \cup {NoPair},
                        declares : Builds \cup {NoPackage}, embeds : Builds \cup {NoPackage},
                        swaps : 0..MaxHands]
      BY <1>1, <2>1, <2>2, <3>1 DEF HandoffTypeOK
    <3> QED
      BY <1>1, <3>2 DEF HandoffTypeOK
  <2>4. HandoffFits'
    <3>1. HandoffRunsOn /\ HandoffFits
      BY <1>3 DEF HandoffInvariant, HandoffRunsOn
    <3>2. Marked' = Marked /\ RecordedPackage' = RecordedPackage
      BY <1>1, <2>2 DEF Marked, RecordedPackage
    <3>3. IsGoodPair(handoff.pair[1], handoff.pair[2])'
      BY <1>1, <2>2, <3>1, <3>2 DEF HandoffFits, IsGoodPair
    <3>4. handoff.swaps = 0 => package = RecordedPackage
      BY <3>1 DEF HandoffFits
    <3>5. handoff'.swaps # 0 /\ (handoff'.swaps = 1 => handoff.swaps = 0)
          /\ (handoff'.swaps <= 1 => handoff.swaps = 0)
      BY <2>2
    <3> QED
      BY <1>1, <2>2, <3>1, <3>2, <3>3, <3>4, <3>5 DEF HandoffFits
  <2>5. PassesFit' /\ AnswerIsOfTheGoodPair' /\ handed' \subseteq HandoffAnswers
    BY <1>1 DEF HandoffInvariant, PassesFit, AnswerIsOfTheGoodPair
  <2>6. MarksFit' /\ GoodPackageIsOfItsVersion'
    BY <1>1, <2>2 DEF HandoffInvariant, MarksFit, Marked, GoodPackageIsOfItsVersion
  <2> QED
    BY <2>3, <2>4, <2>5, <2>6 DEF HandoffInvariant
<1> QED
  BY <1>2, <1>3

LEMMA MarkBuildGoodKeeps ==
  ASSUME HandoffInvariant, MarkBuildGood
  PROVE  HandoffInvariant'
<1> DEFINE latest == Len(captured)
           mark == [package |-> package, at |-> marks']
<1>1. /\ UNCHANGED <<builtSoFar, package, captured, dropped, diffRuns, handoffRows, handoff,
                     handed, handoffs, hands, handoffFaults, mixed>>
      /\ handoff.step = "idle" /\ captured # <<>> /\ package \in Builds
      /\ marks' \in 1..MaxMarks
      /\ HandoffTypeOK
  BY HandoffAssumption DEF MarkBuildGood, NoHandoffRuns, HandoffInvariant, HandoffTypeOK
<1>2. latest \in GoodVersions /\ latest \in 1..Len(captured)
  BY <1>1, EmptySeq, LenProperties, HandoffAssumption DEF HandoffTypeOK, GoodVersions
<1>3. mark \in Marks /\ mark.package = package
  BY <1>1 DEF Marks
<1>4. good' = [good EXCEPT ![latest] = mark] /\ good \in [GoodVersions -> Marks \cup {Unmarked}]
  BY <1>1 DEF MarkBuildGood, HandoffTypeOK
<1> HIDE DEF latest, mark
<1>5. good' \in [GoodVersions -> Marks \cup {Unmarked}]
  BY <1>2, <1>3, <1>4
<1>6. Marked' \subseteq Marked \cup {latest}
  BY <1>2, <1>4 DEF Marked
<1>7. HandoffTypeOK'
  BY <1>1, <1>5, HandoffAssumption DEF HandoffTypeOK
<1>8. HandoffFits' /\ PassesFit' /\ AnswerIsOfTheGoodPair' /\ handed' \subseteq HandoffAnswers
  BY <1>1 DEF HandoffInvariant, HandoffFits, HandoffRunsOn, PassesFit, AnswerIsOfTheGoodPair
<1>9. MarksFit'
  BY <1>1, <1>2, <1>6 DEF HandoffInvariant, MarksFit
<1>10. GoodPackageIsOfItsVersion'
  BY <1>1, <1>2, <1>3, <1>4, <1>6 DEF GoodPackageIsOfItsVersion, HandoffInvariant,
     MarksFit, latest, Marked
<1> QED
  BY <1>7, <1>8, <1>9, <1>10 DEF HandoffInvariant

LEMMA DropGoodVersionKeeps ==
  ASSUME HandoffInvariant, NEW v \in GoodVersions, DropGoodVersion(v)
  PROVE  HandoffInvariant'
  BY DEF DropGoodVersion, NoHandoffRuns, HandoffInvariant, HandoffTypeOK, HandoffFits,
     HandoffRunsOn, PassesFit, AnswerIsOfTheGoodPair, MarksFit, Marked,
     GoodPackageIsOfItsVersion

LEMMA LoseArchiveKeeps ==
  ASSUME HandoffInvariant, NEW i \in DOMAIN handoffRows, LoseArchive(i)
  PROVE  HandoffInvariant'
<1> DEFINE lost == [handoffRows[i] EXCEPT !.whole = FALSE]
<1>1. /\ UNCHANGED <<builtSoFar, package, captured, dropped, good, marks, diffRuns, handoff,
                     handed, handoffs, handoffFaults, mixed>>
      /\ hands' = hands + 1 /\ hands' \in 0..MaxHands
      /\ HandoffTypeOK
  BY SMTT(30), HandoffAssumption DEF LoseArchive, HandoffInvariant, HandoffTypeOK
<1>2. handoffRows[i] \in Handoffs /\ i \in 1..Len(handoffRows)
  BY <1>1, LenProperties, ElementOfSeq DEF HandoffTypeOK
<1>3. /\ lost \in Handoffs
      /\ lost.current = handoffRows[i].current /\ lost.previous = handoffRows[i].previous
      /\ lost.embeds = handoffRows[i].embeds /\ lost.declares = handoffRows[i].declares
      /\ lost.package = handoffRows[i].package /\ lost.swapped = handoffRows[i].swapped
  BY <1>2 DEF Handoffs
<1>4. handoffRows' = [handoffRows EXCEPT ![i] = lost]
  BY DEF LoseArchive
<1> HIDE DEF lost
<1>5. /\ handoffRows' \in Seq(Handoffs) /\ DOMAIN handoffRows' = DOMAIN handoffRows
      /\ \A j \in DOMAIN handoffRows : handoffRows'[j] = IF j = i THEN lost ELSE handoffRows[j]
  BY <1>1, <1>2, <1>3, <1>4, ExceptSeq DEF HandoffTypeOK
<1>6. HandoffTypeOK'
  BY <1>1, <1>5 DEF HandoffTypeOK
<1>7. PassesFit'
  BY <1>1, <1>3, <1>5 DEF HandoffInvariant, PassesFit
<1>8. HandoffFits'
  BY <1>1 DEF HandoffInvariant, HandoffFits, HandoffRunsOn, Marked, IsGoodPair, RecordedPackage
<1>9. /\ AnswerIsOfTheGoodPair' /\ handed' \subseteq HandoffAnswers
      /\ MarksFit' /\ GoodPackageIsOfItsVersion'
  BY <1>1 DEF HandoffInvariant, HandoffTypeOK, AnswerIsOfTheGoodPair, MarksFit, Marked,
     GoodPackageIsOfItsVersion
<1> QED
  BY <1>6, <1>7, <1>8, <1>9 DEF HandoffInvariant

\* A step of a handoff changes neither the versions nor what is registered.
LEMMA HandoffStepKeeps ==
  ASSUME HandoffInvariant,
         UNCHANGED <<builtSoFar, package, captured, dropped, good, marks, handoffRows, handed,
                     handoffs, hands, mixed>>,
         handoffFaults' \in 0..MaxHandoffFaults,
         diffRuns \subseteq diffRuns', diffRuns' \subseteq GoodVersions \X GoodVersions,
         handoff' \in HandoffRecords, handoff'.swaps <= handoff.swaps, HandoffFits'
  PROVE  HandoffInvariant'
<1>1. HandoffTypeOK'
  BY DEF HandoffInvariant, HandoffTypeOK, HandoffRecords
<1>2. PassesFit' /\ AnswerIsOfTheGoodPair' /\ handed' \subseteq HandoffAnswers
  BY DEF HandoffInvariant, PassesFit, AnswerIsOfTheGoodPair
<1>3. handoff'.swaps <= hands'
  BY HandoffAssumption DEF HandoffInvariant, HandoffTypeOK, HandoffRecords, MarksFit
<1>4. MarksFit' /\ GoodPackageIsOfItsVersion'
  BY <1>3 DEF HandoffInvariant, MarksFit, Marked, GoodPackageIsOfItsVersion
<1> QED
  BY <1>1, <1>2, <1>4 DEF HandoffInvariant

\* While a handoff goes on its pair is good and the package recorded for it stays.
LEMMA PairStays ==
  ASSUME HandoffInvariant, handoff.step # "idle", UNCHANGED <<good, package>>,
         handoff'.pair = handoff.pair
  PROVE  /\ Marked' = Marked /\ RecordedPackage' = RecordedPackage
         /\ handoff.pair \in Marked \X Marked /\ handoff'.pair \in Marked \X Marked
         /\ IsGoodPair(handoff.pair[1], handoff.pair[2])'
         /\ package' \in Builds /\ RecordedPackage \in Builds
  BY DEF HandoffInvariant, HandoffRunsOn, Marked, RecordedPackage, HandoffFits, IsGoodPair

LEMMA RecordDiffKeeps ==
  ASSUME HandoffInvariant, RecordDiff
  PROVE  HandoffInvariant'
<1>1. /\ UNCHANGED <<builtSoFar, package, captured, dropped, good, marks, handoffRows, handed,
                     handoffs, hands, handoffFaults, mixed>>
      /\ handoff.step = "diff" /\ handoff' = [handoff EXCEPT !.step = "manifest"]
      /\ diffRuns' = diffRuns \cup {handoff.pair}
      /\ handoff \in HandoffRecords /\ HandoffFits /\ HandoffRunsOn
  BY DEF RecordDiff, HandoffInvariant, HandoffTypeOK, HandoffRecords, HandoffRunsOn
<1>2. /\ handoff' \in HandoffRecords /\ handoff'.swaps = handoff.swaps /\ handoff.swaps \in Nat
      /\ handoff'.pair = handoff.pair /\ handoff'.step = "manifest"
  BY <1>1 DEF HandoffRecords, HandoffSteps
<1>3. /\ Marked' = Marked /\ RecordedPackage' = RecordedPackage
      /\ handoff.pair \in Marked \X Marked /\ handoff'.pair \in Marked \X Marked
      /\ IsGoodPair(handoff.pair[1], handoff.pair[2])'
      /\ package' \in Builds /\ RecordedPackage \in Builds
  BY <1>1, <1>2, PairStays
<1>4. HandoffFits'
  BY <1>1, <1>2, <1>3 DEF HandoffFits
<1>5. diffRuns' \subseteq GoodVersions \X GoodVersions
  BY <1>1, <1>3 DEF HandoffInvariant, HandoffTypeOK, Marked
<1> QED
  BY <1>1, <1>2, <1>4, <1>5, HandoffStepKeeps DEF HandoffInvariant, HandoffTypeOK

LEMMA WriteHandoffManifestKeeps ==
  ASSUME HandoffInvariant, WriteHandoffManifest
  PROVE  HandoffInvariant'
<1>1. /\ UNCHANGED <<builtSoFar, package, captured, dropped, good, marks, diffRuns, handoffRows,
                     handed, handoffs, hands, handoffFaults, mixed>>
      /\ handoff.step = "manifest"
      /\ handoff' = [handoff EXCEPT !.step = "archive", !.declares = package]
      /\ handoff \in HandoffRecords /\ HandoffFits /\ HandoffRunsOn
  BY DEF WriteHandoffManifest, HandoffInvariant, HandoffTypeOK, HandoffRecords, HandoffRunsOn
<1>2. package \in Builds
  BY <1>1 DEF HandoffFits
<1>3. /\ handoff' \in HandoffRecords /\ handoff'.swaps = handoff.swaps /\ handoff.swaps \in Nat
      /\ handoff'.pair = handoff.pair /\ handoff'.step = "archive"
      /\ handoff'.declares = package
  <2>1. handoff' = [step |-> "archive", pair |-> handoff.pair, declares |-> package,
                    embeds |-> handoff.embeds, swaps |-> handoff.swaps]
    BY <1>1 DEF HandoffRecords
  <2> QED
    BY <1>1, <1>2, <2>1 DEF HandoffRecords, HandoffSteps
<1>4. /\ Marked' = Marked /\ RecordedPackage' = RecordedPackage
      /\ handoff.pair \in Marked \X Marked /\ handoff'.pair \in Marked \X Marked
      /\ IsGoodPair(handoff.pair[1], handoff.pair[2])'
      /\ package' \in Builds /\ RecordedPackage \in Builds
  BY <1>1, <1>3, PairStays
<1>5. HandoffFits'
  BY <1>1, <1>3, <1>4 DEF HandoffFits
<1> QED
  BY <1>1, <1>3, <1>5, HandoffStepKeeps DEF HandoffInvariant, HandoffTypeOK

LEMMA WriteHandoffArchiveKeeps ==
  ASSUME HandoffInvariant, WriteHandoffArchive
  PROVE  HandoffInvariant'
<1>1. /\ UNCHANGED <<builtSoFar, package, captured, dropped, good, marks, diffRuns, handoffRows,
                     handed, handoffs, hands, handoffFaults, mixed>>
      /\ handoff.step = "archive"
      /\ handoff' = [handoff EXCEPT !.step = "validate", !.embeds = package]
      /\ handoff \in HandoffRecords /\ HandoffFits /\ HandoffRunsOn
  BY DEF WriteHandoffArchive, HandoffInvariant, HandoffTypeOK, HandoffRecords, HandoffRunsOn
<1>2. package \in Builds /\ handoff.declares \in Builds
  BY <1>1 DEF HandoffFits
<1>3. /\ handoff' \in HandoffRecords /\ handoff'.swaps = handoff.swaps /\ handoff.swaps \in Nat
      /\ handoff'.pair = handoff.pair /\ handoff'.step = "validate"
      /\ handoff'.declares = handoff.declares /\ handoff'.embeds = package
  <2>1. handoff' = [step |-> "validate", pair |-> handoff.pair, declares |-> handoff.declares,
                    embeds |-> package, swaps |-> handoff.swaps]
    BY <1>1 DEF HandoffRecords
  <2> QED
    BY <1>1, <1>2, <2>1 DEF HandoffRecords, HandoffSteps
<1>4. /\ Marked' = Marked /\ RecordedPackage' = RecordedPackage
      /\ handoff.pair \in Marked \X Marked /\ handoff'.pair \in Marked \X Marked
      /\ IsGoodPair(handoff.pair[1], handoff.pair[2])'
      /\ package' \in Builds /\ RecordedPackage \in Builds
  BY <1>1, <1>3, PairStays
<1>5. HandoffFits'
  BY <1>1, <1>2, <1>3, <1>4 DEF HandoffFits
<1> QED
  BY <1>1, <1>3, <1>5, HandoffStepKeeps DEF HandoffInvariant, HandoffTypeOK

LEMMA NoHandoffFits ==
  /\ NoHandoff \in HandoffRecords
  /\ NoHandoff.step = "idle" /\ NoHandoff.swaps = 0
BY HandoffAssumption DEF NoHandoff, HandoffRecords, HandoffSteps

LEMMA ValidateHandoffKeeps ==
  ASSUME HandoffInvariant, ValidateHandoff
  PROVE  HandoffInvariant'
<1>1. /\ UNCHANGED <<builtSoFar, package, captured, dropped, good, marks, diffRuns, handoffRows,
                     handed, handoffs, hands, handoffFaults, mixed>>
      /\ handoff.step = "validate"
      /\ handoff \in HandoffRecords /\ HandoffFits /\ HandoffRunsOn
  BY DEF ValidateHandoff, HandoffInvariant, HandoffTypeOK, HandoffRecords, HandoffRunsOn
<1>2. CASE Validates
  <2>1. handoff' = [handoff EXCEPT !.step = "register"]
    BY <1>2 DEF ValidateHandoff
  <2>2. /\ handoff' \in HandoffRecords /\ handoff'.swaps = handoff.swaps /\ handoff.swaps \in Nat
        /\ handoff'.pair = handoff.pair /\ handoff'.step = "register"
        /\ handoff'.declares = handoff.declares /\ handoff'.embeds = handoff.embeds
    BY <1>1, <2>1 DEF HandoffRecords, HandoffSteps
  <2>3. /\ Marked' = Marked /\ RecordedPackage' = RecordedPackage
        /\ handoff.pair \in Marked \X Marked /\ handoff'.pair \in Marked \X Marked
        /\ IsGoodPair(handoff.pair[1], handoff.pair[2])'
        /\ package' \in Builds /\ RecordedPackage \in Builds
    BY <1>1, <2>2, PairStays
  <2>4. handoff.declares = package /\ handoff.declares = RecordedPackage
    BY <1>2 DEF Validates, RecordedPackage
  <2>5. /\ handoff.swaps # 1 /\ handoff.embeds \in Builds
        /\ handoff.swaps <= 1 => handoff.embeds = RecordedPackage
    BY <1>1, <2>2, <2>4 DEF HandoffFits
  <2>6. HandoffFits'
    BY <1>1, <2>2, <2>3, <2>4, <2>5 DEF HandoffFits
  <2> QED
    BY <1>1, <2>2, <2>6, HandoffStepKeeps DEF HandoffInvariant, HandoffTypeOK
<1>3. CASE ~Validates
  BY <1>3, NoHandoffFits, <1>1, HandoffStepKeeps DEF ValidateHandoff, HandoffFits,
     HandoffRunsOn, HandoffRecords, HandoffInvariant, HandoffTypeOK
<1> QED
  BY <1>2, <1>3

LEMMA CrashHandoffKeeps ==
  ASSUME HandoffInvariant, CrashHandoff
  PROVE  HandoffInvariant'
<1>1. /\ UNCHANGED <<builtSoFar, package, captured, dropped, good, marks, diffRuns, handoffRows,
                     handed, handoffs, hands, mixed>>
      /\ handoff' = NoHandoff /\ handoffFaults' = handoffFaults + 1
      /\ handoffFaults < MaxHandoffFaults
  BY DEF CrashHandoff
<1>2. handoffFaults' \in 0..MaxHandoffFaults
  BY <1>1, HandoffAssumption DEF HandoffInvariant, HandoffTypeOK
<1>3. HandoffFits'
  BY <1>1, NoHandoffFits DEF HandoffFits, HandoffRunsOn
<1>4. handoff.swaps \in Nat
  BY DEF HandoffInvariant, HandoffTypeOK
<1> QED
  BY <1>1, <1>2, <1>3, <1>4, NoHandoffFits, HandoffStepKeeps DEF HandoffInvariant,
     HandoffTypeOK

LEMMA StartHandoffKeeps ==
  ASSUME HandoffInvariant, StartHandoff
  PROVE  HandoffInvariant'
<1>1. /\ UNCHANGED <<builtSoFar, package, captured, dropped, good, marks, diffRuns, handoffRows,
                     hands, handoffFaults, mixed>>
      /\ handoff.step = "idle" /\ handoffs' = handoffs + 1 /\ handoffs < MaxHandoffs
      /\ HandoffTypeOK
  BY DEF StartHandoff, NoHandoffRuns, HandoffInvariant
<1>2. PICK pair \in Marked \X Marked :
        /\ IsGoodPair(pair[1], pair[2])
        /\ Preflight(pair)
        /\ \/ \E i \in DOMAIN handoffRows :
                /\ Answerable(pair, i)
                /\ handed' = handed \cup {Answered(handoffRows[i])}
                /\ UNCHANGED handoff
           \/ /\ \A i \in DOMAIN handoffRows : ~Answerable(pair, i)
              /\ handoff' = [NoHandoff EXCEPT !.step = "diff", !.pair = pair]
              /\ UNCHANGED handed
  BY DEF StartHandoff
<1>3. handoffs' \in 0..MaxHandoffs
  BY <1>1, HandoffAssumption DEF HandoffTypeOK
<1>4. /\ Marked' = Marked /\ PassesFit' /\ GoodPackageIsOfItsVersion'
  BY <1>1 DEF HandoffInvariant, Marked, PassesFit, GoodPackageIsOfItsVersion
<1>5. /\ good[pair[1]] \in Marks /\ good[pair[1]].package \in Builds
      /\ pair \in GoodVersions \X GoodVersions
  BY <1>1, MarkedIsTyped DEF Marked
<1>6. package = good[pair[1]].package
  BY <1>2 DEF Preflight
<1>7. ASSUME NEW i \in DOMAIN handoffRows, Answerable(pair, i),
             handed' = handed \cup {Answered(handoffRows[i])}, UNCHANGED handoff
      PROVE  HandoffInvariant'
  <2> DEFINE answer == Answered(handoffRows[i])
  <2>1. handoffRows[i] \in Handoffs
    BY <1>1, LenProperties, ElementOfSeq DEF HandoffTypeOK
  <2>2. /\ answer.handoff = handoffRows[i] /\ answer.versions = pair /\ answer.package = package
        /\ answer \in HandoffAnswers
    BY <1>1, <1>2, GoodPairIsOne, <1>5, <1>6, <2>1 DEF Answered, HandoffAnswers
  <2>3. /\ <<handoffRows[i].current, handoffRows[i].previous>> = pair
        /\ handoffRows[i].whole /\ handoffRows[i].declares = package
    BY <1>7 DEF Answerable, AnswerableIfWhole
  <2>4. handoffRows[i].current # handoffRows[i].previous
    BY <1>1, <1>2, MarkedIsTyped, <2>3 DEF IsGoodPair
  <2>5. /\ ~handoffRows[i].swapped => handoffRows[i].embeds = package
        /\ pair \in diffRuns
    BY <2>3 DEF HandoffInvariant, PassesFit
  <2> HIDE DEF answer
  <2>6. handed' = handed \cup {answer}
    BY <1>7 DEF answer
  <2>7. AnswerIsOfTheGoodPair'
    BY <1>1, <2>2, <2>3, <2>4, <2>5, <2>6 DEF HandoffInvariant, AnswerIsOfTheGoodPair
  <2>8. HandoffTypeOK' /\ handed' \subseteq HandoffAnswers
    BY <1>1, <1>3, <1>7, <2>1, <2>2, <2>6 DEF HandoffInvariant, HandoffTypeOK
  <2>9. HandoffFits' /\ MarksFit'
    BY <1>1, <1>4, <1>7 DEF HandoffInvariant, HandoffFits, HandoffRunsOn, MarksFit
  <2> QED
    BY <1>4, <2>7, <2>8, <2>9 DEF HandoffInvariant
<1>8. CASE handoff' = [NoHandoff EXCEPT !.step = "diff", !.pair = pair] /\ UNCHANGED handed
  <2>1. /\ handoff' \in HandoffRecords /\ handoff'.step = "diff" /\ handoff'.pair = pair
        /\ handoff'.swaps = 0
    BY NoHandoffFits, <1>8, <1>5 DEF HandoffRecords, HandoffSteps
  <2>2. RecordedPackage' = package
    BY <1>1, <1>6, <2>1 DEF RecordedPackage
  <2>3. IsGoodPair(handoff.pair[1], handoff.pair[2])'
    BY <1>1, <1>2, <1>4, <2>1 DEF IsGoodPair
  <2>4. HandoffFits'
    BY <1>1, <1>2, <1>4, <1>5, <1>6, <2>1, <2>2, <2>3 DEF HandoffFits
  <2>5. HandoffTypeOK' /\ handed' \subseteq HandoffAnswers
    BY <1>1, <1>3, <1>8, <2>1 DEF HandoffInvariant, HandoffTypeOK, HandoffRecords
  <2>6. AnswerIsOfTheGoodPair'
    BY <1>1, <1>8 DEF HandoffInvariant, AnswerIsOfTheGoodPair
  <2>7. hands \in Nat
    BY <1>1 DEF HandoffTypeOK
  <2>8. MarksFit'
    BY <1>1, <1>4, <2>1, <2>7 DEF HandoffInvariant, MarksFit
  <2> QED
    BY <1>4, <2>4, <2>5, <2>6, <2>8 DEF HandoffInvariant
<1> QED
  BY <1>2, <1>7, <1>8

LEMMA RegisterHandoffKeeps ==
  ASSUME HandoffInvariant, RegisterHandoff
  PROVE  HandoffInvariant'
<1> DEFINE h == [current |-> handoff.pair[1], previous |-> handoff.pair[2],
                 embeds |-> handoff.embeds, declares |-> handoff.declares,
                 package |-> good[handoff.pair[1]].package,
                 swapped |-> handoff.swaps > 1, whole |-> TRUE]
           answer == [Answered(h) EXCEPT !.package = h.package]
<1>1. /\ UNCHANGED <<builtSoFar, package, captured, dropped, good, marks, diffRuns, handoffs,
                     hands, handoffFaults, mixed>>
      /\ handoff.step = "register" /\ handoff' = NoHandoff
      /\ handoffRows' = Append(handoffRows, h) /\ handed' = handed \cup {answer}
      /\ HandoffTypeOK
  BY DEF RegisterHandoff, HandoffInvariant
<1>2. /\ handoff.pair \in Marked \X Marked
      /\ IsGoodPair(handoff.pair[1], handoff.pair[2])
      /\ RecordedPackage \in Builds /\ handoff.pair \in diffRuns
      /\ handoff.declares = RecordedPackage /\ handoff.embeds \in Builds
      /\ handoff.swaps <= 1 => handoff.embeds = RecordedPackage
  BY <1>1 DEF HandoffInvariant, HandoffFits, HandoffRunsOn
<1>3. /\ h \in Handoffs /\ <<h.current, h.previous>> = handoff.pair
      /\ h.package = RecordedPackage /\ h.declares = RecordedPackage /\ h.whole
      /\ ~h.swapped => h.embeds = RecordedPackage
  <2>1. handoff.pair[1] \in GoodVersions /\ handoff.pair[2] \in GoodVersions
    BY <1>2 DEF Marked
  <2>2. /\ h.current = handoff.pair[1] /\ h.previous = handoff.pair[2]
        /\ h.embeds = handoff.embeds /\ h.declares = handoff.declares
        /\ h.package = RecordedPackage /\ h.whole /\ h.swapped = (handoff.swaps > 1)
    BY DEF RecordedPackage
  <2>3. h \in Handoffs
    BY <1>2, <2>1 DEF Handoffs, RecordedPackage
  <2>4. handoff.swaps \in Nat
    BY <1>1 DEF HandoffTypeOK
  <2>5. handoff.pair = <<handoff.pair[1], handoff.pair[2]>>
    BY <1>2
  <2> HIDE DEF h, answer
  <2>6. ~h.swapped => ~(handoff.swaps > 1)
    BY <2>2
  <2>7. ~h.swapped => handoff.swaps <= 1
    BY <2>4, <2>6
  <2>8. ~h.swapped => h.embeds = RecordedPackage
    BY <1>2, <2>2, <2>7
  <2> QED
    BY <1>2, <2>2, <2>3, <2>5, <2>8
<1>4. /\ answer \in HandoffAnswers /\ answer.handoff = h /\ answer.versions = handoff.pair
      /\ answer.package = RecordedPackage
  <2>1. (CHOOSE p \in Marked \X Marked : IsGoodPair(p[1], p[2])) = handoff.pair
    BY <1>1, <1>2, GoodPairIsOne
  <2> HIDE DEF h
  <2>2. Answered(h) = [handoff |-> h, versions |-> handoff.pair, package |-> package]
    BY <2>1 DEF Answered
  <2>3. answer = [handoff |-> h, versions |-> handoff.pair, package |-> h.package]
    BY <2>2
  <2>4. handoff.pair \in GoodVersions \X GoodVersions
    BY <1>2 DEF Marked
  <2> HIDE DEF answer
  <2> QED
    BY <1>2, <1>3, <2>3, <2>4 DEF HandoffAnswers
<1>5. h.current # h.previous
  BY <1>1, <1>2, MarkedIsTyped DEF IsGoodPair
<1> HIDE DEF h, answer
<1>6. /\ handoffRows' \in Seq(Handoffs)
      /\ DOMAIN handoffRows' = 1..(Len(handoffRows) + 1) /\ Len(handoffRows) \in Nat
      /\ DOMAIN handoffRows = 1..Len(handoffRows)
      /\ handoffRows'[Len(handoffRows) + 1] = h
      /\ \A i \in 1..Len(handoffRows) : handoffRows'[i] = handoffRows[i]
  BY <1>1, <1>3, AppendProperties, LenProperties DEF HandoffTypeOK
<1>7. PassesFit'
  <2> SUFFICES ASSUME NEW i \in DOMAIN handoffRows'
               PROVE  /\ handoffRows'[i].declares = handoffRows'[i].package
                      /\ ~handoffRows'[i].swapped =>
                            handoffRows'[i].embeds = handoffRows'[i].package
                      /\ <<handoffRows'[i].current, handoffRows'[i].previous>> \in diffRuns
    BY <1>1 DEF PassesFit
  <2>1. CASE i \in 1..Len(handoffRows)
    BY <1>6, <2>1 DEF HandoffInvariant, PassesFit
  <2>2. CASE i = Len(handoffRows) + 1
    BY <1>2, <1>3, <1>6, <2>2
  <2> QED
    BY <1>6, <2>1, <2>2
<1>8. AnswerIsOfTheGoodPair' /\ handed' \subseteq HandoffAnswers
  BY <1>1, <1>2, <1>3, <1>4, <1>5 DEF HandoffInvariant, AnswerIsOfTheGoodPair
<1>9. HandoffTypeOK'
  BY <1>1, <1>3, <1>4, <1>6, NoHandoffFits DEF HandoffTypeOK, HandoffRecords
<1>10. HandoffFits'
  BY <1>1, NoHandoffFits DEF HandoffFits, HandoffRunsOn
<1>11. MarksFit' /\ GoodPackageIsOfItsVersion'
  <2>1. hands \in Nat
    BY <1>1 DEF HandoffTypeOK
  <2> QED
    BY <1>1, <2>1, NoHandoffFits
       DEF HandoffInvariant, MarksFit, Marked, GoodPackageIsOfItsVersion
<1> QED
  BY <1>7, <1>8, <1>9, <1>10, <1>11 DEF HandoffInvariant

\* Whatever became of the file of the package while a handoff was made: what the running
\* handoff has read is known from how often it was replaced.
THEOREM HandoffInvariantCorrect == HandoffSpec => []HandoffInvariant
<1>1. HandoffInit => HandoffInvariant
  <2> SUFFICES ASSUME HandoffInit PROVE HandoffInvariant
    OBVIOUS
  <2>1. HandoffTypeOK
    <3>1. <<>> \in Seq(Builds) /\ Len(<<>>) = 0 /\ <<>> \in Seq(Handoffs)
      BY EmptySeq
    <3>2. good \in [GoodVersions -> Marks \cup {Unmarked}]
      BY DEF HandoffInit
    <3>3. /\ 0 \in 0..MaxHandoffBuilds /\ 0 \in 0..MaxMarks /\ 0 \in 0..MaxHandoffs
          /\ 0 \in 0..MaxHands /\ 0 \in 0..MaxHandoffFaults /\ 0 <= MaxHandoffBuilds
      BY HandoffAssumption
    <3> QED
      BY <3>1, <3>2, <3>3, NoHandoffFits DEF HandoffInit, HandoffTypeOK, HandoffRecords
  <2>2. HandoffFits
    BY NoHandoffFits DEF HandoffInit, HandoffFits, HandoffRunsOn
  <2>3. PassesFit /\ AnswerIsOfTheGoodPair /\ handed \subseteq HandoffAnswers
    BY DEF HandoffInit, PassesFit, AnswerIsOfTheGoodPair
  <2>4. Marked = {}
    BY DEF HandoffInit, Marked
  <2>5. MarksFit /\ GoodPackageIsOfItsVersion
    BY <2>4, NoHandoffFits DEF HandoffInit, MarksFit, GoodPackageIsOfItsVersion
  <2> QED
    BY <2>1, <2>2, <2>3, <2>5 DEF HandoffInvariant
<1>2. ASSUME HandoffInvariant, [HandoffNext]_handoffVars PROVE HandoffInvariant'
  <2>1. CASE UNCHANGED handoffVars
    BY <1>2, <2>1 DEF handoffVars, HandoffInvariant, HandoffTypeOK, HandoffFits, HandoffRunsOn,
       RecordedPackage, IsGoodPair, Marked, PassesFit, AnswerIsOfTheGoodPair, MarksFit,
       GoodPackageIsOfItsVersion
  <2>2. CASE BuildPackages \/ ReplacePackage \/ MarkBuildGood
    BY <1>2, <2>2, BuildPackagesKeeps, ReplacePackageKeeps, MarkBuildGoodKeeps
  <2>3. ASSUME NEW v \in GoodVersions, DropGoodVersion(v) PROVE HandoffInvariant'
    BY <1>2, <2>3, DropGoodVersionKeeps
  <2>4. ASSUME NEW i \in DOMAIN handoffRows, LoseArchive(i) PROVE HandoffInvariant'
    BY <1>2, <2>4, LoseArchiveKeeps
  <2>5. CASE \/ StartHandoff \/ RecordDiff \/ WriteHandoffManifest \/ WriteHandoffArchive
             \/ ValidateHandoff \/ RegisterHandoff \/ CrashHandoff
    BY <1>2, <2>5, StartHandoffKeeps, RecordDiffKeeps, WriteHandoffManifestKeeps,
       WriteHandoffArchiveKeeps, ValidateHandoffKeeps, RegisterHandoffKeeps, CrashHandoffKeeps
  <2> QED
    BY <1>2, <2>1, <2>2, <2>3, <2>4, <2>5 DEF HandoffNext
<1> QED
  BY <1>1, <1>2, PTL DEF HandoffSpec

\* What is handed over is of the two versions marked last, with the package recorded for the
\* later one, unless the file was replaced and put back while it was made.
THEOREM HandoffsTrue == HandoffSpec => []HandoffsAreTrue
<1>1. HandoffInvariant => HandoffsAreTrue
  BY DEF HandoffInvariant, HandoffsAreTrue, HandoffHoldsItsPackage, PassesFit
<1> QED
  BY <1>1, HandoffInvariantCorrect, PTL

-----------------------------------------------------------------------------
(* The folder of a new brain.                                              *)

\* A file of the brain that nobody damaged is right, or as the build makes it.
MembersFit(members, hurt) ==
    \A m \in ResourceFiles \ hurt :
        \/ members[m] = "right"
        \/ m = "router" /\ members[m] = "policy"
        \/ m = "template" /\ members[m] = "gone"

Empty(members) == \A m \in ResourceFiles : members[m] = "gone"

Installing == {"install", "copy", "check", "commit"}
Installed == {"recheck", "restore", "supply", "govern", "verify", "ready"}

\* Where an initialization stands, and what the folder has by then.
FolderFits ==
    /\ root # NoRoot => Empty(root.members) \/ MembersFit(root.members, damaged)
    /\ preparing \in Installed => root # NoRoot /\ MembersFit(root.members, damaged)
    /\ preparing = "commit" => copied = AllRight
    /\ preparing = "park" => root # NoRoot /\ Empty(root.members)
    /\ preparing \in {"govern", "verify", "ready"} =>
           root.members["template"] = "gone"
    /\ preparing \in {"verify", "ready"} =>
           root.members["router"] = "policy" \/ "router" \in damaged

\* An older folder is looked at and refused.
OlderFits ==
    older => root # NoRoot /\ root.foreign /\ Empty(root.members) /\ preparing \in {"idle", "look"}

\* While the folder is being made, what is in it was written meanwhile.
RecordsFit ==
    /\ preparing \notin Exposed => moved = NothingMoved
    /\ preparing \in Exposed /\ root # NoRoot => root.runtime \cup root.nested \subseteq crossed
    /\ crossed = {} => (root # NoRoot => root.nested = {}) /\ moved.nested = {}
    /\ \A r \in written \ crossed :
         \/ root # NoRoot /\ r \in root.runtime \cup root.nested
         \/ r \in MovedRecords \cup stranded

RootInvariant == RootTypeOK /\ FolderFits /\ OlderFits /\ RecordsFit

-----------------------------------------------------------------------------
LEMMA RightFits == AllRight \in [ResourceFiles -> FileStates] /\ MembersFit(AllRight, {})
BY DEF AllRight, FileStates, ResourceFiles, MembersFit

LEMMA BareTyped ==
    /\ NoMembers \in [ResourceFiles -> FileStates] /\ Empty(NoMembers)
    /\ BareFolder \in BrainFolder /\ BareFolder.members = NoMembers
    /\ BareFolder.runtime = {} /\ BareFolder.nested = {} /\ ~BareFolder.foreign
    /\ NothingMoved \in Parked /\ NothingMoved.runtime = {} /\ NothingMoved.nested = {}
  BY DEF NoMembers, Empty, FileStates, ResourceFiles, BareFolder, BrainFolder,
     NothingMoved, Parked

LEMMA RootStart == RootInit => RootInvariant
<1> SUFFICES ASSUME RootInit PROVE RootInvariant
  OBVIOUS
<1>1. [BareFolder EXCEPT !.foreign = TRUE] \in BrainFolder
  BY BareTyped DEF BrainFolder
<1>2. root \in BrainFolder \cup {NoRoot}
  BY <1>1, BareTyped DEF RootInit
<1>3. root # NoRoot => Empty(root.members) /\ root.nested = {}
  BY BareTyped DEF RootInit, BareFolder
<1>4. RootTypeOK
  BY <1>2, BareTyped, RightFits, RootAssumption DEF RootInit, RootTypeOK, PreparationSteps
<1>5. FolderFits /\ OlderFits
  BY <1>3 DEF RootInit, FolderFits, OlderFits, Installed
<1>6. RecordsFit
  BY <1>3, BareTyped DEF RootInit, RecordsFit, Exposed
<1> QED
  BY <1>4, <1>5, <1>6 DEF RootInvariant

-----------------------------------------------------------------------------
\* A step that ends or goes on without touching the folder.
LEMMA AbandonedKeeps ==
    ASSUME RootInvariant, ~RootAt("idle"), ~RootAt("look"), Abandoned,
           UNCHANGED <<root, resource, bookVars>>, rootFaults' \in 0..MaxRootFaults
    PROVE  RootInvariant'
<1>1. ~older
  BY DEF RootInvariant, OlderFits, RootAt
<1>2. RootTypeOK'
  BY BareTyped DEF RootInvariant, RootTypeOK, Abandoned, PreparationSteps, MovedRecords,
     Parked,
     bookVars
<1>3. FolderFits' /\ OlderFits'
  BY <1>1 DEF RootInvariant, FolderFits, OlderFits, Abandoned, Installed, bookVars
<1>4. RecordsFit'
  BY BareTyped DEF RootInvariant, RecordsFit, Abandoned, Exposed, MovedRecords, bookVars
<1> QED
  BY <1>2, <1>3, <1>4 DEF RootInvariant

LEMMA RefusedKeeps ==
    ASSUME RootInvariant, ~RootAt("idle"), ~RootAt("look"), Refused,
           UNCHANGED <<bookVars, rootFaults>>
    PROVE  RootInvariant'
  BY AbandonedKeeps DEF RootInvariant, RootTypeOK, Refused

\* A step of the initialization that only decides what is next.
LEMMA DecisionKeeps ==
    ASSUME RootInvariant, NEW step \in PreparationSteps, preparing' = step,
           UNCHANGED <<resource, root, besideVars, written, writes, older, damaged, crossed,
                       rootFaults>>,
           preparations' \in 0..MaxPreparations,
           older => step \in {"idle", "look"},
           step \in Installed => root # NoRoot /\ MembersFit(root.members, damaged),
           step = "commit" => copied = AllRight,
           step = "park" => root # NoRoot /\ Empty(root.members),
           step \in {"govern", "verify", "ready"} => root.members["template"] = "gone",
           step \in {"verify", "ready"} =>
               root.members["router"] = "policy" \/ "router" \in damaged,
           step \notin Exposed => moved = NothingMoved,
           step \in Exposed /\ root # NoRoot => root.runtime \cup root.nested \subseteq crossed
    PROVE  RootInvariant'
<1>1. RootTypeOK'
  BY DEF RootInvariant, RootTypeOK, besideVars
<1>2. FolderFits' /\ OlderFits'
  BY DEF RootInvariant, FolderFits, OlderFits, besideVars
<1>3. RecordsFit'
  BY DEF RootInvariant, RecordsFit, MovedRecords, besideVars
<1> QED
  BY <1>1, <1>2, <1>3 DEF RootInvariant

LEMMA PrepareRootKeeps == ASSUME RootInvariant, PrepareRoot PROVE RootInvariant'
  BY RootAssumption, DecisionKeeps DEF PrepareRoot, RootInvariant, RootTypeOK, RecordsFit,
     RootAt, Exposed, PreparationSteps, Installed

LEMMA LookAtRootKeeps == ASSUME RootInvariant, LookAtRoot PROVE RootInvariant'
<1> DEFINE step == IF root = NoRoot THEN "install"
                   ELSE IF IsBrain(root) THEN "supply"
                   ELSE IF ~HasFiles(root) THEN "clear"
                   ELSE IF OnlyRuntime(root) THEN "park"
                   ELSE "idle"
<1>1. /\ preparing' = step /\ preparing = "look"
      /\ UNCHANGED <<resource, root, besideVars, bookVars, rootFaults>>
  BY DEF LookAtRoot, RootAt
<1>2. moved = NothingMoved
  BY <1>1 DEF RootInvariant, RecordsFit, Exposed
<1>3. older => step = "idle"
  BY DEF RootInvariant, OlderFits, IsBrain, HasFiles, OnlyRuntime, Empty, ResourceFiles
<1>4. step = "supply" => root # NoRoot /\ MembersFit(root.members, damaged)
  BY DEF RootInvariant, FolderFits, IsBrain, Empty, ResourceFiles
<1>5. step = "clear" => root # NoRoot /\ root.runtime \cup root.nested \subseteq crossed
  BY DEF HasFiles
<1>6. step = "park" => root # NoRoot /\ Empty(root.members)
  BY DEF OnlyRuntime, Empty
<1>7. step \in {"install", "supply", "clear", "park", "idle"}
  OBVIOUS
<1>8. step = "install" => root = NoRoot
  OBVIOUS
<1>9. preparations' \in 0..MaxPreparations
  BY <1>1 DEF RootInvariant, RootTypeOK, bookVars
<1> HIDE DEF step
<1>10. step \in PreparationSteps
  BY <1>7 DEF PreparationSteps
<1>11. /\ older => step \in {"idle", "look"}
       /\ step \in Installed => root # NoRoot /\ MembersFit(root.members, damaged)
       /\ step # "commit" /\ step \notin {"govern", "verify", "ready"}
       /\ step \in Exposed /\ root # NoRoot => root.runtime \cup root.nested \subseteq crossed
  BY <1>3, <1>4, <1>5, <1>7, <1>8 DEF Installed, Exposed
<1> QED
  BY <1>1, <1>2, <1>6, <1>9, <1>10, <1>11, DecisionKeeps DEF bookVars

\* What is at a step at which no older folder is.
LEMMA Younger ==
    ASSUME RootInvariant, ~RootAt("idle"), ~RootAt("look") PROVE ~older
BY DEF RootInvariant, OlderFits, RootAt

LEMMA InstallResourceKeeps == ASSUME RootInvariant, InstallResource PROVE RootInvariant'
<1>1. preparing = "install" /\ ~RootAt("idle") /\ ~RootAt("look") /\ ~older
  BY Younger DEF InstallResource, RootAt
<1>2. CASE Refused
  BY <1>1, <1>2, RefusedKeeps DEF InstallResource
<1>3. CASE preparing' = "copy" /\ UNCHANGED <<resource, root, besideVars>> /\ root = NoRoot
  BY <1>1, <1>3, DecisionKeeps DEF InstallResource, RootInvariant, RootTypeOK,
     PreparationSteps,
     Installed, Exposed, bookVars
<1> QED
  BY <1>2, <1>3 DEF InstallResource

LEMMA CopyResourceKeeps == ASSUME RootInvariant, CopyResource PROVE RootInvariant'
<1>1. preparing = "copy" /\ ~older
  BY Younger DEF CopyResource, RootAt
<1>2. RootTypeOK'
  BY DEF CopyResource, RootInvariant, RootTypeOK, PreparationSteps, bookVars
<1>3. FolderFits' /\ OlderFits'
  BY <1>1 DEF CopyResource, RootInvariant, FolderFits, OlderFits, Installed, bookVars
<1>4. RecordsFit'
  BY <1>1 DEF CopyResource, RootInvariant, RecordsFit, Exposed, MovedRecords, bookVars
<1> QED
  BY <1>2, <1>3, <1>4 DEF RootInvariant

LEMMA CheckStageKeeps == ASSUME RootInvariant, CheckStage PROVE RootInvariant'
<1>1. preparing = "check" /\ ~RootAt("idle") /\ ~RootAt("look") /\ ~older
  BY Younger DEF CheckStage, RootAt
<1>2. CASE Refused
  BY <1>1, <1>2, RefusedKeeps DEF CheckStage
<1>3. CASE Sound(copied) /\ preparing' = "commit" /\ UNCHANGED <<resource, root, besideVars>>
  BY <1>3, <1>1, DecisionKeeps DEF Sound, MembersMatch, AllRight, RootInvariant,
     RootTypeOK, RecordsFit, Exposed, CheckStage, PreparationSteps, Installed, bookVars
<1> QED
  BY <1>2, <1>3 DEF CheckStage

LEMMA RecheckRootKeeps == ASSUME RootInvariant, RecheckRoot PROVE RootInvariant'
<1>1. preparing = "recheck" /\ ~RootAt("idle") /\ ~RootAt("look") /\ ~older
  BY Younger DEF RecheckRoot, RootAt
<1>2. CASE Refused
  BY <1>1, <1>2, RefusedKeeps DEF RecheckRoot
<1>3. CASE preparing' = "restore" /\ UNCHANGED <<resource, root, besideVars>>
  BY <1>1, <1>3, DecisionKeeps DEF RootInvariant, FolderFits, Installed, RecordsFit,
     Exposed, RecheckRoot, RootTypeOK, PreparationSteps, bookVars
<1> QED
  BY <1>2, <1>3 DEF RecheckRoot

LEMMA VerifyLiveKeeps == ASSUME RootInvariant, VerifyLive PROVE RootInvariant'
<1>1. preparing = "verify" /\ ~RootAt("idle") /\ ~RootAt("look") /\ ~older
  BY Younger DEF VerifyLive, RootAt
<1>2. CASE Refused
  BY <1>1, <1>2, RefusedKeeps DEF VerifyLive
<1>3. CASE preparing' = "ready" /\ UNCHANGED <<resource, root, besideVars>>
  BY <1>1, <1>3, DecisionKeeps DEF RootInvariant, FolderFits, Installed, RecordsFit,
     Exposed, VerifyLive, RootTypeOK, PreparationSteps, bookVars
<1> QED
  BY <1>2, <1>3 DEF VerifyLive

LEMMA GoOnKeeps == ASSUME RootInvariant, GoOn PROVE RootInvariant'
  BY DecisionKeeps DEF GoOn, RootInvariant, RecordsFit, Exposed, RootAt, RootTypeOK,
     PreparationSteps, Installed, bookVars

-----------------------------------------------------------------------------
(* The steps that change the folder.                                       *)

\* A folder with other files of the resource.
LEMMA WithMembers ==
    ASSUME NEW folder \in BrainFolder, NEW members \in [ResourceFiles -> FileStates]
    PROVE  LET f == [folder EXCEPT !.members = members]
           IN  /\ f \in BrainFolder /\ f # NoRoot
               /\ f.members = members /\ f.foreign = folder.foreign
               /\ f.runtime = folder.runtime /\ f.nested = folder.nested
<1> DEFINE f == [folder EXCEPT !.members = members]
<1>1. /\ f \in BrainFolder
      /\ f.members = members /\ f.foreign = folder.foreign
      /\ f.runtime = folder.runtime /\ f.nested = folder.nested
  BY DEF BrainFolder
<1> QED
  BY <1>1, NoRootIsNone

LEMMA ParkRuntimeKeeps == ASSUME RootInvariant, ParkRuntime PROVE RootInvariant'
<1> DEFINE f == [root EXCEPT !.runtime = {}, !.nested = {}]
           p == [runtime |-> root.runtime, nested |-> root.nested]
<1>1. preparing = "park" /\ ~older /\ root # NoRoot /\ Empty(root.members) /\ root \in BrainFolder
  BY Younger DEF ParkRuntime, RootAt, RootInvariant, RootTypeOK, FolderFits
<1>2. /\ f \in BrainFolder /\ f # NoRoot /\ f.members = root.members
      /\ f.runtime = {} /\ f.nested = {}
  BY <1>1, NoRootIsNone DEF BrainFolder
<1>3. p \in Parked /\ p.runtime = root.runtime /\ p.nested = root.nested
  BY <1>1 DEF Parked, BrainFolder
<1>4. /\ root' = f /\ moved' = p /\ preparing' = "clear"
      /\ UNCHANGED <<resource, copied, stranded, bookVars, rootFaults>>
  BY DEF ParkRuntime
<1> HIDE DEF f, p
<1>5. RootTypeOK'
  BY <1>2, <1>3, <1>4 DEF RootInvariant, RootTypeOK, PreparationSteps, bookVars
<1>6. FolderFits' /\ OlderFits'
  BY <1>1, <1>2, <1>4 DEF FolderFits, OlderFits, Installed, bookVars
<1>7. RecordsFit'
  BY <1>1, <1>2, <1>3, <1>4, BareTyped DEF RootInvariant, RecordsFit, Exposed,
     MovedRecords, bookVars
<1> QED
  BY <1>5, <1>6, <1>7 DEF RootInvariant

LEMMA ClearRootKeeps == ASSUME RootInvariant, ClearRoot PROVE RootInvariant'
<1>1. preparing = "clear" /\ ~older
  BY Younger DEF ClearRoot, RootAt
<1>2. RootTypeOK'
  BY DEF ClearRoot, RootInvariant, RootTypeOK, PreparationSteps, besideVars, bookVars
<1>3. FolderFits' /\ OlderFits'
  BY <1>1 DEF ClearRoot, FolderFits, OlderFits, Installed, bookVars
<1>4. RecordsFit'
  BY <1>1 DEF ClearRoot, RootInvariant, RecordsFit, Exposed, MovedRecords, besideVars, bookVars
<1> QED
  BY <1>2, <1>3, <1>4 DEF RootInvariant

LEMMA CommitStageKeeps == ASSUME RootInvariant, CommitStage PROVE RootInvariant'
<1> DEFINE f == [BareFolder EXCEPT !.members = copied]
<1>1. preparing = "commit" /\ ~RootAt("idle") /\ ~RootAt("look") /\ ~older /\ copied = AllRight
  BY Younger DEF CommitStage, RootAt, RootInvariant, FolderFits
<1>2. CASE Refused
  BY <1>1, <1>2, RefusedKeeps DEF CommitStage
<1>3. ASSUME root = NoRoot, root' = f, copied' = NoMembers, preparing' = "recheck",
             UNCHANGED <<resource, moved, stranded, bookVars, rootFaults>>
      PROVE  RootInvariant'
  <2>1. /\ f \in BrainFolder /\ f # NoRoot /\ f.members = AllRight
        /\ f.runtime = {} /\ f.nested = {}
    BY <1>1, WithMembers, BareTyped, RightFits
  <2> HIDE DEF f
  <2>2. RootTypeOK'
    BY <1>3, <2>1, BareTyped DEF RootInvariant, RootTypeOK, PreparationSteps, bookVars
  <2>3. MembersFit(AllRight, damaged)
    BY RightFits DEF MembersFit
  <2>4. FolderFits' /\ OlderFits'
    BY <1>1, <1>3, <2>1, <2>3 DEF FolderFits, OlderFits, Installed, bookVars
  <2>5. RecordsFit'
    BY <1>1, <1>3, <2>1 DEF RootInvariant, RecordsFit, Exposed, MovedRecords, bookVars
  <2> QED
    BY <2>2, <2>4, <2>5 DEF RootInvariant
<1> QED
  BY <1>2, <1>3 DEF CommitStage

LEMMA RestoreRuntimeKeeps == ASSUME RootInvariant, RestoreRuntime PROVE RootInvariant'
<1> DEFINE r == IF root.runtime = {} THEN moved.runtime ELSE root.runtime
           n == IF root.runtime = {} THEN moved.nested ELSE MovedRecords
           f == [root EXCEPT !.runtime = r, !.nested = n]
<1>1. /\ preparing = "restore" /\ ~older /\ root # NoRoot /\ MembersFit(root.members, damaged)
      /\ root \in BrainFolder /\ moved \in Parked
  BY Younger DEF RestoreRuntime, RootAt, RootInvariant, RootTypeOK, FolderFits, Installed
<1>2. root.runtime \cup root.nested \subseteq crossed /\ root.runtime \in SUBSET RuntimeFiles
  BY <1>1 DEF RootInvariant, RecordsFit, Exposed, BrainFolder
<1>3. r \in SUBSET RuntimeFiles /\ n \in SUBSET RuntimeFiles
  BY <1>1, <1>2 DEF Parked, MovedRecords
<1>4. /\ r \cup n \subseteq root.runtime \cup MovedRecords
      /\ MovedRecords \subseteq r \cup n
      /\ crossed = {} => r = moved.runtime /\ n = moved.nested
  BY <1>2 DEF MovedRecords
<1>5. /\ moved' = NothingMoved /\ preparing' = "supply"
      /\ UNCHANGED <<resource, copied, stranded, bookVars, rootFaults>>
  BY DEF RestoreRuntime
<1>6. root' = f
  BY <1>1 DEF BrainFolder, RestoreRuntime
<1> HIDE DEF r, n
<1>7. /\ f \in BrainFolder /\ f # NoRoot /\ f.members = root.members
      /\ f.runtime = r /\ f.nested = n
  BY <1>1, <1>3, NoRootIsNone DEF BrainFolder
<1> HIDE DEF f
<1>8. RootTypeOK'
  BY <1>5, <1>6, <1>7, BareTyped DEF RootInvariant, RootTypeOK, PreparationSteps, bookVars
<1>9. FolderFits' /\ OlderFits'
  BY <1>1, <1>5, <1>6, <1>7 DEF FolderFits, OlderFits, Installed, bookVars
<1>10. RecordsFit'
  BY <1>1, <1>2, <1>4, <1>5, <1>6, <1>7, BareTyped DEF RootInvariant, RecordsFit, Exposed,
     MovedRecords, bookVars
<1> QED
  BY <1>8, <1>9, <1>10 DEF RootInvariant

\* A step that changes files of the resource in the folder.
LEMMA MembersMove ==
    ASSUME RootInvariant, root # NoRoot, NEW members \in [ResourceFiles -> FileStates],
           root' = [root EXCEPT !.members = members], NEW step \in PreparationSteps,
           preparing' = step, step \in Exposed <=> preparing \in Exposed,
           UNCHANGED <<resource, besideVars, preparations, written, writes, older, crossed>>,
           rootFaults' \in 0..MaxRootFaults, damaged' \in SUBSET ResourceFiles,
           ~older, MembersFit(members, damaged'),
           step # "park", step = "commit" => preparing = "commit",
           step \in {"govern", "verify", "ready"} => members["template"] = "gone",
           step \in {"verify", "ready"} => members["router"] = "policy" \/ "router" \in damaged'
    PROVE  RootInvariant'
<1> DEFINE f == [root EXCEPT !.members = members]
<1>1. root \in BrainFolder
  BY DEF RootInvariant, RootTypeOK
<1>2. /\ f \in BrainFolder /\ f # NoRoot /\ f.members = members
      /\ f.runtime = root.runtime /\ f.nested = root.nested
  BY <1>1, WithMembers
<1>3. root' = f
  OBVIOUS
<1> HIDE DEF f
<1>4. RootTypeOK'
  BY <1>2, <1>3 DEF RootInvariant, RootTypeOK, besideVars
<1>5. FolderFits' /\ OlderFits'
  BY <1>2, <1>3 DEF RootInvariant, FolderFits, OlderFits, besideVars
<1>6. RecordsFit'
  BY <1>2, <1>3 DEF RootInvariant, RecordsFit, MovedRecords, besideVars
<1> QED
  BY <1>4, <1>5, <1>6 DEF RootInvariant

LEMMA SupplyAuthorityKeeps == ASSUME RootInvariant, SupplyAuthority PROVE RootInvariant'
<1> DEFINE g == WithAuthorities(WithoutTemplate(root.members))
<1>1. /\ preparing = "supply" /\ ~older /\ root # NoRoot /\ root \in BrainFolder
      /\ MembersFit(root.members, damaged)
  BY Younger DEF SupplyAuthority, RootAt, RootInvariant, RootTypeOK, FolderFits, Installed
<1>2. root.members \in [ResourceFiles -> FileStates]
  BY <1>1 DEF BrainFolder
<1>3. g \in [ResourceFiles -> FileStates] /\ g["template"] = "gone"
  BY <1>2 DEF WithAuthorities, WithoutTemplate, ResourceFiles, FileStates
<1>4. MembersFit(g, damaged)
  BY <1>1, <1>2 DEF WithAuthorities, WithoutTemplate, ResourceFiles, MembersFit
<1>5. /\ root' = [root EXCEPT !.members = g] /\ preparing' = "govern"
      /\ UNCHANGED <<resource, besideVars, bookVars, rootFaults>>
  BY DEF SupplyAuthority
<1> HIDE DEF g
<1>6. "govern" \in PreparationSteps /\ "govern" \notin Exposed /\ preparing \notin Exposed
  BY <1>1 DEF PreparationSteps, Exposed
<1> QED
  BY <1>1, <1>3, <1>4, <1>5, <1>6, MembersMove DEF RootInvariant, RootTypeOK, bookVars

LEMMA GovernRouterKeeps == ASSUME RootInvariant, GovernRouter PROVE RootInvariant'
<1> DEFINE g == [root.members EXCEPT !["router"] = "policy"]
<1>1. /\ preparing = "govern" /\ ~older /\ root # NoRoot /\ root \in BrainFolder
      /\ ~RootAt("idle") /\ ~RootAt("look")
      /\ MembersFit(root.members, damaged) /\ root.members["template"] = "gone"
  BY Younger DEF GovernRouter, RootAt, RootInvariant, RootTypeOK, FolderFits, Installed
<1>2. root.members \in [ResourceFiles -> FileStates]
  BY <1>1 DEF BrainFolder
<1>3. /\ g \in [ResourceFiles -> FileStates] /\ g["template"] = "gone" /\ g["router"] = "policy"
  BY <1>1, <1>2 DEF ResourceFiles, FileStates
<1>4. MembersFit(g, damaged)
  BY <1>1, <1>2 DEF ResourceFiles, MembersFit
<1>5. CASE Refused
  BY <1>1, <1>5, RefusedKeeps DEF GovernRouter
<1>6. ASSUME root' = [root EXCEPT !.members["router"] = "policy"], preparing' = "verify",
             UNCHANGED <<resource, copied, moved, stranded, bookVars, rootFaults>>
      PROVE  RootInvariant'
  <2>1. root' = [root EXCEPT !.members = g]
    BY <1>1, <1>6 DEF BrainFolder
  <2> HIDE DEF g
  <2>2. "verify" \in PreparationSteps /\ "verify" \notin Exposed /\ preparing \notin Exposed
    BY <1>1 DEF PreparationSteps, Exposed
  <2> QED
    BY <1>1, <1>3, <1>4, <1>6, <2>1, <2>2, MembersMove
    DEF RootInvariant, RootTypeOK, bookVars, besideVars
<1> QED
  BY <1>5, <1>6 DEF GovernRouter

LEMMA WriteRecordKeeps ==
    ASSUME RootInvariant, NEW r \in RuntimeFiles, WriteRecord(r) PROVE RootInvariant'
<1> DEFINE old == IF root = NoRoot THEN BareFolder ELSE root
           f == [old EXCEPT !.runtime = old.runtime \cup {r}, !.nested = old.nested]
<1>1. old \in BrainFolder
  BY BareTyped DEF RootInvariant, RootTypeOK
<1>2. old.runtime \in SUBSET RuntimeFiles /\ old.nested \in SUBSET RuntimeFiles
  BY <1>1 DEF BrainFolder
<1>3. root' = f
  BY <1>1, BareTyped DEF BrainFolder, WriteRecord
<1>4. /\ root # NoRoot => old = root
      /\ root = NoRoot => /\ old.runtime = {} /\ old.nested = {} /\ ~old.foreign
                          /\ Empty(old.members)
  BY BareTyped
<1> HIDE DEF old
<1>5. /\ f \in BrainFolder /\ f # NoRoot /\ f.members = old.members /\ f.foreign = old.foreign
      /\ f.runtime = old.runtime \cup {r} /\ f.nested = old.nested
  <2>1. /\ f \in BrainFolder /\ f.members = old.members /\ f.foreign = old.foreign
        /\ f.runtime = old.runtime \cup {r} /\ f.nested = old.nested
    BY <1>1, <1>2 DEF BrainFolder
  <2> QED
    BY <2>1, NoRootIsNone
<1> HIDE DEF f
<1>6. /\ writes < MaxTold /\ writes' = writes + 1 /\ written' = written \cup {r}
      /\ crossed' = IF preparing \in Exposed THEN crossed \cup {r} ELSE crossed
      /\ UNCHANGED <<resource, preparing, preparations, older, damaged, besideVars, rootFaults>>
  BY DEF WriteRecord
<1>7. RootTypeOK'
  BY <1>3, <1>5, <1>6, RootAssumption DEF RootInvariant, RootTypeOK, besideVars
<1>8. FolderFits' /\ OlderFits'
  BY <1>3, <1>4, <1>5, <1>6 DEF RootInvariant, FolderFits, OlderFits, besideVars, Installed
<1>9. RecordsFit'
  BY <1>4, <1>6, <1>5, <1>3 DEF RootInvariant, RecordsFit, MovedRecords, besideVars
<1> QED
  BY <1>7, <1>8, <1>9 DEF RootInvariant

LEMMA RootFaultTyped ==
    ASSUME RootInvariant, RootFault PROVE rootFaults' \in 0..MaxRootFaults
BY RootAssumption DEF RootInvariant, RootTypeOK, RootFault

LEMMA DamageResourceKeeps == ASSUME RootInvariant, DamageResource PROVE RootInvariant'
<1>1. rootFaults' \in 0..MaxRootFaults
  BY RootFaultTyped DEF DamageResource
<1>2. resource' \in [ResourceFiles -> FileStates]
  BY DEF DamageResource, RootInvariant, RootTypeOK, FileStates
<1>3. UNCHANGED <<root, preparing, besideVars, bookVars>>
  BY DEF DamageResource
<1>4. RootTypeOK'
  BY <1>1, <1>2, <1>3 DEF RootInvariant, RootTypeOK, besideVars, bookVars
<1>5. FolderFits' /\ OlderFits' /\ RecordsFit'
  BY <1>3 DEF RootInvariant, FolderFits, OlderFits, RecordsFit, MovedRecords, besideVars,
     bookVars
<1> QED
  BY <1>4, <1>5 DEF RootInvariant

LEMMA DamageRootKeeps == ASSUME RootInvariant, DamageRoot PROVE RootInvariant'
<1>1. rootFaults' \in 0..MaxRootFaults
  BY RootFaultTyped DEF DamageRoot
<1>2. PICK m \in {"pointer", "authority", "router", "sector"}, s \in {"wrong", "gone"} :
          /\ root' = [root EXCEPT !.members[m] = s]
          /\ damaged' = damaged \cup {m}
  BY DEF DamageRoot
<1> DEFINE g == [root.members EXCEPT ![m] = s]
<1>3. root # NoRoot /\ root \in BrainFolder /\ root.members["pointer"] # "gone"
  BY DEF DamageRoot, IsBrain, RootInvariant, RootTypeOK
<1>4. MembersFit(root.members, damaged) /\ ~older
  BY <1>3 DEF RootInvariant, FolderFits, OlderFits, Empty, ResourceFiles
<1>5. preparing # "park"
  BY <1>3 DEF RootInvariant, FolderFits, Empty, ResourceFiles
<1>6. m \in ResourceFiles /\ s \in FileStates /\ m # "template"
  BY DEF ResourceFiles, FileStates
<1>7. root.members \in [ResourceFiles -> FileStates]
  BY <1>3 DEF BrainFolder
<1>8. /\ g \in [ResourceFiles -> FileStates] /\ MembersFit(g, damaged')
      /\ g["template"] = root.members["template"]
      /\ m # "router" => g["router"] = root.members["router"]
      /\ damaged' \in SUBSET ResourceFiles
  BY <1>6, <1>7, <1>2, <1>4 DEF MembersFit, RootInvariant, RootTypeOK, ResourceFiles
<1>9. root' = [root EXCEPT !.members = g]
  BY <1>2, <1>3 DEF BrainFolder
<1> HIDE DEF g
<1>10. /\ preparing \in {"govern", "verify", "ready"} => g["template"] = "gone"
       /\ preparing \in {"verify", "ready"} => g["router"] = "policy" \/ "router" \in damaged'
  BY <1>2, <1>8 DEF RootInvariant, FolderFits
<1>11. UNCHANGED <<resource, preparing, preparations, written, writes, older, crossed, besideVars>>
  BY DEF DamageRoot
<1>12. preparing \in PreparationSteps
  BY DEF RootInvariant, RootTypeOK
<1> QED
  BY <1>1, <1>3, <1>4, <1>5, <1>8, <1>9, <1>10, <1>11, <1>12, MembersMove

LEMMA CutOffKeeps == ASSUME RootInvariant, CutOff PROVE RootInvariant'
<1>1. rootFaults' \in 0..MaxRootFaults
  BY RootFaultTyped DEF CutOff
<1>2. CASE RootAt("look")
  <2>1. preparing = "look" /\ moved = NothingMoved
    BY <1>2 DEF RootAt, RootInvariant, RecordsFit, Exposed
  <2>2. RootTypeOK'
    BY <1>1, <2>1, BareTyped DEF CutOff, Abandoned, RootInvariant, RootTypeOK,
       PreparationSteps,
       MovedRecords, bookVars
  <2>3. FolderFits' /\ OlderFits'
    BY <2>1 DEF CutOff, Abandoned, RootInvariant, FolderFits, OlderFits, Installed, bookVars
  <2>4. RecordsFit'
    BY <2>1, BareTyped DEF CutOff, Abandoned, RootInvariant, RecordsFit, Exposed, MovedRecords,
       bookVars
  <2> QED
    BY <2>2, <2>3, <2>4 DEF RootInvariant
<1>3. CASE ~RootAt("look")
  BY <1>1, <1>3, AbandonedKeeps DEF CutOff
<1> QED
  BY <1>2, <1>3

-----------------------------------------------------------------------------
\* However the resource and the brain are damaged, whatever is recorded meanwhile, and
\* wherever the initialization is cut off.
THEOREM RootInvariantCorrect == RootSpec => []RootInvariant
<1>1. ASSUME RootInvariant, [RootNext]_rootVars PROVE RootInvariant'
  <2>1. CASE UNCHANGED rootVars
    BY <1>1, <2>1 DEF RootInvariant, RootTypeOK, rootVars, FolderFits, OlderFits,
       RecordsFit, MovedRecords
  <2>2. CASE PrepareRoot \/ LookAtRoot \/ InstallResource \/ CopyResource \/ CheckStage
             \/ RecheckRoot \/ VerifyLive \/ GoOn
    BY <1>1, <2>2, PrepareRootKeeps, LookAtRootKeeps, InstallResourceKeeps, CopyResourceKeeps,
       CheckStageKeeps, RecheckRootKeeps, VerifyLiveKeeps, GoOnKeeps
  <2>3. CASE ParkRuntime \/ ClearRoot \/ CommitStage \/ RestoreRuntime \/ SupplyAuthority
             \/ GovernRouter
    BY <1>1, <2>3, ParkRuntimeKeeps, ClearRootKeeps, CommitStageKeeps, RestoreRuntimeKeeps,
       SupplyAuthorityKeeps, GovernRouterKeeps
  <2>4. CASE \E r \in RuntimeFiles : WriteRecord(r)
    BY <1>1, <2>4, WriteRecordKeeps
  <2>5. CASE DamageResource \/ DamageRoot \/ CutOff
    BY <1>1, <2>5, DamageResourceKeeps, DamageRootKeeps, CutOffKeeps
  <2> QED
    BY <1>1, <2>1, <2>2, <2>3, <2>4, <2>5 DEF RootNext
<1> QED
  BY <1>1, RootStart, PTL DEF RootSpec

\* A folder that is known as a brain is whole, a build goes on with one that is under its
\* policy, an older one is left alone, and no record is destroyed.
THEOREM RootsTrue == RootSpec => []RootIsTrue
<1>1. RootInvariant => RootIsTrue
  <2> SUFFICES ASSUME RootInvariant PROVE RootIsTrue
    OBVIOUS
  <2>1. BrainIsWhole
    BY DEF RootInvariant, FolderFits, BrainIsWhole, IsBrain, Empty, MembersFit, ResourceFiles
  <2>2. ReadyIsGoverned
    BY DEF RootInvariant, FolderFits, Installed, ReadyIsGoverned, RootAt, IsBrain, MembersFit,
       ResourceFiles
  <2>3. OlderIsLeftAlone
    BY DEF RootInvariant, OlderFits, OlderIsLeftAlone, IsBrain, Empty, ResourceFiles
  <2>4. RecordsSurvive
    BY BareTyped DEF RootInvariant, FolderFits, RecordsFit, RootAt, Installed, Exposed,
       MovedRecords, RecordsSurvive
  <2> QED
    BY <2>1, <2>2, <2>3, <2>4 DEF RootIsTrue
<1> QED
  BY <1>1, RootInvariantCorrect, PTL
================================================================================
