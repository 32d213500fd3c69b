---------------------------- MODULE SessionEvidence ----------------------------
(***************************************************************************)
(* What the sessions leave in the folder of a brain beside its sectors:    *)
(* the outputs a connected model proposed                                  *)
(* (workspace/selected_brain_state.py) and the receipts of what a user     *)
(* accepted by going on (runtime/review_qualification.py); and the         *)
(* selection of a brain, which reads them (ipc_worker.py).                 *)
(*                                                                         *)
(* An output is a file under the hash of its text, a receipt under the     *)
(* same hash and a row of an index.  All three are part of a version of    *)
(* the brain, and are copied when it is restored under another name, fused *)
(* or migrated; the receipts of acceptances are not part of it.  The       *)
(* commands on a brain hold its lock.                                      *)
(***************************************************************************)
EXTENDS Naturals, Sequences, FiniteSets

CONSTANTS
    MainBrain,          \* a brain
    RestoredBrain,      \* the name one of its versions is restored under
    OutputTexts,        \* contents of proposed outputs
    MediaTypes,         \* kinds of files an output can be
    ContinuationKeys,   \* tasks, runs and steers a user goes on with
    NoContinuation,     \* no earlier acceptance
    OtherReceipt,       \* a receipt from elsewhere
    NoCopy,             \* no version, no candidate, no folder
    NoOutput,           \* no receipt
    MaxSessionCommands, \* bound: commands, and steps of the folder
    MaxEvidenceFaults   \* bound: failed writes, crashes, files touched, clocks set back

ASSUME EvidenceAssumption ==
    /\ MainBrain # RestoredBrain /\ NoCopy \notin {MainBrain, RestoredBrain}
    /\ {NoContinuation, OtherReceipt} \cap ContinuationKeys = {}
    /\ MaxSessionCommands \in Nat /\ MaxEvidenceFaults \in Nat

BrainsSeen == {MainBrain, RestoredBrain}
ObjectKeys == OutputTexts \X MediaTypes      \* objects/<hash of the text><suffix>

\* What a continuation covers: its summary, checks, kinds of actions and next step.
Scopes == {1, 2}

Receipt == [media : MediaTypes, proposal : 1..MaxSessionCommands]
IndexRow == [text : OutputTexts, media : MediaTypes, proposal : 1..MaxSessionCommands,
             place : Nat]
Acceptance == [continuation : ContinuationKeys, scope : Scopes,
               prior : ContinuationKeys \cup {NoContinuation, OtherReceipt}, at : Nat]

\* owner: the brain the index names.  A sealed object is read-only.
Outputs == [owner : BrainsSeen \cup {NoCopy},
            objects : [ObjectKeys -> {"absent", "open", "sealed", "edited"}],
            receipts : [OutputTexts -> Receipt \cup {NoOutput}],
            index : Seq(IndexRow)]

\* A folder, and a receipt, that is not there is none.
ASSUME AbsentIsNoOutput == NoCopy \notin Outputs /\ NoOutput \notin Receipt

NoOutputs == [owner |-> NoCopy, objects |-> [k \in ObjectKeys |-> "absent"],
              receipts |-> [x \in OutputTexts |-> NoOutput], index |-> <<>>]

EvidenceSteps == {"idle", "object", "seal", "receipt", "index", "context", "commit"}

-----------------------------------------------------------------------------
VARIABLES
    outputs,      \* .evidenceos_model_outputs of each brain, NoCopy: no such brain
    accepts,      \* the receipts of acceptances of each brain; their order is history
    command,      \* what runs on each brain, with the output that is proposed
    versioned,    \* the outputs in the last version of the main brain
    inCandidate,  \* the outputs in its refresh candidate
    place,        \* where the workspace is: it moves when it is migrated
    selection,    \* the selected brain of the settings
    clock,        \* what the clock of the machine shows
    sessionCommands, evidenceFaults,
    reported,     \* history: rows returned to a turn, by brain
    refused,      \* history: why a proposal was refused, by brain
    confirmed,    \* history: acceptances returned, with what was asked, by brain
    fusedAway,    \* history: continuations accepted before a fuse
    unchained,    \* history: acceptances given a prior, or after a clock was set back
    handled,      \* history: objects a hand has removed or edited
    loosened,     \* history: brains with outputs copied, or not yet sealed at a stop
    committed     \* history: brains whose last selection was committed, or cut short

evidenceVars == <<outputs, accepts, command, versioned, inCandidate, place, selection,
                  clock, sessionCommands, evidenceFaults,
                  reported, refused, confirmed, fusedAway, unchained, handled, loosened,
                  committed>>

NothingRuns == [step |-> "idle", text |-> NoOutput, media |-> NoOutput, proposal |-> 0]

EvidenceTypeOK ==
    /\ outputs \in [BrainsSeen -> Outputs \cup {NoCopy}]
    /\ accepts \in [BrainsSeen -> Seq(Acceptance)]
    /\ \A b \in BrainsSeen : command[b].step \in EvidenceSteps
    /\ versioned \in Outputs \cup {NoCopy} /\ inCandidate \in Outputs \cup {NoCopy}
    /\ place \in Nat /\ clock \in Nat
    /\ selection \in BrainsSeen \cup {NoCopy}
    /\ sessionCommands \in 0..MaxSessionCommands
    /\ evidenceFaults \in 0..MaxEvidenceFaults

EvidenceInit ==
    /\ outputs = [b \in BrainsSeen |-> IF b = MainBrain THEN NoOutputs ELSE NoCopy]
    /\ accepts = [b \in BrainsSeen |-> <<>>]
    /\ command = [b \in BrainsSeen |-> NothingRuns]
    /\ versioned = NoCopy /\ inCandidate = NoCopy
    /\ place = 0 /\ clock = 0 /\ selection = NoCopy
    /\ sessionCommands = 0 /\ evidenceFaults = 0
    /\ reported = [b \in BrainsSeen |-> {}] /\ refused = [b \in BrainsSeen |-> {}]
    /\ confirmed = [b \in BrainsSeen |-> {}]
    /\ fusedAway = {} /\ unchained = {} /\ handled = {} /\ loosened = {} /\ committed = {}

-----------------------------------------------------------------------------
IsThere(b) == outputs[b] # NoCopy
Rests(b) == IsThere(b) /\ command[b].step = "idle"
DoesOn(b, step) == command[b].step = step
StepTo(b, step) == command' = [command EXCEPT ![b].step = step]
EndsOn(b) == command' = [command EXCEPT ![b] = NothingRuns]

Begins ==
    /\ sessionCommands < MaxSessionCommands
    /\ sessionCommands' = sessionCommands + 1

EvidenceFault ==
    /\ evidenceFaults < MaxEvidenceFaults
    /\ evidenceFaults' = evidenceFaults + 1
    /\ UNCHANGED sessionCommands

FoldersRest == UNCHANGED <<versioned, inCandidate, place, fusedAway>>
SelectionRests == UNCHANGED <<selection, committed>>
AcceptancesRest == UNCHANGED <<accepts, confirmed, unchained, clock>>
ProposalRests == UNCHANGED <<outputs, reported, refused, handled, loosened>>

-----------------------------------------------------------------------------
(* materialize_model_output.                                               *)

Key(b) == <<command[b].text, command[b].media>>

ObjectIs(b, state) == outputs' = [outputs EXCEPT ![b].objects[Key(b)] = state]

Refuse(b, why) ==
    /\ refused' = [refused EXCEPT ![b] =
                     @ \cup {[text |-> command[b].text, media |-> command[b].media,
                              why |-> why]}]
    /\ EndsOn(b)
    /\ UNCHANGED <<outputs, reported>>

\* A step of a proposal that leaves the rest as it is.
Proposing ==
    /\ FoldersRest /\ SelectionRests /\ AcceptancesRest
    /\ UNCHANGED <<sessionCommands, evidenceFaults, handled, loosened>>

\* The content, its hash, its size and its media type are valid.
Propose(b, text, media) ==
    /\ Rests(b)
    /\ Begins
    /\ command' = [command EXCEPT ![b] =
                     [step |-> "object", text |-> text, media |-> media,
                      proposal |-> sessionCommands + 1]]
    /\ FoldersRest /\ SelectionRests /\ AcceptancesRest
    /\ UNCHANGED <<outputs, reported, refused, handled, loosened, evidenceFaults>>

\* An object that is there is the text, or the proposal is refused.
WriteOutput(b) ==
    /\ DoesOn(b, "object")
    /\ CASE outputs[b].objects[Key(b)] = "absent" ->
              ObjectIs(b, "open") /\ StepTo(b, "seal") /\ UNCHANGED <<reported, refused>>
         [] outputs[b].objects[Key(b)] = "edited" -> Refuse(b, "object")
         [] OTHER -> StepTo(b, "receipt") /\ UNCHANGED <<outputs, reported, refused>>
    /\ Proposing

SealOutput(b) ==
    /\ DoesOn(b, "seal")
    /\ ObjectIs(b, "sealed") /\ StepTo(b, "receipt")
    /\ UNCHANGED <<reported, refused>>
    /\ Proposing

\* mutant: the receipt is always of this proposal
WriteLastReceipt(b) ==
    /\ DoesOn(b, "receipt")
    /\ outputs' = [outputs EXCEPT ![b].receipts[command[b].text] =
                     [media |-> command[b].media, proposal |-> command[b].proposal]]
    /\ StepTo(b, "index")
    /\ UNCHANGED <<reported, refused>>
    /\ Proposing

\* The receipt of the first proposal of a text is kept.  A text that was proposed as
\* another kind of file has another path and is refused.
WriteOutputReceipt(b) ==
    /\ DoesOn(b, "receipt")
    /\ LET first == outputs[b].receipts[command[b].text] IN
         CASE first = NoOutput ->
                /\ outputs' = [outputs EXCEPT ![b].receipts[command[b].text] =
                      [media |-> command[b].media, proposal |-> command[b].proposal]]
                /\ StepTo(b, "index") /\ UNCHANGED <<reported, refused>>
           [] first # NoOutput /\ first.media # command[b].media -> Refuse(b, "receipt")
           [] OTHER -> StepTo(b, "index") /\ UNCHANGED <<outputs, reported, refused>>
    /\ Proposing

\* The row of the index: the receipt, and the absolute path of the output.
RowOf(b) ==
    LET first == outputs[b].receipts[command[b].text] IN
    [text |-> command[b].text, media |-> first.media, proposal |-> first.proposal,
     place |-> place]

OutputRows(b) == {outputs[b].index[i] : i \in DOMAIN outputs[b].index}
RowsOfText(b, text) == {r \in OutputRows(b) : r.text = text}

\* _load_output_index: an index of another brain is refused.
IndexIsOwn(b) == outputs[b].owner \in {NoCopy, b}

\* A row of the same output must be the same in every field.
IndexOutput(b) ==
    /\ DoesOn(b, "index")
    /\ CASE ~IndexIsOwn(b) -> Refuse(b, "owner")
         [] IndexIsOwn(b) /\ RowsOfText(b, command[b].text) = {} ->
              /\ outputs' = [outputs EXCEPT ![b].owner = b,
                                            ![b].index = Append(@, RowOf(b))]
              /\ reported' = [reported EXCEPT ![b] = @ \cup {RowOf(b)}]
              /\ EndsOn(b) /\ UNCHANGED refused
         [] IndexIsOwn(b) /\ RowsOfText(b, command[b].text) = {RowOf(b)} ->
              /\ reported' = [reported EXCEPT ![b] = @ \cup {RowOf(b)}]
              /\ EndsOn(b) /\ UNCHANGED <<outputs, refused>>
         [] OTHER -> Refuse(b, "index")
    /\ Proposing

\* A write fails or the worker dies.
StopProposal(b) ==
    /\ command[b].step \in {"object", "seal", "receipt", "index"}
    /\ EvidenceFault
    /\ EndsOn(b)
    /\ loosened' = IF DoesOn(b, "seal") THEN loosened \cup {b} ELSE loosened
    /\ FoldersRest /\ SelectionRests /\ AcceptancesRest
    /\ UNCHANGED <<outputs, reported, refused, handled>>

\* Somebody removes an output, or edits one that can be written.
TouchOutput(b, key) ==
    /\ Rests(b)
    /\ EvidenceFault
    /\ \/ /\ outputs[b].objects[key] # "absent"
          /\ outputs' = [outputs EXCEPT ![b].objects[key] = "absent"]
       \/ /\ outputs[b].objects[key] = "open"
          /\ outputs' = [outputs EXCEPT ![b].objects[key] = "edited"]
    /\ handled' = handled \cup {key}
    /\ FoldersRest /\ SelectionRests /\ AcceptancesRest
    /\ UNCHANGED <<command, reported, refused, loosened>>

-----------------------------------------------------------------------------
(* brain.review.acceptByContinuation.                                      *)

Receipts(b) == {accepts[b][i] : i \in DOMAIN accepts[b]}
ReceiptOf(b, c) == {a \in Receipts(b) : a.continuation = c}

\* The receipts of the other continuations with the latest time.
LatestOf(b, c) ==
    LET others == {a \in Receipts(b) : a.continuation # c} IN
    {a \in others : \A x \in others : x.at <= a.at}

Accepting ==
    /\ FoldersRest /\ SelectionRests /\ ProposalRests
    /\ Begins
    /\ UNCHANGED <<command, evidenceFaults>>

Confirm(b, scope, a) ==
    confirmed' = [confirmed EXCEPT ![b] = @ \cup {[asked |-> scope, receipt |-> a]}]

\* A continuation that is complete, tested, reversible, bounded and of a kind that can
\* be accepted.  The prior that is given is taken as it is.
AcceptContinuation(b, c, scope, given) ==
    /\ Rests(b)
    /\ ReceiptOf(b, c) = {}
    /\ \E prior \in IF given # NoContinuation THEN {given}
                    ELSE IF LatestOf(b, c) = {} THEN {NoContinuation}
                    ELSE {a.continuation : a \in LatestOf(b, c)} :
         LET receipt == [continuation |-> c, scope |-> scope, prior |-> prior, at |-> clock]
         IN accepts' = [accepts EXCEPT ![b] = Append(@, receipt)] /\ Confirm(b, scope, receipt)
    /\ clock' = clock + 1
    /\ unchained' = unchained \cup (IF given = NoContinuation THEN {} ELSE {<<b, c>>})
    /\ Accepting

\* mutant: what the continuation covers is not compared
AcceptAnyAgain(b, c, scope) ==
    /\ Rests(b)
    /\ \E a \in ReceiptOf(b, c) : Confirm(b, scope, a)
    /\ UNCHANGED <<accepts, clock, unchained>>
    /\ Accepting

\* The receipt is there: it is returned if it covers the same; the review packet is not
\* compared.
AcceptAgain(b, c, scope) ==
    /\ Rests(b)
    /\ \E a \in ReceiptOf(b, c) :
         a.scope = scope /\ Confirm(b, scope, a)
    /\ UNCHANGED <<accepts, clock, unchained>>
    /\ Accepting

\* The clock of the machine is set back: the next receipts are earlier than some.
SetClockBack ==
    /\ EvidenceFault
    /\ clock > 0
    /\ clock' = 0
    /\ unchained' = BrainsSeen \X ContinuationKeys
    /\ FoldersRest /\ SelectionRests /\ ProposalRests
    /\ UNCHANGED <<command, accepts, confirmed>>

-----------------------------------------------------------------------------
(* brain.select.                                                           *)

\* load_model_output_state: every output of the index is there and whole.
OutputsCanBeRead(b) ==
    /\ IndexIsOwn(b)
    /\ \A r \in OutputRows(b) :
         outputs[b].objects[<<r.text, r.media>>] \in {"open", "sealed"}

Selecting ==
    /\ FoldersRest /\ AcceptancesRest /\ ProposalRests
    /\ UNCHANGED evidenceFaults

\* The selection is stored, ...
StoreSelection(b) ==
    /\ Rests(b)
    /\ Begins
    /\ selection' = b
    /\ committed' = committed \ {b}
    /\ StepTo(b, "context")
    /\ Selecting

\* ... the context of the brain is read, which fails with its outputs, ...
ReadContext(b) ==
    /\ DoesOn(b, "context")
    /\ \/ OutputsCanBeRead(b) /\ StepTo(b, "commit")
       \/ ~OutputsCanBeRead(b) /\ EndsOn(b)
    /\ UNCHANGED <<selection, committed, sessionCommands>>
    /\ Selecting

\* ... and a receipt is written.
CommitSelection(b) ==
    /\ DoesOn(b, "commit")
    /\ committed' = committed \cup {b}
    /\ EndsOn(b)
    /\ UNCHANGED <<selection, sessionCommands>>
    /\ Selecting

StopSelection(b) ==
    /\ command[b].step \in {"context", "commit"}
    /\ EvidenceFault
    /\ committed' = committed \cup {b}
    /\ EndsOn(b)
    /\ FoldersRest /\ AcceptancesRest /\ ProposalRests
    /\ UNCHANGED selection

-----------------------------------------------------------------------------
(* What copies the folder of a brain (modules VersionStore, RefreshFuse,   *)
(* RollbackProduct and CanonicalMigration tell how).                       *)

FolderStep ==
    /\ Begins
    /\ SelectionRests
    /\ UNCHANGED <<command, reported, refused, confirmed, clock,
                   unchained, handled, evidenceFaults>>

\* A copy that can be written, whatever the original was.
Copied(o) ==
    [o EXCEPT !.objects = [k \in ObjectKeys |-> IF @[k] = "sealed" THEN "open" ELSE @[k]]]

\* Two folders hold the same: a version does not tell what is read-only.
SameOutputs(o, p) == Copied(o) = Copied(p)

\* _authoritative_files: everything of the folder but the receipts and the products.
CaptureOutputs ==
    /\ Rests(MainBrain)
    /\ versioned' = Copied(outputs[MainBrain])
    /\ FolderStep
    /\ UNCHANGED <<outputs, accepts, inCandidate, place, fusedAway, loosened>>

\* start_refresh_brain, from the last version, if the brain is still as captured
StartCandidate ==
    /\ Rests(MainBrain) /\ versioned # NoCopy
    /\ SameOutputs(outputs[MainBrain], versioned)
    /\ inCandidate' = versioned
    /\ FolderStep
    /\ UNCHANGED <<outputs, accepts, versioned, place, fusedAway, loosened>>

\* fuse_refresh_candidate: the folder is replaced by the one of the candidate, which has
\* receipts of its own.
FuseOutputs ==
    /\ Rests(MainBrain) /\ inCandidate # NoCopy
    /\ SameOutputs(outputs[MainBrain], inCandidate)
    /\ outputs' = [outputs EXCEPT ![MainBrain] = inCandidate]
    /\ accepts' = [accepts EXCEPT ![MainBrain] = <<>>]
    /\ versioned' = inCandidate /\ inCandidate' = NoCopy
    /\ fusedAway' = fusedAway \cup {a.continuation : a \in Receipts(MainBrain)}
    /\ loosened' = loosened \cup {MainBrain}
    /\ FolderStep
    /\ UNCHANGED place

\* rollback_brain_version: the files of the version, under the name of the new brain
RestoreOutputs ==
    /\ Rests(MainBrain) /\ versioned # NoCopy /\ ~IsThere(RestoredBrain)
    /\ outputs' = [outputs EXCEPT ![RestoredBrain] = versioned]
    /\ loosened' = loosened \cup {RestoredBrain}
    /\ FolderStep
    /\ UNCHANGED <<accepts, versioned, inCandidate, place, fusedAway>>

\* migrate_canonical_workspace: the routes of the database are rewritten, the paths of
\* the indexes are not.
MoveWorkspace ==
    /\ \A b \in BrainsSeen : IsThere(b) => Rests(b)
    /\ place = 0 /\ place' = 1
    /\ FolderStep
    /\ UNCHANGED <<outputs, accepts, versioned, inCandidate, fusedAway, loosened>>

EvidenceNext ==
    \/ \E b \in BrainsSeen :
         \/ \E text \in OutputTexts, media \in MediaTypes : Propose(b, text, media)
         \/ WriteOutput(b) \/ SealOutput(b) \/ WriteOutputReceipt(b) \/ IndexOutput(b)
         \/ StopProposal(b)
         \/ \E key \in ObjectKeys : TouchOutput(b, key)
         \/ \E c \in ContinuationKeys, scope \in Scopes :
              \/ AcceptAgain(b, c, scope)
              \/ \E given \in {NoContinuation, OtherReceipt} :
                   AcceptContinuation(b, c, scope, given)
         \/ StoreSelection(b) \/ ReadContext(b) \/ CommitSelection(b) \/ StopSelection(b)
    \/ SetClockBack
    \/ CaptureOutputs \/ StartCandidate \/ FuseOutputs \/ RestoreOutputs \/ MoveWorkspace

EvidenceSpec == EvidenceInit /\ [][EvidenceNext]_evidenceVars

-----------------------------------------------------------------------------
(* Properties.                                                             *)

\* What a turn was told of its output stays so, whatever is copied, restored or cut
\* short: the row is in the index, once, with the receipt of the first proposal of the
\* text and its file, whole unless a hand touched it and read-only unless it was copied
\* or a write was cut short.
OutputsAreKept ==
    \A b \in BrainsSeen : IsThere(b) =>
        /\ \A r \in reported[b] : RowsOfText(b, r.text) = {r}
        /\ \A r \in OutputRows(b) :
              LET object == outputs[b].objects[<<r.text, r.media>>] IN
              /\ outputs[b].receipts[r.text] = [media |-> r.media, proposal |-> r.proposal]
              /\ <<r.text, r.media>> \notin handled => object \in {"open", "sealed"}
              /\ object = "open" => b \in loosened \/ DoesOn(b, "seal")
        /\ Cardinality(OutputRows(b)) = Len(outputs[b].index)

\* A restored brain with outputs of the brain it was.
Inherited(b) == b = RestoredBrain /\ outputs[b].owner = MainBrain

\* The outputs of a brain can be read, and with them the brain selected, unless a hand
\* touched one or the brain was restored with outputs of the brain it was.  A text is
\* refused where it was proposed as another kind of file, edited, restored or moved.
OutputsStayUsable ==
    \A b \in BrainsSeen : IsThere(b) =>
        /\ OutputsCanBeRead(b) \/ handled # {} \/ Inherited(b)
        /\ \A r \in refused[b] :
              CASE r.why = "object"  -> <<r.text, r.media>> \in handled
                [] r.why = "receipt" -> outputs[b].receipts[r.text].media # r.media
                [] r.why = "owner"   -> Inherited(b)
                [] r.why = "index"   -> place > 0

\* An acceptance that was confirmed covers what was asked and stays as it is until a fuse;
\* it follows the one recorded before it unless its prior was given or the clock set back.
AcceptancesAreKept ==
    \A b \in BrainsSeen :
        /\ \A x \in confirmed[b] :
              /\ x.asked = x.receipt.scope
              /\ x.receipt \in Receipts(b) \/ x.receipt.continuation \in fusedAway
        /\ \A i \in DOMAIN accepts[b] : LET receipt == accepts[b][i] IN
              /\ ReceiptOf(b, receipt.continuation) = {receipt}
              /\ <<b, receipt.continuation>> \notin unchained =>
                    receipt.prior = IF i = 1 THEN NoContinuation
                              ELSE accepts[b][i - 1].continuation

\* The selection of the settings was committed with a receipt, unless the worker died or
\* the brain could not be read.
SelectionIsCommitted ==
    (selection # NoCopy /\ Rests(selection) /\ selection \notin committed) =>
        handled # {} \/ Inherited(selection)

EvidenceIsKept ==
    /\ OutputsAreKept /\ OutputsStayUsable /\ AcceptancesAreKept /\ SelectionIsCommitted

-----------------------------------------------------------------------------
(* Why outputs, acceptances and the selection are kept.                    *)

SessionCommand == [step : EvidenceSteps, text : OutputTexts \cup {NoOutput},
                   media : MediaTypes \cup {NoOutput}, proposal : 0..MaxSessionCommands]

Refusal == [text : OutputTexts, media : MediaTypes,
            why : {"object", "receipt", "owner", "index"}]

Confirmation == [asked : Scopes, receipt : Acceptance]

\* The command that runs, and the histories of what was answered, by brain.
AnswersTyped ==
    /\ command \in [BrainsSeen -> SessionCommand]
    /\ reported \in [BrainsSeen -> SUBSET IndexRow]
    /\ refused \in [BrainsSeen -> SUBSET Refusal]
    /\ confirmed \in [BrainsSeen -> SUBSET Confirmation]

Proposals == {"object", "seal", "receipt", "index"}

\* A folder of a brain, or a copy of one: its index has an output once, as its receipt
\* says, and only hands remove or edit an object.
FolderSound(o) ==
    /\ \A i, j \in DOMAIN o.index : o.index[i].text = o.index[j].text => i = j
    /\ \A i \in DOMAIN o.index : LET r == o.index[i] IN
          /\ o.receipts[r.text] = [media |-> r.media, proposal |-> r.proposal]
          /\ \/ <<r.text, r.media>> \in handled
             \/ o.objects[<<r.text, r.media>>] \in {"open", "sealed"}
          /\ r.place <= place
    /\ \A k \in ObjectKeys : o.objects[k] = "edited" => k \in handled

\* The command c on a brain with the outputs o has done what comes before its step.
StepFits(o, c) ==
    /\ c.step \in Proposals =>
           c.text \in OutputTexts /\ c.media \in MediaTypes /\ c.proposal # 0
    /\ c.step = "seal" => o.objects[<<c.text, c.media>>] = "open"
    /\ c.step \in {"receipt", "index"} => o.objects[<<c.text, c.media>>] \in {"open", "sealed"}
    /\ c.step = "index" =>
           o.receipts[c.text] # NoOutput /\ o.receipts[c.text].media = c.media

\* Why a proposal was refused is still so.
RefusedRightly(b, o, r) ==
    /\ r.why = "object" => <<r.text, r.media>> \in handled
    /\ r.why = "receipt" => /\ o.receipts[r.text] # NoOutput
                           /\ o.receipts[r.text].media # r.media
    /\ r.why = "owner" => b = RestoredBrain /\ o.owner = MainBrain
    /\ r.why = "index" => place > 0

\* The brain b with its outputs o, while c runs on it and with what it was told.
BrainFits(b, o, c, said, no) ==
    /\ FolderSound(o) /\ StepFits(o, c)
    /\ o.owner \in {NoCopy, b} \/ (b = RestoredBrain /\ o.owner = MainBrain)
    /\ \A r \in said : \E i \in DOMAIN o.index : o.index[i] = r
    /\ \A r \in no : RefusedRightly(b, o, r)
    /\ \A k \in ObjectKeys : o.objects[k] = "open" =>
           b \in loosened \/ (c.step = "seal" /\ k = <<c.text, c.media>>)

CopyFits(o) == o # NoCopy => FolderSound(o) /\ o.owner \in {NoCopy, MainBrain}

FoldersFit ==
    /\ CopyFits(versioned) /\ CopyFits(inCandidate)
    /\ \A b \in BrainsSeen :
          /\ IsThere(b) => BrainFits(b, outputs[b], command[b], reported[b], refused[b])
          /\ ~IsThere(b) => command[b].step = "idle" /\ reported[b] = {} /\ refused[b] = {}

\* The receipts of acceptances are in the order of their times as long as the clock
\* was not set back, and a receipt follows the last one.
AcceptancesFit ==
    /\ \A b \in BrainsSeen :
          /\ \A x \in confirmed[b] :
                /\ x.asked = x.receipt.scope
                /\ x.receipt \in Receipts(b) \/ x.receipt.continuation \in fusedAway
          /\ \A i, j \in DOMAIN accepts[b] :
                accepts[b][i].continuation = accepts[b][j].continuation => i = j
          /\ \A i \in DOMAIN accepts[b] :
                <<b, accepts[b][i].continuation>> \notin unchained =>
                    accepts[b][i].prior = IF i = 1 THEN NoContinuation
                                          ELSE accepts[b][i - 1].continuation
    /\ \/ BrainsSeen \X ContinuationKeys \subseteq unchained
       \/ \A b \in BrainsSeen : \A i \in DOMAIN accepts[b] :
              /\ accepts[b][i].at < clock
              /\ \A j \in DOMAIN accepts[b] : i < j => accepts[b][i].at < accepts[b][j].at

\* The selection waits for its receipt, or its brain could not be read.
SelectionFits ==
    (selection # NoCopy /\ selection \notin committed) =>
        /\ IsThere(selection)
        /\ \/ command[selection].step \in {"context", "commit"}
           \/ handled # {} \/ Inherited(selection)

\* The inductive invariant of EvidenceIsKept.
EvidenceInvariant ==
    AnswersTyped /\ FoldersFit /\ AcceptancesFit /\ SelectionFits
===============================================================================
