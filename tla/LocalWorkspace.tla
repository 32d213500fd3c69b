---------------------------- MODULE LocalWorkspace ----------------------------
(***************************************************************************)
(* The local data whose database rows stand beside something outside the   *)
(* database (workspace/local_workspace.py):                                *)
(*                                                                         *)
(*   - a protected credential: its row, and the secret in the store of the *)
(*     operating system;                                                   *)
(*   - a character asset: the setting, and the file it refers to;          *)
(*   - the lineage of a chat: its events, and the turns appended to the    *)
(*     brain of the chat.                                                  *)
(*                                                                         *)
(* Each command changes both in an order of its own, and the worker can    *)
(* die, or a step can fail, between the two.  The commands name no brain,  *)
(* so they share one lock and run one at a time.                           *)
(***************************************************************************)
EXTENDS Naturals, Sequences

CONSTANTS
    Assets,           \* the asset files, named by their hash
    NoAsset,          \* the default setting
    LineageKeys,      \* idempotency keys of lineage events
    NoKey,            \* no key
    MaxChats,         \* bound: chats created
    MaxLocalFaults    \* bound: commands that fail or are cut short

ASSUME LocalAssumption ==
    /\ NoAsset \notin Assets /\ NoKey \notin LineageKeys
    /\ "secret" \notin Assets \cup LineageKeys /\ Assets \cap LineageKeys = {}
    /\ MaxChats \in Nat /\ MaxLocalFaults \in Nat

CredentialStatuses == {"none", "ACTIVE", "DELETE_PENDING", "DELETED"}

ChoreSteps == {"idle", "secret written", "pending", "secret deleted", "asset stored",
               "asset replaced", "turn appended"}

LocalEvent == [key : LineageKeys, previous : LineageKeys \cup {NoKey}]

-----------------------------------------------------------------------------
VARIABLES
    credential,  \* the status of the row of the credential
    vault,       \* whether the store of the system has its secret
    setting,     \* the asset the setting refers to
    assetFiles,  \* the asset files
    chatOpen,    \* whether the chat exists
    chats,       \* number of chats created so far
    lineage,     \* the lineage events of the chat
    brainTurns,  \* the keys of the turns appended to its brain
    chore,       \* the running command
    localFaults,
    strays       \* history: secrets, assets and turns left by a command cut short,
                 \* and turns of a deleted chat

localVars == <<credential, vault, setting, assetFiles, chatOpen, chats, lineage,
               brainTurns, chore, localFaults, strays>>

NoChore == [step |-> "idle", existed |-> FALSE, asset |-> NoAsset, key |-> NoKey,
            previous |-> NoKey]

LocalTypeOK ==
    /\ credential \in CredentialStatuses /\ vault \in BOOLEAN
    /\ setting \in Assets \cup {NoAsset} /\ assetFiles \subseteq Assets
    /\ chatOpen \in BOOLEAN /\ chats \in Nat
    /\ lineage \in Seq(LocalEvent) /\ brainTurns \subseteq LineageKeys
    /\ chore \in [step : ChoreSteps, existed : BOOLEAN, asset : Assets \cup {NoAsset},
                  key : LineageKeys \cup {NoKey}, previous : LineageKeys \cup {NoKey}]
    /\ localFaults \in Nat
    /\ strays \subseteq {"secret"} \cup Assets \cup LineageKeys

LocalInit ==
    /\ credential = "none" /\ vault = FALSE
    /\ setting = NoAsset /\ assetFiles = {}
    /\ chatOpen = FALSE /\ chats = 0
    /\ lineage = <<>> /\ brainTurns = {}
    /\ chore = NoChore
    /\ localFaults = 0
    /\ strays = {}

credentialVars == <<credential, vault>>
assetVars == <<setting, assetFiles>>
chatVars == <<chatOpen, chats, lineage, brainTurns>>

ChoreIdle == chore = NoChore

InChore(step) == chore.step = step

LocalFault ==
    /\ localFaults < MaxLocalFaults
    /\ localFaults' = localFaults + 1

-----------------------------------------------------------------------------
(* credential.set and credential.delete                                    *)

\* The row is written in a transaction, the secret is set before its commit.
WriteSecret ==
    /\ ChoreIdle
    /\ vault' = TRUE
    /\ chore' = [NoChore EXCEPT !.step = "secret written", !.existed = credential # "none"]
    /\ UNCHANGED <<credential, assetVars, chatVars, localFaults, strays>>

CommitCredential ==
    /\ InChore("secret written")
    /\ credential' = "ACTIVE"
    /\ strays' = strays \ {"secret"}
    /\ chore' = NoChore
    /\ UNCHANGED <<vault, assetVars, chatVars, localFaults>>

\* The except clause deletes the secret of a new row only; of an older row the new
\* secret stays, and so it does when its deletion fails.
CredentialFails ==
    /\ InChore("secret written")
    /\ LocalFault
    /\ \/ ~chore.existed /\ vault' = FALSE /\ strays' = strays \ {"secret"}
       \/ UNCHANGED vault /\ strays' = strays \cup {"secret"}
    /\ chore' = NoChore
    /\ UNCHANGED <<credential, assetVars, chatVars>>

\* mutant: the row is recorded as deleted before the secret is
MarkDeletedFirst ==
    /\ ChoreIdle
    /\ credential \in {"ACTIVE", "DELETE_PENDING"}
    /\ credential' = "DELETED"
    /\ chore' = [NoChore EXCEPT !.step = "pending"]
    /\ UNCHANGED <<vault, assetVars, chatVars, localFaults, strays>>

\* A row that is DELETED already is answered at once.
MarkPending ==
    /\ ChoreIdle
    /\ credential \in {"ACTIVE", "DELETE_PENDING"}
    /\ credential' = "DELETE_PENDING"
    /\ chore' = [NoChore EXCEPT !.step = "pending"]
    /\ UNCHANGED <<vault, assetVars, chatVars, localFaults, strays>>

DeleteSecret ==
    /\ InChore("pending")
    /\ vault' = FALSE
    /\ strays' = strays \ {"secret"}
    /\ chore' = [NoChore EXCEPT !.step = "secret deleted"]
    /\ UNCHANGED <<credential, assetVars, chatVars, localFaults>>

RecordDeleted ==
    /\ InChore("secret deleted")
    /\ credential' = "DELETED"
    /\ chore' = NoChore
    /\ UNCHANGED <<vault, assetVars, chatVars, localFaults, strays>>

-----------------------------------------------------------------------------
(* settings.update and settings.reset, of the setting that refers to a file *)

\* The file is stored before the transaction, unless it is there already.
StoreAsset(x) ==
    /\ ChoreIdle
    /\ assetFiles' = assetFiles \cup {x}
    /\ chore' = [NoChore EXCEPT !.step = "asset stored", !.asset = x]
    /\ UNCHANGED <<credentialVars, setting, chatVars, localFaults, strays>>

\* The file that was replaced is removed after the commit.
CommitSetting ==
    /\ InChore("asset stored")
    /\ setting' = chore.asset
    /\ strays' = strays \ {chore.asset}
    /\ chore' = IF setting \in {NoAsset, chore.asset} THEN NoChore
                ELSE [NoChore EXCEPT !.step = "asset replaced", !.asset = setting]
    /\ UNCHANGED <<credentialVars, assetFiles, chatVars, localFaults>>

\* The default is restored, by a reset or by a setting of null.
ResetSetting ==
    /\ ChoreIdle
    /\ setting # NoAsset
    /\ setting' = NoAsset
    /\ chore' = [NoChore EXCEPT !.step = "asset replaced", !.asset = setting]
    /\ UNCHANGED <<credentialVars, assetFiles, chatVars, localFaults, strays>>

RemoveAsset ==
    /\ InChore("asset replaced")
    /\ assetFiles' = assetFiles \ {chore.asset}
    /\ strays' = strays \ {chore.asset}
    /\ chore' = NoChore
    /\ UNCHANGED <<credentialVars, setting, chatVars, localFaults>>

-----------------------------------------------------------------------------
(* chat.create, chat.delete and chat.lineage.append                        *)

CreateChat ==
    /\ ChoreIdle
    /\ ~chatOpen /\ chats < MaxChats
    /\ chatOpen' = TRUE
    /\ chats' = chats + 1
    /\ UNCHANGED <<credentialVars, assetVars, lineage, brainTurns, chore, localFaults,
                   strays>>

\* The events go with the chat, the turns of the brain stay.
DeleteChat ==
    /\ ChoreIdle
    /\ chatOpen
    /\ chatOpen' = FALSE
    /\ lineage' = <<>>
    /\ strays' = strays \cup brainTurns
    /\ UNCHANGED <<credentialVars, assetVars, chats, brainTurns, chore, localFaults>>

KeysOf(events) == {events[n].key : n \in DOMAIN events}

\* A key that has an event is answered with it.  The turn is appended to the brain,
\* once for a key, before the event is inserted.
AppendTurn(k) ==
    /\ ChoreIdle
    /\ chatOpen
    /\ k \notin KeysOf(lineage)
    /\ brainTurns' = brainTurns \cup {k}
    /\ chore' = [NoChore EXCEPT !.step = "turn appended", !.key = k,
                     !.previous = IF lineage = <<>> THEN NoKey
                                  ELSE lineage[Len(lineage)].key]
    /\ UNCHANGED <<credentialVars, assetVars, chatOpen, chats, lineage, localFaults,
                   strays>>

InsertEvent ==
    /\ InChore("turn appended")
    /\ lineage' = Append(lineage, [key |-> chore.key, previous |-> chore.previous])
    /\ strays' = strays \ {chore.key}
    /\ chore' = NoChore
    /\ UNCHANGED <<credentialVars, assetVars, chatOpen, chats, brainTurns, localFaults>>

-----------------------------------------------------------------------------
\* What a command leaves that stops at its current step.
LeftBehind ==
    CASE InChore("secret written") -> {"secret"}
      [] InChore("asset stored")   -> {chore.asset} \ {setting}
      [] InChore("asset replaced") -> {chore.asset}
      [] InChore("turn appended")  -> {chore.key}
      [] OTHER                     -> {}

\* The worker dies, or the next step fails: the open transaction is rolled back.
LocalCutShort ==
    /\ ~ChoreIdle
    /\ LocalFault
    /\ strays' = strays \cup LeftBehind
    /\ chore' = NoChore
    /\ UNCHANGED <<credentialVars, assetVars, chatVars>>

LocalNext ==
    \/ WriteSecret \/ CommitCredential \/ CredentialFails
    \/ MarkPending \/ DeleteSecret \/ RecordDeleted
    \/ \E x \in Assets : StoreAsset(x)
    \/ CommitSetting \/ ResetSetting \/ RemoveAsset
    \/ CreateChat \/ DeleteChat \/ InsertEvent
    \/ \E k \in LineageKeys : AppendTurn(k)
    \/ LocalCutShort

LocalSpec == LocalInit /\ [][LocalNext]_localVars

-----------------------------------------------------------------------------
(* Properties.                                                             *)

\* A row never promises what is not there, whatever step a command stops at: an
\* active credential has its secret, the setting refers to a file, and an event of
\* the lineage has its turn and names the event before it.  And between commands
\* nothing is there without a row, so that it can be deleted, but for what a
\* command cut short left behind: a secret that was set, a file, a turn.
LocalDataIsKept ==
    /\ credential = "ACTIVE" => vault
    /\ setting # NoAsset => setting \in assetFiles
    /\ KeysOf(lineage) \subseteq brainTurns
    /\ \A n \in DOMAIN lineage :
          lineage[n].previous = IF n = 1 THEN NoKey ELSE lineage[n - 1].key
    /\ ChoreIdle =>
          /\ (vault /\ "secret" \notin strays) => credential \in {"ACTIVE", "DELETE_PENDING"}
          /\ assetFiles \ strays \subseteq {setting}
          /\ brainTurns \ strays \subseteq KeysOf(lineage)
===============================================================================
