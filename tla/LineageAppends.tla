---------------------------- MODULE LineageAppends ----------------------------
(***************************************************************************)
(* The two services that append to the history of a brain:                 *)
(* append_env15_chat_lineage_source (env15_chat_lineage.py) for chats and  *)
(* append_env15_research_source (env15_research.py) for research sources.  *)
(*                                                                         *)
(* An append copies the sector aside, makes it writable, adds one turn in  *)
(* one transaction, closes the sector again and writes a receipt; when a   *)
(* step fails the copy takes the place of the sector.  A chat adds only    *)
(* what is new in it.  The owner of a source may edit it at any time;      *)
(* appends run one at a time.                                              *)
(***************************************************************************)
EXTENDS Naturals, Sequences, SequencesExt

CONSTANTS
    ChatLogs,          \* chat sources
    ResearchLogs,      \* research sources
    Lines,             \* what a text is made of
    Responses,         \* what was answered in a chat, with its attachments
    NoLog,             \* nothing is appended
    Unseen,            \* no such entry, copy or text
    MaxLogEdits,       \* bound: edits of the sources
    MaxAppends,        \* bound: appends
    MaxAppendFaults    \* bound: steps that fail and crashes

Logs == ChatLogs \cup ResearchLogs

ASSUME LineageAssumption ==
    /\ ChatLogs \cap ResearchLogs = {} /\ NoLog \notin Logs
    /\ Lines # {} /\ Responses # {}
    /\ MaxLogEdits \in Nat /\ MaxAppends \in Nat /\ MaxAppendFaults \in Nat

Histories == {"chat", "research"}

\* A version of a source: its text and, for a chat, the response.
Texts == UNION {[1..n -> Lines] : n \in 1..2}
LogVersions == [text : Texts, response : Responses]

\* A turn: the source, the version, and what was added to the text of the last one.
LogTurns == [log : Logs, version : LogVersions, added : Texts \cup {<<>>}]

-----------------------------------------------------------------------------
VARIABLES
    logs,        \* what each source holds
    logStat,     \* its stat: another one after every edit
    logEdits,    \* the edits so far
    histories,   \* the turns of the two sectors
    sealed,      \* the sectors that are read-only
    sectorCopies, \* sectors of which a copy was left behind
    turnReceipts, \* the turns that have a receipt
    fingerprint, \* the cache: the version whose hash is recorded for a stat
    append,      \* the running append
    appends, appendFaults,
    appended,    \* history: the versions whose append succeeded
    misled       \* history: sources read before the stat that was recorded for them, and
                 \* those whose append was undone after something was told of it

appendVars == <<logs, logStat, logEdits, histories, sealed, sectorCopies, turnReceipts,
                fingerprint, append, appends, appendFaults, appended, misled>>

editVars == <<logs, logStat, logEdits>>
sectorFiles == <<histories, sealed, sectorCopies>>
toldVars == <<turnReceipts, fingerprint>>
appendLimits == <<appends, appendFaults>>
appendHistory == <<appended, misled>>

AppendSteps == {"idle", "read", "probe", "look", "copy", "commit", "seal", "receipt",
                "record", "discard"}

LogStats == 0..MaxLogEdits

AppendTypeOK ==
    /\ logs \in [Logs -> LogVersions]
    /\ logStat \in [Logs -> LogStats] /\ logEdits \in LogStats
    /\ histories \in [Histories -> Seq(LogTurns)]
    /\ sealed \subseteq Histories /\ sectorCopies \subseteq Histories
    /\ turnReceipts \subseteq Logs \X LogVersions
    /\ fingerprint \in [Logs -> [stat : LogStats, version : LogVersions] \cup {Unseen}]
    /\ append \in [step : AppendSteps, log : Logs \cup {NoLog}, version : LogVersions,
                   stat : LogStats, backup : Seq(LogTurns)]
    /\ appends \in 0..MaxAppends /\ appendFaults \in 0..MaxAppendFaults
    /\ appended \subseteq Logs \X LogVersions
    /\ misled \subseteq Logs

FirstVersion == CHOOSE v \in LogVersions : TRUE

NoAppend == [step |-> "idle", log |-> NoLog, version |-> FirstVersion, stat |-> 0,
             backup |-> <<>>]

AppendInit ==
    /\ logs = [s \in Logs |-> FirstVersion]
    /\ logStat = [s \in Logs |-> 0] /\ logEdits = 0
    /\ histories = [h \in Histories |-> <<>>]
    /\ sealed = Histories /\ sectorCopies = {}
    /\ turnReceipts = {}
    /\ fingerprint = [s \in Logs |-> Unseen]
    /\ append = NoAppend
    /\ appends = 0 /\ appendFaults = 0
    /\ appended = {} /\ misled = {}

-----------------------------------------------------------------------------
AppendAt(step) == append.step = step
AppendThen(step) == append' = [append EXCEPT !.step = step]

log == append.log
IsChat == log \in ChatLogs
LogHistory(s) == IF s \in ChatLogs THEN "chat" ELSE "research"
itsHistory == LogHistory(log)
thisVersion == <<log, append.version>>

\* The turns of a source, by their places in a history.
TurnsIn(q, s) == {i \in DOMAIN q : q[i].log = s}
TurnsOf(s) == TurnsIn(histories[LogHistory(s)], s)

\* The cursor of a source: the text and response of its last turn.
HasCursor(s) == TurnsOf(s) # {}
Cursor(s) == histories[LogHistory(s)][Max(TurnsOf(s))].version

KeptIn(q, s, v) == \E i \in TurnsIn(q, s) : q[i].version = v
TurnKept(s, v) == KeptIn(histories[LogHistory(s)], s, v)

EditLog(s) ==
    /\ logEdits < MaxLogEdits
    /\ logEdits' = logEdits + 1
    /\ \E v \in LogVersions : v # logs[s] /\ logs' = [logs EXCEPT ![s] = v]
    /\ logStat' = [logStat EXCEPT ![s] = logEdits']
    /\ UNCHANGED <<sectorFiles, toldVars, append, appendLimits, appendHistory>>

-----------------------------------------------------------------------------
(* One append.                                                             *)

StartLogAppend(s) ==
    /\ AppendAt("idle")
    /\ appends < MaxAppends
    /\ appends' = appends + 1
    /\ append' = [NoAppend EXCEPT !.step = "read", !.log = s]
    /\ UNCHANGED <<editVars, sectorFiles, toldVars, appendFaults, appendHistory>>

ReadLog ==
    /\ AppendAt("read")
    /\ append' = [append EXCEPT !.step = "probe", !.version = logs[log],
                                !.stat = logStat[log]]
    /\ UNCHANGED <<editVars, sectorFiles, toldVars, appendLimits, appendHistory>>

\* The stat the hash is recorded for is that of after the reading.
ProbeLog ==
    /\ AppendAt("probe")
    /\ append' = [append EXCEPT !.step = "look", !.stat = logStat[log]]
    /\ misled' = IF append.stat # logStat[log] THEN misled \cup {log} ELSE misled
    /\ UNCHANGED <<editVars, sectorFiles, toldVars, appendLimits, appended>>

RecordVersion == fingerprint' = [fingerprint EXCEPT ![log] =
                              [stat |-> append.stat, version |-> append.version]]

Succeed == appended' = appended \cup {thisVersion}

\* A version that was ever appended is not appended again.
SkipKnown ==
    /\ AppendAt("look")
    /\ TurnKept(log, append.version)
    /\ RecordVersion /\ Succeed
    /\ append' = NoAppend
    /\ UNCHANGED <<editVars, sectorFiles, turnReceipts, appendLimits, misled>>

\* A chat only grows.
Diverged == IsChat /\ HasCursor(log) /\ ~IsPrefix(Cursor(log).text, append.version.text)

RefuseDiverged ==
    /\ AppendAt("look")
    /\ ~TurnKept(log, append.version)
    /\ Diverged
    /\ append' = NoAppend
    /\ UNCHANGED <<editVars, sectorFiles, toldVars, appendLimits, appendHistory>>

AcceptNew ==
    /\ AppendAt("look")
    /\ ~TurnKept(log, append.version)
    /\ ~Diverged
    /\ AppendThen("copy")
    /\ UNCHANGED <<editVars, sectorFiles, toldVars, appendLimits, appendHistory>>

CopySector ==
    /\ AppendAt("copy")
    /\ append' = [append EXCEPT !.step = "commit", !.backup = histories[itsHistory]]
    /\ sealed' = sealed \ {itsHistory}
    /\ UNCHANGED <<editVars, histories, sectorCopies, toldVars, appendLimits, appendHistory>>

\* What a chat adds is the part of its text after that of its last turn; a research
\* source is added whole.
WholeText == append.version.text
UnseenText ==
    IF HasCursor(log)
    THEN SubSeq(append.version.text, Len(Cursor(log).text) + 1, Len(append.version.text))
    ELSE append.version.text

ChatTurn == [log |-> log, version |-> append.version, added |-> UnseenText]
ResearchTurn == [log |-> log, version |-> append.version, added |-> append.version.text]

CommitTurn ==
    /\ AppendAt("commit")
    /\ histories' = [histories EXCEPT ![itsHistory] =
                        Append(@, IF IsChat THEN ChatTurn ELSE ResearchTurn)]
    /\ AppendThen("seal")
    /\ UNCHANGED <<editVars, sealed, sectorCopies, toldVars, appendLimits, appendHistory>>

SealSector ==
    /\ AppendAt("seal")
    /\ sealed' = sealed \cup {itsHistory}
    /\ AppendThen(IF IsChat THEN "record" ELSE "receipt")
    /\ UNCHANGED <<editVars, histories, sectorCopies, toldVars, appendLimits, appendHistory>>

RecordLog ==
    /\ AppendAt("record")
    /\ RecordVersion
    /\ AppendThen("discard")
    /\ UNCHANGED <<editVars, sectorFiles, turnReceipts, appendLimits, appendHistory>>

\* The copy is removed: the last step of a research append.
DiscardCopy ==
    /\ AppendAt("discard")
    /\ IF IsChat THEN AppendThen("receipt") /\ UNCHANGED appended
       ELSE append' = NoAppend /\ Succeed
    /\ UNCHANGED <<editVars, sectorFiles, toldVars, appendLimits, misled>>

\* The last step of a chat append.
WriteAppendReceipt ==
    /\ AppendAt("receipt")
    /\ turnReceipts' = turnReceipts \cup {thisVersion}
    /\ IF IsChat THEN append' = NoAppend /\ Succeed
       ELSE AppendThen("record") /\ UNCHANGED appended
    /\ UNCHANGED <<editVars, sectorFiles, fingerprint, appendLimits, misled>>

-----------------------------------------------------------------------------
(* An append that does not end well.                                       *)

HasCopy == \/ append.step \in {"commit", "seal", "record", "discard"}
           \/ AppendAt("receipt") /\ ~IsChat

\* What was already told of the turn.
Told == AppendAt("discard") \/ (AppendAt("record") /\ ~IsChat)

AppendFault ==
    /\ ~AppendAt("idle")
    /\ appendFaults < MaxAppendFaults
    /\ appendFaults' = appendFaults + 1
    /\ append' = NoAppend
    /\ UNCHANGED <<editVars, toldVars, appends, appended>>

\* The copy takes the place of the sector; the receipt and the hash stay.
RestoreHistory ==
    /\ AppendFault
    /\ HasCopy
    /\ histories' = [histories EXCEPT ![itsHistory] = append.backup]
    /\ sealed' = sealed \cup {itsHistory}
    /\ misled' = IF Told THEN misled \cup {log} ELSE misled
    /\ UNCHANGED sectorCopies

\* The receipt of a chat is written when there is no copy any more: the sector is made
\* writable, and the error is that of the missing copy.
FailReceipt ==
    /\ AppendFault
    /\ AppendAt("receipt") /\ IsChat
    /\ sealed' = sealed \ {itsHistory}
    /\ UNCHANGED <<histories, sectorCopies, misled>>

FailBeforeCopy ==
    /\ AppendFault
    /\ append.step \in {"read", "probe", "look", "copy"}
    /\ UNCHANGED <<sectorFiles, misled>>

\* A crash leaves the copy, which nothing ever reads, and the sector as it is.
CrashAppend ==
    /\ AppendFault
    /\ sectorCopies' = IF HasCopy THEN sectorCopies \cup {itsHistory} ELSE sectorCopies
    /\ UNCHANGED <<histories, sealed, misled>>

-----------------------------------------------------------------------------
AppendNext ==
    \/ \E s \in Logs : EditLog(s) \/ StartLogAppend(s)
    \/ ReadLog \/ ProbeLog
    \/ SkipKnown \/ RefuseDiverged \/ AcceptNew
    \/ CopySector \/ CommitTurn \/ SealSector
    \/ RecordLog \/ DiscardCopy \/ WriteAppendReceipt
    \/ RestoreHistory \/ FailReceipt \/ FailBeforeCopy \/ CrashAppend

AppendSpec == AppendInit /\ [][AppendNext]_appendVars

-----------------------------------------------------------------------------
\* What the turns of a chat added, one after the other, is its text: every turn has the
\* text of the one before it and what it added, nothing twice and nothing left out,
\* whatever was undone or died in between.
TextBefore(q, s, i) ==
    LET before == {j \in TurnsIn(q, s) : j < i}
    IN  IF before = {} THEN <<>> ELSE q[Max(before)].version.text

Reassembles(q, s) ==
    \A i \in TurnsIn(q, s) : q[i].version.text = TextBefore(q, s, i) \o q[i].added

ChatsReassemble == \A s \in ChatLogs : Reassembles(histories["chat"], s)

\* An append that is tried again does not make a second turn.
OneOfEach(q, s) ==
    \A i, j \in TurnsIn(q, s) : q[i].version = q[j].version => i = j

NoVersionTwice == \A s \in Logs : OneOfEach(histories[LogHistory(s)], s)

\* What was appended stays; the copy of a later append that fails does not erase it.
AppendedIsKept == \A v \in appended : TurnKept(v[1], v[2])

\* A refresh that finds the stat of a source in the cache takes it as unchanged: its
\* present version is in the history, unless the source was edited between its reading
\* and its stat, or the append was undone after the hash was recorded.
UnchangedIsAppended ==
    \A s \in Logs \ misled :
        fingerprint[s] # Unseen /\ fingerprint[s].stat = logStat[s] => TurnKept(s, logs[s])

\* A receipt is that of a turn of the sector, with the same exception.
ReceiptsAreTrue == \A r \in turnReceipts : r[1] \notin misled => TurnKept(r[1], r[2])

AppendsAreKept ==
    /\ ChatsReassemble /\ NoVersionTwice /\ AppendedIsKept
    /\ UnchangedIsAppended /\ ReceiptsAreTrue
===============================================================================
