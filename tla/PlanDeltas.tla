------------------------------ MODULE PlanDeltas ------------------------------
(***************************************************************************)
(* The plan of a brain and the steers that change it                       *)
(* (plan_delta_governance.py), and the prompt derived from them.           *)
(*                                                                         *)
(* Every command writes up to four times: the records with their pointer,  *)
(* the prompt with the pointer, the file of the prompt, and the file of    *)
(* the pointer.  The first two are governed mutations of the sector, which *)
(* happen or do not (module SectorMutation); after each the command can be *)
(* interrupted, by an error or by the death of the worker.  Commands run   *)
(* one at a time (module MutationLock).                                    *)
(***************************************************************************)
EXTENDS Naturals, Sequences, FiniteSets

CONSTANTS
    Plans,            \* sources of a plan
    Steers,           \* steers, known by their idempotency keys
    PlanSteers,       \* the steers classified into the lane of the plan
    Gated,            \* the plans and steers that name a human gate
    Chosen,           \* bound: the dispositions a user chooses
    MaxSettings,      \* bound: dispositions set
    MaxInterruptions  \* bound: commands that do not end

Dispositions == {"APPROVED", "SUPERSEDED", "CHANGED", "FAILED", "DROPPED", "PENDING"}

ASSUME PlanAssumption ==
    /\ Plans \cap Steers = {}
    /\ PlanSteers \subseteq Steers
    /\ Gated \subseteq Plans \cup Steers
    /\ Chosen \subseteq Dispositions
    /\ MaxSettings \in Nat /\ MaxInterruptions \in Nat

Sources == Plans \cup Steers

\* A row of delta_record, with the disposition of its lane links and its events,
\* each from one disposition to another.  Rows are known by their sequence
\* number, 0 is none.
DeltaRow == [source : Sources, disposition : Dispositions, links : Dispositions,
             events : Seq((Dispositions \cup {"NONE"}) \X Dispositions),
             supersedes : Nat]

\* canonical_delta_pointer and the text of the goal prompt it names.
Goal == [chain : SUBSET (Nat \X Dispositions), from : Nat, gate : BOOLEAN]

NoGoal == [chain |-> {<<0, "FAILED">>}, from |-> 0, gate |-> FALSE]

Pointer == [current : Nat, latest : Nat, plan : Nat, prompt : Goal]

EmptyPointer == [current |-> 0, latest |-> 0, plan |-> 0, prompt |-> NoGoal]

-----------------------------------------------------------------------------
VARIABLES
    sector,      \* the files of the sector: none, unregistered, or in use
    rows,        \* delta_record
    pointer,     \* canonical_delta_pointer
    prompts,     \* goal_prompt
    currents,    \* the prompts with is_current
    promptFile,  \* the file of Prompt 2
    pointerFile, \* the file of the pointer
    doing,       \* the step of the running command, with what it is about
    settings, interruptions,
    settled,     \* history: the last command came to its end
    recurred     \* history: a prompt was made again that had been there before

planVars == <<sector, rows, pointer, prompts, currents, promptFile, pointerFile, doing,
              settings, interruptions, settled, recurred>>

PlanSteps == {"idle", "ensure", "register", "write", "prompt", "file", "project"}

Commands == {"plan", "steer", "set", "read"}

NoCommand == [step |-> "idle", command |-> "read", source |-> 0, target |-> 0,
              choice |-> "PENDING"]

PlanTypeOK ==
    /\ sector \in {"none", "files", "ready"}
    /\ rows \in Seq(DeltaRow)
    /\ pointer \in Pointer /\ pointerFile \in Pointer
    /\ prompts \subseteq Goal /\ currents \subseteq Goal /\ promptFile \in Goal
    /\ doing \in [step : PlanSteps, command : Commands, source : Sources \cup {0},
                 target : Nat, choice : Dispositions]
    /\ settings \in Nat /\ interruptions \in Nat
    /\ settled \in BOOLEAN /\ recurred \in BOOLEAN

PlanInit ==
    /\ sector = "none"
    /\ rows = <<>>
    /\ pointer = EmptyPointer /\ pointerFile = EmptyPointer
    /\ prompts = {} /\ currents = {} /\ promptFile = NoGoal
    /\ doing = NoCommand
    /\ settings = 0 /\ interruptions = 0
    /\ settled = FALSE /\ recurred = FALSE

-----------------------------------------------------------------------------
(* ensure_plan_delta_sector                                                *)

AtStep(step) == doing.step = step

ToStep(step) == doing' = [doing EXCEPT !.step = step]

\* A sector whose files are there and are not registered is refused.
BeginCommand(command, source, target, choice) ==
    /\ AtStep("idle")
    /\ sector # "files"
    /\ doing' = [step |-> IF sector = "none" THEN "ensure"
                          ELSE IF command = "read" THEN "prompt" ELSE "write",
                 command |-> command, source |-> source, target |-> target,
                 choice |-> choice]
    /\ settled' = FALSE
    /\ UNCHANGED <<sector, rows, pointer, prompts, currents, promptFile, pointerFile,
                   interruptions, recurred>>

\* The database, the law and the pointer; ...
CreateSector ==
    /\ AtStep("ensure")
    /\ sector' = "files"
    /\ pointerFile' = EmptyPointer
    /\ ToStep("register")
    /\ UNCHANGED <<rows, pointer, prompts, currents, promptFile, settings,
                   interruptions, settled, recurred>>

\* ... then the row of the router.
RegisterSector ==
    /\ AtStep("register")
    /\ sector' = "ready"
    /\ ToStep(IF doing.command = "read" THEN "prompt" ELSE "write")
    /\ UNCHANGED <<rows, pointer, prompts, currents, promptFile, pointerFile, settings,
                   interruptions, settled, recurred>>

-----------------------------------------------------------------------------
(* The records.                                                            *)

Known(source) == \E n \in DOMAIN rows : rows[n].source = source

InPlan(source) == source \in Plans \cup PlanSteers

NewRow(source, disposition, supersedes) ==
    [source |-> source, disposition |-> disposition, links |-> disposition,
     events |-> <<<<"NONE", disposition>>>>, supersedes |-> supersedes]

\* mutant: the lane links are forgotten
RowOnly(row, disposition) ==
    [row EXCEPT !.disposition = disposition,
                !.events = Append(@, <<row.disposition, disposition>>)]

WithDisposition(row, disposition) ==
    [row EXCEPT !.disposition = disposition, !.links = disposition,
                !.events = Append(@, <<row.disposition, disposition>>)]

Record(new, row) ==
    /\ rows' = Append(new, row)
    /\ pointer' = [pointer EXCEPT
                    !.current = Len(new) + 1, !.latest = Len(new) + 1,
                    !.plan = IF InPlan(row.source) THEN Len(new) + 1 ELSE @]

Kept == UNCHANGED <<sector, prompts, currents, promptFile, pointerFile, settings,
                    interruptions, settled, recurred>>

\* register_initial_plan_delta.  A plan that is known only renews the prompt.
RegisterPlan ==
    /\ AtStep("write") /\ doing.command = "plan"
    /\ IF Known(doing.source) THEN UNCHANGED <<rows, pointer>>
       ELSE Record(rows, NewRow(doing.source, "APPROVED", 0))
    /\ ToStep("prompt")
    /\ Kept

\* append_classified_steer_delta.  A steer supersedes a delta that is there, or
\* else approves the delta before it, if that one is pending.
AppendSteer ==
    /\ AtStep("write") /\ doing.command = "steer"
    /\ LET target == doing.target
           prior  == pointer.current
       IN  \/ Known(doing.source) /\ UNCHANGED <<rows, pointer>> /\ ToStep("prompt")
           \/ /\ ~Known(doing.source) /\ target # 0 /\ target \notin DOMAIN rows
              /\ doing' = NoCommand
              /\ UNCHANGED <<rows, pointer>>
           \/ /\ ~Known(doing.source) /\ target \in DOMAIN rows
              /\ Record([rows EXCEPT ![target] = WithDisposition(@, "SUPERSEDED")],
                        NewRow(doing.source, "PENDING", target))
              /\ ToStep("prompt")
           \/ /\ ~Known(doing.source) /\ target = 0
              /\ IF prior # 0 /\ rows[prior].disposition = "PENDING"
                 THEN Record([rows EXCEPT ![prior] = WithDisposition(@, "APPROVED")],
                             NewRow(doing.source, "PENDING", 0))
                 ELSE Record(rows, NewRow(doing.source, "PENDING", 0))
              /\ ToStep("prompt")
    /\ Kept

\* set_delta_disposition
SetDisposition ==
    /\ AtStep("write") /\ doing.command = "set"
    /\ \/ /\ doing.target \in DOMAIN rows
          /\ rows' = IF rows[doing.target].disposition = doing.choice THEN rows
                     ELSE [rows EXCEPT ![doing.target] = WithDisposition(@, doing.choice)]
          /\ ToStep("prompt")
       \/ doing.target \notin DOMAIN rows /\ doing' = NoCommand /\ UNCHANGED rows
    /\ UNCHANGED pointer
    /\ Kept

-----------------------------------------------------------------------------
(* build_plan_goal_prompt                                                  *)

Active(n) == rows[n].disposition \notin {"SUPERSEDED", "DROPPED", "FAILED"}

HighestOf(S) == IF S = {} THEN 0 ELSE CHOOSE n \in S : \A m \in S : m <= n

\* The text: the active deltas in the lane of the plan with their dispositions,
\* and whether an active delta names a gate.
GoalText ==
    LET active == {n \in DOMAIN rows : Active(n)}
        chain  == {n \in active : InPlan(rows[n].source)}
    IN  [chain |-> {<<n, rows[n].disposition>> : n \in chain},
         from  |-> IF chain # {} THEN HighestOf(chain) ELSE HighestOf(active),
         gate  |-> \E n \in active : rows[n].source \in Gated]

\* A prompt that is there becomes the latest again, but not the current one.
WritePrompt ==
    /\ AtStep("prompt")
    /\ \/ GoalText \in prompts /\ pointer.prompt = GoalText
          /\ UNCHANGED <<pointer, prompts, currents, recurred>>
       \/ /\ GoalText \in prompts /\ pointer.prompt # GoalText
          /\ pointer' = [pointer EXCEPT !.prompt = GoalText]
          /\ recurred' = TRUE
          /\ UNCHANGED <<prompts, currents>>
       \/ /\ GoalText \notin prompts
          /\ prompts' = prompts \cup {GoalText}
          /\ currents' = {GoalText}
          /\ pointer' = [pointer EXCEPT !.prompt = GoalText]
          /\ UNCHANGED recurred
    /\ ToStep("file")
    /\ UNCHANGED <<sector, rows, promptFile, pointerFile, settings, interruptions,
                   settled>>

WritePromptFile ==
    /\ AtStep("file")
    /\ promptFile' = GoalText
    /\ ToStep("project")
    /\ UNCHANGED <<sector, rows, pointer, prompts, currents, pointerFile, settings,
                   interruptions, settled, recurred>>

\* _update_pointer_projection, and the answer
ProjectPointer ==
    /\ AtStep("project")
    /\ pointerFile' = pointer
    /\ doing' = NoCommand
    /\ settled' = TRUE
    /\ UNCHANGED <<sector, rows, pointer, prompts, currents, promptFile, settings,
                   interruptions, recurred>>

-----------------------------------------------------------------------------
(* The commands, and their interruption.                                   *)

\* The user names a delta that is there, or the next one, which is not.
Targets == 0..(Len(rows) + 1)

PlanCommand(source) ==
    /\ BeginCommand("plan", source, 0, "PENDING")
    /\ UNCHANGED settings

SteerCommand(source) ==
    /\ \E target \in Targets : BeginCommand("steer", source, target, "PENDING")
    /\ UNCHANGED settings

SetCommand ==
    /\ settings < MaxSettings
    /\ settings' = settings + 1
    /\ \E target \in Targets, choice \in Chosen : BeginCommand("set", 0, target, choice)

ReadPrompt ==
    /\ BeginCommand("read", 0, 0, "PENDING")
    /\ UNCHANGED settings

\* Everything that was written stays; the directory the database is first
\* written to is refused as well as the database.
Interrupted ==
    /\ ~AtStep("idle")
    /\ interruptions < MaxInterruptions
    /\ interruptions' = interruptions + 1
    /\ doing' = NoCommand
    /\ sector' = IF AtStep("ensure") THEN "files" ELSE sector
    /\ UNCHANGED <<rows, pointer, prompts, currents, promptFile, pointerFile, settings,
                   settled, recurred>>

PlanNext ==
    \/ \E source \in Plans : PlanCommand(source)
    \/ \E source \in Steers : SteerCommand(source)
    \/ SetCommand \/ ReadPrompt
    \/ CreateSector \/ RegisterSector
    \/ RegisterPlan \/ AppendSteer \/ SetDisposition
    \/ WritePrompt \/ WritePromptFile \/ ProjectPointer
    \/ Interrupted

PlanSpec == PlanInit /\ [][PlanNext]_planVars

-----------------------------------------------------------------------------
(* Properties.                                                             *)

\* Every source has one delta, the pointer names the last one and the last of the
\* plan, and a disposition, its lane links and its events tell the same story.
DeltasAreConsistent ==
    /\ \A m, n \in DOMAIN rows : rows[m].source = rows[n].source => m = n
    /\ pointer.latest = Len(rows) /\ pointer.current = Len(rows)
    /\ pointer.plan = HighestOf({n \in DOMAIN rows : InPlan(rows[n].source)})
    /\ \A n \in DOMAIN rows : LET e == rows[n].events IN
        /\ rows[n].links = rows[n].disposition
        /\ e[Len(e)][2] = rows[n].disposition
        /\ \A k \in 2..Len(e) : e[k][1] = e[k - 1][2]

\* A steer waits for approval only until the next one goes on from it, unless a
\* user says so.
ContinuedIsApproved ==
    \A n \in DOMAIN rows :
        (n + 1 \in DOMAIN rows /\ rows[n].disposition = "PENDING") =>
            \/ rows[n + 1].source \in Plans
            \/ rows[n + 1].supersedes # 0
            \/ Len(rows[n].events) > 1

\* When a command has come to its end, the prompt, its file and the file of the
\* pointer are those of the deltas, whatever was interrupted before; the pointer
\* and is_current disagree only about a prompt that was made a second time.
PromptFollowsDeltas ==
    settled =>
        /\ pointer.prompt = GoalText /\ promptFile = GoalText
        /\ pointerFile = pointer
        /\ recurred \/ currents = {pointer.prompt}

PlanIsKept == DeltasAreConsistent /\ ContinuedIsApproved /\ PromptFollowsDeltas

-----------------------------------------------------------------------------
(* Why the prompt follows the deltas.                                      *)

\* The command that runs is about a source of its kind.
CommandFits ==
    ~AtStep("idle") =>
        /\ doing.command = "plan" => doing.source \in Plans
        /\ doing.command = "steer" => doing.source \in Steers

\* Each step of a command leaves one more of the pointer, the file of the prompt and the
\* file of the pointer as the deltas say.
PromptInPlace ==
    /\ settled => AtStep("idle")
    /\ AtStep("file") \/ AtStep("project") \/ settled =>
           pointer.prompt = GoalText /\ prompts # {}
    /\ AtStep("project") \/ settled => promptFile = GoalText
    /\ settled => pointerFile = pointer
    /\ prompts # {} => recurred \/ currents = {pointer.prompt}

\* The inductive invariant of PlanIsKept.
PlanInvariant ==
    /\ DeltasAreConsistent /\ ContinuedIsApproved
    /\ \A n \in DOMAIN rows : rows[n].events # <<>>
    /\ CommandFits /\ PromptInPlace
===============================================================================
