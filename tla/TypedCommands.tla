----------------------------- MODULE TypedCommands -----------------------------
(***************************************************************************)
(* The executors of the typed commands (update-frontmatter,                *)
(* increment-frontmatter, complete) on one task, run by the consumer of    *)
(* its partition.  An executor reads the task through the vault API and    *)
(* writes it with two requests: PATCH replaces named frontmatter fields,   *)
(* PUT the whole body.  Any request may fail, before or after it was       *)
(* stored, the process may die between any two, and a person edits the     *)
(* task in the meantime.                                                   *)
(***************************************************************************)
EXTENDS CommandConsumer, TaskFrontmatter, Sequences

CONSTANTS
    Missing,        \* there is no task with the identifier
    TypedCommand,   \* the commands that may be published
    InitialTasks,   \* tasks to start from
    MaxEdits,       \* bound: edits of the operator
    MaxFailures     \* bound: requests that fail

VARIABLES
    log,      \* the commands published, by offset
    disk,     \* the task
    call,     \* the executor under way
    partial,  \* history: commands of whose two writes only the first is stored
    parked,   \* history: an assignee was cleared at the trigger cap
    closed,   \* history: the PATCH of a completion is stored
    edits,
    failures

taskVars == <<log, disk, call, partial, parked, closed, edits, failures>>
vars == <<consumerVars, taskVars>>

\* cap: the names the Trigger Cap Escalation sections report; failure: the
\* section an update brings along; notes: edits of the operator.
Names == Agents \cup Humans \cup {""}
TaskBody == [cap : SUBSET Names, resolution : Nat, failure : BOOLEAN, notes : SUBSET Nat]

\* The keys of TaskFrontmatter, and trigger_scope.
KeyTypes ==
    [ status |-> Opt(Statuses), phase |-> Opt(Phases \cup {"human_review"}),
      assignee |-> Opt(Names), previous_assignee |-> Opt(Names), task_type |-> Opt(TaskTypes),
      trigger_count |-> Opt(Nat), max_triggers |-> Opt(Nat), ref |-> Opt({"set"}),
      trigger_scope |-> Opt(Phases), cluster |-> Opt(Clusters),
      current_job |-> Opt({"", "job"}), target_vault |-> Opt({"here"}),
      spawn_notification |-> Opt({"set"}), retry_count |-> Opt(Nat), max_retries |-> Opt(Nat),
      assignee_reassigned_by |-> Opt({"set"}), metrics_agent_turns |-> Opt(Nat) ]
Keys == DOMAIN KeyTypes
Counters == {"trigger_count", "retry_count"}

IsFields(f) == f = [k \in DOMAIN f |-> f[k]] /\ \A k \in DOMAIN f : k \in Keys /\ f[k] \in KeyTypes[k]
IsFrontmatter(fm) == IsFields(fm) /\ DOMAIN fm = Keys
IsTask(t) == t \in [fm : {t.fm}, body : TaskBody] /\ IsFrontmatter(t.fm)

\* What is published: an update names keys and values, an increment a counter.
IsCommand(c) ==
    \/ c.op = "update" /\ IsFields(c.updates) /\ c.section \in BOOLEAN
    \/ c.op = "increment" /\ c.field \in Counters /\ c.delta \in Nat
    \/ c.op = "complete"

\* The history starts with tasks that no completion has reached yet.
ASSUME TypedAssumption ==
    /\ MaxEdits \in Nat /\ MaxFailures \in Nat /\ "done" \in Phases
    /\ \A t \in InitialTasks : t # Missing => IsTask(t) /\ t.body.resolution = 0
    /\ \A c \in TypedCommand : IsCommand(c)

\* pc: the request that comes next.  read: the frontmatter of the first read;
\* fields: the PATCH; name: who the escalation section names; fresh and body:
\* the body of the second read and the one to PUT.
NoCall == [pc |-> "idle"]
IsCall(c) ==
    \/ c \in [pc : {"read", "return"}]
    \/ /\ c \in [pc : {"reread", "put", "patch"}, read : {c.read}, fields : {c.fields},
                 escalates : BOOLEAN, name : Names, fresh : TaskBody, body : TaskBody]
       /\ IsFrontmatter(c.read) /\ IsFields(c.fields)

TypeOK ==
    /\ ConsumerTypeOK
    /\ log \in Seq(TypedCommand) /\ Len(log) = length
    /\ disk # Missing => IsTask(disk)
    /\ IF session.current = 0 THEN call = NoCall ELSE IsCall(call)
    /\ partial \subseteq begun /\ parked \in BOOLEAN /\ closed \in BOOLEAN
    /\ edits \in 0 .. MaxEdits /\ failures \in 0 .. MaxFailures

Init ==
    /\ ConsumerInit
    /\ log = << >> /\ disk \in InitialTasks /\ call = NoCall
    /\ partial = {} /\ parked = FALSE /\ closed = FALSE /\ edits = 0 /\ failures = 0

cmd == log[session.current]

-----------------------------------------------------------------------------
(* What the executors compute. *)

Overlay(fm, fields) ==
    [k \in DOMAIN fm |-> IF k \in DOMAIN fields THEN fields[k] ELSE fm[k]]

Pick(fm, keys) == [k \in keys |-> fm[k]]

\* frontmatterCommandVaultMismatch: a command without a vault is everybody's.
IsOurs(c) == c.vault \in {"", "here"}

\* Variant: the command's cap is taken as it comes.
TrustedCap(onDisk, incoming) == IF onDisk = Absent THEN incoming ELSE onDisk

\* An existing cap stays; a new one may not exceed the default.
AllowedCap(onDisk, incoming) ==
    IF onDisk = Absent /\ incoming # Absent /\ incoming <= DefaultCap
    THEN incoming ELSE onDisk

\* trigger_scope travels only with a trigger_count.
ControllerOwnedGuard(fm, updates) ==
    LET merged == Overlay(fm, updates) IN
    [merged EXCEPT !.max_triggers = AllowedCap(fm.max_triggers, merged.max_triggers),
                   !.trigger_scope = IF "trigger_count" \in DOMAIN updates THEN @
                                     ELSE fm.trigger_scope]

\* Variant: the cap looks at the task as it was read.
CapOnDisk(fm, merged) == TriggerCapReached(fm)

UpdateEscalates(fm, merged) == TriggerCapReached(merged)

\* buildUpdatePatch on the merged copy: cap, human review, heal, terminal job.
UpdatedFrontmatter(fm, updates) ==
    LET merged == ControllerOwnedGuard(fm, updates)
        capped == IF UpdateEscalates(fm, merged) THEN ClearAssigneeUnlessHuman(merged)
                  ELSE merged IN
    ClearCurrentJobIfTerminal(HealTargetVault(ClearAssigneeIfHumanReview(capped)))

\* Only the fields that change are sent.
UpdatePatch(fm, updates) ==
    LET after == UpdatedFrontmatter(fm, updates) IN
    Pick(after, {k \in DOMAIN fm : after[k] # fm[k]})

IncrementEscalates(fm, c) ==
    /\ c.field = "trigger_count" /\ TriggerCapEngaged(fm)
    /\ Count(fm.trigger_count) + c.delta >= Cap(fm.max_triggers)

\* The new value is absolute; at the cap the assignee goes, a human one too.
IncrementPatch(fm, c) ==
    LET counted == [fm EXCEPT ![c.field] = Count(@) + c.delta]
        capped  == IF IncrementEscalates(fm, c) THEN ClearAssignee(counted) ELSE counted IN
    Pick(HealTargetVault(capped),
         {c.field}
         \cup (IF fm.target_vault = Absent THEN {"target_vault"} ELSE {})
         \cup (IF IncrementEscalates(fm, c)
               THEN {"assignee"} \cup (IF Assignee(fm) = "" THEN {} ELSE {"previous_assignee"})
               ELSE {}))

CompletePatch(fm) ==
    Pick([HealTargetVault(fm) EXCEPT !.status = "completed", !.phase = "done"],
         {"status", "phase"} \cup (IF fm.target_vault = Absent THEN {"target_vault"} ELSE {}))

Escalates(fm, c) ==
    CASE c.op = "update"    -> UpdateEscalates(fm, ControllerOwnedGuard(fm, c.updates))
      [] c.op = "increment" -> IncrementEscalates(fm, c)
      [] OTHER              -> FALSE

EscalatedName(fm, c) ==
    IF c.op = "update" THEN Assignee(ControllerOwnedGuard(fm, c.updates)) ELSE Assignee(fm)

Fields(fm, c) ==
    CASE c.op = "update"    -> UpdatePatch(fm, c.updates)
      [] c.op = "increment" -> IncrementPatch(fm, c)
      [] c.op = "complete"  -> CompletePatch(fm)

\* The body to PUT, from the fresh read: the section the command carries, the
\* escalation unless the body has one, the Resolution unless it has one.
MergedBody(fresh, c, escalates, name) ==
    [fresh EXCEPT
        !.failure = @ \/ (c.op = "update" /\ c.section),
        !.cap = IF escalates /\ @ = {} THEN {name} ELSE @,
        !.resolution = IF c.op = "complete" /\ @ = 0 THEN 1 ELSE @]

-----------------------------------------------------------------------------
(* The steps of an executor. *)

Continue(c) == IF c.pc = "return" THEN [pc |-> "return"] ELSE c
Goto(pc) == call' = Continue([call EXCEPT !.pc = pc])

\* A command of another vault, or one with nothing to say, ends at once.
BeginCommand(m) ==
    /\ Begin(m)
    /\ LET c == log[m] IN
       call' = [pc |-> IF /\ IsOurs(c)
                          /\ c.op = "update" => c.section \/ DOMAIN c.updates # {}
                       THEN "read" ELSE "return"]
    /\ UNCHANGED <<log, disk, partial, parked, closed, edits, failures>>

\* Variants: every command starts with its PATCH; every command with its PUT.
PatchFirst(c) == FALSE
PutFirst(c) == TRUE

\* The escalation and the section are written before the fields, a Resolution
\* after them.
BodyFirst(c) == c.op # "complete"

WritesBody(c, escalates) ==
    c.op = "complete" \/ escalates \/ (c.op = "update" /\ c.section)

\* What follows the first read, the PUT and the PATCH.
AfterRead(fields, escalates) ==
    IF BodyFirst(cmd) /\ WritesBody(cmd, escalates) THEN "reread"
    ELSE IF DOMAIN fields # {} THEN "patch" ELSE "return"
AfterBody == IF BodyFirst(cmd) /\ DOMAIN call.fields # {} THEN "patch" ELSE "return"
AfterPatch ==
    IF ~BodyFirst(cmd) /\ WritesBody(cmd, call.escalates) THEN "reread" ELSE "return"

ReadTask ==
    /\ call.pc = "read" /\ disk # Missing
    /\ LET fields    == Fields(disk.fm, cmd)
           escalates == Escalates(disk.fm, cmd) IN
       call' = Continue(
               [read |-> disk.fm, fields |-> fields, escalates |-> escalates,
                name |-> IF escalates THEN EscalatedName(disk.fm, cmd) ELSE "",
                fresh |-> disk.body, body |-> disk.body,
                pc |-> IF cmd.op = "complete" /\ disk.body.resolution > 0 THEN "return"
                       ELSE AfterRead(fields, escalates)])
    /\ UNCHANGED <<consumerVars, log, disk, partial, parked, closed, edits, failures>>

\* Variant: the section is merged onto the body of the first read.
FirstBody == call.fresh

FreshBody == disk.body

\* The second read: its body is the one that is written back.
RereadTask ==
    /\ call.pc = "reread" /\ disk # Missing
    /\ LET body == MergedBody(FreshBody, cmd, call.escalates, call.name) IN
       call' = Continue([call EXCEPT !.fresh = disk.body, !.body = body,
                                     !.pc = IF body = FreshBody THEN AfterBody ELSE "put"])
    /\ UNCHANGED <<consumerVars, log, disk, partial, parked, closed, edits, failures>>

ReadMissing ==
    /\ call.pc \in {"read", "reread"} /\ disk = Missing
    /\ Goto("return")
    /\ UNCHANGED <<consumerVars, log, disk, partial, parked, closed, edits, failures>>

\* Effect of the two write requests.
StoreBody ==
    /\ disk' = [disk EXCEPT !.body = call.body]
    /\ partial' = IF AfterBody = "patch" THEN partial \cup {session.current}
                  ELSE partial \ {session.current}
    /\ UNCHANGED <<parked, closed>>

StoreFields ==
    /\ disk' = [disk EXCEPT !.fm = Overlay(@, call.fields)]
    /\ partial' = IF AfterPatch = "reread" THEN partial \cup {session.current}
                  ELSE partial \ {session.current}
    /\ parked' = (parked \/ (/\ call.escalates /\ "assignee" \in DOMAIN call.fields
                             /\ Assignee(disk.fm) # ""))
    /\ closed' = (closed \/ cmd.op = "complete")

PutBody ==
    /\ call.pc = "put" /\ disk # Missing
    /\ StoreBody /\ Goto(AfterBody)
    /\ UNCHANGED <<consumerVars, log, edits, failures>>

PatchTask ==
    /\ call.pc = "patch" /\ disk # Missing
    /\ StoreFields /\ Goto(AfterPatch)
    /\ UNCHANGED <<consumerVars, log, edits, failures>>

\* A request without a usable answer ends the executor with an error; a write
\* may have been stored.
RequestFails ==
    /\ call # NoCall /\ call.pc # "return"
    /\ \/ failures < MaxFailures /\ failures' = failures + 1
       \/ disk = Missing /\ call.pc \in {"put", "patch"} /\ UNCHANGED failures
    /\ \/ UNCHANGED <<disk, partial, parked, closed>>
       \/ disk # Missing /\ call.pc = "put" /\ StoreBody
       \/ disk # Missing /\ call.pc = "patch" /\ StoreFields
    /\ Goto("return")
    /\ UNCHANGED <<consumerVars, log, edits>>

ReturnCommand ==
    /\ call # NoCall /\ call.pc = "return"
    /\ Return
    /\ call' = NoCall
    /\ UNCHANGED <<log, disk, partial, parked, closed, edits, failures>>

Executor ==
    \/ ReadTask \/ RereadTask \/ ReadMissing \/ PutBody \/ PatchTask \/ RequestFails
    \/ ReturnCommand

-----------------------------------------------------------------------------
(* Everybody else. *)

PublishCommand(c) ==
    /\ Publish
    /\ log' = Append(log, c)
    /\ UNCHANGED <<disk, call, partial, parked, closed, edits, failures>>

\* The operator writes a note, hands the task over, sets its cap or deletes it.
OperatorEdit ==
    /\ edits < MaxEdits /\ disk # Missing
    /\ \/ disk' = [disk EXCEPT !.body.notes = @ \cup {edits}]
       \/ \E a \in Agents \cup Humans : disk' = [disk EXCEPT !.fm.assignee = a]
       \/ disk' = [disk EXCEPT !.fm.max_triggers = 1]
       \/ disk' = Missing
    /\ edits' = edits + 1
    /\ UNCHANGED <<consumerVars, log, call, partial, parked, closed, failures>>

\* Variant: the executor outlives the session.
LeaveExecutor == SessionEnds /\ UNCHANGED taskVars

EndSession ==
    /\ SessionEnds
    /\ call' = NoCall
    /\ UNCHANGED <<log, disk, partial, parked, closed, edits, failures>>

ConsumerStep ==
    \/ Consume /\ UNCHANGED taskVars
    \/ \E m \in Commands : BeginCommand(m)
    \/ Executor

Next ==
    \/ ConsumerStep
    \/ \E c \in TypedCommand : PublishCommand(c)
    \/ Expire /\ UNCHANGED taskVars
    \/ OperatorEdit
    \/ EndSession

\* The consumer goes on: the retry loop reconnects, and every request of the
\* vault API client ends within its timeout.
Spec == Init /\ [][Next]_vars /\ WF_vars(ConsumerStep)

-----------------------------------------------------------------------------
(* Properties. *)

Stored == disk # Missing

\* The escalation is in the body before the assignee is cleared, so a task the
\* cap has parked has its record at every instant, through failed requests,
\* crashes and redeliveries; the heading guard then keeps a retry, which finds
\* no assignee any more, from writing a record with a blank name (applyUpdate,
\* writeTriggerCapEscalation).
ParkedHasItsRecord == Stored /\ parked => disk.body.cap # {}

\* No command leaves an agent on a task that has used up its triggers, whether
\* the count, the cap or the assignee came with it (buildUpdatePatch,
\* buildIncrementPatch).
NoAgentAtTheCap ==
    Stored /\ edits = 0 /\ TriggerCapReached(disk.fm) => Assignee(disk.fm) \notin Agents

\* A Resolution is appended once and only after the task was closed, so the
\* guard that reads the body cannot keep an open task open (closeTask).
ResolutionMeansClosed ==
    Stored => disk.body.resolution <= 1 /\ (disk.body.resolution = 1 => closed)

\* A whole-body PUT loses what an operator wrote only if it was written after
\* the re-read, never in the longer time since the command's first read
\* (applyUpdate, writeTriggerCapEscalation, closeTask).
RereadEditsSurvive ==
    [][Stored /\ disk' # Missing /\ disk'.body.notes # disk.body.notes /\ edits' = edits
          => disk.body.notes \cap call.fresh.notes \subseteq disk'.body.notes]_vars

\* A command neither raises nor lowers a trigger cap it found, and one that
\* brings a cap along does not exceed the default; an operator's cap can only
\* be overwritten if it was set since the command's read
\* (applyControllerOwnedGuard).
FoundCapKept ==
    [][Stored /\ disk' # Missing /\ disk'.fm.max_triggers # disk.fm.max_triggers
       /\ edits' = edits
          => /\ call.read.max_triggers = Absent
             /\ disk'.fm.max_triggers <= DefaultCap]_vars

\* docs/controller-design.md: the window between the two writes of a command
\* heals itself, because the command is redelivered.
WindowSelfHeals ==
    \A m \in Commands : m \in partial ~> m \notin partial \/ m \in expired \cup dropped

=============================================================================
