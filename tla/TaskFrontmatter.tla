---------------------------- MODULE TaskFrontmatter ----------------------------
(***************************************************************************)
(* The frontmatter of a task file, as far as the controller interprets it: *)
(* the keys that drive routing, budgets and lifecycle.  The operators are  *)
(* the in-place mutators pkg/result shares with the typed command          *)
(* executors.                                                              *)
(*                                                                         *)
(* A key that is missing from the frontmatter has the value Absent.  Every *)
(* other key of a real file follows the "incoming wins" rule of task_type  *)
(* when the assignee is not in dispute; trigger_scope follows the rule of  *)
(* trigger_count and metrics_interaction_count that of                     *)
(* metrics_agent_turns, so one representative of each is kept.             *)
(***************************************************************************)
EXTENDS Integers

CONSTANTS
    Absent,      \* the value of a key the frontmatter does not carry
    Agents,      \* assignees that name an agent
    Humans,      \* HUMAN_ASSIGNEES: assignees that name a human owner
    Phases,      \* lifecycle phases other than human_review
    TaskTypes,   \* values of task_type
    Clusters,    \* values of cluster
    DefaultCap   \* what lib's MaxTriggers and MaxRetries return without a key

Live     == {"in_progress", "hold"}
Terminal == {"completed", "aborted"}
Statuses == Live \cup Terminal

ASSUME CapAssumption == DefaultCap \in Nat \ {0}

ASSUME ValuesAssumption ==
    /\ "" \notin Agents \cup Humans
    /\ Agents \cap Humans = {}
    /\ "human_review" \notin Phases
    /\ Absent \notin Nat \cup Statuses \cup Agents \cup Humans \cup Phases
                     \cup TaskTypes \cup Clusters
                     \cup {"", "job", "set", "human_review", "here"}

Opt(S) == S \cup {Absent}

Frontmatter ==
    [ status                 : Opt(Statuses),
      phase                  : Opt(Phases \cup {"human_review"}),
      assignee               : Opt(Agents \cup Humans \cup {""}),
      previous_assignee      : Opt(Agents \cup Humans \cup {""}),
      task_type              : Opt(TaskTypes),
      trigger_count          : Opt(Nat),
      max_triggers           : Opt(Nat),
      ref                    : Opt({"set"}),
      cluster                : Opt(Clusters),
      current_job            : Opt({"", "job"}),
      target_vault           : Opt({"here"}),
      spawn_notification     : Opt({"set"}),
      retry_count            : Opt(Nat),
      max_retries            : Opt(Nat),
      assignee_reassigned_by : Opt({"set"}),
      metrics_agent_turns    : Opt(Nat) ]

-----------------------------------------------------------------------------
(* Accessors of lib.TaskFrontmatter. *)

Count(v)        == IF v = Absent THEN 0 ELSE v
Cap(v)          == IF v = Absent THEN DefaultCap ELSE v
Assignee(fm)    == IF fm.assignee = Absent THEN "" ELSE fm.assignee
IsTerminal(fm)  == fm.status \in Terminal

-----------------------------------------------------------------------------
(* Mutators of pkg/result. *)

TriggerCapEngaged(fm) == fm.max_triggers # Absent \/ fm.ref # Absent

TriggerCapReached(fm) ==
    /\ TriggerCapEngaged(fm)
    /\ Count(fm.trigger_count) # 0
    /\ Count(fm.trigger_count) >= Cap(fm.max_triggers)

\* The retry cap is opt-in, and reads the counter of the file on disk.
RetryCapReached(fm, existing) ==
    /\ fm.max_retries # Absent
    /\ Count(existing.retry_count) >= Cap(fm.max_retries)

ClearAssignee(fm) ==
    [fm EXCEPT !.assignee = "",
               !.previous_assignee =
                   IF Assignee(fm) = "" THEN fm.previous_assignee ELSE Assignee(fm)]

ClearAssigneeUnlessHuman(fm) ==
    IF Assignee(fm) \in Humans THEN fm ELSE ClearAssignee(fm)

ClearAssigneeIfHumanReview(fm) ==
    IF fm.phase = "human_review" THEN ClearAssigneeUnlessHuman(fm) ELSE fm

\* Variant: the late result's phase stays.
KeepMergedPhase(existing, fm) == fm

RestoreExistingPhase(existing, fm) ==
    IF existing.phase = Absent THEN fm ELSE [fm EXCEPT !.phase = existing.phase]

\* Variant: the controller stamps an empty VAULT_NAME.
StampBlankVault(fm) ==
    IF fm.target_vault = Absent THEN [fm EXCEPT !.target_vault = ""] ELSE fm

HealTargetVault(fm) ==
    IF fm.target_vault = Absent THEN [fm EXCEPT !.target_vault = "here"] ELSE fm

ClearCurrentJobIfTerminal(fm) ==
    IF IsTerminal(fm) /\ fm.current_job # Absent
    THEN [fm EXCEPT !.current_job = ""] ELSE fm

=============================================================================
