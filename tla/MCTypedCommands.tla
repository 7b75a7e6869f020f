---------------------------- MODULE MCTypedCommands ----------------------------
(* Instances of TypedCommands for TLC. *)
EXTENDS TypedCommands

MCAgents    == {"a1"}
MCHumans    == {"h"}
MCPhases    == {"execution", "done"}
MCTaskTypes == {"t1"}
MCClusters  == {"sun"}

Update(updates, section) ==
    [op |-> "update", vault |-> "here", updates |-> updates, section |-> section]
Increment(field) == [op |-> "increment", vault |-> "here", field |-> field, delta |-> 1]

Complete == [op |-> "complete", vault |-> "here"]
Charge   == Update([trigger_count |-> 2, trigger_scope |-> "execution", max_triggers |-> 2,
                    current_job |-> "job"], FALSE)
Restore  == Update([assignee |-> "a1"], FALSE)
Raise    == Update([max_triggers |-> 9, trigger_scope |-> "done"], FALSE)
Fail     == Update([phase |-> "human_review"], TRUE)

MCCommands ==
    {Charge, Restore, Raise, Fail, Complete, [Complete EXCEPT !.vault = "elsewhere"],
     Increment("trigger_count")}

NewBody == [cap |-> {}, resolution |-> 0, failure |-> FALSE, notes |-> {}]

\* One trigger away from its cap: a legacy task, without a stamp and with the
\* default cap a ref engages.
Legacy ==
    [ status |-> "in_progress", phase |-> "execution", assignee |-> "a1",
      previous_assignee |-> Absent, task_type |-> "t1",
      trigger_count |-> 1, max_triggers |-> Absent, ref |-> "set", trigger_scope |-> "execution",
      cluster |-> "sun", current_job |-> Absent, target_vault |-> Absent,
      spawn_notification |-> Absent, retry_count |-> Absent, max_retries |-> Absent,
      assignee_reassigned_by |-> Absent, metrics_agent_turns |-> Absent ]

MCInitialTasks == {[fm |-> Legacy, body |-> NewBody]}
=============================================================================
