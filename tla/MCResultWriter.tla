----------------------------- MODULE MCResultWriter -----------------------------
(* Instances of ResultWriter for TLC. *)
EXTENDS ResultWriter

Lines(names) == [k \in 1 .. Len(names) |-> [name |-> names[k], eol |-> "lf"]]
Of(pre, names, tail) == [pre |-> pre, parts |-> Lines(names), tail |-> tail]

\* A task an agent works on: capped through max_triggers, routed to a cluster.
Fresh ==
    [ status |-> "in_progress", phase |-> "execution", assignee |-> "a1",
      previous_assignee |-> Absent, task_type |-> "t1",
      trigger_count |-> Absent, max_triggers |-> 2, ref |-> Absent,
      cluster |-> "sun", current_job |-> Absent, target_vault |-> "here",
      spawn_notification |-> Absent, retry_count |-> Absent, max_retries |-> Absent,
      assignee_reassigned_by |-> Absent, metrics_agent_turns |-> Absent ]

\* A legacy task: unstamped, ref-bearing, with a spent retry budget.
Legacy ==
    [Fresh EXCEPT !.target_vault = Absent, !.max_triggers = Absent, !.ref = "set",
                  !.cluster = Absent, !.retry_count = 1, !.max_retries = 1]

\* The legacy task was parked before and handed back to its agent.
MCInitialFiles ==
    {[fm |-> Fresh,  body |-> Of("text", <<"result">>, "closed")],
     [fm |-> Legacy, body |-> Of("text", <<"result", "retry_cap">>, "closed")]}

\* A report with a preamble and a heading, without a final newline.  A report
\* that lacks a section of the disk is also what a stale snapshot is.
MCReplies == {Of("text", <<"result">>, "open")}

MCAgents    == {"a1", "a2"}
MCHumans    == {"h"}
MCPhases    == {"execution", "ai_review"}
MCTaskTypes == {"t1", "t2"}
MCClusters  == {"sun"}
MCTurns     == {1}
=============================================================================
