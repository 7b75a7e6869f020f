------------------------------ MODULE ResultMerge ------------------------------
(***************************************************************************)
(* What one result write computes: the modify closure of                   *)
(* pkg/result/result_writer.go (buildResultModifyFn) as a function of the  *)
(* file it reads and of the result an agent delivered.                     *)
(*                                                                         *)
(* e is the frontmatter on disk ("existing"), i the one of the result      *)
(* ("incoming").                                                           *)
(***************************************************************************)
EXTENDS TaskFrontmatter, TaskBody

\* A task file.
File == [fm : Frontmatter, body : Body]

Incoming(e, i) == IF i = Absent THEN e ELSE i

\* controllerOwnedFields: disk wins, and what is absent on disk stays absent.
ControllerOwned(e, i) == e

\* operatorPinnedFields: as above, but every discard is a decision.
OperatorPinned(e, i) == e

\* operatorOwnedFields without the exceptions of assignee.
OperatorOwned(e, i) == IF e = Absent THEN i ELSE e

Accumulated(e, i) ==
    IF e = Absent \/ i = Absent THEN Incoming(e, i) ELSE e + i

MergedStatus(e, i) ==
    IF IsTerminal(e) THEN e.status ELSE Incoming(e.status, i.status)

Declares(i) == i.assignee_reassigned_by # Absent

\* The declaration is looked at only after the empty-assignee exception and
\* only when the key exists on both sides.
HonoursDeclaration(e, i) ==
    e.assignee # Absent /\ i.assignee \notin {Absent, ""} /\ Declares(i)

MergedAssignee(e, i) ==
    IF i.assignee = "" \/ HonoursDeclaration(e, i)
    THEN i.assignee
    ELSE OperatorOwned(e.assignee, i.assignee)

\* The guard discarded the incoming assignee: a stale snapshot.
StaleRouting(e, i) ==
    /\ e.assignee # Absent
    /\ i.assignee \notin {Absent, "", e.assignee}
    /\ ~Declares(i)

\* Variant: task_type is agent-owned even when the assignee is discarded.
IncomingTaskType(e, i) == Incoming(e.task_type, i.task_type)

\* applyStaleRoutingTupleGuard: task_type travels with a discarded assignee.
MergedTaskType(e, i) ==
    IF StaleRouting(e, i) /\ e.task_type # Absent
    THEN e.task_type ELSE Incoming(e.task_type, i.task_type)

MergeFrontmatter(e, i) ==
    [ status                 |-> MergedStatus(e, i),
      phase                  |-> Incoming(e.phase, i.phase),
      assignee               |-> MergedAssignee(e, i),
      previous_assignee      |-> OperatorOwned(e.previous_assignee, i.previous_assignee),
      task_type              |-> MergedTaskType(e, i),
      trigger_count          |-> ControllerOwned(e.trigger_count, i.trigger_count),
      max_triggers           |-> ControllerOwned(e.max_triggers, i.max_triggers),
      ref                    |-> Incoming(e.ref, i.ref),
      cluster                |-> OperatorPinned(e.cluster, i.cluster),
      current_job            |-> Incoming(e.current_job, i.current_job),
      target_vault           |-> Incoming(e.target_vault, i.target_vault),
      spawn_notification     |-> Incoming(e.spawn_notification, i.spawn_notification),
      retry_count            |-> Incoming(e.retry_count, i.retry_count),
      max_retries            |-> Incoming(e.max_retries, i.max_retries),
      assignee_reassigned_by |->
          IF HonoursDeclaration(e, i) THEN Absent
          ELSE Incoming(e.assignee_reassigned_by, i.assignee_reassigned_by),
      metrics_agent_turns    |-> Accumulated(e.metrics_agent_turns, i.metrics_agent_turns) ]

\* The decisions MergeFrontmatter returns: the fields whose differing incoming
\* value it reports as discarded.
Decisions(e, i) ==
    LET differs(f) == i[f] # Absent /\ i[f] # e[f] IN
    {f \in {"trigger_count", "max_triggers", "previous_assignee"} :
        e[f] # Absent /\ differs(f)}
    \cup {f \in {"cluster"}   : differs(f)}
    \cup {f \in {"status"}    : IsTerminal(e) /\ differs(f)}
    \cup {f \in {"assignee"}  : StaleRouting(e, i)}
    \cup {f \in {"task_type"} :
             StaleRouting(e, i) /\ e.task_type # Absent /\ differs(f)}

-----------------------------------------------------------------------------
(* applyRetryCounter *)

\* Variant: the section is appended without looking for it.
EscalateAgain(existing, file, section) ==
    [fm   |-> RestoreExistingPhase(existing, ClearAssigneeUnlessHuman(file.fm)),
     body |-> AppendSection(file.body, section)]

\* Both caps park alike: clear the assignee, then restore the phase when the
\* section is there already, or append the section.
Escalate(existing, file, section) ==
    LET cleared == ClearAssigneeUnlessHuman(file.fm) IN
    IF Contains(file.body, section)
    THEN [file EXCEPT !.fm = RestoreExistingPhase(existing, cleared)]
    ELSE [fm |-> cleared, body |-> AppendSection(file.body, section)]

ApplyTriggerCap(existing, file) ==
    IF TriggerCapReached(file.fm) THEN Escalate(existing, file, "trigger_cap") ELSE file

ApplyRetryCap(existing, file) ==
    IF RetryCapReached(file.fm, existing)
    THEN Escalate(existing, file, "retry_cap") ELSE file

ApplyHumanReview(file) == [file EXCEPT !.fm = ClearAssigneeIfHumanReview(file.fm)]

\* Variant: the early return comes before the trigger cap.
EarlyReturnFirst(existing, file) ==
    IF IsTerminal(file.fm) THEN file
    ELSE IF file.fm.spawn_notification # Absent
         THEN [file EXCEPT !.fm.spawn_notification = Absent]
         ELSE ApplyRetryCap(existing, ApplyHumanReview(ApplyTriggerCap(existing, file)))

\* The spawn_notification early return skips the retry cap, never the others.
ApplyRetryCounter(existing, file) ==
    IF IsTerminal(file.fm) THEN file
    ELSE LET parked == ApplyHumanReview(ApplyTriggerCap(existing, file)) IN
         IF parked.fm.spawn_notification # Absent
         THEN [parked EXCEPT !.fm.spawn_notification = Absent]
         ELSE ApplyRetryCap(existing, parked)

\* buildResultModifyFn: the file a result write produces from the one it read.
ModifyFile(file, req) ==
    ApplyRetryCounter(file.fm,
        [fm   |-> ClearCurrentJobIfTerminal(HealTargetVault(MergeFrontmatter(file.fm, req.fm))),
         body |-> MergeBody(file.body, req.body)])

\* Variant: the previous assignee is not looked at.
LeavesUnassigned(base, out) == Assignee(out.fm) = ""

\* The write took the task away from a named assignee.
Escalated(base, out) == Assignee(base.fm) # "" /\ Assignee(out.fm) = ""

=============================================================================
