----------------------------- MODULE MCRedriveSweep -----------------------------
(* Instances of RedriveSweep for TLC. *)
EXTENDS RedriveSweep

Stuck == [status |-> "in_progress", phase |-> "planning", assignee |-> "a1",
          stage |-> "prod", current_job |-> ""]

\* A stranded task, one of the other stage, and one that is being reviewed.
MCRecords ==
    {Stuck, [Stuck EXCEPT !.stage = "dev"], [Stuck EXCEPT !.phase = "human_review"]}
=============================================================================
