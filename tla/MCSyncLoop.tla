------------------------------- MODULE MCSyncLoop -------------------------------
(* Instances of SyncLoop for TLC. *)
EXTENDS SyncLoop, TLC

Task(i, a) ==
    [id |-> i, assignee |-> a, phase |-> "execution", status |-> "in_progress",
     count |-> 0, job |-> ""]

MCPhases   == {"execution", "human_review"}
MCNewFiles == {Task("u1", "agent"), Task("u1", ""), Task("none", "agent"), Task("stuck", "agent"),
               [Task("u1", "agent") EXCEPT !.status = ""], [Task("u1", "agent") EXCEPT !.count = 1]}

\* The two paths are alike.
PathSymmetry == Permutations(Paths)
=============================================================================
