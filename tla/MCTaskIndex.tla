------------------------------ MODULE MCTaskIndex ------------------------------
(* Instances of TaskIndex for TLC. *)
EXTENDS TaskIndex

\* The disambiguated path of the served identifiers.
CONSTANTS Suffixed, u1, u2, l1
MCAlt == [i \in Ids |-> Suffixed]

\* One partition.
MCPartition == [i \in Ids |-> 0]

\* No file, and a finished task whose identifier was repaired.
MCInitial == {None, [id |-> u1, prev |-> l1, open |-> FALSE]}
=============================================================================
