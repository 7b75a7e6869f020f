------------------------------ MODULE MCSupersede ------------------------------
(* Instances of Supersede for TLC. *)
EXTENDS Supersede, TLC

MCSymmetry == Permutations(Workers)

\* Two weekdays of one week tie.
MCOrdinal == [w09 |-> 9, w10 |-> 10, w11mon |-> 11, w11tue |-> 11]

Task(id, status) ==
    [id |-> id, status |-> status, type |-> "other", repo |-> "", build |-> "", by |-> Nobody,
     born |-> 0]
UpdateGo(id, status) == [Task(id, status) EXCEPT !.type = "update-go", !.repo = "repo"]

Plain(id, title) ==
    [id |-> id, title |-> title, recurring |-> FALSE, abortPrior |-> FALSE, type |-> "other",
     repo |-> "", build |-> "", retiresTask |-> "", retiresBuild |-> ""]
Recurring(id, title) == [Plain(id, title) EXCEPT !.recurring = TRUE, !.abortPrior = TRUE]
Update(id, title)    == [Plain(id, title) EXCEPT !.type = "update-go", !.repo = "repo"]

MCCreates ==
    {Recurring("r10", <<"Swim", "w10">>), Recurring("r11", <<"Swim", "w11tue">>),
     Update("u3", <<"repo", "sha3">>), Update("u4", <<"repo", "sha3">>),
     [Plain("f2", <<"Fix", "two">>) EXCEPT !.build = "b1", !.retiresBuild = "b1"],
     [Plain("f1", <<"Fix", "one">>) EXCEPT !.build = "b1", !.retiresTask = "f2"]}

MCNames ==
    {<<"Swim", "w09">>, <<"Swim", "w11mon">>, <<"repo", "sha1">>}
    \cup {c.title : c \in MCCreates} \cup {Alt(c, c.title) : c \in MCCreates}

\* A vault with a schedule and a build-fix task, and one with a repository.
MCInitialVaults ==
    {[n \in MCNames |->
        CASE n = <<"Swim", "w09">>    -> Task("r10", "in_progress")
          [] n = <<"Swim", "w11mon">> -> Task("r11m", "in_progress")
          [] n = <<"Fix", "one">>     -> [Task("f1", "hold") EXCEPT !.build = "b1"]
          [] OTHER                    -> Missing],
     [n \in MCNames |->
        CASE n = <<"repo", "sha1">> -> UpdateGo("u1", "completed")
          [] n = <<"repo", "sha3">> -> UpdateGo("u3", "in_progress")
          [] OTHER                  -> Missing]}

\* A second schedule, whose slug starts with the first one's.
NestedCreates == {Recurring("r10", <<"Swim", "w10">>), Recurring("k10", <<"Swim", "Kids", "w09">>)}
NestedNames   == {c.title : c \in NestedCreates} \cup {Alt(c, c.title) : c \in NestedCreates}
NestedVaults  == {[n \in NestedNames |-> Missing]}
=============================================================================
