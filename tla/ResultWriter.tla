------------------------------ MODULE ResultWriter ------------------------------
(***************************************************************************)
(* The result write path around one task file: agents run from spawn-time  *)
(* snapshots and deliver results over an at-least-once topic, the command  *)
(* consumer merges each result into the file with a read-modify-write that *)
(* holds no lock (a GET, the modify closure, then POSTs of the same bytes  *)
(* until one is answered), publishes the escalation ping and the kept      *)
(* state, and commits the offset.  Meanwhile the operator edits the file   *)
(* and the executor charges spawns to it through the typed vault API.      *)
(*                                                                         *)
(* One consumer works on the file: commands of one task share a partition. *)
(***************************************************************************)
EXTENDS ResultMerge

CONSTANTS
    InitialFiles,  \* the task files to start from
    Turns,         \* values of metrics_agent_turns a run may emit
    Replies,       \* bodies a run may write by itself
    MaxPosts,      \* POST attempts of one write (5 in the git-rest client)
    MaxSpawns,     \* bound: agent runs
    MaxEdits,      \* bound: operator edits
    MaxFaults      \* bound: crashes and failed requests

\* No escalation heading stands in the body twice.
Once(b) == \A h \in Section : \A j, k \in Named(b, h) : j = k

ASSUME ResultWriterAssumption ==
    /\ InitialFiles \subseteq File
    /\ \A f \in InitialFiles : Once(f.body)
    /\ Replies \subseteq Body
    /\ Turns \subseteq Opt(Nat)
    /\ MaxPosts \in Nat \ {0}
    /\ MaxSpawns \in Nat /\ MaxEdits \in Nat /\ MaxFaults \in Nat

VARIABLES
    disk,     \* the task file
    jobs,     \* snapshots of the runs under way
    topic,    \* delivered results whose offset is not committed
    call,     \* the consumer's WriteResult call
    parks,    \* history: times the file lost its named assignee
    pings,    \* history: escalation notifications sent
    layout,   \* history: "clean" while every body merged so far was LineEnded
              \* and the file begins with a line before its first heading
    spawns, edits, faults

vars == <<disk, jobs, topic, call, parks, pings, layout, spawns, edits, faults>>

Result == [id : Nat, fm : Frontmatter, body : Body]

\* posting: the closure has run, the POST is not answered yet;
\* committed: the write is done, nothing is published; published: only the
\* offset commit is left.  kept: the kept state was republished.
Idle == [pc |-> "idle"]
Call == [pc : {"posting", "committed", "published"}, req : Result,
         base : File, out : File, posts : Nat, kept : {"no", "yes"}]

TypeOK ==
    /\ disk \in File
    /\ jobs \in SUBSET [id : Nat, file : File]
    /\ topic \in SUBSET Result
    /\ call \in Call \cup {Idle}
    /\ parks \in Nat /\ pings \in Nat /\ layout \in {"clean", "broken"}
    /\ spawns \in Nat /\ edits \in Nat /\ faults \in Nat

Init ==
    /\ disk \in InitialFiles
    /\ jobs = {} /\ topic = {}
    /\ call = Idle
    /\ parks = 0 /\ pings = 0
    /\ layout = IF LineEnded(disk.body) /\ disk.body.pre # "none" THEN "clean" ELSE "broken"
    /\ spawns = 0 /\ edits = 0 /\ faults = 0

-----------------------------------------------------------------------------
\* History, in every step that writes the file.
CountPark ==
    parks' = IF Assignee(disk.fm) # "" /\ Assignee(disk'.fm) = "" THEN parks + 1 ELSE parks

(* The other writers of the file, and the agents. *)

\* buildIncrementPatch: charge one trigger; at the cap the assignee goes, and
\* this executor does not spare a human owner.
IncrementTrigger(fm) ==
    LET charged == [HealTargetVault(fm) EXCEPT !.trigger_count = Count(fm.trigger_count) + 1] IN
    IF TriggerCapEngaged(fm) /\ charged.trigger_count >= Cap(fm.max_triggers)
    THEN ClearAssignee(charged) ELSE charged

\* writeTriggerCapEscalation: the section of a charge that reached the cap.
IncrementBody(file) ==
    IF /\ TriggerCapEngaged(file.fm)
       /\ Count(file.fm.trigger_count) + 1 >= Cap(file.fm.max_triggers)
       /\ ~Contains(file.body, "trigger_cap")
    THEN AppendSection(file.body, "trigger_cap") ELSE file.body

\* The executor hands a run the file as its TASK_CONTENT, charges the spawn and
\* stamps the job, refusing a task whose budget is spent.  The charge is a
\* command on the task's own partition, so it never lands inside a result write.
ExecutorSpawn ==
    /\ call = Idle /\ spawns < MaxSpawns
    /\ Assignee(disk.fm) \in Agents /\ disk.fm.status = "in_progress"
    /\ disk.fm.phase # "human_review"
    /\ ~TriggerCapReached(disk.fm)
    /\ jobs' = jobs \cup {[id |-> spawns, file |-> disk]}
    /\ disk' = [fm   |-> [IncrementTrigger(disk.fm) EXCEPT
                              !.current_job = "job", !.spawn_notification = "set"],
                body |-> IncrementBody(disk)]
    /\ CountPark
    /\ spawns' = spawns + 1
    /\ UNCHANGED <<topic, call, pings, layout, edits, faults>>

\* The operator edits one key, or removes it.
OperatorEdit ==
    /\ edits < MaxEdits
    /\ \/ \E a \in Opt(Agents \cup Humans \cup {""}) :
              disk' = [disk EXCEPT !.fm.assignee = a]
       \/ \E c \in Opt(Clusters) : disk' = [disk EXCEPT !.fm.cluster = c]
       \/ \E s \in Statuses : disk' = [disk EXCEPT !.fm.status = s]
       \/ disk' = [disk EXCEPT !.fm.trigger_count = Absent]
    /\ CountPark
    /\ edits' = edits + 1
    /\ UNCHANGED <<jobs, topic, call, pings, layout, spawns, faults>>

\* What a run reports on top of its snapshot: it goes on with a phase (hands
\* over to a human in human_review), gives up (the deliverer's empty-assignee
\* clear), completes, or re-routes the task by its type alone or with a
\* declaration.
GoesOn(fm)    == {[fm EXCEPT !.phase = p] : p \in Phases \cup {"human_review"}}
GivesUp(fm)   == {[fm EXCEPT !.phase = "human_review", !.assignee = ""]}
Completes(fm) == {[fm EXCEPT !.status = "completed"]}
Retypes(fm)   == {[fm EXCEPT !.task_type = t] : t \in TaskTypes}
Reassigns(fm) ==
    UNION {{[fm EXCEPT !.assignee = a, !.task_type = t, !.assignee_reassigned_by = "set"] :
                t \in TaskTypes} : a \in Agents}

Outcomes(fm) ==
    GoesOn(fm) \cup GivesUp(fm) \cup Completes(fm) \cup Retypes(fm) \cup Reassigns(fm)

\* A run ends: its result carries the snapshot, its outcome, its own turns and
\* a body of its own, or the snapshot's with the line ends it had or with CRLF.
AgentDeliver(job) ==
    \E fm \in Outcomes(job.file.fm), n \in Turns,
       b \in Replies \cup {job.file.body, WithCRLF(job.file.body)} :
        /\ topic' = topic \cup {[id |-> job.id, body |-> b,
                                 fm |-> [fm EXCEPT !.metrics_agent_turns = n]]}
        /\ jobs' = jobs \ {job}
        /\ UNCHANGED <<disk, call, parks, pings, layout, spawns, edits, faults>>

-----------------------------------------------------------------------------
(* WriteResult *)

\* GET and the modify closure; a file that does not change is not posted.
ReadAndModify(req) ==
    /\ call = Idle
    /\ LET out == ModifyFile(disk, req) IN
       call' = [pc |-> IF out = disk THEN "committed" ELSE "posting", req |-> req,
                base |-> disk, out |-> out, posts |-> 0, kept |-> "no"]
    /\ layout' = IF LineEnded(req.body) THEN layout ELSE "broken"
    /\ UNCHANGED <<disk, jobs, topic, parks, pings, spawns, edits, faults>>

\* The POST replaces the whole file.
StoreFile ==
    /\ disk' = call.out
    /\ CountPark

PostAnswered ==
    /\ call.pc = "posting"
    /\ StoreFile
    /\ call' = [call EXCEPT !.pc = "committed"]
    /\ UNCHANGED <<jobs, topic, pings, layout, spawns, edits, faults>>

\* No usable answer: the file was stored or not.  The client posts the same
\* bytes again, and after the last attempt WriteResult fails and the message
\* stays on the topic.
PostFailed ==
    /\ call.pc = "posting" /\ faults < MaxFaults
    /\ StoreFile \/ UNCHANGED <<disk, parks>>
    /\ call' = IF call.posts + 1 < MaxPosts
               THEN [call EXCEPT !.posts = @ + 1] ELSE Idle
    /\ faults' = faults + 1
    /\ UNCHANGED <<jobs, topic, pings, layout, spawns, edits>>

\* publishEscalation and publishKeptState, both after the commit and both
\* best-effort: a send that fails is logged and forgotten.
Publish ==
    /\ call.pc = "committed"
    /\ \E lostPing, lostEvent \in {0, 1} :
        /\ faults + lostPing + lostEvent <= MaxFaults
        /\ faults' = faults + lostPing + lostEvent
        /\ pings' = pings + (IF Escalated(call.base, call.out) THEN 1 - lostPing ELSE 0)
        /\ call' = [call EXCEPT !.pc = "published",
                                !.kept = IF Decisions(call.base.fm, call.req.fm) # {}
                                            /\ lostEvent = 0
                                         THEN "yes" ELSE "no"]
    /\ UNCHANGED <<disk, jobs, topic, parks, layout, spawns, edits>>

CommitOffset ==
    /\ call.pc = "published"
    /\ topic' = topic \ {call.req}
    /\ call' = Idle
    /\ UNCHANGED <<disk, jobs, parks, pings, layout, spawns, edits, faults>>

\* The process dies: the offset is not committed, the message is redelivered.
Crash ==
    /\ call # Idle /\ faults < MaxFaults
    /\ call' = Idle
    /\ faults' = faults + 1
    /\ UNCHANGED <<disk, jobs, topic, parks, pings, layout, spawns, edits>>

Consumer  == (\E r \in topic : ReadAndModify(r)) \/ PostAnswered \/ Publish \/ CommitOffset

Next ==
    \/ ExecutorSpawn
    \/ OperatorEdit
    \/ \E job \in jobs : AgentDeliver(job)
    \/ Consumer
    \/ PostFailed
    \/ Crash

Spec == Init /\ [][Next]_vars

-----------------------------------------------------------------------------
(* Properties *)

\* A step in which the git-rest client stores the file of the result write.
Storing == call.pc = "posting" /\ call' # call /\ disk' # disk

\* A store that nobody else's write slipped under since the GET.
CleanStore == Storing /\ disk = call.base

\* An escalation section stands at most once in the file, however often a
\* result is retried, redelivered or followed by another one, as long as no
\* merged body was left without a final newline or carried the heading with a
\* CRLF: the concatenation of mergeBody then hides the heading from
\* containsEscalationSection, and the section is appended again.
SectionOnce == layout = "clean" => Once(disk.body)

\* The operator is pinged at most once for each time the file really lost its
\* assignee, by this write or by an edit in its window: lost answers, retried
\* POSTs, crashes, redelivery and later results add none (writeAndPublish).
PingsFollowParks == pings <= parks

\* A result never changes the trigger budget or the cluster pin, and never
\* moves a terminal task: the ownership guard of MergeFrontmatter, through
\* whatever stale snapshot the agent was spawned from.
OwnedFieldsKept ==
    [][CleanStore =>
         /\ disk'.fm.trigger_count = disk.fm.trigger_count
         /\ disk'.fm.max_triggers = disk.fm.max_triggers
         /\ disk'.fm.cluster = disk.fm.cluster
         /\ IsTerminal(disk.fm) => disk'.fm.status = disk.fm.status]_vars

\* A live task whose trigger budget is spent leaves every result write without
\* an agent assignee and with an escalation section the next write will find,
\* whatever the merge made of the body, also when the write inherits spawn_notification (applyTriggerCap runs before the early return).
CapParksTheTask ==
    [][Storing /\ ~IsTerminal(disk'.fm) /\ TriggerCapReached(disk'.fm) =>
         /\ Assignee(disk'.fm) \in Humans \cup {""}
         /\ Contains(disk'.body, "trigger_cap")]_vars

\* A result spawned for another assignee changes neither half of the routing
\* tuple, unless it declares a reassignment (applyStaleRoutingTupleGuard);
\* escalation may still park the task.
StaleResultKeepsRouting ==
    [][CleanStore /\ StaleRouting(disk.fm, call.req.fm) =>
         /\ disk.fm.task_type # Absent => disk'.fm.task_type = disk.fm.task_type
         /\ disk'.fm.assignee \in {disk.fm.assignee, ""}]_vars

\* A human owner survives every cap and hand-over of a result; only an
\* explicit clear or a declared reassignment takes the task from a human.
HumanOwnerSurvives ==
    [][CleanStore /\ disk.fm.assignee \in Humans /\ call.req.fm.assignee # ""
         /\ ~Declares(call.req.fm)
         => disk'.fm.assignee = disk.fm.assignee]_vars

\* Once a task is parked at its cap, a late result cannot move its phase
\* (restoreExistingPhase), as long as the merges kept the section's heading
\* where containsEscalationSection finds it; see SectionOnce.
ParkedPhaseSticks ==
    [][CleanStore /\ ~IsTerminal(disk'.fm) /\ TriggerCapReached(disk.fm)
         /\ Contains(disk.body, "trigger_cap") /\ layout = "clean" /\ disk.fm.phase # Absent
         => disk'.fm.phase = disk.fm.phase]_vars

=============================================================================
