------------------------------ MODULE RedriveSweep ------------------------------
(***************************************************************************)
(* The re-drive sweep: on every tick it lists and reads the task files and *)
(* publishes TaskUpdated again for each task an executor should be working *)
(* on and is not, unless it did so less than an interval ago.  What was    *)
(* published is only remembered in memory.  Pull, list, reads, publishing  *)
(* and the process may fail; events may be lost by those who take them.    *)
(*                                                                         *)
(* Time is discrete and passes at any speed between two steps of a sweep,  *)
(* so a pull may take longer than the interval.  An instant is kept as its *)
(* age, and an age stops growing at the interval: the code only asks       *)
(* whether it is over.                                                     *)
(***************************************************************************)
EXTENDS Integers

CONSTANTS
    Tasks,      \* identifiers of the tasks in the directory
    Records,    \* what an operator makes of a task's frontmatter
    NoTask,
    Never,      \* there is no entry in the published map
    Interval,   \* REDRIVE_INTERVAL, and the backoff
    MaxFaults,  \* bound: failures, restarts and lost events
    MaxEdits    \* bound: edits and ended jobs

VARIABLES
    task,       \* the files
    remaining,  \* time until the ticker fires
    tick,       \* the ticker's channel holds a tick
    sweep,      \* "idle", "pull", "scan" or "publish"
    todo,       \* the files the sweep has still to read
    target,     \* the task it is about to publish
    since,      \* age of the instant the sweep calls now
    published,  \* age of the instant an event of the task was recorded with
    queued,     \* tasks with an event the executor has not taken
    gap,        \* history: age of now of the sweep that last published the task
    spaced,     \* history: that sweep is an interval away from the present one
    early,      \* history: tasks published twice within an interval
    faults,
    edits

memory  == <<sweep, todo, target, since, published, spaced>>
history == <<gap, early>>
vars    == <<task, remaining, tick, memory, queued, history, faults, edits>>

Phases == {"todo", "planning", "execution", "ai_review", "human_review", "done"}
redriveTriggerPhases == {"planning", "execution", "ai_review"}
Record ==
    [status : {"in_progress", "hold", "completed", "aborted"}, phase : Phases \cup {"none"},
     assignee : STRING, stage : STRING, current_job : {"", "job"}]
Age == 0 .. Interval

ASSUME RedriveAssumption ==
    /\ Interval \in Nat \ {0} /\ MaxFaults \in Nat /\ MaxEdits \in Nat
    /\ Records \subseteq Record /\ NoTask \notin Tasks /\ Never \notin Nat

TypeOK ==
    /\ task \in [Tasks -> Record]
    /\ remaining \in 1 .. Interval /\ tick \in BOOLEAN
    /\ sweep \in {"idle", "pull", "scan", "publish"} /\ todo \subseteq Tasks
    /\ IF sweep = "publish" THEN target \in Tasks ELSE target = NoTask
    /\ since \in Age /\ published \in [Tasks -> Age \cup {Never}]
    /\ gap \in [Tasks -> Age] /\ spaced \in [Tasks -> BOOLEAN]
    /\ queued \subseteq Tasks /\ early \subseteq Tasks
    /\ faults \in 0 .. MaxFaults /\ edits \in 0 .. MaxEdits

Forgotten == [t \in Tasks |-> Never]

Init ==
    /\ task \in [Tasks -> Records]
    /\ remaining = Interval /\ tick = FALSE
    /\ sweep = "idle" /\ todo = {} /\ target = NoTask /\ since = 0
    /\ published = Forgotten /\ queued = {}
    /\ gap = [t \in Tasks |-> Interval] /\ spaced = [t \in Tasks |-> TRUE]
    /\ early = {} /\ faults = 0 /\ edits = 0

\* The executor's spawn filter, and no job.  "prod" is the controller's branch.
Eligible(r) ==
    /\ r.status = "in_progress" /\ r.phase \in redriveTriggerPhases
    /\ r.assignee # "" /\ r.stage = "prod" /\ r.current_job = ""

-----------------------------------------------------------------------------
(* The clock. *)

Older(age) == IF age = Never \/ age = Interval THEN age ELSE age + 1

\* The ticker's channel holds one tick: a slow reader misses the others.
TimePasses ==
    /\ remaining' = IF remaining = 1 THEN Interval ELSE remaining - 1
    /\ tick' = (tick \/ remaining = 1)
    /\ since' = Older(since)
    /\ published' = [t \in Tasks |-> Older(published[t])]
    /\ gap' = [t \in Tasks |-> Older(gap[t])]
    /\ UNCHANGED <<task, sweep, todo, target, spaced, queued, early, faults, edits>>

-----------------------------------------------------------------------------
(* SweepOnce. *)

Fault == faults < MaxFaults /\ faults' = faults + 1

SweepStart ==
    /\ sweep = "idle" /\ tick
    /\ tick' = FALSE /\ sweep' = "pull"
    /\ UNCHANGED <<task, remaining, todo, target, since, published, spaced, queued, history,
                   faults, edits>>

\* The pull or the listing fails; the loop logs it and waits for the next tick.
SweepFails ==
    /\ sweep = "pull" /\ Fault
    /\ sweep' = "idle"
    /\ UNCHANGED <<task, remaining, tick, todo, target, since, published, spaced, queued,
                   history, edits>>

\* Variant: entries are never deleted.
KeepAll == published

Pruned == [t \in Tasks |-> IF published[t] = Interval THEN Never ELSE published[t]]

\* The files are listed and the sweep looks at the clock.
SweepNow ==
    /\ sweep = "pull"
    /\ sweep' = "scan" /\ todo' = Tasks /\ since' = 0
    /\ published' = Pruned
    /\ spaced' = [t \in Tasks |-> gap[t] = Interval]
    /\ UNCHANGED <<task, remaining, tick, target, queued, history, faults, edits>>

\* An entry that survived the pruning is younger than the backoff, measured
\* from the same now.
Suppressed(t) == published[t] # Never

\* The next file is read; from then on the sweep works with what it has read.
SweepRead(t) ==
    /\ sweep = "scan" /\ t \in todo
    /\ todo' = todo \ {t}
    /\ IF Eligible(task[t]) /\ ~Suppressed(t)
       THEN sweep' = "publish" /\ target' = t
       ELSE UNCHANGED <<sweep, target>>
    /\ UNCHANGED <<task, remaining, tick, since, published, spaced, queued, history, faults,
                   edits>>

SweepReadFails(t) ==
    /\ sweep = "scan" /\ t \in todo /\ Fault
    /\ todo' = todo \ {t}
    /\ UNCHANGED <<task, remaining, tick, sweep, target, since, published, spaced, queued,
                   history, edits>>

\* Variants: nothing is recorded; the sweep keeps its task.
NotRecorded(t) == published
SameTarget == target

Recorded(t) == [published EXCEPT ![t] = since]
NextTarget == NoTask

SweepPublish ==
    /\ sweep = "publish"
    /\ sweep' = "scan" /\ target' = NextTarget
    /\ published' = Recorded(target)
    /\ queued' = queued \cup {target}
    /\ early' = IF spaced[target] THEN early ELSE early \cup {target}
    /\ gap' = [gap EXCEPT ![target] = since]
    /\ spaced' = [spaced EXCEPT ![target] = FALSE]
    /\ UNCHANGED <<task, remaining, tick, todo, since, faults, edits>>

\* Nothing is recorded, so the next sweep tries again.
SweepPublishFails ==
    /\ sweep = "publish" /\ Fault
    /\ sweep' = "scan" /\ target' = NoTask
    /\ UNCHANGED <<task, remaining, tick, todo, since, published, spaced, queued, history, edits>>

SweepDone ==
    /\ sweep = "scan" /\ todo = {}
    /\ sweep' = "idle"
    /\ UNCHANGED <<task, remaining, tick, todo, target, since, published, spaced, queued,
                   history, faults, edits>>

\* The process restarts: the map is gone and the ticker starts over.
Crash ==
    /\ Fault
    /\ remaining' = Interval /\ tick' = FALSE
    /\ sweep' = "idle" /\ todo' = {} /\ target' = NoTask /\ since' = 0
    /\ published' = Forgotten
    /\ UNCHANGED <<task, spaced, queued, history, edits>>

-----------------------------------------------------------------------------
(* The executor and the operator. *)

\* The executor looks at the task and spawns unless a job is active.
ExecutorSpawns(t) ==
    /\ t \in queued
    /\ queued' = queued \ {t}
    /\ task' = [task EXCEPT ![t].current_job = IF Eligible(task[t]) THEN "job" ELSE @]
    /\ UNCHANGED <<remaining, tick, memory, history, faults, edits>>

\* It is down, is over its concurrency limit, or refuses the task.
ExecutorMisses(t) ==
    /\ t \in queued /\ Fault
    /\ queued' = queued \ {t}
    /\ UNCHANGED <<task, remaining, tick, memory, history, edits>>

\* A job ends without a result, or an operator edits the task.
TaskChanges(t) ==
    /\ edits < MaxEdits /\ edits' = edits + 1
    /\ \/ task[t].current_job # "" /\ task' = [task EXCEPT ![t].current_job = ""]
       \/ \E r \in Records : r # task[t] /\ task' = [task EXCEPT ![t] = r]
    /\ UNCHANGED <<remaining, tick, memory, queued, history, faults>>

Sweep ==
    \/ SweepStart \/ SweepNow \/ SweepPublish \/ SweepDone
    \/ \E t \in Tasks : SweepRead(t)

Next ==
    \/ TimePasses \/ Sweep \/ SweepFails \/ SweepPublishFails \/ Crash
    \/ \E t \in Tasks : SweepReadFails(t) \/ ExecutorSpawns(t) \/ ExecutorMisses(t)
                        \/ TaskChanges(t)

\* Time passes, the loop of Run goes on, and the executor takes its events.
Spec ==
    /\ Init /\ [][Next]_vars
    /\ WF_vars(TimePasses) /\ WF_vars(Sweep)
    /\ \A t \in Tasks : WF_vars(ExecutorSpawns(t))

-----------------------------------------------------------------------------
(* Properties. *)

\* A task that cannot spawn is published at most once per interval, measured
\* between the instants the two sweeps call now, though the ticks that start
\* them may lie closer after a slow pull, and across restarts, though the map
\* is lost (NewRedriveSweep, SweepOnce).
EventsSpaced == early = {}

\* A task that stays eligible is not stranded: events that were lost or could
\* not be published, failed sweeps and restarts included, it gets its job
\* unless somebody takes it out of the executor's reach (RedriveSweep).
NotStranded == \A t \in Tasks : Eligible(task[t]) ~> ~Eligible(task[t])

=============================================================================
