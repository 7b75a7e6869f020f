----------------------------- MODULE PlanningRetry -----------------------------
(***************************************************************************)
(* The planning-retry gate in front of the result writer: a failed         *)
(* pr-review result that meets a task in planning is answered by a retry   *)
(* write (counter bumped, fresh task_identifier) and, with the budget      *)
(* spent, by an escalation to human_review and a comment on the PR.        *)
(*                                                                         *)
(* The gate looks the file up, decides, and only then runs the             *)
(* read-modify-write, so anybody may have written the file in between.     *)
(* Results are delivered at least once, to the consumer of their           *)
(* identifier's partition; a retry moves the task to a fresh identifier    *)
(* and so perhaps to another consumer.                                     *)
(*                                                                         *)
(* The tasks are live pr-review tasks; the other keys of a file, its       *)
(* trigger budget and target_vault included, are those of ResultWriter.    *)
(*                                                                         *)
(* Identifiers are numbered as they are minted.  The file may record, as   *)
(* task_identifier_previous, a legacy identifier the scanner replaced (0), *)
(* and a run started under it may still be under way.  No write here       *)
(* touches that key, so it is a constant.                                  *)
(***************************************************************************)
EXTENDS Integers

CONSTANTS
    Absent,         \* the value of a key the frontmatter does not carry
    Previous,       \* the file's task_identifier_previous
    MaxRetries,     \* maxControllerPlanningRetries (3 in the code)
    InitialCounts,  \* values of planning_retry_count to start from
    Partitions,     \* bound: partitions of the command topic
    MaxPosts,       \* POST attempts of one write (5 in the git-rest client)
    MaxSpawns,      \* bound: agent runs
    MaxEdits,       \* bound: operator edits
    MaxFaults,      \* bound: crashes and failed requests
    MaxSeconds      \* bound: ticks of the clock the progress lines show

ASSUME PlanningRetryAssumption ==
    /\ MaxRetries \in Nat \ {0} /\ Partitions \in Nat \ {0} /\ MaxPosts \in Nat \ {0}
    /\ InitialCounts \subseteq Int \cup {Absent} /\ Absent \notin Int
    /\ Previous \in {0, Absent}
    /\ MaxSpawns \in Nat \ {0} /\ MaxEdits \in Nat /\ MaxFaults \in Nat /\ MaxSeconds \in Nat

VARIABLES
    disk,         \* the task file
    minted,       \* the identifier minted last
    jobs,         \* snapshots of the runs under way
    topic,        \* delivered results whose offset is not committed
    calls,        \* per partition, what its consumer is doing
    now,          \* the clock, in seconds
    retries,      \* history: the retries stored, and the result that caused each
    escalations,  \* history: escalation writes stored
    comments,     \* history: comments posted on the PR
    clobbered,    \* history: a store hit a file another writer had changed
    stale,        \* history: a result addressed to Previous was merged
    spawns, edits, faults

vars == <<disk, minted, jobs, topic, calls, now, retries, escalations, comments,
          clobbered, stale, spawns, edits, faults>>

Opt(S) == S \cup {Absent}
Phases == {"planning", "execution", "human_review"}
Assignees == {"agent", "human", ""}

\* A bullet of the Progress section; every failure gives the same reason.
Line == [n : Int, ts : Nat]

\* note: a line that starts with "retry 3/3:", which no write of the gate
\* leaves behind (its lines are bullets) but a person may.
File == [id : Nat, phase : Phases, count : Opt(Int), assignee : Assignees,
         lines : SUBSET Line, note : BOOLEAN]

\* failed: the content carries "Status: failed".
Result == [job : Nat, id : Nat, failed : BOOLEAN, phase : Opt(Phases),
           count : Opt(Int), assignee : Assignees, lines : Opt(SUBSET Line)]

\* gate: Handle has decided on a kind of write; write: the result goes to
\* WriteResult; posting: the closure has run; stored: the write is over.
\* first: firstEscalation.
Idle == [pc |-> "idle"]
Call == [pc : {"gate", "write", "posting", "stored"}, req : Result,
         kind : {"retry", "escalate", "result"}, count : Nat, ts : Nat,
         base : File, out : File, first : BOOLEAN, posts : Nat]

TypeOK ==
    /\ disk \in File /\ minted \in Nat /\ disk.id <= minted
    /\ jobs \in SUBSET [job : Nat, file : File]
    /\ topic \in SUBSET Result
    /\ calls \in [0 .. Partitions - 1 -> Call \cup {Idle}]
    /\ now \in 0 .. MaxSeconds
    /\ retries \in SUBSET [job : Nat, to : Nat, id : Nat, count : Int]
    /\ escalations \in Nat /\ comments \in Nat /\ clobbered \in BOOLEAN /\ stale \in BOOLEAN
    /\ spawns \in 0 .. MaxSpawns /\ edits \in 0 .. MaxEdits /\ faults \in 0 .. MaxFaults

\* A run started before the scanner replaced the identifier.
EarlyRun == [job |-> 0, file |-> [disk EXCEPT !.id = 0]]

Init ==
    /\ disk \in {[id |-> 1, phase |-> "planning", count |-> c, assignee |-> "agent",
                  lines |-> {}, note |-> FALSE] : c \in InitialCounts}
    /\ minted = 1 /\ topic = {}
    /\ jobs = IF Previous = Absent THEN {} ELSE {EarlyRun}
    /\ spawns = IF Previous = Absent THEN 0 ELSE 1
    /\ calls = [p \in 0 .. Partitions - 1 |-> Idle]
    /\ now = 0 /\ retries = {} /\ escalations = 0 /\ comments = 0 /\ clobbered = FALSE
    /\ stale = FALSE /\ edits = 0 /\ faults = 0

-----------------------------------------------------------------------------
(* What the gate computes. *)

\* lib's Int accessor: 0 without the key.
Count(v) == IF v = Absent THEN 0 ELSE v
Clamp(n) == IF n < 0 THEN 0 ELSE n

\* Variant: one retry too many.
PastCap(n) == n > MaxRetries

AtCap(n) == n >= MaxRetries

\* taskIdentifierMatch: the file's own identifier or the one it records.
Carries(file, req) == req.id \in {file.id, Previous}

\* Handle takes the result: the pre-filter on the payload, the lookup, and the
\* phase on disk.
Matches(file, req) == req.failed /\ Carries(file, req) /\ file.phase = "planning"

RetryLine(c) == [n |-> c.count + 1, ts |-> c.ts]

\* Variant: the identifier stays.
RetryInPlace(file, c) ==
    [file EXCEPT !.count = c.count + 1, !.phase = "planning",
                 !.lines = @ \cup {RetryLine(c)}]

Retry(file, c) ==
    [file EXCEPT !.count = c.count + 1, !.phase = "planning", !.id = minted + 1,
                 !.lines = @ \cup {RetryLine(c)}]

\* buildRetryModifyFn: what its own read must still show.
StillRetries(file, c) ==
    /\ Count(file.count) = c.count
    /\ file.phase = "planning"
    /\ RetryLine(c) \notin file.lines

RetryModify(file, c) == IF StillRetries(file, c) THEN Retry(file, c) ELSE file

ClearAssigneeIfHumanReview(file) ==
    IF file.phase = "human_review" /\ file.assignee # "human"
    THEN [file EXCEPT !.assignee = ""] ELSE file

\* Variant: the task is marked done, as before the gate existed.
EscalateToDone(file, c) == [file EXCEPT !.phase = "done", !.assignee = ""]

\* The line of an escalation is skipped when the note is there.
Escalate(file, c) ==
    ClearAssigneeIfHumanReview(
        [file EXCEPT !.phase = "human_review",
                     !.lines = IF file.note THEN @
                               ELSE @ \cup {[n |-> MaxRetries, ts |-> c.ts]}])

\* buildEscalationModifyFn re-checks the phase on its own read.
EscalationModify(file, c) ==
    IF file.phase = "planning" THEN Escalate(file, c) ELSE file

\* Variant: a skipped write leaves firstEscalation set.
NoteOnly(file) == ~file.note

FirstEscalation(file) == file.phase = "planning" /\ ~file.note

\* WriteResult's merge of the same keys: incoming wins, the assignee only to
\* clear it; the Progress section is replaced by one the result brings along.
Incoming(e, i) == IF i = Absent THEN e ELSE i

ResultModify(file, req) ==
    ClearAssigneeIfHumanReview(
        [file EXCEPT !.phase = Incoming(file.phase, req.phase),
                     !.count = Incoming(file.count, req.count),
                     !.assignee = IF req.assignee = "" THEN "" ELSE @,
                     !.lines = Incoming(file.lines, req.lines)])

-----------------------------------------------------------------------------
(* The executor, the agents, the operator and the clock. *)

ExecutorSpawn ==
    /\ spawns < MaxSpawns
    /\ disk.assignee = "agent" /\ disk.phase \in {"planning", "execution"}
    /\ jobs' = jobs \cup {[job |-> spawns, file |-> disk]}
    /\ spawns' = spawns + 1
    /\ UNCHANGED <<disk, minted, topic, calls, now, retries, escalations, comments,
                   clobbered, stale, edits, faults>>

\* A run fails, publishing no phase, its snapshot's, or a hand-over with the
\* empty assignee; or it goes on with a phase.  Its body shows the Progress
\* section of the snapshot or none.
AgentDeliver(job) ==
    \E o \in {[failed |-> TRUE,  phase |-> Absent,           assignee |-> job.file.assignee],
              [failed |-> TRUE,  phase |-> job.file.phase,   assignee |-> job.file.assignee],
              [failed |-> TRUE,  phase |-> "human_review",   assignee |-> ""],
              [failed |-> FALSE, phase |-> "execution",      assignee |-> job.file.assignee],
              [failed |-> FALSE, phase |-> "human_review",   assignee |-> job.file.assignee]},
       l \in {job.file.lines, Absent} :
        /\ topic' = topic \cup
              {[job |-> job.job, id |-> job.file.id, failed |-> o.failed, phase |-> o.phase,
                count |-> job.file.count, assignee |-> o.assignee, lines |-> l]}
        /\ jobs' = jobs \ {job}
        /\ UNCHANGED <<disk, minted, calls, now, retries, escalations, comments,
                       clobbered, stale, spawns, edits, faults>>

\* The operator moves the task, resets its counter (to a wrong value too),
\* takes it over, hands it back, or notes the exhausted retries.
OperatorEdit ==
    /\ edits < MaxEdits
    /\ \/ \E p \in Phases : disk' = [disk EXCEPT !.phase = p]
       \/ \E c \in InitialCounts : disk' = [disk EXCEPT !.count = c]
       \/ \E a \in {"agent", "human"} : disk' = [disk EXCEPT !.assignee = a]
       \/ disk' = [disk EXCEPT !.note = TRUE]
    /\ edits' = edits + 1
    /\ UNCHANGED <<minted, jobs, topic, calls, now, retries, escalations, comments,
                   clobbered, stale, spawns, faults>>

Tick ==
    /\ now < MaxSeconds
    /\ now' = now + 1
    /\ UNCHANGED <<disk, minted, jobs, topic, calls, retries, escalations, comments,
                   clobbered, stale, spawns, edits, faults>>

-----------------------------------------------------------------------------
(* The result executor of partition p. *)

\* Handle up to its write: the lookup's snapshot decides whether the gate takes
\* the result, and which write it makes.
Handle(p, req) ==
    /\ calls[p] = Idle /\ req.id % Partitions = p
    /\ LET count == Clamp(Count(disk.count)) IN
       calls' = [calls EXCEPT ![p] =
           [pc    |-> IF Matches(disk, req) THEN "gate" ELSE "write",
            kind  |-> IF ~Matches(disk, req) THEN "result"
                      ELSE IF AtCap(count) THEN "escalate" ELSE "retry",
            req |-> req, count |-> count, ts |-> now,
            base |-> disk, out |-> disk, first |-> FALSE, posts |-> 0]]
    /\ UNCHANGED <<disk, minted, jobs, topic, now, retries, escalations, comments,
                   clobbered, stale, spawns, edits, faults>>

\* GET and closure; a file that does not change is not posted.
Modify(p, out, first) ==
    calls' = [calls EXCEPT ![p].pc = IF out = disk THEN "stored" ELSE "posting",
                           ![p].base = disk, ![p].out = out, ![p].first = first]

GateRetry(p) ==
    /\ calls[p].pc = "gate" /\ calls[p].kind = "retry"
    /\ LET out == RetryModify(disk, calls[p]) IN
       /\ Modify(p, out, FALSE)
       /\ minted' = IF out.id > minted THEN out.id ELSE minted
    /\ UNCHANGED <<disk, jobs, topic, now, retries, escalations, comments,
                   clobbered, stale, spawns, edits, faults>>

GateEscalate(p) ==
    /\ calls[p].pc = "gate" /\ calls[p].kind = "escalate"
    /\ Modify(p, EscalationModify(disk, calls[p]), FirstEscalation(disk))
    /\ UNCHANGED <<disk, minted, jobs, topic, now, retries, escalations, comments,
                   clobbered, stale, spawns, edits, faults>>

\* WriteResult looks the file up again and drops a result nobody carries.
WriteResult(p) ==
    /\ calls[p].pc = "write"
    /\ Modify(p, IF Carries(disk, calls[p].req) THEN ResultModify(disk, calls[p].req)
                 ELSE disk, FALSE)
    /\ stale' = (stale \/ calls[p].req.id = Previous)
    /\ UNCHANGED <<disk, minted, jobs, topic, now, retries, escalations, comments,
                   clobbered, spawns, edits, faults>>

\* The POST replaces the whole file.
Store(c) ==
    /\ disk' = c.out
    /\ clobbered' = (clobbered \/ disk \notin {c.base, c.out})
    /\ retries' = IF c.kind = "retry"
                  THEN retries \cup {[job |-> c.req.job, to |-> c.req.id,
                                  id |-> c.out.id, count |-> c.out.count]}
                  ELSE retries
    /\ escalations' = escalations + (IF c.kind = "escalate" THEN 1 ELSE 0)

PostAnswered(p) ==
    /\ calls[p].pc = "posting"
    /\ Store(calls[p])
    /\ calls' = [calls EXCEPT ![p].pc = "stored"]
    /\ UNCHANGED <<minted, jobs, topic, now, comments, stale, spawns, edits, faults>>

\* No usable answer: stored or not.  The same bytes are posted again; after the
\* last attempt the command fails and its message stays.
PostFailed(p) ==
    /\ calls[p].pc = "posting" /\ faults < MaxFaults
    /\ Store(calls[p]) \/ UNCHANGED <<disk, clobbered, retries, escalations>>
    /\ LET c == calls[p] IN
       calls' = [calls EXCEPT ![p] = IF c.posts + 1 < MaxPosts
                                     THEN [c EXCEPT !.posts = @ + 1] ELSE Idle]
    /\ faults' = faults + 1
    /\ UNCHANGED <<minted, jobs, topic, now, comments, stale, spawns, edits>>

\* The comment is best-effort: a failure is logged.
PostComment(p) ==
    /\ calls[p].pc = "stored" /\ calls[p].first
    /\ calls' = [calls EXCEPT ![p].first = FALSE]
    /\ \/ comments' = comments + 1 /\ UNCHANGED faults
       \/ faults < MaxFaults /\ faults' = faults + 1 /\ UNCHANGED comments
    /\ UNCHANGED <<disk, minted, jobs, topic, now, retries, escalations,
                   clobbered, stale, spawns, edits>>

CommitOffset(p) ==
    /\ calls[p].pc = "stored" /\ ~calls[p].first
    /\ topic' = topic \ {calls[p].req}
    /\ calls' = [calls EXCEPT ![p] = Idle]
    /\ UNCHANGED <<disk, minted, jobs, now, retries, escalations, comments,
                   clobbered, stale, spawns, edits, faults>>

\* The process dies with all its consumers; their messages are redelivered.
Crash ==
    /\ faults < MaxFaults /\ \E p \in DOMAIN calls : calls[p] # Idle
    /\ calls' = [p \in DOMAIN calls |-> Idle]
    /\ faults' = faults + 1
    /\ UNCHANGED <<disk, minted, jobs, topic, now, retries, escalations, comments,
                   clobbered, stale, spawns, edits>>

Consumer(p) ==
    \/ \E req \in topic : Handle(p, req)
    \/ GateRetry(p) \/ GateEscalate(p) \/ WriteResult(p)
    \/ PostAnswered(p) \/ PostFailed(p) \/ PostComment(p) \/ CommitOffset(p)

Next ==
    \/ ExecutorSpawn
    \/ \E job \in jobs : AgentDeliver(job)
    \/ OperatorEdit
    \/ Tick
    \/ \E p \in DOMAIN calls : Consumer(p)
    \/ Crash

Spec == Init /\ [][Next]_vars

-----------------------------------------------------------------------------
(* Properties *)

\* A failed result addressed to the file's own identifier buys at most one
\* retry, however often it is redelivered and wherever its first delivery was
\* cut off: the fresh identifier the retry write stores fences it.  Unless a
\* writer in a race restored an old file.  A failure addressed to the replaced
\* identifier is not fenced: the file goes on recording that identifier.
OneRetryPerFailure ==
    ~clobbered =>
        \A r, s \in {t \in retries : t.to # Previous} : r.job = s.job => r = s

\* The retries of a task are numbered from 1 to MaxRetries, each number used
\* once, across crashes, redelivery, the change of consumer that comes with a
\* fresh identifier, and failures addressed to a replaced identifier.  Only an
\* operator who edits the file reopens the budget, or a result addressed to the
\* replaced identifier that is merged and brings its old counter back.
RetryBudget ==
    /\ \A r \in retries : r.count \in 1 .. MaxRetries
    /\ edits = 0 /\ ~clobbered /\ ~stale =>
         \A r, s \in retries : r.count = s.count => r = s

\* The PR is told of stored escalations only: a write the closure skipped, or
\* one cut off by a crash and redelivered, posts no comment of its own.
CommentsFollowEscalations == comments <= escalations

=============================================================================
