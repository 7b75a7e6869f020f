# Formal model of agent-task-controller

TLA+ modules for the parts of the controller that carry its own logic: what a
result write may do to a task file, who is told about an escalation, how a task
is found by its identifier, how vault changes become events, how a failed
planning run is retried, how commands are consumed and executed, how a create
retires earlier tasks, and how stranded tasks are driven again. TLC checks every
module on a small instance; TLAPS proves the safety of all of them for every
value of the constants.

`PROJECT.json` holds the machine-readable side: the components, the runs, a
mutation for each checked property, the source lines of every definition, the
divergences between documents and code, the hazards, and the theorems.

## 1. The system

One controller process serves one vault (a git repository of markdown task
files reached through git-rest and the typed vault API) and one pair of Kafka
topics (commands in, task events out).

| Component | State it keeps | Operations |
|---|---|---|
| result writer (`pkg/result`) | nothing but the vault; the coalescing map of escalation pings, in memory | find the file of a result, merge it into the file, apply caps and hand-over rules, write, announce |
| identifier index (`pkg/scanner`, read by `pkg/result` and `pkg/command`) | identifier → paths, under a read-write mutex | rebuild from a scan or from the boot pass, `Resolve`, `Record`, `RecordDuplicate` |
| vault scanner (`pkg/scanner`) | `hashes`: path → hash, identifier, assignee, phase | one cycle per tick or trigger: list, prune, repair identifiers, reset counters, report changes, sweep capped idle tasks, send the result |
| sync loop, event publisher (`pkg/sync`, `pkg/publisher`) | one-slot results channel | publish the changed tasks, then the deleted identifiers; an error ends the process |
| planning-retry gate (`pkg/command/planning_retry.go`) | `planning_retry_count` on disk | retry with a fresh identifier, escalate to human_review and comment on the PR, or pass on |
| create-task executor (`pkg/command`) | the index | reuse the title of a known file, create, create under a disambiguated title, record the path, supersede earlier instances |
| update-, increment-, complete-task executors (`pkg/command`) | nothing but the vault | read the task, patch named frontmatter fields, re-read and replace the body, in two requests |
| supersede hooks (`pkg/command`) | nothing but the vault | after a create: list, read and abort the build-fix, recurring and update-go tasks it replaces |
| redrive sweep (`pkg/redrive`) | when each task was last published, in memory | on each tick: list and read every task, publish the eligible ones again |
| command consumer (`pkg/factory`) | the stored offset of each partition | start from the offset or the clock, drop expired commands, run the executors of a batch, store the offset, reconnect |
| git-rest client (`pkg/gitrestclient`) | none | GET, POST with retries of the same bytes, read-modify-write without a lock |

Interactions. The scanner, the sync loop, the consumer of each partition, the
redrive sweep and the HTTP server are goroutines of one process; the index and
the results channel are what they share in memory, and the vault is what they
share with people, the executor and other controllers. There is no lock on a
task file: every write is a GET, a pure closure and an unconditional POST.

What is hard to test: the windows between GET and POST; redelivery after a
crash or a lost answer, before the offset commit; results built from a
spawn-time snapshot that is old when it arrives; an index that is as old as the
last scan; bookkeeping that records a file as seen although its report was
dropped; several paths that clear, restore and re-park the assignee of one
task; the window between the two requests of a typed command; hooks that run
out of order, half, or not at all; a backoff as long as the interval of the tick
it is measured against. `PROJECT.json` lists each of these at its line.

What makes each component correct:

- result writer: a result never changes what it does not own; a task at its cap
  loses its agent; a person's task stays theirs; the operator is told once;
- escalation window: one notification per PR and window, and none swallowed
  without one;
- lookup: a result reaches the file of its task or is dropped with reason;
- create: a redelivered or renamed create makes no second file, and an answered
  one hides its file only behind a read that failed;
- scanner and sync loop: no two files under one identifier, and the topic's
  latest event of a settled task is its file;
- planning retry: one retry per failure of the current identifier, a bounded
  number in all, and no comment without an escalation;
- command consumer: a command begins before it expires and after those published
  before it, or is dropped expired; none is forgotten, and a live one is passed
  over only where the code accepts it;
- typed commands: the record of an escalation is written before the assignee
  goes, a Resolution only after the close, and no cap is left with an agent;
- supersede hooks: `superseded_by` leads to a task that nothing superseded
  unless creates overlapped, finished work stays finished, and closed files do
  not starve the look-back;
- redrive: not twice within an interval, and not never.

## 2. Modules

```
TaskFrontmatter  keys of a task file and the rules on one file
TaskBody         splitBody, mergeBody, the search for an escalation heading
   |
ResultMerge      MergeFrontmatter, the caps: one write as an operator
   |
ResultWriter     the write path: spawn, deliver, GET, POST, publish, commit, crash
   |                                     MCResultWriter, ResultWriterProofs

EscalationCoalescing   publishEscalation    EscalationCoalescingProofs

VaultScanner     one scan cycle, a step per request
   |
SyncLoop         channel, sync loop, events, and everyone who edits the vault
                                         MCSyncLoop, SyncLoopProofs

TaskIndex        index, lookup and create executor
                                         MCTaskIndex, TaskIndexProofs
PlanningRetry    the gate in front of the result writer
                                         MCPlanningRetry, PlanningRetryProofs

CommandLog       what the publisher of a command may rely on (abstract)
   ^  implements
CommandConsumer  one partition: offset, batch, filter, handler, retry loop
   |
TypedCommands    its executors for update, increment, complete, over the rules
                 of TaskFrontmatter      MCTypedCommands, TypedCommandsProofs
                                         (the consumer's proofs are there too)

Supersede        create executor and its three hooks
                                         MCSupersede, SupersedeProofs
RedriveSweep     ticker, sweep, backoff, executor
                                         MCRedriveSweep, RedriveSweepProofs
```

**TaskFrontmatter, ResultMerge.** A frontmatter is a record with one field for
each key the code tells apart; `Absent` is a missing key, which differs from an
empty or zero value throughout. Keys that follow the rule of another key are
represented by it (one accumulated metric, one operator-pinned key, one
controller-owned counter beside its cap). `ModifyFile` is the whole closure of
`buildResultModifyFn`, in its order.

**TaskBody.** The code treats a body as text: it splits it at lines that start
with `## `, concatenates pieces of two bodies, and searches for an escalation
heading between two newlines. The model keeps what decides the outcome: the
sections in their order, whether a heading's line ends with a newline or with
CRLF, whether there is anything before the first heading, and whether the last
line is terminated. `MergeBody` concatenates as the code does, so a heading that
follows an unterminated text is glued to its line and is a heading no longer (a
gap), and `Contains` finds only what `containsEscalationSection` finds. The words
of a section are left out, and so is a body whose last line is a bare heading.
In `ResultWriter` an agent reports its snapshot's body, the same body with CRLF
line ends, or one of `Replies`; the history `layout` records whether every body
so far was terminated and free of CRLF escalation headings and the file began
with something before its first heading. Where a property needs that, it says so.

**ResultWriter.** `ReadAndModify` is the GET and the closure, `PostAnswered` and
`PostFailed` are the attempts of the POST (the store may happen although the
answer is lost; the bytes of a retry are those of the first attempt), `Publish`
sends the ping and the kept state, `CommitOffset` ends the command, `Crash`
loses the call and keeps the command. `ExecutorSpawn` charges a trigger and
hands the agent a snapshot; `AgentDeliver` puts a result built from that
snapshot on the topic; `OperatorEdit` changes the file at any time.

**EscalationCoalescing.** The clock is read before the lock is taken
(`Escalate`), then pruning, check and claim are one step (`Claim`, `Suppress`),
then the send is accepted or rejected; a rejected send releases its slot. The
time from the clock read to the end of the send is at most `CallBound`, which is
less than the window (seconds against 30 minutes in the code). The pattern that
takes the key from a task name is a set of keys and `NoKey`.

**VaultScanner, SyncLoop.** A cycle's listing, each file's read and decision,
the two requests of a reset, the two of a sweep and the send are steps of their
own, so people, the executor and the agents edit, rename, create and delete
files between any two of them. The content of a file stands for its hash. The
results channel has one slot and a full one drops the report, as the
non-blocking send does. A POST that returns an error may have been stored
(`PostLost`); the scanner cannot tell, and its entry stays as it was. `view` is
the latest event of each identifier on the topic. The executor's
`restoreParkedAssignee` is external and modelled from what this code says of
it.

**TaskIndex.** A file is its identifier, the identifier a repair replaced, and
whether it may be overwritten. Every access to the index and every read of a
file is a step. The scanner publishes an index from its bookkeeping, or in
trigger-only mode from the boot pass. The vault API's answer to a create is
external: free or reopenable paths are written, others are a conflict, and an
error may come back although the file was stored (`PostFails`).

**PlanningRetry.** The gate's lookup and decision (`Handle`), the closure's own
read and re-check (`Modify`), the POST, the comment and the offset commit are
steps; a retry mints an identifier, which may belong to another partition, so
two consumers can be busy with one file. `Previous` is the identifier the file
had before a repair: lookups match it too, the retry write leaves it in place,
and a run spawned under it (`EarlyRun`) may still report. A result the gate
passes on takes the same steps through the merge of the keys the gate looks at.

In `ResultWriter` and `PlanningRetry` a command whose write failed stays on the
topic and may be delivered again. The consumer skips the errors of executors,
so this is more than the code does; it does happen when the session ends before
the offset is stored, and what holds with it holds without.

**CommandLog, CommandConsumer.** `CommandLog` has one outcome per command:
pending, started, executed or dropped, and no offsets, batches or sessions.
`CommandConsumer` has the stored offset, which a lost volume may take along,
the seek by time where there is none (`StartOffset`), the batch, the expiry
filter in front of it and the second look of the batch handler (`Discard`), the
offset behind the batch, and sessions that end at any step. Time is two sets
that need not agree: the commands that are older than the expiry by their own
request time, and the prefix of the log that is older by the broker's
timestamps. A producer's clock may run ahead or behind, so the seek may pass
over a live command; the comment at `command_consumer.go:75` accepts that, and
`CommandLog` has it as a step of its own (`PassOver`), possible only without a
stored offset. The refinement mapping (`Fate`) reads the outcome of a command
off the histories of what was begun, executed and dropped; a command delivered
again after it was executed stays executed.

**TypedCommands.** It extends the consumer: `BeginCommand` and `ReturnCommand`
are the consumer's `Begin` and `Return` with an executor between them. The three
executors share their shape, read, PATCH, re-read and PUT, and differ in what
they compute (`UpdatePatch`, `IncrementPatch`, `CompletePatch`, `MergedBody`) and
in the order of their writes (`BodyFirst`). A request may fail before or after
it was stored, the task may be deleted between two of them, and a session that
ends takes the executor along. The body keeps whose name an escalation reports,
how many Resolutions there are, and the operator's notes.

**Supersede.** A file name is the sequence of its parts, so that splitting a
title at its last separator and comparing prefixes mean what they mean in the
code. Each partition has a worker, and the creates of different tasks overlap at
every step; those of one task are in one partition. A create chooses its title
from one look at the vault (`Start`), posts it (`Post`, `PostAlt`), possibly
without an answer (`PostFails`), and runs the hooks in the code's order: listing,
one read at a time, the abort as a step of its own. A file that another worker
stores, or the operator edits, between any two of these steps is what the next
step finds. `Ordinal` stands for `parsePeriodTokenOrdinal`. Two histories are
there for the properties: `born` numbers the files in the order they were stored,
and `late` marks a file that gave way to one that is not younger.

**RedriveSweep.** An instant is kept as its age, which stops growing at the
interval: the code only compares ages with it. The clock runs between any two
steps, so a pull may outlast the next tick. The executor is external: it looks
at the task again and spawns, or misses the event.

## 3. Runs

The runs other than `redrive` let the system stop (`CHECK_DEADLOCK FALSE`):
edits, commands and faults are bounded, so every behaviour ends, and an idle
controller is a legal state. In `redrive` the clock always runs and deadlock is
checked.

Fairness is assumed where the code justifies it, and only of the controller's
own steps. `ConsumerSpec` and `TypedCommands.Spec`: the consumer goes on
(`WF` of its next step), because `RetryConsumer` re-enters after every error and
each request of an executor ends within the 30 seconds of `requestTimeout`.
`RedriveSweep.Spec`: time passes, the loop of `Run` goes on after every failed
sweep, and the executor takes its events. No fairness is assumed of publishers,
operators or faults; the faults are bounded, so "eventually" means after the
last of them.

| Run | Instance | What it shows |
|---|---|---|
| `result_writer` | two runs of agents, one edit, one fault, a fresh task with a cap of 2 and a legacy task with its retry budget spent; reports that repeat the snapshot's body, with and without CRLF, or end inside a line | ownership of every key class on each clean store, escalation sections at most once while all bodies are tidy, at most one ping for each time the file loses its assignee, caps always take the agent away, stale results leave the routing tuple, human owners survive, a parked phase stays |
| `escalation_coalescing` | two consumers, two keys, window 3, calls up to 1, six ticks, five escalations | notifications of one key are spaced; a suppressed escalation has a notification sent or being sent |
| `sync_loop` | two paths, one supplied and one minted identifier, three edits, one fault | unique identifiers in the bookkeeping; settled tasks are published; one reset per re-delegation and one more for each that was stored without an answer; a rescued task stays rescued |
| `task_index` | two paths, two UUIDs and a legacy identifier, two commands, one edit, one fault, two attempts | verified lookups, justified drops, discovered duplicates kept, creates that reuse a file and hide theirs only behind a failed read |
| `planning_retry` | two retries, two partitions, a run spawned before the identifier was repaired and one after, one edit, one fault, counters absent and negative | one retry per failure of the current identifier, a bounded budget, comments only for stored escalations |
| `command_consumer` | three commands, batches of two, any of them expiring by its own time or by the broker's, two sessions that end, with and without a stored offset | `CommandConsumer` implements `CommandLog`, its liveness included |
| `typed_commands` | two of seven commands on a legacy task one trigger below its cap, one expiry, one lost session, one failed request, one edit | parked tasks have their record, no agent at the cap, one Resolution and only after the close, edits seen by the re-read survive, found caps are kept |
| `redrive` | two tasks, interval 3, two faults, one edit | events of a task are an interval apart; a task that stays eligible gets its job |
| `supersede` | two workers with two of six creates over a vault with a schedule and a build fix or one with a repository, look-back 1, one fault, one edit | back-pointers lead on unless a create aborted a file younger than its own, completed work is not aborted unless it was completed in the window, an undisturbed hook closes what it owes |

Why the bounds suffice. Two agent runs are the least at which one result is
stale against another; a third repeats a pair. One fault with two POST attempts
reaches the lost answer, the failed write, the crash before and after each step
and the redelivery. A cap of two triggers lets a task be charged below, at and
past its cap. One window and a half of ticks lets a claim expire while another
call is under way. Two paths reach copies, renames and collisions; three edits
reach rename-then-edit and delegate-clear-delegate. Two retries of the gate
reach first retry, last retry and escalation. Three commands in batches of two
give a full batch, a partial one and an offset between them; two ended sessions
give a redelivery of a redelivery. Two typed commands reach each pair of kinds,
the first one cut off and delivered again before the second. An interval of 3
lets a sweep start before, at and after its tick's successor. Two creates
reach every overlap of a pair, the late create of an earlier period and, over a
file of the initial vault, a chain of two back-pointers; a look-back of 1 makes
one closed file enough to starve a hook. In `sync_loop` the two paths are
interchangeable, in `supersede` the two workers, which is the symmetry their
configurations use.

Each property of a passing run has a mutation of a mapped definition, in the
module beside it under "Variant", that breaks it: a dropped re-check, an
off-by-one at the cap, a missing release, an index entry overwritten.

### Divergences between documents and code

Three runs state what a document says and show the code doing otherwise;
`findings` in `PROJECT.json` quotes both sides.

| Run | Statement | What the run shows |
|---|---|---|
| `rename_deletes` | `Deleted` holds identifiers that are gone | a rename reports one identifier as changed and deleted, and the delete is published last |
| `self_heals` | the command is redelivered, so the window between its two requests heals itself | the second request fails, the error is skipped inside the batch, and the offset moves on |
| `foreign_schedule` | the candidates are the files of the same slug | the create for schedule "Swim" aborts an instance of schedule "Swim - Kids" |

Others were met while modelling and have no run of their own:

- an operator who ends a task between the GET and the POST of a result write
  finds it revived by the POST (`git_client_adapter.go:207`), although
  `controller-design.md:117` says no result payload revives a terminal status;
  without the race it holds and is proved (`OwnedFieldsKept`);
- a reassignment declaration that is not honoured stays on the task
  (`result_writer.go:1440`), although the comment at 1249 says it never does;
- a result delivered again adds its metrics again (`result_writer.go:1520`),
  although `controller-design.md:98` calls the total the sum over the runs;
- an escalation suppressed behind a send that then fails is never announced
  (`result_writer.go:277`), although `controller-design.md:193` measures the
  window from the last published ping;
- an escalation section is appended again when its heading is there and is not
  found, although `controller-design.md:100` says escalation sections "append
  exactly once" and that CRLF is tolerated: `mergeBody` glues a heading to a
  report that does not end with a newline, a report with CRLF line ends replaces
  the heading's line by one that `containsEscalationSection`
  (`result_writer.go:1046`) does not match, and neither does a heading at the very
  start of a body. The same miss skips `restoreExistingPhase`, so a late result
  moves the phase of the parked task. Without `layout` in them TLC refutes
  `SectionOnce` and `ParkedPhaseSticks`;
- a reset that was stored although its POST returned an error leaves the entry
  with the empty assignee (`vault_scanner.go:664`), and the next cycle resets
  again, although `controller-design.md:199` says the reset "fires exactly once
  per empty-to-named transition". `ResetOncePerRedelegation` counts these;
- a failed read of the path the index knows keeps that path
  (`task_create_task_executor.go:434`), and the new file stays hidden until the
  next rebuild; the code accepts this, and so does `CreatedFileIsVisible`. A
  create whose answer is lost is not recorded at all;
- the fresh identifier of a retry does not fence a failed result that is
  addressed to `task_identifier_previous`: the file goes on naming it
  (`planning_retry.go:266` replaces `task_identifier` only), so each redelivery
  finds the file and buys another retry, within the budget. When such a result is
  merged instead, it brings the counter of its snapshot back;
- two creates that overlap may abort each other's files, and `superseded_by` then
  is a circle of two: the code lists after it has stored and asks nobody. And the
  recurring hook, which leaves the command's title out and not its own path
  (`task_create_task_executor.go:544`), aborts its own file when the create reused
  the title of a file that was deleted before the POST. `late` marks both;
- the sweep's sentinel entry has no phase, so the rescue it should get published
  is not (`capped_idle.go:124`);
- `closeTask` documents the expiry as the bound of its recovery
  (`task_complete_task_executor.go:114`); the skipped error ends it earlier;
- a batch delivered again reports its expired commands again, although
  `command_consumer.go:50` says each is seen exactly once.

## 4. Proofs

The theorems hold for any sets of agents, humans, phases, paths, identifiers,
tasks, commands and keys, any caps, budgets, look-backs and intervals, and any
bounds on faults, edits and steps. They rest on the named assumptions of the
modules, which TLC evaluates in every run. Most say that the constants have their
types. The others are:

| Assumption | What it says beyond types | Why the code justifies it |
|---|---|---|
| `ValuesAssumption`, `ResultWriterAssumption` | owners of different kinds are disjoint; an initial file has each escalation heading at most once | the code tells humans and agents apart by name; sections are only written by the controller |
| `CoalescingAssumption` | a call ends before the window does | a send takes seconds, the window is 30 minutes |
| `ScannerAssumption` | supplied and minted identifiers are disjoint; no content hashes to the zero hash; the sentinels of an absent identifier are no identifiers | a minted identifier is a fresh UUID (`vault_scanner.go:757`); the hashes are SHA-256 sums, the sentinel is the all-zero array (`capped_idle.go:126`) |
| `SyncAssumption` | nobody creates a file with an identifier the scanner is yet to mint | the same freshness; a copy or a rename of a repaired file keeps its identifier and is in the model |
| `TypedAssumption` | an initial task has no Resolution | only the complete-task executor writes one |
| `PlanningRetryAssumption` | a missing counter is no number; the identifier before the repair, if there is one, is not the current one | `Absent` is a missing key; a repair mints a fresh UUID |
| `IndexAssumption` | the alternative title of a create is not its title | `createThroughAPI` appends the short identifier, which is not empty |
| `SupersedeAssumption` | `Names` is finite and has the title and the alternative title of every create; the short identifier of a recurring create is no period token | `shortIdentifier` of a UUID has eight characters, and none of the shapes in `period_token_ranking.go:20` does |

No assumption relates the clocks of producers, broker and consumer. What the code
accepts to lose there, a live command behind the seek of a start without a stored
offset, is in the model and in `CommandLog`.

Two theorems have a hypothesis about the state to start from, because the code
keeps the property and does not establish it: `NoAgentAtTheCapHolds` starts from
tasks that have no agent at the cap, `ChainsLeadOnHolds` from vaults whose
retired files can be numbered so that each gave way to a younger one (`Ordered`),
which is to say from vaults without a circle of `superseded_by`.

**Result write path.** `TypeCorrect` shows the merge and the caps closed over
well-typed files. The action properties (`OwnedFieldsKeptHolds`,
`CapParksTheTaskHolds`, `StaleResultKeepsRoutingHolds`,
`HumanOwnerSurvivesHolds`, `ParkedPhaseSticksHolds`) are about the bytes of a
POST, which were computed some steps before they are stored. The inductive
invariant therefore says of a call in flight that what it will store is
`ModifyFile` of what it read and of its request (`CallComputed`); with it each
property reduces to a lemma about the merge alone (`ModifyFacts`, from
`MergeOwnership`, `EscalateFrame` and `MutatorsFrame`). Two more conjuncts make
it inductive. While `layout` is clean, the body on disk and the one about to be
stored are tidy: terminated, with something before the first heading, with each
escalation heading at most once and on a line that the search finds;
`MergeTidy` shows that merging two such bodies gives one, and `AppendFacts` the
same of an appended section. And a call that may still ping is covered by a
loss of the assignee since its own GET (`PingOwed`): by its own store, by the
store of an attempt whose answer was lost, or by an operator's edit between GET
and POST.

**Escalation window.** `PingsSpaced` alone is not inductive: a claim is made
with a clock value read earlier, and pruning by that value must not forget a
notification that is too recent. The invariant adds that calls are fresh, that a
sender's claim is still in the map, that a key has one sender, that an entry is
remembered for as long as it matters (`PingRemembered`, `SenderSpaced`), and
that an entry stands for a notification sent or under way (`EntryWitness`).
`PruneSparesSenders` and `PruneFacts` carry the arithmetic.

**Command consumer.** The invariant (`OffsetInvariant`) says that what lies
below the stored offset is settled, that the batch starts at the offset, and
that what the filter or the handler has passed is kept or settled; without it a
session that ends could skip a command. Under `Fate` each step is then a step
of `CommandLog` or a stutter (`ConsumerRefinesLog`): a redelivered command that
was executed before stays executed, and the start without a stored offset is
`PassOver`, whatever the clocks say (`PassedOver`). The theorem is about the
safety of the log, `Log!SafeSpec`; that no command is forgotten is left to TLC.

**Typed commands.** The executors run between the consumer's `Begin` and
`Return`, so the invariant of the consumer is reused as it is and the refinement
carries over (`TypedRefinesLog`). `ExecutorInvariant` adds that the fields of a
call are those computed from its read (`SentFromRead`), that the record of an
escalation is on disk before the PATCH that clears the assignee
(`RecordFirst`), and that a Resolution is only put on a task whose close was
stored (`CloseFirst`). Type correctness is most of the work here: a PATCH is a
function on some keys, and each key has its type (`KeyTypes`).

**Redrive sweep.** `EventsSpaced` alone fails at a restart, which empties the
map. The invariant ties an entry to the age of the task's last event
(`EntryIsGap`) and says where an event without an entry may be young: only
before the first tick after the restart, which is an interval away
(`NoEntryIsOld`).

**Scanner and sync loop.** The steps are first sorted by what they do to the
bookkeeping and the reports (`StepKinds`); in particular every way in which a
repair, a reset or a sweep ends, stored or not, answered or not, is one kind
(`WriteEnds`). `UniqueIdentifiers` is not inductive, because the check and the
entry are two steps: the invariant adds that an identifier about to be entered
is claimed by no other path (`Claimed`) and that identifiers still to be minted
occur nowhere (`MintedOnly`). For `ResetOncePerRedelegation` a named file whose
entry has no name is owed a reset (`ResetOwed`), also while a repair of the same
file is under way, and a reset whose POST returned an error adds one to what is
owed; for `RescueSurvives` what is about to be stored over a parked
file is parked itself (`StaysParked`). `SettledIsPublished` needs the whole way
of a content (`Delivered`): it is in this cycle's report, or the cycle does not
mention its task and the queue, the batch and the topic will together say it, or
the report was lost. That no later cycle deletes a task that still has a file is
where the unique identifiers are used, and that a report has one content per
task (`ReportShape`) is what makes the order of its events irrelevant.

**Planning retry.** A retry mints an identifier, so the redelivered result of
the failed run no longer finds the file. The invariant states that fence for
every run, delivery and call that is left and is not addressed to `Previous`
(`Fence`), that a fresh identifier
belongs to one call and was stored if anyone has seen it (`FreshIds`), and, as
long as no store hit a file another writer had changed, that the decided retry
still finds what it decided on (`Undisturbed`). `CountFollowsId` is what the
budget needs: without edits and without merged results of the replaced
identifier the identifier determines the counter. Comments are
counted against the calls that still owe one (`CommentsCovered`).

**Index, lookup, create.** The invariant is about one call at a time (`CallOK`):
which files named its identifier throughout the attempt, which named it at some
point of it, and where the call stands between them. A walk that has no match
yet still has every steady path before it, so a drop is justified; a create that
goes by a known file asks for that file's title, so its post finds it taken.

**Supersede hooks.** The invariant is about one worker at a time and holds for
any number of them, because what a worker does to another's files is either a
write the other notices (`Touched`) or an abort, which only closes (`CloseKeeps`).
The build-fix and the update-go hook never have the file of their own create
before them, the recurring hook neither the command's title nor a later instance
(`TodoOK`). For `ChainsLeadOn` the files are ordered by their birth: the file of a
run is the only one from its store (`BornOK`), so an abort that is not late gives
way to a strictly younger file (`AbortsOlder`), a stored file is younger than all
(`OrderedStep`), and the youngest of a set of retired files points out of it
(`NoCircle`). `ReadOK` says that a file about to be aborted is not completed
unless somebody wrote to it since its read. For
`DueIsClosed` the invariant counts: the recurring hook has spent at most what
it has looked at, all of it at least as late as what is left; the update-go hook
at most the owed files it has looked at (`RecurringOK`, `UpdateGoOK`).

Only model-checked: the three violations, and what is beyond the prover: liveness
under fairness (`NotStranded`, and the part of `LogSpec` that says no command is
forgotten), `ENABLED`, and what a recursive definition computes.

## 5. Not modelled

- the sweep's candidate list in trigger-only mode;
- the calendar arithmetic of period tokens (`parsePeriodTokenOrdinal`): a pure
  conversion with unit tests for each shape, here the constant `Ordinal`;
- routing of results and creates: stateless, and those modules start from
  commands this vault owns;
- metrics, gauges and age censuses: they read and decide nothing;
- `ReaddressTask` and `ListTasks` of the vault API client: no command calls them;
- request encoding, PR comments' HTTP, health and trigger endpoints, wiring:
  I/O whose outcome (accepted, rejected, lost) is in the modules that call it.

## 6. Plan

Done: every module of section 2, with the proofs listed there.

Every safety property of the passing runs is a theorem now. What is left:
abstract specifications beside `CommandLog`, of the topic as a view of the vault
(`SyncLoop` implementing it up to lost reports) and of the task lookup, with
their refinements; and lemmas about `ResultMerge` as an algebra, such as that a
result merged twice leaves everything but its metrics as after the first merge.
