-------------------------------- MODULE SyncLoop --------------------------------
(***************************************************************************)
(* pkg/sync around the scanner: the loop that takes one ScanResult after   *)
(* another and publishes it to the event topic, the topic's latest event   *)
(* per task (the view its consumers hold), and the writers the scanner     *)
(* shares the vault with: people, the executor and the result writer.      *)
(***************************************************************************)
EXTENDS VaultScanner

CONSTANTS
    NewFiles,  \* contents a file may be created with
    MaxEdits,  \* bound: steps of the other writers
    MaxFaults, \* bound: failed requests and restarts
    Gone       \* the view of a task whose latest event is a delete

\* A minted identifier is a fresh UUID: nobody else creates a file with it.
ASSUME SyncAssumption ==
    /\ NewFiles \subseteq {f \in File : f.id \notin MintIds}
    /\ MaxEdits \in Nat /\ MaxFaults \in Nat

VARIABLES
    batch,     \* the ScanResult being published
    view,      \* latest event per identifier, NoFile before the first
    lost,      \* history: identifiers whose newest report was dropped, or is
               \* overtaken by a delete of the same result
    swept,     \* history: paths the sweep parked and no person touched since
    redelegations, resets,  \* history, per path: names written over an empty assignee
                            \* or another task, resets stored,
    unanswered,             \* and those of them whose POST returned an error
    edits, faults

syncVars == <<batch, view, lost, swept, redelegations, resets, unanswered, edits, faults>>
vars     == <<scanVars, syncVars>>

Idle == [changed |-> {}, deleted |-> {}]

TypeOK ==
    /\ ScannerTypeOK
    /\ batch \in ScanResult
    /\ view \in [TaskId -> File \cup {NoFile, Gone}]
    /\ lost \in SUBSET TaskId
    /\ swept \in SUBSET Paths
    /\ redelegations \in [Paths -> Nat] /\ resets \in [Paths -> Nat] /\ unanswered \in [Paths -> Nat]
    /\ edits \in Nat /\ faults \in Nat

Init ==
    /\ ScannerInit
    /\ batch = Idle
    /\ view = [i \in TaskId |-> NoFile]
    /\ lost = {} /\ swept = {}
    /\ redelegations = [p \in Paths |-> 0] /\ resets = redelegations
    /\ unanswered = redelegations
    /\ edits = 0 /\ faults = 0

-----------------------------------------------------------------------------
(* The other writers; each write is one commit of git-rest. *)

Edit == edits < MaxEdits /\ edits' = edits + 1

OthersWrite(p, f) ==
    /\ Edit
    /\ files' = [files EXCEPT ![p] = f]
    /\ redelegations' =
          IF f # NoFile /\ f.assignee # "" /\ (files[p] = NoFile \/ files[p].assignee = "")
          THEN [redelegations EXCEPT ![p] = @ + 1]
          ELSE redelegations
    /\ UNCHANGED <<hashes, pc, todo, at, buf, changed, deleted, results, autoInject, minted,
                   batch, view, lost, resets, unanswered, faults>>

Create(p) == files[p] = NoFile /\ \E f \in NewFiles : OthersWrite(p, f) /\ swept' = swept \ {p}

Delete(p) == files[p] # NoFile /\ OthersWrite(p, NoFile) /\ swept' = swept \ {p}

Rename(p, q) ==
    /\ files[p] # NoFile /\ files[q] = NoFile
    /\ Edit
    /\ files' = [files EXCEPT ![p] = NoFile, ![q] = files[p]]
    /\ redelegations' = [redelegations EXCEPT ![q] = @ + 1]
    /\ swept' = swept \ {p, q}
    /\ UNCHANGED <<hashes, pc, todo, at, buf, changed, deleted, results, autoInject, minted,
                   batch, view, lost, resets, unanswered, faults>>

\* A person takes a parked task up again.
Delegate(p) ==
    /\ files[p] # NoFile /\ files[p].assignee = ""
    /\ OthersWrite(p, [files[p] EXCEPT !.assignee = "agent", !.status = "in_progress"])
    /\ swept' = swept \ {p}

\* The executor charges a spawn, unless the budget is spent ...
Charge(p) ==
    /\ files[p] # NoFile /\ files[p].assignee # "" /\ files[p].status = "in_progress"
    /\ files[p].job = "" /\ files[p].count < Cap
    /\ OthersWrite(p, [files[p] EXCEPT !.count = @ + 1, !.job = "job"])
    /\ UNCHANGED swept

\* ... and restores the assignee of a parked task it would still run.
Restore(p) ==
    /\ files[p] # NoFile /\ files[p].assignee = "" /\ files[p].status = "in_progress"
    /\ files[p].phase # "human_review"
    /\ OthersWrite(p, [files[p] EXCEPT !.assignee = "agent"])
    /\ UNCHANGED swept

\* A result ends the job: the task goes on, or is handed to a person.
Result(p) ==
    /\ files[p] # NoFile /\ files[p].job # ""
    /\ \/ OthersWrite(p, [files[p] EXCEPT !.job = ""])
       \/ OthersWrite(p, [files[p] EXCEPT !.job = "", !.phase = "human_review", !.assignee = ""])
    /\ UNCHANGED swept

Others ==
    \E p \in Paths :
        \/ Create(p) \/ Delete(p) \/ Delegate(p) \/ Charge(p) \/ Restore(p) \/ Result(p)
        \/ \E q \in Paths : Rename(p, q)

-----------------------------------------------------------------------------
(* The scanner's steps in the composition. *)

IdsOf(fs) == {f.id : f \in fs}

Scan ==
    /\ \/ StartCycle
       \/ \E p \in Paths :
             SkipFile(p) \/ HaltRepair(p) \/ BeginRepair(p) \/ BeginReset(p) \/ TakeFile(p)
             \/ GetForSweep(p)
       \/ FinishRepair \/ GetForReset \/ BeginSweep
    /\ UNCHANGED syncVars

ResetPosted ==
    /\ PostReset
    /\ resets' = [resets EXCEPT ![at.path] = @ + 1]
    /\ UNCHANGED <<batch, view, lost, swept, redelegations, unanswered, edits, faults>>

SweepPosted ==
    /\ PostSweep
    /\ swept' = swept \cup {at.path}
    /\ UNCHANGED <<batch, view, lost, redelegations, resets, unanswered, edits, faults>>

\* The scanner cannot tell a reset that was stored from one that was not: either
\* way its entry keeps the empty assignee.
PostLost ==
    /\ faults < MaxFaults /\ faults' = faults + 1
    /\ PostFails
    /\ \/ /\ pc = "resetPost" /\ StoreFile
          /\ resets' = [resets EXCEPT ![at.path] = @ + 1]
          /\ unanswered' = [unanswered EXCEPT ![at.path] = @ + 1]
       \/ /\ pc = "resetPost" => files' = files
          /\ UNCHANGED <<resets, unanswered>>
    /\ UNCHANGED <<batch, view, lost, swept, redelegations, edits>>

CycleSent ==
    /\ \/ EndCycle
       \/ ListFails
    /\ lost' = IF results # <<>> THEN lost \cup IdsOf(changed)
               ELSE (lost \ IdsOf(changed)) \cup (IdsOf(changed) \cap deleted)
    /\ UNCHANGED <<batch, view, swept, redelegations, resets, unanswered, edits, faults>>

-----------------------------------------------------------------------------
(* The sync loop. *)

Receive ==
    /\ batch = Idle /\ results # <<>>
    /\ batch' = Head(results) /\ results' = Tail(results)
    /\ UNCHANGED <<files, hashes, pc, todo, at, buf, changed, deleted, autoInject, minted,
                   view, lost, swept, redelegations, resets, unanswered, edits, faults>>

PublishChanged(f) ==
    /\ f \in batch.changed
    /\ view' = [view EXCEPT ![f.id] = f]
    /\ batch' = [batch EXCEPT !.changed = @ \ {f}]
    /\ UNCHANGED <<scanVars, lost, swept, redelegations, resets, unanswered, edits, faults>>

\* The deletes of a result follow all of its changes.
PublishDeleted(i) ==
    /\ batch.changed = {} /\ i \in batch.deleted
    /\ view' = [view EXCEPT ![i] = Gone]
    /\ batch' = [batch EXCEPT !.deleted = @ \ {i}]
    /\ UNCHANGED <<scanVars, lost, swept, redelegations, resets, unanswered, edits, faults>>

\* A publish fails or the process dies: everything in memory is gone.
Restart ==
    /\ faults < MaxFaults /\ faults' = faults + 1
    /\ hashes' = [p \in Paths |-> NoEntry]
    /\ pc' = "idle" /\ todo' = {} /\ at' = NoFile /\ buf' = NoFile
    /\ changed' = {} /\ deleted' = {} /\ results' = <<>>
    /\ batch' = Idle /\ lost' = {}
    /\ UNCHANGED <<files, autoInject, minted, view, swept, redelegations, resets, unanswered, edits>>

Next ==
    \/ Others
    \/ Scan \/ ResetPosted \/ SweepPosted \/ PostLost \/ CycleSent
    \/ Receive
    \/ \E f \in batch.changed : PublishChanged(f)
    \/ \E i \in batch.deleted : PublishDeleted(i)
    \/ Restart

Spec == Init /\ [][Next]_vars

-----------------------------------------------------------------------------
(* Properties *)

\* No two paths of the bookkeeping claim one identifier, whatever is copied,
\* renamed or minted: a lookup by the published index is never ambiguous.
UniqueIdentifiers ==
    \A p, q \in Known : p # q /\ hashes[p].id # "" => hashes[p].id # hashes[q].id

\* Nothing is on its way: the scanner and the sync loop are between cycles.
Quiet == pc = "idle" /\ results = <<>> /\ batch = Idle

\* An assigned task the scanner has no reason to look at again.
Settled(p) ==
    /\ files[p] # NoFile /\ p \in Known /\ hashes[p].hash = files[p]
    /\ files[p].assignee # "" /\ files[p].status # "" /\ files[p].id \in TaskId

\* When the scanner is done with an assigned task, the topic's latest event
\* carries the file, except where a full channel dropped the report or a
\* delete in the same result overtook it.
SettledIsPublished ==
    Quiet => \A p \in Paths :
        Settled(p) /\ files[p].id \notin lost => view[files[p].id] = files[p]

\* A re-delegation refills the budget at most once, but for the resets that were
\* stored while their POST returned an error: writeCounterReset reports a write
\* error, the entry keeps the empty assignee and a later cycle resets again.  So
\* every such POST may add one reset to a path, and nothing else does.
ResetOncePerRedelegation ==
    \A p \in Paths : resets[p] <= redelegations[p] + unanswered[p]

\* A task the sweep rescued keeps its empty assignee until a person acts:
\* neither the executor's restore nor the scanner's reset revives it.
RescueSurvives ==
    \A p \in swept : files[p] # NoFile => files[p].assignee = ""

\* ScanResult.Deleted holds "task identifiers that were previously known but
\* are now gone": a settled task is not deleted for its consumers.
DeletedAreGone ==
    Quiet => \A p \in Paths : Settled(p) => view[files[p].id] # Gone

=============================================================================
