------------------------------ MODULE VaultScanner ------------------------------
(***************************************************************************)
(* The scan cycle of pkg/scanner: list the task directory, drop the        *)
(* bookkeeping of vanished paths, read and classify every file (repair its *)
(* identifier, reset the budget of a re-delegated task, or report it as    *)
(* changed), sweep the capped idle tasks, and hand the result to the sync  *)
(* loop over a channel of one slot that is never waited for.               *)
(*                                                                         *)
(* The scanner is one goroutine, but every file write of it is a request   *)
(* (or a GET and a POST) between which other writers reach the file.  The  *)
(* hash of a file is its content; Zero is the sentinel no content has.     *)
(* Every task has its trigger cap engaged, with the limit Cap.             *)
(***************************************************************************)
EXTENDS Integers, Sequences

CONSTANTS
    Paths,    \* task files
    Ids,      \* identifiers of the files people and agents create
    MintIds,  \* identifiers the scanner may mint
    Phases,
    Cap,      \* max_triggers of every task
    NoFile, NoEntry, Zero

VARIABLES
    files,       \* the task directory
    hashes,      \* the scanner's entry of each path
    pc,          \* where the cycle is
    todo,        \* paths this cycle still has to look at
    at,          \* the path whose write is under way and the identifier read there,
    buf,         \* and the content the write stores
    changed, deleted,  \* what the cycle reports
    results,     \* the channel to the sync loop
    autoInject,  \* AUTO_INJECT_TASK_IDENTIFIER
    minted       \* identifiers minted so far

scanVars == <<files, hashes, pc, todo, at, buf, changed, deleted, results, autoInject, minted>>

\* "none": no identifier or one that is not a UUID; "stuck": one whose repair
\* does not converge.
TaskId == Ids \cup MintIds
File ==
    [id : TaskId \cup {"none", "stuck"}, assignee : {"", "agent"}, phase : Phases,
     status : {"in_progress", "hold", ""}, count : Nat, job : {"", "job"}]
Entry ==
    [hash : File \cup {Zero}, id : TaskId \cup {""}, assignee : {"", "agent"},
     capped : BOOLEAN, phase : Phases \cup {""}]
ScanResult == [changed : SUBSET File, deleted : SUBSET TaskId]

ASSUME ScannerAssumption ==
    /\ Ids \cap MintIds = {}
    /\ {"", "none", "stuck"} \cap TaskId = {}
    /\ "human_review" \in Phases /\ "" \notin Phases
    /\ Cap \in Nat \ {0}
    /\ NoFile \notin File /\ Zero \notin File /\ NoEntry \notin Entry

ScannerTypeOK ==
    /\ files \in [Paths -> File \cup {NoFile}]
    /\ hashes \in [Paths -> Entry \cup {NoEntry}]
    /\ pc \in {"idle", "files", "inject", "reset", "resetPost", "sweep", "sweepPost"}
    /\ todo \in SUBSET Paths
    /\ at \in [path : Paths, id : TaskId \cup {""}] \cup {NoFile}
    /\ buf \in File \cup {NoFile}
    /\ changed \in SUBSET File
    /\ deleted \in SUBSET TaskId
    /\ results \in Seq(ScanResult) /\ Len(results) <= 1
    /\ autoInject \in BOOLEAN
    /\ minted \in SUBSET MintIds

ScannerInit ==
    /\ files = [p \in Paths |-> NoFile]
    /\ hashes = [p \in Paths |-> NoEntry]
    /\ pc = "idle" /\ todo = {} /\ at = NoFile /\ buf = NoFile
    /\ changed = {} /\ deleted = {} /\ results = <<>>
    /\ autoInject \in BOOLEAN
    /\ minted = {}

-----------------------------------------------------------------------------
Present == {p \in Paths : files[p] # NoFile}
Known   == {p \in Paths : hashes[p] # NoEntry}

IsCappedIdle(f) == f.count > 0 /\ f.count >= Cap

\* Variant: the check never fails.
AlwaysUnique(id, p) == TRUE

\* isIdentifierUnique asks the bookkeeping, not the files.
IsIdentifierUnique(id, p) == \A q \in Known \ {p} : hashes[q].id # id

NeedsRepair(p, f) == f.id \in {"none", "stuck"} \/ ~IsIdentifierUnique(f.id, p)

\* The empty to named transition, as far as the bookkeeping saw it.
Redelegated(p, f) ==
    /\ f.assignee # ""
    /\ p \in Known /\ hashes[p].id # "" /\ hashes[p].assignee = ""

Unchanged(p, f) == p \in Known /\ hashes[p].hash = f

\* A write of the scanner leaves the zero hash, so that the next cycle looks at
\* the file again; capped and phase are not carried over.
Sentinel(id, assignee) ==
    [hash |-> Zero, id |-> id, assignee |-> assignee, capped |-> FALSE, phase |-> ""]

SetEntry(p, e) == hashes' = [hashes EXCEPT ![p] = e]

\* The POST replaces, or re-creates, the whole file.
StoreFile == files' = [files EXCEPT ![at.path] = buf]

WriteDone(next) == pc' = next /\ at' = NoFile /\ buf' = NoFile

\* collectDeleted: a halted repair has no identifier to report.
VanishedIds == {hashes[p].id : p \in Known \ Present} \ {""}

\* RunCycle up to the file loop: the listing fixes the paths of this cycle, and
\* what vanished is forgotten before any file is looked at.
StartCycle ==
    /\ pc = "idle"
    /\ pc' = "files"
    /\ todo' = Present
    /\ deleted' = VanishedIds
    /\ hashes' = [p \in Paths |-> IF p \in Present THEN hashes[p] ELSE NoEntry]
    /\ UNCHANGED <<files, at, buf, changed, results, autoInject, minted>>

\* processFile returns without a trace: the file cannot be read or parsed, its
\* hash is known, or it needs a repair that is switched off.
SkipFile(p) ==
    /\ pc = "files" /\ p \in todo
    /\ todo' = todo \ {p}
    /\ UNCHANGED <<files, hashes, pc, at, buf, changed, deleted, results, autoInject, minted>>

\* A repair that would not clear its own trigger is refused, and the file is
\* remembered by its hash without an identifier.
HaltRepair(p) ==
    /\ pc = "files" /\ p \in todo \cap Present
    /\ ~Unchanged(p, files[p]) /\ files[p].id = "stuck" /\ autoInject
    /\ SetEntry(p, [hash |-> files[p], id |-> "", assignee |-> files[p].assignee,
                    capped |-> FALSE, phase |-> ""])
    /\ todo' = todo \ {p}
    /\ UNCHANGED <<files, pc, at, buf, changed, deleted, results, autoInject, minted>>

\* injectAndStore, up to its write: the candidate is computed from the content read.
BeginRepair(p) ==
    /\ pc = "files" /\ p \in todo \cap Present
    /\ LET f == files[p] IN
       /\ ~Unchanged(p, f) /\ NeedsRepair(p, f) /\ f.id # "stuck" /\ autoInject
       /\ \E id \in MintIds \ minted :
             /\ buf' = [f EXCEPT !.id = id]
             /\ minted' = minted \cup {id}
       /\ at' = [path |-> p, id |-> buf'.id]
    /\ pc' = "inject" /\ todo' = todo \ {p}
    /\ UNCHANGED <<files, hashes, changed, deleted, results, autoInject>>

\* The whole-file write of the repair; one that fails leaves no entry, whether
\* the file was stored or not.
FinishRepair ==
    /\ pc = "inject"
    /\ \/ /\ StoreFile
          /\ SetEntry(at.path, Sentinel(at.id, buf.assignee)) \/ UNCHANGED hashes
       \/ UNCHANGED <<files, hashes>>
    /\ WriteDone("files")
    /\ UNCHANGED <<todo, changed, deleted, results, autoInject, minted>>

\* The re-delegated task: writeCounterReset follows.
BeginReset(p) ==
    /\ pc = "files" /\ p \in todo \cap Present
    /\ LET f == files[p] IN
       /\ ~Unchanged(p, f) /\ ~NeedsRepair(p, f) /\ Redelegated(p, f)
       /\ at' = [path |-> p, id |-> f.id]
    /\ pc' = "reset" /\ todo' = todo \ {p}
    /\ UNCHANGED <<files, hashes, buf, changed, deleted, results, autoInject, minted>>

\* Variant: the entry keeps the empty assignee.
UnassignedEntry(id) == Sentinel(id, "")

\* The new assignee is stored so that the transition is not seen again.
ResetEntry(id) == Sentinel(id, "agent")

\* The GET of the read-modify-write; a file that is gone is a write error, and
\* one the reset leaves as it is needs no POST.  The identifier and the assignee
\* of the entry stay those of the scan-time read.
GetForReset ==
    /\ pc = "reset"
    /\ \/ files[at.path] = NoFile /\ WriteDone("files") /\ UNCHANGED hashes
       \/ /\ files[at.path] # NoFile /\ files[at.path].count = 0
          /\ WriteDone("files") /\ SetEntry(at.path, ResetEntry(at.id))
       \/ /\ files[at.path] # NoFile
          /\ pc' = "resetPost" /\ buf' = [files[at.path] EXCEPT !.count = 0]
          /\ UNCHANGED <<at, hashes>>
    /\ UNCHANGED <<files, todo, changed, deleted, results, autoInject, minted>>

PostReset ==
    /\ pc = "resetPost"
    /\ StoreFile /\ SetEntry(at.path, ResetEntry(at.id))
    /\ WriteDone("files")
    /\ UNCHANGED <<todo, changed, deleted, results, autoInject, minted>>

\* Variant: the transition is asked of assigned tasks as well.
TransitionsOnly(p, f) == f.status # "" /\ p \in Known /\ hashes[p].phase \notin {"", f.phase}

\* A task without a status is not reported; one without an assignee only when
\* the bookkeeping knows another phase of it.
Reported(p, f) ==
    /\ f.status # ""
    /\ f.assignee = "" => /\ p \in Known
                          /\ hashes[p].phase \notin {"", f.phase}

\* The normal path of processFile.
TakeFile(p) ==
    /\ pc = "files" /\ p \in todo \cap Present
    /\ LET f == files[p] IN
       /\ ~Unchanged(p, f) /\ ~NeedsRepair(p, f) /\ ~Redelegated(p, f)
       /\ SetEntry(p, [hash |-> f, id |-> f.id, assignee |-> f.assignee,
                       capped |-> IsCappedIdle(f), phase |-> f.phase])
       /\ changed' = IF Reported(p, f) THEN changed \cup {f} ELSE changed
    /\ todo' = todo \ {p}
    /\ UNCHANGED <<files, pc, at, buf, deleted, results, autoInject, minted>>

\* escalateCappedIdleTasks collects its candidates from the bookkeeping.
BeginSweep ==
    /\ pc = "files" /\ todo = {}
    /\ pc' = "sweep"
    /\ todo' = {p \in Known : hashes[p].capped /\ hashes[p].assignee # ""}
    /\ UNCHANGED <<files, hashes, at, buf, changed, deleted, results, autoInject, minted>>

Sweepable(f) ==
    IsCappedIdle(f) /\ f.status = "in_progress" /\ f.job = "" /\ f.assignee # ""

\* Variant: only the assignee is cleared.
SweptInProgress(f) == [f EXCEPT !.assignee = ""]

\* escalateCappedContent; hold keeps the executor from restoring the assignee.
SweptContent(f) == [f EXCEPT !.assignee = "", !.status = "hold"]

\* The GET of one candidate, every clause checked against the file; a failed
\* GET is a write error, a file that is not sweepable any more a no-op.
GetForSweep(p) ==
    /\ pc = "sweep" /\ p \in todo
    /\ todo' = todo \ {p}
    /\ \/ UNCHANGED <<pc, at, buf>>
       \/ /\ files[p] # NoFile /\ Sweepable(files[p])
          /\ pc' = "sweepPost" /\ at' = [path |-> p, id |-> hashes[p].id]
          /\ buf' = SweptContent(files[p])
    /\ UNCHANGED <<files, hashes, changed, deleted, results, autoInject, minted>>

PostSweep ==
    /\ pc = "sweepPost"
    /\ StoreFile /\ SetEntry(at.path, Sentinel(at.id, ""))
    /\ WriteDone("sweep")
    /\ UNCHANGED <<todo, changed, deleted, results, autoInject, minted>>

\* The POST of a read-modify-write returns an error, its content stored or not.
PostFails ==
    /\ pc \in {"resetPost", "sweepPost"}
    /\ StoreFile \/ UNCHANGED files
    /\ WriteDone(IF pc = "resetPost" THEN "files" ELSE "sweep")
    /\ UNCHANGED <<hashes, todo, changed, deleted, results, autoInject, minted>>

\* Variant: the channel takes every result.
QueueResult(c, d) == results' = Append(results, [changed |-> c, deleted |-> d])

\* The non-blocking send of RunCycle: what does not fit is dropped.
SendResult(c, d) ==
    results' = IF results = <<>> THEN <<[changed |-> c, deleted |-> d]>> ELSE results

EndCycle ==
    /\ pc = "sweep" /\ todo = {}
    /\ SendResult(changed, deleted)
    /\ pc' = "idle" /\ changed' = {} /\ deleted' = {}
    /\ UNCHANGED <<files, hashes, todo, at, buf, autoInject, minted>>

\* The listing failed: the cycle reports nothing, and still sends.
ListFails ==
    /\ pc = "idle"
    /\ SendResult({}, {})
    /\ UNCHANGED <<files, hashes, pc, todo, at, buf, changed, deleted, autoInject, minted>>

=============================================================================
