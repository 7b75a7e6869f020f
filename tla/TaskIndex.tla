------------------------------- MODULE TaskIndex -------------------------------
(***************************************************************************)
(* The identifier to path index and the commands that use it: the scanner  *)
(* goroutine rebuilds it (pkg/scanner), FindTaskFilePath looks a result's  *)
(* task up in it and walks the directory otherwise (pkg/result), and the   *)
(* create executor reuses and records paths in it (pkg/command).           *)
(*                                                                         *)
(* One consumer works on the commands of a partition, one at a time; every *)
(* read of a file or of the index, and the rebuild, is a step of its own.  *)
(* A file is its identifier, the identifier a repair replaced in it, and   *)
(* whether its status is terminal.                                         *)
(***************************************************************************)
EXTENDS Integers, FiniteSets

CONSTANTS
    Paths, Ids,
    Legacy,     \* identifiers that are not UUIDs
    Served,     \* identifiers commands are sent for
    Partition,  \* the partition of each identifier
    Title,      \* the path of the title the create commands ask for
    Alt,        \* the disambiguated path of each identifier
    Initial,    \* what a path may hold to start with
    Attempts,   \* notFoundAttempts
    MaxCalls,   \* bound: commands
    MaxEdits,   \* bound: steps of the other writers
    MaxFaults,  \* bound: failed reads and creates, restarts
    None

File == [id : Ids \cup {None}, prev : Legacy \cup {None}, open : BOOLEAN]

ASSUME IndexAssumption ==
    /\ Initial \subseteq File \cup {None}
    /\ Legacy \subseteq Ids /\ Served \subseteq Ids /\ None \notin Ids \cup Paths
    /\ Title \in Paths /\ Alt \in [Ids -> Paths \ {Title}]
    /\ Attempts \in Nat \ {0}
    /\ MaxCalls \in Nat /\ MaxEdits \in Nat /\ MaxFaults \in Nat

VARIABLES
    files,        \* the task directory
    index,        \* the published index
    seen,         \* the identifier of each path in the scanner's bookkeeping
    scan,         \* what the scanner is doing, and the paths it still has to read
    triggerOnly,  \* POLL_INTERVAL is not positive
    calls,        \* the command under way for each identifier
    steady,       \* history: paths that name the identifier since the attempt began
    carried,      \* history: paths that named it at some time since then
    count, edits, faults

scanVars  == <<seen, scan, triggerOnly>>
bounds    == <<count, edits, faults>>
vars      == <<files, index, scanVars, calls, steady, carried, bounds>>

Idle == [pc |-> "idle"]

\* path: the index hit, the file found or the file created; todo: what the walk
\* still has to read; via: the match is the recorded predecessor; faulty: a read
\* of this attempt failed.
Call == [pc : {"resolve", "verify", "list", "walk", "found",
               "reuse", "check", "post", "alt", "record", "presence"},
         path : Paths \cup {None}, todo : SUBSET Paths, via : BOOLEAN,
         attempt : 0..Attempts, recurring : BOOLEAN, known : Paths \cup {None},
         faulty : BOOLEAN]

TypeOK ==
    /\ files \in [Paths -> File \cup {None}]
    /\ index \in [Ids -> SUBSET Paths]
    /\ seen \in [Paths -> Ids \cup {None}]
    /\ scan \in [pc : {"idle", "cycle", "boot"}, todo : SUBSET Paths]
    /\ triggerOnly \in BOOLEAN
    /\ calls \in [Served -> Call \cup {Idle}]
    /\ steady \in [Served -> SUBSET Paths] /\ carried \in [Served -> SUBSET Paths]
    /\ count \in Nat /\ edits \in Nat /\ faults \in Nat

-----------------------------------------------------------------------------
Present == {p \in Paths : files[p] # None}

\* taskIdentifierMatch
ByCurrent(f, i)  == f # None /\ f.id = i
ByPrevious(f, i) == f # None /\ f.id # i /\ f.prev = i
Matches(f, i)    == ByCurrent(f, i) \/ ByPrevious(f, i)

Naming(fs, i) == {p \in Paths : Matches(fs[p], i)}

\* A write of one or two files, with the history it makes for the calls.
WriteFiles(fs) ==
    /\ files' = fs
    /\ steady' = [i \in Served |-> steady[i] \cap Naming(fs, i)]
    /\ carried' = [i \in Served |-> carried[i] \cup Naming(fs, i)]

KeepFiles == UNCHANGED <<files, steady, carried>>

\* What the scanner starts with: nothing, and in trigger-only mode the boot pass.
Unscanned(boot) == [pc |-> IF boot THEN "boot" ELSE "idle", todo |-> {}]

Init ==
    /\ files \in [Paths -> Initial]
    /\ index = [i \in Ids |-> {}]
    /\ seen = [p \in Paths |-> None]
    /\ triggerOnly \in BOOLEAN /\ scan = Unscanned(triggerOnly)
    /\ calls = [i \in Served |-> Idle]
    /\ steady = [i \in Served |-> {}] /\ carried = [i \in Served |-> {}]
    /\ count = 0 /\ edits = 0 /\ faults = 0

-----------------------------------------------------------------------------
(* The index: Resolve, Record, RecordDuplicate. *)

Resolves(i, p) == index[i] = {p}
Misses(i)      == index[i] = {}
Ambiguous(i)   == Cardinality(index[i]) >= 2

\* Variant: the entry is always replaced.
RecordOver(i, p) == index' = [index EXCEPT ![i] = {p}]

\* A known duplicate stays reported as one.
Record(i, p) ==
    index' = IF Ambiguous(i) THEN index ELSE [index EXCEPT ![i] = {p}]

RecordDuplicate(i, p) == index' = [index EXCEPT ![i] = @ \cup {p}]

-----------------------------------------------------------------------------
(* The scanner goroutine. *)

UnchangedByScan == UNCHANGED <<triggerOnly, calls, bounds>> /\ KeepFiles

\* A cycle lists the directory and forgets the vanished paths; the boot pass
\* of a trigger-only controller has no bookkeeping to forget.
StartScan ==
    /\ scan.todo = {} /\ scan.pc \in {"idle", "boot"}
    /\ scan' = [pc |-> IF scan.pc = "boot" THEN "boot" ELSE "cycle", todo |-> Present]
    /\ seen' = [p \in Paths |-> IF p \in Present THEN seen[p] ELSE None]
    /\ UnchangedByScan /\ UNCHANGED index

\* A cycle skips what its bookkeeping has under another path, the boot pass
\* keeps both; neither takes an identifier that is not a UUID.
Indexable(p) ==
    /\ files[p] # None /\ files[p].id \notin Legacy \cup {None}
    /\ scan.pc = "cycle" => \A q \in Paths \ {p} : seen[q] # files[p].id

ScanFile(p) ==
    /\ p \in scan.todo
    /\ scan' = [scan EXCEPT !.todo = @ \ {p}]
    /\ seen' = IF Indexable(p) THEN [seen EXCEPT ![p] = files[p].id] ELSE seen
    /\ UnchangedByScan /\ UNCHANGED index

\* Variant: paths without an identifier are indexed too.
IndexWithBlanks == [i \in Ids \cup {None} |-> {p \in Paths : seen[p] = i}]

\* The map built from the bookkeeping.
BuiltIndex == [i \in Ids |-> {p \in Paths : seen[p] = i}]

\* publishIndex and the end of buildIndex: the map is swapped as a whole.  The
\* boot pass leaves no bookkeeping behind.
PublishIndex ==
    /\ scan.pc \in {"cycle", "boot"} /\ scan.todo = {}
    /\ index' = BuiltIndex
    /\ scan' = Unscanned(FALSE)
    /\ seen' = IF scan.pc = "boot" THEN [p \in Paths |-> None] ELSE seen
    /\ UnchangedByScan

-----------------------------------------------------------------------------
(* The calls. *)

Go(i, c) ==
    /\ calls' = [calls EXCEPT ![i] = c]
    /\ UNCHANGED <<scanVars, edits, faults>>

At(i, pc) == calls[i].pc = pc

\* An attempt begins: only now does the history count for it.
Begin(i, c) ==
    /\ Go(i, c)
    /\ steady' = [steady EXCEPT ![i] = Naming(files, i)]
    /\ carried' = [carried EXCEPT ![i] = Naming(files, i)]
    /\ UNCHANGED <<files, index>>

Fresh(pc, attempt, recurring) ==
    [pc |-> pc, path |-> None, todo |-> {}, via |-> FALSE, attempt |-> attempt,
     recurring |-> recurring, known |-> None, faulty |-> FALSE]

StartCommand(i) ==
    /\ \A j \in Served : Partition[j] = Partition[i] => calls[j] = Idle
    /\ count < MaxCalls
    /\ count' = count + 1
    /\ \/ Begin(i, Fresh("resolve", 1, FALSE))
       \/ \E recurring \in BOOLEAN : Begin(i, Fresh("reuse", 0, recurring))

\* The call ends: its answer, success or error, is not looked at here.
End(i) == Go(i, Idle)

(* FindTaskFilePath *)

\* resolveFromIndex, the index part: a duplicate is an error, never a miss.
Resolve(i) ==
    /\ At(i, "resolve")
    /\ \/ Ambiguous(i) /\ End(i)
       \/ Misses(i) /\ Go(i, [calls[i] EXCEPT !.pc = "list"])
       \/ \E p \in Paths :
             Resolves(i, p) /\ Go(i, [calls[i] EXCEPT !.pc = "verify", !.path = p])
    /\ KeepFiles /\ UNCHANGED <<index, count>>

\* Variant: a hit is taken at its word.
AcceptsAnyHit(i, p) == files[p] # None

\* The hit's file must still carry the identifier.
AcceptsHit(i, p) == ByCurrent(files[p], i)

Verify(i) ==
    /\ At(i, "verify")
    /\ Go(i, IF AcceptsHit(i, calls[i].path)
             THEN [calls[i] EXCEPT !.pc = "found"]
             ELSE [calls[i] EXCEPT !.pc = "list", !.path = None])
    /\ KeepFiles /\ UNCHANGED <<index, count>>

List(i) ==
    /\ At(i, "list")
    /\ Go(i, [calls[i] EXCEPT !.pc = "walk", !.todo = Present])
    /\ KeepFiles /\ UNCHANGED <<index, count>>

\* Variant: a recorded predecessor is no match.
WalkMatchesCurrent(i, p) == ByCurrent(files[p], i)

WalkMatches(i, p) == Matches(files[p], i)

\* One file of the walk; the second match ends it with an error.
WalkFile(i, p) ==
    LET c == [calls[i] EXCEPT !.todo = @ \ {p}] IN
    /\ At(i, "walk") /\ p \in calls[i].todo
    /\ \/ ~WalkMatches(i, p) /\ Go(i, c)
       \/ WalkMatches(i, p) /\ c.path # None /\ End(i)
       \/ /\ WalkMatches(i, p) /\ c.path = None
          /\ Go(i, [c EXCEPT !.path = p, !.via = ByPrevious(files[p], i)])
    /\ KeepFiles /\ UNCHANGED <<index, count>>

\* The walk found one file, recorded unless the match is a predecessor.
WalkFound(i) ==
    /\ At(i, "walk") /\ calls[i].todo = {} /\ calls[i].path # None
    /\ IF calls[i].via THEN UNCHANGED index ELSE Record(i, calls[i].path)
    /\ Go(i, [calls[i] EXCEPT !.pc = "found"])
    /\ KeepFiles /\ UNCHANGED count

\* Nothing found: WriteResult tries again, then drops the result.
WalkMissed(i) ==
    /\ At(i, "walk") /\ calls[i].todo = {} /\ calls[i].path = None
    /\ UNCHANGED count
    /\ IF calls[i].attempt < Attempts
       THEN Begin(i, Fresh("resolve", calls[i].attempt + 1, FALSE))
       ELSE End(i) /\ KeepFiles /\ UNCHANGED index

\* The read-modify-write on the path found; a result may complete the task.  A
\* file that is gone fails the command.
WriteResult(i) ==
    LET p == calls[i].path IN
    /\ At(i, "found")
    /\ End(i)
    /\ \/ files[p] = None /\ KeepFiles
       \/ /\ files[p] # None
          /\ \E open \in BOOLEAN : WriteFiles([files EXCEPT ![p].open = open /\ files[p].open])
    /\ UNCHANGED <<index, count>>

(* The create executor *)

\* reuseExistingIdentifierTitle asks the index ...
Reuse(i) ==
    /\ At(i, "reuse")
    /\ \/ ~(\E p \in Paths : Resolves(i, p))
          /\ Go(i, [calls[i] EXCEPT !.pc = "post", !.path = Title])
       \/ \E p \in Paths :
             Resolves(i, p) /\ Go(i, [calls[i] EXCEPT !.pc = "check", !.path = p, !.known = p])
    /\ KeepFiles /\ UNCHANGED <<index, count>>

\* Variant: the title of the command is always used.
CommandTitle(i, p) == Title

\* ... and takes the title of the file it names only if that carries the identifier.
ReusedTitle(i, p) == IF ByCurrent(files[p], i) THEN p ELSE Title

Check(i) ==
    /\ At(i, "check")
    /\ Go(i, [calls[i] EXCEPT !.pc = "post", !.path = ReusedTitle(i, calls[i].path)])
    /\ KeepFiles /\ UNCHANGED <<index, count>>

Created(i) == [id |-> i, prev |-> None, open |-> TRUE]

\* The vault API creates the file where the path is free or held by a terminal
\* task that may be reopened.
Creatable(i, p) ==
    IF files[p] = None THEN TRUE ELSE ~files[p].open /\ ~calls[i].recurring

Store(i, p) ==
    /\ Creatable(i, p)
    /\ Go(i, [calls[i] EXCEPT !.pc = "record", !.path = p])
    /\ WriteFiles([files EXCEPT ![p] = Created(i)])

\* createThroughAPI, first request: stored, already there, held by a terminal
\* recurring task, or taken by another one.
Post(i) ==
    LET f == files[calls[i].path] IN
    /\ At(i, "post")
    /\ \/ Store(i, calls[i].path)
       \/ /\ ~Creatable(i, calls[i].path)
          /\ IF f.id \in {i, None} \/ (calls[i].recurring /\ ~f.open)
             THEN End(i)
             ELSE Go(i, [calls[i] EXCEPT !.pc = "alt"])
          /\ KeepFiles
    /\ UNCHANGED <<index, count>>

\* The disambiguated title; a second conflict is the same benign answer.
PostAlt(i) ==
    /\ At(i, "alt")
    /\ \/ Store(i, Alt[i])
       \/ ~Creatable(i, Alt[i]) /\ End(i) /\ KeepFiles
    /\ UNCHANGED <<index, count>>

\* A request of createThroughAPI returns an error that is no conflict, its file
\* stored or not: the command fails, and nothing is recorded.
PostFails(i) ==
    LET p == IF At(i, "post") THEN calls[i].path ELSE Alt[i] IN
    /\ calls[i].pc \in {"post", "alt"}
    /\ faults < MaxFaults /\ faults' = faults + 1
    /\ calls' = [calls EXCEPT ![i] = Idle]
    /\ \/ Creatable(i, p) /\ WriteFiles([files EXCEPT ![p] = Created(i)])
       \/ KeepFiles
    /\ UNCHANGED <<index, scanVars, count, edits>>

\* Variant: a path known under the identifier is left as it is.
KeepKnown(i, q) == UNCHANGED index /\ End(i)

\* recordCreatedTaskPath: a different known path is read first.
RecordBeside(i, q) ==
    UNCHANGED index /\ Go(i, [calls[i] EXCEPT !.pc = "presence", !.known = q])

RecordCreated(i) ==
    LET p == calls[i].path IN
    /\ At(i, "record")
    /\ \/ (Ambiguous(i) \/ Resolves(i, p)) /\ UNCHANGED index /\ End(i)
       \/ Misses(i) /\ Record(i, p) /\ End(i)
       \/ \E q \in Paths \ {p} : Resolves(i, q) /\ RecordBeside(i, q)
    /\ KeepFiles /\ UNCHANGED count

\* Both paths are recorded if the known file still carries the identifier.
Presence(i) ==
    /\ At(i, "presence")
    /\ IF ByCurrent(files[calls[i].known], i)
       THEN RecordDuplicate(i, calls[i].path) ELSE Record(i, calls[i].path)
    /\ End(i)
    /\ KeepFiles /\ UNCHANGED count

\* A read that fails for another reason than absence: the lookup's hit is not
\* taken, the walk skips the file, the create uses its own title, and the
\* index entry of a path that cannot be read is kept.
ReadFails(i) ==
    LET c == [calls[i] EXCEPT !.faulty = TRUE] IN
    /\ calls[i].pc \in {"verify", "check", "presence"}
    /\ faults < MaxFaults /\ faults' = faults + 1
    /\ calls' = [calls EXCEPT ![i] =
           CASE c.pc = "verify"   -> [c EXCEPT !.pc = "list", !.path = None]
             [] c.pc = "check"    -> [c EXCEPT !.pc = "post", !.path = Title]
             [] c.pc = "presence" -> Idle]
    /\ KeepFiles /\ UNCHANGED <<index, scanVars, count, edits>>

SkipsFile(i, p) ==
    /\ At(i, "walk") /\ p \in calls[i].todo
    /\ faults < MaxFaults /\ faults' = faults + 1
    /\ calls' = [calls EXCEPT ![i].todo = @ \ {p}, ![i].faulty = TRUE]
    /\ KeepFiles /\ UNCHANGED <<index, scanVars, count, edits>>

-----------------------------------------------------------------------------
(* Everything else that writes the directory: people, the scanner's repairs *)
(* and the agents' results through other components.                       *)

OthersWrite(fs) ==
    /\ edits < MaxEdits /\ edits' = edits + 1
    /\ UNCHANGED <<index, scanVars, calls, count, faults>>
    /\ WriteFiles(fs)

AddFile(p) ==
    /\ files[p] = None
    /\ \E i \in Ids : OthersWrite([files EXCEPT ![p] = Created(i)])

RemoveFile(p) == files[p] # None /\ OthersWrite([files EXCEPT ![p] = None])

CopyFile(p, q) ==
    files[p] # None /\ files[q] = None /\ OthersWrite([files EXCEPT ![q] = files[p]])

MoveFile(p, q) ==
    /\ files[p] # None /\ files[q] = None
    /\ OthersWrite([files EXCEPT ![p] = None, ![q] = files[p]])

\* injectAndStore: a new identifier, and the replaced one if that was a string
\* that is not a UUID.
Repair(p) ==
    /\ files[p] # None
    /\ \E i \in Ids \ (Legacy \cup {files[p].id}) :
          OthersWrite([files EXCEPT ![p].id = i,
                           ![p].prev = IF files[p].id \in Legacy THEN files[p].id ELSE @])

Others ==
    \/ \E p \in Paths : AddFile(p) \/ RemoveFile(p) \/ Repair(p)
    \/ \E p, q \in Paths : CopyFile(p, q) \/ MoveFile(p, q)

\* The index, the bookkeeping and the calls are in memory only.
Restart ==
    /\ faults < MaxFaults /\ faults' = faults + 1
    /\ index' = [i \in Ids |-> {}]
    /\ seen' = [p \in Paths |-> None] /\ scan' = Unscanned(triggerOnly)
    /\ calls' = [i \in Served |-> Idle]
    /\ KeepFiles /\ UNCHANGED <<triggerOnly, count, edits>>

Lookup(i) ==
    \/ Resolve(i) \/ Verify(i) \/ List(i) \/ WalkFound(i) \/ WalkMissed(i) \/ WriteResult(i)
    \/ \E p \in Paths : WalkFile(i, p) \/ SkipsFile(i, p)

Create(i) ==
    \/ Reuse(i) \/ Check(i) \/ Post(i) \/ PostAlt(i) \/ PostFails(i)
    \/ RecordCreated(i) \/ Presence(i)

Next ==
    \/ \E i \in Served : StartCommand(i) \/ Lookup(i) \/ Create(i) \/ ReadFails(i)
    \/ StartScan \/ PublishIndex
    \/ \E p \in Paths : ScanFile(p)
    \/ Others
    \/ Restart

Spec == Init /\ [][Next]_vars

-----------------------------------------------------------------------------
(* Properties *)

\* A lookup answers with a path that named the identifier during this very
\* attempt: neither a stale index entry nor a path that was repurposed since is
\* ever written to (resolveFromIndex verifies its hit, the walk compares).
LookupIsVerified ==
    \A i \in Served : At(i, "found") => calls[i].path \in carried[i]

\* A result is dropped as not found only if no readable file named its
\* identifier throughout the last attempt, a recorded predecessor included.
DropIsJustified ==
    [][\A i \in Served :
          WalkMissed(i) /\ calls[i].attempt = Attempts /\ ~calls[i].faulty
          => steady[i] = {}]_vars

\* Once the index knows two files of one identifier, only a rebuild forgets
\* one of them: no walk that raced the discovery collapses the entry (Record).
KnownDuplicateKept ==
    [][~PublishIndex /\ ~Restart =>
          \A i \in Ids : Ambiguous(i) => index[i] \subseteq index'[i]]_vars

\* A create whose identifier has a file the index names, and which carries it
\* all along, stores no second file beside it (reuseExistingIdentifierTitle).
CreateReusesTheFile ==
    [][\A i \in Served :
          (Post(i) \/ PostAlt(i) \/ PostFails(i)) /\ calls[i].known \in steady[i] /\ ~calls[i].faulty
             /\ ByCurrent(files[calls[i].known], i)
          => \A p \in Paths \ {calls[i].known} : files'[p] = files[p]]_vars

\* A create whose answer arrived does not end before its file can be resolved or
\* its identifier is a known duplicate, except with a fault: a failed read of the
\* path known before keeps that path's entry (recordCreatedTaskPath), and the new
\* file stays hidden behind it; a restart loses the index as a whole.  A create
\* whose answer is lost (PostFails) never gets to the record.
CreatedFileIsVisible ==
    [][\A i \in Served :
          calls[i].pc \in {"record", "presence"} /\ calls'[i] = Idle
          => \/ calls[i].path \in index'[i] \/ Cardinality(index'[i]) >= 2
             \/ faults' > faults]_vars

=============================================================================
