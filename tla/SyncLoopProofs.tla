----------------------------- MODULE SyncLoopProofs -----------------------------
(***************************************************************************)
(* Proofs about the scanner and the sync loop, for any paths, identifiers  *)
(* and contents, and any number of edits, failed requests and restarts.    *)
(***************************************************************************)
EXTENDS SyncLoop, TLAPS

\* The scanner has read a file and is about to write it, or its entry.
Rewriting == pc \in {"inject", "reset", "resetPost"}

\* What a write under way holds; a sweep goes through known paths.
WriteShape ==
    /\ Rewriting \/ pc = "sweepPost" => at \in [path : Paths, id : TaskId \cup {""}]
    /\ pc \in {"inject", "resetPost", "sweepPost"} => buf \in File
    /\ pc \in {"sweep", "sweepPost"} => todo \subseteq Known
    /\ pc = "sweepPost" => at.path \in Known /\ at.id = hashes[at.path].id

\* An entry with the hash of a task carries the task's identifier.
EntryShape ==
    \A p \in Known : hashes[p].hash \in File /\ hashes[p].hash.id \in TaskId
        => hashes[p].id = hashes[p].hash.id

\* An identifier the scanner may mint occurs nowhere before it is minted.
MintedOnly ==
    /\ \A p \in Present : files[p].id \in MintIds => files[p].id \in minted
    /\ \A p \in Known : hashes[p].id \in MintIds => hashes[p].id \in minted
    /\ pc \in {"inject", "resetPost", "sweepPost"} /\ buf.id \in MintIds => buf.id \in minted
    /\ Rewriting /\ at.id \in MintIds => at.id \in minted

\* Nobody else has the identifier that is about to be entered.
Claimed == Rewriting => \A q \in Known \ {at.path} : hashes[q].id # at.id

IdsInv == EntryShape /\ MintedOnly /\ Claimed /\ UniqueIdentifiers

\* The resets a path may have seen: one per re-delegation, and one for each that
\* was stored without its answer.
Allowed(p) == redelegations[p] + unanswered[p]

\* A named task whose entry has no name was re-delegated, and no reset since was
\* answered.
ResetOwed ==
    /\ \A p \in Known \cap Present : hashes[p].assignee = "" /\ files[p].assignee # ""
          => resets[p] < Allowed(p)
    /\ pc \in {"reset", "resetPost"} => resets[at.path] < Allowed(at.path)
    /\ pc = "inject" /\ at.path \in Known /\ hashes[at.path].assignee = "" /\ buf.assignee # ""
          => resets[at.path] < Allowed(at.path)

\* Neither the executor nor an agent touches such a file.
Parked(f) == f.assignee = "" /\ f.status = "hold" /\ f.job = ""

\* What the sweep parked, and what is about to be stored over it, is parked.
StaysParked ==
    /\ \A p \in swept \cap Present : Parked(files[p])
    /\ pc \in {"inject", "resetPost"} /\ at.path \in swept => Parked(buf)
    /\ pc = "sweepPost" => Parked(buf)

BudgetInv == ResetOncePerRedelegation /\ ResetOwed /\ StaysParked

\* A report has one content of a task.
Distinct(fs) == \A f, g \in fs : f.id = g.id => f = g

\* The cycle reports tasks of paths that it has been at.
ReportShape ==
    /\ pc = "idle" => changed = {} /\ deleted = {}
    /\ IdsOf(changed) \subseteq TaskId
    /\ Distinct(changed) /\ Distinct(batch.changed)
    /\ results # <<>> => Distinct(results[1].changed)
    /\ Rewriting \/ pc = "files" =>
          \A g \in changed : \E q \in Known \ todo :
             hashes[q].id = g.id /\ (Rewriting => q # at.path)

\* The report r says f of its task, or nothing.
Says(r, f)  == f \in r.changed /\ f.id \notin r.deleted
Silent(r, f) == f.id \notin IdsOf(r.changed) \cup r.deleted

\* Once the reports under way are published, the topic says f of its task.
InBatch(f) == Says(batch, f) \/ (Silent(batch, f) /\ view[f.id] = f)
Underway(f) ==
    IF results = <<>> THEN InBatch(f)
    ELSE Says(results[1], f) \/ (Silent(results[1], f) /\ InBatch(f))

\* A content the scanner must report.
Reportable(f) == f.id \in TaskId /\ f.assignee # "" /\ f.status # ""

\* f is in the report of this cycle, or the cycle does not mention its task and
\* the topic will say f.
Covered(f) ==
    \/ f \in changed
    \/ /\ f.id \notin IdsOf(changed) \cup deleted
       /\ f.id \notin lost => Underway(f)

\* What the scanner has seen of an assigned task reaches the topic.
Seen(f) == \E p \in Known : hashes[p].hash = f
Delivered == \A f \in File : Seen(f) /\ Reportable(f) => Covered(f)

SyncInv ==
    /\ TypeOK /\ WriteShape /\ IdsInv /\ BudgetInv /\ ReportShape /\ Delivered

-----------------------------------------------------------------------------
(* The other writers. *)

\* They write the files and the history of the files.
OnlyFiles ==
    UNCHANGED <<hashes, pc, todo, at, buf, changed, deleted, results, autoInject, minted,
                batch, view, lost, resets, unanswered, faults>>

\* One commit of theirs: a name over no name is counted.
LEMMA WriteFacts ==
    ASSUME TypeOK, NEW p \in Paths, NEW f \in File \cup {NoFile}, OthersWrite(p, f)
    PROVE  /\ OnlyFiles
           /\ edits' \in Nat
           /\ files' \in [Paths -> File \cup {NoFile}]
           /\ files'[p] = f /\ \A q \in Paths \ {p} : files'[q] = files[q]
           /\ redelegations' \in [Paths -> Nat]
           /\ \A q \in Paths : redelegations[q] <= redelegations'[q]
           /\ f # NoFile /\ f.assignee # "" /\ (files[p] = NoFile \/ files[p].assignee = "")
                => redelegations[p] < redelegations'[p]
<1>1. /\ files \in [Paths -> File \cup {NoFile}] /\ redelegations \in [Paths -> Nat] /\ edits \in Nat
  BY DEF TypeOK, ScannerTypeOK
<1>2. files' = [files EXCEPT ![p] = f] /\ edits' = edits + 1 /\ OnlyFiles
  BY DEF OthersWrite, Edit, OnlyFiles
<1>5. /\ edits' \in Nat
      /\ files' \in [Paths -> File \cup {NoFile}]
      /\ files'[p] = f /\ \A q \in Paths \ {p} : files'[q] = files[q]
  BY <1>1, <1>2
<1>3. CASE f # NoFile /\ f.assignee # "" /\ (files[p] = NoFile \/ files[p].assignee = "")
  <2>1. redelegations' = [redelegations EXCEPT ![p] = redelegations[p] + 1]
    BY <1>3 DEF OthersWrite
  <2>2. /\ redelegations' \in [Paths -> Nat] /\ redelegations[p] < redelegations'[p]
        /\ \A q \in Paths : redelegations[q] <= redelegations'[q]
    BY <1>1, <2>1
  <2> QED
    BY <1>2, <1>5, <2>2
<1>4. CASE ~(f # NoFile /\ f.assignee # "" /\ (files[p] = NoFile \/ files[p].assignee = ""))
  <2>1. redelegations' = redelegations
    BY <1>4 DEF OthersWrite
  <2>2. /\ redelegations' \in [Paths -> Nat]
        /\ \A q \in Paths : redelegations[q] <= redelegations'[q]
    BY <1>1, <2>1
  <2> QED
    BY <1>2, <1>4, <1>5, <2>2
<1> QED
  BY <1>3, <1>4

\* What the other writers keep, as far as the scanner relies on it.
OthersKeep ==
    /\ OnlyFiles
    /\ edits' \in Nat
    /\ files' \in [Paths -> File \cup {NoFile}]
    /\ redelegations' \in [Paths -> Nat]
    /\ \A q \in Paths : redelegations[q] <= redelegations'[q]
    /\ swept' \subseteq swept
    /\ \A q \in Paths : files'[q] # NoFile =>
          /\ files'[q].id \in MintIds => \E o \in Present : files[o].id = files'[q].id
          /\ files'[q].assignee # "" =>
                \/ redelegations[q] < redelegations'[q]
                \/ files[q] # NoFile /\ files[q].assignee # ""
    /\ \A q \in swept' : files[q] = NoFile \/ Parked(files[q]) => files'[q] = files[q]

\* A write to one path keeps it if its content is new or of that path.
LEMMA WriteKeeps ==
    ASSUME TypeOK, NEW p \in Paths, NEW f \in File \cup {NoFile}, OthersWrite(p, f),
           f # NoFile /\ f.id \in MintIds => files[p] # NoFile /\ files[p].id = f.id,
           swept' \subseteq swept,
           p \in swept' => files[p] # NoFile /\ ~Parked(files[p])
    PROVE  OthersKeep
<1>1. /\ OnlyFiles
      /\ edits' \in Nat
      /\ files' \in [Paths -> File \cup {NoFile}]
      /\ files'[p] = f /\ \A q \in Paths \ {p} : files'[q] = files[q]
      /\ redelegations' \in [Paths -> Nat]
      /\ \A q \in Paths : redelegations[q] <= redelegations'[q]
      /\ f # NoFile /\ f.assignee # "" /\ (files[p] = NoFile \/ files[p].assignee = "")
           => redelegations[p] < redelegations'[p]
  BY WriteFacts
<1>2. swept \subseteq Paths
  BY DEF TypeOK
<1>3. ASSUME NEW q \in Paths, files'[q] # NoFile
      PROVE  /\ files'[q].id \in MintIds => \E o \in Present : files[o].id = files'[q].id
             /\ files'[q].assignee # "" =>
                   \/ redelegations[q] < redelegations'[q]
                   \/ files[q] # NoFile /\ files[q].assignee # ""
  <2>1. CASE q = p
    BY <1>1, <1>3, <2>1 DEF Present
  <2>2. CASE q # p
    BY <1>1, <1>3, <2>2 DEF Present
  <2> QED
    BY <2>1, <2>2
<1>4. \A q \in swept' : files[q] = NoFile \/ Parked(files[q]) => files'[q] = files[q]
  BY <1>1, <1>2
<1> QED
  BY <1>1, <1>3, <1>4 DEF OthersKeep

\* A charged file.
LEMMA ChargedFile ==
    ASSUME NEW f \in File, NEW n \in Nat
    PROVE  LET g == [f EXCEPT !.count = n, !.job = "job"] IN g \in File /\ g.id = f.id
BY DEF File

\* All of them keep it.
LEMMA OthersStep ==
    ASSUME TypeOK, Others
    PROVE  OthersKeep
<1>0. files \in [Paths -> File \cup {NoFile}] /\ swept \subseteq Paths
  BY DEF TypeOK, ScannerTypeOK
<1>1. PICK p \in Paths :
        \/ Create(p) \/ Delete(p) \/ Delegate(p) \/ Charge(p) \/ Restore(p) \/ Result(p)
        \/ \E q \in Paths : Rename(p, q)
  BY DEF Others
<1>2. CASE Create(p)
  <2>1. PICK f \in NewFiles : OthersWrite(p, f) /\ swept' = swept \ {p}
    BY <1>2 DEF Create
  <2>2. f \in File /\ f.id \notin MintIds
    BY SyncAssumption
  <2> QED
    BY <2>1, <2>2, WriteKeeps
<1>3. CASE Delete(p)
  BY <1>3, WriteKeeps DEF Delete
<1>4. CASE Delegate(p)
  <2> DEFINE f == [files[p] EXCEPT !.assignee = "agent", !.status = "in_progress"]
  <2>1. files[p] \in File /\ files[p] # NoFile
    BY <1>0, <1>4 DEF Delegate
  <2>2. f \in File /\ f.id = files[p].id
    BY <2>1 DEF File
  <2>3. OthersWrite(p, f) /\ swept' = swept \ {p}
    BY <1>4 DEF Delegate
  <2> HIDE DEF f
  <2> QED
    BY <2>1, <2>2, <2>3, WriteKeeps
<1>5. CASE Charge(p)
  <2> DEFINE f == [files[p] EXCEPT !.count = files[p].count + 1, !.job = "job"]
  <2>1. files[p] \in File /\ files[p] # NoFile /\ ~Parked(files[p])
    BY <1>0, <1>5 DEF Charge, Parked
  <2>2. f \in File /\ f.id = files[p].id
    <3>0. files[p].count \in Nat
      BY <2>1 DEF File
    <3>1. files[p].count + 1 \in Nat
      BY <3>0
    <3>2. PICK n \in Nat : n = files[p].count + 1
      BY <3>1
    <3>3. f = [files[p] EXCEPT !.count = n, !.job = "job"]
      BY <3>2
    <3> HIDE DEF f
    <3> QED
      BY <2>1, <3>3, ChargedFile
  <2>3. OthersWrite(p, f) /\ swept' = swept
    BY <1>5 DEF Charge
  <2> HIDE DEF f
  <2> QED
    BY <2>1, <2>2, <2>3, WriteKeeps
<1>6. CASE Restore(p)
  <2> DEFINE f == [files[p] EXCEPT !.assignee = "agent"]
  <2>1. files[p] \in File /\ files[p] # NoFile /\ ~Parked(files[p])
    BY <1>0, <1>6 DEF Restore, Parked
  <2>2. f \in File /\ f.id = files[p].id
    BY <2>1 DEF File
  <2>3. OthersWrite(p, f) /\ swept' = swept
    BY <1>6 DEF Restore
  <2> HIDE DEF f
  <2> QED
    BY <2>1, <2>2, <2>3, WriteKeeps
<1>7. CASE Result(p)
  <2> DEFINE f == [files[p] EXCEPT !.job = ""]
             g == [files[p] EXCEPT !.job = "", !.phase = "human_review", !.assignee = ""]
  <2>1. files[p] \in File /\ files[p] # NoFile /\ ~Parked(files[p])
    BY <1>0, <1>7 DEF Result, Parked
  <2>2. f \in File /\ f.id = files[p].id /\ g \in File /\ g.id = files[p].id
    BY <2>1, ScannerAssumption DEF File
  <2>3. (OthersWrite(p, f) \/ OthersWrite(p, g)) /\ swept' = swept
    BY <1>7 DEF Result
  <2> HIDE DEF f, g
  <2> QED
    BY <2>1, <2>2, <2>3, WriteKeeps
<1>8. ASSUME NEW q \in Paths, Rename(p, q) PROVE OthersKeep
  <2>1. /\ files[p] # NoFile /\ files[q] = NoFile /\ p # q
        /\ files' = [files EXCEPT ![p] = NoFile, ![q] = files[p]]
        /\ redelegations' = [redelegations EXCEPT ![q] = redelegations[q] + 1]
        /\ swept' = swept \ {p, q} /\ edits' = edits + 1 /\ OnlyFiles
    BY <1>8 DEF Rename, Edit, OnlyFiles
  <2>2. redelegations \in [Paths -> Nat] /\ edits \in Nat
    BY DEF TypeOK
  <2>3. /\ files' \in [Paths -> File \cup {NoFile}]
        /\ files'[p] = NoFile /\ files'[q] = files[p]
        /\ \A o \in Paths \ {p, q} : files'[o] = files[o]
    BY <1>0, <2>1
  <2>4. /\ redelegations' \in [Paths -> Nat] /\ redelegations[q] < redelegations'[q]
        /\ \A o \in Paths : redelegations[o] <= redelegations'[o]
    BY <2>1, <2>2
  <2>5. ASSUME NEW o \in Paths, files'[o] # NoFile
        PROVE  /\ files'[o].id \in MintIds => \E s \in Present : files[s].id = files'[o].id
               /\ files'[o].assignee # "" =>
                     \/ redelegations[o] < redelegations'[o]
                     \/ files[o] # NoFile /\ files[o].assignee # ""
    <3>1. CASE o = q
      BY <2>1, <2>3, <2>4, <3>1 DEF Present
    <3>2. CASE o # q
      BY <2>3, <2>5, <3>2 DEF Present
    <3> QED
      BY <3>1, <3>2
  <2>6. \A o \in swept' : files[o] = NoFile \/ Parked(files[o]) => files'[o] = files[o]
    BY <1>0, <2>1, <2>3
  <2>7. edits' \in Nat /\ swept' \subseteq swept
    BY <2>1, <2>2
  <2> QED
    BY <2>1, <2>3, <2>4, <2>5, <2>6, <2>7 DEF OthersKeep
<1> QED
  BY <1>1, <1>2, <1>3, <1>4, <1>5, <1>6, <1>7, <1>8

-----------------------------------------------------------------------------
(* The steps of the scanner: the entries and contents they write. *)

\* The entry a write of the scanner leaves.
LEMMA SentinelFacts ==
    ASSUME NEW id \in TaskId \cup {""}, NEW a \in {"", "agent"}
    PROVE  /\ Sentinel(id, a) \in Entry /\ Sentinel(id, a) # NoEntry
           /\ Sentinel(id, a).hash = Zero /\ Sentinel(id, a).id = id /\ Sentinel(id, a).assignee = a
<1>1. Sentinel(id, a) \in Entry
  BY DEF Sentinel, Entry
<1> QED
  BY <1>1, ScannerAssumption DEF Sentinel

\* The entries of a file that was taken, and of one whose repair was refused.
LEMMA EntryFacts ==
    ASSUME NEW f \in File, NEW c \in BOOLEAN
    PROVE  LET taken == [hash |-> f, id |-> f.id, assignee |-> f.assignee, capped |-> c,
                         phase |-> f.phase]
               halted == [hash |-> f, id |-> "", assignee |-> f.assignee, capped |-> FALSE,
                          phase |-> ""] IN
           /\ f.id \in TaskId => taken \in Entry /\ taken # NoEntry
           /\ halted \in Entry /\ halted # NoEntry
<1> DEFINE taken == [hash |-> f, id |-> f.id, assignee |-> f.assignee, capped |-> c, phase |-> f.phase]
           halted == [hash |-> f, id |-> "", assignee |-> f.assignee, capped |-> FALSE, phase |-> ""]
<1>1. f.assignee \in {"", "agent"} /\ f.phase \in Phases
  BY DEF File
<1>2. f.id \in TaskId => taken \in Entry
  BY <1>1 DEF Entry
<1>3. halted \in Entry
  BY <1>1 DEF Entry
<1> QED
  BY <1>2, <1>3, ScannerAssumption

\* The contents the scanner writes.
LEMMA ContentFacts ==
    ASSUME NEW f \in File
    PROVE  /\ \A id \in MintIds : LET g == [f EXCEPT !.id = id] IN
                 /\ g \in File /\ g.id = id
                 /\ g.assignee = f.assignee /\ g.status = f.status /\ g.job = f.job
           /\ LET g == [f EXCEPT !.count = 0] IN
                 /\ g \in File /\ g.id = f.id
                 /\ g.assignee = f.assignee /\ g.status = f.status /\ g.job = f.job
           /\ SweptContent(f) \in File /\ SweptContent(f).id = f.id
           /\ Sweepable(f) => Parked(SweptContent(f))
<1>1. \A id \in MintIds : LET g == [f EXCEPT !.id = id] IN
         /\ g \in File /\ g.id = id
         /\ g.assignee = f.assignee /\ g.status = f.status /\ g.job = f.job
  BY DEF File, TaskId
<1>2. LET g == [f EXCEPT !.count = 0] IN
         /\ g \in File /\ g.id = f.id
         /\ g.assignee = f.assignee /\ g.status = f.status /\ g.job = f.job
  BY DEF File
<1>3. /\ SweptContent(f) \in File /\ SweptContent(f).id = f.id
      /\ SweptContent(f).job = f.job /\ SweptContent(f).assignee = ""
      /\ SweptContent(f).status = "hold"
  BY DEF File, SweptContent
<1> QED
  BY <1>1, <1>2, <1>3 DEF Sweepable, Parked

\* A file that is not in need of a repair has an identifier nobody else has.
LEMMA NoRepair ==
    ASSUME NEW p \in Paths, NEW f \in File, ~NeedsRepair(p, f)
    PROVE  f.id \in TaskId /\ \A q \in Known \ {p} : hashes[q].id # f.id
  BY DEF NeedsRepair, IsIdentifierUnique, File

\* The repair of a file mints an identifier that is new.
LEMMA BeginRepairFacts ==
    ASSUME TypeOK, NEW p \in Paths, BeginRepair(p)
    PROVE  /\ pc = "files" /\ pc' = "inject" /\ p \in todo /\ todo' = todo \ {p}
           /\ files[p] \in File /\ buf' \in File /\ buf'.id \in MintIds \ minted
           /\ buf'.assignee = files[p].assignee /\ buf'.status = files[p].status
           /\ buf'.job = files[p].job
           /\ minted' = minted \cup {buf'.id} /\ minted' \subseteq MintIds
           /\ at' = [path |-> p, id |-> buf'.id]
           /\ at' \in [path : Paths, id : TaskId \cup {""}] /\ at'.path = p /\ at'.id = buf'.id
           /\ UNCHANGED <<files, hashes, changed, deleted, results>>
<1>1. files[p] \in File
  BY DEF TypeOK, ScannerTypeOK, BeginRepair, Present
<1>2. PICK id \in MintIds \ minted :
        buf' = [files[p] EXCEPT !.id = id] /\ minted' = minted \cup {id}
  BY DEF BeginRepair
<1>3. /\ buf' \in File /\ buf'.id = id
      /\ buf'.assignee = files[p].assignee /\ buf'.status = files[p].status
      /\ buf'.job = files[p].job
  BY <1>1, <1>2, ContentFacts
<1>4. at' = [path |-> p, id |-> buf'.id]
  BY DEF BeginRepair
<1>5. at' \in [path : Paths, id : TaskId \cup {""}] /\ at'.path = p /\ at'.id = buf'.id
  BY <1>3, <1>4 DEF TaskId
<1>6. minted \subseteq MintIds
  BY DEF TypeOK, ScannerTypeOK
<1>7. /\ pc = "files" /\ pc' = "inject" /\ p \in todo /\ todo' = todo \ {p}
      /\ UNCHANGED <<files, hashes, changed, deleted, results>>
  BY DEF BeginRepair
<1> QED
  BY <1>1, <1>2, <1>3, <1>4, <1>5, <1>6, <1>7

\* The reset of a re-delegated task begins with what was read.
LEMMA BeginResetFacts ==
    ASSUME TypeOK, NEW p \in Paths, BeginReset(p)
    PROVE  /\ pc = "files" /\ pc' = "reset" /\ p \in todo /\ todo' = todo \ {p}
           /\ files[p] \in File /\ files[p].id \in TaskId
           /\ \A q \in Known \ {p} : hashes[q].id # files[p].id
           /\ p \in Known /\ hashes[p].assignee = "" /\ files[p].assignee # ""
           /\ at' \in [path : Paths, id : TaskId \cup {""}] /\ at'.path = p /\ at'.id = files[p].id
           /\ UNCHANGED <<files, hashes, buf, changed, deleted, results, minted>>
<1>1. files[p] \in File
  BY DEF TypeOK, ScannerTypeOK, BeginReset, Present
<1>2. ~NeedsRepair(p, files[p]) /\ Redelegated(p, files[p]) /\ at' = [path |-> p, id |-> files[p].id]
  BY DEF BeginReset
<1>3. files[p].id \in TaskId /\ \A q \in Known \ {p} : hashes[q].id # files[p].id
  BY <1>1, <1>2, NoRepair
<1>4. /\ pc = "files" /\ pc' = "reset" /\ p \in todo /\ todo' = todo \ {p}
      /\ UNCHANGED <<files, hashes, buf, changed, deleted, results, minted>>
  BY DEF BeginReset
<1> QED
  BY <1>1, <1>2, <1>3, <1>4 DEF Redelegated

\* The entry of a file that is taken, and whether it is reported.
LEMMA TakeFileFacts ==
    ASSUME TypeOK, NEW p \in Paths, TakeFile(p)
    PROVE  /\ pc = "files" /\ pc' = pc /\ p \in todo /\ todo' = todo \ {p}
           /\ files[p] \in File /\ files[p].id \in TaskId
           /\ \A q \in Known \ {p} : hashes[q].id # files[p].id
           /\ hashes' \in [Paths -> Entry \cup {NoEntry}]
           /\ \A q \in Paths \ {p} : hashes'[q] = hashes[q]
           /\ hashes'[p] # NoEntry /\ hashes'[p].hash = files[p] /\ hashes'[p].id = files[p].id
           /\ hashes'[p].assignee = files[p].assignee
           /\ changed' \in {changed, changed \cup {files[p]}}
           /\ Reportable(files[p]) => files[p] \in changed'
           /\ UNCHANGED <<files, at, buf, deleted, results, minted>>
<1> DEFINE f == files[p]
           e == [hash |-> f, id |-> f.id, assignee |-> f.assignee,
                 capped |-> IsCappedIdle(f), phase |-> f.phase]
<1>1. f \in File /\ hashes \in [Paths -> Entry \cup {NoEntry}]
  BY DEF TypeOK, ScannerTypeOK, TakeFile, Present
<1>2. ~NeedsRepair(p, f) /\ hashes' = [hashes EXCEPT ![p] = e]
      /\ changed' = IF Reported(p, f) THEN changed \cup {f} ELSE changed
  BY DEF TakeFile, SetEntry
<1>3. f.id \in TaskId /\ \A q \in Known \ {p} : hashes[q].id # f.id
  BY <1>1, <1>2, NoRepair
<1>4. IsCappedIdle(f) \in BOOLEAN
  BY DEF IsCappedIdle
<1>5. e \in Entry /\ e # NoEntry
  BY <1>1, <1>3, <1>4, EntryFacts
<1>6. e.hash = f /\ e.id = f.id /\ e.assignee = f.assignee
  OBVIOUS
<1>7. /\ pc = "files" /\ pc' = pc /\ p \in todo /\ todo' = todo \ {p}
      /\ UNCHANGED <<files, at, buf, deleted, results, minted>>
  BY DEF TakeFile
<1>8. Reportable(f) => f \in changed'
  BY <1>2 DEF Reportable, Reported
<1> HIDE DEF e
<1>9. /\ hashes' \in [Paths -> Entry \cup {NoEntry}] /\ hashes'[p] = e
      /\ \A q \in Paths \ {p} : hashes'[q] = hashes[q]
  BY <1>1, <1>2, <1>5
<1> QED
  BY <1>1, <1>2, <1>3, <1>5, <1>6, <1>7, <1>8, <1>9

\* The entry of a file whose repair is refused.
LEMMA HaltRepairFacts ==
    ASSUME TypeOK, NEW p \in Paths, HaltRepair(p)
    PROVE  /\ pc = "files" /\ pc' = pc /\ p \in todo /\ todo' = todo \ {p}
           /\ files[p] \in File
           /\ hashes' \in [Paths -> Entry \cup {NoEntry}]
           /\ \A q \in Paths \ {p} : hashes'[q] = hashes[q]
           /\ hashes'[p] # NoEntry /\ hashes'[p].hash = files[p] /\ hashes'[p].id = ""
           /\ hashes'[p].hash.id \notin TaskId /\ hashes'[p].assignee = files[p].assignee
           /\ UNCHANGED <<files, at, buf, changed, deleted, results, minted>>
<1> DEFINE f == files[p]
           e == [hash |-> f, id |-> "", assignee |-> f.assignee, capped |-> FALSE, phase |-> ""]
<1>1. f \in File /\ hashes \in [Paths -> Entry \cup {NoEntry}]
  BY DEF TypeOK, ScannerTypeOK, HaltRepair, Present
<1>2. hashes' = [hashes EXCEPT ![p] = e] /\ f.id = "stuck"
  BY DEF HaltRepair, SetEntry
<1>3. e \in Entry /\ e # NoEntry
  BY <1>1, EntryFacts
<1>4. f.id \notin TaskId
  BY <1>2, ScannerAssumption
<1>5. e.hash = f /\ e.id = "" /\ e.assignee = f.assignee
  OBVIOUS
<1>6. /\ pc = "files" /\ pc' = pc /\ p \in todo /\ todo' = todo \ {p}
      /\ UNCHANGED <<files, at, buf, changed, deleted, results, minted>>
  BY DEF HaltRepair
<1> HIDE DEF e
<1>7. /\ hashes' \in [Paths -> Entry \cup {NoEntry}] /\ hashes'[p] = e
      /\ \A q \in Paths \ {p} : hashes'[q] = hashes[q]
  BY <1>1, <1>2, <1>3
<1> QED
  BY <1>1, <1>3, <1>4, <1>5, <1>6, <1>7

\* The histories no step of the scanner proper writes.
ReportsKept == UNCHANGED <<changed, deleted, results, batch, view, lost>>

\* The scanner goes on to the next path, or to the sweep, and writes nothing.
Passes ==
    /\ \/ pc = "files" /\ pc' = "files" /\ todo' \subseteq todo
       \/ pc = "files" /\ pc' = "sweep" /\ todo' \subseteq Known
       \/ pc = "sweep" /\ pc' = "sweep" /\ todo' \subseteq todo
    /\ ReportsKept
    /\ UNCHANGED <<files, hashes, at, buf, minted, swept, redelegations, resets, unanswered>>

\* A write of the scanner ends, stored or not, and with or without its entry.
WriteEnds ==
    LET p == at.path IN
    /\ pc \in {"inject", "reset", "resetPost", "sweepPost"} /\ p \in Paths
    /\ pc' = IF pc = "sweepPost" THEN "sweep" ELSE "files"
    /\ at' = NoFile /\ buf' = NoFile
    /\ ReportsKept /\ UNCHANGED <<todo, minted, redelegations>>
    /\ files' \in [Paths -> File \cup {NoFile}]
    /\ hashes' \in [Paths -> Entry \cup {NoEntry}]
    /\ resets' \in [Paths -> Nat] /\ unanswered' \in [Paths -> Nat]
    /\ \A q \in Paths \ {p} :
          /\ files'[q] = files[q] /\ hashes'[q] = hashes[q]
          /\ resets'[q] = resets[q] /\ unanswered'[q] = unanswered[q]
    /\ files'[p] = files[p] \/ (pc # "reset" /\ files'[p] = buf)
    /\ \/ /\ hashes'[p] = hashes[p] /\ swept' = swept
          /\ resets'[p] = resets[p] /\ unanswered'[p] = unanswered[p]
       \/ /\ hashes'[p] = hashes[p] /\ swept' = swept /\ pc = "resetPost"
          /\ resets'[p] = resets[p] + 1 /\ unanswered'[p] = unanswered[p] + 1
       \/ /\ unanswered'[p] = unanswered[p]
          /\ hashes'[p] # NoEntry /\ hashes'[p].hash = Zero /\ hashes'[p].id = at.id
          /\ \/ /\ pc = "inject" /\ files'[p] = buf /\ hashes'[p].assignee = buf.assignee
                /\ resets'[p] = resets[p] /\ swept' = swept
             \/ /\ pc \in {"reset", "resetPost"} /\ hashes'[p].assignee = "agent"
                /\ resets'[p] <= resets[p] + 1 /\ swept' = swept
             \/ /\ pc = "sweepPost" /\ files'[p] = buf /\ hashes'[p].assignee = ""
                /\ resets'[p] = resets[p] /\ swept' = swept \cup {p}

\* What is stored is the content under way, and the entry the one given.
LEMMA StoreFacts ==
    ASSUME TypeOK, WriteShape, pc \in {"inject", "resetPost", "sweepPost"}, StoreFile
    PROVE  /\ files' \in [Paths -> File \cup {NoFile}]
           /\ files'[at.path] = buf
           /\ \A q \in Paths \ {at.path} : files'[q] = files[q]
<1>1. at.path \in Paths /\ buf \in File /\ files \in [Paths -> File \cup {NoFile}]
  BY DEF TypeOK, ScannerTypeOK, WriteShape, Rewriting
<1> QED
  BY <1>1 DEF StoreFile

\* The entry of a path is replaced by a sentinel.
LEMMA SetEntryFacts ==
    ASSUME TypeOK, NEW p \in Paths, NEW id \in TaskId \cup {""}, NEW a \in {"", "agent"},
           SetEntry(p, Sentinel(id, a))
    PROVE  /\ hashes' \in [Paths -> Entry \cup {NoEntry}]
           /\ \A q \in Paths \ {p} : hashes'[q] = hashes[q]
           /\ hashes'[p] # NoEntry /\ hashes'[p].hash = Zero /\ hashes'[p].id = id
           /\ hashes'[p].assignee = a
<1>1. hashes \in [Paths -> Entry \cup {NoEntry}]
  BY DEF TypeOK, ScannerTypeOK
<1>2. /\ Sentinel(id, a) \in Entry /\ Sentinel(id, a) # NoEntry
      /\ Sentinel(id, a).hash = Zero /\ Sentinel(id, a).id = id /\ Sentinel(id, a).assignee = a
  BY SentinelFacts
<1>3. hashes' = [hashes EXCEPT ![p] = Sentinel(id, a)]
  BY DEF SetEntry
<1>4. hashes' \in [Paths -> Entry \cup {NoEntry}] /\ hashes'[p] = Sentinel(id, a)
      /\ \A q \in Paths \ {p} : hashes'[q] = hashes[q]
  BY <1>1, <1>2, <1>3
<1> QED
  BY <1>2, <1>4

\* The write of a repair.
LEMMA FinishRepairEnds ==
    ASSUME TypeOK, WriteShape, FinishRepair, UNCHANGED syncVars
    PROVE  WriteEnds
<1>1. /\ at.path \in Paths /\ at.id \in TaskId \cup {""} /\ buf \in File
      /\ buf.assignee \in {"", "agent"} /\ pc = "inject"
  BY DEF WriteShape, Rewriting, FinishRepair, File
<1>2. /\ files \in [Paths -> File \cup {NoFile}] /\ hashes \in [Paths -> Entry \cup {NoEntry}]
      /\ resets \in [Paths -> Nat] /\ resets' = resets
      /\ unanswered \in [Paths -> Nat] /\ unanswered' = unanswered
  BY DEF TypeOK, ScannerTypeOK, syncVars
<1>3. /\ pc' = "files" /\ at' = NoFile /\ buf' = NoFile /\ swept' = swept
      /\ ReportsKept /\ UNCHANGED <<todo, minted, redelegations>>
  BY DEF FinishRepair, WriteDone, ReportsKept, syncVars
<1>4. CASE StoreFile /\ SetEntry(at.path, Sentinel(at.id, buf.assignee))
  BY <1>1, <1>2, <1>3, <1>4, StoreFacts, SetEntryFacts DEF WriteEnds
<1>5. CASE StoreFile /\ hashes' = hashes
  BY <1>1, <1>2, <1>3, <1>5, StoreFacts DEF WriteEnds
<1>6. CASE files' = files /\ hashes' = hashes
  BY <1>1, <1>2, <1>3, <1>6 DEF WriteEnds
<1> QED
  BY <1>4, <1>5, <1>6 DEF FinishRepair

\* The POST of a reset.
LEMMA ResetPostedEnds ==
    ASSUME TypeOK, WriteShape, ResetPosted
    PROVE  WriteEnds
<1>1. at.path \in Paths /\ at.id \in TaskId \cup {""} /\ buf \in File /\ pc = "resetPost"
  BY DEF WriteShape, Rewriting, ResetPosted, PostReset
<1>2. /\ resets \in [Paths -> Nat] /\ unanswered \in [Paths -> Nat] /\ unanswered' = unanswered
      /\ resets' = [resets EXCEPT ![at.path] = resets[at.path] + 1]
  BY DEF TypeOK, ResetPosted
<1>3. /\ pc' = "files" /\ at' = NoFile /\ buf' = NoFile /\ swept' = swept
      /\ ReportsKept /\ UNCHANGED <<todo, minted, redelegations>>
      /\ StoreFile /\ SetEntry(at.path, Sentinel(at.id, "agent"))
  BY DEF ResetPosted, PostReset, ResetEntry, WriteDone, ReportsKept
<1>4. /\ resets' \in [Paths -> Nat] /\ resets'[at.path] <= resets[at.path] + 1
      /\ \A q \in Paths \ {at.path} : resets'[q] = resets[q]
  <2>1. at.path \in Paths
    BY <1>1
  <2>2. PICK p \in Paths : p = at.path
    BY <2>1
  <2>3. resets' = [resets EXCEPT ![p] = resets[p] + 1]
    BY <1>2, <2>2
  <2>4. /\ resets' \in [Paths -> Nat] /\ resets'[p] <= resets[p] + 1
        /\ \A q \in Paths \ {p} : resets'[q] = resets[q]
    BY <1>2, <2>3
  <2> QED
    BY <2>2, <2>4
<1>5. /\ files' \in [Paths -> File \cup {NoFile}] /\ files'[at.path] = buf
      /\ \A q \in Paths \ {at.path} : files'[q] = files[q]
  BY <1>1, <1>3, StoreFacts
<1>6. /\ hashes' \in [Paths -> Entry \cup {NoEntry}]
      /\ \A q \in Paths \ {at.path} : hashes'[q] = hashes[q]
      /\ hashes'[at.path] # NoEntry /\ hashes'[at.path].hash = Zero
      /\ hashes'[at.path].id = at.id /\ hashes'[at.path].assignee = "agent"
  BY <1>1, <1>3, SetEntryFacts
<1> QED
  BY <1>1, <1>2, <1>3, <1>4, <1>5, <1>6 DEF WriteEnds

\* The POST of the sweep.
LEMMA SweepPostedEnds ==
    ASSUME TypeOK, WriteShape, SweepPosted
    PROVE  WriteEnds
<1>1. at.path \in Paths /\ at.id \in TaskId \cup {""} /\ buf \in File /\ pc = "sweepPost"
  BY DEF WriteShape, SweepPosted, PostSweep
<1>2. /\ resets \in [Paths -> Nat] /\ resets' = resets
      /\ unanswered \in [Paths -> Nat] /\ unanswered' = unanswered
  BY DEF TypeOK, SweepPosted
<1>3. /\ pc' = "sweep" /\ at' = NoFile /\ buf' = NoFile /\ swept' = swept \cup {at.path}
      /\ ReportsKept /\ UNCHANGED <<todo, minted, redelegations>>
      /\ StoreFile /\ SetEntry(at.path, Sentinel(at.id, ""))
  BY DEF SweepPosted, PostSweep, WriteDone, ReportsKept
<1>5. /\ files' \in [Paths -> File \cup {NoFile}] /\ files'[at.path] = buf
      /\ \A q \in Paths \ {at.path} : files'[q] = files[q]
  BY <1>1, <1>3, StoreFacts
<1>6. /\ hashes' \in [Paths -> Entry \cup {NoEntry}]
      /\ \A q \in Paths \ {at.path} : hashes'[q] = hashes[q]
      /\ hashes'[at.path] # NoEntry /\ hashes'[at.path].hash = Zero
      /\ hashes'[at.path].id = at.id /\ hashes'[at.path].assignee = ""
  BY <1>1, <1>3, SetEntryFacts
<1> QED
  BY <1>1, <1>2, <1>3, <1>5, <1>6 DEF WriteEnds

\* A POST that returns an error.
LEMMA PostLostEnds ==
    ASSUME TypeOK, WriteShape, PostLost
    PROVE  WriteEnds
<1>1. at.path \in Paths /\ buf \in File /\ pc \in {"resetPost", "sweepPost"}
  BY DEF WriteShape, Rewriting, PostLost, PostFails
<1>2. /\ files \in [Paths -> File \cup {NoFile}] /\ hashes \in [Paths -> Entry \cup {NoEntry}]
      /\ resets \in [Paths -> Nat] /\ unanswered \in [Paths -> Nat] /\ hashes' = hashes
  BY DEF TypeOK, ScannerTypeOK, PostLost, PostFails
<1>3. /\ pc' = (IF pc = "resetPost" THEN "files" ELSE "sweep")
      /\ at' = NoFile /\ buf' = NoFile /\ swept' = swept
      /\ ReportsKept /\ UNCHANGED <<todo, minted, redelegations>>
  BY DEF PostLost, PostFails, WriteDone, ReportsKept
<1>4. CASE pc = "resetPost" /\ StoreFile
           /\ resets' = [resets EXCEPT ![at.path] = resets[at.path] + 1]
           /\ unanswered' = [unanswered EXCEPT ![at.path] = unanswered[at.path] + 1]
  <2>1. PICK p \in Paths : p = at.path
    BY <1>1
  <2>2. /\ resets' = [resets EXCEPT ![p] = resets[p] + 1]
        /\ unanswered' = [unanswered EXCEPT ![p] = unanswered[p] + 1]
    BY <1>4, <2>1
  <2>3. /\ resets' \in [Paths -> Nat] /\ unanswered' \in [Paths -> Nat]
        /\ \A q \in Paths \ {p} : resets'[q] = resets[q] /\ unanswered'[q] = unanswered[q]
        /\ resets'[p] = resets[p] + 1 /\ unanswered'[p] = unanswered[p] + 1
    BY <1>2, <2>2
  <2>4. /\ resets' \in [Paths -> Nat] /\ unanswered' \in [Paths -> Nat]
        /\ \A q \in Paths \ {at.path} : resets'[q] = resets[q] /\ unanswered'[q] = unanswered[q]
        /\ resets'[at.path] = resets[at.path] + 1 /\ unanswered'[at.path] = unanswered[at.path] + 1
    BY <2>1, <2>3
  <2> QED
    BY <1>1, <1>2, <1>3, <1>4, <2>4, StoreFacts DEF WriteEnds
<1>5. CASE StoreFile /\ UNCHANGED <<resets, unanswered>>
  BY <1>1, <1>2, <1>3, <1>5, StoreFacts DEF WriteEnds
<1>6. CASE files' = files /\ UNCHANGED <<resets, unanswered>>
  BY <1>1, <1>2, <1>3, <1>6 DEF WriteEnds
<1> QED
  BY <1>4, <1>5, <1>6 DEF PostLost, PostFails

\* A reset ends early where there is nothing to write, or goes on with the file
\* it has read.
ReadsForReset ==
    /\ pc = "reset" /\ pc' = "resetPost"
    /\ files[at.path] \in File /\ buf' \in File /\ buf'.id = files[at.path].id
    /\ buf'.assignee = files[at.path].assignee /\ buf'.status = files[at.path].status
    /\ buf'.job = files[at.path].job
    /\ ReportsKept
    /\ UNCHANGED <<files, hashes, todo, at, minted, swept, redelegations, resets, unanswered>>

\* The GET of a reset.
LEMMA GetForResetKinds ==
    ASSUME TypeOK, WriteShape, GetForReset, UNCHANGED syncVars
    PROVE  WriteEnds \/ ReadsForReset
<1>1. at.path \in Paths /\ at.id \in TaskId \cup {""} /\ pc = "reset"
  BY DEF WriteShape, Rewriting, GetForReset
<1>2. /\ files \in [Paths -> File \cup {NoFile}] /\ hashes \in [Paths -> Entry \cup {NoEntry}]
      /\ resets \in [Paths -> Nat] /\ unanswered \in [Paths -> Nat]
  BY DEF TypeOK, ScannerTypeOK
<1>3. /\ resets' = resets /\ unanswered' = unanswered /\ swept' = swept /\ files' = files
      /\ ReportsKept /\ UNCHANGED <<todo, minted, redelegations>>
  BY DEF GetForReset, ReportsKept, syncVars
<1>4. CASE WriteDone("files") /\ UNCHANGED hashes
  BY <1>1, <1>2, <1>3, <1>4 DEF WriteEnds, WriteDone
<1>5. CASE WriteDone("files") /\ SetEntry(at.path, ResetEntry(at.id))
  <2>1. SetEntry(at.path, Sentinel(at.id, "agent"))
    BY <1>5 DEF ResetEntry
  <2>2. /\ hashes' \in [Paths -> Entry \cup {NoEntry}]
        /\ \A q \in Paths \ {at.path} : hashes'[q] = hashes[q]
        /\ hashes'[at.path] # NoEntry /\ hashes'[at.path].hash = Zero
        /\ hashes'[at.path].id = at.id /\ hashes'[at.path].assignee = "agent"
    BY <1>1, <2>1, SetEntryFacts
  <2>3. resets'[at.path] <= resets[at.path] + 1
    <3>1. resets[at.path] \in Nat
      BY <1>1, <1>2
    <3> QED
      BY <1>3, <3>1
  <2> QED
    BY <1>1, <1>2, <1>3, <1>5, <2>2, <2>3 DEF WriteEnds, WriteDone
<1>6. CASE /\ files[at.path] # NoFile
           /\ pc' = "resetPost" /\ buf' = [files[at.path] EXCEPT !.count = 0]
           /\ UNCHANGED <<at, hashes>>
  <2>1. files[at.path] \in File
    BY <1>1, <1>2, <1>6
  <2>2. /\ buf' \in File /\ buf'.id = files[at.path].id
        /\ buf'.assignee = files[at.path].assignee /\ buf'.status = files[at.path].status
        /\ buf'.job = files[at.path].job
    BY <1>6, <2>1, ContentFacts
  <2> QED
    BY <1>1, <1>3, <1>6, <2>1, <2>2 DEF ReadsForReset
<1> QED
  BY <1>4, <1>5, <1>6 DEF GetForReset

\* The GET of a sweep finds nothing to do, or the content to park.
ReadsForSweep ==
    /\ pc = "sweep" /\ pc' = "sweepPost" /\ todo' \subseteq todo
    /\ at' \in [path : Paths, id : TaskId \cup {""}]
    /\ at'.path \in Known /\ at'.id = hashes[at'.path].id
    /\ files[at'.path] \in File /\ buf' \in File /\ buf'.id = files[at'.path].id /\ Parked(buf')
    /\ ReportsKept
    /\ UNCHANGED <<files, hashes, minted, swept, redelegations, resets, unanswered>>

\* The GET of one candidate.
LEMMA GetForSweepKinds ==
    ASSUME TypeOK, WriteShape, NEW p \in Paths, GetForSweep(p), UNCHANGED syncVars
    PROVE  Passes \/ ReadsForSweep
<1>1. /\ pc = "sweep" /\ p \in Known /\ todo' \subseteq todo
      /\ ReportsKept
      /\ UNCHANGED <<files, hashes, minted, swept, redelegations, resets, unanswered>>
  BY DEF WriteShape, GetForSweep, ReportsKept, syncVars
<1>2. CASE UNCHANGED <<pc, at, buf>>
  BY <1>1, <1>2 DEF Passes
<1>3. CASE /\ files[p] # NoFile /\ Sweepable(files[p])
           /\ pc' = "sweepPost" /\ at' = [path |-> p, id |-> hashes[p].id]
           /\ buf' = SweptContent(files[p])
  <2>1. files[p] \in File /\ hashes[p] \in Entry
    BY <1>1, <1>3 DEF TypeOK, ScannerTypeOK, Known
  <2>2. hashes[p].id \in TaskId \cup {""}
    BY <2>1 DEF Entry
  <2>3. /\ at' \in [path : Paths, id : TaskId \cup {""}]
        /\ at'.path = p /\ at'.id = hashes[p].id
    BY <1>3, <2>2
  <2>4. buf' \in File /\ buf'.id = files[p].id /\ Parked(buf')
    BY <1>3, <2>1, ContentFacts
  <2> QED
    BY <1>1, <1>3, <2>1, <2>3, <2>4 DEF ReadsForSweep
<1> QED
  BY <1>2, <1>3 DEF GetForSweep

\* A cycle starts: what vanished is reported and forgotten.
Starts ==
    /\ pc = "idle" /\ pc' = "files" /\ todo' = Present
    /\ deleted' = VanishedIds /\ deleted' \subseteq TaskId
    /\ hashes' \in [Paths -> Entry \cup {NoEntry}]
    /\ \A q \in Paths : hashes'[q] # NoEntry => q \in Present /\ hashes'[q] = hashes[q]
    /\ UNCHANGED <<changed, results, batch, view, lost>>
    /\ UNCHANGED <<files, at, buf, minted, swept, redelegations, resets, unanswered>>

\* The listing of a cycle.
LEMMA StartFacts ==
    ASSUME TypeOK, StartCycle, UNCHANGED syncVars
    PROVE  Starts
<1>1. hashes \in [Paths -> Entry \cup {NoEntry}]
  BY DEF TypeOK, ScannerTypeOK
<1>2. VanishedIds \subseteq TaskId
  BY <1>1 DEF VanishedIds, Known, Entry
<1>3. hashes' = [p \in Paths |-> IF p \in Present THEN hashes[p] ELSE NoEntry]
  BY DEF StartCycle
<1>4. /\ hashes' \in [Paths -> Entry \cup {NoEntry}]
      /\ \A q \in Paths : hashes'[q] # NoEntry => q \in Present /\ hashes'[q] = hashes[q]
  BY <1>1, <1>3
<1>5. /\ pc = "idle" /\ pc' = "files" /\ todo' = Present /\ deleted' = VanishedIds
      /\ UNCHANGED <<changed, results, batch, view, lost>>
      /\ UNCHANGED <<files, at, buf, minted, swept, redelegations, resets, unanswered>>
  BY DEF StartCycle, syncVars
<1> QED
  BY <1>2, <1>4, <1>5 DEF Starts

\* A cycle ends and its report is sent, or dropped.
Sends ==
    /\ pc \in {"idle", "sweep"} /\ pc' = "idle"
    /\ changed' = {} /\ deleted' = {}
    /\ results' = IF results = <<>> THEN <<[changed |-> changed, deleted |-> deleted]>> ELSE results
    /\ lost' = IF results # <<>> THEN lost \cup IdsOf(changed)
               ELSE (lost \ IdsOf(changed)) \cup (IdsOf(changed) \cap deleted)
    /\ UNCHANGED <<files, hashes, todo, at, buf, minted, batch, view, swept, redelegations, resets, unanswered>>

\* A failed listing sends the empty report a cycle starts with.
LEMMA SendFacts ==
    ASSUME ReportShape, CycleSent
    PROVE  Sends
<1>1. CASE EndCycle
  BY <1>1 DEF EndCycle, CycleSent, SendResult, Sends
<1>2. CASE ListFails
  BY <1>2 DEF ListFails, CycleSent, SendResult, Sends, ReportShape
<1> QED
  BY <1>1, <1>2 DEF CycleSent

\* The steps that look at one path, in the composition.
LooksAt(p) ==
    /\ HaltRepair(p) \/ BeginRepair(p) \/ BeginReset(p) \/ TakeFile(p)
    /\ UNCHANGED syncVars

\* The sync loop publishes one event.
Publishes ==
    \/ \E f \in batch.changed : PublishChanged(f)
    \/ \E i \in batch.deleted : PublishDeleted(i)

\* The steps, told apart by what they do to the entries and the reports.
Kinds ==
    \/ OthersKeep
    \/ Passes \/ Starts \/ ReadsForReset \/ ReadsForSweep \/ WriteEnds
    \/ \E p \in Paths : LooksAt(p)
    \/ Sends \/ Receive \/ Publishes \/ Restart

\* Every step is of one of these kinds.
LEMMA StepKinds ==
    ASSUME TypeOK, WriteShape, ReportShape, Next
    PROVE  Kinds
<1>1. CASE Others
  BY <1>1, OthersStep DEF Kinds
<1>2. CASE Scan
  <2>1. UNCHANGED syncVars
    BY <1>2 DEF Scan
  <2>2. CASE StartCycle
    BY <2>1, <2>2, StartFacts DEF Kinds
  <2>3. ASSUME NEW p \in Paths, SkipFile(p) PROVE Kinds
    BY <2>1, <2>3 DEF SkipFile, Passes, ReportsKept, syncVars, Kinds
  <2>4. ASSUME NEW p \in Paths, HaltRepair(p) \/ BeginRepair(p) \/ BeginReset(p) \/ TakeFile(p)
        PROVE  Kinds
    BY <2>1, <2>4 DEF LooksAt, Kinds
  <2>5. ASSUME NEW p \in Paths, GetForSweep(p) PROVE Kinds
    BY <2>1, <2>5, GetForSweepKinds DEF Kinds
  <2>6. CASE FinishRepair
    BY <2>1, <2>6, FinishRepairEnds DEF Kinds
  <2>7. CASE GetForReset
    BY <2>1, <2>7, GetForResetKinds DEF Kinds
  <2>8. CASE BeginSweep
    <3>1. todo' \subseteq Known
      BY <2>8 DEF BeginSweep
    <3> QED
      BY <2>1, <2>8, <3>1 DEF BeginSweep, Passes, ReportsKept, syncVars, Kinds
  <2> QED
    BY <1>2, <2>2, <2>3, <2>4, <2>5, <2>6, <2>7, <2>8 DEF Scan
<1>3. CASE ResetPosted
  BY <1>3, ResetPostedEnds DEF Kinds
<1>4. CASE SweepPosted
  BY <1>4, SweepPostedEnds DEF Kinds
<1>5. CASE PostLost
  BY <1>5, PostLostEnds DEF Kinds
<1>6. CASE CycleSent
  BY <1>6, SendFacts DEF Kinds
<1>7. CASE Receive \/ Restart
  BY <1>7 DEF Kinds
<1>8. CASE Publishes
  BY <1>8 DEF Kinds
<1> QED
  BY <1>1, <1>2, <1>3, <1>4, <1>5, <1>6, <1>7, <1>8 DEF Next, Publishes

\* The switch is never touched.
LEMMA SwitchKept ==
    ASSUME Next
    PROVE  autoInject' = autoInject
<1>1. ASSUME NEW p \in Paths, NEW f, OthersWrite(p, f) PROVE autoInject' = autoInject
  BY <1>1 DEF OthersWrite
<1>2. CASE Others
  <2>1. PICK p \in Paths :
          \/ Create(p) \/ Delete(p) \/ Delegate(p) \/ Charge(p) \/ Restore(p) \/ Result(p)
          \/ \E q \in Paths : Rename(p, q)
    BY <1>2 DEF Others
  <2>2. CASE Create(p)
    BY <1>1, <2>2 DEF Create
  <2>3. CASE Delete(p) \/ Delegate(p) \/ Charge(p) \/ Restore(p)
    BY <1>1, <2>3 DEF Delete, Delegate, Charge, Restore
  <2>4. CASE Result(p)
    BY <1>1, <2>4 DEF Result
  <2>5. CASE \E q \in Paths : Rename(p, q)
    BY <2>5 DEF Rename
  <2> QED
    BY <2>1, <2>2, <2>3, <2>4, <2>5
<1>3. CASE Scan
  BY <1>3 DEF Scan, StartCycle, SkipFile, HaltRepair, BeginRepair, BeginReset, TakeFile, GetForSweep,
     FinishRepair, GetForReset, BeginSweep
<1>4. CASE ResetPosted \/ SweepPosted \/ PostLost \/ CycleSent
  BY <1>4 DEF ResetPosted, PostReset, SweepPosted, PostSweep, PostLost, PostFails, CycleSent, EndCycle,
     ListFails
<1>5. CASE Receive \/ Restart
  BY <1>5 DEF Receive, Restart
<1>6. CASE Publishes
  BY <1>6 DEF Publishes, PublishChanged, PublishDeleted, scanVars
<1> QED
  BY <1>2, <1>3, <1>4, <1>5, <1>6 DEF Next, Publishes

\* The two bounded counters.
LEMMA CountersOK ==
    ASSUME TypeOK, Next
    PROVE  edits' \in Nat /\ faults' \in Nat
<1>1. edits \in Nat /\ faults \in Nat
  BY DEF TypeOK
<1>2. CASE Others
  <2>1. OthersKeep
    BY <1>2, OthersStep
  <2> QED
    BY <1>1, <2>1 DEF OthersKeep, OnlyFiles
<1>3. CASE Scan
  BY <1>1, <1>3 DEF Scan, syncVars
<1>4. CASE ResetPosted \/ SweepPosted \/ CycleSent \/ Receive
  BY <1>1, <1>4 DEF ResetPosted, SweepPosted, CycleSent, Receive
<1>5. CASE PostLost \/ Restart
  <2>1. edits' = edits /\ faults' = faults + 1
    BY <1>5 DEF PostLost, Restart
  <2> QED
    BY <1>1, <2>1
<1>6. CASE Publishes
  BY <1>1, <1>6 DEF Publishes, PublishChanged, PublishDeleted
<1> QED
  BY <1>2, <1>3, <1>4, <1>5, <1>6 DEF Next, Publishes

-----------------------------------------------------------------------------
(* Types. *)

\* The sync loop takes the one report of the channel.
LEMMA ReceiveFacts ==
    ASSUME TypeOK, Receive
    PROVE  /\ batch = Idle /\ results # <<>> /\ batch' = results[1] /\ results' = <<>>
           /\ results[1] \in ScanResult
           /\ UNCHANGED <<files, hashes, pc, todo, at, buf, changed, deleted, minted,
                          view, lost, swept, redelegations, resets, unanswered>>
<1>1. results \in Seq(ScanResult) /\ Len(results) <= 1 /\ results # <<>>
  BY DEF TypeOK, ScannerTypeOK, Receive
<1>2. results[1] \in ScanResult /\ Head(results) = results[1] /\ Tail(results) = <<>>
  BY <1>1
<1> QED
  BY <1>2 DEF Receive

\* One event is published, and taken from the report.
LEMMA PublishChangedFacts ==
    ASSUME TypeOK, NEW f, PublishChanged(f)
    PROVE  /\ f \in batch.changed /\ f \in File
           /\ view' \in [TaskId -> File \cup {NoFile, Gone}]
           /\ f.id \in TaskId => view'[f.id] = f
           /\ \A i \in TaskId \ {f.id} : view'[i] = view[i]
           /\ batch' \in ScanResult
           /\ batch'.changed = batch.changed \ {f} /\ batch'.deleted = batch.deleted
           /\ UNCHANGED <<files, hashes, pc, todo, at, buf, changed, deleted, results, minted,
                          lost, swept, redelegations, resets, unanswered>>
<1>1. batch \in ScanResult /\ view \in [TaskId -> File \cup {NoFile, Gone}] /\ f \in batch.changed
  BY DEF TypeOK, PublishChanged
<1>2. /\ view' = [view EXCEPT ![f.id] = f]
      /\ batch' = [batch EXCEPT !.changed = batch.changed \ {f}]
  BY DEF PublishChanged
<1>3. f \in File
  BY <1>1 DEF ScanResult
<1>4. /\ batch' \in ScanResult
      /\ batch'.changed = batch.changed \ {f} /\ batch'.deleted = batch.deleted
  BY <1>1, <1>2 DEF ScanResult
<1>5. /\ view' \in [TaskId -> File \cup {NoFile, Gone}]
      /\ f.id \in TaskId => view'[f.id] = f
      /\ \A i \in TaskId \ {f.id} : view'[i] = view[i]
  BY <1>1, <1>2, <1>3
<1> QED
  BY <1>1, <1>3, <1>4, <1>5 DEF PublishChanged, scanVars

\* One delete is published, and taken from the report.
LEMMA PublishDeletedFacts ==
    ASSUME TypeOK, NEW d, PublishDeleted(d)
    PROVE  /\ d \in batch.deleted /\ batch.changed = {}
           /\ view' \in [TaskId -> File \cup {NoFile, Gone}]
           /\ \A i \in TaskId \ {d} : view'[i] = view[i]
           /\ batch' \in ScanResult
           /\ batch'.changed = {} /\ batch'.deleted = batch.deleted \ {d}
           /\ UNCHANGED <<files, hashes, pc, todo, at, buf, changed, deleted, results, minted,
                          lost, swept, redelegations, resets, unanswered>>
<1>1. /\ batch \in ScanResult /\ view \in [TaskId -> File \cup {NoFile, Gone}]
      /\ d \in batch.deleted /\ batch.changed = {}
  BY DEF TypeOK, PublishDeleted
<1>2. /\ view' = [view EXCEPT ![d] = Gone]
      /\ batch' = [batch EXCEPT !.deleted = batch.deleted \ {d}]
  BY DEF PublishDeleted
<1>4. /\ batch' \in ScanResult
      /\ batch'.changed = {} /\ batch'.deleted = batch.deleted \ {d}
  BY <1>1, <1>2 DEF ScanResult
<1>5. /\ view' \in [TaskId -> File \cup {NoFile, Gone}]
      /\ \A i \in TaskId \ {d} : view'[i] = view[i]
  BY <1>1, <1>2
<1> QED
  BY <1>1, <1>4, <1>5 DEF PublishDeleted, scanVars

\* A sent report is the only one in the channel.
LEMMA SentFacts ==
    ASSUME TypeOK, Sends
    PROVE  /\ results' \in Seq(ScanResult) /\ Len(results') <= 1 /\ results' # <<>>
           /\ results = <<>> => results'[1].changed = changed /\ results'[1].deleted = deleted
           /\ results # <<>> => results' = results
<1> DEFINE r == [changed |-> changed, deleted |-> deleted]
<1>1. /\ results \in Seq(ScanResult) /\ Len(results) <= 1
      /\ changed \in SUBSET File /\ deleted \in SUBSET TaskId
  BY DEF TypeOK, ScannerTypeOK
<1>2. r \in ScanResult /\ r.changed = changed /\ r.deleted = deleted
  BY <1>1 DEF ScanResult
<1>3. results' = IF results = <<>> THEN <<r>> ELSE results
  BY DEF Sends
<1> HIDE DEF r
<1>4. <<r>> \in Seq(ScanResult) /\ Len(<<r>>) <= 1 /\ <<r>>[1] = r /\ <<r>> # <<>>
  BY <1>2
<1>5. CASE results = <<>>
  BY <1>2, <1>3, <1>4, <1>5
<1>6. CASE results # <<>>
  BY <1>1, <1>3, <1>6
<1> QED
  BY <1>5, <1>6

\* The variables of the bookkeeping.
EntryTypes ==
    /\ files \in [Paths -> File \cup {NoFile}]
    /\ hashes \in [Paths -> Entry \cup {NoEntry}]
    /\ pc \in {"idle", "files", "inject", "reset", "resetPost", "sweep", "sweepPost"}
    /\ todo \in SUBSET Paths
    /\ at \in [path : Paths, id : TaskId \cup {""}] \cup {NoFile}
    /\ buf \in File \cup {NoFile}
    /\ minted \in SUBSET MintIds

\* The variables of the reports.
ReportTypes ==
    /\ changed \in SUBSET File
    /\ deleted \in SUBSET TaskId
    /\ results \in Seq(ScanResult) /\ Len(results) <= 1
    /\ batch \in ScanResult
    /\ view \in [TaskId -> File \cup {NoFile, Gone}]
    /\ lost \in SUBSET TaskId

\* The histories of the paths.
PathTypes ==
    /\ swept \in SUBSET Paths
    /\ redelegations \in [Paths -> Nat] /\ resets \in [Paths -> Nat] /\ unanswered \in [Paths -> Nat]

\* A report that is never written keeps its type.
LEMMA ReportTypesKept ==
    ASSUME TypeOK, ReportsKept
    PROVE  ReportTypes'
  BY DEF TypeOK, ScannerTypeOK, ReportsKept, ReportTypes

\* A step keeps the types.
LEMMA TypesKept ==
    ASSUME TypeOK, WriteShape, ReportShape, Kinds
    PROVE  EntryTypes' /\ ReportTypes' /\ PathTypes'
<1>1. EntryTypes /\ ReportTypes /\ PathTypes
  BY DEF TypeOK, ScannerTypeOK, EntryTypes, ReportTypes, PathTypes
<1>2. CASE OthersKeep
  BY <1>1, <1>2 DEF OthersKeep, OnlyFiles, EntryTypes, ReportTypes, PathTypes
<1>3. CASE Passes
  <2>1. ReportTypes'
    BY <1>3, ReportTypesKept DEF Passes
  <2>2. EntryTypes' /\ PathTypes'
    BY <1>1, <1>3 DEF Passes, EntryTypes, PathTypes, Known
  <2> QED
    BY <2>1, <2>2
<1>4. CASE Starts
  BY <1>1, <1>4 DEF Starts, EntryTypes, ReportTypes, PathTypes, Present
<1>5. CASE ReadsForReset
  <2>1. ReportTypes'
    BY <1>5, ReportTypesKept DEF ReadsForReset
  <2>2. EntryTypes' /\ PathTypes'
    BY <1>1, <1>5 DEF ReadsForReset, EntryTypes, PathTypes
  <2> QED
    BY <2>1, <2>2
<1>6. CASE ReadsForSweep
  <2>1. ReportTypes'
    BY <1>6, ReportTypesKept DEF ReadsForSweep
  <2>2. EntryTypes' /\ PathTypes'
    BY <1>1, <1>6 DEF ReadsForSweep, EntryTypes, PathTypes
  <2> QED
    BY <2>1, <2>2
<1>7. CASE WriteEnds
  <2>1. ReportTypes'
    BY <1>7, ReportTypesKept DEF WriteEnds
  <2>2. EntryTypes'
    BY <1>1, <1>7 DEF WriteEnds, EntryTypes
  <2>3. PathTypes'
    BY <1>1, <1>7 DEF WriteEnds, PathTypes
  <2> QED
    BY <2>1, <2>2, <2>3
<1>8. ASSUME NEW p \in Paths, LooksAt(p) PROVE EntryTypes' /\ ReportTypes' /\ PathTypes'
  <2>1. UNCHANGED syncVars
    BY <1>8 DEF LooksAt
  <2>2. CASE HaltRepair(p)
    BY <1>1, <2>1, <2>2, HaltRepairFacts DEF EntryTypes, ReportTypes, PathTypes, syncVars
  <2>3. CASE BeginRepair(p)
    BY <1>1, <2>1, <2>3, BeginRepairFacts DEF EntryTypes, ReportTypes, PathTypes, syncVars
  <2>4. CASE BeginReset(p)
    BY <1>1, <2>1, <2>4, BeginResetFacts DEF EntryTypes, ReportTypes, PathTypes, syncVars
  <2>5. CASE TakeFile(p)
    <3>1. /\ pc' = pc /\ todo' = todo \ {p} /\ files[p] \in File
          /\ hashes' \in [Paths -> Entry \cup {NoEntry}]
          /\ changed' \in {changed, changed \cup {files[p]}}
          /\ UNCHANGED <<files, at, buf, deleted, results, minted>>
      BY <2>5, TakeFileFacts
    <3>2. EntryTypes' /\ PathTypes'
      BY <1>1, <2>1, <3>1 DEF EntryTypes, PathTypes, syncVars
    <3>3. changed' \in SUBSET File
      BY <1>1, <3>1 DEF ReportTypes
    <3>4. ReportTypes'
      BY <1>1, <2>1, <3>1, <3>3 DEF ReportTypes, syncVars
    <3> QED
      BY <3>2, <3>4
  <2> QED
    BY <1>8, <2>2, <2>3, <2>4, <2>5 DEF LooksAt
<1>9. CASE Sends
  <2>1. results' \in Seq(ScanResult) /\ Len(results') <= 1
    BY <1>9, SentFacts
  <2>2. lost' \in SUBSET TaskId
    <3>1. lost \subseteq TaskId /\ IdsOf(changed) \subseteq TaskId
      BY <1>1 DEF ReportTypes, ReportShape
    <3>2. CASE results = <<>>
      BY <1>9, <3>1, <3>2 DEF Sends
    <3>3. CASE results # <<>>
      BY <1>9, <3>1, <3>3 DEF Sends
    <3> QED
      BY <3>2, <3>3
  <2>3. EntryTypes' /\ PathTypes'
    BY <1>1, <1>9 DEF Sends, EntryTypes, PathTypes
  <2> QED
    BY <1>1, <1>9, <2>1, <2>2, <2>3 DEF Sends, ReportTypes
<1>10. CASE Receive
  <2>1. <<>> \in Seq(ScanResult) /\ Len(<<>>) <= 1
    BY SMT
  <2> QED
    BY <1>1, <1>10, <2>1, ReceiveFacts DEF EntryTypes, ReportTypes, PathTypes
<1>11. CASE Publishes
  <2>1. ASSUME NEW f \in batch.changed, PublishChanged(f)
        PROVE  EntryTypes' /\ ReportTypes' /\ PathTypes'
    BY <1>1, <2>1, PublishChangedFacts DEF EntryTypes, ReportTypes, PathTypes
  <2>2. ASSUME NEW d \in batch.deleted, PublishDeleted(d)
        PROVE  EntryTypes' /\ ReportTypes' /\ PathTypes'
    BY <1>1, <2>2, PublishDeletedFacts DEF EntryTypes, ReportTypes, PathTypes
  <2> QED
    BY <1>11, <2>1, <2>2 DEF Publishes
<1>12. CASE Restart
  <2>1. <<>> \in Seq(ScanResult) /\ Len(<<>>) <= 1
    BY SMT
  <2>2. Idle \in ScanResult
    BY DEF Idle, ScanResult
  <2> QED
    BY <1>1, <1>12, <2>1, <2>2 DEF Restart, EntryTypes, ReportTypes, PathTypes
<1> QED
  BY <1>2, <1>3, <1>4, <1>5, <1>6, <1>7, <1>8, <1>9, <1>10, <1>11, <1>12 DEF Kinds

-----------------------------------------------------------------------------
(* What a write under way holds. *)

\* Each step leaves at and buf as the next step of the cycle needs them.
LEMMA WriteShapeKept ==
    ASSUME TypeOK, WriteShape, Kinds
    PROVE  WriteShape'
<1>1. CASE OthersKeep
  BY <1>1 DEF OthersKeep, OnlyFiles, WriteShape, Rewriting, Known
<1>2. CASE Passes
  BY <1>2 DEF Passes, WriteShape, Rewriting, Known
<1>3. CASE Starts \/ Sends \/ Restart
  BY <1>3 DEF Starts, Sends, Restart, WriteShape, Rewriting
<1>4. CASE ReadsForReset
  BY <1>4 DEF ReadsForReset, WriteShape, Rewriting
<1>5. CASE ReadsForSweep
  <2>1. todo \subseteq Known /\ Known' = Known
    BY <1>5 DEF ReadsForSweep, WriteShape, Known
  <2> QED
    BY <1>5, <2>1 DEF ReadsForSweep, WriteShape, Rewriting
<1>6. CASE WriteEnds
  <2>1. CASE pc = "sweepPost"
    <3>1. \A q \in Known : q \in Known'
      BY <1>6 DEF WriteEnds, Known
    <3>2. pc' = "sweep" /\ todo' = todo /\ todo \subseteq Known
      BY <1>6, <2>1 DEF WriteEnds, WriteShape
    <3> QED
      BY <3>1, <3>2 DEF WriteShape, Rewriting
  <2>2. CASE pc # "sweepPost"
    <3>1. pc' = "files"
      BY <1>6, <2>2 DEF WriteEnds
    <3> QED
      BY <3>1 DEF WriteShape, Rewriting
  <2> QED
    BY <2>1, <2>2
<1>7. ASSUME NEW p \in Paths, LooksAt(p) PROVE WriteShape'
  <2>1. CASE HaltRepair(p)
    <3>1. pc' = "files"
      BY <2>1, HaltRepairFacts
    <3> QED
      BY <3>1 DEF WriteShape, Rewriting
  <2>2. CASE TakeFile(p)
    <3>1. pc' = "files"
      BY <2>2, TakeFileFacts
    <3> QED
      BY <3>1 DEF WriteShape, Rewriting
  <2>3. CASE BeginRepair(p)
    BY <2>3, BeginRepairFacts DEF WriteShape, Rewriting
  <2>4. CASE BeginReset(p)
    BY <2>4, BeginResetFacts DEF WriteShape, Rewriting
  <2> QED
    BY <1>7, <2>1, <2>2, <2>3, <2>4 DEF LooksAt
<1>8. CASE Receive
  BY <1>8, ReceiveFacts DEF WriteShape, Rewriting, Known
<1>9. CASE Publishes
  <2>1. UNCHANGED <<hashes, pc, todo, at, buf>>
    BY <1>9 DEF Publishes, PublishChanged, PublishDeleted, scanVars
  <2> QED
    BY <2>1 DEF WriteShape, Rewriting, Known
<1> QED
  BY <1>1, <1>2, <1>3, <1>4, <1>5, <1>6, <1>7, <1>8, <1>9 DEF Kinds

-----------------------------------------------------------------------------
(* Identifiers. *)

\* Where nothing but the reports and the place in the cycle changes.
LEMMA IdsUntouched ==
    ASSUME IdsInv, UNCHANGED <<files, hashes, at, buf, minted>>,
           pc' = pc \/ pc' \in {"idle", "files", "sweep"}
    PROVE  IdsInv'
<1>1. Known' = Known /\ Present' = Present
  BY DEF Known, Present
<1>2. EntryShape' /\ UniqueIdentifiers'
  BY <1>1 DEF IdsInv, EntryShape, UniqueIdentifiers
<1>3. MintedOnly' /\ Claimed'
  BY <1>1 DEF IdsInv, MintedOnly, Claimed, Rewriting
<1> QED
  BY <1>2, <1>3 DEF IdsInv

\* A new entry of a path whose identifier nobody else has, and its hash agrees with.
LEMMA NewEntryIds ==
    ASSUME EntryShape, UniqueIdentifiers, NEW p \in Paths,
           \A q \in Paths \ {p} : hashes'[q] = hashes[q],
           hashes'[p] # NoEntry,
           hashes'[p].id # "" => \A q \in Known \ {p} : hashes[q].id # hashes'[p].id,
           hashes'[p].hash \in File /\ hashes'[p].hash.id \in TaskId
               => hashes'[p].id = hashes'[p].hash.id
    PROVE  EntryShape' /\ UniqueIdentifiers'
<1>1. Known' = Known \cup {p}
  BY DEF Known
<1>2. EntryShape'
  BY <1>1 DEF EntryShape, Known
<1>3. ASSUME NEW q \in Known', NEW r \in Known', q # r, hashes'[q].id # ""
      PROVE  hashes'[q].id # hashes'[r].id
  <2>1. CASE q = p
    BY <1>1, <1>3, <2>1 DEF Known
  <2>2. CASE r = p
    BY <1>1, <1>3, <2>2 DEF Known
  <2>3. CASE q # p /\ r # p
    <3>1. q \in Known /\ r \in Known /\ hashes'[q] = hashes[q] /\ hashes'[r] = hashes[r]
      BY <1>1, <2>3 DEF Known
    <3> QED
      BY <1>3, <3>1 DEF UniqueIdentifiers
  <2> QED
    BY <2>1, <2>2, <2>3
<1> QED
  BY <1>2, <1>3 DEF UniqueIdentifiers

\* No step lets two entries claim one identifier.
LEMMA IdsKept ==
    ASSUME TypeOK, WriteShape, IdsInv, Kinds
    PROVE  IdsInv'
<1>0. /\ EntryShape /\ MintedOnly /\ Claimed /\ UniqueIdentifiers
      /\ files \in [Paths -> File \cup {NoFile}] /\ hashes \in [Paths -> Entry \cup {NoEntry}]
  BY DEF IdsInv, TypeOK, ScannerTypeOK
<1>1. CASE OthersKeep
  <2>1. UNCHANGED <<hashes, pc, at, buf, minted>> /\ Known' = Known
    BY <1>1 DEF OthersKeep, OnlyFiles, Known
  <2>2. \A q \in Present' : files'[q].id \in MintIds => files'[q].id \in minted
    BY <1>0, <1>1 DEF OthersKeep, MintedOnly, Present
  <2>3. MintedOnly'
    BY <1>0, <2>1, <2>2 DEF MintedOnly, Rewriting
  <2>4. EntryShape' /\ Claimed' /\ UniqueIdentifiers'
    BY <1>0, <2>1 DEF EntryShape, Claimed, UniqueIdentifiers, Rewriting
  <2> QED
    BY <2>3, <2>4 DEF IdsInv
<1>2. CASE Passes \/ Sends
  BY <1>2, IdsUntouched DEF Passes, Sends
<1>3. CASE Starts
  <2>1. \A q \in Known' : q \in Known /\ hashes'[q] = hashes[q]
    BY <1>3 DEF Starts, Known
  <2>2. Present' = Present
    BY <1>3 DEF Starts, Present
  <2>3. pc' = "files" /\ UNCHANGED <<files, minted>>
    BY <1>3 DEF Starts
  <2>4. EntryShape'
    BY <1>0, <2>1 DEF EntryShape
  <2>5. MintedOnly'
    BY <1>0, <2>1, <2>2, <2>3 DEF MintedOnly, Rewriting
  <2>6. Claimed'
    BY <2>3 DEF Claimed, Rewriting
  <2>7. UniqueIdentifiers'
    BY <1>0, <2>1 DEF UniqueIdentifiers
  <2> QED
    BY <2>4, <2>5, <2>6, <2>7 DEF IdsInv
<1>4. CASE ReadsForReset
  <2>1. UNCHANGED <<files, hashes, at, minted>> /\ pc = "reset" /\ pc' = "resetPost"
        /\ Known' = Known /\ Present' = Present
    BY <1>4 DEF ReadsForReset, Known, Present
  <2>2. files[at.path] # NoFile /\ at.path \in Paths /\ buf'.id = files[at.path].id
    BY <1>4, <2>1, ScannerAssumption DEF ReadsForReset, WriteShape, Rewriting
  <2>3. buf'.id \in MintIds => buf'.id \in minted
    BY <1>0, <2>2 DEF MintedOnly, Present
  <2>4. MintedOnly'
    BY <1>0, <2>1, <2>3 DEF MintedOnly, Rewriting
  <2>5. EntryShape' /\ Claimed' /\ UniqueIdentifiers'
    BY <1>0, <2>1 DEF EntryShape, Claimed, UniqueIdentifiers, Rewriting
  <2> QED
    BY <2>4, <2>5 DEF IdsInv
<1>5. CASE ReadsForSweep
  <2>1. UNCHANGED <<files, hashes, minted>> /\ pc' = "sweepPost"
        /\ Known' = Known /\ Present' = Present
    BY <1>5 DEF ReadsForSweep, Known, Present
  <2>2. files[at'.path] # NoFile /\ at'.path \in Paths /\ buf'.id = files[at'.path].id
    BY <1>5, <2>1, ScannerAssumption DEF ReadsForSweep
  <2>3. buf'.id \in MintIds => buf'.id \in minted
    BY <1>0, <2>2 DEF MintedOnly, Present
  <2>4. MintedOnly' /\ Claimed'
    BY <1>0, <2>1, <2>3 DEF MintedOnly, Claimed, Rewriting
  <2>5. EntryShape' /\ UniqueIdentifiers'
    BY <1>0, <2>1 DEF EntryShape, UniqueIdentifiers
  <2> QED
    BY <2>4, <2>5 DEF IdsInv
<1>6. CASE WriteEnds
  <2> DEFINE p == at.path
  <2>1. /\ p \in Paths /\ pc \in {"inject", "reset", "resetPost", "sweepPost"}
        /\ pc' \in {"files", "sweep"} /\ minted' = minted
        /\ \A q \in Paths \ {p} : files'[q] = files[q] /\ hashes'[q] = hashes[q]
        /\ files'[p] = files[p] \/ (pc # "reset" /\ files'[p] = buf)
        /\ \/ hashes'[p] = hashes[p]
           \/ hashes'[p] # NoEntry /\ hashes'[p].hash = Zero /\ hashes'[p].id = at.id
    BY <1>6 DEF WriteEnds
  <2> HIDE DEF p
  <2>2. EntryShape' /\ UniqueIdentifiers'
    <3>1. CASE hashes'[p] = hashes[p]
      <4>1. \A q \in Paths : hashes'[q] = hashes[q]
        BY <2>1, <3>1
      <4>2. Known' = Known
        BY <4>1 DEF Known
      <4> QED
        BY <1>0, <4>1, <4>2 DEF EntryShape, UniqueIdentifiers, Known
    <3>2. CASE hashes'[p] # NoEntry /\ hashes'[p].hash = Zero /\ hashes'[p].id = at.id
      <4>1. hashes'[p].hash \notin File
        BY <3>2, ScannerAssumption
      <4>2. at.id # "" => \A q \in Known \ {p} : hashes[q].id # at.id
        <5>1. CASE pc = "sweepPost"
          BY <1>0, <5>1 DEF WriteShape, UniqueIdentifiers, p
        <5>2. CASE pc # "sweepPost"
          BY <1>0, <2>1, <5>2 DEF Claimed, Rewriting, p
        <5> QED
          BY <5>1, <5>2
      <4> QED
        BY <1>0, <2>1, <3>2, <4>1, <4>2, NewEntryIds
    <3> QED
      BY <2>1, <3>1, <3>2
  <2>3. MintedOnly'
    <3>1. \A q \in Present' : files'[q].id \in MintIds => files'[q].id \in minted
      BY <1>0, <2>1 DEF MintedOnly, Present
    <3>2. ASSUME hashes'[p].id = at.id, at.id \in MintIds PROVE at.id \in minted
      BY <1>0, <2>1, <3>2 DEF MintedOnly, Rewriting, WriteShape, p
    <3>3. \A q \in Known' : hashes'[q].id \in MintIds => hashes'[q].id \in minted
      BY <1>0, <2>1, <3>2 DEF MintedOnly, Known
    <3> QED
      BY <2>1, <3>1, <3>3 DEF MintedOnly, Rewriting
  <2>4. Claimed'
    BY <2>1 DEF Claimed, Rewriting
  <2> QED
    BY <2>2, <2>3, <2>4 DEF IdsInv
<1>7. ASSUME NEW p \in Paths, LooksAt(p) PROVE IdsInv'
  <2>1. CASE HaltRepair(p)
    <3>1. /\ pc' = "files" /\ \A q \in Paths \ {p} : hashes'[q] = hashes[q]
          /\ hashes'[p] # NoEntry /\ hashes'[p].id = "" /\ hashes'[p].hash.id \notin TaskId
          /\ UNCHANGED <<files, minted>>
      BY <2>1, HaltRepairFacts
    <3>2. EntryShape' /\ UniqueIdentifiers'
      BY <1>0, <3>1, NewEntryIds
    <3>3. hashes'[p].id \notin MintIds
      BY <3>1, ScannerAssumption DEF TaskId
    <3>4. MintedOnly' /\ Claimed'
      BY <1>0, <3>1, <3>3 DEF MintedOnly, Claimed, Rewriting, Known, Present
    <3> QED
      BY <3>2, <3>4 DEF IdsInv
  <2>2. CASE TakeFile(p)
    <3>1. /\ pc' = "files" /\ \A q \in Paths \ {p} : hashes'[q] = hashes[q]
          /\ hashes'[p] # NoEntry /\ hashes'[p].hash = files[p] /\ hashes'[p].id = files[p].id
          /\ \A q \in Known \ {p} : hashes[q].id # files[p].id
          /\ UNCHANGED <<files, minted>> /\ files[p] \in File
      BY <2>2, TakeFileFacts
    <3>2. EntryShape' /\ UniqueIdentifiers'
      BY <1>0, <3>1, NewEntryIds
    <3>3. hashes'[p].id \in MintIds => hashes'[p].id \in minted
      BY <1>0, <3>1, ScannerAssumption DEF MintedOnly, Present
    <3>4. MintedOnly' /\ Claimed'
      BY <1>0, <3>1, <3>3 DEF MintedOnly, Claimed, Rewriting, Known, Present
    <3> QED
      BY <3>2, <3>4 DEF IdsInv
  <2>3. CASE BeginRepair(p)
    <3>1. /\ pc' = "inject" /\ buf'.id \in MintIds \ minted
          /\ minted' = minted \cup {buf'.id} /\ at'.path = p /\ at'.id = buf'.id
          /\ UNCHANGED <<files, hashes>> /\ Known' = Known /\ Present' = Present
      BY <2>3, BeginRepairFacts DEF Known, Present
    <3>2. EntryShape' /\ UniqueIdentifiers'
      BY <1>0, <3>1 DEF EntryShape, UniqueIdentifiers
    <3>3. MintedOnly'
      BY <1>0, <3>1 DEF MintedOnly
    <3>4. Claimed'
      BY <1>0, <3>1 DEF Claimed, MintedOnly
    <3> QED
      BY <3>2, <3>3, <3>4 DEF IdsInv
  <2>4. CASE BeginReset(p)
    <3>1. /\ pc' = "reset" /\ files[p] \in File
          /\ \A q \in Known \ {p} : hashes[q].id # files[p].id
          /\ at'.path = p /\ at'.id = files[p].id
          /\ UNCHANGED <<files, hashes, minted>> /\ Known' = Known /\ Present' = Present
      BY <2>4, BeginResetFacts DEF Known, Present
    <3>2. EntryShape' /\ UniqueIdentifiers'
      BY <1>0, <3>1 DEF EntryShape, UniqueIdentifiers
    <3>3. p \in Present
      BY <3>1, ScannerAssumption DEF Present
    <3>4. MintedOnly' /\ Claimed'
      BY <1>0, <3>1, <3>3 DEF MintedOnly, Claimed
    <3> QED
      BY <3>2, <3>4 DEF IdsInv
  <2> QED
    BY <1>7, <2>1, <2>2, <2>3, <2>4 DEF LooksAt
<1>8. CASE Receive
  BY <1>8, ReceiveFacts, IdsUntouched
<1>9. CASE Publishes
  <2>1. UNCHANGED <<files, hashes, pc, at, buf, minted>>
    BY <1>9 DEF Publishes, PublishChanged, PublishDeleted, scanVars
  <2> QED
    BY <2>1, IdsUntouched
<1>10. CASE Restart
  <2>1. /\ Known' = {} /\ pc' = "idle" /\ Present' = Present /\ UNCHANGED <<files, minted>>
    BY <1>10 DEF Restart, Known, Present
  <2> QED
    BY <1>0, <2>1 DEF IdsInv, EntryShape, MintedOnly, Claimed, UniqueIdentifiers, Rewriting
<1> QED
  BY <1>1, <1>2, <1>3, <1>4, <1>5, <1>6, <1>7, <1>8, <1>9, <1>10 DEF Kinds

-----------------------------------------------------------------------------
(* The budget and the parked tasks. *)

\* Where the files, the entries a reset looks at and the histories stay.
LEMMA BudgetUntouched ==
    ASSUME BudgetInv, UNCHANGED <<files, at, buf, swept, redelegations, resets, unanswered>>,
           \A q \in Known' : q \in Known /\ hashes'[q] = hashes[q],
           pc' = pc \/ pc' \in {"idle", "files", "sweep"}
    PROVE  BudgetInv'
<1>1. Present' = Present
  BY DEF Present
<1>2. ResetOncePerRedelegation'
  BY DEF BudgetInv, ResetOncePerRedelegation
<1>3. ResetOwed'
  BY <1>1 DEF BudgetInv, ResetOwed, Allowed
<1>4. StaysParked'
  BY <1>1 DEF BudgetInv, StaysParked
<1> QED
  BY <1>2, <1>3, <1>4 DEF BudgetInv

\* The other writers count every name they write.
LEMMA OthersOwe ==
    ASSUME TypeOK, WriteShape, BudgetInv, OthersKeep
    PROVE  ResetOncePerRedelegation' /\ ResetOwed'
<1>1. /\ resets \in [Paths -> Nat] /\ redelegations \in [Paths -> Nat]
      /\ unanswered \in [Paths -> Nat] /\ unanswered' = unanswered
      /\ redelegations' \in [Paths -> Nat] /\ resets' = resets
      /\ \A q \in Paths : redelegations[q] <= redelegations'[q]
      /\ \A q \in Paths : resets[q] <= redelegations[q] + unanswered[q]
  BY DEF TypeOK, OthersKeep, OnlyFiles, BudgetInv, ResetOncePerRedelegation
<1>2. \A q \in Paths : resets'[q] <= redelegations'[q] + unanswered'[q]
  BY <1>1
<1>3. \A q \in Paths : resets[q] < Allowed(q) => resets'[q] < Allowed(q)'
  BY <1>1 DEF Allowed
<1>4. \A q \in Paths : redelegations[q] < redelegations'[q] => resets'[q] < Allowed(q)'
  BY <1>1 DEF Allowed
<1>5. Known' = Known /\ UNCHANGED <<hashes, pc, at, buf>>
  BY DEF OthersKeep, OnlyFiles, Known
<1>6. ASSUME NEW q \in Known' \cap Present', hashes'[q].assignee = "", files'[q].assignee # ""
      PROVE  resets'[q] < Allowed(q)'
  <2>1. /\ q \in Paths /\ files'[q] # NoFile /\ q \in Known /\ hashes[q].assignee = ""
    BY <1>5, <1>6 DEF Known, Present
  <2>2. CASE redelegations[q] < redelegations'[q]
    BY <1>4, <2>1, <2>2
  <2>3. CASE files[q] # NoFile /\ files[q].assignee # ""
    <3>1. resets[q] < Allowed(q)
      BY <2>1, <2>3 DEF BudgetInv, ResetOwed, Present
    <3> QED
      BY <1>3, <2>1, <3>1
  <2> QED
    BY <1>6, <2>1, <2>2, <2>3 DEF OthersKeep
<1>7. pc' \in {"reset", "resetPost"} => resets'[at'.path] < Allowed(at.path)'
  <2>1. pc \in {"reset", "resetPost"} => at.path \in Paths
    BY DEF WriteShape, Rewriting
  <2> QED
    BY <1>3, <1>5, <2>1 DEF BudgetInv, ResetOwed
<1>8. pc' = "inject" /\ at'.path \in Known' /\ hashes'[at'.path].assignee = "" /\ buf'.assignee # ""
        => resets'[at'.path] < Allowed(at.path)'
  BY <1>3, <1>5 DEF BudgetInv, ResetOwed, Known
<1> QED
  BY <1>2, <1>6, <1>7, <1>8 DEF ResetOncePerRedelegation, ResetOwed

\* The end of a write pays for the reset it makes, and parks what it sweeps.
LEMMA WriteEndsBudget ==
    ASSUME TypeOK, BudgetInv, WriteEnds
    PROVE  BudgetInv'
<1> DEFINE p == at.path
<1>0. BudgetInv /\ ResetOncePerRedelegation /\ ResetOwed /\ StaysParked
  BY DEF BudgetInv
<1>1. /\ p \in Paths /\ pc \in {"inject", "reset", "resetPost", "sweepPost"}
      /\ pc' \in {"files", "sweep"} /\ redelegations' = redelegations
      /\ \A q \in Paths \ {p} :
            /\ files'[q] = files[q] /\ hashes'[q] = hashes[q]
            /\ resets'[q] = resets[q] /\ unanswered'[q] = unanswered[q]
      /\ files'[p] = files[p] \/ (pc # "reset" /\ files'[p] = buf)
  BY DEF WriteEnds
<1>2. \/ /\ hashes'[p] = hashes[p] /\ swept' = swept
         /\ resets'[p] = resets[p] /\ unanswered'[p] = unanswered[p]
      \/ /\ pc = "resetPost" /\ hashes'[p] = hashes[p] /\ swept' = swept
         /\ resets'[p] = resets[p] + 1 /\ unanswered'[p] = unanswered[p] + 1
      \/ /\ pc = "inject" /\ files'[p] = buf /\ hashes'[p].assignee = buf.assignee
         /\ resets'[p] = resets[p] /\ unanswered'[p] = unanswered[p] /\ swept' = swept
      \/ /\ pc \in {"reset", "resetPost"} /\ hashes'[p].assignee = "agent"
         /\ resets'[p] <= resets[p] + 1 /\ unanswered'[p] = unanswered[p] /\ swept' = swept
      \/ /\ pc = "sweepPost" /\ files'[p] = buf /\ hashes'[p].assignee = ""
         /\ resets'[p] = resets[p] /\ unanswered'[p] = unanswered[p] /\ swept' = swept \cup {p}
  BY DEF WriteEnds
<1> HIDE DEF p
<1>types. /\ resets \in [Paths -> Nat] /\ redelegations \in [Paths -> Nat] /\ unanswered \in [Paths -> Nat]
          /\ resets' \in [Paths -> Nat] /\ unanswered' \in [Paths -> Nat] /\ redelegations' = redelegations
  BY DEF TypeOK, WriteEnds
<1>paid. \/ resets'[p] = resets[p] /\ unanswered'[p] = unanswered[p]
         \/ resets'[p] = resets[p] + 1 /\ unanswered'[p] = unanswered[p] + 1
         \/ /\ resets'[p] <= resets[p] + 1 /\ unanswered'[p] = unanswered[p]
            /\ resets[p] < redelegations[p] + unanswered[p]
  <2>1. ASSUME pc \in {"reset", "resetPost"} PROVE resets[p] < redelegations[p] + unanswered[p]
    BY <1>0, <2>1 DEF ResetOwed, Allowed, p
  <2>2. \/ resets'[p] = resets[p] /\ unanswered'[p] = unanswered[p]
        \/ resets'[p] = resets[p] + 1 /\ unanswered'[p] = unanswered[p] + 1
        \/ /\ pc \in {"reset", "resetPost"}
           /\ resets'[p] <= resets[p] + 1 /\ unanswered'[p] = unanswered[p]
    BY <1>2
  <2> QED
    BY <2>1, <2>2
<1>owed. resets[p] < Allowed(p) /\ hashes'[p] = hashes[p] /\ hashes[p].assignee = ""
        => resets'[p] < redelegations'[p] + unanswered'[p]
  <2>1. SUFFICES ASSUME resets[p] < Allowed(p), hashes'[p] = hashes[p], hashes[p].assignee = ""
                 PROVE  resets'[p] < redelegations'[p] + unanswered'[p]
    OBVIOUS
  <2>2. \/ resets'[p] = resets[p] /\ unanswered'[p] = unanswered[p]
        \/ resets'[p] = resets[p] + 1 /\ unanswered'[p] = unanswered[p] + 1
    BY <1>2, <2>1
  <2>3. /\ resets[p] \in Nat /\ redelegations[p] \in Nat /\ unanswered[p] \in Nat
        /\ redelegations'[p] = redelegations[p]
    BY <1>1, <1>types
  <2>4. resets[p] < redelegations[p] + unanswered[p]
    BY <2>1 DEF Allowed
  <2> QED
    BY <2>2, <2>3, <2>4
<1>3. \A q \in Paths : resets'[q] <= redelegations'[q] + unanswered'[q]
  <2>1. \A q \in Paths : resets[q] <= redelegations[q] + unanswered[q]
    BY <1>0 DEF ResetOncePerRedelegation
  <2>2. resets'[p] <= redelegations'[p] + unanswered'[p]
    BY <1>1, <1>types, <1>paid, <2>1
  <2> QED
    BY <1>1, <1>types, <2>1, <2>2
<1>4. pc = "sweepPost" => buf.assignee = "" /\ Parked(buf)
  BY <1>0 DEF StaysParked, Parked
<1>5. ASSUME NEW q \in Known' \cap Present', hashes'[q].assignee = "", files'[q].assignee # ""
      PROVE  resets'[q] < Allowed(q)'
  <2>1. q \in Paths /\ hashes'[q] # NoEntry /\ files'[q] # NoFile
    BY <1>5 DEF Known, Present
  <2>2. CASE q # p
    <3>1. q \in Known /\ q \in Present /\ hashes[q].assignee = "" /\ files[q].assignee # ""
      BY <1>1, <1>5, <2>1, <2>2 DEF Known, Present
    <3>2. resets[q] < Allowed(q)
      BY <1>0, <3>1 DEF ResetOwed
    <3> QED
      BY <1>1, <2>1, <2>2, <3>2 DEF Allowed
  <2>3. CASE q = p
    <3>1. hashes'[p] = hashes[p]
      BY <1>2, <1>4, <1>5, <2>3
    <3>2. p \in Known /\ hashes[p].assignee = ""
      BY <1>1, <1>5, <2>1, <2>3, <3>1 DEF Known
    <3>3. resets[p] < Allowed(p)
      <4>1. CASE files'[p] = files[p]
        <5>1. p \in Present /\ files[p].assignee # ""
          BY <1>5, <2>1, <2>3, <4>1 DEF Present
        <5> QED
          BY <1>0, <3>2, <5>1 DEF ResetOwed
      <4>2. CASE pc # "reset" /\ files'[p] = buf
        <5>1. pc \in {"inject", "resetPost"} /\ buf.assignee # ""
          BY <1>1, <1>4, <1>5, <2>3, <4>2
        <5> QED
          BY <1>0, <3>2, <5>1 DEF ResetOwed, p
      <4> QED
        BY <1>1, <4>1, <4>2
    <3> QED
      BY <1>owed, <2>3, <3>1, <3>2, <3>3 DEF Allowed
  <2> QED
    BY <2>2, <2>3
<1>6. ASSUME NEW q \in swept' \cap Present' PROVE Parked(files'[q])
  <2>1. q \in Paths /\ files'[q] # NoFile
    BY <1>6 DEF Present
  <2>2. CASE q # p
    <3>1. q \in swept /\ q \in Present /\ files'[q] = files[q]
      BY <1>1, <1>2, <1>6, <2>1, <2>2 DEF Present
    <3> QED
      BY <1>0, <3>1 DEF StaysParked
  <2>3. CASE q = p
    <3>1. CASE pc = "sweepPost" /\ files'[p] = buf
      BY <1>4, <2>3, <3>1
    <3>2. CASE ~(pc = "sweepPost" /\ files'[p] = buf)
      <4>1. p \in swept
        BY <1>2, <1>6, <2>3, <3>2
      <4>2. CASE files'[p] = files[p]
        BY <1>0, <2>1, <2>3, <4>1, <4>2 DEF StaysParked, Present
      <4>3. CASE pc # "reset" /\ files'[p] = buf
        <5>1. pc \in {"inject", "resetPost"}
          BY <1>1, <3>2, <4>3
        <5> QED
          BY <1>0, <2>3, <4>1, <4>3, <5>1 DEF StaysParked, p
      <4> QED
        BY <1>1, <4>2, <4>3
    <3> QED
      BY <3>1, <3>2
  <2> QED
    BY <2>2, <2>3
<1>7. ResetOncePerRedelegation'
  BY <1>3 DEF ResetOncePerRedelegation
<1>8. ResetOwed'
  BY <1>1, <1>5 DEF ResetOwed
<1>9. StaysParked'
  BY <1>1, <1>6 DEF StaysParked
<1> QED
  BY <1>7, <1>8, <1>9 DEF BudgetInv

\* A budget is refilled only where a name is owed, and the parked stays parked.
LEMMA BudgetKept ==
    ASSUME TypeOK, WriteShape, BudgetInv, Kinds
    PROVE  BudgetInv'
<1>0. ResetOncePerRedelegation /\ ResetOwed /\ StaysParked
  BY DEF BudgetInv
<1>1. CASE OthersKeep
  <2>1. ResetOncePerRedelegation' /\ ResetOwed'
    BY <1>1, OthersOwe
  <2>2. UNCHANGED <<pc, at, buf>> /\ swept' \subseteq swept
    BY <1>1 DEF OthersKeep, OnlyFiles
  <2>3. ASSUME NEW q \in swept' \cap Present' PROVE Parked(files'[q])
    <3>1. q \in Paths /\ files'[q] # NoFile /\ q \in swept
      BY <2>2, <2>3 DEF Present
    <3>2. files[q] = NoFile \/ Parked(files[q])
      BY <1>0, <3>1 DEF StaysParked, Present
    <3>3. files'[q] = files[q]
      BY <1>1, <2>3, <3>2 DEF OthersKeep
    <3> QED
      BY <3>1, <3>2, <3>3
  <2>4. StaysParked'
    BY <1>0, <2>2, <2>3 DEF StaysParked
  <2> QED
    BY <2>1, <2>4 DEF BudgetInv
<1>2. CASE Passes \/ Sends
  BY <1>2, BudgetUntouched DEF Passes, Sends, Known
<1>3. CASE Starts
  <2>1. \A q \in Known' : q \in Known /\ hashes'[q] = hashes[q]
    BY <1>3 DEF Starts, Known
  <2> QED
    BY <1>3, <2>1, BudgetUntouched DEF Starts
<1>4. CASE ReadsForReset
  <2>1. /\ pc = "reset" /\ pc' = "resetPost" /\ Known' = Known /\ Present' = Present
        /\ UNCHANGED <<files, hashes, at, swept, redelegations, resets, unanswered>>
        /\ files[at.path] # NoFile /\ at.path \in Paths
        /\ buf'.assignee = files[at.path].assignee /\ buf'.status = files[at.path].status
        /\ buf'.job = files[at.path].job
    BY <1>4, ScannerAssumption DEF ReadsForReset, Known, Present, WriteShape, Rewriting
  <2>2. ResetOncePerRedelegation' /\ ResetOwed'
    BY <1>0, <2>1 DEF ResetOncePerRedelegation, ResetOwed, Allowed
  <2>3. StaysParked'
    BY <1>0, <2>1 DEF StaysParked, Parked, Present
  <2> QED
    BY <2>2, <2>3 DEF BudgetInv
<1>5. CASE ReadsForSweep
  <2>1. /\ pc' = "sweepPost" /\ Known' = Known /\ Present' = Present /\ Parked(buf)'
        /\ UNCHANGED <<files, hashes, swept, redelegations, resets, unanswered>>
    BY <1>5 DEF ReadsForSweep, Known, Present
  <2>2. ResetOncePerRedelegation' /\ ResetOwed'
    BY <1>0, <2>1 DEF ResetOncePerRedelegation, ResetOwed, Allowed
  <2>3. StaysParked'
    BY <1>0, <2>1 DEF StaysParked
  <2> QED
    BY <2>2, <2>3 DEF BudgetInv
<1>6. CASE WriteEnds
  BY <1>6, WriteEndsBudget
<1>7. ASSUME NEW p \in Paths, LooksAt(p) PROVE BudgetInv'
  <2>0. UNCHANGED <<swept, redelegations, resets, unanswered>>
    BY <1>7 DEF LooksAt, syncVars
  <2>1. CASE HaltRepair(p) \/ TakeFile(p)
    <3>1. /\ pc' = "files" /\ \A q \in Paths \ {p} : hashes'[q] = hashes[q]
          /\ hashes'[p] # NoEntry /\ hashes'[p].assignee = files[p].assignee
          /\ files' = files
      BY <2>1, HaltRepairFacts, TakeFileFacts
    <3>2. \A q \in Known' \cap Present' : hashes'[q].assignee = "" /\ files'[q].assignee # ""
             => resets'[q] < Allowed(q)'
      BY <1>0, <2>0, <3>1 DEF ResetOwed, Known, Present, Allowed
    <3>3. ResetOncePerRedelegation' /\ ResetOwed'
      BY <1>0, <2>0, <3>1, <3>2 DEF ResetOncePerRedelegation, ResetOwed
    <3>4. StaysParked'
      BY <1>0, <2>0, <3>1 DEF StaysParked, Present
    <3> QED
      BY <3>3, <3>4 DEF BudgetInv
  <2>3. CASE BeginRepair(p)
    <3>1. /\ pc' = "inject" /\ at'.path = p /\ files[p] # NoFile
          /\ buf'.assignee = files[p].assignee /\ buf'.status = files[p].status
          /\ buf'.job = files[p].job
          /\ UNCHANGED <<files, hashes>> /\ Known' = Known /\ Present' = Present
      BY <2>3, BeginRepairFacts, ScannerAssumption DEF Known, Present
    <3>2. ResetOncePerRedelegation'
      BY <1>0, <2>0 DEF ResetOncePerRedelegation
    <3>3. ResetOwed'
      BY <1>0, <2>0, <3>1 DEF ResetOwed, Present, Allowed
    <3>4. StaysParked'
      BY <1>0, <2>0, <3>1 DEF StaysParked, Parked, Present
    <3> QED
      BY <3>2, <3>3, <3>4 DEF BudgetInv
  <2>4. CASE BeginReset(p)
    <3>1. /\ pc' = "reset" /\ at'.path = p /\ files[p] # NoFile
          /\ p \in Known /\ hashes[p].assignee = "" /\ files[p].assignee # ""
          /\ UNCHANGED <<files, hashes>> /\ Known' = Known /\ Present' = Present
      BY <2>4, BeginResetFacts, ScannerAssumption DEF Known, Present
    <3>2. ResetOncePerRedelegation'
      BY <1>0, <2>0 DEF ResetOncePerRedelegation
    <3>3. ResetOwed'
      BY <1>0, <2>0, <3>1 DEF ResetOwed, Present, Allowed
    <3>4. StaysParked'
      BY <1>0, <2>0, <3>1 DEF StaysParked
    <3> QED
      BY <3>2, <3>3, <3>4 DEF BudgetInv
  <2> QED
    BY <1>7, <2>1, <2>3, <2>4 DEF LooksAt
<1>8. CASE Receive
  BY <1>8, ReceiveFacts, BudgetUntouched DEF Known
<1>9. CASE Publishes
  <2>1. UNCHANGED <<files, hashes, pc, at, buf, swept, redelegations, resets, unanswered>> /\ Known' = Known
    BY <1>9 DEF Publishes, PublishChanged, PublishDeleted, scanVars, Known
  <2> QED
    BY <2>1, BudgetUntouched
<1>10. CASE Restart
  <2>1. /\ Known' = {} /\ pc' = "idle" /\ Present' = Present
        /\ UNCHANGED <<files, swept, redelegations, resets, unanswered>>
    BY <1>10 DEF Restart, Known, Present
  <2> QED
    BY <1>0, <2>1 DEF BudgetInv, ResetOncePerRedelegation, ResetOwed, StaysParked
<1> QED
  BY <1>1, <1>2, <1>3, <1>4, <1>5, <1>6, <1>7, <1>8, <1>9, <1>10 DEF Kinds

-----------------------------------------------------------------------------
(* The reports. *)

\* What the cycle has reported, with a path for each task.
Visited ==
    Rewriting \/ pc = "files" =>
        \A g \in changed : \E q \in Known \ todo :
            hashes[q].id = g.id /\ (Rewriting => q # at.path)

\* The reports that are queued and published keep one content per task.
LEMMA ReportQueue ==
    ASSUME ReportShape, UNCHANGED <<changed, deleted, results, batch>>,
           pc' = "idle" => pc = "idle", Visited'
    PROVE  ReportShape'
BY DEF ReportShape, Visited, Distinct, IdsOf

\* A report has one content per task, that of a path the cycle has been at.
LEMMA ReportShapeKept ==
    ASSUME TypeOK, WriteShape, IdsInv, ReportShape, Kinds
    PROVE  ReportShape'
<1>0. Visited /\ Distinct(changed) /\ Distinct(batch.changed)
  BY DEF ReportShape, Visited
<1>1. CASE OthersKeep
  <2>1. UNCHANGED <<hashes, pc, todo, at, changed, deleted, results, batch>> /\ Known' = Known
    BY <1>1 DEF OthersKeep, OnlyFiles, Known
  <2>2. Visited'
    BY <1>0, <2>1 DEF Visited, Rewriting
  <2> QED
    BY <2>1, <2>2, ReportQueue
<1>2. CASE Passes
  <2>1. /\ UNCHANGED <<hashes, changed, deleted, results, batch>> /\ Known' = Known
        /\ \/ pc = "files" /\ pc' = "files" /\ todo' \subseteq todo
           \/ pc' = "sweep"
    BY <1>2 DEF Passes, ReportsKept, Known
  <2>2. Visited'
    BY <1>0, <2>1 DEF Visited, Rewriting
  <2> QED
    BY <2>1, <2>2, ReportQueue
<1>3. CASE Starts
  <2>1. /\ changed = {} /\ changed' = {} /\ pc' = "files" /\ UNCHANGED <<results, batch>>
    BY <1>3 DEF Starts, ReportShape
  <2>2. IdsOf({}) \subseteq TaskId /\ Distinct({})
    BY DEF IdsOf, Distinct
  <2>3. results' # <<>> => Distinct(results'[1].changed)
    BY <2>1 DEF ReportShape
  <2> QED
    BY <1>0, <2>1, <2>2, <2>3 DEF ReportShape
<1>4. CASE ReadsForReset
  <2>1. /\ UNCHANGED <<hashes, at, todo, changed, deleted, results, batch>> /\ Known' = Known
        /\ pc = "reset" /\ pc' = "resetPost"
    BY <1>4 DEF ReadsForReset, ReportsKept, Known
  <2>2. Visited'
    BY <1>0, <2>1 DEF Visited, Rewriting
  <2> QED
    BY <2>1, <2>2, ReportQueue
<1>5. CASE ReadsForSweep
  BY <1>5, ReportQueue DEF ReadsForSweep, ReportsKept, Visited, Rewriting
<1>6. CASE WriteEnds
  <2>1. /\ UNCHANGED <<todo, changed, deleted, results, batch>> /\ pc' \in {"files", "sweep"}
        /\ \A q \in Paths \ {at.path} : hashes'[q] = hashes[q]
        /\ pc' = "files" => Rewriting
    BY <1>6 DEF WriteEnds, ReportsKept, Rewriting
  <2>2. ASSUME Rewriting \/ pc = "sweepPost", pc' = "files", NEW g \in changed'
        PROVE  \E q \in Known' \ todo' : hashes'[q].id = g.id
    <3>1. PICK q \in Known \ todo : hashes[q].id = g.id /\ q # at.path
      BY <1>0, <2>1, <2>2 DEF Visited
    <3>2. q \in Known' \ todo' /\ hashes'[q] = hashes[q]
      BY <2>1, <3>1 DEF Known
    <3> QED
      BY <3>1, <3>2
  <2>3. Visited'
    BY <2>1, <2>2 DEF Visited, Rewriting
  <2> QED
    BY <2>1, <2>3, ReportQueue
<1>7. ASSUME NEW p \in Paths, LooksAt(p) PROVE ReportShape'
  <2>0. batch' = batch
    BY <1>7 DEF LooksAt, syncVars
  <2>1. CASE HaltRepair(p)
    <3>1. /\ pc = "files" /\ pc' = "files" /\ p \in todo /\ todo' = todo \ {p}
          /\ \A q \in Paths \ {p} : hashes'[q] = hashes[q]
          /\ UNCHANGED <<changed, deleted, results>>
      BY <2>1, HaltRepairFacts
    <3>2. ASSUME NEW g \in changed' PROVE \E q \in Known' \ todo' : hashes'[q].id = g.id
      <4>1. PICK q \in Known \ todo : hashes[q].id = g.id
        BY <1>0, <3>1, <3>2 DEF Visited
      <4>2. q \in Known' \ todo' /\ hashes'[q] = hashes[q]
        BY <3>1, <4>1 DEF Known
      <4> QED
        BY <4>1, <4>2
    <3>3. Visited'
      BY <3>1, <3>2 DEF Visited, Rewriting
    <3> QED
      BY <2>0, <3>1, <3>3, ReportQueue
  <2>2. CASE TakeFile(p)
    <3>1. /\ pc = "files" /\ pc' = "files" /\ p \in todo /\ todo' = todo \ {p}
          /\ \A q \in Paths \ {p} : hashes'[q] = hashes[q]
          /\ hashes'[p] # NoEntry /\ hashes'[p].id = files[p].id /\ files[p].id \in TaskId
          /\ \A q \in Known \ {p} : hashes[q].id # files[p].id
          /\ changed' \in {changed, changed \cup {files[p]}}
          /\ UNCHANGED <<deleted, results>>
      BY <2>2, TakeFileFacts
    <3>2. ASSUME NEW g \in changed PROVE \E q \in Known \ todo : hashes[q].id = g.id /\ q # p
      BY <1>0, <3>1, <3>2 DEF Visited
    <3>3. ASSUME NEW g \in changed' PROVE \E q \in Known' \ todo' : hashes'[q].id = g.id
      <4>1. CASE g = files[p]
        BY <3>1, <4>1 DEF Known
      <4>2. CASE g \in changed
        <5>1. PICK q \in Known \ todo : hashes[q].id = g.id /\ q # p
          BY <3>2, <4>2
        <5>2. q \in Known' \ todo' /\ hashes'[q] = hashes[q]
          BY <3>1, <5>1 DEF Known
        <5> QED
          BY <5>1, <5>2
      <4> QED
        BY <3>1, <3>3, <4>1, <4>2
    <3>4. \A g \in changed : g.id # files[p].id
      BY <3>1, <3>2
    <3>5. Distinct(changed')
      BY <1>0, <3>1, <3>4 DEF Distinct
    <3>6. IdsOf(changed') \subseteq TaskId
      BY <3>1 DEF IdsOf, ReportShape
    <3> QED
      BY <1>0, <2>0, <3>1, <3>3, <3>5, <3>6 DEF ReportShape, Rewriting
  <2>3. CASE BeginRepair(p) \/ BeginReset(p)
    <3>1. /\ pc = "files" /\ pc' \in {"inject", "reset"} /\ p \in todo /\ todo' = todo \ {p}
          /\ at'.path = p /\ UNCHANGED <<hashes, changed, deleted, results>> /\ Known' = Known
      BY <2>3, BeginRepairFacts, BeginResetFacts DEF Known
    <3>2. Visited'
      BY <1>0, <3>1 DEF Visited, Rewriting
    <3> QED
      BY <2>0, <3>1, <3>2, ReportQueue
  <2> QED
    BY <1>7, <2>1, <2>2, <2>3 DEF LooksAt
<1>8. CASE Sends
  <2>1. /\ pc' = "idle" /\ changed' = {} /\ deleted' = {} /\ batch' = batch
    BY <1>8 DEF Sends
  <2>2. Distinct(results'[1].changed)
    BY <1>0, <1>8, SentFacts DEF ReportShape
  <2>3. IdsOf({}) \subseteq TaskId /\ Distinct({})
    BY DEF IdsOf, Distinct
  <2> QED
    BY <1>0, <2>1, <2>2, <2>3 DEF ReportShape, Rewriting
<1>9. CASE Receive
  <2>1. /\ UNCHANGED <<hashes, pc, todo, at, changed, deleted>> /\ Known' = Known
        /\ results # <<>> /\ batch' = results[1] /\ results' = <<>>
    BY <1>9, ReceiveFacts DEF Known
  <2> QED
    BY <2>1 DEF ReportShape, Rewriting
<1>10. CASE Publishes
  <2>1. /\ UNCHANGED <<hashes, pc, todo, at, changed, deleted, results>> /\ Known' = Known
    BY <1>10 DEF Publishes, PublishChanged, PublishDeleted, scanVars, Known
  <2>2. batch'.changed \subseteq batch.changed
    BY <1>10, PublishChangedFacts, PublishDeletedFacts DEF Publishes
  <2>3. Distinct(batch'.changed)
    BY <1>0, <2>2 DEF Distinct
  <2> QED
    BY <2>1, <2>3 DEF ReportShape, Rewriting
<1>11. CASE Restart
  <2>1. /\ pc' = "idle" /\ changed' = {} /\ deleted' = {} /\ results' = <<>> /\ batch'.changed = {}
    BY <1>11 DEF Restart, Idle
  <2>2. IdsOf({}) \subseteq TaskId /\ Distinct({})
    BY DEF IdsOf, Distinct
  <2> QED
    BY <2>1, <2>2 DEF ReportShape, Rewriting
<1> QED
  BY <1>1, <1>2, <1>3, <1>4, <1>5, <1>6, <1>7, <1>8, <1>9, <1>10, <1>11 DEF Kinds

\* A content stays covered while no report is written.
LEMMA CoveredKept ==
    ASSUME ReportsKept, NEW f, Covered(f)
    PROVE  Covered(f)'
  BY DEF ReportsKept, Covered, Underway, InBatch, Says, Silent

\* Nor does it matter which entries go, or become sentinels.
LEMMA DeliveredKept ==
    ASSUME Delivered, ReportsKept,
           \A f \in File : Seen(f)' /\ Reportable(f) => Seen(f)
    PROVE  Delivered'
<1>1. ASSUME NEW f \in File, Seen(f)', Reportable(f)
      PROVE  Covered(f)'
  BY <1>1, CoveredKept DEF Delivered
<1> QED
  BY <1>1 DEF Delivered, Reportable

\* A cycle that starts does not delete a task it still has a file of.
LEMMA StartsDelivered ==
    ASSUME TypeOK, IdsInv, ReportShape, Delivered, Starts
    PROVE  Delivered'
<1>1. /\ changed = {} /\ changed' = {} /\ deleted = {} /\ deleted' = VanishedIds
      /\ UNCHANGED <<results, batch, view, lost>>
      /\ \A q \in Paths : hashes'[q] # NoEntry => q \in Present /\ hashes'[q] = hashes[q]
  BY DEF Starts, ReportShape
<1>2. ASSUME NEW f \in File, Seen(f)', Reportable(f)
      PROVE  Covered(f)'
  <2>1. PICK p \in Known' : hashes'[p].hash = f
    BY <1>2 DEF Seen
  <2>2. p \in Known /\ p \in Present /\ hashes[p].hash = f
    BY <1>1, <2>1 DEF Known
  <2>3. hashes[p].id = f.id /\ f.id \in TaskId /\ f.id # ""
    BY <1>2, <2>2, ScannerAssumption DEF IdsInv, EntryShape, Reportable
  <2>4. f.id \notin VanishedIds
    <3>1. SUFFICES ASSUME NEW q \in Known \ Present, hashes[q].id = f.id PROVE FALSE
      BY DEF VanishedIds
    <3> QED
      BY <2>2, <2>3, <3>1 DEF IdsInv, UniqueIdentifiers
  <2>5. Covered(f)
    BY <1>2, <2>2 DEF Delivered, Seen
  <2>6. f.id \notin lost => Underway(f)
    BY <1>1, <2>5 DEF Covered
  <2>7. Underway(f) => Underway(f)'
    BY <1>1 DEF Underway, InBatch, Says, Silent
  <2> QED
    BY <1>1, <2>4, <2>6, <2>7 DEF Covered, IdsOf
<1> QED
  BY <1>2 DEF Delivered, Reportable

\* A file that is taken is reported, and no other task's report is overwritten.
LEMMA TakeFileDelivered ==
    ASSUME TypeOK, IdsInv, Delivered, NEW p \in Paths, TakeFile(p), UNCHANGED syncVars
    PROVE  Delivered'
<1>1. /\ files[p].id \in TaskId /\ \A q \in Known \ {p} : hashes[q].id # files[p].id
      /\ \A q \in Paths \ {p} : hashes'[q] = hashes[q]
      /\ hashes'[p].hash = files[p]
      /\ changed' \in {changed, changed \cup {files[p]}}
      /\ Reportable(files[p]) => files[p] \in changed'
      /\ UNCHANGED <<deleted, results>>
  BY TakeFileFacts
<1>2. UNCHANGED <<batch, view, lost>>
  BY DEF syncVars
<1>3. ASSUME NEW f \in File, Seen(f)', Reportable(f), f # files[p]
      PROVE  Covered(f)'
  <2>1. PICK q \in Known' : hashes'[q].hash = f
    BY <1>3 DEF Seen
  <2>2. q \in Known /\ q # p /\ hashes[q].hash = f
    BY <1>1, <1>3, <2>1 DEF Known
  <2>3. hashes[q].id = f.id
    BY <1>3, <2>2 DEF IdsInv, EntryShape, Reportable
  <2>4. f.id # files[p].id
    BY <1>1, <2>2, <2>3
  <2>5. Covered(f)
    BY <1>3, <2>2 DEF Delivered, Seen
  <2>6. Underway(f) => Underway(f)'
    BY <1>1, <1>2 DEF Underway, InBatch, Says, Silent
  <2>7. f.id \notin IdsOf(changed) => f.id \notin IdsOf(changed')
    BY <1>1, <2>4 DEF IdsOf
  <2> QED
    BY <1>1, <1>2, <2>5, <2>6, <2>7 DEF Covered
<1>4. Reportable(files[p]) => Covered(files[p])'
  <2>1. files' = files
    BY TakeFileFacts
  <2> QED
    BY <1>1, <2>1 DEF Covered
<1> QED
  <2>1. files' = files
    BY TakeFileFacts
  <2> QED
    BY <1>3, <1>4, <2>1 DEF Delivered, Reportable

\* A report that is sent says what the cycle saw; one that is dropped is lost.
LEMMA SendsDelivered ==
    ASSUME TypeOK, Delivered, Sends
    PROVE  Delivered'
<1>1. /\ UNCHANGED <<hashes, batch, view>> /\ changed' = {} /\ deleted' = {}
      /\ lost' = IF results # <<>> THEN lost \cup IdsOf(changed)
                 ELSE (lost \ IdsOf(changed)) \cup (IdsOf(changed) \cap deleted)
  BY DEF Sends
<1>2. /\ results' # <<>>
      /\ results = <<>> => results'[1].changed = changed /\ results'[1].deleted = deleted
      /\ results # <<>> => results' = results
  BY SentFacts
<1>3. ASSUME NEW f \in File, Seen(f)', Reportable(f), f.id \notin lost'
      PROVE  Underway(f)'
  <2>1. Covered(f)
    BY <1>1, <1>3 DEF Delivered, Seen, Known
  <2>2. InBatch(f) => InBatch(f)'
    BY <1>1 DEF InBatch, Says, Silent
  <2>3. CASE results # <<>>
    <3>1. f.id \notin lost /\ f.id \notin IdsOf(changed)
      BY <1>1, <1>3, <2>3
    <3>2. f \notin changed
      BY <3>1 DEF IdsOf
    <3>3. Underway(f)
      BY <2>1, <3>1, <3>2 DEF Covered
    <3> QED
      BY <1>2, <2>2, <2>3, <3>3 DEF Underway, Says, Silent
  <2>4. CASE results = <<>>
    <3>1. CASE f \in changed
      <4>1. f.id \in IdsOf(changed)
        BY <3>1 DEF IdsOf
      <4>2. f.id \notin deleted
        BY <1>1, <1>3, <2>4, <4>1
      <4>3. results'[1].changed = changed /\ results'[1].deleted = deleted
        BY <1>2, <2>4
      <4>4. Says(results'[1], f)
        BY <3>1, <4>2, <4>3 DEF Says
      <4> QED
        BY <1>2, <4>4 DEF Underway, Says
    <3>2. CASE f \notin changed
      <4>1. f.id \notin IdsOf(changed) \cup deleted
        BY <2>1, <3>2 DEF Covered
      <4>2. f.id \notin lost
        BY <1>1, <1>3, <2>4, <4>1
      <4>3. InBatch(f)
        BY <2>1, <2>4, <3>2, <4>2 DEF Covered, Underway
      <4>4. results'[1].changed = changed /\ results'[1].deleted = deleted
        BY <1>2, <2>4
      <4>5. Silent(results'[1], f)
        BY <4>1, <4>4 DEF Silent
      <4> QED
        BY <1>2, <2>2, <4>3, <4>5 DEF Underway, Silent
    <3> QED
      BY <3>1, <3>2
  <2> QED
    BY <2>3, <2>4
<1>4. IdsOf({}) = {}
  BY DEF IdsOf
<1> QED
  BY <1>1, <1>3, <1>4 DEF Delivered, Covered, Reportable

\* What is published is what the report said, in the order of the report.
LEMMA PublishDelivered ==
    ASSUME TypeOK, ReportShape, Delivered, Receive \/ Publishes
    PROVE  Delivered'
<1>1. UNCHANGED <<hashes, changed, deleted, lost>>
  BY ReceiveFacts, PublishChangedFacts, PublishDeletedFacts DEF Publishes
<1>2. ASSUME NEW f \in File, Reportable(f), Underway(f) PROVE Underway(f)'
  <2>1. CASE Receive
    <3>1. /\ batch.changed = {} /\ results # <<>> /\ batch' = results[1] /\ results' = <<>>
          /\ view' = view
      BY <2>1, ReceiveFacts DEF Idle
    <3>2. Says(results[1], f) \/ (Silent(results[1], f) /\ view[f.id] = f)
      BY <1>2, <3>1 DEF Underway, InBatch, Says
    <3> QED
      BY <3>1, <3>2 DEF Underway, InBatch, Says, Silent
  <2>2. ASSUME InBatch(f) => InBatch(f)', results' = results PROVE Underway(f)'
    BY <1>2, <2>2 DEF Underway, Says, Silent
  <2>3. ASSUME NEW g \in batch.changed, PublishChanged(g), InBatch(f) PROVE InBatch(f)'
    <3>1. /\ f.id \in TaskId /\ g.id \in TaskId => view'[g.id] = g
          /\ \A i \in TaskId \ {g.id} : view'[i] = view[i]
          /\ batch'.changed = batch.changed \ {g} /\ batch'.deleted = batch.deleted
      BY <1>2, <2>3, PublishChangedFacts DEF Reportable
    <3>2. CASE f = g
      <4>1. f.id \notin batch.deleted
        BY <2>3, <3>2 DEF InBatch, Says, Silent, IdsOf
      <4>2. \A h \in batch.changed \ {g} : h.id # f.id
        BY <2>3, <3>2 DEF ReportShape, Distinct
      <4>3. Silent(batch', f)
        BY <3>1, <4>1, <4>2 DEF Silent, IdsOf
      <4>4. f.id \in TaskId
        BY <1>2 DEF Reportable
      <4> QED
        BY <3>1, <3>2, <4>3, <4>4 DEF InBatch, Silent
    <3>3. CASE f # g /\ Says(batch, f)
      BY <3>1, <3>3 DEF InBatch, Says
    <3>4. CASE Silent(batch, f) /\ view[f.id] = f
      <4>1. f.id # g.id
        BY <2>3, <3>4 DEF Silent, IdsOf
      <4>2. f.id \in TaskId
        BY <1>2 DEF Reportable
      <4>3. view'[f.id] = f
        BY <3>1, <3>4, <4>1, <4>2
      <4> QED
        BY <3>1, <3>4, <4>3 DEF InBatch, Silent, IdsOf
    <3> QED
      BY <2>3, <3>2, <3>3, <3>4 DEF InBatch
  <2>4. ASSUME NEW d \in batch.deleted, PublishDeleted(d), InBatch(f) PROVE InBatch(f)'
    <3>1. /\ batch.changed = {} /\ \A i \in TaskId \ {d} : view'[i] = view[i]
          /\ batch'.changed = {} /\ batch'.deleted = batch.deleted \ {d}
      BY <2>4, PublishDeletedFacts
    <3>2. Silent(batch, f) /\ view[f.id] = f /\ f.id \in TaskId
      BY <1>2, <2>4, <3>1 DEF InBatch, Says, Reportable
    <3>3. f.id # d
      BY <3>2 DEF Silent
    <3> QED
      BY <3>1, <3>2, <3>3 DEF InBatch, Silent, IdsOf
  <2>5. CASE Publishes
    <3>1. results' = results
      BY <2>5, PublishChangedFacts, PublishDeletedFacts DEF Publishes
    <3>2. InBatch(f) => InBatch(f)'
      BY <2>3, <2>4, <2>5 DEF Publishes
    <3> QED
      BY <2>2, <3>1, <3>2
  <2> QED
    BY <2>1, <2>5
<1>3. ASSUME NEW f \in File, Seen(f)', Reportable(f) PROVE Covered(f)'
  <2>1. Covered(f)
    BY <1>1, <1>3 DEF Delivered, Seen, Known
  <2> QED
    BY <1>1, <1>2, <1>3, <2>1 DEF Covered
<1> QED
  BY <1>3 DEF Delivered, Reportable

\* Every step keeps what the scanner saw on its way to the topic.
LEMMA DeliveredStep ==
    ASSUME TypeOK, IdsInv, ReportShape, Delivered, Kinds
    PROVE  Delivered'
<1>1. CASE OthersKeep
  BY <1>1, DeliveredKept DEF OthersKeep, OnlyFiles, ReportsKept, Seen, Known
<1>2. CASE Passes \/ ReadsForReset \/ ReadsForSweep
  BY <1>2, DeliveredKept DEF Passes, ReadsForReset, ReadsForSweep, Seen, Known
<1>3. CASE Starts
  BY <1>3, StartsDelivered
<1>4. CASE WriteEnds
  <2>1. /\ ReportsKept /\ at.path \in Paths
        /\ \A q \in Paths \ {at.path} : hashes'[q] = hashes[q]
        /\ hashes'[at.path] = hashes[at.path] \/ hashes'[at.path].hash = Zero
    BY <1>4 DEF WriteEnds
  <2>2. \A f \in File : Seen(f)' => Seen(f)
    BY <2>1, ScannerAssumption DEF Seen, Known
  <2> QED
    BY <2>1, <2>2, DeliveredKept
<1>5. ASSUME NEW p \in Paths, LooksAt(p) PROVE Delivered'
  <2>0. UNCHANGED syncVars /\ UNCHANGED <<batch, view, lost>>
    BY <1>5 DEF LooksAt, syncVars
  <2>1. CASE HaltRepair(p)
    <3>1. /\ \A q \in Paths \ {p} : hashes'[q] = hashes[q]
          /\ hashes'[p].hash.id \notin TaskId
          /\ UNCHANGED <<changed, deleted, results>>
      BY <2>1, HaltRepairFacts
    <3>2. \A f \in File : Seen(f)' /\ Reportable(f) => Seen(f)
      BY <3>1 DEF Seen, Known, Reportable
    <3> QED
      BY <2>0, <3>1, <3>2, DeliveredKept DEF ReportsKept
  <2>2. CASE BeginRepair(p) \/ BeginReset(p)
    <3>1. UNCHANGED <<hashes, changed, deleted, results>>
      BY <2>2, BeginRepairFacts, BeginResetFacts
    <3> QED
      BY <2>0, <3>1, DeliveredKept DEF ReportsKept, Seen, Known
  <2>3. CASE TakeFile(p)
    BY <2>0, <2>3, TakeFileDelivered
  <2> QED
    BY <1>5, <2>1, <2>2, <2>3 DEF LooksAt
<1>6. CASE Sends
  BY <1>6, SendsDelivered
<1>7. CASE Receive \/ Publishes
  BY <1>7, PublishDelivered
<1>8. CASE Restart
  <2>1. Known' = {}
    BY <1>8 DEF Restart, Known
  <2> QED
    BY <2>1 DEF Delivered, Seen
<1> QED
  BY <1>1, <1>2, <1>3, <1>4, <1>5, <1>6, <1>7, <1>8 DEF Kinds

-----------------------------------------------------------------------------
(* The theorems. *)

\* The process starts with no entry and nothing to report.
LEMMA InitHolds ==
    ASSUME Init
    PROVE  SyncInv
<1>1. /\ Known = {} /\ Present = {} /\ pc = "idle" /\ swept = {} /\ changed = {} /\ deleted = {}
      /\ results = <<>> /\ batch = Idle
  BY DEF Init, ScannerInit, Known, Present
<1>2. autoInject \in BOOLEAN
  BY DEF Init, ScannerInit
<1>3. EntryTypes /\ PathTypes /\ edits \in Nat /\ faults \in Nat
  BY DEF Init, ScannerInit, EntryTypes, PathTypes
<1>4. Idle \in ScanResult /\ Idle.changed = {}
  BY DEF Idle, ScanResult
<1>5. <<>> \in Seq(ScanResult) /\ Len(<<>>) <= 1
  BY SMT
<1>6. ReportTypes
  BY <1>1, <1>4, <1>5 DEF Init, ReportTypes
<1>7. TypeOK
  BY <1>2, <1>3, <1>6 DEF TypeOK, ScannerTypeOK, EntryTypes, PathTypes, ReportTypes
<1>8. WriteShape /\ IdsInv
  BY <1>1 DEF WriteShape, Rewriting, IdsInv, EntryShape, MintedOnly, Claimed, UniqueIdentifiers
<1>9. BudgetInv
  <2>1. \A p \in Paths : resets[p] = 0 /\ redelegations[p] = 0 /\ unanswered[p] = 0
    BY DEF Init
  <2>2. ResetOncePerRedelegation
    <3>1. SUFFICES ASSUME NEW p \in Paths PROVE resets[p] <= redelegations[p] + unanswered[p]
      BY DEF ResetOncePerRedelegation
    <3>2. resets[p] = 0 /\ redelegations[p] = 0 /\ unanswered[p] = 0
      BY <2>1, <3>1
    <3>3. 0 <= 0 + 0
      OBVIOUS
    <3> QED
      BY <3>2, <3>3
  <2>3. ResetOwed /\ StaysParked
    BY <1>1 DEF ResetOwed, StaysParked
  <2> QED
    BY <2>2, <2>3 DEF BudgetInv
<1>10. ReportShape /\ Delivered
  BY <1>1, <1>4 DEF ReportShape, Distinct, IdsOf, Rewriting, Delivered, Seen
<1> QED
  BY <1>7, <1>8, <1>9, <1>10 DEF SyncInv

\* No step of the scanner, of the sync loop or of another writer breaks it.
LEMMA StepHolds ==
    ASSUME SyncInv, Next
    PROVE  SyncInv'
<1>1. TypeOK /\ WriteShape /\ IdsInv /\ BudgetInv /\ ReportShape /\ Delivered
  BY DEF SyncInv
<1>2. Kinds
  BY <1>1, StepKinds
<1>3. EntryTypes' /\ ReportTypes' /\ PathTypes'
  BY <1>1, <1>2, TypesKept
<1>4. edits' \in Nat /\ faults' \in Nat
  BY <1>1, CountersOK
<1>5. autoInject' \in BOOLEAN
  BY <1>1, SwitchKept DEF TypeOK, ScannerTypeOK
<1>6. TypeOK'
  BY <1>3, <1>4, <1>5 DEF TypeOK, ScannerTypeOK, EntryTypes, ReportTypes, PathTypes
<1>7. WriteShape' /\ IdsInv' /\ BudgetInv' /\ ReportShape' /\ Delivered'
  BY <1>1, <1>2, WriteShapeKept, IdsKept, BudgetKept, ReportShapeKept, DeliveredStep
<1> QED
  BY <1>6, <1>7 DEF SyncInv

\* A step that changes nothing keeps everything.
LEMMA StutterHolds ==
    ASSUME SyncInv, UNCHANGED vars
    PROVE  SyncInv'
<1>1. /\ UNCHANGED <<files, hashes, pc, todo, at, buf, changed, deleted, results, autoInject, minted>>
      /\ UNCHANGED <<batch, view, lost, swept, redelegations, resets, unanswered, edits, faults>>
  BY DEF vars, scanVars, syncVars
<1>2. Known' = Known /\ Present' = Present /\ Rewriting' = Rewriting
  BY <1>1 DEF Known, Present, Rewriting
<1>3. TypeOK' /\ WriteShape'
  BY <1>1, <1>2 DEF SyncInv, TypeOK, ScannerTypeOK, WriteShape
<1>4. IdsInv'
  BY <1>1, IdsUntouched DEF SyncInv
<1>5. BudgetInv'
  BY <1>1, <1>2, BudgetUntouched DEF SyncInv
<1>6. ReportShape'
  BY <1>1, <1>2 DEF SyncInv, ReportShape
<1>7. Delivered'
  BY <1>1, <1>2, DeliveredKept DEF SyncInv, ReportsKept, Seen
<1> QED
  BY <1>3, <1>4, <1>5, <1>6, <1>7 DEF SyncInv

\* The inductive invariant of the scanner and the sync loop.
THEOREM SyncInvariant == Spec => []SyncInv
<1>1. Init => SyncInv
  BY InitHolds
<1>2. SyncInv /\ [Next]_vars => SyncInv'
  BY StepHolds, StutterHolds
<1> QED
  BY <1>1, <1>2, PTL DEF Spec

\* Every variable of the scanner, the sync loop and the topic keeps its type; the
\* channel never holds more than its one slot.
THEOREM SyncTypeCorrect == Spec => []TypeOK
<1>1. SyncInv => TypeOK
  BY DEF SyncInv
<1> QED
  BY <1>1, SyncInvariant, PTL

\* Whatever is copied, renamed or minted, no two paths of the bookkeeping claim
\* one identifier.
THEOREM UniqueIdentifiersHold == Spec => []UniqueIdentifiers
<1>1. SyncInv => UniqueIdentifiers
  BY DEF SyncInv, IdsInv
<1> QED
  BY <1>1, SyncInvariant, PTL

\* Over edits, renames, repairs and restarts, a path sees no more resets of its
\* budget than re-delegations and resets that were stored without an answer.
THEOREM ResetOnceHolds == Spec => []ResetOncePerRedelegation
<1>1. SyncInv => ResetOncePerRedelegation
  BY DEF SyncInv, BudgetInv
<1> QED
  BY <1>1, SyncInvariant, PTL

\* What the sweep rescued has no assignee until a person acts.
THEOREM RescueSurvivesHolds == Spec => []RescueSurvives
<1>1. SyncInv => RescueSurvives
  <2>1. SUFFICES ASSUME SyncInv, NEW p \in swept, files[p] # NoFile PROVE files[p].assignee = ""
    BY DEF RescueSurvives
  <2>2. p \in Present
    BY <2>1 DEF SyncInv, TypeOK, Present
  <2> QED
    BY <2>1, <2>2 DEF SyncInv, BudgetInv, StaysParked, Parked
<1> QED
  BY <1>1, SyncInvariant, PTL

\* Between two cycles the topic's latest event of a settled task is its file, but
\* for the reports a full channel dropped or a delete overtook.
THEOREM SettledIsPublishedHolds == Spec => []SettledIsPublished
<1>1. SyncInv => SettledIsPublished
  <2>1. SUFFICES ASSUME SyncInv, Quiet, NEW p \in Paths, Settled(p), files[p].id \notin lost
                 PROVE  view[files[p].id] = files[p]
    BY DEF SettledIsPublished
  <2>2. /\ p \in Known /\ hashes[p].hash = files[p] /\ files[p] # NoFile
        /\ files[p].assignee # "" /\ files[p].status # "" /\ files[p].id \in TaskId
    BY <2>1 DEF Settled
  <2>3. files[p] \in File
    BY <2>1, <2>2 DEF SyncInv, TypeOK, ScannerTypeOK
  <2>4. Covered(files[p])
    BY <2>1, <2>2, <2>3 DEF SyncInv, Delivered, Seen, Reportable
  <2>5. changed = {} /\ results = <<>> /\ batch.changed = {}
    BY <2>1 DEF SyncInv, ReportShape, Quiet, Idle
  <2> QED
    BY <2>1, <2>4, <2>5 DEF Covered, Underway, InBatch, Says
<1> QED
  BY <1>1, SyncInvariant, PTL

=============================================================================
