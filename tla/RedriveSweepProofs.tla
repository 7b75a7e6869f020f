--------------------------- MODULE RedriveSweepProofs ---------------------------
(***************************************************************************)
(* Proofs about the re-drive sweep, for any tasks, any interval and any    *)
(* number of faults: no task is published twice within an interval, though *)
(* the map that suppresses the second event is lost with the process.      *)
(***************************************************************************)
EXTENDS RedriveSweep, TLAPS

\* An entry of the map is as old as the last event of its task.
EntryIsGap == \A t \in Tasks : published[t] # Never => published[t] = gap[t]

\* A task without an entry was last published an interval ago, or the process
\* has restarted and its first tick is that far away.
NoEntryIsOld ==
    \A t \in Tasks : published[t] = Never /\ gap[t] # Interval =>
        sweep = "idle" /\ ~tick /\ gap[t] + remaining >= Interval

\* A sweep finds no entry only where the last event is an interval away from
\* its now, and the task it is about to publish has none.
SweepIsSpaced ==
    /\ sweep \in {"scan", "publish"} =>
         \A t \in Tasks : published[t] = Never => spaced[t]
    /\ sweep = "publish" => published[target] = Never

SweepInv == TypeOK /\ EntryIsGap /\ NoEntryIsOld /\ SweepIsSpaced /\ EventsSpaced

-----------------------------------------------------------------------------

(* One tick makes an age older, up to the interval. *)
LEMMA OlderFacts ==
    ASSUME NEW a \in Age
    PROVE  /\ Older(a) \in Age /\ Older(Never) = Never /\ Older(a) # Never
           /\ Older(a) = Interval \/ Older(a) = a + 1
           /\ Older(Interval) = Interval
BY RedriveAssumption DEF Older, Age

(* The clock: entries and history age together, and a tick that the restart of
   the process put off comes after the interval. *)
LEMMA TimeStep ==
    ASSUME SweepInv, TimePasses
    PROVE  SweepInv'
<1>0. TypeOK
  BY DEF SweepInv
<1>1. /\ remaining' = IF remaining = 1 THEN Interval ELSE remaining - 1
      /\ tick' = (tick \/ remaining = 1) /\ since' = Older(since)
      /\ UNCHANGED <<task, sweep, todo, target, spaced, queued, early, faults, edits>>
  BY DEF TimePasses
<1>2. \A t \in Tasks : published'[t] = Older(published[t]) /\ gap'[t] = Older(gap[t])
  BY DEF TimePasses
<1>3. \A t \in Tasks : gap[t] \in Age /\ published[t] \in Age \cup {Never}
  BY <1>0 DEF TypeOK
<1>4. \A t \in Tasks : /\ gap'[t] \in Age /\ published'[t] \in Age \cup {Never}
                       /\ published'[t] = Never <=> published[t] = Never
  BY <1>2, <1>3, OlderFacts, RedriveAssumption DEF Age
<1>5. TypeOK'
  <2>1. since' \in Age
    BY <1>0, <1>1, OlderFacts DEF TypeOK
  <2>2. remaining' \in 1 .. Interval
    BY <1>0, <1>1, RedriveAssumption DEF TypeOK
  <2>3. published' \in [Tasks -> Age \cup {Never}] /\ gap' \in [Tasks -> Age]
    BY <1>3, OlderFacts, RedriveAssumption DEF TimePasses, Age
  <2>4. tick' \in BOOLEAN
    BY <1>1
  <2>5. QED
    BY <1>0, <1>1, <2>1, <2>2, <2>3, <2>4 DEF TypeOK
<1>6. EntryIsGap'
  BY <1>2, <1>4 DEF SweepInv, EntryIsGap
<1>7. NoEntryIsOld'
  <2>1. SUFFICES ASSUME NEW t \in Tasks, published'[t] = Never, gap'[t] # Interval
                 PROVE  sweep' = "idle" /\ ~tick' /\ gap'[t] + remaining' >= Interval
    BY DEF NoEntryIsOld
  <2>2. published[t] = Never /\ gap[t] # Interval /\ gap'[t] = gap[t] + 1
    BY <1>2, <1>3, <1>4, <2>1, OlderFacts
  <2>3. sweep = "idle" /\ ~tick /\ gap[t] + remaining >= Interval
    BY <2>2 DEF SweepInv, NoEntryIsOld
  <2>4. gap[t] \in 0 .. Interval /\ gap[t] + 1 \in 0 .. Interval /\ remaining \in 1 .. Interval
    BY <1>0, <1>3, <1>4, <2>2 DEF Age, TypeOK
  <2>5. remaining # 1
    BY <2>1, <2>2, <2>3, <2>4, RedriveAssumption
  <2>6. gap'[t] + remaining' >= Interval
    BY <1>1, <2>2, <2>3, <2>4, <2>5, RedriveAssumption
  <2>7. QED
    BY <1>1, <2>3, <2>5, <2>6
<1>8. SweepIsSpaced'
  <2>1. sweep = "publish" => target \in Tasks
    BY <1>0 DEF TypeOK
  <2>2. QED
    BY <1>1, <1>4, <2>1 DEF SweepInv, SweepIsSpaced
<1>9. EventsSpaced'
  BY <1>1 DEF SweepInv, EventsSpaced
<1>10. QED
  BY <1>5, <1>6, <1>7, <1>8, <1>9 DEF SweepInv

(* A sweep that starts, fails or ends leaves map and history alone. *)
LEMMA IdleStep ==
    ASSUME SweepInv, SweepStart \/ SweepFails \/ SweepDone
    PROVE  SweepInv'
<1>0. TypeOK
  BY DEF SweepInv
<1>1. /\ UNCHANGED <<task, remaining, todo, target, since, published, spaced, queued, gap,
                     early, edits>>
      /\ sweep # "publish" /\ sweep' \in {"idle", "pull"}
      /\ sweep' = "pull" => tick
      /\ tick' \in BOOLEAN /\ (tick' => tick)
  <2>0. tick \in BOOLEAN
    BY <1>0 DEF TypeOK
  <2>1. CASE SweepStart
    BY <2>1 DEF SweepStart, history
  <2>2. CASE SweepFails \/ SweepDone
    <3>1. /\ UNCHANGED <<task, remaining, todo, target, since, published, spaced, queued, gap,
                         early, edits>>
          /\ tick' = tick /\ sweep # "publish" /\ sweep' = "idle"
      BY <2>2 DEF SweepFails, SweepDone, history
    <3>2. QED
      BY <2>0, <3>1
  <2>3. QED
    BY <2>1, <2>2
<1>2. faults' \in 0 .. MaxFaults
  BY <1>0, RedriveAssumption DEF SweepStart, SweepFails, SweepDone, Fault, TypeOK
<1>3. TypeOK'
  BY <1>0, <1>1, <1>2 DEF TypeOK
<1>4. NoEntryIsOld'
  BY <1>1 DEF SweepInv, NoEntryIsOld
<1>5. QED
  BY <1>1, <1>3, <1>4 DEF SweepInv, EntryIsGap, SweepIsSpaced, EventsSpaced

(* The sweep prunes what is an interval old, measured from its now. *)
LEMMA NowStep ==
    ASSUME SweepInv, SweepNow
    PROVE  SweepInv'
<1>0. TypeOK
  BY DEF SweepInv
<1>1. /\ sweep = "pull" /\ sweep' = "scan" /\ todo' = Tasks /\ since' = 0
      /\ UNCHANGED <<task, remaining, tick, target, queued, gap, early, faults, edits>>
  BY DEF SweepNow, history
<1>2. \A t \in Tasks : /\ published'[t] = IF published[t] = Interval THEN Never ELSE published[t]
                       /\ spaced'[t] = (gap[t] = Interval)
  BY DEF SweepNow, Pruned
<1>3. TypeOK'
  <2>1. published' \in [Tasks -> Age \cup {Never}]
    BY <1>0 DEF SweepNow, Pruned, TypeOK
  <2>2. spaced' \in [Tasks -> BOOLEAN]
    BY DEF SweepNow
  <2>3. since' \in Age
    BY <1>1, RedriveAssumption DEF Age
  <2>4. QED
    BY <1>0, <1>1, <2>1, <2>2, <2>3 DEF TypeOK
<1>4. \A t \in Tasks : published'[t] = Never => gap[t] = Interval
  BY <1>1, <1>2 DEF SweepInv, EntryIsGap, NoEntryIsOld
<1>5. EntryIsGap'
  BY <1>1, <1>2 DEF SweepInv, EntryIsGap
<1>6. NoEntryIsOld' /\ SweepIsSpaced' /\ EventsSpaced'
  BY <1>1, <1>2, <1>4 DEF SweepInv, NoEntryIsOld, SweepIsSpaced, EventsSpaced
<1>7. QED
  BY <1>3, <1>5, <1>6 DEF SweepInv

(* A file is read, or cannot be; only one without an entry becomes the target. *)
LEMMA ReadStep ==
    ASSUME SweepInv, NEW t \in Tasks, SweepRead(t) \/ SweepReadFails(t)
    PROVE  SweepInv'
<1>0. TypeOK
  BY DEF SweepInv
<1>1. /\ UNCHANGED <<task, remaining, tick, since, published, spaced, queued, gap, early, edits>>
      /\ sweep = "scan" /\ todo' = todo \ {t}
      /\ \/ sweep' = "publish" /\ target' = t /\ published[t] = Never
         \/ UNCHANGED <<sweep, target>>
  BY DEF SweepRead, SweepReadFails, Suppressed, history
<1>2. faults' \in 0 .. MaxFaults
  BY <1>0, RedriveAssumption DEF SweepRead, SweepReadFails, Fault, TypeOK
<1>3. TypeOK'
  BY <1>0, <1>1, <1>2 DEF TypeOK
<1>4. QED
  BY <1>1, <1>3 DEF SweepInv, EntryIsGap, NoEntryIsOld, SweepIsSpaced, EventsSpaced

(* An event is recorded with the sweep's now; a failed one is not recorded. *)
LEMMA PublishStep ==
    ASSUME SweepInv, SweepPublish \/ SweepPublishFails
    PROVE  SweepInv'
<1>0. TypeOK
  BY DEF SweepInv
<1>1. /\ sweep = "publish" /\ sweep' = "scan" /\ target' = NoTask /\ target \in Tasks
      /\ published[target] = Never /\ spaced[target]
      /\ UNCHANGED <<task, remaining, tick, todo, since, edits>>
  BY <1>0 DEF SweepPublish, SweepPublishFails, NextTarget, TypeOK, SweepInv, SweepIsSpaced
<1>2. CASE SweepPublish
  <2>1. /\ published' = [published EXCEPT ![target] = since]
        /\ gap' = [gap EXCEPT ![target] = since]
        /\ spaced' = [spaced EXCEPT ![target] = FALSE]
        /\ early' = early /\ queued' = queued \cup {target} /\ UNCHANGED faults
    BY <1>1, <1>2 DEF SweepPublish, Recorded
  <2>2. since \in Age /\ since # Never
    BY <1>0, RedriveAssumption DEF TypeOK, Age
  <2>3. TypeOK'
    BY <1>0, <1>1, <2>1, <2>2 DEF TypeOK
  <2>4. \A t \in Tasks : /\ published'[t] = IF t = target THEN since ELSE published[t]
                         /\ gap'[t] = IF t = target THEN since ELSE gap[t]
                         /\ t # target => spaced'[t] = spaced[t]
    BY <1>0, <2>1 DEF TypeOK
  <2>5. EntryIsGap' /\ EventsSpaced'
    <3>1. \A t \in Tasks : published[t] # Never => published[t] = gap[t]
      BY DEF SweepInv, EntryIsGap
    <3>2. EntryIsGap'
      BY <2>4, <3>1 DEF EntryIsGap
    <3>3. QED
      BY <2>1, <3>2 DEF SweepInv, EventsSpaced
  <2>6. NoEntryIsOld'
    BY <1>1, <2>2, <2>4 DEF SweepInv, NoEntryIsOld
  <2>7. SweepIsSpaced'
    <3>1. SUFFICES ASSUME NEW t \in Tasks, published'[t] = Never PROVE spaced'[t]
      BY <1>1 DEF SweepIsSpaced
    <3>2. t # target /\ published[t] = Never
      BY <2>2, <2>4, <3>1
    <3>3. spaced[t]
      BY <1>1, <3>2 DEF SweepInv, SweepIsSpaced
    <3>4. QED
      BY <2>4, <3>2, <3>3
  <2>8. QED
    BY <2>3, <2>5, <2>6, <2>7 DEF SweepInv
<1>3. CASE SweepPublishFails
  <2>1. UNCHANGED <<published, spaced, queued, gap, early>> /\ faults' \in 0 .. MaxFaults
    BY <1>0, <1>3, RedriveAssumption DEF SweepPublishFails, history, Fault, TypeOK
  <2>2. TypeOK'
    BY <1>0, <1>1, <2>1 DEF TypeOK
  <2>3. QED
    BY <1>1, <2>1, <2>2 DEF SweepInv, EntryIsGap, NoEntryIsOld, SweepIsSpaced, EventsSpaced
<1>4. QED
  BY <1>2, <1>3

(* The restarted process has no map, and a whole interval until its first tick. *)
LEMMA CrashStep ==
    ASSUME SweepInv, Crash
    PROVE  SweepInv'
<1>0. TypeOK
  BY DEF SweepInv
<1>1. /\ remaining' = Interval /\ tick' = FALSE /\ sweep' = "idle" /\ todo' = {}
      /\ target' = NoTask /\ since' = 0 /\ published' = Forgotten
      /\ UNCHANGED <<task, spaced, queued, gap, early, edits>>
      /\ faults' \in 0 .. MaxFaults
  BY <1>0, RedriveAssumption DEF Crash, history, Fault, TypeOK
<1>2. TypeOK'
  <2>1. /\ published' \in [Tasks -> Age \cup {Never}] /\ since' \in Age
        /\ remaining' \in 1 .. Interval
    BY <1>1, RedriveAssumption DEF Forgotten, Age
  <2>2. QED
    BY <1>0, <1>1, <2>1 DEF TypeOK
<1>3. \A t \in Tasks : published'[t] = Never /\ gap'[t] + remaining' >= Interval
  <2>1. \A t \in Tasks : gap[t] \in 0 .. Interval
    BY <1>0 DEF TypeOK, Age
  <2>2. QED
    BY <1>1, <2>1, RedriveAssumption DEF Forgotten
<1>4. QED
  BY <1>1, <1>2, <1>3 DEF SweepInv, EntryIsGap, NoEntryIsOld, SweepIsSpaced, EventsSpaced

(* The executor and the operator change tasks and events, not the sweep. *)
LEMMA OutsideStep ==
    ASSUME SweepInv, NEW t \in Tasks,
           ExecutorSpawns(t) \/ ExecutorMisses(t) \/ TaskChanges(t)
    PROVE  SweepInv'
<1>0. TypeOK
  BY DEF SweepInv
<1>1. UNCHANGED <<remaining, tick, sweep, todo, target, since, published, spaced, gap, early>>
  BY DEF ExecutorSpawns, ExecutorMisses, TaskChanges, memory, history
<1>2. faults' \in 0 .. MaxFaults /\ edits' \in 0 .. MaxEdits /\ queued' \subseteq Tasks
  <2>1. CASE ExecutorSpawns(t)
    BY <1>0, <2>1 DEF ExecutorSpawns, TypeOK
  <2>2. CASE ExecutorMisses(t)
    BY <1>0, <2>2, RedriveAssumption DEF ExecutorMisses, Fault, TypeOK
  <2>3. CASE TaskChanges(t)
    <3>1. edits' = edits + 1 /\ edits < MaxEdits /\ UNCHANGED <<faults, queued>>
      BY <2>3 DEF TaskChanges
    <3>2. QED
      BY <1>0, <3>1, RedriveAssumption DEF TypeOK
  <2>4. QED
    BY <2>1, <2>2, <2>3
<1>3. task' \in [Tasks -> Record]
  <2>0. task \in [Tasks -> Record] /\ task[t] \in Record
    BY <1>0 DEF TypeOK
  <2>1. \A j \in {"", "job"} : [task[t] EXCEPT !.current_job = j] \in Record
    BY <2>0 DEF Record
  <2>2. CASE ExecutorSpawns(t)
    <3>1. PICK j \in {"", "job"} : task' = [task EXCEPT ![t] = [task[t] EXCEPT !.current_job = j]]
      <4>1. task[t].current_job \in {"", "job"}
        BY <2>0 DEF Record
      <4>2. QED
        BY <2>2, <4>1 DEF ExecutorSpawns
    <3>2. QED
      BY <2>0, <2>1, <3>1
  <2>3. CASE ExecutorMisses(t)
    BY <2>0, <2>3 DEF ExecutorMisses
  <2>4. CASE TaskChanges(t)
    <3>1. PICK r \in Record : task' = [task EXCEPT ![t] = r]
      <4>1. CASE task' = [task EXCEPT ![t].current_job = ""]
        BY <2>1, <4>1
      <4>2. CASE \E r \in Records : task' = [task EXCEPT ![t] = r]
        BY <4>2, RedriveAssumption
      <4>3. QED
        BY <2>4, <4>1, <4>2 DEF TaskChanges
    <3>2. QED
      BY <2>0, <3>1
  <2>5. QED
    BY <2>2, <2>3, <2>4
<1>4. TypeOK'
  BY <1>0, <1>1, <1>2, <1>3 DEF TypeOK
<1>5. QED
  BY <1>1, <1>4 DEF SweepInv, EntryIsGap, NoEntryIsOld, SweepIsSpaced, EventsSpaced

(* The sweep with its map, its ticker, its failures and its restarts. *)
THEOREM SweepInvariant == Spec => []SweepInv
<1>1. Init => SweepInv
  <2>1. SUFFICES ASSUME Init PROVE SweepInv
    OBVIOUS
  <2>2. task \in [Tasks -> Record]
    BY <2>1, RedriveAssumption DEF Init
  <2>3. /\ published \in [Tasks -> Age \cup {Never}] /\ gap \in [Tasks -> Age]
        /\ spaced \in [Tasks -> BOOLEAN] /\ since \in Age /\ remaining \in 1 .. Interval
    BY <2>1, RedriveAssumption DEF Init, Forgotten, Age
  <2>4. TypeOK
    <3>1. faults \in 0 .. MaxFaults /\ edits \in 0 .. MaxEdits
      BY <2>1, RedriveAssumption DEF Init
    <3>2. tick \in BOOLEAN
      BY <2>1 DEF Init
    <3>3. QED
      BY <2>1, <2>2, <2>3, <3>1, <3>2 DEF Init, TypeOK
  <2>5. QED
    BY <2>1, <2>4 DEF Init, Forgotten, SweepInv, EntryIsGap, NoEntryIsOld, SweepIsSpaced,
                      EventsSpaced
<1>2. SweepInv /\ [Next]_vars => SweepInv'
  <2>1. SUFFICES ASSUME SweepInv, [Next]_vars PROVE SweepInv'
    OBVIOUS
  <2>2. CASE TimePasses \/ Crash
    BY <2>1, <2>2, TimeStep, CrashStep
  <2>3. CASE SweepStart \/ SweepFails \/ SweepDone \/ SweepNow
    BY <2>1, <2>3, IdleStep, NowStep
  <2>4. CASE SweepPublish \/ SweepPublishFails
    BY <2>1, <2>4, PublishStep
  <2>5. CASE \E t \in Tasks : SweepRead(t) \/ SweepReadFails(t)
    BY <2>1, <2>5, ReadStep
  <2>6. CASE \E t \in Tasks : ExecutorSpawns(t) \/ ExecutorMisses(t) \/ TaskChanges(t)
    BY <2>1, <2>6, OutsideStep
  <2>7. CASE UNCHANGED vars
    BY <2>1, <2>7 DEF vars, memory, history, SweepInv, TypeOK, EntryIsGap, NoEntryIsOld,
                      SweepIsSpaced, EventsSpaced
  <2>8. QED
    BY <2>1, <2>2, <2>3, <2>4, <2>5, <2>6, <2>7 DEF Next, Sweep
<1>3. QED
  BY <1>1, <1>2, PTL DEF Spec

(* Ages, map, ticker and history keep their types at every speed of the clock. *)
THEOREM SweepTypeCorrect == Spec => []TypeOK
<1>1. SweepInv => TypeOK
  BY DEF SweepInv
<1>2. QED
  BY <1>1, SweepInvariant, PTL

(* No task is published twice within an interval, however long a pull takes and
   however often the process restarts. *)
THEOREM EventsSpacedHolds == Spec => []EventsSpaced
<1>1. SweepInv => EventsSpaced
  BY DEF SweepInv
<1>2. QED
  BY <1>1, SweepInvariant, PTL

=============================================================================
