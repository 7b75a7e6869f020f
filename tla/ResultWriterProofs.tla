--------------------------- MODULE ResultWriterProofs ---------------------------
(* Proofs about the result write path, for every value of the constants. *)
EXTENDS ResultWriter, WellFoundedInduction, TLAPS

(* Reading and writing an optional key. *)
LEMMA OptFacts ==
    ASSUME NEW S
    PROVE  /\ Absent \in Opt(S)
           /\ \A x \in S : x \in Opt(S)
           /\ \A x \in Opt(S) : x # Absent => x \in S
           /\ \A x, y \in Opt(S) : Incoming(x, y) \in Opt(S) /\ OperatorOwned(x, y) \in Opt(S)
  BY DEF Opt, Incoming, OperatorOwned

(* The types of the keys of a frontmatter. *)
LEMMA FieldTypes ==
    ASSUME NEW fm \in Frontmatter
    PROVE  /\ fm.status \in Opt(Statuses)
           /\ fm.phase \in Opt(Phases \cup {"human_review"})
           /\ fm.assignee \in Opt(Agents \cup Humans \cup {""})
           /\ fm.previous_assignee \in Opt(Agents \cup Humans \cup {""})
           /\ fm.task_type \in Opt(TaskTypes)
           /\ fm.trigger_count \in Opt(Nat)
           /\ fm.max_triggers \in Opt(Nat)
           /\ fm.ref \in Opt({"set"})
           /\ fm.cluster \in Opt(Clusters)
           /\ fm.current_job \in Opt({"", "job"})
           /\ fm.target_vault \in Opt({"here"})
           /\ fm.spawn_notification \in Opt({"set"})
           /\ fm.retry_count \in Opt(Nat)
           /\ fm.max_retries \in Opt(Nat)
           /\ fm.assignee_reassigned_by \in Opt({"set"})
           /\ fm.metrics_agent_turns \in Opt(Nat)
  BY DEF Frontmatter

(* What a merge returns is a frontmatter again, whatever an agent delivered. *)
LEMMA MergeTyped ==
    ASSUME NEW e \in Frontmatter, NEW i \in Frontmatter
    PROVE  MergeFrontmatter(e, i) \in Frontmatter
<1>1. Accumulated(e.metrics_agent_turns, i.metrics_agent_turns) \in Opt(Nat)
  <2>1. e.metrics_agent_turns \in Opt(Nat) /\ i.metrics_agent_turns \in Opt(Nat)
    BY FieldTypes
  <2>2. CASE e.metrics_agent_turns = Absent \/ i.metrics_agent_turns = Absent
    BY <2>1, <2>2, OptFacts DEF Accumulated
  <2>3. CASE e.metrics_agent_turns # Absent /\ i.metrics_agent_turns # Absent
    <3>1. e.metrics_agent_turns \in Nat /\ i.metrics_agent_turns \in Nat
      BY <2>1, <2>3, OptFacts
    <3>2. e.metrics_agent_turns + i.metrics_agent_turns \in Nat
      BY <3>1
    <3>3. QED
      BY <3>2, <2>3, OptFacts DEF Accumulated
  <2>4. QED
    BY <2>2, <2>3
<1>2. MergedAssignee(e, i) \in Opt(Agents \cup Humans \cup {""})
  BY FieldTypes, OptFacts DEF MergedAssignee
<1>3. MergedTaskType(e, i) \in Opt(TaskTypes)
  BY FieldTypes, OptFacts DEF MergedTaskType
<1>4. MergedStatus(e, i) \in Opt(Statuses)
  BY FieldTypes, OptFacts DEF MergedStatus
<1>5. (IF HonoursDeclaration(e, i) THEN Absent
       ELSE Incoming(e.assignee_reassigned_by, i.assignee_reassigned_by)) \in Opt({"set"})
  BY FieldTypes, OptFacts
<1>6. Incoming(e.phase, i.phase) \in Opt(Phases \cup {"human_review"})
  BY FieldTypes, OptFacts
<1>7. Incoming(e.ref, i.ref) \in Opt({"set"})
  BY FieldTypes, OptFacts
<1>8. Incoming(e.current_job, i.current_job) \in Opt({"", "job"})
  BY FieldTypes, OptFacts
<1>9. Incoming(e.target_vault, i.target_vault) \in Opt({"here"})
  BY FieldTypes, OptFacts
<1>10. Incoming(e.spawn_notification, i.spawn_notification) \in Opt({"set"})
  BY FieldTypes, OptFacts
<1>11. /\ Incoming(e.retry_count, i.retry_count) \in Opt(Nat)
       /\ Incoming(e.max_retries, i.max_retries) \in Opt(Nat)
  BY FieldTypes, OptFacts
<1>12. OperatorOwned(e.previous_assignee, i.previous_assignee)
          \in Opt(Agents \cup Humans \cup {""})
  BY FieldTypes, OptFacts
<1>13. /\ ControllerOwned(e.trigger_count, i.trigger_count) \in Opt(Nat)
       /\ ControllerOwned(e.max_triggers, i.max_triggers) \in Opt(Nat)
       /\ OperatorPinned(e.cluster, i.cluster) \in Opt(Clusters)
  BY FieldTypes DEF ControllerOwned, OperatorPinned
<1>14. QED
  BY <1>1, <1>2, <1>3, <1>4, <1>5, <1>6, <1>7, <1>8, <1>9, <1>10, <1>11, <1>12, <1>13
  DEF MergeFrontmatter, Frontmatter

(* Overwriting a key with a value of its type gives a frontmatter. *)
LEMMA SetKey ==
    ASSUME NEW fm \in Frontmatter
    PROVE  /\ \A x \in Opt(Statuses) : [fm EXCEPT !.status = x] \in Frontmatter
           /\ \A x \in Opt(Phases \cup {"human_review"}) : [fm EXCEPT !.phase = x] \in Frontmatter
           /\ \A x \in Opt(Agents \cup Humans \cup {""}) : [fm EXCEPT !.assignee = x] \in Frontmatter
           /\ \A x \in Opt(Agents \cup Humans \cup {""}) :
                 [fm EXCEPT !.previous_assignee = x] \in Frontmatter
           /\ \A x \in Opt(TaskTypes) : [fm EXCEPT !.task_type = x] \in Frontmatter
           /\ \A x \in Opt(Nat) : [fm EXCEPT !.trigger_count = x] \in Frontmatter
           /\ \A x \in Opt(Clusters) : [fm EXCEPT !.cluster = x] \in Frontmatter
           /\ \A x \in Opt({"", "job"}) : [fm EXCEPT !.current_job = x] \in Frontmatter
           /\ \A x \in Opt({"here"}) : [fm EXCEPT !.target_vault = x] \in Frontmatter
           /\ \A x \in Opt({"set"}) : [fm EXCEPT !.spawn_notification = x] \in Frontmatter
           /\ \A x \in Opt({"set"}) : [fm EXCEPT !.assignee_reassigned_by = x] \in Frontmatter
           /\ \A x \in Opt(Nat) : [fm EXCEPT !.metrics_agent_turns = x] \in Frontmatter
  BY DEF Frontmatter

(* The mutators of pkg/result keep a frontmatter a frontmatter. *)
LEMMA MutatorsTyped ==
    ASSUME NEW fm \in Frontmatter, NEW e \in Frontmatter
    PROVE  /\ ClearAssignee(fm) \in Frontmatter
           /\ ClearAssigneeUnlessHuman(fm) \in Frontmatter
           /\ ClearAssigneeIfHumanReview(fm) \in Frontmatter
           /\ RestoreExistingPhase(e, fm) \in Frontmatter
           /\ HealTargetVault(fm) \in Frontmatter
           /\ ClearCurrentJobIfTerminal(fm) \in Frontmatter
<1>1. ClearAssignee(fm) \in Frontmatter
  <2> DEFINE q == IF Assignee(fm) = "" THEN fm.previous_assignee ELSE Assignee(fm)
             a == [fm EXCEPT !.assignee = ""]
  <2>1. q \in Opt(Agents \cup Humans \cup {""})
    BY FieldTypes DEF Assignee
  <2>2. a \in Frontmatter
    BY SetKey, OptFacts
  <2>3. ClearAssignee(fm) = [a EXCEPT !.previous_assignee = q]
    BY DEF ClearAssignee
  <2> HIDE DEF a, q
  <2>4. QED
    BY <2>1, <2>2, <2>3, SetKey
<1>2. ClearAssigneeUnlessHuman(fm) \in Frontmatter
  BY <1>1 DEF ClearAssigneeUnlessHuman
<1>3. ClearAssigneeIfHumanReview(fm) \in Frontmatter
  BY <1>2 DEF ClearAssigneeIfHumanReview
<1>4. RestoreExistingPhase(e, fm) \in Frontmatter
  BY SetKey, FieldTypes DEF RestoreExistingPhase
<1>5. HealTargetVault(fm) \in Frontmatter
  <2>1. "here" \in Opt({"here"})
    BY DEF Opt
  <2>2. QED
    BY <2>1, SetKey DEF HealTargetVault
<1>6. ClearCurrentJobIfTerminal(fm) \in Frontmatter
  <2>1. "" \in Opt({"", "job"})
    BY DEF Opt
  <2>2. QED
    BY <2>1, SetKey DEF ClearCurrentJobIfTerminal
<1>7. QED
  BY <1>1, <1>2, <1>3, <1>4, <1>5, <1>6

-----------------------------------------------------------------------------
(* Bodies. *)

(* A set of places with a bound has a last one. *)
LEMMA LastPlace ==
    ASSUME NEW n \in Nat, NEW S \in SUBSET (1 .. n), S # {}
    PROVE  \E k \in S : \A j \in S : j <= k
<1> DEFINE T == {n - k : k \in S}
<1>1. T \subseteq Nat /\ T # {}
  <2>1. \A k \in S : k \in Int /\ k <= n
    OBVIOUS
  <2>2. \A k \in S : n - k \in Nat
    BY <2>1
  <2>3. QED
    BY <2>2
<1>2. PICK x \in T : \A y \in T : ~(<<y, x>> \in OpToRel(<, Nat))
  BY <1>1, NatLessThanWellFounded, WFMin
<1>3. \A y \in T : ~(y < x)
  BY <1>1, <1>2 DEF OpToRel
<1>4. PICK k \in S : x = n - k
  OBVIOUS
<1>5. \A j \in S : n - j \in T
  OBVIOUS
<1>6. \A j \in S : ~(n - j < n - k)
  BY <1>3, <1>4, <1>5
<1>7. \A j \in S : j <= k
  BY <1>6
<1>8. QED
  BY <1>7

LEMMA BodyParts ==
    ASSUME NEW b \in Body
    PROVE  /\ Len(b.parts) \in Nat
           /\ \A k \in 1 .. Len(b.parts) : b.parts[k] \in Part
           /\ Filled(b) \in SUBSET (1 .. Len(b.parts))
           /\ \A h : Named(b, h) \in SUBSET (1 .. Len(b.parts))
           /\ b.pre \in {"none", "blank", "text"} /\ b.tail \in {"closed", "open"}
<1>1. b.parts \in Seq(Part)
  BY DEF Body
<1>2. QED
  BY <1>1 DEF Body, Filled, Named

LEMMA LastNamedFacts ==
    ASSUME NEW b \in Body, NEW h \in Names(b)
    PROVE  /\ LastNamed(b, h) \in Filled(b)
           /\ b.parts[LastNamed(b, h)].name = h
<1>1. Named(b, h) # {}
  BY DEF Names, Named
<1>2. \E k \in Named(b, h) : \A j \in Named(b, h) : j <= k
  BY <1>1, BodyParts, LastPlace
<1>3. LastNamed(b, h) \in Named(b, h)
  BY <1>2 DEF LastNamed
<1>4. QED
  BY <1>3 DEF Named

LEMMA SizeFacts ==
    ASSUME NEW e \in Body, NEW i \in Body
    PROVE  /\ MergedSize(e, i) \in Nat
           /\ Len(e.parts) <= MergedSize(e, i)
           /\ Added(e, i) # {} => MergedSize(e, i) = Len(e.parts) + Len(i.parts)
<1> DEFINE n == Len(e.parts)
           l == Len(i.parts)
<1>1. n \in Nat /\ l \in Nat
  BY BodyParts
<1>2. MergedSize(e, i) = IF Added(e, i) = {} THEN n ELSE n + l
  BY DEF MergedSize
<1> HIDE DEF n, l
<1>3. n <= n + l /\ n + l \in Nat /\ n <= n
  BY <1>1
<1>4. /\ MergedSize(e, i) \in Nat /\ n <= MergedSize(e, i)
      /\ Added(e, i) # {} => MergedSize(e, i) = n + l
  <2>1. CASE Added(e, i) = {}
    BY <1>1, <1>2, <1>3, <2>1
  <2>2. CASE Added(e, i) # {}
    BY <1>2, <1>3, <2>2
  <2>3. QED
    BY <2>1, <2>2
<1>5. QED
  BY <1>4 DEF n, l

(* What stands at a place of the merge is a part of the name of that place. *)
LEMMA PlaceFacts ==
    ASSUME NEW e \in Body, NEW i \in Body, NEW k \in Places(e, i)
    PROVE  /\ k \in 1 .. MergedSize(e, i)
           /\ PartAt(e, i, k) \in Part
           /\ PartAt(e, i, k).name = NameAt(e, i, k)
           /\ PartAt(e, i, k).name # "gap"
           /\ \/ \E j \in Filled(i) : PartAt(e, i, k) = i.parts[j]
              \/ k \in Filled(e) /\ PartAt(e, i, k) = e.parts[k]
<1>1. /\ Len(e.parts) \in Nat /\ Len(i.parts) \in Nat
      /\ Filled(e) \in SUBSET (1 .. Len(e.parts)) /\ Filled(i) \in SUBSET (1 .. Len(i.parts))
      /\ \A j \in 1 .. Len(e.parts) : e.parts[j] \in Part
      /\ \A j \in 1 .. Len(i.parts) : i.parts[j] \in Part
  BY BodyParts
<1>2. Added(e, i) \in SUBSET Filled(i)
  BY DEF Added
<1>3. \/ k \in Filled(e) /\ k <= Len(e.parts)
      \/ \E j \in Added(e, i) : k = Len(e.parts) + j /\ ~(k <= Len(e.parts))
  <2>1. CASE k \in Filled(e)
    BY <1>1, <2>1
  <2>2. ASSUME NEW j \in Added(e, i), k = Len(e.parts) + j
        PROVE  ~(k <= Len(e.parts))
    BY <1>1, <1>2, <2>2
  <2>3. QED
    BY <2>1, <2>2 DEF Places
<1>4. k \in 1 .. MergedSize(e, i) /\ k # 0
  <2> DEFINE n == Len(e.parts)
             l == Len(i.parts)
  <2>1. /\ n \in Nat /\ l \in Nat /\ MergedSize(e, i) \in Nat /\ n <= MergedSize(e, i)
        /\ Added(e, i) # {} => MergedSize(e, i) = n + l
    BY <1>1, SizeFacts
  <2>2. CASE k \in Filled(e)
    BY <1>1, <2>1, <2>2
  <2>3. CASE \E j \in Added(e, i) : k = n + j
    <3>1. PICK j \in 1 .. l : k = n + j
      BY <1>1, <1>2, <2>3
    <3>2. MergedSize(e, i) = n + l
      BY <2>1, <2>3
    <3> HIDE DEF n, l
    <3>3. QED
      BY <2>1, <3>1, <3>2
  <2>4. QED
    BY <1>3, <2>2, <2>3
<1>5. \/ k \in Filled(e) /\ NameAt(e, i, k) = e.parts[k].name
      \/ \E j \in Added(e, i) : NameAt(e, i, k) = i.parts[j].name
  BY <1>1, <1>2, <1>3 DEF NameAt
<1>6. CASE NameAt(e, i, k) \in Names(i)
  <2> DEFINE l == LastNamed(i, NameAt(e, i, k))
  <2>1. PartAt(e, i, k) = i.parts[l]
    BY <1>4, <1>6 DEF PartAt, FromIncoming
  <2>2. l \in Filled(i) /\ i.parts[l].name = NameAt(e, i, k)
    BY <1>6, LastNamedFacts
  <2> HIDE DEF l
  <2>3. i.parts[l].name # "gap"
    BY <2>2 DEF Filled
  <2>4. QED
    BY <1>1, <1>4, <2>1, <2>2, <2>3
<1>7. CASE NameAt(e, i, k) \notin Names(i)
  <2>1. \A j \in Added(e, i) : i.parts[j].name \in Names(i)
    BY <1>2 DEF Names
  <2>2. k \in Filled(e) /\ NameAt(e, i, k) = e.parts[k].name
    BY <1>5, <1>7, <2>1
  <2>3. PartAt(e, i, k) = e.parts[k]
    BY <1>4, <1>7 DEF PartAt, FromIncoming
  <2>4. QED
    BY <1>1, <1>4, <2>2, <2>3 DEF Filled
<1>8. QED
  BY <1>6, <1>7

LEMMA MergeBodyTyped ==
    ASSUME NEW e \in Body, NEW i \in Body
    PROVE  MergeBody(e, i) \in Body
<1> DEFINE n == MergedSize(e, i)
           p == [k \in 1 .. n |->
                   IF k \in Places(e, i) /\ ~Glued(e, i, k) THEN PartAt(e, i, k) ELSE Gap]
<1>1. n \in Nat
  BY SizeFacts
<1>2. Gap \in Part
  BY DEF Gap, Part
<1>3. \A k \in 1 .. n : p[k] \in Part
  <2>1. \A k \in Places(e, i) : PartAt(e, i, k) \in Part
    BY PlaceFacts
  <2> HIDE DEF n
  <2>2. QED
    BY <1>2, <2>1
<1>4. p \in Seq(Part)
  <2> HIDE DEF n
  <2>1. p \in [1 .. n -> Part]
    BY <1>3
  <2> HIDE DEF p
  <2>2. QED
    BY <1>1, <2>1
<1>5. MergeBody(e, i).parts = p
  BY DEF MergeBody
<1> HIDE DEF p, n
<1>6. /\ MergeBody(e, i).pre \in {"none", "blank", "text"}
      /\ MergeBody(e, i).tail \in {"closed", "open"}
  BY BodyParts DEF MergeBody
<1>7. MergeBody(e, i) = [pre |-> MergeBody(e, i).pre, parts |-> MergeBody(e, i).parts,
                         tail |-> MergeBody(e, i).tail]
  BY DEF MergeBody
<1>8. QED
  BY <1>4, <1>5, <1>6, <1>7 DEF Body

LEMMA CRLFTyped ==
    ASSUME NEW b \in Body
    PROVE  WithCRLF(b) \in Body
<1> DEFINE n == Len(b.parts)
           p == [k \in 1 .. n |-> IF b.parts[k].name \in Section
                                  THEN [name |-> b.parts[k].name, eol |-> "crlf"] ELSE b.parts[k]]
<1>1. n \in Nat /\ \A k \in 1 .. n : b.parts[k] \in Part
  BY BodyParts
<1> HIDE DEF n
<1>2. \A k \in 1 .. n : p[k] \in Part
  BY <1>1 DEF Part, Heading
<1>3. p \in [1 .. n -> Part]
  BY <1>2
<1>4. WithCRLF(b) = [b EXCEPT !.parts = p]
  BY DEF WithCRLF, n
<1> HIDE DEF p
<1>5. p \in Seq(Part)
  BY <1>1, <1>3
<1>6. QED
  BY <1>4, <1>5 DEF Body

(* A body in which every escalation heading is found, and stands once. *)
TidyBody(b) == LineEnded(b) /\ b.pre # "none" /\ Once(b)

(* In a tidy body a heading is found where it stands. *)
LEMMA TidyFinds ==
    ASSUME NEW b \in Body, NEW h \in Section, LineEnded(b), b.pre # "none"
    PROVE  Contains(b, h) <=> Named(b, h) # {}
  BY DEF Contains, LineEnded, Named, Section

(* Merging a terminated body with LF headings into a tidy one glues nothing:
   no section is lost, none is doubled. *)
LEMMA MergeTidy ==
    ASSUME NEW e \in Body, NEW i \in Body, TidyBody(e), LineEnded(i)
    PROVE  /\ TidyBody(MergeBody(e, i))
           /\ \A h \in Section : Contains(e, h) => Contains(MergeBody(e, i), h)
<1> DEFINE m == MergeBody(e, i)
           P == Places(e, i)
<1>1. e.tail = "closed" /\ i.tail = "closed" /\ e.pre # "none"
  BY DEF TidyBody, LineEnded
<1>2. \A k : ~LeftOpen(e, i, k)
  BY <1>1 DEF LeftOpen, OpenAt
<1>3. \A k : ~Glued(e, i, k)
  BY <1>2 DEF Glued
<1>4. m.tail = "closed" /\ m.pre # "none"
  BY <1>1, <1>2 DEF MergeBody, FromIncoming
<1>5. /\ Len(m.parts) = MergedSize(e, i)
      /\ \A k \in 1 .. MergedSize(e, i) : m.parts[k] = IF k \in P THEN PartAt(e, i, k) ELSE Gap
  <2>1. m.parts = [k \in 1 .. MergedSize(e, i) |-> IF k \in P THEN PartAt(e, i, k) ELSE Gap]
    BY <1>3 DEF MergeBody
  <2>2. MergedSize(e, i) \in Nat
    BY SizeFacts
  <2> HIDE DEF m, P
  <2>3. QED
    BY <2>1, <2>2
<1>6. /\ Filled(m) = P
      /\ \A k \in P : m.parts[k] = PartAt(e, i, k) /\ m.parts[k].name = NameAt(e, i, k)
  <2>1. \A k \in P : k \in 1 .. MergedSize(e, i) /\ PartAt(e, i, k).name = NameAt(e, i, k)
                     /\ PartAt(e, i, k).name # "gap"
    BY PlaceFacts
  <2>2. Gap.name = "gap"
    BY DEF Gap
  <2> HIDE DEF m, P
  <2>3. QED
    BY <1>5, <2>1, <2>2 DEF Filled
<1> HIDE DEF m
<1>7. LineEnded(m)
  <2>1. \A k \in P : \/ \E j \in Filled(i) : PartAt(e, i, k) = i.parts[j]
                     \/ k \in Filled(e) /\ PartAt(e, i, k) = e.parts[k]
    BY PlaceFacts
  <2> HIDE DEF P
  <2>2. QED
    BY <1>4, <1>6, <2>1 DEF LineEnded, TidyBody
<1>8. /\ Len(e.parts) \in Nat /\ Len(i.parts) \in Nat
      /\ Filled(e) \in SUBSET (1 .. Len(e.parts)) /\ Filled(i) \in SUBSET (1 .. Len(i.parts))
  BY BodyParts
<1>9. Once(m)
  <2>1. SUFFICES ASSUME NEW h \in Section, NEW j \in P, NEW k \in P,
                        NameAt(e, i, j) = h, NameAt(e, i, k) = h
                 PROVE  j = k
    BY <1>6 DEF Once, Named
  <2>2. \A l \in P : \/ l \in Filled(e) /\ NameAt(e, i, l) = e.parts[l].name
                     \/ \E x \in Added(e, i) : l = Len(e.parts) + x /\ NameAt(e, i, l) = i.parts[x].name
    BY <1>8 DEF Places, NameAt, Added
  <2>3. \A x \in Added(e, i) : /\ x \in Filled(i) /\ i.parts[x].name \notin Names(e)
                               /\ \A y \in Named(i, i.parts[x].name) : x <= y
    BY DEF Added
  <2>4. \A x \in Filled(e) : e.parts[x].name \in Names(e)
    BY DEF Names
  <2> HIDE DEF P
  <2>5. CASE j \in Filled(e) /\ k \in Filled(e) /\ e.parts[j].name = h /\ e.parts[k].name = h
    BY <2>5 DEF TidyBody, Once, Named
  <2>6. ASSUME NEW x \in Added(e, i), NEW y \in Added(e, i), i.parts[x].name = h, i.parts[y].name = h
        PROVE  x = y
    <3>1. x \in Named(i, h) /\ y \in Named(i, h)
      BY <2>3, <2>6 DEF Named
    <3>2. x <= y /\ y <= x /\ x \in Nat /\ y \in Nat
      BY <2>3, <2>6, <3>1, <1>8
    <3>3. QED
      BY <3>2
  <2>7. QED
    BY <2>1, <2>2, <2>3, <2>4, <2>5, <2>6
<1>10. TidyBody(m)
  BY <1>4, <1>7, <1>9 DEF TidyBody
<1>11. ASSUME NEW h \in Section, Contains(e, h) PROVE Contains(m, h)
  <2>1. PICK k \in Filled(e) : e.parts[k].name = h
    BY <1>11 DEF Contains, Named
  <2>2. k \in P /\ NameAt(e, i, k) = h
    BY <2>1, <1>8 DEF Places, NameAt
  <2>3. k \in Named(m, h)
    BY <2>2, <1>6 DEF Named
  <2>4. m \in Body
    BY MergeBodyTyped DEF m
  <2>5. QED
    BY <2>3, <2>4, <1>4, <1>7, TidyFinds
<1>12. QED
  BY <1>10, <1>11 DEF m

(* Appending a section: it is found afterwards, what was found still is, and
   a tidy body that does not have it stays tidy. *)
LEMMA AppendFacts ==
    ASSUME NEW b \in Body, NEW s \in Section
    PROVE  LET x == AppendSection(b, s) IN
           /\ x \in Body
           /\ Contains(x, s)
           /\ \A h \in Section : Contains(b, h) => Contains(x, h)
           /\ TidyBody(b) /\ ~Contains(b, s) => TidyBody(x)
<1> DEFINE x == AppendSection(b, s)
           n == Len(b.parts)
           c == [name |-> s, eol |-> "lf"]
<1>1. b.parts \in Seq(Part) /\ n \in Nat /\ c \in Part /\ c.name # "gap" /\ c.name = s
  BY DEF Body, Part, Heading, Section
<1>2. x.parts = Append(b.parts, c) /\ x.tail = "closed"
  BY DEF AppendSection
<1>3. /\ x.parts \in Seq(Part) /\ Len(x.parts) = n + 1 /\ x.parts[n + 1] = c
      /\ \A k \in 1 .. n : x.parts[k] = b.parts[k]
  BY <1>1, <1>2
<1>4. /\ x.pre \in {"none", "blank", "text"}
      /\ x.pre = "none" => b.pre = "none" /\ Filled(b) # {}
      /\ b.pre # "none" => x.pre = b.pre
  BY DEF AppendSection, Body
<1>5. x \in Body
  <2>1. x = [pre |-> x.pre, parts |-> x.parts, tail |-> x.tail]
    BY DEF AppendSection
  <2> HIDE DEF x
  <2>2. QED
    BY <1>2, <1>3, <1>4, <2>1 DEF Body
<1> HIDE DEF x, c
<1>6. Filled(x) = Filled(b) \cup {n + 1}
  BY <1>1, <1>3 DEF Filled
<1>7. Filled(b) \subseteq 1 .. n
  BY DEF Filled
<1> HIDE DEF n
<1>8. Contains(x, s)
  <2>1. n + 1 \in Named(x, s) /\ x.parts[n + 1].eol = "lf"
    BY <1>1, <1>3, <1>6 DEF Named, c
  <2>2. x.pre # "none" \/ \E j \in Filled(x) : j < n + 1
    BY <1>1, <1>4, <1>6, <1>7
  <2>3. QED
    BY <2>1, <2>2 DEF Contains
<1>9. \A h : Named(b, h) \subseteq Named(x, h)
  BY <1>3, <1>6, <1>7 DEF Named
<1>10. ASSUME NEW h \in Section, Contains(b, h) PROVE Contains(x, h)
  <2>1. PICK k \in Named(b, h) : b.parts[k].eol = "lf" /\ (b.pre # "none" \/ \E j \in Filled(b) : j < k)
    BY <1>10 DEF Contains
  <2>2. k \in Named(x, h) /\ x.parts[k].eol = "lf"
    BY <1>3, <1>7, <1>9, <2>1 DEF Named
  <2>3. x.pre # "none" \/ \E j \in Filled(x) : j < k
    BY <1>4, <1>6, <2>1
  <2>4. QED
    BY <2>2, <2>3 DEF Contains
<1>11. ASSUME TidyBody(b), ~Contains(b, s) PROVE TidyBody(x)
  <2>1. Named(b, s) = {}
    BY <1>11, TidyFinds DEF TidyBody
  <2>2. LineEnded(x)
    BY <1>1, <1>2, <1>3, <1>6, <1>7, <1>11 DEF TidyBody, LineEnded, c
  <2>3. x.pre # "none"
    BY <1>4, <1>11 DEF TidyBody
  <2>4. Once(x)
    <3>1. \A h \in Section : h # s => Named(x, h) \subseteq Named(b, h)
      BY <1>1, <1>3, <1>6, <1>7 DEF Named
    <3>2. Named(x, s) \subseteq {n + 1}
      BY <2>1, <1>3, <1>6, <1>7 DEF Named
    <3>3. QED
      BY <3>1, <3>2, <1>11 DEF TidyBody, Once
  <2>5. QED
    BY <2>2, <2>3, <2>4 DEF TidyBody
<1>12. QED
  BY <1>5, <1>8, <1>10, <1>11 DEF x

-----------------------------------------------------------------------------
(* What a write makes of a file. *)

LEMMA EscalateTyped ==
    ASSUME NEW e \in Frontmatter, NEW f \in File, NEW s \in Section
    PROVE  /\ Escalate(e, f, s) \in File
           /\ TidyBody(f.body) => TidyBody(Escalate(e, f, s).body)
<1>1. f.fm \in Frontmatter /\ f.body \in Body
  BY DEF File
<1>2. ClearAssigneeUnlessHuman(f.fm) \in Frontmatter
  BY <1>1, MutatorsTyped
<1>3. RestoreExistingPhase(e, ClearAssigneeUnlessHuman(f.fm)) \in Frontmatter
  BY <1>2, MutatorsTyped
<1>4. CASE Contains(f.body, s)
  <2>1. Escalate(e, f, s) =
           [fm |-> RestoreExistingPhase(e, ClearAssigneeUnlessHuman(f.fm)), body |-> f.body]
    BY <1>4, <1>1 DEF Escalate, File
  <2>2. QED
    BY <2>1, <1>1, <1>3 DEF File
<1>5. CASE ~Contains(f.body, s)
  <2>1. Escalate(e, f, s) =
           [fm |-> ClearAssigneeUnlessHuman(f.fm), body |-> AppendSection(f.body, s)]
    BY <1>5 DEF Escalate
  <2>2. /\ AppendSection(f.body, s) \in Body
        /\ TidyBody(f.body) => TidyBody(AppendSection(f.body, s))
    BY <1>1, <1>5, AppendFacts
  <2>3. QED
    BY <2>1, <2>2, <1>2 DEF File
<1>6. QED
  BY <1>4, <1>5

(* What a result write produces is a file again; a terminated body with LF
   headings, merged into a tidy one, leaves it tidy: containsEscalationSection
   guards both appends. *)
LEMMA ModifyTyped ==
    ASSUME NEW f \in File, NEW r \in Result
    PROVE  /\ ModifyFile(f, r) \in File
           /\ TidyBody(f.body) /\ LineEnded(r.body) => TidyBody(ModifyFile(f, r).body)
<1> DEFINE g  == ClearCurrentJobIfTerminal(HealTargetVault(MergeFrontmatter(f.fm, r.fm)))
           b  == MergeBody(f.body, r.body)
           m  == [fm |-> g, body |-> b]
           c  == ApplyTriggerCap(f.fm, m)
           p  == ApplyHumanReview(c)
<1>1. f.fm \in Frontmatter /\ r.fm \in Frontmatter /\ f.body \in Body /\ r.body \in Body
  BY DEF File, Result
<1>2. g \in Frontmatter
  BY <1>1, MergeTyped, MutatorsTyped
<1>3. b \in Body /\ (TidyBody(f.body) /\ LineEnded(r.body) => TidyBody(b))
  BY <1>1, MergeBodyTyped, MergeTidy
<1> HIDE DEF b
<1>4. m \in File
  BY <1>2, <1>3 DEF File
<1>5. c \in File /\ (TidyBody(f.body) /\ LineEnded(r.body) => TidyBody(c.body))
  BY <1>1, <1>3, <1>4, EscalateTyped DEF ApplyTriggerCap, Section
<1> HIDE DEF c
<1>6. p \in File /\ p.body = c.body
  BY <1>1, <1>5, MutatorsTyped DEF ApplyHumanReview, File
<1> HIDE DEF p
<1>7. /\ [p EXCEPT !.fm.spawn_notification = Absent] \in File
      /\ [p EXCEPT !.fm.spawn_notification = Absent].body = p.body
  <2>1. [p.fm EXCEPT !.spawn_notification = Absent] \in Frontmatter
    BY <1>6, SetKey, OptFacts DEF File
  <2>2. QED
    BY <1>6, <2>1 DEF File
<1>8. /\ ApplyRetryCap(f.fm, p) \in File
      /\ TidyBody(p.body) => TidyBody(ApplyRetryCap(f.fm, p).body)
  BY <1>1, <1>6, EscalateTyped DEF ApplyRetryCap, Section
<1>9. ModifyFile(f, r) = ApplyRetryCounter(f.fm, m)
  BY DEF ModifyFile, b
<1>10. ApplyRetryCounter(f.fm, m) \in
          {m, [p EXCEPT !.fm.spawn_notification = Absent], ApplyRetryCap(f.fm, p)}
  BY DEF ApplyRetryCounter, p, c
<1> HIDE DEF m
<1>11. m.body = b
  BY DEF m
<1>12. QED
  BY <1>3, <1>4, <1>5, <1>6, <1>7, <1>8, <1>9, <1>10, <1>11

-----------------------------------------------------------------------------
(* Type correctness. *)

(* The fields of a call under way, and when there is one. *)
LEMMA CallShape ==
    ASSUME TypeOK
    PROVE  /\ call # Idle => call \in Call
           /\ call \in Call =>
                /\ call # Idle /\ call.req \in Result
                /\ call.base \in File /\ call.out \in File /\ call.posts \in Nat
           /\ call.pc \in {"posting", "committed", "published"} => call \in Call
  BY DEF TypeOK, Call, Idle

(* The executor's charge leaves a file, and no section is doubled. *)
LEMMA SpawnTyped ==
    ASSUME NEW f \in File
    PROVE  /\ [fm |-> [IncrementTrigger(f.fm) EXCEPT
                            !.current_job = "job", !.spawn_notification = "set"],
               body |-> IncrementBody(f)] \in File
           /\ TidyBody(f.body) => TidyBody(IncrementBody(f))
<1> DEFINE n == Count(f.fm.trigger_count) + 1
           c == [HealTargetVault(f.fm) EXCEPT !.trigger_count = n]
           t == IncrementTrigger(f.fm)
           j == [t EXCEPT !.current_job = "job"]
<1>1. f.fm \in Frontmatter /\ f.body \in Body
  BY DEF File
<1>2. n \in Nat
  <2>1. f.fm.trigger_count # Absent => f.fm.trigger_count \in Nat
    BY <1>1, FieldTypes, OptFacts
  <2>2. QED
    BY <2>1 DEF Count
<1>3. HealTargetVault(f.fm) \in Frontmatter /\ n \in Opt(Nat)
  BY <1>1, <1>2, MutatorsTyped, OptFacts
<1> HIDE DEF n
<1>4. c \in Frontmatter
  BY <1>3, SetKey
<1>5. t \in {c, ClearAssignee(c)}
  BY DEF IncrementTrigger, n
<1> HIDE DEF c
<1>6. t \in Frontmatter
  BY <1>4, <1>5, MutatorsTyped
<1> HIDE DEF t
<1>7. "job" \in Opt({"", "job"}) /\ "set" \in Opt({"set"})
  BY DEF Opt
<1>8. j \in Frontmatter
  BY <1>6, <1>7, SetKey
<1>9. [t EXCEPT !.current_job = "job", !.spawn_notification = "set"]
         = [j EXCEPT !.spawn_notification = "set"]
  OBVIOUS
<1> HIDE DEF j
<1>10. [j EXCEPT !.spawn_notification = "set"] \in Frontmatter
  BY <1>7, <1>8, SetKey
<1>11. IncrementBody(f) \in Body /\ (TidyBody(f.body) => TidyBody(IncrementBody(f)))
  <2>1. "trigger_cap" \in Section
    BY DEF Section
  <2>2. QED
    BY <1>1, <2>1, AppendFacts DEF IncrementBody
<1>12. QED
  BY <1>9, <1>10, <1>11 DEF File, t

(* An operator edit leaves a file with the body it had. *)
LEMMA EditTyped ==
    ASSUME TypeOK, OperatorEdit
    PROVE  disk' \in File /\ disk'.body = disk.body
<1>1. disk \in File /\ disk.fm \in Frontmatter /\ disk.body \in Body
  BY DEF TypeOK, File
<1>2. \A g \in Frontmatter : [disk EXCEPT !.fm = g] \in File
                              /\ [disk EXCEPT !.fm = g].body = disk.body
  BY <1>1 DEF File
<1>3. CASE \E a \in Opt(Agents \cup Humans \cup {""}) : disk' = [disk EXCEPT !.fm.assignee = a]
  <2>1. PICK a \in Opt(Agents \cup Humans \cup {""}) : disk' = [disk EXCEPT !.fm = [disk.fm EXCEPT !.assignee = a]]
    BY <1>3
  <2>2. [disk.fm EXCEPT !.assignee = a] \in Frontmatter
    BY <1>1, SetKey
  <2>3. QED
    BY <1>2, <2>1, <2>2
<1>4. CASE \E c \in Opt(Clusters) : disk' = [disk EXCEPT !.fm.cluster = c]
  <2>1. PICK c \in Opt(Clusters) : disk' = [disk EXCEPT !.fm = [disk.fm EXCEPT !.cluster = c]]
    BY <1>4
  <2>2. [disk.fm EXCEPT !.cluster = c] \in Frontmatter
    BY <1>1, SetKey
  <2>3. QED
    BY <1>2, <2>1, <2>2
<1>5. CASE \E s \in Statuses : disk' = [disk EXCEPT !.fm.status = s]
  <2>1. PICK s \in Statuses : disk' = [disk EXCEPT !.fm = [disk.fm EXCEPT !.status = s]]
    BY <1>5
  <2>2. [disk.fm EXCEPT !.status = s] \in Frontmatter
    BY <1>1, SetKey, OptFacts
  <2>3. QED
    BY <1>2, <2>1, <2>2
<1>6. CASE disk' = [disk EXCEPT !.fm.trigger_count = Absent]
  BY <1>1, <1>2, <1>6, SetKey, OptFacts
<1>7. QED
  BY <1>3, <1>4, <1>5, <1>6 DEF OperatorEdit

(* What an agent reports on top of its snapshot is a frontmatter. *)
LEMMA OutcomesTyped ==
    ASSUME NEW g \in Frontmatter, NEW o \in Outcomes(g), NEW n \in Turns
    PROVE  [o EXCEPT !.metrics_agent_turns = n] \in Frontmatter
<1>1. n \in Opt(Nat)
  BY ResultWriterAssumption
<1>2. Count(n) \in Nat
  BY <1>1 DEF Count, Opt
<1>3. /\ "human_review" \in Opt(Phases \cup {"human_review"})
      /\ "" \in Opt(Agents \cup Humans \cup {""})
      /\ "completed" \in Opt(Statuses)
      /\ "set" \in Opt({"set"})
      /\ \A p \in Phases : p \in Opt(Phases \cup {"human_review"})
      /\ \A a \in Agents : a \in Opt(Agents \cup Humans \cup {""})
      /\ \A t \in TaskTypes : t \in Opt(TaskTypes)
  BY DEF Opt, Statuses, Terminal
<1>4. [g EXCEPT !.phase = "human_review", !.assignee = ""] \in Frontmatter
  <2> DEFINE h == [g EXCEPT !.phase = "human_review"]
  <2>1. h \in Frontmatter
    BY <1>3, SetKey
  <2>2. [g EXCEPT !.phase = "human_review", !.assignee = ""] = [h EXCEPT !.assignee = ""]
    OBVIOUS
  <2> HIDE DEF h
  <2>3. QED
    BY <1>3, <2>1, <2>2, SetKey
<1>5. ASSUME NEW a \in Agents, NEW t \in TaskTypes
      PROVE  [g EXCEPT !.assignee = a, !.task_type = t, !.assignee_reassigned_by = "set"]
                \in Frontmatter
  <2> DEFINE h == [g EXCEPT !.assignee = a]
             k == [h EXCEPT !.task_type = t]
  <2>1. h \in Frontmatter
    BY <1>3, SetKey
  <2>2. [g EXCEPT !.assignee = a, !.task_type = t, !.assignee_reassigned_by = "set"]
           = [k EXCEPT !.assignee_reassigned_by = "set"]
    OBVIOUS
  <2> HIDE DEF h
  <2>3. k \in Frontmatter
    BY <1>3, <2>1, SetKey
  <2> HIDE DEF k
  <2>4. QED
    BY <1>3, <2>2, <2>3, SetKey
<1>6. o \in Frontmatter
  <2>1. CASE o \in GoesOn(g)
    <3>1. PICK p \in Phases \cup {"human_review"} : o = [g EXCEPT !.phase = p]
      BY <2>1 DEF GoesOn
    <3>2. p \in Opt(Phases \cup {"human_review"})
      BY <1>3
    <3>3. QED
      BY <3>1, <3>2, SetKey
  <2>2. CASE o \in GivesUp(g)
    BY <2>2, <1>4 DEF GivesUp
  <2>3. CASE o \in Completes(g)
    <3>1. o = [g EXCEPT !.status = "completed"]
      BY <2>3 DEF Completes
    <3>2. QED
      BY <3>1, <1>3, SetKey
  <2>4. CASE o \in Retypes(g)
    <3>1. PICK t \in TaskTypes : o = [g EXCEPT !.task_type = t]
      BY <2>4 DEF Retypes
    <3>2. t \in Opt(TaskTypes)
      BY <1>3
    <3>3. QED
      BY <3>1, <3>2, SetKey
  <2>5. CASE o \in Reassigns(g)
    <3>1. PICK a \in Agents, t \in TaskTypes :
             o = [g EXCEPT !.assignee = a, !.task_type = t, !.assignee_reassigned_by = "set"]
      BY <2>5 DEF Reassigns
    <3>2. QED
      BY <3>1, <1>5
  <2>6. QED
    BY <2>1, <2>2, <2>3, <2>4, <2>5 DEF Outcomes
<1>7. QED
  BY <1>1, <1>2, <1>6, SetKey

(* The history grows by one or not at all. *)
LEMMA ParkCounted ==
    ASSUME TypeOK, CountPark
    PROVE  /\ parks' \in Nat /\ parks' >= parks
           /\ Assignee(disk.fm) # "" /\ Assignee(disk'.fm) = "" => parks' = parks + 1
<1> DEFINE Lost == Assignee(disk.fm) # "" /\ Assignee(disk'.fm) = ""
<1>1. parks \in Nat
  BY DEF TypeOK
<1>2. (Lost => parks' = parks + 1) /\ (~Lost => parks' = parks)
  BY Zenon DEF CountPark
<1> HIDE DEF Lost
<1>3. CASE Lost
  <2>1. parks' = parks + 1
    BY <1>2, <1>3
  <2>2. parks' \in Nat /\ parks' >= parks
    BY <1>1, <2>1
  <2>3. QED
    BY <2>1, <2>2 DEF Lost
<1>4. CASE ~Lost
  <2>1. parks' = parks
    BY <1>2, <1>4
  <2>2. parks' \in Nat /\ parks' >= parks
    BY <1>1, <2>1
  <2>3. QED
    BY <1>4, <2>2 DEF Lost
<1>5. QED
  BY <1>3, <1>4

(* The store of a result write puts the computed file on disk. *)
LEMMA StoreTyped ==
    ASSUME TypeOK, call \in Call, StoreFile
    PROVE  disk' \in File /\ parks' \in Nat
  BY CallShape, ParkCounted DEF StoreFile

LEMMA TypeStep ==
    ASSUME TypeOK, [Next]_vars
    PROVE  TypeOK'
<1>1. CASE ExecutorSpawn
  <2>1. disk \in File /\ spawns \in Nat
    BY DEF TypeOK
  <2>2. disk' \in File
    BY <1>1, <2>1, SpawnTyped DEF ExecutorSpawn
  <2>3. [id |-> spawns, file |-> disk] \in [id : Nat, file : File]
    BY <2>1
  <2>4. jobs' \in SUBSET [id : Nat, file : File] /\ spawns' \in Nat
    BY <1>1, <2>1, <2>3 DEF ExecutorSpawn, TypeOK
  <2>5. UNCHANGED <<topic, call, pings, layout, edits, faults>> /\ parks' \in Nat
    BY <1>1, ParkCounted DEF ExecutorSpawn
  <2>6. QED
    BY <2>2, <2>4, <2>5 DEF TypeOK
<1>2. CASE OperatorEdit
  <2>1. disk' \in File
    BY <1>2, EditTyped
  <2>2. /\ UNCHANGED <<jobs, topic, call, pings, layout, spawns, faults>>
        /\ edits' = edits + 1 /\ parks' \in Nat
    BY <1>2, ParkCounted DEF OperatorEdit
  <2>3. QED
    BY <2>1, <2>2 DEF TypeOK
<1>3. ASSUME NEW job \in jobs, AgentDeliver(job) PROVE TypeOK'
  <2>1. job.id \in Nat /\ job.file \in File
    BY DEF TypeOK
  <2>2. job.file.fm \in Frontmatter /\ job.file.body \in Body /\ WithCRLF(job.file.body) \in Body
    BY <2>1, CRLFTyped DEF File
  <2>3. topic' \in SUBSET Result
    <3>1. PICK o \in Outcomes(job.file.fm), n \in Turns,
               b \in Replies \cup {job.file.body, WithCRLF(job.file.body)} :
              /\ topic' = topic \cup {[id |-> job.id, body |-> b,
                                       fm |-> [o EXCEPT !.metrics_agent_turns = n]]}
      BY <1>3 DEF AgentDeliver
    <3>2. [o EXCEPT !.metrics_agent_turns = n] \in Frontmatter
      BY <2>2, OutcomesTyped
    <3>3. [id |-> job.id, body |-> b, fm |-> [o EXCEPT !.metrics_agent_turns = n]] \in Result
      BY <2>1, <2>2, <3>2, ResultWriterAssumption DEF Result
    <3>4. QED
      BY <3>1, <3>2, <3>3 DEF TypeOK
  <2>4. QED
    BY <1>3, <2>3 DEF AgentDeliver, TypeOK
<1>4. ASSUME NEW r \in topic, ReadAndModify(r) PROVE TypeOK'
  <2>1. r \in Result /\ disk \in File
    BY DEF TypeOK
  <2>2. ModifyFile(disk, r) \in File
    BY <2>1, ModifyTyped
  <2>3. call' \in Call
    BY <1>4, <2>1, <2>2 DEF ReadAndModify, Call
  <2>4. QED
    BY <1>4, <2>3 DEF ReadAndModify, TypeOK
<1>5. CASE PostAnswered
  <2>1. call \in Call
    BY <1>5, CallShape DEF PostAnswered
  <2>2. call' \in Call
    BY <1>5, <2>1 DEF PostAnswered, Call
  <2>3. QED
    BY <1>5, <2>1, <2>2, StoreTyped DEF PostAnswered, TypeOK
<1>6. CASE Publish
  <2>1. call \in Call
    BY <1>6, CallShape DEF Publish
  <2>2. call' \in Call
    BY <1>6, <2>1 DEF Publish, Call
  <2>3. pings' \in Nat /\ faults' \in Nat
    BY <1>6 DEF Publish, TypeOK
  <2>4. QED
    BY <1>6, <2>2, <2>3 DEF Publish, TypeOK
<1>7. CASE CommitOffset
  BY <1>7 DEF CommitOffset, TypeOK
<1>8. CASE PostFailed
  <2>1. call \in Call
    BY <1>8, CallShape DEF PostFailed
  <2>2. call' \in Call \cup {Idle}
    BY <1>8, <2>1 DEF PostFailed, Call
  <2>3. disk' \in File /\ parks' \in Nat
    BY <1>8, <2>1, StoreTyped DEF PostFailed, TypeOK
  <2>4. QED
    BY <1>8, <2>2, <2>3 DEF PostFailed, TypeOK
<1>9. CASE Crash
  BY <1>9 DEF Crash, TypeOK
<1>10. CASE UNCHANGED vars
  BY <1>10 DEF vars, TypeOK
<1>11. QED
  BY <1>1, <1>2, <1>3, <1>4, <1>5, <1>6, <1>7, <1>8, <1>9, <1>10 DEF Next, Consumer

(* Every reachable state of the write path has its type: no merge, cap or
   charge leaves a value of another kind under a key. *)
THEOREM TypeCorrect == Spec => []TypeOK
<1>1. Init => TypeOK
  BY ResultWriterAssumption DEF Init, TypeOK
<1>2. TypeOK /\ [Next]_vars => TypeOK'
  BY TypeStep
<1>3. QED
  BY <1>1, <1>2, PTL DEF Spec

-----------------------------------------------------------------------------
(* What one result write may change. *)

\* The mutators that follow the merge keep the budget, the lifecycle and the
\* type; they only ever empty the assignee, never a human's; and they move the
\* phase only to the one on disk.
Frame(e, a, b) ==
    /\ b.trigger_count = a.trigger_count /\ b.max_triggers = a.max_triggers
    /\ b.ref = a.ref /\ b.cluster = a.cluster
    /\ b.status = a.status /\ b.task_type = a.task_type
    /\ b.assignee \in {a.assignee, ""}
    /\ Assignee(a) \in Humans => b.assignee = a.assignee
    /\ a.phase = e.phase => b.phase = e.phase

\* No agent holds the task.
Parked(fm) == Assignee(fm) \in Humans \cup {""}

LEMMA FrameTransitive ==
    ASSUME NEW e, NEW a, NEW b, NEW c, Frame(e, a, b), Frame(e, b, c)
    PROVE  Frame(e, a, c)
  BY DEF Frame, Assignee

LEMMA FrameParked ==
    ASSUME NEW e, NEW a, NEW b, Frame(e, a, b), Parked(a)
    PROVE  Parked(b)
  BY DEF Frame, Parked, Assignee

LEMMA MutatorsFrame ==
    ASSUME NEW fm \in Frontmatter, NEW e \in Frontmatter
    PROVE  /\ Frame(e, fm, fm)
           /\ Frame(e, fm, ClearAssigneeUnlessHuman(fm))
           /\ Parked(ClearAssigneeUnlessHuman(fm))
           /\ Frame(e, fm, ClearAssigneeIfHumanReview(fm))
           /\ Frame(e, fm, RestoreExistingPhase(e, fm))
           /\ e.phase # Absent => RestoreExistingPhase(e, fm).phase = e.phase
           /\ Frame(e, fm, HealTargetVault(fm))
           /\ Frame(e, fm, ClearCurrentJobIfTerminal(fm))
           /\ Frame(e, fm, [fm EXCEPT !.spawn_notification = Absent])
<1>1. Frame(e, fm, fm)
  BY DEF Frame
<1>2. /\ Frame(e, fm, ClearAssigneeUnlessHuman(fm))
      /\ Parked(ClearAssigneeUnlessHuman(fm))
  <2>1. CASE Assignee(fm) \in Humans
    BY <1>1, <2>1 DEF ClearAssigneeUnlessHuman, Parked
  <2>2. CASE Assignee(fm) \notin Humans
    <3>1. ClearAssigneeUnlessHuman(fm) = ClearAssignee(fm)
      BY <2>2 DEF ClearAssigneeUnlessHuman
    <3>2. /\ ClearAssignee(fm).trigger_count = fm.trigger_count
          /\ ClearAssignee(fm).max_triggers = fm.max_triggers
          /\ ClearAssignee(fm).ref = fm.ref
          /\ ClearAssignee(fm).cluster = fm.cluster
          /\ ClearAssignee(fm).status = fm.status
          /\ ClearAssignee(fm).task_type = fm.task_type
          /\ ClearAssignee(fm).assignee = ""
          /\ ClearAssignee(fm).phase = fm.phase
      BY DEF ClearAssignee, Frontmatter
    <3>3. QED
      BY <3>1, <3>2, <2>2, ValuesAssumption DEF Frame, Parked, Assignee
  <2>3. QED
    BY <2>1, <2>2
<1>3. Frame(e, fm, ClearAssigneeIfHumanReview(fm))
  BY <1>1, <1>2 DEF ClearAssigneeIfHumanReview
<1>4. /\ Frame(e, fm, RestoreExistingPhase(e, fm))
      /\ e.phase # Absent => RestoreExistingPhase(e, fm).phase = e.phase
  BY <1>1 DEF RestoreExistingPhase, Frame, Frontmatter
<1>5. Frame(e, fm, HealTargetVault(fm))
  BY <1>1 DEF HealTargetVault, Frame, Frontmatter
<1>6. Frame(e, fm, ClearCurrentJobIfTerminal(fm))
  BY <1>1 DEF ClearCurrentJobIfTerminal, Frame, Frontmatter
<1>7. Frame(e, fm, [fm EXCEPT !.spawn_notification = Absent])
  BY DEF Frame, Frontmatter
<1>8. QED
  BY <1>1, <1>2, <1>3, <1>4, <1>5, <1>6, <1>7

(* Escalating parks the task, writes the section, and brings the phase back
   when the section was there already. *)
LEMMA EscalateFrame ==
    ASSUME NEW e \in Frontmatter, NEW f \in File, NEW s \in Section
    PROVE  LET x == Escalate(e, f, s) IN
           /\ Frame(e, f.fm, x.fm) /\ Parked(x.fm)
           /\ \A h \in Section : Contains(f.body, h) => Contains(x.body, h)
           /\ Contains(x.body, s)
           /\ Contains(f.body, s) /\ e.phase # Absent => x.fm.phase = e.phase
<1> DEFINE k == ClearAssigneeUnlessHuman(f.fm)
           r == RestoreExistingPhase(e, k)
           x == Escalate(e, f, s)
<1>1. f.fm \in Frontmatter /\ f.body \in Body
  BY DEF File
<1>2. k \in Frontmatter /\ Frame(e, f.fm, k) /\ Parked(k)
  BY <1>1, MutatorsTyped, MutatorsFrame
<1> HIDE DEF k
<1>3. Frame(e, k, r) /\ (e.phase # Absent => r.phase = e.phase)
  BY <1>2, MutatorsFrame
<1> HIDE DEF r
<1>4. Frame(e, f.fm, r) /\ Parked(r)
  BY <1>2, <1>3, FrameTransitive, FrameParked
<1>5. CASE Contains(f.body, s)
  <2>1. x.fm = r /\ x.body = f.body
    BY <1>5 DEF Escalate, File, k, r
  <2>2. QED
    BY <1>3, <1>4, <1>5, <2>1
<1>6. CASE ~Contains(f.body, s)
  <2>1. x.fm = k /\ x.body = AppendSection(f.body, s)
    BY <1>6 DEF Escalate, k
  <2>2. Contains(x.body, s) /\ \A h \in Section : Contains(f.body, h) => Contains(x.body, h)
    BY <1>1, <2>1, AppendFacts
  <2>3. QED
    BY <1>2, <1>6, <2>1, <2>2
<1>7. QED
  BY <1>5, <1>6

(* The ownership rules of the merge alone. *)
LEMMA MergeOwnership ==
    ASSUME NEW e \in Frontmatter, NEW i \in Frontmatter
    PROVE  LET m == MergeFrontmatter(e, i) IN
           /\ m.trigger_count = e.trigger_count /\ m.max_triggers = e.max_triggers
           /\ m.cluster = e.cluster
           /\ e.ref # Absent => m.ref # Absent
           /\ IsTerminal(e) => m.status = e.status
           /\ StaleRouting(e, i) => m.assignee = e.assignee
           /\ StaleRouting(e, i) /\ e.task_type # Absent => m.task_type = e.task_type
           /\ e.assignee \in Humans /\ i.assignee # "" /\ ~Declares(i)
                => m.assignee = e.assignee
<1>1. Humans \cap {Absent} = {}
  BY ValuesAssumption
<1>2. QED
  BY <1>1 DEF MergeFrontmatter, ControllerOwned, OperatorPinned, Incoming, MergedStatus,
              MergedAssignee, MergedTaskType, OperatorOwned, HonoursDeclaration, StaleRouting

(* The cap looks only at the budget and at ref. *)
LEMMA CapFrame ==
    ASSUME NEW e, NEW a, NEW b, Frame(e, a, b)
    PROVE  /\ TriggerCapReached(b) <=> TriggerCapReached(a)
           /\ IsTerminal(b) <=> IsTerminal(a)
  BY DEF Frame, TriggerCapReached, TriggerCapEngaged, IsTerminal

(* What a result write keeps, whatever the result carries: the one lemma
   behind the theorems below. *)
LEMMA ModifyFacts ==
    ASSUME NEW f \in File, NEW q \in Result
    PROVE  LET x == ModifyFile(f, q) IN
           /\ x.fm.trigger_count = f.fm.trigger_count
           /\ x.fm.max_triggers = f.fm.max_triggers
           /\ x.fm.cluster = f.fm.cluster
           /\ IsTerminal(f.fm) => x.fm.status = f.fm.status
           /\ StaleRouting(f.fm, q.fm) =>
                /\ x.fm.assignee \in {f.fm.assignee, ""}
                /\ f.fm.task_type # Absent => x.fm.task_type = f.fm.task_type
           /\ f.fm.assignee \in Humans /\ q.fm.assignee # "" /\ ~Declares(q.fm)
                => x.fm.assignee = f.fm.assignee
           /\ ~IsTerminal(x.fm) /\ TriggerCapReached(x.fm) =>
                Parked(x.fm) /\ Contains(x.body, "trigger_cap")
           /\ ~IsTerminal(x.fm) /\ TriggerCapReached(f.fm)
                /\ Contains(MergeBody(f.body, q.body), "trigger_cap") /\ f.fm.phase # Absent
                => x.fm.phase = f.fm.phase
<1> DEFINE e  == f.fm
           m0 == MergeFrontmatter(f.fm, q.fm)
           g0 == HealTargetVault(m0)
           g  == ClearCurrentJobIfTerminal(g0)
           b  == MergeBody(f.body, q.body)
           m  == [fm |-> g, body |-> b]
           c  == ApplyTriggerCap(f.fm, m)
           p  == ApplyHumanReview(c)
           n  == [p EXCEPT !.fm.spawn_notification = Absent]
           z  == ApplyRetryCap(f.fm, p)
           x  == ModifyFile(f, q)
<1>1. e \in Frontmatter /\ q.fm \in Frontmatter /\ f.body \in Body /\ q.body \in Body
  BY DEF File, Result
<1>2. m0 \in Frontmatter /\ g0 \in Frontmatter /\ g \in Frontmatter
  BY <1>1, MergeTyped, MutatorsTyped
<1>3. Frame(e, m0, g)
  <2>1. Frame(e, m0, g0) /\ Frame(e, g0, g)
    BY <1>1, <1>2, MutatorsFrame
  <2>2. QED
    BY <2>1, FrameTransitive
<1>4. b \in Body
  BY <1>1, MergeBodyTyped
<1>5. m \in File /\ m.fm = g /\ m.body = b
  BY <1>2, <1>4 DEF File
<1>6. x \in {m, n, z} /\ (x # m => ~IsTerminal(m.fm)) /\ (x = m => IsTerminal(m.fm) \/ m \in {n, z})
  BY DEF ModifyFile, ApplyRetryCounter
<1> HIDE DEF g, g0, m0, b, m, x
<1>7. /\ c \in File /\ Frame(e, m.fm, c.fm)
      /\ TriggerCapReached(m.fm) =>
            /\ Parked(c.fm) /\ Contains(c.body, "trigger_cap")
            /\ Contains(m.body, "trigger_cap") /\ e.phase # Absent => c.fm.phase = e.phase
  <2>1. CASE TriggerCapReached(m.fm)
    <3>1. "trigger_cap" \in Section
      BY DEF Section
    <3>2. c = Escalate(e, m, "trigger_cap")
      BY <2>1 DEF ApplyTriggerCap
    <3> HIDE DEF c, e
    <3>3. c \in File
      BY <1>1, <1>5, <3>1, <3>2, EscalateTyped
    <3>4. /\ Frame(e, m.fm, c.fm) /\ Parked(c.fm)
          /\ Contains(c.body, "trigger_cap")
          /\ Contains(m.body, "trigger_cap") /\ e.phase # Absent => c.fm.phase = e.phase
      BY <1>1, <1>5, <3>1, <3>2, EscalateFrame
    <3>5. QED
      BY <3>3, <3>4
  <2>2. CASE ~TriggerCapReached(m.fm)
    <3>1. c = m
      BY <2>2 DEF ApplyTriggerCap
    <3>2. QED
      BY <1>1, <1>2, <1>5, <3>1, <2>2, MutatorsFrame
  <2>3. QED
    BY <2>1, <2>2
<1> HIDE DEF c
<1>8. p \in File /\ Frame(e, c.fm, p.fm) /\ p.body = c.body
  <2>1. c.fm \in Frontmatter /\ c.body \in Body
    BY <1>7 DEF File
  <2>2. ClearAssigneeIfHumanReview(c.fm) \in Frontmatter
    BY <2>1, <1>1, MutatorsTyped
  <2>3. p = [fm |-> ClearAssigneeIfHumanReview(c.fm), body |-> c.body]
    BY <1>7 DEF ApplyHumanReview, File
  <2>4. Frame(e, c.fm, ClearAssigneeIfHumanReview(c.fm))
    BY <1>1, <2>1, MutatorsFrame
  <2> HIDE DEF p, e
  <2>5. p \in File /\ p.body = c.body /\ p.fm = ClearAssigneeIfHumanReview(c.fm)
    BY <2>1, <2>2, <2>3 DEF File
  <2>6. QED
    BY <2>4, <2>5
<1> HIDE DEF p
<1>9. Frame(e, p.fm, n.fm) /\ n.body = p.body
  <2>1. p.fm \in Frontmatter
    BY <1>8 DEF File
  <2>2. n.fm = [p.fm EXCEPT !.spawn_notification = Absent] /\ n.body = p.body
    BY <1>8 DEF File
  <2> HIDE DEF n
  <2>3. Frame(e, p.fm, [p.fm EXCEPT !.spawn_notification = Absent])
    BY <1>1, <2>1, MutatorsFrame
  <2>4. QED
    BY <2>2, <2>3
<1> HIDE DEF n
<1>10. /\ Frame(e, p.fm, z.fm)
       /\ \A h \in Section : Contains(p.body, h) => Contains(z.body, h)
  <2>1. CASE RetryCapReached(p.fm, f.fm)
    <3>1. z = Escalate(e, p, "retry_cap") /\ "retry_cap" \in Section
      BY <2>1 DEF ApplyRetryCap, Section
    <3>2. QED
      BY <1>1, <1>8, <3>1, EscalateFrame
  <2>2. CASE ~RetryCapReached(p.fm, f.fm)
    <3>1. z = p
      BY <2>2 DEF ApplyRetryCap
    <3>2. p.fm \in Frontmatter
      BY <1>8 DEF File
    <3>3. QED
      BY <1>1, <3>1, <3>2, MutatorsFrame
  <2>3. QED
    BY <2>1, <2>2
<1> HIDE DEF z
<1>11. Frame(e, m.fm, m.fm)
  BY <1>1, <1>2, <1>5, MutatorsFrame
<1>12. Frame(e, m.fm, n.fm) /\ Frame(e, m.fm, z.fm) /\ Frame(e, c.fm, n.fm) /\ Frame(e, c.fm, z.fm)
  BY <1>7, <1>8, <1>9, <1>10, FrameTransitive
<1>13. Frame(e, m.fm, x.fm) /\ Frame(e, m0, x.fm)
  BY <1>3, <1>5, <1>6, <1>11, <1>12, FrameTransitive
<1>14. ASSUME ~IsTerminal(x.fm)
       PROVE  /\ Frame(e, c.fm, x.fm)
              /\ Contains(c.body, "trigger_cap") => Contains(x.body, "trigger_cap")
  <2>1. ~IsTerminal(m.fm)
    BY <1>14, <1>13, CapFrame
  <2>2. x \in {n, z}
    BY <2>1, <1>6
  <2>3. "trigger_cap" \in Section
    BY DEF Section
  <2>4. /\ Contains(c.body, "trigger_cap") => Contains(n.body, "trigger_cap")
        /\ Contains(c.body, "trigger_cap") => Contains(z.body, "trigger_cap")
    BY <2>3, <1>8, <1>9, <1>10
  <2>5. QED
    BY <2>2, <2>4, <1>12
<1>15. ~IsTerminal(x.fm) /\ TriggerCapReached(x.fm) =>
          Parked(x.fm) /\ Contains(x.body, "trigger_cap")
  <2>1. SUFFICES ASSUME ~IsTerminal(x.fm), TriggerCapReached(x.fm)
                 PROVE  Parked(x.fm) /\ Contains(x.body, "trigger_cap")
    OBVIOUS
  <2>2. TriggerCapReached(m.fm)
    BY <2>1, <1>13, CapFrame
  <2>3. Parked(c.fm) /\ Contains(c.body, "trigger_cap") /\ Frame(e, c.fm, x.fm)
    BY <2>1, <2>2, <1>7, <1>14
  <2>4. QED
    BY <2>1, <2>3, <1>14, FrameParked
<1>16. ~IsTerminal(x.fm) /\ TriggerCapReached(f.fm) /\ Contains(b, "trigger_cap")
         /\ e.phase # Absent => x.fm.phase = e.phase
  <2>1. SUFFICES ASSUME ~IsTerminal(x.fm), TriggerCapReached(f.fm),
                        Contains(b, "trigger_cap"), e.phase # Absent
                 PROVE  x.fm.phase = e.phase
    OBVIOUS
  <2>2. TriggerCapReached(m0)
    BY <2>1, <1>1, MergeOwnership DEF TriggerCapReached, TriggerCapEngaged, m0
  <2>3. TriggerCapReached(m.fm)
    BY <2>2, <1>3, <1>5, CapFrame
  <2>4. Contains(m.body, "trigger_cap")
    BY <2>1, <1>5
  <2>5. c.fm.phase = e.phase
    BY <2>1, <2>3, <2>4, <1>7
  <2>6. QED
    BY <2>1, <2>5, <1>14 DEF Frame
<1>17. /\ x.fm.trigger_count = f.fm.trigger_count
       /\ x.fm.max_triggers = f.fm.max_triggers
       /\ x.fm.cluster = f.fm.cluster
       /\ IsTerminal(f.fm) => x.fm.status = f.fm.status
       /\ StaleRouting(f.fm, q.fm) =>
            /\ x.fm.assignee \in {f.fm.assignee, ""}
            /\ f.fm.task_type # Absent => x.fm.task_type = f.fm.task_type
  BY <1>1, <1>13, MergeOwnership DEF Frame, m0
<1>18. f.fm.assignee \in Humans /\ q.fm.assignee # "" /\ ~Declares(q.fm)
         => x.fm.assignee = f.fm.assignee
  <2>1. SUFFICES ASSUME f.fm.assignee \in Humans, q.fm.assignee # "", ~Declares(q.fm)
                 PROVE  x.fm.assignee = f.fm.assignee
    OBVIOUS
  <2>2. m0.assignee = f.fm.assignee
    BY <2>1, <1>1, MergeOwnership DEF m0
  <2>3. Assignee(m0) \in Humans
    BY <2>1, <2>2, ValuesAssumption DEF Assignee
  <2>4. QED
    BY <2>2, <2>3, <1>13 DEF Frame
<1>19. QED
  BY <1>15, <1>16, <1>17, <1>18 DEF x, b

-----------------------------------------------------------------------------
(* The invariant: a call carries what its closure computed from the file it
   read, while the layout is clean the file on disk and the one a call read are
   tidy and the body it merges is terminated, and a ping that may still be sent has a
   loss of the assignee of its own: the one since the call's GET. *)

CallComputed ==
    call \in Call =>
        /\ call.out = ModifyFile(call.base, call.req)
        /\ layout = "clean" => TidyBody(call.base.body) /\ LineEnded(call.req.body)

DiskTidy == layout = "clean" => TidyBody(disk.body)

Owes ==
    /\ call.pc = "committed" \/ (call.pc = "posting" /\ Assignee(disk.fm) = "")
    /\ Escalated(call.base, call.out)

PingOwed == pings <= parks /\ (Owes => pings + 1 <= parks)

IInv == TypeOK /\ DiskTidy /\ CallComputed /\ PingOwed

(* Between the steps of a call only its program counter and its attempts move. *)
LEMMA CallKept ==
    ASSUME CallComputed, call \in Call, call' \in Call \cup {Idle}, layout' = layout,
           \/ call'.req = call.req /\ call'.base = call.base /\ call'.out = call.out
           \/ call' = Idle
    PROVE  CallComputed'
<1>1. Idle \notin Call
  BY DEF Idle, Call
<1>2. QED
  BY <1>1 DEF CallComputed

LEMMA IdleCall == Idle \notin Call /\ Idle.pc = "idle"
  BY DEF Idle, Call

(* The arithmetic of the history counters. *)
LEMMA CounterFacts ==
    ASSUME NEW p \in Nat, NEW q \in Nat, NEW r \in Nat, r >= q
    PROVE  /\ p <= q => p <= r
           /\ p + 1 <= q => p + 1 <= r
           /\ p <= q /\ r = q + 1 => p + 1 <= r
  OBVIOUS

(* A ping becomes owed only with the loss that it announces. *)
LEMMA OwedStep ==
    ASSUME TypeOK, PingOwed, CountPark, pings' = pings,
           Owes' => Owes \/ (Assignee(disk.fm) # "" /\ Assignee(disk'.fm) = "")
    PROVE  PingOwed'
<1>1. parks \in Nat /\ pings \in Nat /\ parks' \in Nat /\ parks' >= parks
  BY ParkCounted DEF TypeOK
<1>2. pings <= parks /\ (Owes => pings + 1 <= parks)
  BY DEF PingOwed
<1>3. /\ pings <= parks'
      /\ pings + 1 <= parks => pings + 1 <= parks'
      /\ parks' = parks + 1 => pings + 1 <= parks'
  BY <1>1, <1>2, CounterFacts, Zenon
<1>4. Assignee(disk.fm) # "" /\ Assignee(disk'.fm) = "" => parks' = parks + 1
  BY ParkCounted, Zenon
<1>5. pings <= parks' /\ (Owes' => pings + 1 <= parks')
  BY <1>2, <1>3, <1>4, Zenon
<1>6. QED
  BY <1>5, Zenon DEF PingOwed

LEMMA StillCounts ==
    ASSUME TypeOK, UNCHANGED <<disk, parks>>
    PROVE  CountPark
  BY DEF CountPark, TypeOK

(* A store of the call's file keeps the disk tidy. *)
LEMMA StoreTidy ==
    ASSUME TypeOK, CallComputed, call \in Call, disk' = call.out, layout' = layout
    PROVE  DiskTidy'
<1>1. call.base \in File /\ call.req \in Result
  BY CallShape
<1>2. QED
  BY <1>1, ModifyTyped DEF CallComputed, DiskTidy

LEMMA InvStep ==
    ASSUME IInv, [Next]_vars
    PROVE  IInv'
<1> USE DEF IInv
<1>0. TypeOK'
  BY TypeStep
<1>1. CASE ExecutorSpawn
  <2>1. /\ disk \in File /\ UNCHANGED <<call, pings, layout>> /\ disk'.body = IncrementBody(disk)
        /\ call = Idle /\ CountPark
    BY <1>1 DEF ExecutorSpawn, TypeOK
  <2>2. DiskTidy'
    BY <2>1, SpawnTyped DEF DiskTidy
  <2>3. CallComputed'
    BY <2>1 DEF CallComputed
  <2>4. PingOwed'
    <3>1. ~Owes'
      BY <2>1, IdleCall DEF Owes
    <3>2. QED
      BY <2>1, <3>1, OwedStep
  <2>5. QED
    BY <1>0, <2>2, <2>3, <2>4
<1>2. CASE OperatorEdit
  <2>1. disk'.body = disk.body /\ UNCHANGED <<call, pings, layout>> /\ CountPark
    BY <1>2, EditTyped DEF OperatorEdit
  <2>2. CallComputed' /\ DiskTidy'
    BY <2>1 DEF CallComputed, DiskTidy
  <2>3. PingOwed'
    <3>1. Owes' => Owes \/ (Assignee(disk.fm) # "" /\ Assignee(disk'.fm) = "")
      BY <2>1 DEF Owes
    <3>2. QED
      BY <2>1, <3>1, OwedStep
  <2>4. QED
    BY <1>0, <2>2, <2>3
<1>3. ASSUME NEW job \in jobs, AgentDeliver(job) PROVE IInv'
  <2>1. UNCHANGED <<disk, call, parks, pings, layout>>
    BY <1>3 DEF AgentDeliver
  <2>2. QED
    BY <1>0, <2>1 DEF CallComputed, DiskTidy, PingOwed, Owes
<1>4. ASSUME NEW r \in topic, ReadAndModify(r) PROVE IInv'
  <2>1. /\ call' = [pc |-> IF ModifyFile(disk, r) = disk THEN "committed" ELSE "posting",
                    req |-> r, base |-> disk, out |-> ModifyFile(disk, r),
                    posts |-> 0, kept |-> "no"]
        /\ layout' = IF LineEnded(r.body) THEN layout ELSE "broken"
        /\ UNCHANGED <<disk, parks, pings>> /\ call = Idle
    BY <1>4 DEF ReadAndModify
  <2>2. CallComputed' /\ DiskTidy'
    <3>1. layout' = "clean" => LineEnded(r.body) /\ layout = "clean"
      BY <2>1
    <3>2. call'.out = ModifyFile(disk, r) /\ call'.base = disk /\ call'.req = r
      BY <2>1
    <3>3. layout' = "clean" => TidyBody(disk.body)
      BY <3>1 DEF DiskTidy
    <3>4. QED
      BY <2>1, <3>1, <3>2, <3>3 DEF CallComputed, DiskTidy
  <2>3. /\ call'.base = disk /\ disk' = disk
        /\ call'.pc = "committed" => call'.base = call'.out
    BY <2>1
  <2>4. ~Owes'
    BY <2>3 DEF Escalated, Owes
  <2>5. PingOwed'
    BY <2>1, <2>4, StillCounts, OwedStep
  <2>6. QED
    BY <1>0, <2>1, <2>2, <2>5
<1>5. CASE PostAnswered
  <2>1. call \in Call /\ call.pc = "posting"
    BY <1>5, CallShape DEF PostAnswered
  <2>2. /\ call' = [call EXCEPT !.pc = "committed"] /\ disk' = call.out /\ pings' = pings
        /\ CountPark /\ layout' = layout
    BY <1>5 DEF PostAnswered, StoreFile
  <2>3. /\ call'.req = call.req /\ call'.base = call.base /\ call'.out = call.out
        /\ call'.pc = "committed"
    BY <2>1, <2>2 DEF Call
  <2>4. CallComputed' /\ DiskTidy'
    BY <1>0, <2>1, <2>2, <2>3, CallKept, StoreTidy DEF TypeOK
  <2>5. PingOwed'
    <3>1. Owes' => Owes \/ (Assignee(disk.fm) # "" /\ Assignee(disk'.fm) = "")
      BY <2>1, <2>2, <2>3 DEF Owes, Escalated
    <3>2. QED
      BY <2>2, <3>1, OwedStep
  <2>6. QED
    BY <1>0, <2>4, <2>5
<1>6. CASE Publish
  <2>1. call \in Call /\ call.pc = "committed"
    BY <1>6, CallShape DEF Publish
  <2>2. PICK lostPing \in {0, 1} :
           pings' = pings + (IF Escalated(call.base, call.out) THEN 1 - lostPing ELSE 0)
    BY <1>6 DEF Publish
  <2>3. /\ call'.req = call.req /\ call'.base = call.base /\ call'.out = call.out
        /\ call'.pc = "published" /\ UNCHANGED <<disk, parks, layout>>
    BY <1>6, <2>1 DEF Publish, Call
  <2>4. CallComputed' /\ DiskTidy'
    BY <1>0, <2>1, <2>3, CallKept DEF TypeOK, DiskTidy
  <2>5. PingOwed'
    <3>1. ~Owes' /\ (Owes <=> Escalated(call.base, call.out))
      BY <2>1, <2>3 DEF Owes
    <3>2. QED
      BY <2>2, <2>3, <3>1 DEF PingOwed, TypeOK
  <2>6. QED
    BY <1>0, <2>3, <2>4, <2>5
<1>7. CASE CommitOffset
  <2>1. call.pc = "published" /\ call' = Idle /\ UNCHANGED <<disk, parks, pings, layout>>
    BY <1>7 DEF CommitOffset
  <2>2. QED
    BY <1>0, <2>1, IdleCall DEF CallComputed, DiskTidy, PingOwed, Owes, TypeOK
<1>8. CASE PostFailed
  <2>1. call \in Call /\ call.pc = "posting"
    BY <1>8, CallShape DEF PostFailed
  <2>2. /\ call' = [call EXCEPT !.posts = @ + 1] \/ call' = Idle
        /\ pings' = pings /\ layout' = layout
        /\ StoreFile \/ UNCHANGED <<disk, parks>>
    BY <1>8 DEF PostFailed
  <2>3. /\ \/ call'.req = call.req /\ call'.base = call.base /\ call'.out = call.out
           \/ call' = Idle
        /\ call'.pc # "committed" /\ (call' = Idle => call'.pc = "idle")
    BY <2>1, <2>2, IdleCall DEF Call
  <2>4. CallComputed'
    BY <1>0, <2>1, <2>2, <2>3, CallKept DEF TypeOK
  <2>5. DiskTidy'
    BY <2>1, <2>2, StoreTidy DEF StoreFile, DiskTidy
  <2>6. CountPark
    BY <2>2, StillCounts DEF StoreFile
  <2>7. PingOwed'
    <3>1. Owes' => Owes \/ (Assignee(disk.fm) # "" /\ Assignee(disk'.fm) = "")
      BY <2>1, <2>3 DEF Owes
    <3>2. QED
      BY <2>2, <2>6, <3>1, OwedStep
  <2>8. QED
    BY <1>0, <2>4, <2>5, <2>7
<1>9. CASE Crash
  <2>1. call' = Idle /\ UNCHANGED <<disk, parks, pings, layout>>
    BY <1>9 DEF Crash
  <2>2. QED
    BY <1>0, <2>1, IdleCall DEF CallComputed, DiskTidy, PingOwed, Owes, TypeOK
<1>10. CASE UNCHANGED vars
  BY <1>0, <1>10 DEF vars, CallComputed, DiskTidy, PingOwed, Owes
<1>11. QED
  BY <1>1, <1>2, <1>3, <1>4, <1>5, <1>6, <1>7, <1>8, <1>9, <1>10 DEF Next, Consumer

(* The invariant of the write path. *)
THEOREM WritePathInvariant == Spec => []IInv
<1>1. Init => IInv
  <2> SUFFICES ASSUME Init PROVE IInv
    OBVIOUS
  <2>1. TypeOK /\ DiskTidy
    <3>1. disk \in InitialFiles /\ disk \in File /\ Once(disk.body)
      BY ResultWriterAssumption DEF Init
    <3>2. DiskTidy
      BY <3>1 DEF Init, DiskTidy, TidyBody
    <3>3. QED
      BY <3>1, <3>2 DEF Init, TypeOK
  <2>2. call = Idle /\ pings = 0 /\ parks = 0
    BY DEF Init
  <2>3. CallComputed /\ ~Owes
    BY <2>2, IdleCall DEF CallComputed, Owes
  <2>4. pings <= parks
    BY <2>2
  <2>5. QED
    BY <2>1, <2>3, <2>4, Zenon DEF IInv, PingOwed
<1>2. IInv /\ [Next]_vars => IInv'
  BY InvStep
<1>3. QED
  BY <1>1, <1>2, PTL DEF Spec

(* However often a result is retried, redelivered or followed by another, an
   escalation section stands at most once in the file, while no merged body
   hid a heading from the match: what mergeBody concatenates then glues none. *)
THEOREM SectionOnceHolds == Spec => []SectionOnce
<1>1. IInv => SectionOnce
  BY DEF IInv, DiskTidy, TidyBody, SectionOnce
<1>2. QED
  BY <1>1, WritePathInvariant, PTL

(* Every escalation ping answers one loss of the assignee of its own. *)
THEOREM PingsFollowParksHolds == Spec => []PingsFollowParks
<1>1. IInv => PingsFollowParks
  BY DEF IInv, PingOwed, TypeOK, PingsFollowParks
<1>2. QED
  BY <1>1, WritePathInvariant, PTL

(* A store puts the closure's result for the file it read on disk. *)
LEMMA StoringWrites ==
    ASSUME IInv, [Next]_vars, Storing
    PROVE  /\ disk' = ModifyFile(call.base, call.req)
           /\ call.base \in File /\ call.req \in Result
<1>1. call.pc = "posting" /\ call' # call /\ disk' # disk /\ call \in Call
  BY CallShape DEF Storing, IInv
<1>2. PostAnswered \/ PostFailed
  BY <1>1, IdleCall DEF Next, Consumer, vars, ExecutorSpawn, OperatorEdit, AgentDeliver,
                        ReadAndModify, Publish, CommitOffset, Crash
<1>3. disk' = call.out
  BY <1>1, <1>2 DEF PostAnswered, PostFailed, StoreFile
<1>4. QED
  BY <1>1, <1>3, CallShape DEF IInv, CallComputed

(* Where nobody wrote the file since the GET, the closure ran on what is there. *)
LEMMA CleanStoreWrites ==
    ASSUME IInv, [Next]_vars, CleanStore
    PROVE  /\ disk' = ModifyFile(disk, call.req)
           /\ disk \in File /\ call.req \in Result
<1>1. Storing /\ disk = call.base
  BY DEF CleanStore
<1>2. QED
  BY <1>1, StoringWrites

(* No result raises, lowers or resets the trigger budget, un-pins the cluster
   or moves a terminal task, as long as nobody wrote the file under it. *)
THEOREM OwnedFieldsKeptHolds == Spec => OwnedFieldsKept
<1>1. IInv /\ [Next]_vars =>
        [CleanStore =>
           /\ disk'.fm.trigger_count = disk.fm.trigger_count
           /\ disk'.fm.max_triggers = disk.fm.max_triggers
           /\ disk'.fm.cluster = disk.fm.cluster
           /\ IsTerminal(disk.fm) => disk'.fm.status = disk.fm.status]_vars
  <2>1. SUFFICES ASSUME IInv, [Next]_vars, CleanStore
                 PROVE  /\ disk'.fm.trigger_count = disk.fm.trigger_count
                        /\ disk'.fm.max_triggers = disk.fm.max_triggers
                        /\ disk'.fm.cluster = disk.fm.cluster
                        /\ IsTerminal(disk.fm) => disk'.fm.status = disk.fm.status
    OBVIOUS
  <2> DEFINE x == ModifyFile(disk, call.req)
  <2>2. disk' = x /\ disk \in File /\ call.req \in Result
    BY <2>1, CleanStoreWrites
  <2>3. /\ x.fm.trigger_count = disk.fm.trigger_count
        /\ x.fm.max_triggers = disk.fm.max_triggers
        /\ x.fm.cluster = disk.fm.cluster
        /\ IsTerminal(disk.fm) => x.fm.status = disk.fm.status
    BY <2>2, ModifyFacts
  <2> HIDE DEF x
  <2>4. QED
    BY <2>1, <2>2, <2>3
<1>2. QED
  BY <1>1, WritePathInvariant, PTL DEF Spec, OwnedFieldsKept

(* A live task at its trigger cap leaves every result write without an agent
   and with an escalation section that the match finds, under any interleaving
   and whatever the merge did to the body. *)
THEOREM CapParksTheTaskHolds == Spec => CapParksTheTask
<1>1. IInv /\ [Next]_vars =>
        [Storing /\ ~IsTerminal(disk'.fm) /\ TriggerCapReached(disk'.fm) =>
           /\ Assignee(disk'.fm) \in Humans \cup {""}
           /\ Contains(disk'.body, "trigger_cap")]_vars
  <2>1. SUFFICES ASSUME IInv, [Next]_vars, Storing,
                        ~IsTerminal(disk'.fm), TriggerCapReached(disk'.fm)
                 PROVE  /\ Assignee(disk'.fm) \in Humans \cup {""}
                        /\ Contains(disk'.body, "trigger_cap")
    OBVIOUS
  <2> DEFINE x == ModifyFile(call.base, call.req)
  <2>2. disk' = x /\ call.base \in File /\ call.req \in Result
    BY <2>1, StoringWrites
  <2>3. ~IsTerminal(x.fm) /\ TriggerCapReached(x.fm) =>
           Parked(x.fm) /\ Contains(x.body, "trigger_cap")
    BY <2>2, ModifyFacts
  <2> HIDE DEF x
  <2>4. QED
    BY <2>1, <2>2, <2>3 DEF Parked
<1>2. QED
  BY <1>1, WritePathInvariant, PTL DEF Spec, CapParksTheTask

(* A result of another assignee's run re-routes nothing. *)
THEOREM StaleResultKeepsRoutingHolds == Spec => StaleResultKeepsRouting
<1>1. IInv /\ [Next]_vars =>
        [CleanStore /\ StaleRouting(disk.fm, call.req.fm) =>
           /\ disk.fm.task_type # Absent => disk'.fm.task_type = disk.fm.task_type
           /\ disk'.fm.assignee \in {disk.fm.assignee, ""}]_vars
  <2>1. SUFFICES ASSUME IInv, [Next]_vars, CleanStore, StaleRouting(disk.fm, call.req.fm)
                 PROVE  /\ disk.fm.task_type # Absent => disk'.fm.task_type = disk.fm.task_type
                        /\ disk'.fm.assignee \in {disk.fm.assignee, ""}
    OBVIOUS
  <2> DEFINE x == ModifyFile(disk, call.req)
  <2>2. disk' = x /\ disk \in File /\ call.req \in Result
    BY <2>1, CleanStoreWrites
  <2>3. StaleRouting(disk.fm, call.req.fm) =>
          /\ x.fm.assignee \in {disk.fm.assignee, ""}
          /\ disk.fm.task_type # Absent => x.fm.task_type = disk.fm.task_type
    BY <2>2, ModifyFacts
  <2> HIDE DEF x
  <2>4. QED
    BY <2>1, <2>2, <2>3
<1>2. QED
  BY <1>1, WritePathInvariant, PTL DEF Spec, StaleResultKeepsRouting

(* Neither cap takes a task from its human owner. *)
THEOREM HumanOwnerSurvivesHolds == Spec => HumanOwnerSurvives
<1>1. IInv /\ [Next]_vars =>
        [CleanStore /\ disk.fm.assignee \in Humans /\ call.req.fm.assignee # ""
           /\ ~Declares(call.req.fm)
           => disk'.fm.assignee = disk.fm.assignee]_vars
  <2>1. SUFFICES ASSUME IInv, [Next]_vars, CleanStore, disk.fm.assignee \in Humans,
                        call.req.fm.assignee # "", ~Declares(call.req.fm)
                 PROVE  disk'.fm.assignee = disk.fm.assignee
    OBVIOUS
  <2> DEFINE x == ModifyFile(disk, call.req)
  <2>2. disk' = x /\ disk \in File /\ call.req \in Result
    BY <2>1, CleanStoreWrites
  <2>3. disk.fm.assignee \in Humans /\ call.req.fm.assignee # "" /\ ~Declares(call.req.fm)
          => x.fm.assignee = disk.fm.assignee
    BY <2>2, ModifyFacts
  <2> HIDE DEF x
  <2>4. QED
    BY <2>1, <2>2, <2>3
<1>2. QED
  BY <1>1, WritePathInvariant, PTL DEF Spec, HumanOwnerSurvives

(* A late result cannot move the phase of a task parked at its cap: while the
   layout is clean the merge keeps the section where the match finds it. *)
THEOREM ParkedPhaseSticksHolds == Spec => ParkedPhaseSticks
<1>1. IInv /\ [Next]_vars =>
        [CleanStore /\ ~IsTerminal(disk'.fm) /\ TriggerCapReached(disk.fm)
           /\ Contains(disk.body, "trigger_cap") /\ layout = "clean" /\ disk.fm.phase # Absent
           => disk'.fm.phase = disk.fm.phase]_vars
  <2>1. SUFFICES ASSUME IInv, [Next]_vars, Storing, disk = call.base,
                        ~IsTerminal(disk'.fm), TriggerCapReached(disk.fm),
                        Contains(disk.body, "trigger_cap"), layout = "clean",
                        disk.fm.phase # Absent
                 PROVE  disk'.fm.phase = disk.fm.phase
    BY DEF CleanStore
  <2> DEFINE x == ModifyFile(call.base, call.req)
  <2>2. disk' = x /\ call.base \in File /\ call.req \in Result
    BY <2>1, StoringWrites
  <2>3. ~IsTerminal(x.fm) /\ TriggerCapReached(call.base.fm)
          /\ Contains(MergeBody(call.base.body, call.req.body), "trigger_cap")
          /\ call.base.fm.phase # Absent
          => x.fm.phase = call.base.fm.phase
    BY <2>2, ModifyFacts
  <2>4. Contains(MergeBody(call.base.body, call.req.body), "trigger_cap")
    <3>1. call \in Call
      BY <2>1, CallShape DEF Storing, IInv
    <3>2. TidyBody(call.base.body) /\ LineEnded(call.req.body)
      BY <2>1, <3>1 DEF IInv, CallComputed
    <3>3. /\ call.base.body \in Body /\ call.req.body \in Body /\ "trigger_cap" \in Section
          /\ Contains(call.base.body, "trigger_cap")
      BY <2>1, <2>2 DEF File, Result, Section
    <3>4. QED
      BY <3>2, <3>3, MergeTidy
  <2> HIDE DEF x
  <2>5. QED
    BY <2>1, <2>2, <2>3, <2>4
<1>2. QED
  BY <1>1, WritePathInvariant, PTL DEF Spec, ParkedPhaseSticks

=============================================================================
