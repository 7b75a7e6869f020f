-------------------------- MODULE PlanningRetryProofs --------------------------
(***************************************************************************)
(* Proofs about the planning-retry gate, for any retry budget, any number  *)
(* of partitions, and any crashes, failed requests, redeliveries and       *)
(* edits.                                                                  *)
(***************************************************************************)
EXTENDS PlanningRetry, FiniteSetTheorems, TLAPS

Parts == 0 .. Partitions - 1
Busy(p) == calls[p] # Idle
Posting(p) == calls[p].pc = "posting"
Retrying(p) == Posting(p) /\ calls[p].kind = "retry"

\* What the store of call c adds to the retries.
Entry(c) == [job |-> c.req.job, to |-> c.req.id, id |-> c.out.id, count |-> c.out.count]

\* The runs, deliveries and calls there are, with the identifier they carry.
Work ==
    {<<j.job, j.file.id>> : j \in jobs} \cup {<<q.job, q.id>> : q \in topic}
    \cup {<<calls[p].req.job, calls[p].req.id>> : p \in {q \in Parts : Busy(q)}}

\* The pairs of identifier and counter that occur anywhere.
Versions ==
    {<<disk.id, disk.count>>} \cup {<<j.file.id, j.file.count>> : j \in jobs}
    \cup {<<q.id, q.count>> : q \in topic}
    \cup UNION {{<<calls[p].req.id, calls[p].req.count>>,
                 <<calls[p].base.id, calls[p].base.count>>,
                 <<calls[p].out.id, calls[p].out.count>>} : p \in {q \in Parts : Busy(q)}}

\* Runs and identifiers are numbered in the order they come up.
Numbered ==
    /\ \A w \in Work : w[1] < spawns /\ w[2] <= minted
    /\ \A r \in retries : r.job < spawns /\ r.id \in 1 .. minted /\ r.count \in 1 .. MaxRetries
    /\ \A v \in Versions : v[1] <= minted

\* A call is handled in the partition of its identifier, within the budget, and
\* a write that is not a retry keeps the identifier.
CallShape ==
    \A p \in Parts : Busy(p) =>
        /\ calls[p].req.id % Partitions = p
        /\ calls[p].pc = "gate" /\ calls[p].kind = "retry" => calls[p].count < MaxRetries
        /\ Retrying(p) =>
             /\ calls[p].base.id < calls[p].out.id
             /\ calls[p].out.count = calls[p].count + 1
             /\ Count(calls[p].base.count) = calls[p].count /\ calls[p].count < MaxRetries
        /\ Posting(p) /\ calls[p].kind # "retry" => calls[p].out.id = calls[p].base.id
        /\ calls[p].pc = "write" => calls[p].kind = "result"
        /\ calls[p].pc \in {"gate", "write"} => ~calls[p].first
        /\ calls[p].first => calls[p].kind = "escalate"

\* A fresh identifier belongs to one call, and who has seen it in the file has
\* seen it stored.
FreshIds ==
    \A p \in Parts : Retrying(p) =>
        /\ \A q \in Parts : Retrying(q) /\ calls[q].out.id = calls[p].out.id => q = p
        /\ disk.id = calls[p].out.id => Entry(calls[p]) \in retries
        /\ \A q \in Parts : Posting(q) /\ calls[q].base.id = calls[p].out.id
                            => Entry(calls[p]) \in retries

\* The fresh identifier of a retry fences all that is left of its run.
Fence ==
    \A w \in Work :
        /\ \A r \in retries : w[1] = r.job => w[2] < r.id
        /\ \A p \in Parts : Retrying(p) /\ w[1] = calls[p].req.job => w[2] < calls[p].out.id

\* What is left of a run is all addressed to one identifier.
RunIds == \A v, w \in Work : v[1] = w[1] => v[2] = w[2]

\* Without a race a run whose failure the gate is about to answer, and which is
\* not addressed to the replaced identifier, has no other retry, and identifiers
\* only grow.
Undisturbed ==
    ~clobbered =>
        /\ \A p \in Parts : (calls[p].pc = "gate" \/ Retrying(p)) /\ calls[p].req.id # Previous =>
             \A r \in retries : r.job = calls[p].req.job => Retrying(p) /\ r = Entry(calls[p])
        /\ \A r \in retries : r.id <= disk.id

\* Without edits and without a merge of what is addressed to the replaced
\* identifier, an identifier determines the counter; without a race no retry is
\* ahead of the file.
CountFollowsId ==
    /\ edits = 0 /\ ~stale => \A v, w \in Versions : v[1] = w[1] => v[2] = w[2]
    /\ edits = 0 /\ ~stale /\ ~clobbered => \A r \in retries : r.count <= Count(disk.count)

\* The comments still to be posted are covered by stored escalations.
Owing == {p \in Parts : calls[p].pc = "stored" /\ calls[p].first}
CommentsCovered == comments + Cardinality(Owing) <= escalations

RetryInv ==
    /\ TypeOK /\ Numbered /\ RunIds /\ CallShape /\ FreshIds /\ Fence /\ Undisturbed
    /\ CountFollowsId /\ OneRetryPerFailure /\ RetryBudget

-----------------------------------------------------------------------------
(* The operators. *)

\* A retry write leaves a file.
LEMMA RetryTyped ==
    ASSUME minted \in Nat, NEW f \in File, NEW c \in Call
    PROVE  /\ RetryModify(f, c) \in File
           /\ StillRetries(f, c) =>
                /\ RetryModify(f, c).id = minted + 1 /\ RetryModify(f, c).count = c.count + 1
                /\ Count(f.count) = c.count
           /\ ~StillRetries(f, c) => RetryModify(f, c) = f
  <1>1. c.count \in Nat /\ c.ts \in Nat
    BY DEF Call
  <1>2. RetryLine(c) \in Line
    BY <1>1 DEF RetryLine, Line
  <1>3. CASE ~StillRetries(f, c)
    BY <1>3 DEF RetryModify
  <1>4. CASE StillRetries(f, c)
    <2> DEFINE one == [f EXCEPT !.count = c.count + 1]
               two == [one EXCEPT !.phase = "planning"]
               three == [two EXCEPT !.id = minted + 1]
               four == [three EXCEPT !.lines = @ \cup {RetryLine(c)}]
    <2>1. one \in File /\ one.count = c.count + 1
      BY <1>1 DEF File, Opt
    <2> HIDE DEF one
    <2>2. two \in File /\ two.count = c.count + 1
      BY <2>1 DEF File, Phases
    <2> HIDE DEF two
    <2>3. three \in File /\ three.id = minted + 1 /\ three.count = c.count + 1
      BY <2>2 DEF File
    <2> HIDE DEF three
    <2>4. four \in File /\ four.id = minted + 1 /\ four.count = c.count + 1
      BY <2>3, <1>2 DEF File
    <2>5. RetryModify(f, c) = four
      BY <1>4 DEF RetryModify, Retry, four, three, two, one
    <2>6. Count(f.count) = c.count
      BY <1>4 DEF StillRetries
    <2> QED
      BY <1>4, <2>4, <2>5, <2>6
  <1> QED
    BY <1>3, <1>4

\* The normalisation of the assignee leaves a file, and its identifier and counter.
LEMMA ClearTyped ==
    ASSUME NEW f \in File
    PROVE  /\ ClearAssigneeIfHumanReview(f) \in File
           /\ ClearAssigneeIfHumanReview(f).id = f.id
           /\ ClearAssigneeIfHumanReview(f).count = f.count
           /\ ClearAssigneeIfHumanReview(f).phase = f.phase
  BY DEF ClearAssigneeIfHumanReview, File, Assignees

\* An escalation write leaves a file, and its identifier and counter; one that
\* owes the PR a comment changes it.
LEMMA EscalateTyped ==
    ASSUME PlanningRetryAssumption, NEW f \in File, NEW c \in Call
    PROVE  /\ EscalationModify(f, c) \in File
           /\ EscalationModify(f, c).id = f.id /\ EscalationModify(f, c).count = f.count
           /\ FirstEscalation(f) => EscalationModify(f, c) # f
  <1>1. [n |-> MaxRetries, ts |-> c.ts] \in Line
    BY DEF PlanningRetryAssumption, Call, Line
  <1> DEFINE one == [f EXCEPT !.phase = "human_review"]
             two == [one EXCEPT !.lines = IF f.note THEN @
                                          ELSE @ \cup {[n |-> MaxRetries, ts |-> c.ts]}]
  <1>2. one \in File /\ one.id = f.id /\ one.count = f.count /\ one.phase = "human_review"
    BY DEF File, Phases
  <1> HIDE DEF one
  <1>3. two \in File /\ two.id = f.id /\ two.count = f.count /\ two.phase = "human_review"
    BY <1>1, <1>2 DEF File
  <1>4. Escalate(f, c) = ClearAssigneeIfHumanReview(two)
    BY DEF Escalate, two, one
  <1> HIDE DEF two
  <1>5. /\ Escalate(f, c) \in File /\ Escalate(f, c).id = f.id /\ Escalate(f, c).count = f.count
        /\ Escalate(f, c).phase = "human_review"
    BY <1>3, <1>4, ClearTyped
  <1>6. FirstEscalation(f) => f.phase = "planning"
    BY DEF FirstEscalation
  <1> QED
    BY <1>5, <1>6 DEF EscalationModify

\* The merge of a result leaves a file and its identifier, and a counter the
\* file or the result had.
LEMMA ResultTyped ==
    ASSUME NEW f \in File, NEW q \in Result
    PROVE  /\ ResultModify(f, q) \in File /\ ResultModify(f, q).id = f.id
           /\ ResultModify(f, q).count \in {f.count, q.count}
  <1>1. Incoming(f.phase, q.phase) \in Phases
    BY DEF Incoming, File, Result, Opt
  <1>2. Incoming(f.count, q.count) \in Opt(Int) /\ Incoming(f.count, q.count) \in {f.count, q.count}
    BY DEF Incoming, File, Result, Opt
  <1>3. Incoming(f.lines, q.lines) \in SUBSET Line
    <2>1. f.lines \in SUBSET Line /\ q.lines \in (SUBSET Line) \cup {Absent}
      BY DEF File, Result, Opt
    <2> QED
      BY <2>1 DEF Incoming
  <1> DEFINE one == [f EXCEPT !.phase = Incoming(f.phase, q.phase)]
             two == [one EXCEPT !.count = Incoming(f.count, q.count)]
             three == [two EXCEPT !.assignee = IF q.assignee = "" THEN "" ELSE @]
             four == [three EXCEPT !.lines = Incoming(f.lines, q.lines)]
  <1>4. one \in File /\ one.id = f.id
    BY <1>1 DEF File
  <1>5. ResultModify(f, q) = ClearAssigneeIfHumanReview(four)
    BY DEF ResultModify, four, three, two, one
  <1> HIDE DEF one
  <1>6. two \in File /\ two.id = f.id /\ two.count \in {f.count, q.count}
    BY <1>2, <1>4 DEF File
  <1> HIDE DEF two
  <1>7. three \in File /\ three.id = f.id /\ three.count \in {f.count, q.count}
    BY <1>6 DEF File, Assignees
  <1> HIDE DEF three
  <1>8. four \in File /\ four.id = f.id /\ four.count \in {f.count, q.count}
    BY <1>3, <1>7 DEF File
  <1> HIDE DEF four
  <1> QED
    BY <1>5, <1>8, ClearTyped

-----------------------------------------------------------------------------
(* The steps of a call. *)

\* A consumer is idle or has a call.
LEMMA CallTyped ==
    ASSUME TypeOK, NEW p \in Parts
    PROVE  /\ calls[p] \in Call \cup {Idle}
           /\ Busy(p) <=> calls[p] \in Call
           /\ Busy(p) <=> calls[p].pc \in {"gate", "write", "posting", "stored"}
           /\ calls[p].pc \in {"gate", "write", "posting", "stored", "idle"}
           /\ Posting(p) => Busy(p)
  <1>1. calls[p] \in Call \cup {Idle}
    BY DEF TypeOK, Parts
  <1>2. ASSUME calls[p] = Idle PROVE calls[p].pc = "idle"
    BY <1>2 DEF Idle
  <1>3. ASSUME calls[p] \in Call PROVE calls[p].pc \in {"gate", "write", "posting", "stored"}
    BY <1>3 DEF Call
  <1> QED
    BY <1>1, <1>2, <1>3 DEF Busy, Posting

\* The parts of a call.
LEMMA CallParts ==
    ASSUME NEW c \in Call
    PROVE  /\ c.req \in Result /\ c.req.job \in Nat /\ c.req.id \in Nat /\ c.req.count \in Opt(Int)
           /\ c.kind \in {"retry", "escalate", "result"} /\ c.count \in Nat /\ c.ts \in Nat
           /\ c.base \in File /\ c.base.id \in Nat /\ c.base.count \in Opt(Int)
           /\ c.out \in File /\ c.out.id \in Nat /\ c.out.count \in Opt(Int)
           /\ c.first \in BOOLEAN /\ c.posts \in Nat
  <1>1. /\ c.req \in Result /\ c.base \in File /\ c.out \in File /\ c.first \in BOOLEAN
        /\ c.kind \in {"retry", "escalate", "result"} /\ c.count \in Nat /\ c.ts \in Nat
        /\ c.posts \in Nat
    BY DEF Call
  <1>2. \A r \in Result : r.job \in Nat /\ r.id \in Nat /\ r.count \in Opt(Int)
    BY DEF Result
  <1>3. \A f \in File : f.id \in Nat /\ f.count \in Opt(Int)
    BY DEF File
  <1> QED
    BY <1>1, <1>2, <1>3

\* GET and closure change the call's file, its flag and where it stands.
LEMMA ModifyStep ==
    ASSUME TypeOK, NEW p \in Parts, Busy(p),
           NEW out \in File, NEW first \in BOOLEAN, Modify(p, out, first)
    PROVE  /\ calls' \in [Parts -> Call \cup {Idle}]
           /\ \A q \in Parts : q # p => calls'[q] = calls[q]
           /\ calls'[p] \in Call
           /\ calls'[p].pc = IF out = disk THEN "stored" ELSE "posting"
           /\ calls'[p].base = disk /\ calls'[p].out = out /\ calls'[p].first = first
           /\ calls'[p].req = calls[p].req /\ calls'[p].kind = calls[p].kind
           /\ calls'[p].count = calls[p].count
  <1>1. calls \in [Parts -> Call \cup {Idle}] /\ calls[p] \in Call /\ disk \in File
    BY CallTyped DEF TypeOK, Parts
  <1> DEFINE c == calls[p]
             one == [c EXCEPT !.pc = IF out = disk THEN "stored" ELSE "posting"]
             two == [one EXCEPT !.base = disk]
             three == [two EXCEPT !.out = out]
             four == [three EXCEPT !.first = first]
  <1>2. calls' = [calls EXCEPT ![p] = four]
    BY <1>1 DEF Modify
  <1> HIDE DEF c
  <1>3. c \in Call /\ c = calls[p]
    BY <1>1 DEF c
  <1>4. /\ one \in Call /\ one.pc = IF out = disk THEN "stored" ELSE "posting"
        /\ one.req = c.req /\ one.kind = c.kind /\ one.count = c.count
    BY <1>3 DEF Call
  <1> HIDE DEF one
  <1>5. /\ two \in Call /\ two.pc = one.pc /\ two.base = disk
        /\ two.req = c.req /\ two.kind = c.kind /\ two.count = c.count
    BY <1>1, <1>4 DEF Call
  <1> HIDE DEF two
  <1>6. /\ three \in Call /\ three.pc = one.pc /\ three.base = disk /\ three.out = out
        /\ three.req = c.req /\ three.kind = c.kind /\ three.count = c.count
    BY <1>5 DEF Call
  <1> HIDE DEF three
  <1>7. /\ four \in Call /\ four.pc = one.pc /\ four.base = disk /\ four.out = out
        /\ four.first = first
        /\ four.req = c.req /\ four.kind = c.kind /\ four.count = c.count
    BY <1>6 DEF Call
  <1> HIDE DEF four
  <1> QED
    BY <1>1, <1>2, <1>3, <1>4, <1>7

\* A store leaves the file of its call, and a record of a retry.
LEMMA StoreStep ==
    ASSUME TypeOK, Numbered, CallShape, NEW p \in Parts, Posting(p), Store(calls[p])
    PROVE  /\ disk' \in File /\ disk'.id <= minted
           /\ retries' \in SUBSET [job : Nat, to : Nat, id : Nat, count : Int]
           /\ escalations' \in Nat /\ clobbered' \in BOOLEAN
  <1>1. Busy(p) /\ calls[p] \in Call
    BY CallTyped
  <1>2. /\ calls[p].out \in File /\ calls[p].req.job \in Nat /\ calls[p].req.id \in Nat
        /\ calls[p].out.id \in Nat
    BY <1>1, CallParts
  <1>3. <<calls[p].out.id, calls[p].out.count>> \in Versions
    BY <1>1 DEF Versions
  <1>4. calls[p].out.id <= minted
    BY <1>3 DEF Numbered
  <1>5. disk' \in File /\ disk'.id <= minted
    BY <1>2, <1>4 DEF Store
  <1>6. ASSUME calls[p].kind = "retry" PROVE calls[p].out.count \in Int
    <2>1. calls[p].out.count = calls[p].count + 1
      BY <1>1, <1>6 DEF CallShape, Retrying
    <2>2. calls[p].count \in Nat
      BY <1>1, CallParts
    <2> QED
      BY <2>1, <2>2
  <1>7. retries' \in SUBSET [job : Nat, to : Nat, id : Nat, count : Int]
    BY <1>2, <1>6 DEF Store, TypeOK
  <1>8. escalations' \in Nat
    BY DEF Store, TypeOK
  <1>9. clobbered' \in BOOLEAN
    BY DEF Store, TypeOK
  <1> QED
    BY <1>5, <1>7, <1>8, <1>9

-----------------------------------------------------------------------------
(* Type correctness. *)

\* A new call is typed; its kind says what Handle decided on.
LEMMA HandleStep ==
    ASSUME PlanningRetryAssumption, TypeOK, NEW p \in Parts, NEW req \in topic, Handle(p, req)
    PROVE  /\ calls' \in [Parts -> Call \cup {Idle}]
           /\ \A q \in Parts : q # p => calls'[q] = calls[q]
           /\ calls'[p] \in Call /\ calls'[p].req = req
           /\ calls'[p].base = disk /\ calls'[p].out = disk /\ calls'[p].first = FALSE
           /\ calls'[p].pc \in {"gate", "write"}
           /\ calls'[p].pc = "gate" => req.id \in {disk.id, Previous}
           /\ calls'[p].pc = "write" => calls'[p].kind = "result"
           /\ calls'[p].kind = "retry" => calls'[p].count < MaxRetries
  <1> DEFINE n == Clamp(Count(disk.count))
             c == [pc    |-> IF Matches(disk, req) THEN "gate" ELSE "write",
                   kind  |-> IF ~Matches(disk, req) THEN "result"
                             ELSE IF AtCap(n) THEN "escalate" ELSE "retry",
                   req |-> req, count |-> n, ts |-> now,
                   base |-> disk, out |-> disk, first |-> FALSE, posts |-> 0]
  <1>1. calls' = [calls EXCEPT ![p] = c]
    BY DEF Handle
  <1>2. n \in Nat
    BY DEF Clamp, Count, TypeOK, File, Opt
  <1>3. req \in Result /\ now \in Nat /\ disk \in File
    BY DEF TypeOK
  <1> HIDE DEF n
  <1>4. c \in Call
    BY <1>2, <1>3 DEF Call
  <1>5. c.kind = "retry" => n < MaxRetries
    BY <1>2 DEF AtCap, PlanningRetryAssumption
  <1>6. Matches(disk, req) => req.id \in {disk.id, Previous}
    BY DEF Matches, Carries
  <1>7. /\ c.req = req /\ c.base = disk /\ c.out = disk /\ c.first = FALSE /\ c.count = n
        /\ c.pc \in {"gate", "write"}
        /\ c.pc = "gate" => Matches(disk, req)
        /\ c.pc = "write" => c.kind = "result"
    OBVIOUS
  <1> HIDE DEF c
  <1>8. calls \in [Parts -> Call \cup {Idle}]
    BY DEF TypeOK, Parts
  <1> QED
    BY <1>1, <1>4, <1>5, <1>6, <1>7, <1>8

\* A failed POST leaves the call for another attempt, or drops it.
LEMMA FailStep ==
    ASSUME TypeOK, NEW p \in Parts, PostFailed(p)
    PROVE  /\ calls' \in [Parts -> Call \cup {Idle}]
           /\ \A q \in Parts : q # p => calls'[q] = calls[q]
           /\ \/ calls'[p] = Idle
              \/ /\ calls'[p] \in Call /\ calls'[p].pc = "posting"
                 /\ calls'[p].req = calls[p].req /\ calls'[p].kind = calls[p].kind
                 /\ calls'[p].count = calls[p].count /\ calls'[p].base = calls[p].base
                 /\ calls'[p].out = calls[p].out /\ calls'[p].first = calls[p].first
  <1>1. calls \in [Parts -> Call \cup {Idle}] /\ calls[p] \in Call /\ calls[p].pc = "posting"
    BY CallTyped DEF TypeOK, Parts, PostFailed
  <1> DEFINE c == calls[p]
             again == [c EXCEPT !.posts = @ + 1]
             left == IF c.posts + 1 < MaxPosts THEN again ELSE Idle
  <1>2. calls' = [calls EXCEPT ![p] = left]
    BY DEF PostFailed
  <1> HIDE DEF c
  <1>3. c \in Call /\ c = calls[p] /\ c.pc = "posting"
    BY <1>1 DEF c
  <1>4. /\ again \in Call /\ again.pc = "posting" /\ again.req = c.req /\ again.kind = c.kind
        /\ again.count = c.count /\ again.base = c.base /\ again.out = c.out
        /\ again.first = c.first
    BY <1>3 DEF Call
  <1> HIDE DEF again
  <1>5. left = again \/ left = Idle
    OBVIOUS
  <1> HIDE DEF left
  <1> QED
    BY <1>1, <1>2, <1>3, <1>4, <1>5

\* An operator leaves a file with its identifier.
LEMMA EditStep ==
    ASSUME PlanningRetryAssumption, TypeOK, OperatorEdit
    PROVE  disk' \in File /\ disk'.id = disk.id
  <1>0. disk \in File
    BY DEF TypeOK
  <1>1. ASSUME NEW x \in Phases, disk' = [disk EXCEPT !.phase = x]
        PROVE  disk' \in File /\ disk'.id = disk.id
    BY <1>0, <1>1 DEF File
  <1>2. ASSUME NEW x \in InitialCounts, disk' = [disk EXCEPT !.count = x]
        PROVE  disk' \in File /\ disk'.id = disk.id
    <2>1. x \in Opt(Int)
      BY DEF Opt, PlanningRetryAssumption
    <2> QED
      BY <1>0, <1>2, <2>1 DEF File
  <1>3. ASSUME NEW x \in {"agent", "human"}, disk' = [disk EXCEPT !.assignee = x]
        PROVE  disk' \in File /\ disk'.id = disk.id
    BY <1>0, <1>3 DEF File, Assignees
  <1>4. ASSUME disk' = [disk EXCEPT !.note = TRUE]
        PROVE  disk' \in File /\ disk'.id = disk.id
    BY <1>0, <1>4 DEF File
  <1>5. \/ \E x \in Phases : disk' = [disk EXCEPT !.phase = x]
        \/ \E x \in InitialCounts : disk' = [disk EXCEPT !.count = x]
        \/ \E x \in {"agent", "human"} : disk' = [disk EXCEPT !.assignee = x]
        \/ disk' = [disk EXCEPT !.note = TRUE]
    BY DEF OperatorEdit
  <1> QED
    BY <1>1, <1>2, <1>3, <1>4, <1>5

\* A run delivers a result that carries the identifier and counter it started from.
LEMMA DeliverStep ==
    ASSUME TypeOK, NEW job \in jobs, AgentDeliver(job)
    PROVE  \E r \in Result : /\ topic' = topic \cup {r}
                             /\ r.job = job.job /\ r.id = job.file.id /\ r.count = job.file.count
  <1>1. job.job \in Nat /\ job.file \in File
    BY DEF TypeOK
  <1>2. /\ job.file.id \in Nat /\ job.file.count \in Opt(Int) /\ job.file.assignee \in Assignees
        /\ job.file.phase \in Phases /\ job.file.lines \in SUBSET Line
    BY <1>1 DEF File
  <1> DEFINE Outcomes ==
             {[failed |-> TRUE,  phase |-> Absent,           assignee |-> job.file.assignee],
              [failed |-> TRUE,  phase |-> job.file.phase,   assignee |-> job.file.assignee],
              [failed |-> TRUE,  phase |-> "human_review",   assignee |-> ""],
              [failed |-> FALSE, phase |-> "execution",      assignee |-> job.file.assignee],
              [failed |-> FALSE, phase |-> "human_review",   assignee |-> job.file.assignee]}
             Out(o, l) == [job |-> job.job, id |-> job.file.id, failed |-> o.failed,
                           phase |-> o.phase, count |-> job.file.count,
                           assignee |-> o.assignee, lines |-> l]
  <1>3. PICK o \in Outcomes, l \in {job.file.lines, Absent} : topic' = topic \cup {Out(o, l)}
    <2> DEFINE Rest == /\ jobs' = jobs \ {job}
                       /\ UNCHANGED <<disk, minted, calls, now, retries, escalations, comments,
                                      clobbered, stale, spawns, edits, faults>>
    <2>1. \E o \in Outcomes, l \in {job.file.lines, Absent} :
             topic' = topic \cup {Out(o, l)} /\ Rest
      BY DEF AgentDeliver
    <2> HIDE DEF Outcomes, Out, Rest
    <2> QED
      BY <2>1
  <1>4. o.failed \in BOOLEAN /\ o.phase \in Opt(Phases) /\ o.assignee \in Assignees
    <2>1. /\ "human_review" \in Opt(Phases) /\ "execution" \in Opt(Phases)
          /\ Absent \in Opt(Phases) /\ job.file.phase \in Opt(Phases)
      BY <1>2 DEF Opt, Phases
    <2>2. "" \in Assignees
      BY DEF Assignees
    <2>3. CASE o = [failed |-> TRUE, phase |-> Absent, assignee |-> job.file.assignee]
      BY <1>2, <2>1, <2>3
    <2>4. CASE o = [failed |-> TRUE, phase |-> job.file.phase, assignee |-> job.file.assignee]
      BY <1>2, <2>1, <2>4
    <2>5. CASE o = [failed |-> TRUE, phase |-> "human_review", assignee |-> ""]
      BY <2>1, <2>2, <2>5
    <2>6. CASE o = [failed |-> FALSE, phase |-> "execution", assignee |-> job.file.assignee]
      BY <1>2, <2>1, <2>6
    <2>7. CASE o = [failed |-> FALSE, phase |-> "human_review", assignee |-> job.file.assignee]
      BY <1>2, <2>1, <2>7
    <2> QED
      BY <2>3, <2>4, <2>5, <2>6, <2>7
  <1>5. l \in Opt(SUBSET Line)
    BY <1>2 DEF Opt
  <1>6. Out(o, l) \in Result
    BY <1>1, <1>2, <1>4, <1>5 DEF Result
  <1>7. Out(o, l).job = job.job /\ Out(o, l).id = job.file.id /\ Out(o, l).count = job.file.count
    OBVIOUS
  <1> HIDE DEF Out
  <1> QED
    BY <1>3, <1>6, <1>7

\* Type correctness is kept by the consumers, whose calls keep their shape.
LEMMA ConsumerTyped ==
    ASSUME PlanningRetryAssumption, TypeOK, Numbered, CallShape, NEW p \in Parts, Consumer(p)
    PROVE  TypeOK'
  <1>0. calls \in [Parts -> Call \cup {Idle}] /\ disk \in File /\ minted \in Nat /\ disk.id \in Nat
    BY DEF TypeOK, Parts, File
  <1>1. ASSUME NEW req \in topic, Handle(p, req) PROVE TypeOK'
    <2>1. calls' \in [Parts -> Call \cup {Idle}]
      BY <1>1, HandleStep
    <2> QED
      BY <1>1, <2>1 DEF Handle, TypeOK, Parts
  <1>2. CASE GateRetry(p)
    <2>1. Busy(p) /\ calls[p] \in Call
      BY <1>2, CallTyped DEF GateRetry
    <2> DEFINE out == RetryModify(disk, calls[p])
    <2>2. out \in File /\ (out.id = minted + 1 \/ out = disk)
      BY <1>0, <2>1, RetryTyped
    <2>3. Modify(p, out, FALSE)
      BY <1>2 DEF GateRetry
    <2>4. minted' = IF out.id > minted THEN out.id ELSE minted
      BY <1>2 DEF GateRetry
    <2> HIDE DEF out
    <2>5. calls' \in [Parts -> Call \cup {Idle}]
      BY <2>1, <2>2, <2>3, ModifyStep
    <2>6. minted' \in Nat /\ disk.id <= minted'
      BY <1>0, <2>2, <2>4 DEF TypeOK
    <2> QED
      BY <1>2, <2>5, <2>6 DEF GateRetry, TypeOK, Parts
  <1>3. CASE GateEscalate(p)
    <2>1. Busy(p) /\ calls[p] \in Call
      BY <1>3, CallTyped DEF GateEscalate
    <2>2. EscalationModify(disk, calls[p]) \in File /\ FirstEscalation(disk) \in BOOLEAN
      BY <1>0, <2>1, EscalateTyped DEF FirstEscalation
    <2>3. calls' \in [Parts -> Call \cup {Idle}]
      BY <1>3, <2>1, <2>2, ModifyStep DEF GateEscalate
    <2> QED
      BY <1>3, <2>3 DEF GateEscalate, TypeOK, Parts
  <1>4. CASE WriteResult(p)
    <2>1. Busy(p) /\ calls[p] \in Call
      BY <1>4, CallTyped DEF WriteResult
    <2> DEFINE out == IF Carries(disk, calls[p].req) THEN ResultModify(disk, calls[p].req)
                      ELSE disk
    <2>2. out \in File
      BY <1>0, <2>1, ResultTyped, CallParts
    <2>3. Modify(p, out, FALSE)
      BY <1>4 DEF WriteResult
    <2> HIDE DEF out
    <2>4. calls' \in [Parts -> Call \cup {Idle}]
      BY <2>1, <2>2, <2>3, ModifyStep
    <2> QED
      BY <1>4, <2>4 DEF WriteResult, TypeOK, Parts
  <1>5. CASE PostAnswered(p)
    <2>1. Posting(p) /\ Store(calls[p]) /\ calls[p] \in Call
      BY <1>5, CallTyped DEF PostAnswered, Posting
    <2>2. calls' \in [Parts -> Call \cup {Idle}]
      <3>1. [calls[p] EXCEPT !.pc = "stored"] \in Call
        BY <2>1 DEF Call
      <3> QED
        BY <1>0, <1>5, <3>1 DEF PostAnswered
    <2> QED
      BY <1>5, <2>1, <2>2, StoreStep DEF PostAnswered, TypeOK, Parts
  <1>6. CASE PostFailed(p)
    <2>1. Posting(p) /\ calls[p] \in Call
      BY <1>6, CallTyped DEF PostFailed, Posting
    <2>2. calls' \in [Parts -> Call \cup {Idle}]
      BY <1>6, FailStep
    <2>3. faults' \in 0 .. MaxFaults
      BY <1>6 DEF PostFailed, TypeOK, PlanningRetryAssumption
    <2>4. CASE Store(calls[p])
      BY <1>6, <2>1, <2>2, <2>3, <2>4, StoreStep DEF PostFailed, TypeOK, Parts
    <2>5. CASE UNCHANGED <<disk, clobbered, retries, escalations>>
      BY <1>6, <2>2, <2>3, <2>5 DEF PostFailed, TypeOK, Parts
    <2> QED
      BY <1>6, <2>4, <2>5 DEF PostFailed
  <1>7. CASE PostComment(p)
    <2>1. calls[p] \in Call
      BY <1>7, CallTyped DEF PostComment
    <2>2. calls' \in [Parts -> Call \cup {Idle}]
      <3>1. [calls[p] EXCEPT !.first = FALSE] \in Call
        BY <2>1 DEF Call
      <3> QED
        BY <1>0, <1>7, <3>1 DEF PostComment
    <2>3. faults' \in 0 .. MaxFaults /\ comments' \in Nat
      <3>1. faults \in 0 .. MaxFaults /\ comments \in Nat /\ MaxFaults \in Nat
        BY DEF TypeOK, PlanningRetryAssumption
      <3>2. \/ comments' = comments + 1 /\ faults' = faults
            \/ faults < MaxFaults /\ faults' = faults + 1 /\ comments' = comments
        BY <1>7 DEF PostComment
      <3> QED
        BY <3>1, <3>2
    <2> QED
      BY <1>7, <2>2, <2>3 DEF PostComment, TypeOK, Parts
  <1>8. CASE CommitOffset(p)
    <2>1. calls' \in [Parts -> Call \cup {Idle}]
      BY <1>0, <1>8 DEF CommitOffset
    <2> QED
      BY <1>8, <2>1 DEF CommitOffset, TypeOK, Parts
  <1> QED
    BY <1>1, <1>2, <1>3, <1>4, <1>5, <1>6, <1>7, <1>8 DEF Consumer

\* Type correctness is kept by everybody else.
LEMMA OthersTyped ==
    ASSUME PlanningRetryAssumption, TypeOK,
           \/ ExecutorSpawn \/ OperatorEdit \/ Tick \/ Crash
           \/ \E job \in jobs : AgentDeliver(job)
    PROVE  TypeOK'
  <1>0. calls \in [Parts -> Call \cup {Idle}] /\ disk \in File /\ minted \in Nat
    BY DEF TypeOK, Parts
  <1>1. CASE ExecutorSpawn
    BY <1>1 DEF ExecutorSpawn, TypeOK, PlanningRetryAssumption
  <1>2. CASE OperatorEdit
    <2>1. edits' \in 0 .. MaxEdits
      BY <1>2 DEF OperatorEdit, TypeOK, PlanningRetryAssumption
    <2>2. disk' \in File /\ disk'.id = disk.id
      BY <1>2, EditStep
    <2> QED
      BY <1>2, <2>1, <2>2 DEF OperatorEdit, TypeOK
  <1>3. CASE Tick
    BY <1>3 DEF Tick, TypeOK, PlanningRetryAssumption
  <1>4. CASE Crash
    BY <1>0, <1>4 DEF Crash, TypeOK, PlanningRetryAssumption
  <1>5. ASSUME NEW job \in jobs, AgentDeliver(job) PROVE TypeOK'
    <2>1. topic' \in SUBSET Result
      BY <1>5, DeliverStep DEF TypeOK
    <2>2. jobs' \in SUBSET [job : Nat, file : File]
      BY <1>5 DEF AgentDeliver, TypeOK
    <2>3. UNCHANGED <<disk, minted, calls, now, retries, escalations, comments,
                      clobbered, stale, spawns, edits, faults>>
      BY <1>5 DEF AgentDeliver
    <2> QED
      BY <2>1, <2>2, <2>3 DEF TypeOK
  <1> QED
    BY <1>1, <1>2, <1>3, <1>4, <1>5

-----------------------------------------------------------------------------
(* What is under way. *)

\* The members of Work and Versions.
LEMMA WorkHas ==
    /\ \A j \in jobs : <<j.job, j.file.id>> \in Work /\ <<j.file.id, j.file.count>> \in Versions
    /\ \A q \in topic : <<q.job, q.id>> \in Work /\ <<q.id, q.count>> \in Versions
    /\ \A p \in Parts : Busy(p) =>
         /\ <<calls[p].req.job, calls[p].req.id>> \in Work
         /\ <<calls[p].req.id, calls[p].req.count>> \in Versions
         /\ <<calls[p].base.id, calls[p].base.count>> \in Versions
         /\ <<calls[p].out.id, calls[p].out.count>> \in Versions
    /\ <<disk.id, disk.count>> \in Versions
  BY DEF Work, Versions

\* Runs and identifiers are numbers.
LEMMA WorkTyped ==
    ASSUME TypeOK, NEW w \in Work
    PROVE  w[1] \in Nat /\ w[2] \in Nat
  <1>1. ASSUME NEW j \in jobs, w = <<j.job, j.file.id>> PROVE w[1] \in Nat /\ w[2] \in Nat
    BY <1>1 DEF TypeOK, File
  <1>2. ASSUME NEW q \in topic, w = <<q.job, q.id>> PROVE w[1] \in Nat /\ w[2] \in Nat
    BY <1>2 DEF TypeOK, Result
  <1>3. ASSUME NEW p \in Parts, Busy(p), w = <<calls[p].req.job, calls[p].req.id>>
        PROVE  w[1] \in Nat /\ w[2] \in Nat
    BY <1>3, CallTyped, CallParts
  <1> QED
    BY <1>1, <1>2, <1>3 DEF Work

\* So are the identifiers of the pairs.
LEMMA VersionsTyped ==
    ASSUME TypeOK, NEW v \in Versions
    PROVE  v[1] \in Nat /\ v[2] \in Opt(Int)
  <1>1. ASSUME NEW j \in jobs, v = <<j.file.id, j.file.count>>
        PROVE  v[1] \in Nat /\ v[2] \in Opt(Int)
    BY <1>1 DEF TypeOK, File
  <1>2. ASSUME NEW q \in topic, v = <<q.id, q.count>> PROVE v[1] \in Nat /\ v[2] \in Opt(Int)
    BY <1>2 DEF TypeOK, Result
  <1>3. ASSUME NEW p \in Parts, Busy(p),
               v \in {<<calls[p].req.id, calls[p].req.count>>,
                      <<calls[p].base.id, calls[p].base.count>>,
                      <<calls[p].out.id, calls[p].out.count>>}
        PROVE  v[1] \in Nat /\ v[2] \in Opt(Int)
    BY <1>3, CallTyped, CallParts
  <1>4. ASSUME v = <<disk.id, disk.count>> PROVE v[1] \in Nat /\ v[2] \in Opt(Int)
    BY <1>4 DEF TypeOK, File
  <1> QED
    BY <1>1, <1>2, <1>3, <1>4 DEF Versions

\* What a step may leave under way.
LEMMA WorkWithin ==
    ASSUME NEW W,
           \A j \in jobs' : <<j.job, j.file.id>> \in W,
           \A q \in topic' : <<q.job, q.id>> \in W,
           \A p \in Parts : calls'[p] # Idle => <<calls'[p].req.job, calls'[p].req.id>> \in W
    PROVE  Work' \subseteq W
  BY DEF Work, Busy, Parts

\* What a step may leave as pairs of identifier and counter.
LEMMA VersionsWithin ==
    ASSUME NEW W, <<disk'.id, disk'.count>> \in W,
           \A j \in jobs' : <<j.file.id, j.file.count>> \in W,
           \A q \in topic' : <<q.id, q.count>> \in W,
           \A p \in Parts : calls'[p] # Idle =>
               /\ <<calls'[p].req.id, calls'[p].req.count>> \in W
               /\ <<calls'[p].base.id, calls'[p].base.count>> \in W
               /\ <<calls'[p].out.id, calls'[p].out.count>> \in W
    PROVE  Versions' \subseteq W
  <1> DEFINE Live == {q \in Parts : calls'[q] # Idle}
             Own(p) == {<<calls'[p].req.id, calls'[p].req.count>>,
                        <<calls'[p].base.id, calls'[p].base.count>>,
                        <<calls'[p].out.id, calls'[p].out.count>>}
  <1>1. \A p \in Live : Own(p) \subseteq W
    OBVIOUS
  <1>2. Versions' = {<<disk'.id, disk'.count>>} \cup {<<j.file.id, j.file.count>> : j \in jobs'}
                    \cup {<<q.id, q.count>> : q \in topic'} \cup UNION {Own(p) : p \in Live}
    BY DEF Versions, Busy, Parts
  <1> HIDE DEF Live, Own
  <1>3. UNION {Own(p) : p \in Live} \subseteq W
    BY <1>1
  <1> QED
    BY <1>2, <1>3

\* A step that stores nothing and mints nothing: it leaves the identifier of
\* the file, starts at most one run, and a call that then posts or is about to
\* has the file it read now or was already there.
Quiet ==
    /\ disk'.id = disk.id /\ UNCHANGED <<minted, retries, clobbered>>
    /\ \/ spawns' = spawns /\ Work' \subseteq Work
       \/ spawns' = spawns + 1 /\ Work' \subseteq Work \cup {<<spawns, disk.id>>}
    /\ edits' = 0 /\ ~stale' =>
         edits = 0 /\ ~stale /\ disk'.count = disk.count /\ Versions' \subseteq Versions
    /\ \A v \in Versions' : v[1] <= minted
    /\ \A p \in Parts : Retrying(p)' =>
         /\ Retrying(p) /\ calls'[p].req = calls[p].req /\ calls'[p].count = calls[p].count
         /\ calls'[p].base = calls[p].base /\ calls'[p].out = calls[p].out
    /\ \A p \in Parts : Posting(p)' =>
         (Posting(p) /\ calls'[p].base = calls[p].base) \/ calls'[p].base.id = disk.id
    /\ \A p \in Parts : calls'[p].pc = "gate" =>
         \/ calls[p].pc = "gate" /\ calls'[p].req = calls[p].req
         \/ /\ calls'[p].req.id \in {disk.id, Previous}
            /\ <<calls'[p].req.job, calls'[p].req.id>> \in Work

\* What a quiet step keeps of the invariant.
LEMMA QuietKeeps ==
    ASSUME PlanningRetryAssumption, RetryInv, Quiet
    PROVE  /\ Numbered' /\ RunIds' /\ FreshIds' /\ Fence' /\ Undisturbed' /\ CountFollowsId'
           /\ OneRetryPerFailure' /\ RetryBudget'
  <1> USE DEF RetryInv
  <1>0. spawns \in Nat /\ minted \in Nat /\ disk.id \in Nat /\ disk.id <= minted
    BY DEF TypeOK, File
  <1>1. Numbered'
    <2>1. ASSUME NEW w \in Work' PROVE w[1] < spawns' /\ w[2] <= minted'
      <3>1. CASE w \in Work /\ (spawns' = spawns \/ spawns' = spawns + 1)
        <4>1. w[1] < spawns /\ w[2] <= minted
          BY <3>1 DEF Numbered
        <4>2. w[1] \in Int
          BY <3>1, WorkTyped
        <4> QED
          BY <1>0, <3>1, <4>1, <4>2 DEF Quiet
      <3>2. CASE spawns' = spawns + 1 /\ w = <<spawns, disk.id>>
        BY <1>0, <3>2 DEF Quiet
      <3> QED
        BY <3>1, <3>2 DEF Quiet
    <2>2. ASSUME NEW r \in retries'
          PROVE  r.job < spawns' /\ r.id \in 1 .. minted' /\ r.count \in 1 .. MaxRetries
      <3>1. r \in retries /\ r.job \in Nat
        BY DEF Quiet, TypeOK
      <3> QED
        BY <1>0, <3>1 DEF Quiet, Numbered
    <2>3. \A v \in Versions' : v[1] <= minted'
      BY DEF Quiet
    <2> QED
      BY <2>1, <2>2, <2>3 DEF Numbered
  <1>2. FreshIds'
    <2>1. ASSUME NEW p \in Parts, Retrying(p)'
          PROVE  /\ Retrying(p) /\ calls'[p].out = calls[p].out
                 /\ Entry(calls[p])' = Entry(calls[p])
      BY <2>1 DEF Quiet, Entry
    <2>2. ASSUME NEW p \in Parts, Retrying(p)', NEW q \in Parts, Retrying(q)',
                 calls'[q].out.id = calls'[p].out.id
          PROVE  q = p
      BY <2>1, <2>2 DEF FreshIds
    <2>3. ASSUME NEW p \in Parts, Retrying(p)', disk'.id = calls'[p].out.id
          PROVE  Entry(calls[p])' \in retries'
      BY <2>1, <2>3 DEF FreshIds, Quiet
    <2>4. ASSUME NEW p \in Parts, Retrying(p)', NEW q \in Parts, Posting(q)',
                 calls'[q].base.id = calls'[p].out.id
          PROVE  Entry(calls[p])' \in retries'
      BY <2>1, <2>4 DEF FreshIds, Quiet
    <2> QED
      BY <2>2, <2>3, <2>4 DEF FreshIds, Parts
  <1>3. Fence'
    <2>1. ASSUME NEW w \in Work', NEW r \in retries', w[1] = r.job PROVE w[2] < r.id
      <3>1. r \in retries
        BY DEF Quiet
      <3>2. CASE w \in Work
        BY <2>1, <3>1, <3>2 DEF Fence
      <3>3. CASE w = <<spawns, disk.id>>
        BY <1>0, <2>1, <3>1, <3>3 DEF Numbered, TypeOK
      <3> QED
        BY <3>2, <3>3 DEF Quiet
    <2>2. ASSUME NEW w \in Work', NEW p \in Parts, Retrying(p)', w[1] = calls'[p].req.job
          PROVE  w[2] < calls'[p].out.id
      <3>1. Retrying(p) /\ calls'[p].req = calls[p].req /\ calls'[p].out = calls[p].out
        BY <2>2 DEF Quiet
      <3>2. CASE w \in Work
        BY <2>2, <3>1, <3>2 DEF Fence
      <3>3. CASE w = <<spawns, disk.id>>
        <4>1. Busy(p)
          BY <3>1, CallTyped DEF Retrying
        <4>2. calls[p].req.job < spawns /\ calls[p].req.job \in Nat
          BY <4>1, WorkHas, CallTyped, CallParts DEF Numbered
        <4> QED
          BY <1>0, <2>2, <3>1, <3>3, <4>2
      <3> QED
        BY <3>2, <3>3 DEF Quiet
    <2> QED
      BY <2>1, <2>2 DEF Fence, Parts
  <1>4. Undisturbed'
    <2>1. ASSUME ~clobbered', NEW p \in Parts, calls'[p].pc = "gate" \/ Retrying(p)',
                 calls'[p].req.id # Previous, NEW r \in retries', r.job = calls'[p].req.job
          PROVE  Retrying(p)' /\ r = Entry(calls[p])'
      <3>1. ~clobbered /\ r \in retries /\ r.id \in Nat /\ r.id <= disk.id
        BY <2>1 DEF Quiet, Undisturbed, TypeOK
      <3>2. CASE Retrying(p)'
        <4>1. Retrying(p) /\ Entry(calls[p])' = Entry(calls[p]) /\ calls'[p].req = calls[p].req
          BY <3>2 DEF Quiet, Entry
        <4> QED
          BY <2>1, <3>1, <3>2, <4>1 DEF Undisturbed
      <3>3. CASE calls[p].pc = "gate" /\ calls'[p].req = calls[p].req
        <4>1. Retrying(p)
          BY <2>1, <3>1, <3>3 DEF Undisturbed
        <4> QED
          BY <3>3, <4>1 DEF Retrying, Posting
      <3>4. CASE calls'[p].req.id = disk.id /\ <<calls'[p].req.job, calls'[p].req.id>> \in Work
        <4>1. calls'[p].req.id < r.id
          BY <2>1, <3>1, <3>4 DEF Fence
        <4> QED
          BY <1>0, <3>1, <3>4, <4>1
      <3> QED
        BY <2>1, <3>2, <3>3, <3>4 DEF Quiet
    <2>2. ~clobbered' => \A r \in retries' : r.id <= disk'.id
      BY DEF Undisturbed, Quiet
    <2> QED
      BY <2>1, <2>2 DEF Undisturbed, Parts
  <1>5. CountFollowsId'
    BY DEF CountFollowsId, Quiet
  <1>6. OneRetryPerFailure'
    BY DEF OneRetryPerFailure, Quiet
  <1>7. RetryBudget'
    BY DEF RetryBudget, Quiet
  <1>8. RunIds'
    <2>1. ASSUME NEW v \in Work', NEW w \in Work', v[1] = w[1] PROVE v[2] = w[2]
      <3>1. ASSUME NEW u \in Work PROVE u[1] # spawns
        BY <1>0, WorkTyped DEF Numbered
      <3>2. CASE v \in Work /\ w \in Work
        BY <2>1, <3>2 DEF RunIds
      <3>3. CASE v = <<spawns, disk.id>> /\ w = <<spawns, disk.id>>
        BY <3>3
      <3> QED
        BY <2>1, <3>1, <3>2, <3>3 DEF Quiet
    <2> QED
      BY <2>1 DEF RunIds
  <1> QED
    BY <1>1, <1>2, <1>3, <1>4, <1>5, <1>6, <1>7, <1>8

-----------------------------------------------------------------------------
(* The steps that store nothing and mint nothing. *)

\* Everything there is is numbered.
LEMMA PairsNumbered ==
    ASSUME RetryInv, Versions' \subseteq Versions
    PROVE  \A v \in Versions' : v[1] <= minted
  BY DEF RetryInv, Numbered

\* The executor, the agents, the operator and the clock leave the calls alone.
LEMMA OutsidersQuiet ==
    ASSUME PlanningRetryAssumption, RetryInv,
           \/ ExecutorSpawn \/ OperatorEdit \/ Tick
           \/ \E job \in jobs : AgentDeliver(job)
    PROVE  Quiet /\ CallShape'
  <1>0. calls' = calls
    BY DEF ExecutorSpawn, OperatorEdit, Tick, AgentDeliver
  <1>1. CallShape'
    BY <1>0 DEF RetryInv, CallShape, Busy, Posting, Retrying, Parts
  <1>2. /\ \A p \in Parts : Retrying(p)' =>
             /\ Retrying(p) /\ calls'[p].req = calls[p].req /\ calls'[p].count = calls[p].count
             /\ calls'[p].base = calls[p].base /\ calls'[p].out = calls[p].out
        /\ \A p \in Parts : Posting(p)' => Posting(p) /\ calls'[p].base = calls[p].base
        /\ \A p \in Parts : calls'[p].pc = "gate" =>
             calls[p].pc = "gate" /\ calls'[p].req = calls[p].req
    BY <1>0 DEF Retrying, Posting
  <1>3. \A p \in Parts : calls'[p] # Idle =>
             /\ <<calls'[p].req.job, calls'[p].req.id>> \in Work
             /\ <<calls'[p].req.id, calls'[p].req.count>> \in Versions
             /\ <<calls'[p].base.id, calls'[p].base.count>> \in Versions
             /\ <<calls'[p].out.id, calls'[p].out.count>> \in Versions
    BY <1>0, WorkHas DEF Busy
  <1>4. TypeOK /\ edits \in Nat
    BY DEF RetryInv, TypeOK, PlanningRetryAssumption
  <1>5. CASE ExecutorSpawn
    <2>1. /\ jobs' = jobs \cup {[job |-> spawns, file |-> disk]} /\ topic' = topic
          /\ spawns' = spawns + 1 /\ UNCHANGED <<disk, minted, retries, clobbered, stale, edits>>
      BY <1>5 DEF ExecutorSpawn
    <2>2. \A j \in jobs' : /\ <<j.job, j.file.id>> \in Work \cup {<<spawns, disk.id>>}
                           /\ <<j.file.id, j.file.count>> \in Versions
      <3>1. ASSUME NEW j \in jobs
            PROVE  <<j.job, j.file.id>> \in Work /\ <<j.file.id, j.file.count>> \in Versions
        BY WorkHas
      <3> DEFINE new == [job |-> spawns, file |-> disk]
      <3>2. new.job = spawns /\ new.file = disk
        OBVIOUS
      <3>3. \A j \in jobs' : j \in jobs \/ j = new
        BY <2>1
      <3> HIDE DEF new
      <3>4. <<disk.id, disk.count>> \in Versions
        BY WorkHas
      <3> QED
        BY <3>1, <3>2, <3>3, <3>4
    <2>3. Work' \subseteq Work \cup {<<spawns, disk.id>>}
      <3> DEFINE W == Work \cup {<<spawns, disk.id>>}
      <3>1. \A q \in topic' : <<q.job, q.id>> \in W
        BY <2>1, WorkHas
      <3>2. \A p \in Parts : calls'[p] # Idle => <<calls'[p].req.job, calls'[p].req.id>> \in W
        BY <1>3
      <3>3. \A j \in jobs' : <<j.job, j.file.id>> \in W
        BY <2>2
      <3> HIDE DEF W
      <3>4. Work' \subseteq W
        BY <3>1, <3>2, <3>3, WorkWithin
      <3> QED
        BY <3>4 DEF W
    <2>4. Versions' \subseteq Versions
      BY <1>3, <2>1, <2>2, WorkHas, VersionsWithin
    <2> QED
      BY <1>1, <1>2, <2>1, <2>3, <2>4, PairsNumbered DEF Quiet
  <1>6. CASE OperatorEdit
    <2>1. /\ disk'.id = disk.id /\ edits' # 0
          /\ UNCHANGED <<jobs, topic, spawns, minted, retries, clobbered, stale>>
      BY <1>4, <1>6, EditStep DEF OperatorEdit
    <2>2. Work' \subseteq Work
      BY <1>3, <2>1, WorkHas, WorkWithin
    <2>3. Versions' \subseteq Versions \cup {<<disk.id, disk'.count>>}
      <3> DEFINE W == Versions \cup {<<disk.id, disk'.count>>}
      <3>1. <<disk'.id, disk'.count>> \in W
        BY <2>1
      <3>2. \A j \in jobs' : <<j.file.id, j.file.count>> \in W
        BY <2>1, WorkHas
      <3>3. \A q \in topic' : <<q.id, q.count>> \in W
        BY <2>1, WorkHas
      <3>4. \A p \in Parts : calls'[p] # Idle =>
               /\ <<calls'[p].req.id, calls'[p].req.count>> \in W
               /\ <<calls'[p].base.id, calls'[p].base.count>> \in W
               /\ <<calls'[p].out.id, calls'[p].out.count>> \in W
        BY <1>3
      <3> HIDE DEF W
      <3>5. Versions' \subseteq W
        BY <3>1, <3>2, <3>3, <3>4, VersionsWithin
      <3> QED
        BY <3>5 DEF W
    <2>4. \A v \in Versions' : v[1] <= minted
      BY <2>3 DEF RetryInv, Numbered, TypeOK
    <2> QED
      BY <1>1, <1>2, <2>1, <2>2, <2>4 DEF Quiet
  <1>7. CASE Tick
    <2>1. UNCHANGED <<disk, jobs, topic, spawns, edits, minted, retries, clobbered, stale>>
      BY <1>7 DEF Tick
    <2>2. Work' \subseteq Work
      BY <1>3, <2>1, WorkHas, WorkWithin
    <2>3. Versions' \subseteq Versions
      BY <1>3, <2>1, WorkHas, VersionsWithin
    <2> QED
      BY <1>1, <1>2, <2>1, <2>2, <2>3, PairsNumbered DEF Quiet
  <1>8. ASSUME NEW job \in jobs, AgentDeliver(job) PROVE Quiet /\ CallShape'
    <2>1. PICK r \in Result : /\ topic' = topic \cup {r}
                              /\ r.job = job.job /\ r.id = job.file.id /\ r.count = job.file.count
      BY <1>4, <1>8, DeliverStep
    <2>2. jobs' \subseteq jobs /\ UNCHANGED <<disk, spawns, edits, minted, retries, clobbered, stale>>
      BY <1>8 DEF AgentDeliver
    <2>3. \A q \in topic' : <<q.job, q.id>> \in Work /\ <<q.id, q.count>> \in Versions
      BY <2>1, WorkHas
    <2>4. Work' \subseteq Work
      BY <1>3, <2>2, <2>3, WorkHas, WorkWithin
    <2>5. Versions' \subseteq Versions
      BY <1>3, <2>2, <2>3, WorkHas, VersionsWithin
    <2> QED
      BY <1>1, <1>2, <2>2, <2>4, <2>5, PairsNumbered DEF Quiet
  <1> QED
    BY <1>5, <1>6, <1>7, <1>8

\* So does a crash, which drops them, a comment, a commit, and a POST that did
\* not reach the file.
LEMMA EndQuiet ==
    ASSUME PlanningRetryAssumption, RetryInv, NEW p \in Parts,
           \/ Crash \/ PostComment(p) \/ CommitOffset(p)
           \/ PostFailed(p) /\ UNCHANGED <<disk, clobbered, retries, escalations>>
    PROVE  Quiet /\ CallShape'
  <1>0. TypeOK /\ CallShape /\ calls \in [Parts -> Call \cup {Idle}]
    BY DEF RetryInv, TypeOK, Parts
  <1>1. /\ jobs' = jobs /\ topic' \subseteq topic
        /\ UNCHANGED <<disk, spawns, edits, minted, retries, clobbered, stale>>
    BY DEF Crash, PostComment, CommitOffset, PostFailed
  <1>2. \A q \in Parts :
          \/ calls'[q] = Idle
          \/ /\ Busy(q) /\ calls'[q].pc = calls[q].pc
             /\ calls'[q].req = calls[q].req /\ calls'[q].kind = calls[q].kind
             /\ calls'[q].count = calls[q].count /\ calls'[q].base = calls[q].base
             /\ calls'[q].out = calls[q].out /\ (calls'[q].first => calls[q].first)
    <2>1. CASE Crash
      BY <1>0, <2>1 DEF Crash
    <2>2. CASE PostComment(p)
      <3>1. calls[p] \in Call
        BY <1>0, <2>2, CallTyped DEF PostComment
      <3> DEFINE c == [calls[p] EXCEPT !.first = FALSE]
      <3>2. /\ c.pc = calls[p].pc /\ c.req = calls[p].req /\ c.kind = calls[p].kind
            /\ c.count = calls[p].count /\ c.base = calls[p].base /\ c.out = calls[p].out
            /\ ~c.first
        BY <3>1 DEF Call
      <3>3. calls' = [calls EXCEPT ![p] = c]
        BY <2>2 DEF PostComment
      <3> HIDE DEF c
      <3>4. Busy(p)
        BY <1>0, <3>1, CallTyped
      <3> QED
        BY <1>0, <3>2, <3>3, <3>4 DEF Busy
    <2>3. CASE CommitOffset(p)
      BY <1>0, <2>3 DEF CommitOffset, Busy
    <2>4. CASE PostFailed(p)
      <3>1. Busy(p) /\ calls[p].pc = "posting"
        BY <1>0, <2>4, CallTyped DEF PostFailed
      <3> QED
        BY <1>0, <2>4, <3>1, FailStep DEF Busy
    <2> QED
      BY <2>1, <2>2, <2>3, <2>4
  <1>3. \A q \in Parts : calls'[q].pc # "idle" => calls'[q] # Idle
    BY DEF Idle
  <1>4. CallShape'
    BY <1>0, <1>2, <1>3 DEF CallShape, Busy, Posting, Retrying, Parts
  <1>5. /\ \A q \in Parts : Retrying(q)' =>
             /\ Retrying(q) /\ calls'[q].req = calls[q].req /\ calls'[q].count = calls[q].count
             /\ calls'[q].base = calls[q].base /\ calls'[q].out = calls[q].out
        /\ \A q \in Parts : Posting(q)' => Posting(q) /\ calls'[q].base = calls[q].base
        /\ \A q \in Parts : calls'[q].pc = "gate" =>
             calls[q].pc = "gate" /\ calls'[q].req = calls[q].req
    BY <1>2, <1>3 DEF Retrying, Posting
  <1>6. \A q \in Parts : calls'[q] # Idle =>
             /\ <<calls'[q].req.job, calls'[q].req.id>> \in Work
             /\ <<calls'[q].req.id, calls'[q].req.count>> \in Versions
             /\ <<calls'[q].base.id, calls'[q].base.count>> \in Versions
             /\ <<calls'[q].out.id, calls'[q].out.count>> \in Versions
    BY <1>2, WorkHas
  <1>7. Work' \subseteq Work
    BY <1>1, <1>6, WorkHas, WorkWithin
  <1>8. Versions' \subseteq Versions
    BY <1>1, <1>6, WorkHas, VersionsWithin
  <1> QED
    BY <1>1, <1>4, <1>5, <1>7, <1>8, PairsNumbered DEF Quiet

\* A result is taken in the partition of its identifier, and by the gate when
\* the file carries it.
LEMMA HandleQuiet ==
    ASSUME PlanningRetryAssumption, RetryInv, NEW p \in Parts, NEW req \in topic, Handle(p, req)
    PROVE  Quiet /\ CallShape'
  <1>0. TypeOK /\ CallShape
    BY DEF RetryInv
  <1>1. req.id % Partitions = p /\ UNCHANGED <<disk, jobs, topic, spawns, edits, minted, retries, clobbered, stale>>
    BY DEF Handle
  <1> DEFINE c == calls'[p]
  <1>2. /\ \A q \in Parts : q # p => calls'[q] = calls[q]
        /\ c \in Call /\ c.req = req /\ c.base = disk /\ c.out = disk /\ c.first = FALSE
        /\ c.pc \in {"gate", "write"} /\ (c.pc = "gate" => req.id \in {disk.id, Previous})
        /\ (c.pc = "write" => c.kind = "result") /\ (c.kind = "retry" => c.count < MaxRetries)
    BY <1>0, HandleStep
  <1> HIDE DEF c
  <1>3. CallShape'
    <2>1. ASSUME NEW q \in Parts, calls'[q] # Idle PROVE
            /\ calls'[q].req.id % Partitions = q
            /\ calls'[q].pc = "gate" /\ calls'[q].kind = "retry" => calls'[q].count < MaxRetries
            /\ Retrying(q)' =>
                 /\ calls'[q].base.id < calls'[q].out.id
                 /\ calls'[q].out.count = calls'[q].count + 1
                 /\ Count(calls'[q].base.count) = calls'[q].count /\ calls'[q].count < MaxRetries
            /\ Posting(q)' /\ calls'[q].kind # "retry" => calls'[q].out.id = calls'[q].base.id
            /\ calls'[q].pc = "write" => calls'[q].kind = "result"
            /\ calls'[q].pc \in {"gate", "write"} => ~calls'[q].first
            /\ calls'[q].first => calls'[q].kind = "escalate"
      <3>1. CASE q = p
        BY <1>1, <1>2, <3>1 DEF c, Retrying, Posting
      <3>2. CASE q # p
        BY <1>0, <1>2, <2>1, <3>2 DEF CallShape, Busy, Retrying, Posting
      <3> QED
        BY <3>1, <3>2
    <2> QED
      BY <2>1 DEF CallShape, Busy, Parts, Count
  <1>4. \A q \in Parts : calls'[q] # Idle =>
             /\ <<calls'[q].req.job, calls'[q].req.id>> \in Work
             /\ <<calls'[q].req.id, calls'[q].req.count>> \in Versions
             /\ <<calls'[q].base.id, calls'[q].base.count>> \in Versions
             /\ <<calls'[q].out.id, calls'[q].out.count>> \in Versions
    BY <1>2, WorkHas DEF Busy, c
  <1>5. Work' \subseteq Work
    BY <1>1, <1>4, WorkHas, WorkWithin
  <1>6. Versions' \subseteq Versions
    BY <1>1, <1>4, WorkHas, VersionsWithin
  <1>7. /\ \A q \in Parts : Retrying(q)' =>
             /\ Retrying(q) /\ calls'[q].req = calls[q].req /\ calls'[q].count = calls[q].count
             /\ calls'[q].base = calls[q].base /\ calls'[q].out = calls[q].out
        /\ \A q \in Parts : Posting(q)' => Posting(q) /\ calls'[q].base = calls[q].base
        /\ \A q \in Parts : calls'[q].pc = "gate" =>
             \/ calls[q].pc = "gate" /\ calls'[q].req = calls[q].req
             \/ /\ calls'[q].req.id \in {disk.id, Previous}
                /\ <<calls'[q].req.job, calls'[q].req.id>> \in Work
    BY <1>2, WorkHas DEF Retrying, Posting, c
  <1> QED
    BY <1>1, <1>3, <1>5, <1>6, <1>7, PairsNumbered DEF Quiet

\* GET and closure keep the rest when the closure leaves the identifier.
LEMMA ModifyQuiet ==
    ASSUME PlanningRetryAssumption, RetryInv, NEW p \in Parts, Busy(p),
           NEW out \in File, NEW first \in BOOLEAN, Modify(p, out, first),
           out.id = disk.id, stale' \/ <<out.id, out.count>> \in Versions, stale => stale',
           calls[p].kind = "retry" => out = disk, first => calls[p].kind = "escalate",
           UNCHANGED <<disk, jobs, topic, spawns, edits, minted, retries, clobbered>>
    PROVE  Quiet /\ CallShape'
  <1>0. TypeOK /\ CallShape
    BY DEF RetryInv
  <1> DEFINE c == calls'[p]
  <1>1. /\ \A q \in Parts : q # p => calls'[q] = calls[q]
        /\ c \in Call /\ c.pc = (IF out = disk THEN "stored" ELSE "posting")
        /\ c.base = disk /\ c.out = out /\ c.first = first
        /\ c.req = calls[p].req /\ c.kind = calls[p].kind /\ c.count = calls[p].count
    BY <1>0, ModifyStep
  <1> HIDE DEF c
  <1>2. CallShape'
    <2>1. ASSUME NEW q \in Parts, calls'[q] # Idle PROVE
            /\ calls'[q].req.id % Partitions = q
            /\ calls'[q].pc = "gate" /\ calls'[q].kind = "retry" => calls'[q].count < MaxRetries
            /\ Retrying(q)' =>
                 /\ calls'[q].base.id < calls'[q].out.id
                 /\ calls'[q].out.count = calls'[q].count + 1
                 /\ Count(calls'[q].base.count) = calls'[q].count /\ calls'[q].count < MaxRetries
            /\ Posting(q)' /\ calls'[q].kind # "retry" => calls'[q].out.id = calls'[q].base.id
            /\ calls'[q].pc = "write" => calls'[q].kind = "result"
            /\ calls'[q].pc \in {"gate", "write"} => ~calls'[q].first
            /\ calls'[q].first => calls'[q].kind = "escalate"
      <3>1. CASE q = p
        <4>1. calls[p].req.id % Partitions = p
          BY <1>0 DEF CallShape
        <4> QED
          BY <1>1, <3>1, <4>1 DEF c, Retrying, Posting
      <3>2. CASE q # p
        BY <1>0, <1>1, <2>1, <3>2 DEF CallShape, Busy, Retrying, Posting
      <3> QED
        BY <3>1, <3>2
    <2> QED
      BY <2>1 DEF CallShape, Busy, Parts, Count
  <1> DEFINE W == Versions \cup {<<out.id, out.count>>}
  <1>3. \A q \in Parts : calls'[q] # Idle =>
             /\ <<calls'[q].req.job, calls'[q].req.id>> \in Work
             /\ <<calls'[q].req.id, calls'[q].req.count>> \in W
             /\ <<calls'[q].base.id, calls'[q].base.count>> \in W
             /\ <<calls'[q].out.id, calls'[q].out.count>> \in W
    BY <1>1, WorkHas DEF Busy, c
  <1>4. Work' \subseteq Work
    BY <1>3, WorkHas, WorkWithin
  <1>7. /\ <<disk'.id, disk'.count>> \in W
        /\ \A j \in jobs' : <<j.file.id, j.file.count>> \in W
        /\ \A q \in topic' : <<q.id, q.count>> \in W
    BY WorkHas
  <1>8. W \subseteq Versions \/ stale'
    OBVIOUS
  <1>9. \A v \in W : v[1] <= minted
    BY WorkHas DEF RetryInv, Numbered
  <1> HIDE DEF W
  <1>5. Versions' \subseteq W
    BY <1>3, <1>7, VersionsWithin
  <1>6. /\ \A q \in Parts : Retrying(q)' =>
             /\ Retrying(q) /\ calls'[q].req = calls[q].req /\ calls'[q].count = calls[q].count
             /\ calls'[q].base = calls[q].base /\ calls'[q].out = calls[q].out
        /\ \A q \in Parts : Posting(q)' =>
             (Posting(q) /\ calls'[q].base = calls[q].base) \/ calls'[q].base.id = disk.id
        /\ \A q \in Parts : calls'[q].pc = "gate" =>
             calls[q].pc = "gate" /\ calls'[q].req = calls[q].req
    BY <1>1 DEF Retrying, Posting, c
  <1> QED
    BY <1>2, <1>4, <1>5, <1>6, <1>8, <1>9 DEF Quiet

\* The closures that leave the identifier: an escalation, a result, and a retry
\* that finds the file changed.
LEMMA ClosuresQuiet ==
    ASSUME PlanningRetryAssumption, RetryInv, NEW p \in Parts,
           \/ GateEscalate(p) \/ WriteResult(p)
           \/ GateRetry(p) /\ ~StillRetries(disk, calls[p])
    PROVE  Quiet /\ CallShape'
  <1>0. TypeOK /\ CallShape /\ disk \in File /\ <<disk.id, disk.count>> \in Versions
    BY WorkHas DEF RetryInv, TypeOK
  <1>1. CASE GateEscalate(p)
    <2> DEFINE out == EscalationModify(disk, calls[p])
    <2>1. Busy(p) /\ calls[p] \in Call /\ calls[p].kind = "escalate"
      BY <1>0, <1>1, CallTyped DEF GateEscalate
    <2>2. /\ Modify(p, out, FirstEscalation(disk)) /\ FirstEscalation(disk) \in BOOLEAN
          /\ UNCHANGED <<disk, jobs, topic, spawns, edits, minted, retries, clobbered, stale>>
      BY <1>1 DEF GateEscalate, FirstEscalation
    <2>3. out \in File /\ out.id = disk.id /\ out.count = disk.count
      BY <1>0, <2>1, EscalateTyped
    <2> HIDE DEF out
    <2> QED
      BY <1>0, <2>1, <2>2, <2>3, ModifyQuiet
  <1>2. CASE WriteResult(p)
    <2> DEFINE req == calls[p].req
               out == IF Carries(disk, req) THEN ResultModify(disk, req) ELSE disk
    <2>1. Busy(p) /\ calls[p] \in Call /\ calls[p].kind = "result"
      BY <1>0, <1>2, CallTyped DEF WriteResult, CallShape
    <2>2. /\ Modify(p, out, FALSE) /\ stale' = (stale \/ req.id = Previous)
          /\ UNCHANGED <<disk, jobs, topic, spawns, edits, minted, retries, clobbered>>
      BY <1>2 DEF WriteResult
    <2>3. req \in Result /\ <<req.id, req.count>> \in Versions
      BY <2>1, CallParts, WorkHas
    <2> HIDE DEF req
    <2>4. out \in File /\ out.id = disk.id /\ (stale' \/ <<out.id, out.count>> \in Versions)
      <3>1. CASE Carries(disk, req)
        <4>1. out = ResultModify(disk, req) /\ req.id \in {disk.id, Previous}
          BY <3>1 DEF Carries
        <4>2. out \in File /\ out.id = disk.id /\ out.count \in {disk.count, req.count}
          BY <1>0, <2>3, <4>1, ResultTyped
        <4> HIDE DEF out
        <4> QED
          BY <1>0, <2>2, <2>3, <4>1, <4>2
      <3>2. CASE ~Carries(disk, req)
        BY <1>0, <3>2
      <3> QED
        BY <3>1, <3>2
    <2> HIDE DEF out
    <2> QED
      BY <2>1, <2>2, <2>4, ModifyQuiet
  <1>3. CASE GateRetry(p) /\ ~StillRetries(disk, calls[p])
    <2>1. Busy(p) /\ calls[p] \in Call
      BY <1>0, <1>3, CallTyped DEF GateRetry
    <2>2. RetryModify(disk, calls[p]) = disk
      BY <1>3 DEF RetryModify
    <2>3. Modify(p, disk, FALSE)
      BY <1>3, <2>2 DEF GateRetry
    <2>4. minted' = IF disk.id > minted THEN disk.id ELSE minted
      BY <1>3, <2>2 DEF GateRetry
    <2>5. minted' = minted
      BY <1>0, <2>4 DEF TypeOK, File
    <2>6. UNCHANGED <<disk, jobs, topic, spawns, edits, retries, clobbered, stale>>
      BY <1>3 DEF GateRetry
    <2> QED
      BY <1>0, <2>1, <2>3, <2>5, <2>6, ModifyQuiet
  <1> QED
    BY <1>1, <1>2, <1>3

-----------------------------------------------------------------------------
(* The step that mints an identifier. *)

\* A retry's closure: nobody else has the identifier it makes up.
LEMMA MintKeeps ==
    ASSUME PlanningRetryAssumption, RetryInv, NEW p \in Parts,
           GateRetry(p), StillRetries(disk, calls[p])
    PROVE  /\ Numbered' /\ RunIds' /\ CallShape' /\ FreshIds' /\ Fence' /\ Undisturbed'
           /\ CountFollowsId' /\ OneRetryPerFailure' /\ RetryBudget'
  <1> DEFINE c == calls'[p]
             out == RetryModify(disk, calls[p])
  <1>0. /\ TypeOK /\ Numbered /\ RunIds /\ CallShape /\ FreshIds /\ Fence /\ Undisturbed
        /\ CountFollowsId
        /\ disk \in File /\ disk.id \in Nat /\ minted \in Nat /\ disk.id <= minted
        /\ OneRetryPerFailure /\ RetryBudget
    BY DEF RetryInv, TypeOK, File
  <1>1. Busy(p) /\ calls[p] \in Call /\ calls[p].pc = "gate" /\ calls[p].kind = "retry"
    BY <1>0, CallTyped DEF GateRetry
  <1>2. /\ out \in File /\ out.id = minted + 1 /\ out.count = calls[p].count + 1
        /\ Count(disk.count) = calls[p].count
    BY <1>0, <1>1, RetryTyped
  <1>3. /\ Modify(p, out, FALSE) /\ minted' = (IF out.id > minted THEN out.id ELSE minted)
        /\ UNCHANGED <<disk, jobs, topic, spawns, edits, retries, clobbered, stale>>
    BY DEF GateRetry
  <1> HIDE DEF out
  <1>4. minted' = minted + 1 /\ out # disk
    BY <1>0, <1>2, <1>3
  <1>5. /\ \A q \in Parts : q # p => calls'[q] = calls[q]
        /\ c \in Call /\ c.pc = "posting" /\ c.kind = "retry"
        /\ c.base = disk /\ c.out = out /\ c.first = FALSE
        /\ c.req = calls[p].req /\ c.count = calls[p].count
    BY <1>0, <1>1, <1>2, <1>3, <1>4, ModifyStep
  <1>6. calls[p].req.id % Partitions = p /\ calls[p].count < MaxRetries
    BY <1>0, <1>1 DEF CallShape
  <1> HIDE DEF c
  <1>7. \A q \in Parts : q # p =>
          /\ Retrying(q)' <=> Retrying(q)
          /\ Posting(q)' <=> Posting(q)
    BY <1>5 DEF Retrying, Posting
  <1>8. Work' \subseteq Work
    <2>1. \A q \in Parts : calls'[q] # Idle => <<calls'[q].req.job, calls'[q].req.id>> \in Work
      BY <1>1, <1>5, WorkHas DEF Busy, c
    <2> QED
      BY <1>3, <2>1, WorkHas, WorkWithin
  <1>9. Versions' \subseteq Versions \cup {<<out.id, out.count>>}
    <2> DEFINE W == Versions \cup {<<out.id, out.count>>}
    <2>1. <<disk'.id, disk'.count>> \in W
      BY <1>3, WorkHas
    <2>2. \A j \in jobs' : <<j.file.id, j.file.count>> \in W
      BY <1>3, WorkHas
    <2>3. \A q \in topic' : <<q.id, q.count>> \in W
      BY <1>3, WorkHas
    <2>4. ASSUME NEW q \in Parts, calls'[q] # Idle
          PROVE  /\ <<calls'[q].req.id, calls'[q].req.count>> \in W
                 /\ <<calls'[q].base.id, calls'[q].base.count>> \in W
                 /\ <<calls'[q].out.id, calls'[q].out.count>> \in W
      <3>1. CASE q = p
        BY <1>1, <1>5, <3>1, WorkHas DEF c
      <3>2. CASE q # p
        BY <1>5, <2>4, <3>2, WorkHas DEF Busy
      <3> QED
        BY <3>1, <3>2
    <2> HIDE DEF W
    <2>5. Versions' \subseteq W
      BY <2>1, <2>2, <2>3, <2>4, VersionsWithin
    <2> QED
      BY <2>5 DEF W
  <1>10. \A q \in Parts : Posting(q) =>
           /\ calls[q].out.id <= minted /\ calls[q].base.id <= minted
           /\ calls[q].out.id \in Nat /\ calls[q].base.id \in Nat
    BY <1>0, WorkHas, CallTyped, CallParts DEF Numbered
  <1>11. CallShape'
    <2>1. ASSUME NEW q \in Parts, calls'[q] # Idle PROVE
            /\ calls'[q].req.id % Partitions = q
            /\ calls'[q].pc = "gate" /\ calls'[q].kind = "retry" => calls'[q].count < MaxRetries
            /\ Retrying(q)' =>
                 /\ calls'[q].base.id < calls'[q].out.id
                 /\ calls'[q].out.count = calls'[q].count + 1
                 /\ Count(calls'[q].base.count) = calls'[q].count /\ calls'[q].count < MaxRetries
            /\ Posting(q)' /\ calls'[q].kind # "retry" => calls'[q].out.id = calls'[q].base.id
            /\ calls'[q].pc = "write" => calls'[q].kind = "result"
            /\ calls'[q].pc \in {"gate", "write"} => ~calls'[q].first
            /\ calls'[q].first => calls'[q].kind = "escalate"
      <3>1. CASE q = p
        <4>1. disk.id < out.id
          BY <1>0, <1>2
        <4> QED
          BY <1>2, <1>5, <1>6, <3>1, <4>1 DEF c, Retrying, Posting
      <3>2. CASE q # p
        BY <1>0, <1>5, <2>1, <3>2 DEF CallShape, Busy, Retrying, Posting
      <3> QED
        BY <3>1, <3>2
    <2> QED
      BY <2>1 DEF CallShape, Busy, Parts, Count
  <1>12. Numbered'
    <2>1. \A w \in Work' : w[1] < spawns' /\ w[2] <= minted'
      BY <1>0, <1>3, <1>4, <1>8, WorkTyped DEF Numbered
    <2>2. \A r \in retries' : r.job < spawns' /\ r.id \in 1 .. minted' /\ r.count \in 1 .. MaxRetries
      BY <1>0, <1>3, <1>4 DEF Numbered
    <2>3. ASSUME NEW v \in Versions' PROVE v[1] <= minted'
      <3>1. CASE v \in Versions
        <4>1. v[1] <= minted /\ v[1] \in Int
          BY <1>0, <3>1, VersionsTyped DEF Numbered
        <4> QED
          BY <1>0, <1>4, <4>1
      <3>2. CASE v = <<out.id, out.count>>
        BY <1>0, <1>2, <1>4, <3>2
      <3> QED
        BY <1>9, <3>1, <3>2
    <2> QED
      BY <2>1, <2>2, <2>3 DEF Numbered
  <1>13. FreshIds'
    <2>1. ASSUME NEW q \in Parts, Retrying(q)', q # p
          PROVE  Retrying(q) /\ calls'[q] = calls[q] /\ Posting(q)
      BY <1>5, <1>7, <2>1 DEF Retrying
    <2>2. ASSUME NEW q \in Parts, Retrying(q)', NEW s \in Parts, Retrying(s)',
                 calls'[s].out.id = calls'[q].out.id
          PROVE  s = q
      <3>1. CASE q # p /\ s # p
        BY <1>0, <2>1, <2>2, <3>1 DEF FreshIds
      <3>2. CASE q = p /\ s # p
        BY <1>0, <1>2, <1>5, <1>10, <2>1, <2>2, <3>2 DEF c
      <3>3. CASE q # p /\ s = p
        BY <1>0, <1>2, <1>5, <1>10, <2>1, <2>2, <3>3 DEF c
      <3> QED
        BY <3>1, <3>2, <3>3
    <2>3. ASSUME NEW q \in Parts, Retrying(q)', disk'.id = calls'[q].out.id
          PROVE  Entry(calls[q])' \in retries'
      <3>1. CASE q # p
        BY <1>0, <1>3, <2>1, <2>3, <3>1 DEF FreshIds, Entry
      <3>2. CASE q = p
        BY <1>0, <1>2, <1>3, <1>5, <2>3, <3>2 DEF c
      <3> QED
        BY <3>1, <3>2
    <2>4. ASSUME NEW q \in Parts, Retrying(q)', NEW s \in Parts, Posting(s)',
                 calls'[s].base.id = calls'[q].out.id
          PROVE  Entry(calls[q])' \in retries'
      <3>1. CASE q # p /\ s # p
        BY <1>0, <1>3, <1>5, <1>7, <2>1, <2>4, <3>1 DEF FreshIds, Entry
      <3>2. CASE q # p /\ s = p
        BY <1>0, <1>3, <1>5, <2>1, <2>4, <3>2 DEF FreshIds, Entry, c
      <3>3. CASE q = p /\ s # p
        BY <1>0, <1>2, <1>5, <1>7, <1>10, <2>4, <3>3 DEF c
      <3>4. CASE q = p /\ s = p
        BY <1>0, <1>2, <1>5, <2>4, <3>4 DEF c
      <3> QED
        BY <3>1, <3>2, <3>3, <3>4
    <2> QED
      BY <2>2, <2>3, <2>4 DEF FreshIds, Parts
  <1>14. Fence'
    <2>1. ASSUME NEW w \in Work', NEW r \in retries', w[1] = r.job PROVE w[2] < r.id
      BY <1>0, <1>3, <1>8, <2>1 DEF Fence
    <2>2. ASSUME NEW w \in Work', NEW q \in Parts, Retrying(q)', w[1] = calls'[q].req.job
          PROVE  w[2] < calls'[q].out.id
      <3>1. CASE q = p
        <4>1. w[2] <= minted /\ w[2] \in Nat
          BY <1>0, <1>8, WorkTyped DEF Numbered
        <4> QED
          BY <1>0, <1>2, <1>5, <3>1, <4>1 DEF c
      <3>2. CASE q # p
        BY <1>0, <1>5, <1>7, <1>8, <2>2, <3>2 DEF Fence
      <3> QED
        BY <3>1, <3>2
    <2> QED
      BY <2>1, <2>2 DEF Fence, Parts
  <1>15. Undisturbed'
    <2>1. ASSUME ~clobbered', NEW q \in Parts, calls'[q].pc = "gate" \/ Retrying(q)',
                 calls'[q].req.id # Previous, NEW r \in retries', r.job = calls'[q].req.job
          PROVE  Retrying(q)' /\ r = Entry(calls[q])'
      <3>1. ~clobbered /\ r \in retries
        BY <1>3, <2>1
      <3>2. CASE q = p
        <4>1. Retrying(p)
          BY <1>0, <1>1, <1>5, <2>1, <3>1, <3>2 DEF Undisturbed, c
        <4> QED
          BY <1>1, <4>1 DEF Retrying, Posting
      <3>3. CASE q # p
        <4>1. /\ calls'[q] = calls[q] /\ (Retrying(q)' <=> Retrying(q))
              /\ Entry(calls[q])' = Entry(calls[q])
          BY <1>5, <1>7, <3>3 DEF Entry
        <4> QED
          BY <1>0, <2>1, <3>1, <4>1 DEF Undisturbed
      <3> QED
        BY <3>2, <3>3
    <2>3. ~clobbered' => \A r \in retries' : r.id <= disk'.id
      BY <1>0, <1>3 DEF Undisturbed
    <2> QED
      BY <2>1, <2>3 DEF Undisturbed, Parts
  <1>16. CountFollowsId'
    <2>1. ASSUME edits' = 0, ~stale', NEW v \in Versions', NEW w \in Versions', v[1] = w[1]
          PROVE  v[2] = w[2]
      <3>1. ASSUME NEW u \in Versions PROVE u[1] # out.id
        BY <1>0, <1>2, VersionsTyped DEF Numbered
      <3>2. CASE v \in Versions /\ w \in Versions
        BY <1>0, <1>3, <2>1, <3>2 DEF CountFollowsId
      <3>3. CASE v = <<out.id, out.count>> \/ w = <<out.id, out.count>>
        BY <1>9, <2>1, <3>1, <3>3
      <3> QED
        BY <1>9, <3>2, <3>3
    <2> QED
      BY <1>0, <1>3, <2>1 DEF CountFollowsId
  <1>17. OneRetryPerFailure' /\ RetryBudget'
    BY <1>0, <1>3 DEF OneRetryPerFailure, RetryBudget
  <1>18. RunIds'
    BY <1>0, <1>8 DEF RunIds
  <1> QED
    BY <1>11, <1>12, <1>13, <1>14, <1>15, <1>16, <1>17, <1>18

-----------------------------------------------------------------------------
(* The step that stores a file. *)

\* A POST that reaches the file, answered or not.
LEMMA StoreKeeps ==
    ASSUME PlanningRetryAssumption, RetryInv, NEW p \in Parts, Store(calls[p]),
           PostAnswered(p) \/ PostFailed(p)
    PROVE  /\ Numbered' /\ RunIds' /\ CallShape' /\ FreshIds' /\ Fence' /\ Undisturbed'
           /\ CountFollowsId' /\ OneRetryPerFailure' /\ RetryBudget'
  <1> DEFINE c == calls[p]
             e == Entry(calls[p])
             IsRetry == calls[p].kind = "retry"
  <1>0. /\ TypeOK /\ Numbered /\ RunIds /\ CallShape /\ FreshIds /\ Fence /\ Undisturbed
        /\ CountFollowsId
        /\ disk \in File /\ disk.id \in Nat /\ disk.count \in Opt(Int) /\ minted \in Nat
        /\ OneRetryPerFailure /\ RetryBudget /\ clobbered \in BOOLEAN
    BY DEF RetryInv, TypeOK, File
  <1>1. Busy(p) /\ c \in Call /\ c.pc = "posting" /\ Posting(p) /\ (IsRetry <=> Retrying(p))
    BY <1>0, CallTyped DEF PostAnswered, PostFailed, Posting, Retrying
  <1>2. UNCHANGED <<jobs, topic, spawns, edits, minted, stale>>
    BY DEF PostAnswered, PostFailed
  <1>3. /\ disk' = c.out
        /\ retries' = IF IsRetry THEN retries \cup {e} ELSE retries
    BY DEF Store, Entry
  <1>4. ~clobbered' => ~clobbered /\ (disk = c.base \/ disk = c.out)
    BY DEF Store
  <1>5. \A q \in Parts :
          \/ calls'[q] = Idle
          \/ /\ Busy(q) /\ (calls'[q].pc = calls[q].pc \/ calls'[q].pc = "stored")
             /\ calls'[q].req = calls[q].req /\ calls'[q].kind = calls[q].kind
             /\ calls'[q].count = calls[q].count /\ calls'[q].base = calls[q].base
             /\ calls'[q].out = calls[q].out /\ calls'[q].first = calls[q].first
    <2>1. CASE PostFailed(p)
      BY <1>0, <1>1, <2>1, FailStep DEF Busy
    <2>2. CASE PostAnswered(p)
      <3> DEFINE d == [c EXCEPT !.pc = "stored"]
      <3>1. calls' = [calls EXCEPT ![p] = d]
        BY <2>2 DEF PostAnswered
      <3>2. /\ d.pc = "stored" /\ d.req = c.req /\ d.kind = c.kind /\ d.count = c.count
            /\ d.base = c.base /\ d.out = c.out /\ d.first = c.first
        BY <1>1 DEF Call
      <3> HIDE DEF d
      <3>3. calls \in [Parts -> Call \cup {Idle}]
        BY <1>0 DEF TypeOK, Parts
      <3> QED
        BY <1>1, <3>1, <3>2, <3>3 DEF Busy
    <2> QED
      BY <2>1, <2>2
  <1>6. /\ c.req.job \in Nat /\ c.req.id \in Nat /\ c.count \in Nat
        /\ c.base.id \in Nat /\ c.base.count \in Opt(Int) /\ c.out.id \in Nat
        /\ c.out.count \in Opt(Int)
    BY <1>1, CallParts
  <1>7. /\ <<c.req.job, c.req.id>> \in Work
        /\ <<c.base.id, c.base.count>> \in Versions /\ <<c.out.id, c.out.count>> \in Versions
        /\ <<disk.id, disk.count>> \in Versions
    BY <1>1, WorkHas
  <1>8. /\ c.req.job < spawns /\ c.out.id <= minted
    BY <1>0, <1>7 DEF Numbered
  <1>9. /\ IsRetry => /\ c.base.id < c.out.id /\ c.out.count = c.count + 1
                      /\ Count(c.base.count) = c.count /\ c.count < MaxRetries
        /\ ~IsRetry => c.out.id = c.base.id
        /\ c.req.id % Partitions = p
    BY <1>0, <1>1 DEF CallShape
  <1>10. e.job = c.req.job /\ e.to = c.req.id /\ e.id = c.out.id /\ e.count = c.out.count
    BY DEF Entry
  <1> HIDE DEF c, e
  <1>11. \A q \in Parts : calls'[q].pc # "idle" => calls'[q] # Idle
    BY DEF Idle
  <1>12. /\ \A q \in Parts : Retrying(q)' =>
              /\ Retrying(q) /\ calls'[q].req = calls[q].req /\ calls'[q].out = calls[q].out
              /\ calls'[q].base = calls[q].base /\ calls'[q].count = calls[q].count
         /\ \A q \in Parts : Posting(q)' => Posting(q) /\ calls'[q].base = calls[q].base
         /\ \A q \in Parts : calls'[q].pc = "gate" =>
              calls[q].pc = "gate" /\ calls'[q].req = calls[q].req
    BY <1>5, <1>11 DEF Retrying, Posting
  <1>13. Work' \subseteq Work
    BY <1>2, <1>5, WorkHas, WorkWithin
  <1>14. Versions' \subseteq Versions
    <2>1. \A q \in Parts : calls'[q] # Idle =>
             /\ <<calls'[q].req.id, calls'[q].req.count>> \in Versions
             /\ <<calls'[q].base.id, calls'[q].base.count>> \in Versions
             /\ <<calls'[q].out.id, calls'[q].out.count>> \in Versions
      BY <1>5, WorkHas
    <2> QED
      BY <1>2, <1>3, <1>7, <2>1, WorkHas, VersionsWithin
  <1>15. CallShape'
    BY <1>0, <1>5, <1>11 DEF CallShape, Busy, Posting, Retrying, Parts
  <1>16. Numbered'
    <2>1. ASSUME IsRetry
          PROVE  e.job < spawns /\ e.id \in 1 .. minted /\ e.count \in 1 .. MaxRetries
      BY <1>0, <1>6, <1>8, <1>9, <1>10, <2>1 DEF PlanningRetryAssumption
    <2> QED
      BY <1>0, <1>2, <1>3, <1>13, <1>14, <2>1 DEF Numbered
  <1>17. FreshIds'
    <2>1. ASSUME NEW q \in Parts, Retrying(q)'
          PROVE  Retrying(q) /\ calls'[q].out = calls[q].out /\ Entry(calls[q])' = Entry(calls[q])
      BY <1>12, <2>1 DEF Entry
    <2>2. ASSUME NEW q \in Parts, Retrying(q)', NEW s \in Parts, Retrying(s)',
                 calls'[s].out.id = calls'[q].out.id
          PROVE  s = q
      BY <1>0, <2>1, <2>2 DEF FreshIds
    <2>3. ASSUME NEW q \in Parts, Retrying(q)', disk'.id = calls'[q].out.id
          PROVE  Entry(calls[q])' \in retries'
      <3>1. c.out.id = calls[q].out.id
        BY <1>3, <2>1, <2>3
      <3>2. CASE IsRetry
        <4>1. q = p
          BY <1>0, <1>1, <2>1, <2>3, <3>1, <3>2 DEF FreshIds, c
        <4> QED
          BY <1>3, <2>1, <2>3, <3>2, <4>1 DEF e
      <3>3. CASE ~IsRetry
        BY <1>0, <1>1, <1>3, <1>9, <2>1, <2>3, <3>1, <3>3 DEF FreshIds, c
      <3> QED
        BY <3>2, <3>3
    <2>4. ASSUME NEW q \in Parts, Retrying(q)', NEW s \in Parts, Posting(s)',
                 calls'[s].base.id = calls'[q].out.id
          PROVE  Entry(calls[q])' \in retries'
      <3>1. Entry(calls[q]) \in retries
        BY <1>0, <1>12, <2>1, <2>4 DEF FreshIds
      <3> QED
        BY <1>3, <2>1, <2>4, <3>1
    <2> QED
      BY <2>2, <2>3, <2>4 DEF FreshIds, Parts
  <1>18. Fence'
    <2>1. ASSUME NEW w \in Work', NEW r \in retries', w[1] = r.job PROVE w[2] < r.id
      <3>1. CASE r \in retries
        BY <1>0, <1>13, <2>1, <3>1 DEF Fence
      <3>2. CASE IsRetry /\ r = e
        BY <1>0, <1>1, <1>10, <1>13, <2>1, <3>2 DEF Fence, c
      <3> QED
        BY <1>3, <3>1, <3>2
    <2>2. ASSUME NEW w \in Work', NEW q \in Parts, Retrying(q)', w[1] = calls'[q].req.job
          PROVE  w[2] < calls'[q].out.id
      BY <1>0, <1>12, <1>13, <2>2 DEF Fence
    <2> QED
      BY <2>1, <2>2 DEF Fence, Parts
  <1>19. ASSUME ~clobbered', IsRetry, disk = c.out PROVE e \in retries
    BY <1>0, <1>1, <1>19 DEF FreshIds, c, e
  <1>20. ASSUME ~clobbered', IsRetry, c.req.id # Previous, NEW r \in retries, r.job = e.job
         PROVE  r = e
    BY <1>0, <1>1, <1>4, <1>10, <1>20 DEF Undisturbed, c, e
  <1>21. Undisturbed'
    <2>1. ASSUME ~clobbered', NEW q \in Parts, calls'[q].pc = "gate" \/ Retrying(q)',
                 calls'[q].req.id # Previous, NEW r \in retries', r.job = calls'[q].req.job
          PROVE  Retrying(q)' /\ r = Entry(calls[q])'
      <3>1. /\ calls[q].pc = "gate" \/ Retrying(q)
            /\ calls'[q].req = calls[q].req /\ Busy(q)
            /\ Retrying(q)' => Retrying(q) /\ Entry(calls[q])' = Entry(calls[q])
            /\ calls'[q].pc = "gate" => calls[q].pc = "gate"
        BY <1>0, <1>12, <2>1, CallTyped DEF Entry, Retrying
      <3>2. calls[q].req.id % Partitions = q /\ <<calls[q].req.job, calls[q].req.id>> \in Work
        BY <1>0, <3>1, WorkHas DEF CallShape
      <3>3. CASE r \in retries
        <4>1. Retrying(q) /\ r = Entry(calls[q])
          BY <1>0, <1>4, <2>1, <3>1, <3>3 DEF Undisturbed
        <4>2. calls'[q].pc # "gate"
          BY <3>1, <4>1 DEF Retrying, Posting
        <4> QED
          BY <2>1, <3>1, <4>1, <4>2
      <3>4. CASE r = e /\ IsRetry
        <4>1. calls[q].req.id = c.req.id
          BY <1>0, <1>7, <1>10, <2>1, <3>1, <3>2, <3>4 DEF RunIds
        <4>2. q = p
          BY <1>9, <3>2, <4>1
        <4>3. calls'[q].pc # "gate"
          BY <1>1, <3>1, <4>2 DEF c
        <4> QED
          BY <2>1, <3>1, <3>4, <4>2, <4>3 DEF e
      <3> QED
        BY <1>3, <3>3, <3>4
    <2>3. ASSUME ~clobbered', NEW r \in retries' PROVE r.id <= disk'.id
      <3>1. disk.id <= disk'.id
        BY <1>0, <1>3, <1>4, <1>6, <1>9, <2>3
      <3>2. CASE r \in retries
        <4>1. r.id <= disk.id /\ r.id \in Nat
          BY <1>0, <1>4, <2>3, <3>2 DEF Undisturbed, TypeOK
        <4> QED
          BY <1>0, <1>3, <1>6, <3>1, <4>1
      <3>3. CASE r = e
        BY <1>3, <1>6, <1>10, <3>3
      <3> QED
        BY <1>3, <3>2, <3>3
    <2> QED
      BY <2>1, <2>3 DEF Undisturbed, Parts
  <1>22. ASSUME ~clobbered', ~stale, edits = 0, NEW r \in retries
         PROVE  r.count \in Int /\ r.count <= Count(disk.count)
    BY <1>0, <1>4, <1>22 DEF CountFollowsId, TypeOK
  <1>23. CountFollowsId'
    <2>1. edits' = 0 /\ ~stale' => \A v, w \in Versions' : v[1] = w[1] => v[2] = w[2]
      BY <1>0, <1>2, <1>14 DEF CountFollowsId
    <2>2. ASSUME edits' = 0, ~stale', ~clobbered', NEW r \in retries'
          PROVE  r.count <= Count(disk'.count)
      <3>1. ASSUME IsRetry PROVE Count(c.out.count) = c.count + 1
        BY <1>6, <1>9, <3>1 DEF Count, PlanningRetryAssumption
      <3>2. CASE r \in retries /\ disk = c.out
        BY <1>2, <1>3, <1>22, <2>2, <3>2
      <3>3. CASE r \in retries /\ disk = c.base /\ IsRetry
        BY <1>2, <1>3, <1>6, <1>9, <1>22, <2>2, <3>1, <3>3
      <3>4. CASE r \in retries /\ disk = c.base /\ ~IsRetry
        <4>1. c.out.count = disk.count
          BY <1>0, <1>2, <1>7, <1>9, <2>2, <3>4 DEF CountFollowsId
        <4> QED
          BY <1>2, <1>3, <1>22, <2>2, <3>4, <4>1
      <3>5. CASE IsRetry /\ r = e
        BY <1>3, <1>6, <1>9, <1>10, <3>1, <3>5
      <3> QED
        BY <1>3, <1>4, <2>2, <3>2, <3>3, <3>4, <3>5
    <2> QED
      BY <2>1, <2>2 DEF CountFollowsId
  <1>25. OneRetryPerFailure'
    BY <1>0, <1>3, <1>4, <1>10, <1>20 DEF OneRetryPerFailure
  <1>26. ASSUME ~clobbered', ~stale, edits = 0, IsRetry, NEW r \in retries, r.count = e.count
         PROVE  r = e
    <2>1. CASE disk = c.out
      BY <1>0, <1>4, <1>19, <1>26, <2>1 DEF RetryBudget
    <2>2. CASE disk = c.base
      BY <1>6, <1>9, <1>10, <1>22, <1>26, <2>2
    <2> QED
      BY <1>4, <1>26, <2>1, <2>2
  <1>27. RetryBudget'
    <2>1. \A r \in retries' : r.count \in 1 .. MaxRetries
      BY <1>16 DEF Numbered
    <2>2. ASSUME edits' = 0, ~stale', ~clobbered', NEW r \in retries', NEW s \in retries',
                 r.count = s.count
          PROVE  r = s
      <3>1. CASE r \in retries /\ s \in retries
        BY <1>0, <1>2, <1>4, <2>2, <3>1 DEF RetryBudget
      <3>2. CASE IsRetry /\ (r = e \/ s = e)
        BY <1>2, <1>3, <1>26, <2>2, <3>2
      <3> QED
        BY <1>3, <3>1, <3>2
    <2> QED
      BY <2>1, <2>2 DEF RetryBudget
  <1>28. RunIds'
    BY <1>0, <1>13 DEF RunIds
  <1> QED
    BY <1>15, <1>16, <1>17, <1>18, <1>21, <1>23, <1>25, <1>27, <1>28

-----------------------------------------------------------------------------
(* The invariant. *)

\* The initial states satisfy the invariant.
LEMMA RetryInit ==
    ASSUME PlanningRetryAssumption, Init
    PROVE  RetryInv
  <1>1. /\ minted = 1 /\ topic = {} /\ now = 0 /\ retries = {} /\ escalations = 0
        /\ comments = 0 /\ clobbered = FALSE /\ stale = FALSE /\ edits = 0 /\ faults = 0
        /\ calls = [p \in Parts |-> Idle]
    BY DEF Init, Parts
  <1>2. disk \in File /\ disk.id = 1
    <2>1. PICK x \in InitialCounts :
            disk = [id |-> 1, phase |-> "planning", count |-> x, assignee |-> "agent",
                    lines |-> {}, note |-> FALSE]
      BY DEF Init
    <2>2. x \in Opt(Int)
      BY DEF PlanningRetryAssumption, Opt
    <2> QED
      BY <2>1, <2>2 DEF File, Phases, Assignees
  <1>11. /\ jobs \in SUBSET [job : Nat, file : File] /\ spawns \in {0, 1}
         /\ \A j \in jobs : /\ j.job = 0 /\ j.file.id = 0 /\ j.file.count = disk.count
                           /\ spawns = 1
    <2>1. CASE Previous = Absent
      BY <2>1 DEF Init
    <2>2. CASE Previous # Absent
      <3> DEFINE f == [disk EXCEPT !.id = 0]
      <3>1. f \in File /\ f.id = 0 /\ f.count = disk.count
        BY <1>2 DEF File
      <3>2. jobs = {[job |-> 0, file |-> f]} /\ spawns = 1
        BY <2>2 DEF Init, EarlyRun
      <3> HIDE DEF f
      <3> QED
        BY <3>1, <3>2
    <2> QED
      BY <2>1, <2>2
  <1>3. \A p \in Parts : calls[p] = Idle /\ calls[p].pc = "idle"
    BY <1>1 DEF Idle
  <1>4. TypeOK
    <2>1. calls \in [0 .. Partitions - 1 -> Call \cup {Idle}]
      BY <1>1 DEF Parts
    <2>2. /\ now \in 0 .. MaxSeconds /\ spawns \in 0 .. MaxSpawns
          /\ edits \in 0 .. MaxEdits /\ faults \in 0 .. MaxFaults
      BY <1>1, <1>11 DEF PlanningRetryAssumption
    <2>3. /\ jobs \in SUBSET [job : Nat, file : File] /\ topic \in SUBSET Result
          /\ retries \in SUBSET [job : Nat, to : Nat, id : Nat, count : Int]
      BY <1>1, <1>11
    <2>4. clobbered \in BOOLEAN /\ stale \in BOOLEAN
      BY <1>1
    <2>5. minted \in Nat /\ escalations \in Nat /\ comments \in Nat /\ disk.id <= minted
      BY <1>1, <1>2
    <2> QED
      BY <1>2, <2>1, <2>2, <2>3, <2>4, <2>5 DEF TypeOK
  <1>5. /\ \A w \in Work : w = <<0, 0>> /\ spawns = 1
        /\ \A v \in Versions : v \in {<<1, disk.count>>, <<0, disk.count>>}
    <2>1. {q \in Parts : Busy(q)} = {}
      BY <1>3 DEF Busy
    <2>2. \A j \in jobs : /\ <<j.job, j.file.id>> = <<0, 0>> /\ spawns = 1
                         /\ <<j.file.id, j.file.count>> = <<0, disk.count>>
      BY <1>11
    <2> QED
      BY <1>1, <1>2, <2>1, <2>2 DEF Work, Versions
  <1>6. \A p \in Parts : ~Busy(p) /\ ~Posting(p) /\ ~Retrying(p) /\ calls[p].pc # "gate"
    BY <1>3 DEF Busy, Posting, Retrying
  <1>7. Numbered
    <2>1. \A w \in Work : w[1] < spawns /\ w[2] <= minted
      BY <1>1, <1>5
    <2>2. \A v \in Versions : v[1] <= minted
      BY <1>1, <1>5
    <2> QED
      BY <1>1, <2>1, <2>2 DEF Numbered
  <1>8. CallShape /\ FreshIds /\ Undisturbed
    BY <1>1, <1>6 DEF CallShape, FreshIds, Undisturbed
  <1>9. Fence /\ RunIds
    BY <1>1, <1>5, <1>6 DEF Fence, RunIds
  <1>12. CountFollowsId
    <2>1. ASSUME NEW v \in Versions, NEW w \in Versions, v[1] = w[1] PROVE v[2] = w[2]
      BY <1>5, <2>1
    <2> QED
      BY <1>1, <2>1 DEF CountFollowsId
  <1>10. OneRetryPerFailure /\ RetryBudget
    BY <1>1 DEF OneRetryPerFailure, RetryBudget
  <1> QED
    BY <1>4, <1>7, <1>8, <1>9, <1>10, <1>12 DEF RetryInv

\* Every step keeps it.
LEMMA RetryNext ==
    ASSUME PlanningRetryAssumption, RetryInv, [Next]_vars
    PROVE  RetryInv'
  <1>0. TypeOK /\ Numbered /\ CallShape /\ DOMAIN calls = Parts
    BY DEF RetryInv, TypeOK, Parts
  <1>1. ASSUME Quiet, TypeOK', CallShape' PROVE RetryInv'
    BY <1>1, QuietKeeps DEF RetryInv
  <1>2. CASE ExecutorSpawn \/ OperatorEdit \/ Tick \/ \E job \in jobs : AgentDeliver(job)
    BY <1>0, <1>1, <1>2, OthersTyped, OutsidersQuiet
  <1>3. CASE Crash
    <2>1. PICK p \in Parts : TRUE
      BY <1>0, <1>3 DEF Crash
    <2> QED
      BY <1>0, <1>1, <1>3, <2>1, OthersTyped, EndQuiet
  <1>4. ASSUME NEW p \in Parts, Consumer(p) PROVE RetryInv'
    <2>0. TypeOK'
      BY <1>0, <1>4, ConsumerTyped
    <2>1. ASSUME NEW req \in topic, Handle(p, req) PROVE RetryInv'
      BY <1>1, <2>0, <2>1, HandleQuiet
    <2>2. CASE GateRetry(p)
      <3>1. CASE StillRetries(disk, calls[p])
        BY <2>0, <2>2, <3>1, MintKeeps DEF RetryInv
      <3>2. CASE ~StillRetries(disk, calls[p])
        BY <1>1, <2>0, <2>2, <3>2, ClosuresQuiet
      <3> QED
        BY <3>1, <3>2
    <2>3. CASE GateEscalate(p) \/ WriteResult(p)
      BY <1>1, <2>0, <2>3, ClosuresQuiet
    <2>4. CASE PostAnswered(p)
      <3>1. Store(calls[p])
        BY <2>4 DEF PostAnswered
      <3> QED
        BY <2>0, <2>4, <3>1, StoreKeeps DEF RetryInv
    <2>5. CASE PostFailed(p)
      <3>1. CASE Store(calls[p])
        BY <2>0, <2>5, <3>1, StoreKeeps DEF RetryInv
      <3>2. CASE UNCHANGED <<disk, clobbered, retries, escalations>>
        BY <1>1, <2>0, <2>5, <3>2, EndQuiet
      <3> QED
        BY <2>5, <3>1, <3>2 DEF PostFailed
    <2>6. CASE PostComment(p) \/ CommitOffset(p)
      BY <1>1, <2>0, <2>6, EndQuiet
    <2> QED
      BY <1>4, <2>1, <2>2, <2>3, <2>4, <2>5, <2>6 DEF Consumer
  <1>5. CASE UNCHANGED vars
    BY <1>5 DEF vars, RetryInv, TypeOK, Numbered, CallShape, FreshIds, Fence, Undisturbed,
                CountFollowsId, OneRetryPerFailure, RetryBudget, RunIds, Work, Versions, Busy,
                Posting, Retrying, Entry, Parts
  <1> QED
    BY <1>0, <1>2, <1>3, <1>4, <1>5 DEF Next

\* The invariant of the gate: identifiers and runs are numbered as they come up,
\* a fresh identifier is above every identifier its run is addressed to, and
\* without a race retries and the file agree.
THEOREM RetryInvariant == Spec => []RetryInv
  <1>1. Init => RetryInv
    BY PlanningRetryAssumption, RetryInit
  <1>2. RetryInv /\ [Next]_vars => RetryInv'
    BY PlanningRetryAssumption, RetryNext
  <1> QED
    BY <1>1, <1>2, PTL DEF Spec

\* The task file, the calls and the results under way are always well formed.
THEOREM RetryTypeCorrect == Spec => []TypeOK
  <1>1. RetryInv => TypeOK
    BY DEF RetryInv
  <1> QED
    BY <1>1, RetryInvariant, PTL

\* A failed result buys at most one retry, for any number of redeliveries,
\* crashes and failed POSTs, as long as no store hit a file another writer had
\* changed, and unless it is addressed to the identifier the scanner replaced.
THEOREM OneRetryHolds == Spec => []OneRetryPerFailure
  <1>1. RetryInv => OneRetryPerFailure
    BY DEF RetryInv
  <1> QED
    BY <1>1, RetryInvariant, PTL

\* The retries of a task are numbered from 1 to MaxRetries; without edits, races
\* and merged results addressed to the replaced identifier no number is used
\* twice.
THEOREM RetryBudgetHolds == Spec => []RetryBudget
  <1>1. RetryInv => RetryBudget
    BY DEF RetryInv
  <1> QED
    BY <1>1, RetryInvariant, PTL

-----------------------------------------------------------------------------
(* The comments on the PR. *)

\* The calls that owe a comment are finitely many.
LEMMA OwingFinite ==
    ASSUME PlanningRetryAssumption
    PROVE  IsFiniteSet(Owing) /\ Cardinality(Owing) \in Nat
  <1>1. IsFiniteSet(Parts)
    BY FS_Interval DEF Parts, PlanningRetryAssumption
  <1>2. Owing \in SUBSET Parts
    BY DEF Owing
  <1>3. IsFiniteSet(Owing)
    BY <1>1, <1>2, FS_Subset
  <1> QED
    BY <1>3, FS_CardinalityType

\* A step that lets no further call owe a comment, and posts none.
LEMMA NoFurtherOwing ==
    ASSUME PlanningRetryAssumption, TypeOK, CommentsCovered, Owing' \subseteq Owing,
           comments' = comments, escalations' \in Nat, escalations' >= escalations
    PROVE  CommentsCovered'
  <1>1. IsFiniteSet(Owing) /\ Cardinality(Owing) \in Nat
    BY OwingFinite
  <1>2. /\ IsFiniteSet(Owing') /\ Cardinality(Owing') <= Cardinality(Owing)
    BY <1>1, FS_Subset
  <1>3. Cardinality(Owing') \in Nat
    BY <1>2, FS_CardinalityType
  <1> QED
    BY <1>1, <1>2, <1>3 DEF CommentsCovered, TypeOK

\* Every step keeps the comments covered.
LEMMA CommentsNext ==
    ASSUME PlanningRetryAssumption, RetryInv, RetryInv', CommentsCovered, [Next]_vars
    PROVE  CommentsCovered'
  <1>0. /\ TypeOK /\ CallShape /\ DOMAIN calls = Parts /\ escalations \in Nat /\ escalations' \in Nat
        /\ comments \in Nat /\ calls \in [Parts -> Call \cup {Idle}] /\ disk \in File
    BY DEF RetryInv, TypeOK, Parts
  <1>1. ASSUME calls' = calls, comments' = comments, escalations' = escalations
        PROVE  CommentsCovered'
    BY <1>1 DEF CommentsCovered, Owing, Parts
  <1>2. CASE ExecutorSpawn \/ OperatorEdit \/ Tick \/ \E job \in jobs : AgentDeliver(job)
    BY <1>1, <1>2 DEF ExecutorSpawn, OperatorEdit, Tick, AgentDeliver
  <1>3. CASE Crash
    <2>1. Owing' \subseteq Owing
      BY <1>0, <1>3 DEF Crash, Owing, Idle, Parts
    <2> QED
      BY <1>0, <1>3, <2>1, NoFurtherOwing DEF Crash
  <1>4. ASSUME NEW p \in Parts, Consumer(p) PROVE CommentsCovered'
    <2>0. ASSUME \A q \in Parts : q # p => calls'[q] = calls[q],
                 calls'[p].pc = "stored" => ~calls'[p].first
          PROVE  Owing' \subseteq Owing
      BY <2>0 DEF Owing, Parts
    <2>1. ASSUME NEW req \in topic, Handle(p, req) PROVE CommentsCovered'
      <3>1. Owing' \subseteq Owing
        BY <1>0, <2>0, <2>1, HandleStep
      <3> QED
        BY <1>0, <2>1, <3>1, NoFurtherOwing DEF Handle
    <2>2. CASE GateRetry(p)
      <3> DEFINE out == RetryModify(disk, calls[p])
      <3>1. Busy(p) /\ calls[p] \in Call
        BY <1>0, <2>2, CallTyped DEF GateRetry
      <3>2. out \in File /\ Modify(p, out, FALSE)
        BY <1>0, <2>2, <3>1, RetryTyped DEF GateRetry, TypeOK
      <3> HIDE DEF out
      <3>3. Owing' \subseteq Owing
        BY <1>0, <2>0, <3>1, <3>2, ModifyStep
      <3> QED
        BY <1>0, <2>2, <3>3, NoFurtherOwing DEF GateRetry
    <2>3. CASE GateEscalate(p)
      <3> DEFINE out == EscalationModify(disk, calls[p])
                 first == FirstEscalation(disk)
      <3>1. Busy(p) /\ calls[p] \in Call
        BY <1>0, <2>3, CallTyped DEF GateEscalate
      <3>2. out \in File /\ first \in BOOLEAN /\ (first => out # disk)
        BY <1>0, <3>1, EscalateTyped DEF FirstEscalation
      <3>3. Modify(p, out, first)
        BY <2>3 DEF GateEscalate
      <3> HIDE DEF out, first
      <3>4. Owing' \subseteq Owing
        BY <1>0, <2>0, <3>1, <3>2, <3>3, ModifyStep
      <3> QED
        BY <1>0, <2>3, <3>4, NoFurtherOwing DEF GateEscalate
    <2>4. CASE WriteResult(p)
      <3> DEFINE out == IF Carries(disk, calls[p].req) THEN ResultModify(disk, calls[p].req)
                        ELSE disk
      <3>1. Busy(p) /\ calls[p] \in Call
        BY <1>0, <2>4, CallTyped DEF WriteResult
      <3>2. out \in File
        BY <1>0, <3>1, ResultTyped, CallParts
      <3>3. Modify(p, out, FALSE)
        BY <2>4 DEF WriteResult
      <3> HIDE DEF out
      <3>4. Owing' \subseteq Owing
        BY <1>0, <2>0, <3>1, <3>2, <3>3, ModifyStep
      <3> QED
        BY <1>0, <2>4, <3>4, NoFurtherOwing DEF WriteResult
    <2>5. CASE PostAnswered(p)
      <3>1. Busy(p) /\ calls[p] \in Call /\ calls[p].pc = "posting" /\ comments' = comments
        BY <1>0, <2>5, CallTyped DEF PostAnswered
      <3>2. /\ escalations' = escalations + (IF calls[p].kind = "escalate" THEN 1 ELSE 0)
        BY <2>5 DEF PostAnswered, Store
      <3> DEFINE c == [calls[p] EXCEPT !.pc = "stored"]
      <3>3. c.first = calls[p].first /\ c.pc = "stored"
        BY <3>1 DEF Call
      <3>4. calls' = [calls EXCEPT ![p] = c]
        BY <2>5 DEF PostAnswered
      <3> HIDE DEF c
      <3>5. calls'[p] = c /\ \A q \in Parts : q # p => calls'[q] = calls[q]
        BY <1>0, <3>4
      <3>6. CASE ~calls[p].first
        <4>1. Owing' \subseteq Owing
          BY <2>0, <3>3, <3>5, <3>6
        <4>2. escalations' >= escalations
          BY <1>0, <3>2
        <4> QED
          BY <1>0, <3>1, <4>1, <4>2, NoFurtherOwing
      <3>7. CASE calls[p].first
        <4>1. calls[p].kind = "escalate"
          BY <1>0, <3>1, <3>7 DEF CallShape
        <4>2. Owing' = Owing \cup {p} /\ p \notin Owing
          BY <3>1, <3>3, <3>5, <3>7 DEF Owing, Parts
        <4>3. Cardinality(Owing') = Cardinality(Owing) + 1
          BY <4>2, OwingFinite, FS_AddElement
        <4> QED
          BY <1>0, <3>1, <3>2, <4>1, <4>3, OwingFinite DEF CommentsCovered
      <3> QED
        BY <3>6, <3>7
    <2>6. CASE PostFailed(p)
      <3>1. calls'[p].pc # "stored" /\ \A q \in Parts : q # p => calls'[q] = calls[q]
        BY <1>0, <2>6, FailStep DEF Idle
      <3>2. Owing' \subseteq Owing
        BY <2>0, <3>1
      <3>3. escalations' >= escalations /\ comments' = comments
        BY <1>0, <2>6 DEF PostFailed, Store
      <3> QED
        BY <1>0, <3>2, <3>3, NoFurtherOwing
    <2>7. CASE PostComment(p)
      <3>1. calls[p] \in Call /\ p \in Owing
        BY <1>0, <2>7, CallTyped DEF PostComment, Owing
      <3> DEFINE c == [calls[p] EXCEPT !.first = FALSE]
      <3>2. ~c.first
        BY <3>1 DEF Call
      <3>3. calls' = [calls EXCEPT ![p] = c]
        BY <2>7 DEF PostComment
      <3> HIDE DEF c
      <3>4. Owing' = Owing \ {p}
        BY <1>0, <3>2, <3>3 DEF Owing, Parts
      <3>5. Cardinality(Owing') = Cardinality(Owing) - 1
        BY <3>1, <3>4, OwingFinite, FS_RemoveElement
      <3>6. escalations' = escalations /\ (comments' = comments + 1 \/ comments' = comments)
        BY <2>7 DEF PostComment
      <3> QED
        BY <1>0, <3>5, <3>6, OwingFinite DEF CommentsCovered
    <2>8. CASE CommitOffset(p)
      <3>1. calls'[p] = Idle /\ \A q \in Parts : q # p => calls'[q] = calls[q]
        BY <1>0, <2>8 DEF CommitOffset
      <3>2. Owing' \subseteq Owing
        BY <2>0, <3>1 DEF Idle
      <3> QED
        BY <1>0, <2>8, <3>2, NoFurtherOwing DEF CommitOffset
    <2> QED
      BY <1>4, <2>1, <2>2, <2>3, <2>4, <2>5, <2>6, <2>7, <2>8 DEF Consumer
  <1>5. CASE UNCHANGED vars
    BY <1>1, <1>5 DEF vars
  <1> QED
    BY <1>0, <1>2, <1>3, <1>4, <1>5 DEF Next

\* The PR is told of stored escalations only, whatever is redelivered or cut
\* off: a call that owes a comment has stored an escalation nobody else's
\* comment counts.
THEOREM CommentsHold == Spec => []CommentsFollowEscalations
  <1>1. Init => CommentsCovered
    <2> SUFFICES ASSUME Init PROVE CommentsCovered
      OBVIOUS
    <2>1. Owing = {}
      BY DEF Init, Owing, Idle, Parts
    <2> QED
      BY <2>1, FS_EmptySet DEF Init, CommentsCovered
  <1>2. RetryInv /\ RetryInv' /\ CommentsCovered /\ [Next]_vars => CommentsCovered'
    BY PlanningRetryAssumption, CommentsNext
  <1>3. RetryInv /\ CommentsCovered => CommentsFollowEscalations
    BY PlanningRetryAssumption, OwingFinite
    DEF RetryInv, TypeOK, CommentsCovered, CommentsFollowEscalations
  <1> QED
    BY <1>1, <1>2, <1>3, RetryInvariant, PTL DEF Spec

=============================================================================
