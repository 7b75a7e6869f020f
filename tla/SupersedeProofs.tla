---------------------------- MODULE SupersedeProofs ----------------------------
(***************************************************************************)
(* Proofs about Supersede: its types, the chains of superseded_by, what    *)
(* becomes of completed work, and what a hook has closed when it is done,  *)
(* for any number of creates that overlap.                                 *)
(***************************************************************************)
EXTENDS Supersede, FiniteSetTheorems, WellFoundedInduction, TLAPS

-----------------------------------------------------------------------------
(* The parts of the inductive invariant, for a run r and the vault v. *)

\* The files a hook has before it.
Ahead(r) == r.todo \cup (IF r.pc = "abort" THEN {r.at} ELSE {})

InHook(r) == r.pc \in {"inspect", "abort"}

\* The build-fix and the update-go hook never meet the file of the create; the
\* recurring hook meets neither the command's title nor a later instance.
TodoOK(r) ==
    InHook(r) =>
      \A n \in Ahead(r) :
         IF HookOf(r) = "recurring"
         THEN /\ r.cmd.recurring /\ n # r.cmd.title /\ Recognised(n)
              /\ Ordinal[Token(n)] <= Ordinal[Token(r.cmd.title)]
         ELSE n # r.path

\* What was read to be aborted is not completed unless somebody wrote to it since.
ReadOK(v, r) ==
    r.pc = "abort" /\ ~r.raced => v[r.at] # Missing /\ v[r.at].status # "completed"

Undisturbed(r) == InHook(r) /\ r.clean

\* A file that is owed is before the hook or closed.
DueOK(v, r) ==
    Undisturbed(r) =>
      \A n \in r.due :
         /\ v[n] # Missing /\ Matches(r, v[n])
         /\ n \in Ahead(r) \/ ~IsOpen(r, v[n])

\* The instances of L that are not earlier than n.
NotEarlier(L, n) == {m \in L \ {n} : Ordinal[Token(m)] >= Ordinal[Token(n)]}

\* The look-back went to the latest of the instances L.
Latest(r, L) ==
    /\ r.todo \subseteq L /\ r.due \subseteq L
    /\ r.spent <= Cardinality(L \ r.todo)
    /\ \A m \in L \ r.todo, n \in r.todo : Ordinal[Token(n)] <= Ordinal[Token(m)]
    /\ \A n \in r.due : Cardinality(NotEarlier(L, n)) < Lookback

\* The look-back of the recurring hook went to the latest instances it has listed.
RecurringOK(r) ==
    Undisturbed(r) /\ HookOf(r) = "recurring" => \E L \in SUBSET {n \in Names : Recognised(n)} : Latest(r, L)

\* The look-back of the update-go hook went to files that were owed.
UpdateGoOK(v, r) ==
    Undisturbed(r) /\ HookOf(r) = "update-go" /\ r.due # {} =>
      /\ Cardinality(r.due) <= Lookback
      /\ r.spent <= Cardinality(r.due \ r.todo)
      /\ \A n \in r.todo : v[n] # Missing /\ Matches(r, v[n]) /\ IsOpen(r, v[n]) => n \in r.due

\* A hook that has not listed its files has not paid for any.
FreshOK(r) == ~InHook(r) /\ r # Idle => r.spent = 0

ProgressOK(v, r) == DueOK(v, r) /\ RecurringOK(r) /\ UpdateGoOK(v, r)

RunOK(v, r) == FreshOK(r) /\ TodoOK(r) /\ ReadOK(v, r) /\ ProgressOK(v, r)

\* No file is younger than the last store, k; the file of a create may have been
\* replaced by a younger one, and no other file comes from the same store.
BornOK(v, r, k) ==
    r.pc \in {"list", "inspect", "abort"} =>
      /\ r.born <= k
      /\ \A n \in Names : v[n] # Missing =>
            IF n = r.path THEN v[n].born >= r.born ELSE v[n].born # r.born

VaultBorn(v, k) == \A n \in Names : v[n] # Missing => v[n].born <= k

SupersedeInv ==
    /\ TypeOK /\ VaultBorn(file, stores)
    /\ \A w \in Workers : RunOK(file, runs[w]) /\ BornOK(file, runs[w], stores)

-----------------------------------------------------------------------------
(* The hooks and their runs. *)

\* The three hooks, and their order (NewCreateTaskExecutor).
LEMMA HookNames ==
    /\ Len(Hooks) = 3
    /\ Hooks[1] = "build-fix" /\ Hooks[2] = "recurring" /\ Hooks[3] = "update-go"
    /\ Range(Hooks) = {"build-fix", "recurring", "update-go"}
<1>1. Len(Hooks) = 3 /\ DOMAIN Hooks = 1 .. 3
  BY DEF Hooks
<1>2. Hooks[1] = "build-fix" /\ Hooks[2] = "recurring" /\ Hooks[3] = "update-go"
  BY DEF Hooks
<1>3. 1 .. 3 = {1, 2, 3}
  OBVIOUS
<1> QED
  BY <1>1, <1>2, <1>3 DEF Range

\* The hook of a run is one of them.
LEMMA HookType ==
    ASSUME NEW r \in Run
    PROVE  /\ HookOf(r) \in {"build-fix", "recurring", "update-go"}
           /\ HookOf(r) \in Range(Hooks)
           /\ r.hook \in 1 .. 3
  BY HookNames DEF HookOf, Run

\* A worker that is not idle has a run.
LEMMA RunType ==
    ASSUME TypeOK, NEW w \in Workers
    PROVE  /\ runs[w] \in Run \cup {Idle}
           /\ runs[w] # Idle => runs[w] \in Run
           /\ runs[w].pc \in {"post", "postAlt", "list", "inspect", "abort"} => runs[w] \in Run
  BY DEF TypeOK, Idle, Run

\* A run is not idle.
LEMMA RunNotIdle ==
    ASSUME NEW r \in Run
    PROVE  r # Idle
  BY DEF Idle, Run

\* The other workers stay where they are.
LEMMA BecomesRun ==
    ASSUME TypeOK, NEW w \in Workers, NEW r, Becomes(w, r)
    PROVE  /\ runs'[w] = r
           /\ \A v \in Workers \ {w} : runs'[v] = runs[v]
           /\ r \in Run \cup {Idle} => runs' \in [Workers -> Run \cup {Idle}]
  BY DEF TypeOK, Becomes

\* An idle run owes nothing.
LEMMA IdleOK ==
    ASSUME NEW v, NEW k
    PROVE  RunOK(v, Idle) /\ BornOK(v, Idle, k)
<1>1. Idle.pc = "idle"
  BY DEF Idle
<1> QED
  BY <1>1 DEF RunOK, FreshOK, TodoOK, ReadOK, ProgressOK, DueOK, RecurringOK, UpdateGoOK, BornOK,
              Undisturbed, InHook

\* Neither does one that has listed nothing.
LEMMA FreshRun ==
    ASSUME NEW v, NEW r \in Run, ~InHook(r), r.spent = 0
    PROVE  RunOK(v, r)
  BY DEF RunOK, FreshOK, TodoOK, ReadOK, ProgressOK, DueOK, RecurringOK, UpdateGoOK, Undisturbed, InHook

\* Two states of a run that are of one hook.
SameHook(r, s) ==
    s \in Run /\ s.cmd = r.cmd /\ s.path = r.path /\ s.hook = r.hook /\ s.born = r.born

\* For them a file matches and is open alike.
LEMMA SameHookFor ==
    ASSUME NEW r, NEW s, SameHook(r, s)
    PROVE  /\ HookOf(s) = HookOf(r)
           /\ \A f : Matches(s, f) = Matches(r, f)
           /\ \A f : IsOpen(s, f) = IsOpen(r, f)
<1>1. HookOf(s) = HookOf(r)
  BY DEF SameHook, HookOf
<1>2. \A f : Matches(s, f) = Matches(r, f)
  BY <1>1 DEF SameHook, Matches
<1>3. \A f : IsOpen(s, f) = IsOpen(r, f)
  BY <1>1 DEF SameHook, IsOpen
<1> QED
  BY <1>1, <1>2, <1>3

\* The next hook starts with nothing listed.
LEMMA NextHookRun ==
    ASSUME TypeOK, NEW w \in Workers, runs[w] \in Run, NextHook(w)
    PROVE  /\ runs' \in [Workers -> Run \cup {Idle}]
           /\ \A v \in Workers \ {w} : runs'[v] = runs[v]
           /\ \/ runs'[w] = Idle
              \/ /\ runs'[w] \in Run /\ runs'[w].pc = "list" /\ runs'[w].path = runs[w].path
                 /\ runs'[w].born = runs[w].born /\ runs'[w].spent = 0
<1> DEFINE r == runs[w]
           s == [r EXCEPT !.pc = "list", !.hook = r.hook + 1, !.todo = {}, !.spent = 0,
                          !.at = r.path, !.clean = TRUE, !.raced = FALSE, !.due = {}]
<1>1. CASE r.hook = Len(Hooks)
  <2>1. Becomes(w, Idle)
    BY <1>1 DEF NextHook
  <2> QED
    BY <2>1, BecomesRun
<1>2. CASE r.hook # Len(Hooks)
  <2>1. r.hook + 1 \in 1 .. Len(Hooks) /\ 0 \in 0 .. Lookback
    BY <1>2, HookNames, HookType, SupersedeAssumption
  <2>2. Becomes(w, s)
    BY <1>2 DEF NextHook
  <2>3. s \in Run /\ s.pc = "list" /\ s.path = r.path /\ s.born = r.born /\ s.spent = 0
    BY <2>1 DEF Run
  <2> HIDE DEF s, r
  <2>4. /\ runs'[w] = s /\ runs' \in [Workers -> Run \cup {Idle}]
        /\ \A v \in Workers \ {w} : runs'[v] = runs[v]
    BY <2>2, <2>3, BecomesRun
  <2> QED
    BY <2>3, <2>4 DEF r
<1> QED
  BY <1>1, <1>2

\* A file that is read leaves the list, and the look-back has room for it.
LEMMA SpentOK ==
    ASSUME NEW r \in Run, MayGoOn(r), NEW opened \in BOOLEAN
    PROVE  /\ r.spent + Cost(r, opened) \in 0 .. Lookback
           /\ r.spent + Cost(r, opened)
                = r.spent + (IF HookOf(r) = "recurring" \/ (HookOf(r) = "update-go" /\ opened) THEN 1 ELSE 0)
<1>1. r.spent \in 0 .. Lookback /\ Lookback \in Nat
  BY SupersedeAssumption DEF Run
<1>2. Cost(r, opened) = IF HookOf(r) = "recurring" \/ (HookOf(r) = "update-go" /\ opened) THEN 1 ELSE 0
  BY DEF Cost, Pays
<1>3. HookOf(r) = "build-fix" \/ r.spent < Lookback
  BY DEF MayGoOn
<1>4. Cost(r, opened) \in {0, 1} /\ (Cost(r, opened) = 1 => r.spent < Lookback)
  BY <1>2, <1>3
<1> QED
  BY <1>1, <1>2, <1>4

\* What somebody else's write leaves of a run.
LEMMA TouchedRun ==
    ASSUME NEW r \in Run, NEW n
    PROVE  LET s == Touched(r, n) IN
           /\ SameHook(r, s) /\ s.pc = r.pc /\ s.todo = r.todo /\ s.at = r.at /\ s.due = r.due
           /\ s.spent = r.spent
           /\ s.clean => r.clean /\ n \notin r.todo \cup r.due
           /\ ~s.raced => ~r.raced /\ ~(r.pc = "abort" /\ r.at = n)
<1> DEFINE c == r.clean /\ n \notin r.todo \cup r.due
           d == r.raced \/ (r.pc = "abort" /\ r.at = n)
<1>1. Touched(r, n) = [r EXCEPT !.clean = c, !.raced = d]
  BY RunNotIdle DEF Touched
<1>2. c \in BOOLEAN /\ d \in BOOLEAN
  OBVIOUS
<1>3. (c => r.clean /\ n \notin r.todo \cup r.due) /\ (~d => ~r.raced /\ ~(r.pc = "abort" /\ r.at = n))
  OBVIOUS
<1> HIDE DEF c, d
<1>4. LET s == [r EXCEPT !.clean = c, !.raced = d] IN
      /\ s \in Run /\ s.cmd = r.cmd /\ s.path = r.path /\ s.hook = r.hook /\ s.born = r.born
      /\ s.pc = r.pc /\ s.todo = r.todo /\ s.at = r.at /\ s.due = r.due
      /\ s.spent = r.spent /\ s.clean = c /\ s.raced = d
  BY <1>2 DEF Run
<1> QED
  BY <1>1, <1>3, <1>4 DEF SameHook

\* Listing the files of a hook.
LEMMA ListedRun ==
    ASSUME TypeOK, NEW w \in Workers, ListFiles(w), Applies(runs[w])
    PROVE  LET r == runs[w]  s == runs'[w] IN
           /\ r \in Run /\ r.pc = "list" /\ file' = file
           /\ SameHook(r, s) /\ s.pc = "inspect" /\ s.todo = Listed(r) /\ s.due = Due(r)
           /\ s.spent = r.spent
           /\ Listed(r) \subseteq Names /\ Due(r) \subseteq Listed(r)
           /\ \A v \in Workers \ {w} : runs'[v] = runs[v]
           /\ runs' \in [Workers -> Run \cup {Idle}]
<1> DEFINE r == runs[w]
           s == [r EXCEPT !.pc = "inspect", !.todo = Listed(r), !.due = Due(r)]
<1>1. r \in Run /\ r.pc = "list" /\ file' = file /\ Becomes(w, s)
  BY RunType DEF ListFiles
<1>2. HookOf(r) \in {"build-fix", "recurring", "update-go"}
  BY <1>1, HookType
<1>3. Listed(r) \subseteq Names
  BY <1>2 DEF Listed, Present
<1>4. Due(r) \subseteq Listed(r)
  BY <1>2 DEF Due
<1> HIDE DEF r
<1>5. SameHook(r, s) /\ s.pc = "inspect" /\ s.todo = Listed(r) /\ s.due = Due(r) /\ s.spent = r.spent
  BY <1>1, <1>3, <1>4 DEF SameHook, Run
<1>6. s \in Run
  BY <1>5 DEF SameHook
<1> HIDE DEF s
<1>7. /\ runs'[w] = s /\ \A v \in Workers \ {w} : runs'[v] = runs[v]
      /\ runs' \in [Workers -> Run \cup {Idle}]
  BY <1>1, <1>6, BecomesRun
<1> QED
  BY <1>1, <1>3, <1>4, <1>5, <1>7 DEF r

\* Reading a file.
LEMMA InspectRun ==
    ASSUME TypeOK, NEW w \in Workers, NEW n \in Names, Inspect(w, n)
    PROVE  LET r == runs[w]
               s == runs'[w]
               opens == file[n] # Missing /\ Matches(r, file[n]) /\ IsOpen(r, file[n]) IN
           /\ r \in Run /\ SameHook(r, s) /\ file' = file
           /\ r.pc = "inspect" /\ n \in r.todo /\ Turn(r, n)
           /\ s.todo = r.todo \ {n} /\ s.at = n
           /\ s.clean = r.clean /\ s.raced = r.raced /\ s.due = r.due
           /\ s.pc = IF opens THEN "abort" ELSE "inspect"
           /\ s.spent = r.spent + (IF HookOf(r) = "recurring" \/ (HookOf(r) = "update-go" /\ opens)
                                   THEN 1 ELSE 0)
           /\ \A v \in Workers \ {w} : runs'[v] = runs[v]
           /\ runs' \in [Workers -> Run \cup {Idle}]
<1> DEFINE r == runs[w]
           opens == file[n] # Missing /\ Matches(r, file[n]) /\ IsOpen(r, file[n])
           s == [r EXCEPT !.todo = r.todo \ {n}, !.spent = r.spent + Cost(r, opens), !.at = n,
                          !.pc = IF opens THEN "abort" ELSE "inspect"]
<1>1. r \in Run /\ MayGoOn(r) /\ r.pc = "inspect" /\ n \in r.todo /\ Turn(r, n) /\ file' = file
  BY RunType DEF Inspect
<1>2. IsRetired(r, file[n]) = (Matches(r, file[n]) /\ IsOpen(r, file[n]))
  BY DEF IsRetired
<1>3. Becomes(w, s)
  BY <1>2 DEF Inspect
<1>4. opens \in BOOLEAN
  OBVIOUS
<1>5. /\ r.spent + Cost(r, opens) \in 0 .. Lookback
      /\ r.spent + Cost(r, opens) = r.spent + (IF HookOf(r) = "recurring" \/ (HookOf(r) = "update-go" /\ opens)
                                               THEN 1 ELSE 0)
  BY <1>1, <1>4, SpentOK
<1> HIDE DEF opens, r
<1>6. /\ s \in Run
      /\ s.todo = r.todo \ {n} /\ s.at = n
      /\ s.clean = r.clean /\ s.raced = r.raced /\ s.due = r.due
      /\ s.cmd = r.cmd /\ s.path = r.path /\ s.hook = r.hook /\ s.born = r.born
      /\ s.pc = IF opens THEN "abort" ELSE "inspect"
      /\ s.spent = r.spent + Cost(r, opens)
  BY <1>1, <1>5 DEF Run
<1> HIDE DEF s
<1>7. /\ runs'[w] = s /\ \A v \in Workers \ {w} : runs'[v] = runs[v]
      /\ runs' \in [Workers -> Run \cup {Idle}]
  BY <1>3, <1>6, BecomesRun
<1> QED
  BY <1>1, <1>5, <1>6, <1>7 DEF SameHook, opens, r

\* A read that fails.
LEMMA InspectFailsRun ==
    ASSUME TypeOK, NEW w \in Workers, NEW n \in Names, InspectFails(w, n)
    PROVE  LET r == runs[w]  s == runs'[w] IN
           /\ r \in Run /\ SameHook(r, s) /\ file' = file /\ r.pc = "inspect" /\ n \in r.todo
           /\ s.pc = "inspect" /\ s.todo = r.todo \ {n} /\ s.clean = FALSE
           /\ \A v \in Workers \ {w} : runs'[v] = runs[v]
           /\ runs' \in [Workers -> Run \cup {Idle}]
<1> DEFINE r == runs[w]
           s == [r EXCEPT !.todo = r.todo \ {n}, !.spent = r.spent + Cost(r, FALSE), !.clean = FALSE]
<1>1. r \in Run /\ MayGoOn(r) /\ r.pc = "inspect" /\ n \in r.todo /\ file' = file /\ Becomes(w, s)
  BY RunType DEF InspectFails
<1>2. r.spent + Cost(r, FALSE) \in 0 .. Lookback
  BY <1>1, SpentOK
<1> HIDE DEF r
<1>3. SameHook(r, s) /\ s.pc = "inspect" /\ s.todo = r.todo \ {n} /\ s.clean = FALSE
  BY <1>1, <1>2 DEF Run, SameHook
<1>4. s \in Run
  BY <1>3 DEF SameHook
<1> HIDE DEF s
<1>5. /\ runs'[w] = s /\ \A v \in Workers \ {w} : runs'[v] = runs[v]
      /\ runs' \in [Workers -> Run \cup {Idle}]
  BY <1>1, <1>4, BecomesRun
<1> QED
  BY <1>1, <1>3, <1>5 DEF r

\* The closure, and one that fails.
LEMMA AbortRun ==
    ASSUME TypeOK, NEW w \in Workers, Abort(w) \/ AbortFails(w)
    PROVE  LET r == runs[w]  s == runs'[w] IN
           /\ r \in Run /\ SameHook(r, s)
           /\ r.pc = "abort" /\ s.pc = "inspect" /\ s.todo = r.todo
           /\ Abort(w) => s.spent = r.spent /\ s.clean = r.clean /\ s.due = r.due
           /\ AbortFails(w) => s.clean = FALSE /\ file' = file
           /\ \A v \in Workers \ {w} : runs'[v] = runs[v]
           /\ runs' \in [Workers -> Run \cup {Idle}]
<1> DEFINE r == runs[w]
           s == [r EXCEPT !.pc = "inspect", !.raced = FALSE]
           t == [r EXCEPT !.pc = "inspect", !.raced = FALSE, !.clean = FALSE]
<1>1. r \in Run /\ r.pc = "abort"
  BY RunType DEF Abort, AbortFails
<1>2. (Abort(w) => Becomes(w, s)) /\ (AbortFails(w) => Becomes(w, t) /\ file' = file)
  BY DEF Abort, AbortFails
<1> HIDE DEF r
<1>3. /\ SameHook(r, s) /\ s.pc = "inspect" /\ s.todo = r.todo /\ s.spent = r.spent /\ s.clean = r.clean
      /\ s.due = r.due /\ s \in Run
  BY <1>1 DEF Run, SameHook
<1>4. SameHook(r, t) /\ t.pc = "inspect" /\ t.todo = r.todo /\ t.clean = FALSE /\ t \in Run
  BY <1>1 DEF Run, SameHook
<1> HIDE DEF s, t
<1>5. CASE Abort(w) /\ ~AbortFails(w)
  <2>1. /\ runs'[w] = s /\ \A v \in Workers \ {w} : runs'[v] = runs[v]
        /\ runs' \in [Workers -> Run \cup {Idle}]
    BY <1>2, <1>3, <1>5, BecomesRun
  <2> QED
    BY <1>1, <1>3, <1>5, <2>1 DEF r
<1>6. CASE AbortFails(w) /\ ~Abort(w)
  <2>1. /\ runs'[w] = t /\ \A v \in Workers \ {w} : runs'[v] = runs[v]
        /\ runs' \in [Workers -> Run \cup {Idle}]
    BY <1>2, <1>4, <1>6, BecomesRun
  <2> QED
    BY <1>1, <1>2, <1>4, <1>6, <2>1 DEF r
<1>7. ~(Abort(w) /\ AbortFails(w))
  BY SupersedeAssumption DEF Abort, AbortFails, Fault, TypeOK
<1> QED
  BY <1>5, <1>6, <1>7

-----------------------------------------------------------------------------
(* What the steps do to the vault. *)

\* A file that is closed and says by whom keeps everything else.
LEMMA ClosedFile ==
    ASSUME NEW f \in File, NEW r \in Run
    PROVE  LET g == AbortedBy(r, f) IN
           /\ g \in File /\ g.status = "aborted"
           /\ g.by # Nobody /\ g.by.path = r.path /\ g.by.hook = HookOf(r)
           /\ g.by.title = r.cmd.title /\ g.by.late = Late(r, f)
           /\ g.id = f.id /\ g.type = f.type /\ g.repo = f.repo /\ g.build = f.build
           /\ g.born = f.born
<1> DEFINE l == Late(r, f)
           b == [path |-> r.path, hook |-> HookOf(r), title |-> r.cmd.title, late |-> l]
<1>1. l \in BOOLEAN
  BY DEF Late
<1>2. r.cmd \in Command /\ r.path \in Names /\ HookOf(r) \in Range(Hooks)
  BY HookType, SupersedeAssumption DEF Run
<1>3. r.cmd.title \in Names
  BY <1>2 DEF Command
<1>4. AbortedBy(r, f) = [f EXCEPT !.status = "aborted", !.by = b]
  BY DEF AbortedBy
<1> HIDE DEF l
<1>5. b \in By /\ b.path = r.path /\ b.hook = HookOf(r) /\ b.title = r.cmd.title /\ b.late = l
  BY <1>1, <1>2, <1>3 DEF By
<1>6. b # Nobody
  BY <1>5, SupersedeAssumption
<1> HIDE DEF b
<1>7. LET g == [f EXCEPT !.status = "aborted", !.by = b] IN
      /\ g \in File /\ g.status = "aborted" /\ g.by = b
      /\ g.id = f.id /\ g.type = f.type /\ g.repo = f.repo /\ g.build = f.build /\ g.born = f.born
  BY <1>5 DEF File, Status, Terminal
<1> QED
  BY <1>4, <1>5, <1>6, <1>7 DEF l

\* The abort closes the file it is at, and no other.
LEMMA AbortFile ==
    ASSUME TypeOK, NEW w \in Workers, Abort(w)
    PROVE  LET r == runs[w]  f == file[r.at]  g == file'[r.at] IN
           /\ r.at \in Names
           /\ file' \in [Names -> File \cup {Missing}] /\ stores' = stores
           /\ \A n \in Names \ {r.at} : file'[n] = file[n]
           /\ \/ f = Missing /\ file' = file
              \/ /\ f # Missing /\ g # Missing /\ f \in File /\ g \in File /\ g.status = "aborted"
                 /\ g.by # Nobody /\ g.by.path = r.path /\ g.by.hook = HookOf(r)
                 /\ g.by.title = r.cmd.title /\ g.by.late = Late(r, f)
                 /\ g.id = f.id /\ g.type = f.type /\ g.repo = f.repo /\ g.build = f.build
                 /\ g.born = f.born
<1> DEFINE r == runs[w]
           f == file[r.at]
           g == AbortedBy(r, f)
<1>1. r \in Run /\ r.at \in Names
  BY RunType DEF Abort, Run
<1>2. file \in [Names -> File \cup {Missing}] /\ stores' = stores
  BY DEF TypeOK, Abort
<1>3. CASE f = Missing
  <2>1. file' = file
    BY <1>3 DEF Abort
  <2> QED
    BY <1>1, <1>2, <1>3, <2>1
<1>4. CASE f # Missing
  <2>1. f \in File
    BY <1>1, <1>2, <1>4
  <2>2. file' = [file EXCEPT ![r.at] = g]
    BY <1>4 DEF Abort
  <2>3. /\ g \in File /\ g.status = "aborted"
        /\ g.by # Nobody /\ g.by.path = r.path /\ g.by.hook = HookOf(r)
        /\ g.by.title = r.cmd.title /\ g.by.late = Late(r, f)
        /\ g.id = f.id /\ g.type = f.type /\ g.repo = f.repo /\ g.build = f.build /\ g.born = f.born
    BY <1>1, <2>1, ClosedFile
  <2> HIDE DEF g
  <2>4. g # Missing
    BY <2>3, SupersedeAssumption
  <2>5. /\ file' \in [Names -> File \cup {Missing}] /\ file'[r.at] = g
        /\ \A n \in Names \ {r.at} : file'[n] = file[n]
    BY <1>1, <1>2, <2>2, <2>3
  <2> HIDE DEF r
  <2> QED
    BY <1>1, <1>2, <1>4, <2>1, <2>3, <2>4, <2>5 DEF r
<1> QED
  BY <1>3, <1>4

\* The stored file is nobody's prior.
LEMMA NewFileType ==
    ASSUME NEW c \in Creates, NEW k \in Int
    PROVE  LET f == NewFile(c, k) IN
           f \in File /\ f.by = Nobody /\ f.status = "in_progress" /\ f.born = k /\ f # Missing
<1>1. c \in Command
  BY SupersedeAssumption
<1>2. NewFile(c, k) \in File
  BY <1>1 DEF Command, NewFile, File, Status
<1> QED
  BY <1>2, SupersedeAssumption DEF NewFile

\* A POST that stores the file, whether or not its answer arrives.
LEMMA StoreFile ==
    ASSUME TypeOK, NEW w \in Workers, runs[w] \in Run, Store(w)
    PROVE  LET p == runs[w].path IN
           /\ p \in Names /\ file' \in [Names -> File \cup {Missing}]
           /\ stores' = stores + 1 /\ stores' \in Nat
           /\ \A n \in Names \ {p} : file'[n] = file[n]
           /\ file'[p] # Missing /\ file'[p].by = Nobody /\ file'[p].status = "in_progress"
           /\ file'[p].born = stores + 1
<1> DEFINE p == runs[w].path
           f == NewFile(runs[w].cmd, stores + 1)
<1>1. stores \in Nat /\ file \in [Names -> File \cup {Missing}]
  BY DEF TypeOK
<1>2. stores + 1 \in Int /\ stores + 1 \in Nat
  BY <1>1
<1>3. p \in Names /\ runs[w].cmd \in Creates
  BY DEF Run
<1>4. f \in File /\ f.by = Nobody /\ f.status = "in_progress" /\ f.born = stores + 1 /\ f # Missing
  BY <1>2, <1>3, NewFileType
<1>5. stores' = stores + 1 /\ file' = [file EXCEPT ![p] = f]
  BY DEF Store
<1> HIDE DEF f
<1>6. /\ file' \in [Names -> File \cup {Missing}] /\ file'[p] = f
      /\ \A n \in Names \ {p} : file'[n] = file[n]
  BY <1>1, <1>3, <1>4, <1>5
<1> QED
  BY <1>2, <1>3, <1>4, <1>5, <1>6

\* The operator changes a status, but not to aborted, or deletes the file.
LEMMA EditFile ==
    ASSUME TypeOK, NEW n \in Names, OperatorEdit(n)
    PROVE  /\ file' \in [Names -> File \cup {Missing}] /\ stores' = stores
           /\ runs' = [w \in Workers |-> Touched(runs[w], n)]
           /\ \A m \in Names \ {n} : file'[m] = file[m]
           /\ file[n] # Missing
           /\ \/ file'[n] = Missing
              \/ /\ file'[n] # Missing /\ file'[n].by = file[n].by /\ file'[n].born = file[n].born
                 /\ file'[n].status \in {"in_progress", "completed"}
<1>1. file \in [Names -> File \cup {Missing}] /\ file[n] \in File /\ file[n] # Missing
  BY DEF TypeOK, OperatorEdit, Present
<1>2. stores' = stores /\ runs' = [w \in Workers |-> Touched(runs[w], n)]
  BY DEF OperatorEdit
<1>3. CASE file' = [file EXCEPT ![n] = Missing]
  BY <1>1, <1>2, <1>3
<1>4. ASSUME NEW s \in {"in_progress", "completed"}, file' = [file EXCEPT ![n].status = s]
      PROVE  /\ file' \in [Names -> File \cup {Missing}]
             /\ \A m \in Names \ {n} : file'[m] = file[m]
             /\ file'[n] \in File /\ file'[n].by = file[n].by /\ file'[n].born = file[n].born
             /\ file'[n].status = s
  <2> DEFINE g == [file[n] EXCEPT !.status = s]
  <2>1. g \in File /\ g.by = file[n].by /\ g.born = file[n].born /\ g.status = s
    BY <1>1 DEF File, Status, Terminal
  <2>2. file' = [file EXCEPT ![n] = g]
    BY <1>1, <1>4
  <2> HIDE DEF g
  <2> QED
    BY <1>1, <2>1, <2>2
<1> QED
  BY <1>1, <1>2, <1>3, <1>4, SupersedeAssumption DEF OperatorEdit

-----------------------------------------------------------------------------
(* What the steps do to the runs. *)

\* A touched worker stays of its type.
LEMMA TouchedType ==
    ASSUME TypeOK, NEW w \in Workers, NEW n
    PROVE  Touched(runs[w], n) \in Run \cup {Idle}
<1>1. CASE runs[w] = Idle
  BY <1>1 DEF Touched
<1>2. CASE runs[w] \in Run
  BY <1>2, TouchedRun DEF SameHook
<1> QED
  BY <1>1, <1>2, RunType

\* The worker that has stored a file, and the others.
LEMMA StoredRun ==
    ASSUME TypeOK, NEW w \in Workers, NEW r \in Run \cup {Idle}, NEW n, Stored(w, r, n)
    PROVE  /\ runs'[w] = r
           /\ \A v \in Workers \ {w} : runs'[v] = Touched(runs[v], n)
           /\ runs' \in [Workers -> Run \cup {Idle}]
  BY TouchedType DEF Stored

\* The first hook starts on the stored file.
LEMMA CreatedRun ==
    ASSUME TypeOK, NEW w \in Workers, runs[w] \in Run, FreshOK(runs[w]), ~InHook(runs[w]), Created(w)
    PROVE  LET r == runs[w]  s == runs'[w] IN
           /\ Store(w) /\ s \in Run /\ s.pc = "list" /\ s.spent = 0 /\ s.path = r.path
           /\ s.born = stores + 1
           /\ \A v \in Workers \ {w} : runs'[v] = Touched(runs[v], r.path)
           /\ runs' \in [Workers -> Run \cup {Idle}]
<1> DEFINE r == runs[w]
<1>1. PICK k \in Int : k = stores + 1
  BY DEF TypeOK
<1> DEFINE s == [r EXCEPT !.pc = "list", !.born = k]
<1>2. Store(w) /\ Stored(w, s, r.path) /\ r.spent = 0 /\ r \in Run
  BY <1>1, RunNotIdle DEF Created, FreshOK
<1> HIDE DEF r
<1>3. s \in Run /\ s.pc = "list" /\ s.spent = r.spent /\ s.path = r.path /\ s.born = k
  BY <1>2 DEF Run
<1> HIDE DEF s
<1>4. /\ runs'[w] = s /\ \A v \in Workers \ {w} : runs'[v] = Touched(runs[v], r.path)
      /\ runs' \in [Workers -> Run \cup {Idle}]
  BY <1>2, <1>3, StoredRun
<1> QED
  BY <1>1, <1>2, <1>3, <1>4 DEF r

\* A create starts with the title that it will POST.
LEMMA StartRun ==
    ASSUME TypeOK, NEW w \in Workers, NEW c \in Creates, Start(w, c)
    PROVE  LET s == runs'[w] IN
           /\ file' = file /\ stores' = stores
           /\ s \in Run /\ s.pc = "post" /\ s.spent = 0
           /\ \A v \in Workers \ {w} : runs'[v] = runs[v]
           /\ runs' \in [Workers -> Run \cup {Idle}]
<1>1. PICK title \in Titles(c) :
        Becomes(w, [pc |-> "post", cmd |-> c, path |-> title, born |-> 0, hook |-> 1,
                    todo |-> {}, spent |-> 0, at |-> title, clean |-> TRUE, raced |-> FALSE,
                    due |-> {}])
  BY DEF Start
<1> DEFINE s == [pc |-> "post", cmd |-> c, path |-> title, born |-> 0, hook |-> 1,
                 todo |-> {}, spent |-> 0, at |-> title, clean |-> TRUE, raced |-> FALSE,
                 due |-> {}]
<1>2. c \in Command
  BY SupersedeAssumption
<1>3. title \in Names
  BY <1>2 DEF Titles, Present, Command
<1>4. 1 \in 1 .. Len(Hooks) /\ 0 \in 0 .. Lookback
  BY HookNames, SupersedeAssumption
<1>5. s \in Run /\ s.pc = "post" /\ s.spent = 0
  BY <1>3, <1>4 DEF Run
<1> HIDE DEF s
<1>6. /\ runs'[w] = s /\ \A v \in Workers \ {w} : runs'[v] = runs[v]
      /\ runs' \in [Workers -> Run \cup {Idle}]
  BY <1>1, <1>5, BecomesRun DEF s
<1>7. file' = file /\ stores' = stores
  BY DEF Start
<1> QED
  BY <1>5, <1>6, <1>7

\* A create that stores nothing gives up, or tries the alternative title.
LEMMA PostRun ==
    ASSUME TypeOK, NEW w \in Workers, runs[w] \in Run => FreshOK(runs[w]),
           Post(w) \/ PostAlt(w) \/ PostFails(w)
    PROVE  LET r == runs[w]  s == runs'[w] IN
           /\ r \in Run /\ r.pc \in {"post", "postAlt"} /\ r.spent = 0
           /\ \/ Created(w)
              \/ Store(w) /\ Stored(w, Idle, r.path)
              \/ /\ file' = file /\ stores' = stores
                 /\ \/ s = Idle
                    \/ s \in Run /\ s.pc = "postAlt" /\ s.spent = 0
                 /\ \A v \in Workers \ {w} : runs'[v] = runs[v]
                 /\ runs' \in [Workers -> Run \cup {Idle}]
<1> DEFINE r == runs[w]
           alt == Alt(r.cmd, r.path)
           s == [r EXCEPT !.pc = "postAlt", !.path = alt, !.at = alt]
<1>1. r \in Run /\ r.pc \in {"post", "postAlt"}
  BY RunType DEF Post, PostAlt, PostFails
<1>2. r.spent = 0
  BY <1>1, RunNotIdle DEF FreshOK, InHook
<1>3. \/ Created(w)
      \/ Store(w) /\ Stored(w, Idle, r.path)
      \/ Becomes(w, Idle) /\ file' = file /\ stores' = stores
      \/ alt \in Names /\ Becomes(w, s) /\ file' = file /\ stores' = stores
  BY DEF Post, PostAlt, PostFails
<1>4. CASE Becomes(w, Idle) /\ file' = file /\ stores' = stores
  <2>1. /\ runs'[w] = Idle /\ \A v \in Workers \ {w} : runs'[v] = runs[v]
        /\ runs' \in [Workers -> Run \cup {Idle}]
    BY <1>4, BecomesRun
  <2> QED
    BY <1>1, <1>2, <1>4, <2>1
<1>5. CASE alt \in Names /\ Becomes(w, s) /\ file' = file /\ stores' = stores
  <2> HIDE DEF alt
  <2>1. s \in Run /\ s.pc = "postAlt" /\ s.spent = 0
    BY <1>1, <1>2, <1>5 DEF Run
  <2> HIDE DEF s
  <2>2. /\ runs'[w] = s /\ \A v \in Workers \ {w} : runs'[v] = runs[v]
        /\ runs' \in [Workers -> Run \cup {Idle}]
    BY <1>5, <2>1, BecomesRun
  <2> QED
    BY <1>1, <1>2, <1>5, <2>1, <2>2
<1> QED
  BY <1>1, <1>2, <1>3, <1>4, <1>5

-----------------------------------------------------------------------------
(* Types. *)

\* The steps of a hook that leave the vault alone, and where they leave the run.
LEMMA ListFilesRun ==
    ASSUME TypeOK, NEW w \in Workers, ListFiles(w) \/ ListFails(w) \/ HookDone(w)
    PROVE  /\ runs[w] \in Run /\ runs[w].pc \in {"list", "inspect"} /\ file' = file /\ stores' = stores
           /\ NextHook(w) \/ (ListFiles(w) /\ Applies(runs[w]))
  BY RunType DEF ListFiles, ListFails, HookDone

\* The counters stay within their bounds.
LEMMA CountersStep ==
    ASSUME TypeOK, Next
    PROVE  (creates \in 0 .. MaxCreates /\ faults \in 0 .. MaxFaults /\ edits \in 0 .. MaxEdits)'
<1> USE SupersedeAssumption DEF TypeOK
<1> DEFINE Goal == creates' \in 0 .. MaxCreates /\ faults' \in 0 .. MaxFaults /\ edits' \in 0 .. MaxEdits
<1>1. ASSUME NEW w \in Workers, Work(w) PROVE Goal
  <2>1. ASSUME NEW c \in Creates, Start(w, c) PROVE Goal
    BY <2>1 DEF Start
  <2>2. CASE Post(w) \/ PostAlt(w)
    BY <2>2 DEF Post, PostAlt
  <2>3. CASE ListFiles(w) \/ Abort(w) \/ HookDone(w)
    BY <2>3 DEF ListFiles, Abort, HookDone
  <2>4. CASE PostFails(w) \/ ListFails(w) \/ AbortFails(w)
    BY <2>4 DEF PostFails, ListFails, AbortFails, Fault
  <2>5. ASSUME NEW n \in Names, Inspect(w, n) \/ InspectFails(w, n) PROVE Goal
    BY <2>5 DEF Inspect, InspectFails, Fault
  <2> QED
    BY <1>1, <2>1, <2>2, <2>3, <2>4, <2>5 DEF Work
<1>2. CASE Crash
  BY <1>2 DEF Crash, Fault
<1>3. ASSUME NEW n \in Names, OperatorEdit(n) PROVE Goal
  BY <1>3 DEF OperatorEdit
<1> QED
  BY <1>1, <1>2, <1>3 DEF Next

\* The hooks leave the number of stores alone.
LEMMA StoresStep ==
    ASSUME NEW w \in Workers, Abort(w) \/ AbortFails(w) \/ \E n \in Names : Inspect(w, n) \/ InspectFails(w, n)
    PROVE  stores' = stores
  BY DEF Abort, AbortFails, Inspect, InspectFails

\* Every step keeps the types.
LEMMA TypeStep ==
    ASSUME TypeOK, \A w \in Workers : FreshOK(runs[w]), [Next]_vars
    PROVE  TypeOK'
<1>1. CASE UNCHANGED vars
  BY <1>1 DEF TypeOK, vars
<1>2. CASE Next
  <2> DEFINE Goal == /\ file' \in [Names -> File \cup {Missing}]
                     /\ runs' \in [Workers -> Run \cup {Idle}] /\ stores' \in Nat
  <2>1. (creates \in 0 .. MaxCreates /\ faults \in 0 .. MaxFaults /\ edits \in 0 .. MaxEdits)'
    BY <1>2, CountersStep
  <2>2. file \in [Names -> File \cup {Missing}] /\ stores \in Nat
    BY DEF TypeOK
  <2>3. ASSUME NEW w \in Workers, Work(w) PROVE Goal
    <3>1. ASSUME NEW c \in Creates, Start(w, c) PROVE Goal
      BY <2>2, <3>1, StartRun
    <3>2. CASE Post(w) \/ PostAlt(w) \/ PostFails(w)
      <4>1. runs[w] \in Run /\ ~InHook(runs[w]) /\ FreshOK(runs[w])
        BY <3>2, PostRun DEF InHook
      <4>2. CASE Created(w)
        BY <4>1, <4>2, CreatedRun, StoreFile
      <4>3. CASE Store(w) /\ Stored(w, Idle, runs[w].path)
        BY <4>1, <4>3, StoredRun, StoreFile
      <4>4. CASE file' = file /\ stores' = stores /\ runs' \in [Workers -> Run \cup {Idle}]
        BY <2>2, <4>4
      <4> QED
        BY <3>2, <4>1, <4>2, <4>3, <4>4, PostRun
    <3>3. CASE ListFiles(w) \/ ListFails(w) \/ HookDone(w)
      <4>1. runs[w] \in Run /\ file' = file /\ stores' = stores
        BY <3>3, ListFilesRun
      <4>2. CASE NextHook(w)
        BY <2>2, <4>1, <4>2, NextHookRun
      <4>3. CASE ListFiles(w) /\ Applies(runs[w])
        BY <2>2, <4>1, <4>3, ListedRun
      <4> QED
        BY <3>3, <4>2, <4>3, ListFilesRun
    <3>4. CASE Abort(w)
      BY <2>2, <3>4, AbortRun, AbortFile, StoresStep
    <3>5. CASE AbortFails(w)
      BY <2>2, <3>5, AbortRun, StoresStep
    <3>6. ASSUME NEW n \in Names, Inspect(w, n) PROVE Goal
      BY <2>2, <3>6, InspectRun, StoresStep
    <3>7. ASSUME NEW n \in Names, InspectFails(w, n) PROVE Goal
      BY <2>2, <3>7, InspectFailsRun, StoresStep
    <3> QED
      BY <2>3, <3>1, <3>2, <3>3, <3>4, <3>5, <3>6, <3>7 DEF Work
  <2>4. ASSUME Crash PROVE Goal
    <3>1. file' = file /\ stores' = stores /\ runs' = [w \in Workers |-> Idle]
      BY <2>4 DEF Crash
    <3> QED
      BY <2>2, <3>1
  <2>5. ASSUME NEW n \in Names, OperatorEdit(n) PROVE Goal
    BY <2>2, <2>5, EditFile, TouchedType
  <2> HIDE DEF Goal
  <2>6. Goal
    BY <1>2, <2>3, <2>4, <2>5 DEF Next
  <2> QED
    BY <2>1, <2>6 DEF TypeOK, Goal
<1> QED
  BY <1>1, <1>2

-----------------------------------------------------------------------------
(* What the other workers, and the operator, are to a run. *)

\* A write to a file that is before a hook, or is owed, disturbs it; any other
\* write does not matter.
LEMMA TouchKeeps ==
    ASSUME NEW r \in Run, NEW v, NEW u, NEW n, RunOK(v, r), \A m \in Names \ {n} : u[m] = v[m]
    PROVE  RunOK(u, Touched(r, n))
<1> DEFINE s == Touched(r, n)
<1>1. /\ SameHook(r, s) /\ s.pc = r.pc /\ s.todo = r.todo /\ s.at = r.at /\ s.due = r.due
      /\ s.spent = r.spent
      /\ s.clean => r.clean /\ n \notin r.todo \cup r.due
      /\ ~s.raced => ~r.raced /\ ~(r.pc = "abort" /\ r.at = n)
  BY TouchedRun
<1> HIDE DEF s
<1>2. s \in Run /\ s # Idle /\ r # Idle /\ s.cmd = r.cmd /\ s.path = r.path
  BY <1>1, RunNotIdle DEF SameHook
<1>3. /\ HookOf(s) = HookOf(r)
      /\ \A f : Matches(s, f) = Matches(r, f)
      /\ \A f : IsOpen(s, f) = IsOpen(r, f)
  BY <1>1, SameHookFor
<1>4. Ahead(s) = Ahead(r) /\ (InHook(s) <=> InHook(r))
  BY <1>1 DEF Ahead, InHook
<1>5. r.todo \subseteq Names /\ r.due \subseteq Names /\ r.at \in Names
  BY DEF Run
<1>6. FreshOK(s)
  BY <1>1, <1>2, <1>4 DEF RunOK, FreshOK
<1>7. TodoOK(s)
  BY <1>2, <1>3, <1>4 DEF RunOK, TodoOK
<1>8. ReadOK(u, s)
  <2>1. SUFFICES ASSUME s.pc = "abort", ~s.raced PROVE u[s.at] # Missing /\ u[s.at].status # "completed"
    BY DEF ReadOK
  <2>2. r.pc = "abort" /\ ~r.raced /\ r.at # n
    BY <1>1, <2>1
  <2>3. u[r.at] = v[r.at]
    BY <1>5, <2>2
  <2> QED
    BY <1>1, <2>2, <2>3 DEF RunOK, ReadOK
<1>9. ASSUME Undisturbed(s) PROVE Undisturbed(r) /\ \A m \in r.todo \cup r.due : u[m] = v[m]
  <2>1. r.clean /\ n \notin r.todo \cup r.due /\ InHook(r)
    BY <1>1, <1>4, <1>9 DEF Undisturbed
  <2> QED
    BY <1>5, <2>1 DEF Undisturbed
<1>10. DueOK(u, s)
  BY <1>1, <1>3, <1>4, <1>9 DEF RunOK, ProgressOK, DueOK
<1>11. RecurringOK(s)
  <2>1. SUFFICES ASSUME Undisturbed(s), HookOf(s) = "recurring"
                 PROVE  \E L \in SUBSET {m \in Names : Recognised(m)} : Latest(s, L)
    BY DEF RecurringOK
  <2>2. PICK L \in SUBSET {m \in Names : Recognised(m)} : Latest(r, L)
    BY <1>3, <1>9, <2>1 DEF RunOK, ProgressOK, RecurringOK
  <2>3. Latest(s, L)
    BY <1>1, <2>2 DEF Latest
  <2> QED
    BY <2>3
<1>12. UpdateGoOK(u, s)
  BY <1>1, <1>3, <1>9 DEF RunOK, ProgressOK, UpdateGoOK
<1> QED
  BY <1>6, <1>7, <1>8, <1>10, <1>11, <1>12 DEF RunOK, ProgressOK, s

\* The file m of u is the one of v, but closed.
ClosedIn(v, u, m) ==
    /\ v[m] # Missing /\ u[m] # Missing /\ u[m].status = "aborted"
    /\ u[m].id = v[m].id /\ u[m].type = v[m].type /\ u[m].repo = v[m].repo /\ u[m].build = v[m].build

\* A closed file matches as before, and is not open.
LEMMA ClosedMatches ==
    ASSUME NEW r \in Run, NEW v, NEW u, NEW m, ClosedIn(v, u, m)
    PROVE  Matches(r, u[m]) = Matches(r, v[m]) /\ ~IsOpen(r, u[m])
<1>1. Matches(r, u[m]) = Matches(r, v[m])
  BY DEF ClosedIn, Matches
<1>2. ~IsOpen(r, u[m])
  BY DEF ClosedIn, IsOpen, Terminal
<1> QED
  BY <1>1, <1>2

\* Two hooks do not disturb each other with what they close.
LEMMA CloseKeeps ==
    ASSUME NEW r \in Run, NEW v, NEW u, NEW n \in Names, RunOK(v, r),
           \A m \in Names \ {n} : u[m] = v[m], u[n] = v[n] \/ ClosedIn(v, u, n)
    PROVE  RunOK(u, r)
<1>1. \A m \in Names : u[m] = v[m] \/ ClosedIn(v, u, m)
  OBVIOUS
<1>2. \A m \in Names : (u[m] # Missing) = (v[m] # Missing)
  BY <1>1 DEF ClosedIn
<1>3. \A m \in Names : Matches(r, u[m]) = Matches(r, v[m]) /\ (IsOpen(r, u[m]) => IsOpen(r, v[m]))
  BY <1>1, ClosedMatches
<1>4. r.todo \subseteq Names /\ r.due \subseteq Names /\ r.at \in Names
  BY DEF Run
<1>5. ReadOK(u, r)
  BY <1>1, <1>4 DEF RunOK, ReadOK, ClosedIn
<1>6. DueOK(u, r)
  BY <1>2, <1>3, <1>4 DEF RunOK, ProgressOK, DueOK
<1>7. UpdateGoOK(u, r)
  BY <1>2, <1>3, <1>4 DEF RunOK, ProgressOK, UpdateGoOK
<1> QED
  BY <1>5, <1>6, <1>7 DEF RunOK, ProgressOK

-----------------------------------------------------------------------------
(* The steps of a hook keep its own part of the invariant. *)

\* The names are finite, and so is whatever the hooks count.
LEMMA Counted ==
    ASSUME NEW S \in SUBSET Names
    PROVE  IsFiniteSet(S) /\ Cardinality(S) \in Nat
  BY SupersedeAssumption, FS_Subset, FS_CardinalityType

\* A part of them is no larger, and smaller if it is a proper part.
LEMMA CountedMore ==
    ASSUME NEW S \in SUBSET Names, NEW T \in SUBSET S
    PROVE  Cardinality(T) <= Cardinality(S) /\ (T # S => Cardinality(T) < Cardinality(S))
  BY Counted, FS_Subset

\* One more of the listed files has been looked at.
LEMMA OneLess ==
    ASSUME NEW L \in SUBSET Names, NEW T, NEW n \in L, n \in T
    PROVE  Cardinality(L \ (T \ {n})) = Cardinality(L \ T) + 1
<1>1. L \ (T \ {n}) = (L \ T) \cup {n} /\ n \notin L \ T
  OBVIOUS
<1>2. IsFiniteSet(L \ T)
  BY Counted
<1> QED
  BY <1>1, <1>2, FS_AddElement

\* What a hook lists is there, and none of it is what TodoOK rules out.
LEMMA ListedOK ==
    ASSUME NEW r \in Run, Applies(r), NEW n \in Listed(r)
    PROVE  /\ n \in Names /\ file[n] # Missing
           /\ IF HookOf(r) = "recurring"
              THEN /\ r.cmd.recurring /\ n # r.cmd.title /\ Recognised(n)
                   /\ Ordinal[Token(n)] <= Ordinal[Token(r.cmd.title)]
              ELSE n # r.path
<1>1. HookOf(r) \in {"build-fix", "recurring", "update-go"}
  BY HookType
<1>2. CASE HookOf(r) \in {"build-fix", "update-go"}
  BY <1>2 DEF Listed, NotItself, Present
<1>3. CASE HookOf(r) = "recurring"
  <2>1. r.cmd.recurring
    BY <1>3 DEF Applies
  <2>2. n \in Present /\ n # r.cmd.title /\ Recognised(n) /\ NotNewer(r, n)
    BY <1>3 DEF Listed
  <2> QED
    BY <1>3, <2>1, <2>2 DEF NotNewer, Present
<1> QED
  BY <1>1, <1>2, <1>3

\* What a hook owes is listed, matches and, where there is a look-back, is
\* within it.
LEMMA DueFor ==
    ASSUME NEW r \in Run
    PROVE  /\ \A n \in Due(r) : n \in Listed(r) /\ Matches(r, file[n])
           /\ HookOf(r) = "recurring" =>
                \A n \in Due(r) : Cardinality(NotEarlier(Listed(r), n)) < Lookback
           /\ HookOf(r) = "update-go" /\ Due(r) # {} =>
                /\ Cardinality(Due(r)) <= Lookback
                /\ \A n \in Listed(r) : Matches(r, file[n]) /\ IsOpen(r, file[n]) => n \in Due(r)
<1> DEFINE open == {n \in Listed(r) : Matches(r, file[n]) /\ IsOpen(r, file[n])}
<1>1. Due(r) = CASE HookOf(r) = "build-fix" -> open
                 [] HookOf(r) = "recurring" -> {n \in open : Cardinality(NotEarlier(Listed(r), n)) < Lookback}
                 [] HookOf(r) = "update-go" -> IF Cardinality(open) <= Lookback THEN open ELSE {}
  BY DEF Due, NotEarlier, IsRetired
<1>2. HookOf(r) \in {"build-fix", "recurring", "update-go"}
  BY HookType
<1>3. CASE HookOf(r) = "build-fix"
  BY <1>1, <1>3
<1>4. CASE HookOf(r) = "recurring"
  <2>1. Due(r) = {n \in open : Cardinality(NotEarlier(Listed(r), n)) < Lookback}
    BY <1>1, <1>4
  <2> QED
    BY <1>4, <2>1
<1>5. CASE HookOf(r) = "update-go"
  <2>1. Due(r) = IF Cardinality(open) <= Lookback THEN open ELSE {}
    BY <1>1, <1>5
  <2> QED
    BY <1>5, <2>1
<1> QED
  BY <1>2, <1>3, <1>4, <1>5

\* Listing starts with nothing paid and everything owed before the hook.
LEMMA ListingKeeps ==
    ASSUME TypeOK, NEW w \in Workers, FreshOK(runs[w]), ListFiles(w), Applies(runs[w])
    PROVE  RunOK(file, runs'[w])
<1> DEFINE r == runs[w]
           s == runs'[w]
           L == Listed(r)
           D == Due(r)
<1>1. /\ r \in Run /\ r.pc = "list" /\ SameHook(r, s) /\ s.pc = "inspect" /\ s.todo = L /\ s.due = D
      /\ s.spent = r.spent /\ L \subseteq Names /\ D \subseteq L
  BY ListedRun
<1>2. s.spent = 0
  BY <1>1, RunNotIdle DEF FreshOK, InHook
<1>3. /\ HookOf(s) = HookOf(r) /\ s.cmd = r.cmd /\ s.path = r.path
      /\ \A f : Matches(s, f) = Matches(r, f)
      /\ \A f : IsOpen(s, f) = IsOpen(r, f)
  BY <1>1, SameHookFor DEF SameHook
<1>4. Ahead(s) = L /\ InHook(s)
  BY <1>1 DEF Ahead, InHook
<1>5. \A n \in L : /\ n \in Names /\ file[n] # Missing
                   /\ IF HookOf(r) = "recurring"
                      THEN /\ r.cmd.recurring /\ n # r.cmd.title /\ Recognised(n)
                           /\ Ordinal[Token(n)] <= Ordinal[Token(r.cmd.title)]
                      ELSE n # r.path
  BY <1>1, ListedOK
<1>6. /\ \A n \in D : n \in L /\ Matches(r, file[n])
      /\ HookOf(r) = "recurring" => \A n \in D : Cardinality(NotEarlier(L, n)) < Lookback
      /\ HookOf(r) = "update-go" /\ D # {} =>
           /\ Cardinality(D) <= Lookback
           /\ \A n \in L : Matches(r, file[n]) /\ IsOpen(r, file[n]) => n \in D
  BY <1>1, DueFor
<1> HIDE DEF L, D, r, s
<1>7. TodoOK(s)
  BY <1>3, <1>4, <1>5 DEF TodoOK
<1>8. FreshOK(s) /\ ReadOK(file, s)
  BY <1>1, <1>4 DEF FreshOK, ReadOK
<1>9. DueOK(file, s)
  BY <1>1, <1>3, <1>4, <1>5, <1>6 DEF DueOK
<1>10. RecurringOK(s)
  <2>1. SUFFICES ASSUME HookOf(r) = "recurring"
                 PROVE  \E K \in SUBSET {n \in Names : Recognised(n)} : Latest(s, K)
    BY <1>3 DEF RecurringOK
  <2>2. L \in SUBSET {n \in Names : Recognised(n)}
    BY <1>5, <2>1
  <2>3. L \ s.todo = {} /\ Cardinality({}) = 0
    BY <1>1, FS_EmptySet
  <2>4. s.spent <= Cardinality(L \ s.todo)
    BY <1>2, <2>3
  <2>5. Latest(s, L)
    BY <1>1, <1>6, <2>1, <2>3, <2>4 DEF Latest
  <2> QED
    BY <2>2, <2>5
<1>11. UpdateGoOK(file, s)
  <2>1. D \ L \in SUBSET Names
    BY <1>1
  <2>2. s.spent <= Cardinality(D \ L)
    BY <1>2, <2>1, Counted
  <2> QED
    BY <1>1, <1>3, <1>6, <2>2 DEF UpdateGoOK
<1> QED
  BY <1>7, <1>8, <1>9, <1>10, <1>11 DEF RunOK, ProgressOK, s

\* A file that is read pays for itself: it is the latest of the instances that
\* are left, or a file that is owed.
LEMMA InspectKeeps ==
    ASSUME TypeOK, NEW w \in Workers, RunOK(file, runs[w]), NEW n \in Names, Inspect(w, n)
    PROVE  RunOK(file, runs'[w])
<1> DEFINE r == runs[w]
           s == runs'[w]
           opens == file[n] # Missing /\ Matches(r, file[n]) /\ IsOpen(r, file[n])
<1>1. /\ r \in Run /\ SameHook(r, s) /\ r.pc = "inspect" /\ n \in r.todo /\ Turn(r, n)
      /\ s.todo = r.todo \ {n} /\ s.at = n
      /\ s.clean = r.clean /\ s.due = r.due
      /\ s.pc = IF opens THEN "abort" ELSE "inspect"
      /\ s.spent = r.spent + (IF HookOf(r) = "recurring" \/ (HookOf(r) = "update-go" /\ opens)
                              THEN 1 ELSE 0)
  BY InspectRun
<1>2. RunOK(file, r)
  OBVIOUS
<1> HIDE DEF opens, r, s
<1>3. /\ HookOf(s) = HookOf(r) /\ s.cmd = r.cmd /\ s.path = r.path
      /\ \A f : Matches(s, f) = Matches(r, f)
      /\ \A f : IsOpen(s, f) = IsOpen(r, f)
  BY <1>1, SameHookFor DEF SameHook
<1>4. /\ Ahead(r) = r.todo /\ Ahead(s) = (r.todo \ {n}) \cup (IF opens THEN {n} ELSE {})
      /\ InHook(s) /\ InHook(r)
  BY <1>1 DEF Ahead, InHook
<1>5. r.spent \in Nat /\ r.todo \subseteq Names /\ r.due \subseteq Names
  BY <1>1, SupersedeAssumption DEF Run
<1>6. TodoOK(s)
  <2>1. Ahead(s) \subseteq Ahead(r)
    BY <1>1, <1>4
  <2> QED
    BY <1>2, <1>3, <1>4, <2>1 DEF RunOK, TodoOK
<1>7. FreshOK(s)
  BY <1>4 DEF FreshOK
<1>8. ReadOK(file, s)
  <2>1. SUFFICES ASSUME opens PROVE file[n] # Missing /\ file[n].status # "completed"
    BY <1>1 DEF ReadOK
  <2>2. IsOpen(r, file[n]) => file[n].status # "completed"
    BY DEF IsOpen, Terminal
  <2> QED
    BY <2>1, <2>2 DEF opens
<1>9. CASE ~r.clean
  BY <1>1, <1>6, <1>7, <1>8, <1>9 DEF RunOK, ProgressOK, DueOK, RecurringOK, UpdateGoOK, Undisturbed, s
<1>10. CASE r.clean
  <2>1. Undisturbed(r)
    BY <1>4, <1>10 DEF Undisturbed
  <2>2. DueOK(file, s)
    <3>1. SUFFICES ASSUME NEW m \in r.due
                   PROVE  /\ file[m] # Missing /\ Matches(r, file[m])
                          /\ m \in Ahead(s) \/ ~IsOpen(r, file[m])
      BY <1>1, <1>3 DEF DueOK
    <3>2. /\ file[m] # Missing /\ Matches(r, file[m])
          /\ m \in r.todo \/ ~IsOpen(r, file[m])
      BY <1>2, <1>4, <2>1 DEF RunOK, ProgressOK, DueOK
    <3> QED
      BY <1>4, <3>2 DEF opens
  <2>3. RecurringOK(s)
    <3>1. SUFFICES ASSUME HookOf(r) = "recurring"
                   PROVE  \E L \in SUBSET {m \in Names : Recognised(m)} : Latest(s, L)
      BY <1>3 DEF RecurringOK
    <3>2. PICK L \in SUBSET {m \in Names : Recognised(m)} : Latest(r, L)
      BY <1>2, <2>1, <3>1 DEF RunOK, ProgressOK, RecurringOK
    <3>3. L \in SUBSET Names
      BY <3>2
    <3>4. /\ r.todo \subseteq L /\ r.due \subseteq L
          /\ r.spent <= Cardinality(L \ r.todo)
          /\ \A m \in L \ r.todo, k \in r.todo : Ordinal[Token(k)] <= Ordinal[Token(m)]
          /\ \A m \in r.due : Cardinality(NotEarlier(L, m)) < Lookback
      BY <3>2 DEF Latest
    <3>5. Cardinality(L \ s.todo) = Cardinality(L \ r.todo) + 1
      BY <1>1, <3>3, <3>4, OneLess
    <3>6. s.spent <= Cardinality(L \ s.todo)
      <4>1. Cardinality(L \ r.todo) \in Nat
        BY <3>3, Counted
      <4>2. s.spent = r.spent + 1
        BY <1>1, <3>1
      <4> QED
        BY <1>5, <3>4, <3>5, <4>1, <4>2
    <3>7. \A k \in r.todo : Ordinal[Token(k)] <= Ordinal[Token(n)]
      BY <1>1, <3>1 DEF Turn
    <3>8. ASSUME NEW m \in L \ s.todo, NEW k \in s.todo
          PROVE  Ordinal[Token(k)] <= Ordinal[Token(m)]
      <4>1. k \in r.todo /\ (m \in L \ r.todo \/ m = n)
        BY <1>1, <3>8
      <4> QED
        BY <3>4, <3>7, <4>1
    <3>9. Latest(s, L)
      BY <1>1, <3>4, <3>6, <3>8 DEF Latest
    <3> QED
      BY <3>2, <3>9
  <2>4. UpdateGoOK(file, s)
    <3>1. SUFFICES ASSUME HookOf(r) = "update-go", r.due # {}
                   PROVE  /\ Cardinality(r.due) <= Lookback
                          /\ s.spent <= Cardinality(r.due \ s.todo)
                          /\ \A m \in s.todo : file[m] # Missing /\ Matches(r, file[m]) /\ IsOpen(r, file[m])
                                => m \in r.due
      BY <1>1, <1>3 DEF UpdateGoOK
    <3>2. /\ Cardinality(r.due) <= Lookback
          /\ r.spent <= Cardinality(r.due \ r.todo)
          /\ \A m \in r.todo : file[m] # Missing /\ Matches(r, file[m]) /\ IsOpen(r, file[m]) => m \in r.due
      BY <1>2, <2>1, <3>1 DEF RunOK, ProgressOK, UpdateGoOK
    <3>3. /\ Cardinality(r.due \ r.todo) \in Nat /\ Cardinality(r.due \ s.todo) \in Nat
          /\ Cardinality(r.due \ r.todo) <= Cardinality(r.due \ s.todo)
      <4>1. r.due \ r.todo \in SUBSET (r.due \ s.todo) /\ r.due \ s.todo \in SUBSET Names
        BY <1>1, <1>5
      <4> QED
        BY <4>1, Counted, CountedMore
    <3>4. s.spent <= Cardinality(r.due \ s.todo)
      <4>1. CASE opens
        <5>1. n \in r.due
          BY <1>1, <3>2, <4>1 DEF opens
        <5>2. Cardinality(r.due \ s.todo) = Cardinality(r.due \ r.todo) + 1
          <6>1. r.due \in SUBSET Names /\ n \in r.todo /\ s.todo = r.todo \ {n}
            BY <1>1, <1>5
          <6>2. Cardinality(r.due \ (r.todo \ {n})) = Cardinality(r.due \ r.todo) + 1
            BY <5>1, <6>1, OneLess
          <6> QED
            BY <6>1, <6>2
        <5>3. s.spent = r.spent + 1
          BY <1>1, <3>1, <4>1
        <5> QED
          BY <1>5, <3>2, <3>3, <5>2, <5>3
      <4>2. CASE ~opens
        <5>1. s.spent = r.spent
          BY <1>1, <1>5, <3>1, <4>2
        <5> QED
          BY <1>5, <3>2, <3>3, <5>1
      <4> QED
        BY <4>1, <4>2
    <3> QED
      BY <1>1, <3>2, <3>4
  <2> QED
    BY <1>6, <1>7, <1>8, <2>2, <2>3, <2>4 DEF RunOK, ProgressOK, s
<1> QED
  BY <1>1, <1>9, <1>10 DEF Run

\* What the hook closes is closed for the other workers' hooks as well.
LEMMA AbortCloses ==
    ASSUME TypeOK, NEW w \in Workers, Abort(w)
    PROVE  LET at == runs[w].at IN
           /\ at \in Names /\ \A m \in Names \ {at} : file'[m] = file[m]
           /\ file'[at] = file[at] \/ ClosedIn(file, file', at)
           /\ file[at] # Missing => ClosedIn(file, file', at)
<1> DEFINE at == runs[w].at
<1>1. CASE file[at] = Missing /\ file' = file
  BY <1>1, AbortFile
<1>2. CASE file[at] # Missing
  <2>1. ClosedIn(file, file', at)
    BY <1>2, AbortFile DEF ClosedIn
  <2> QED
    BY <2>1, AbortFile
<1> QED
  BY <1>1, <1>2, AbortFile

\* The closed file is owed no more.
LEMMA AbortKeeps ==
    ASSUME TypeOK, NEW w \in Workers, RunOK(file, runs[w]), Abort(w)
    PROVE  RunOK(file', runs'[w])
<1> DEFINE r == runs[w]
           s == runs'[w]
           u == file'
<1>1. /\ r \in Run /\ SameHook(r, s) /\ r.pc = "abort" /\ s.pc = "inspect" /\ s.todo = r.todo
      /\ s.spent = r.spent /\ s.clean = r.clean /\ s.due = r.due
  BY AbortRun
<1>2. /\ r.at \in Names /\ \A m \in Names \ {r.at} : u[m] = file[m]
      /\ u[r.at] = file[r.at] \/ ClosedIn(file, u, r.at)
      /\ file[r.at] # Missing => ClosedIn(file, u, r.at)
  BY AbortCloses
<1>3. RunOK(file, r)
  OBVIOUS
<1> HIDE DEF r, s, u
<1>4. RunOK(u, r)
  BY <1>1, <1>2, <1>3, CloseKeeps
<1>5. /\ HookOf(s) = HookOf(r) /\ s.cmd = r.cmd /\ s.path = r.path
      /\ \A f : Matches(s, f) = Matches(r, f)
      /\ \A f : IsOpen(s, f) = IsOpen(r, f)
  BY <1>1, SameHookFor DEF SameHook
<1>6. Ahead(r) = r.todo \cup {r.at} /\ Ahead(s) = r.todo /\ InHook(r) /\ InHook(s)
  BY <1>1 DEF Ahead, InHook
<1>7. TodoOK(s)
  BY <1>4, <1>5, <1>6 DEF RunOK, TodoOK
<1>8. FreshOK(s) /\ ReadOK(u, s)
  BY <1>1, <1>6 DEF FreshOK, ReadOK
<1>9. Undisturbed(s) => Undisturbed(r)
  BY <1>1, <1>6 DEF Undisturbed
<1>10. DueOK(u, s)
  <2>1. SUFFICES ASSUME Undisturbed(s), NEW n \in r.due
                 PROVE  u[n] # Missing /\ Matches(r, u[n]) /\ (n \in r.todo \/ ~IsOpen(r, u[n]))
    BY <1>1, <1>5, <1>6 DEF DueOK
  <2>2. u[n] # Missing /\ Matches(r, u[n]) /\ (n \in r.todo \cup {r.at} \/ ~IsOpen(r, u[n]))
    BY <1>4, <1>6, <1>9, <2>1 DEF RunOK, ProgressOK, DueOK
  <2>3. n = r.at => file[n] # Missing
    BY <1>3, <1>9, <2>1 DEF RunOK, ProgressOK, DueOK
  <2>4. n = r.at => ~IsOpen(r, u[n])
    BY <1>1, <1>2, <2>3, ClosedMatches
  <2> QED
    BY <2>2, <2>4
<1>11. RecurringOK(s)
  <2>1. SUFFICES ASSUME Undisturbed(s), HookOf(s) = "recurring"
                 PROVE  \E L \in SUBSET {m \in Names : Recognised(m)} : Latest(s, L)
    BY DEF RecurringOK
  <2>2. PICK L \in SUBSET {m \in Names : Recognised(m)} : Latest(r, L)
    BY <1>4, <1>5, <1>9, <2>1 DEF RunOK, ProgressOK, RecurringOK
  <2>3. Latest(s, L)
    BY <1>1, <2>2 DEF Latest
  <2> QED
    BY <2>3
<1>12. UpdateGoOK(u, s)
  BY <1>1, <1>4, <1>5, <1>9 DEF RunOK, ProgressOK, UpdateGoOK
<1> QED
  BY <1>7, <1>8, <1>10, <1>11, <1>12 DEF RunOK, ProgressOK, s, u

\* A failure on a file disturbs the hook.
LEMMA FailureKeeps ==
    ASSUME TypeOK, NEW w \in Workers, RunOK(file, runs[w]),
           AbortFails(w) \/ \E n \in Names : InspectFails(w, n)
    PROVE  RunOK(file, runs'[w])
<1> DEFINE r == runs[w]
           s == runs'[w]
<1>1. /\ r \in Run /\ SameHook(r, s) /\ InHook(r) /\ s.pc = "inspect" /\ s.todo \subseteq r.todo
      /\ s.clean = FALSE
  BY AbortRun, InspectFailsRun DEF InHook
<1>2. RunOK(file, r)
  OBVIOUS
<1> HIDE DEF r, s
<1>3. Ahead(s) \subseteq Ahead(r) /\ InHook(s) /\ ~Undisturbed(s)
  BY <1>1 DEF Ahead, InHook, Undisturbed
<1>4. HookOf(s) = HookOf(r) /\ s.cmd = r.cmd /\ s.path = r.path
  BY <1>1, SameHookFor DEF SameHook
<1>5. TodoOK(s)
  BY <1>1, <1>2, <1>3, <1>4 DEF RunOK, TodoOK
<1>6. FreshOK(s) /\ ReadOK(file, s)
  BY <1>1, <1>3 DEF FreshOK, ReadOK
<1> QED
  BY <1>3, <1>5, <1>6 DEF RunOK, ProgressOK, DueOK, RecurringOK, UpdateGoOK, s

-----------------------------------------------------------------------------
(* The order in which files were stored. *)

\* It does not change when files are closed, reopened or deleted.
LEMMA BornStays ==
    ASSUME NEW v, NEW u, NEW k, NEW r, NEW s, BornOK(v, r, k),
           s.pc \in {"list", "inspect", "abort"} =>
             r.pc \in {"list", "inspect", "abort"} /\ s.path = r.path /\ s.born = r.born,
           \A n \in Names : u[n] # Missing => v[n] # Missing /\ u[n].born = v[n].born
    PROVE  BornOK(u, s, k)
<1>1. SUFFICES ASSUME s.pc \in {"list", "inspect", "abort"}
               PROVE  /\ r.born <= k
                      /\ \A n \in Names : u[n] # Missing =>
                            IF n = r.path THEN u[n].born >= r.born ELSE u[n].born # r.born
  BY DEF BornOK
<1>2. /\ r.born <= k
      /\ \A n \in Names : v[n] # Missing =>
            IF n = r.path THEN v[n].born >= r.born ELSE v[n].born # r.born
  BY <1>1 DEF BornOK
<1> QED
  BY <1>2

\* A new file is younger than all others.
LEMMA BornNext ==
    ASSUME NEW v, NEW u, NEW k \in Nat, NEW r \in Run, NEW s, NEW p \in Names, BornOK(v, r, k),
           s.pc = r.pc, s.path = r.path, s.born = r.born,
           u[p].born = k + 1, \A n \in Names \ {p} : u[n] = v[n]
    PROVE  BornOK(u, s, k + 1)
<1>1. SUFFICES ASSUME s.pc \in {"list", "inspect", "abort"}
               PROVE  /\ r.born <= k + 1
                      /\ \A n \in Names : u[n] # Missing =>
                            IF n = r.path THEN u[n].born >= r.born ELSE u[n].born # r.born
  BY DEF BornOK
<1>2. /\ r.born <= k
      /\ \A n \in Names : v[n] # Missing =>
            IF n = r.path THEN v[n].born >= r.born ELSE v[n].born # r.born
  BY <1>1 DEF BornOK
<1>3. r.born \in Int
  BY DEF Run
<1>4. r.born <= k + 1 /\ k + 1 >= r.born /\ k + 1 # r.born
  BY <1>2, <1>3
<1>5. ASSUME NEW n \in Names, u[n] # Missing
      PROVE  IF n = r.path THEN u[n].born >= r.born ELSE u[n].born # r.born
  <2>1. CASE n = p
    BY <1>4, <2>1
  <2>2. CASE n # p
    BY <1>2, <1>5, <2>2
  <2> QED
    BY <2>1, <2>2
<1> QED
  BY <1>4, <1>5

\* The run that has stored it knows it.
LEMMA BornNew ==
    ASSUME NEW v, NEW u, NEW k \in Nat, NEW s, NEW p \in Names, VaultBorn(v, k),
           v \in [Names -> File \cup {Missing}],
           s.path = p, s.born = k + 1, u[p].born = k + 1, \A n \in Names \ {p} : u[n] = v[n]
    PROVE  BornOK(u, s, k + 1)
<1>1. ASSUME NEW n \in Names, u[n] # Missing
      PROVE  IF n = p THEN u[n].born >= k + 1 ELSE u[n].born # k + 1
  <2>1. CASE n = p
    BY <2>1
  <2>2. CASE n # p
    <3>1. u[n] = v[n] /\ v[n] \in File
      BY <1>1, <2>2
    <3>2. v[n].born \in Int /\ v[n].born <= k
      BY <1>1, <3>1 DEF File, VaultBorn
    <3> QED
      BY <2>2, <3>1, <3>2
  <2> QED
    BY <2>1, <2>2
<1>2. k + 1 <= k + 1
  OBVIOUS
<1> QED
  BY <1>1, <1>2 DEF BornOK

\* The number of stores bounds the vault.
LEMMA VaultNext ==
    ASSUME NEW v, NEW u, NEW k \in Nat, NEW p \in Names, VaultBorn(v, k),
           v \in [Names -> File \cup {Missing}],
           u[p].born = k + 1, \A n \in Names \ {p} : u[n] = v[n]
    PROVE  VaultBorn(u, k + 1)
<1>1. SUFFICES ASSUME NEW n \in Names, u[n] # Missing PROVE u[n].born <= k + 1
  BY DEF VaultBorn
<1>2. CASE n = p
  BY <1>2
<1>3. CASE n # p
  <2>1. u[n] = v[n] /\ v[n] \in File
    BY <1>1, <1>3
  <2>2. v[n].born \in Int /\ v[n].born <= k
    BY <1>1, <2>1 DEF File, VaultBorn
  <2> QED
    BY <2>1, <2>2
<1> QED
  BY <1>2, <1>3

-----------------------------------------------------------------------------
(* Every step keeps the invariant. *)

\* A step of one worker that leaves the vault alone.
LEMMA QuietStep ==
    ASSUME SupersedeInv, NEW w \in Workers, file' = file, stores' = stores,
           \A v \in Workers \ {w} : runs'[v] = runs[v],
           RunOK(file, runs'[w]), BornOK(file, runs'[w], stores)
    PROVE  /\ VaultBorn(file', stores')
           /\ \A v \in Workers : RunOK(file', runs'[v]) /\ BornOK(file', runs'[v], stores')
<1>1. /\ VaultBorn(file, stores)
      /\ \A v \in Workers : RunOK(file, runs[v]) /\ BornOK(file, runs[v], stores)
  BY DEF SupersedeInv
<1>2. ASSUME NEW v \in Workers PROVE RunOK(file, runs'[v]) /\ BornOK(file, runs'[v], stores)
  BY <1>1, <1>2
<1> QED
  BY <1>1, <1>2

\* A run that goes on in its hooks knows its file as before.
LEMMA HookBorn ==
    ASSUME NEW r, NEW s, NEW v, NEW k, BornOK(v, r, k), r.pc \in {"list", "inspect", "abort"},
           s.path = r.path, s.born = r.born
    PROVE  BornOK(v, s, k)
  BY DEF BornOK

\* A worker whose file somebody else has written to.
LEMMA TouchedWorker ==
    ASSUME SupersedeInv, NEW w \in Workers, NEW n \in Names, NEW u,
           \A m \in Names \ {n} : u[m] = file[m]
    PROVE  LET s == Touched(runs[w], n) IN
           /\ RunOK(u, s)
           /\ u[n].born = stores + 1 => BornOK(u, s, stores + 1)
           /\ (u[n] # Missing => file[n] # Missing /\ u[n].born = file[n].born) => BornOK(u, s, stores)
<1>0. TypeOK /\ stores \in Nat
  BY DEF SupersedeInv, TypeOK
<1>1. CASE runs[w] = Idle
  <2>1. Touched(runs[w], n) = Idle
    BY <1>1 DEF Touched
  <2> QED
    BY <2>1, IdleOK
<1>2. CASE runs[w] \in Run
  <2> DEFINE r == runs[w]
             s == Touched(r, n)
  <2>1. RunOK(file, r) /\ BornOK(file, r, stores)
    BY DEF SupersedeInv
  <2>2. RunOK(u, s)
    BY <1>2, <2>1, TouchKeeps
  <2>3. s.pc = r.pc /\ s.path = r.path /\ s.born = r.born
    BY <1>2, TouchedRun DEF SameHook
  <2> HIDE DEF r, s
  <2>4. u[n].born = stores + 1 => BornOK(u, s, stores + 1)
    BY <1>0, <1>2, <2>1, <2>3, BornNext DEF r
  <2>5. ASSUME u[n] # Missing => file[n] # Missing /\ u[n].born = file[n].born
        PROVE  BornOK(u, s, stores)
    <3>1. \A m \in Names : u[m] # Missing => file[m] # Missing /\ u[m].born = file[m].born
      BY <2>5
    <3> QED
      BY <2>1, <2>3, <3>1, BornStays
  <2> QED
    BY <2>2, <2>4, <2>5 DEF r, s
<1> QED
  BY <1>0, <1>1, <1>2, RunType

\* A POST that stores a file.
LEMMA StoreKeeps ==
    ASSUME SupersedeInv, NEW w \in Workers, runs[w] \in Run, ~InHook(runs[w]),
           Created(w) \/ (Store(w) /\ Stored(w, Idle, runs[w].path))
    PROVE  /\ VaultBorn(file', stores')
           /\ \A v \in Workers : RunOK(file', runs'[v]) /\ BornOK(file', runs'[v], stores')
<1> DEFINE p == runs[w].path
           u == file'
<1>1. TypeOK /\ VaultBorn(file, stores) /\ FreshOK(runs[w]) /\ stores \in Nat
      /\ file \in [Names -> File \cup {Missing}]
  BY DEF SupersedeInv, RunOK, TypeOK
<1>2. Store(w)
  BY DEF Created
<1>3. /\ p \in Names /\ stores' = stores + 1 /\ \A n \in Names \ {p} : u[n] = file[n]
      /\ u[p].born = stores + 1
  BY <1>1, <1>2, StoreFile
<1>4. \A v \in Workers \ {w} : runs'[v] = Touched(runs[v], p)
  BY <1>1, CreatedRun, StoredRun
<1>5. \/ runs'[w] = Idle
      \/ runs'[w] \in Run /\ runs'[w].pc = "list" /\ runs'[w].spent = 0 /\ runs'[w].path = p
         /\ runs'[w].born = stores + 1
  BY <1>1, CreatedRun, StoredRun
<1> HIDE DEF p, u
<1>6. VaultBorn(u, stores + 1)
  BY <1>1, <1>3, VaultNext
<1>7. ASSUME NEW v \in Workers \ {w} PROVE RunOK(u, runs'[v]) /\ BornOK(u, runs'[v], stores + 1)
  BY <1>3, <1>4, <1>7, TouchedWorker
<1>8. RunOK(u, runs'[w]) /\ BornOK(u, runs'[w], stores + 1)
  <2>1. CASE runs'[w] = Idle
    BY <2>1, IdleOK
  <2>2. CASE runs'[w] # Idle
    <3> DEFINE s == runs'[w]
    <3>1. s \in Run /\ s.pc = "list" /\ s.spent = 0 /\ s.path = p /\ s.born = stores + 1
      BY <1>5, <2>2
    <3> HIDE DEF s
    <3>2. RunOK(u, s)
      BY <3>1, FreshRun DEF InHook
    <3>3. BornOK(u, s, stores + 1)
      BY <1>1, <1>3, <3>1, BornNew
    <3> QED
      BY <3>2, <3>3 DEF s
  <2> QED
    BY <2>1, <2>2
<1> QED
  BY <1>3, <1>6, <1>7, <1>8 DEF u

\* An abort leaves the other workers' hooks as they are.
LEMMA CloseStep ==
    ASSUME SupersedeInv, NEW w \in Workers, Abort(w)
    PROVE  /\ VaultBorn(file', stores')
           /\ \A v \in Workers : RunOK(file', runs'[v]) /\ BornOK(file', runs'[v], stores')
<1> DEFINE at == runs[w].at
           u == file'
<1>1. TypeOK /\ VaultBorn(file, stores)
  BY DEF SupersedeInv
<1>2. /\ at \in Names /\ \A m \in Names \ {at} : u[m] = file[m]
      /\ u[at] = file[at] \/ ClosedIn(file, u, at)
  BY <1>1, AbortCloses
<1>3. stores' = stores /\ \A n \in Names : u[n] # Missing => file[n] # Missing /\ u[n].born = file[n].born
  <2>1. u[at] # Missing => file[at] # Missing /\ u[at].born = file[at].born
    BY <1>1, AbortFile
  <2> QED
    BY <1>1, <1>2, <2>1, AbortFile
<1>4. \A v \in Workers \ {w} : runs'[v] = runs[v]
  BY <1>1, AbortRun
<1>5. RunOK(u, runs'[w])
  BY <1>1, AbortKeeps DEF SupersedeInv
<1>6. /\ runs[w].pc = "abort" /\ runs'[w].path = runs[w].path /\ runs'[w].born = runs[w].born
  BY <1>1, AbortRun DEF SameHook
<1> HIDE DEF at, u
<1>7. VaultBorn(u, stores)
  BY <1>1, <1>3 DEF VaultBorn
<1>8. BornOK(u, runs'[w], stores)
  <2>1. BornOK(file, runs[w], stores)
    BY DEF SupersedeInv
  <2> QED
    BY <1>3, <1>6, <2>1, BornStays
<1>9. ASSUME NEW v \in Workers \ {w} PROVE RunOK(u, runs'[v]) /\ BornOK(u, runs'[v], stores)
  <2>1. runs'[v] = runs[v] /\ RunOK(file, runs[v]) /\ BornOK(file, runs[v], stores)
    BY <1>4, <1>9 DEF SupersedeInv
  <2>2. BornOK(u, runs[v], stores)
    BY <1>3, <2>1, BornStays
  <2>3. CASE runs[v] = Idle
    BY <2>1, <2>2, <2>3, IdleOK
  <2>4. CASE runs[v] \in Run
    BY <1>2, <2>1, <2>2, <2>4, CloseKeeps
  <2> QED
    BY <1>1, <1>9, <2>3, <2>4, RunType
<1> QED
  BY <1>3, <1>5, <1>7, <1>8, <1>9 DEF u

\* An edit of the operator disturbs whom it concerns.
LEMMA EditStep ==
    ASSUME SupersedeInv, NEW n \in Names, OperatorEdit(n)
    PROVE  /\ VaultBorn(file', stores')
           /\ \A v \in Workers : RunOK(file', runs'[v]) /\ BornOK(file', runs'[v], stores')
<1> DEFINE u == file'
<1>1. TypeOK /\ VaultBorn(file, stores)
  BY DEF SupersedeInv
<1>2. /\ stores' = stores /\ \A v \in Workers : runs'[v] = Touched(runs[v], n)
      /\ \A m \in Names \ {n} : u[m] = file[m]
      /\ u[n] # Missing => file[n] # Missing /\ u[n].born = file[n].born
  BY <1>1, EditFile
<1> HIDE DEF u
<1>3. VaultBorn(u, stores)
  BY <1>1, <1>2 DEF VaultBorn
<1>4. ASSUME NEW v \in Workers PROVE RunOK(u, runs'[v]) /\ BornOK(u, runs'[v], stores)
  BY <1>2, <1>4, TouchedWorker
<1> QED
  BY <1>2, <1>3, <1>4 DEF u

\* A step of a worker.
LEMMA WorkStep ==
    ASSUME SupersedeInv, NEW w \in Workers, Work(w)
    PROVE  /\ VaultBorn(file', stores')
           /\ \A v \in Workers : RunOK(file', runs'[v]) /\ BornOK(file', runs'[v], stores')
<1> DEFINE Goal == /\ VaultBorn(file', stores')
                   /\ \A v \in Workers : RunOK(file', runs'[v]) /\ BornOK(file', runs'[v], stores')
           r == runs[w]
           s == runs'[w]
<1>1. TypeOK /\ RunOK(file, r) /\ BornOK(file, r, stores) /\ FreshOK(r)
  BY DEF SupersedeInv, RunOK
<1>2. ASSUME NEW c \in Creates, Start(w, c) PROVE Goal
  <2>1. /\ file' = file /\ stores' = stores /\ \A v \in Workers \ {w} : runs'[v] = runs[v]
        /\ s \in Run /\ s.pc = "post" /\ s.spent = 0
    BY <1>1, <1>2, StartRun
  <2>2. RunOK(file, s) /\ BornOK(file, s, stores)
    BY <2>1, FreshRun DEF InHook, BornOK
  <2> QED
    BY <2>1, <2>2, QuietStep
<1>3. CASE Post(w) \/ PostAlt(w) \/ PostFails(w)
  <2>1. r \in Run /\ ~InHook(r)
    BY <1>1, <1>3, PostRun DEF InHook
  <2>2. CASE Created(w) \/ (Store(w) /\ Stored(w, Idle, r.path))
    BY <2>1, <2>2, StoreKeeps
  <2>3. CASE /\ file' = file /\ stores' = stores /\ \A v \in Workers \ {w} : runs'[v] = runs[v]
             /\ s = Idle \/ (s \in Run /\ s.pc = "postAlt" /\ s.spent = 0)
    <3>1. RunOK(file, s) /\ BornOK(file, s, stores)
      BY <2>3, IdleOK, FreshRun DEF InHook, BornOK
    <3> QED
      BY <2>3, <3>1, QuietStep
  <2> QED
    BY <1>1, <1>3, <2>2, <2>3, PostRun
<1>4. CASE ListFiles(w) \/ ListFails(w) \/ HookDone(w)
  <2>1. r \in Run /\ r.pc \in {"list", "inspect"} /\ file' = file /\ stores' = stores
    BY <1>1, <1>4, ListFilesRun
  <2>2. CASE NextHook(w)
    <3>1. /\ \A v \in Workers \ {w} : runs'[v] = runs[v]
          /\ \/ s = Idle
             \/ s \in Run /\ s.pc = "list" /\ s.spent = 0 /\ s.path = r.path /\ s.born = r.born
      BY <1>1, <2>1, <2>2, NextHookRun
    <3>2. RunOK(file, s)
      BY <3>1, IdleOK, FreshRun DEF InHook
    <3>3. BornOK(file, s, stores)
      BY <1>1, <2>1, <3>1, IdleOK, HookBorn
    <3> QED
      BY <2>1, <3>1, <3>2, <3>3, QuietStep
  <2>3. CASE ListFiles(w) /\ Applies(r)
    <3>1. /\ \A v \in Workers \ {w} : runs'[v] = runs[v]
          /\ s.path = r.path /\ s.born = r.born
      BY <1>1, <2>3, ListedRun DEF SameHook
    <3>2. RunOK(file, s)
      BY <1>1, <2>3, ListingKeeps
    <3>3. BornOK(file, s, stores)
      BY <1>1, <2>1, <3>1, HookBorn
    <3> QED
      BY <2>1, <3>1, <3>2, <3>3, QuietStep
  <2> QED
    BY <1>1, <1>4, <2>2, <2>3, ListFilesRun
<1>5. CASE Abort(w)
  BY <1>5, CloseStep
<1>6. CASE AbortFails(w) \/ \E n \in Names : InspectFails(w, n)
  <2>1. /\ file' = file /\ stores' = stores /\ \A v \in Workers \ {w} : runs'[v] = runs[v]
        /\ r.pc \in {"inspect", "abort"} /\ s.path = r.path /\ s.born = r.born
    BY <1>1, <1>6, AbortRun, InspectFailsRun, StoresStep DEF SameHook
  <2>2. RunOK(file, s)
    BY <1>1, <1>6, FailureKeeps
  <2>3. BornOK(file, s, stores)
    BY <1>1, <2>1, HookBorn
  <2> QED
    BY <2>1, <2>2, <2>3, QuietStep
<1>7. ASSUME NEW n \in Names, Inspect(w, n) PROVE Goal
  <2>1. /\ file' = file /\ stores' = stores /\ \A v \in Workers \ {w} : runs'[v] = runs[v]
        /\ r.pc = "inspect" /\ s.path = r.path /\ s.born = r.born
    BY <1>1, <1>7, InspectRun, StoresStep DEF SameHook
  <2>2. RunOK(file, s)
    BY <1>1, <1>7, InspectKeeps
  <2>3. BornOK(file, s, stores)
    BY <1>1, <2>1, HookBorn
  <2> QED
    BY <2>1, <2>2, <2>3, QuietStep
<1> HIDE DEF Goal
<1>8. (Post(w) \/ PostAlt(w) \/ PostFails(w)) => Goal
  BY <1>3 DEF Goal
<1>9. (ListFiles(w) \/ ListFails(w) \/ HookDone(w)) => Goal
  BY <1>4 DEF Goal
<1>10. (Abort(w) \/ AbortFails(w) \/ \E n \in Names : InspectFails(w, n)) => Goal
  BY <1>5, <1>6 DEF Goal
<1>11. Goal
  BY <1>2, <1>7, <1>8, <1>9, <1>10 DEF Work
<1> QED
  BY <1>11 DEF Goal

-----------------------------------------------------------------------------
(* The theorems. *)

\* The invariant holds from the start.
LEMMA InitInv == Init => SupersedeInv
<1> SUFFICES ASSUME Init PROVE SupersedeInv
  OBVIOUS
<1>1. TypeOK
  BY SupersedeAssumption DEF Init, TypeOK
<1>2. VaultBorn(file, stores)
  BY SupersedeAssumption DEF Init, VaultBorn
<1>3. \A w \in Workers : runs[w] = Idle
  BY DEF Init
<1> QED
  BY <1>1, <1>2, <1>3, IdleOK DEF SupersedeInv

\* Every step keeps it.
LEMMA StepInv == SupersedeInv /\ [Next]_vars => SupersedeInv'
<1> SUFFICES ASSUME SupersedeInv, [Next]_vars PROVE SupersedeInv'
  OBVIOUS
<1> DEFINE Goal == /\ VaultBorn(file', stores')
                   /\ \A v \in Workers : RunOK(file', runs'[v]) /\ BornOK(file', runs'[v], stores')
<1>1. TypeOK'
  BY TypeStep DEF SupersedeInv, RunOK
<1>2. ASSUME NEW w \in Workers, Work(w) PROVE Goal
  BY <1>2, WorkStep
<1>3. ASSUME Crash PROVE Goal
  <2>1. file' = file /\ stores' = stores /\ \A v \in Workers : runs'[v] = Idle
    BY <1>3 DEF Crash
  <2> QED
    BY <2>1, IdleOK DEF SupersedeInv
<1>4. ASSUME NEW n \in Names, OperatorEdit(n) PROVE Goal
  BY <1>4, EditStep
<1>5. ASSUME UNCHANGED vars PROVE Goal
  BY <1>5 DEF SupersedeInv, vars
<1> HIDE DEF Goal
<1>6. Goal
  BY <1>2, <1>3, <1>4, <1>5 DEF Next
<1> QED
  BY <1>1, <1>6 DEF SupersedeInv, Goal

\* The hooks of the create-task executor keep the invariant above, whatever other
\* creates do meanwhile: the build-fix and the update-go hook never have the file
\* of their own create before them, and the recurring hook neither the command's
\* title nor a later instance; what was read to be aborted is not completed
\* unless somebody wrote to it since; and a hook that nothing disturbed has paid
\* for the latest instances, or for files that it owes
\* (supersedePriorRecurringTask, supersedePriorUpdateGoTasks,
\* retireSupersededBuildFixTasks).
THEOREM HooksInvariant == Spec => []SupersedeInv
  BY InitInv, StepInv, PTL DEF Spec

\* The vault, the runs of the creates and the counters keep their types; above all
\* no hook spends more than SUPERSEDE_LOOKBACK (collapseCandidates,
\* supersedePriorUpdateGoTasks).
THEOREM SupersedeTypeCorrect == Spec => []TypeOK
<1>1. SupersedeInv => TypeOK
  BY DEF SupersedeInv
<1> QED
  BY <1>1, HooksInvariant, PTL

-----------------------------------------------------------------------------
(* Who gave way to whom. *)

\* The steps that write to the vault.
LEMMA VaultStep ==
    ASSUME SupersedeInv, [Next]_vars
    PROVE  \/ file' = file
           \/ \E w \in Workers : runs[w] \in Run /\ Store(w)
           \/ \E w \in Workers : Abort(w)
           \/ \E n \in Names : OperatorEdit(n)
<1> DEFINE Goal == \/ file' = file
                   \/ \E w \in Workers : runs[w] \in Run /\ Store(w)
                   \/ \E w \in Workers : Abort(w)
                   \/ \E n \in Names : OperatorEdit(n)
<1>1. TypeOK /\ \A w \in Workers : FreshOK(runs[w])
  BY DEF SupersedeInv, RunOK
<1>2. ASSUME NEW w \in Workers, Work(w) PROVE Goal
  <2>1. ASSUME NEW c \in Creates, Start(w, c) PROVE Goal
    BY <2>1 DEF Start
  <2>2. ASSUME Post(w) \/ PostAlt(w) \/ PostFails(w) PROVE Goal
    <3>1. runs[w] \in Run /\ (file' = file \/ Store(w))
      BY <1>1, <2>2, PostRun DEF Created
    <3> QED
      BY <3>1
  <2>3. ASSUME ListFiles(w) \/ ListFails(w) \/ HookDone(w) PROVE Goal
    BY <2>3 DEF ListFiles, ListFails, HookDone
  <2>4. ASSUME AbortFails(w) PROVE Goal
    BY <2>4 DEF AbortFails
  <2>5. ASSUME NEW n \in Names, Inspect(w, n) \/ InspectFails(w, n) PROVE Goal
    BY <2>5 DEF Inspect, InspectFails
  <2>6. Abort(w) => Goal
    OBVIOUS
  <2> HIDE DEF Goal
  <2> QED
    BY <1>2, <2>1, <2>2, <2>3, <2>4, <2>5, <2>6 DEF Work
<1>3. ASSUME Crash PROVE Goal
  BY <1>3 DEF Crash
<1>4. ASSUME UNCHANGED vars PROVE Goal
  BY <1>4 DEF vars
<1>5. (\E n \in Names : OperatorEdit(n)) => Goal
  OBVIOUS
<1> HIDE DEF Goal
<1>6. Goal
  BY <1>2, <1>3, <1>4, <1>5 DEF Next
<1> QED
  BY <1>6 DEF Goal

\* A period never ends in a short identifier.
LEMMA AltNotRecognised ==
    ASSUME NEW c \in Creates, c.recurring
    PROVE  ~Recognised(Alt(c, c.title))
<1>1. c \in Command /\ c.id \notin DOMAIN Ordinal /\ Names \subseteq Seq(STRING)
  BY SupersedeAssumption
<1>2. c.title \in Seq(STRING) /\ c.id \in STRING
  BY <1>1 DEF Command
<1>3. Last(Append(c.title, c.id)) = c.id
  BY <1>2 DEF Last
<1> QED
  BY <1>1, <1>3 DEF Recognised, Token, Alt

\* The file n of the vault v gave way to a younger one, and if it is an instance
\* of a schedule to one of the same or a later period.
GaveWay(v, n) ==
    /\ ~v[n].by.late /\ v[v[n].by.path] # Missing => v[n].born < v[v[n].by.path].born
    /\ v[n].by.hook = "recurring" => Ordinal[Token(n)] <= Ordinal[Token(v[n].by.title)]

\* Every retired file of the vault did.
Ordered(v) ==
    \A n \in Names : v[n] # Missing /\ v[n].by # Nobody => GaveWay(v, n)

\* A file that is aborted and is not the younger one is not the file of the create.
LEMMA AbortsOlder ==
    ASSUME SupersedeInv, NEW w \in Workers, Abort(w), file[runs[w].at] # Missing
    PROVE  LET r == runs[w]  f == file[r.at] IN
           /\ HookOf(r) = "recurring" => Ordinal[Token(r.at)] <= Ordinal[Token(r.cmd.title)]
           /\ ~Late(r, f) => r.at # r.path /\ f.born < r.born
           /\ file[r.path] # Missing => file[r.path].born >= r.born
<1> DEFINE r == runs[w]
           f == file[r.at]
<1>1. TypeOK /\ TodoOK(r) /\ BornOK(file, r, stores)
  BY DEF SupersedeInv, RunOK
<1>2. r \in Run /\ r.pc = "abort"
  BY <1>1, AbortRun
<1>3. r.at \in Names /\ r.path \in Names /\ r.cmd \in Creates /\ r.born \in Int
  BY <1>2 DEF Run
<1>4. f \in File /\ f.born \in Int
  BY <1>1, <1>3 DEF TypeOK, File
<1>5. IF HookOf(r) = "recurring"
      THEN /\ r.cmd.recurring /\ r.at # r.cmd.title /\ Recognised(r.at)
           /\ Ordinal[Token(r.at)] <= Ordinal[Token(r.cmd.title)]
      ELSE r.at # r.path
  BY <1>1, <1>2 DEF TodoOK, InHook, Ahead
<1>6. /\ f # Missing => IF r.at = r.path THEN f.born >= r.born ELSE f.born # r.born
      /\ file[r.path] # Missing => file[r.path].born >= r.born
  BY <1>1, <1>2, <1>3 DEF BornOK
<1> HIDE DEF r, f
<1>7. ASSUME ~Late(r, f) PROVE r.at # r.path /\ f.born < r.born
  <2>1. ~(f.born > r.born) /\ ~(HookOf(r) = "recurring" /\ r.at = r.path /\ Reused(r))
    BY <1>7 DEF Late
  <2>2. r.at # r.path
    <3>1. CASE HookOf(r) # "recurring"
      BY <1>5, <3>1
    <3>2. CASE HookOf(r) = "recurring"
      <4>1. ~Recognised(Alt(r.cmd, r.cmd.title))
        BY <1>3, <1>5, <3>2, AltNotRecognised
      <4>2. r.at # r.cmd.title /\ r.at # Alt(r.cmd, r.cmd.title)
        BY <1>5, <3>2, <4>1
      <4> QED
        BY <2>1, <3>2, <4>2 DEF Reused
    <3> QED
      BY <3>1, <3>2
  <2>3. f.born # r.born
    BY <1>6, <2>2 DEF f, r
  <2> QED
    BY <1>3, <1>4, <2>1, <2>2, <2>3
<1> QED
  BY <1>5, <1>6, <1>7 DEF r, f

\* Every step keeps the order.
LEMMA OrderedStep ==
    ASSUME SupersedeInv, Ordered(file), [Next]_vars
    PROVE  Ordered(file')
<1>1. /\ TypeOK /\ VaultBorn(file, stores) /\ stores \in Nat
      /\ file \in [Names -> File \cup {Missing}]
  BY DEF SupersedeInv, TypeOK
<1>2. \A n \in Names : file[n] # Missing => file[n].born \in Int /\ file[n].born <= stores
  BY <1>1 DEF VaultBorn, File
<1>3. \A n \in Names : file[n] # Missing /\ file[n].by # Nobody => GaveWay(file, n) /\ file[n].by.path \in Names
  <2>1. SUFFICES ASSUME NEW n \in Names, file[n] # Missing, file[n].by # Nobody
                 PROVE  file[n].by.path \in Names
    BY DEF Ordered
  <2>2. file[n].by \in By
    BY <1>1, <2>1 DEF File
  <2> QED
    BY <2>2 DEF By
<1>4. CASE file' = file
  BY <1>4
<1>5. ASSUME NEW w \in Workers, runs[w] \in Run, Store(w) PROVE Ordered(file')
  <2> DEFINE p == runs[w].path
             u == file'
  <2>1. /\ p \in Names /\ \A n \in Names \ {p} : u[n] = file[n]
        /\ u[p] # Missing /\ u[p].by = Nobody /\ u[p].born = stores + 1
    BY <1>1, <1>5, StoreFile
  <2> HIDE DEF p, u
  <2>2. SUFFICES ASSUME NEW n \in Names, u[n] # Missing, u[n].by # Nobody PROVE GaveWay(u, n)
    BY DEF Ordered, u
  <2>3. u[n] = file[n] /\ n # p
    BY <2>1, <2>2
  <2>4. GaveWay(file, n) /\ file[n].by.path \in Names /\ file[n].born \in Int /\ file[n].born <= stores
    BY <1>2, <1>3, <2>2, <2>3
  <2>5. ASSUME ~u[n].by.late, u[u[n].by.path] # Missing PROVE u[n].born < u[u[n].by.path].born
    <3>1. CASE file[n].by.path = p
      BY <1>1, <2>1, <2>3, <2>4, <3>1
    <3>2. CASE file[n].by.path # p
      BY <2>1, <2>3, <2>4, <2>5, <3>2 DEF GaveWay
    <3> QED
      BY <3>1, <3>2
  <2> QED
    BY <2>3, <2>4, <2>5 DEF GaveWay
<1>6. ASSUME NEW w \in Workers, Abort(w) PROVE Ordered(file')
  <2> DEFINE r == runs[w]
             a == r.at
             u == file'
  <2>1. a \in Names /\ \A n \in Names \ {a} : u[n] = file[n]
    BY <1>1, <1>6, AbortFile
  <2>2. CASE file[a] = Missing
    BY <1>1, <1>4, <1>6, <2>2, AbortFile
  <2>3. CASE file[a] # Missing
    <3>1. /\ u[a] # Missing /\ u[a].by.path = r.path /\ u[a].by.hook = HookOf(r)
          /\ u[a].by.title = r.cmd.title /\ u[a].by.late = Late(r, file[a])
          /\ u[a].born = file[a].born
      BY <1>1, <1>6, <2>3, AbortFile
    <3>2. /\ HookOf(r) = "recurring" => Ordinal[Token(a)] <= Ordinal[Token(r.cmd.title)]
          /\ ~Late(r, file[a]) => a # r.path /\ file[a].born < r.born
          /\ file[r.path] # Missing => file[r.path].born >= r.born
      BY <1>6, <2>3, AbortsOlder
    <3>3. r.path \in Names /\ r.born \in Int
      BY <1>1, <1>6, AbortRun DEF Run
    <3> HIDE DEF u, a, r
    <3>4. SUFFICES ASSUME NEW n \in Names, u[n] # Missing, u[n].by # Nobody PROVE GaveWay(u, n)
      BY DEF Ordered, u
    <3>5. CASE n = a
      <4>1. ASSUME ~u[a].by.late, u[r.path] # Missing PROVE u[a].born < u[r.path].born
        <5>1. a # r.path /\ file[a].born < r.born /\ u[r.path] = file[r.path]
          BY <2>1, <3>1, <3>2, <3>3, <4>1
        <5>2. file[r.path].born >= r.born /\ file[r.path].born \in Int /\ file[a].born \in Int
          BY <1>2, <2>1, <2>3, <3>2, <3>3, <4>1, <5>1
        <5> QED
          BY <3>1, <3>3, <5>1, <5>2
      <4> QED
        BY <3>1, <3>2, <3>5, <4>1 DEF GaveWay
    <3>6. CASE n # a
      <4>1. u[n] = file[n] /\ GaveWay(file, n) /\ file[n].by.path \in Names
        BY <1>3, <2>1, <3>4, <3>6
      <4>2. u[file[n].by.path] # Missing => /\ file[file[n].by.path] # Missing
                                            /\ u[file[n].by.path].born = file[file[n].by.path].born
        BY <2>1, <2>3, <3>1, <4>1
      <4> QED
        BY <4>1, <4>2 DEF GaveWay
    <3> QED
      BY <3>5, <3>6
  <2> QED
    BY <2>2, <2>3
<1>7. ASSUME NEW m \in Names, OperatorEdit(m) PROVE Ordered(file')
  <2> DEFINE u == file'
  <2>1. \A n \in Names : u[n] # Missing => /\ file[n] # Missing /\ u[n].by = file[n].by
                                           /\ u[n].born = file[n].born
    <3>1. /\ \A n \in Names \ {m} : u[n] = file[n]
          /\ file[m] # Missing
          /\ u[m] = Missing \/ (u[m].by = file[m].by /\ u[m].born = file[m].born)
      BY <1>1, <1>7, EditFile
    <3> HIDE DEF u
    <3> QED
      BY <3>1
  <2> HIDE DEF u
  <2>2. SUFFICES ASSUME NEW n \in Names, u[n] # Missing, u[n].by # Nobody PROVE GaveWay(u, n)
    BY DEF Ordered, u
  <2>3. /\ u[n].by = file[n].by /\ u[n].born = file[n].born
        /\ GaveWay(file, n) /\ file[n].by.path \in Names
    BY <1>3, <2>1, <2>2
  <2>4. u[file[n].by.path] # Missing => /\ file[file[n].by.path] # Missing
                                        /\ u[file[n].by.path].born = file[file[n].by.path].born
    BY <2>1, <2>3
  <2> QED
    BY <2>3, <2>4 DEF GaveWay
<1> QED
  BY <1>4, <1>5, <1>6, <1>7, VaultStep

\* The youngest of several retired files gave way to none of them.
LEMMA NoCircle ==
    ASSUME SupersedeInv, Ordered(file), NEW S \in SUBSET {n \in Retired : ~file[n].by.late}, S # {}
    PROVE  \E n \in S : file[n].by.path \notin S
<1>1. stores \in Nat
  BY DEF SupersedeInv, TypeOK
<1>2. \A n \in S : /\ n \in Names /\ file[n] # Missing /\ file[n].by # Nobody /\ ~file[n].by.late
                   /\ file[n].born \in Int /\ file[n].born <= stores
  BY DEF SupersedeInv, TypeOK, VaultBorn, File, Retired, Present
<1> DEFINE age(n) == stores - file[n].born
           T == {age(n) : n \in S}
<1>3. \A n \in S : age(n) \in Nat
  BY <1>1, <1>2
<1>4. T \subseteq Nat /\ T # {}
  BY <1>3
<1>5. PICK x \in T : \A y \in T : ~(<<y, x>> \in OpToRel(<, Nat))
  BY <1>4, NatLessThanWellFounded, WFMin
<1>6. \A y \in T : x <= y
  <2> HIDE DEF T
  <2>1. \A y \in T : ~(y < x)
    BY <1>4, <1>5 DEF OpToRel
  <2> QED
    BY <1>4, <2>1
<1>7. PICK n \in S : age(n) = x
  OBVIOUS
<1>8. SUFFICES ASSUME file[n].by.path \in S PROVE FALSE
  BY <1>7
<1> DEFINE m == file[n].by.path
<1>9. m \in S /\ age(m) \in T /\ age(n) <= age(m)
  BY <1>6, <1>7, <1>8
<1>10. file[n].born < file[m].born
  BY <1>2, <1>8 DEF Ordered, GaveWay
<1>11. file[n].born \in Int /\ file[m].born \in Int
  BY <1>2, <1>9
<1> HIDE DEF m
<1> QED
  BY <1>1, <1>9, <1>10, <1>11

\* From a vault whose retired files gave way to younger ones: whoever follows
\* superseded_by arrives at a task that nothing superseded, but for files that an
\* overlapping create stored after the one they gave way to and for a file that
\* was stored at a reused title; and an instance of a schedule gives way to one of
\* the same or a later period only, without exception (newRelPath,
\* collapseCandidates).
THEOREM ChainsLeadOnHolds ==
    ASSUME \A v \in InitialVaults : Ordered(v)
    PROVE  Spec => []ChainsLeadOn
<1>1. Init => Ordered(file)
  BY DEF Init
<1>2. SupersedeInv /\ Ordered(file) /\ [Next]_vars => Ordered(file)'
  BY OrderedStep
<1>3. ASSUME SupersedeInv, Ordered(file) PROVE ChainsLeadOn
  <2>1. \A n \in Retired : n \in Names /\ file[n] # Missing /\ file[n].by # Nobody
    BY DEF Retired, Present
  <2>2. \A n \in Retired : file[n].by.hook = "recurring"
          => Ordinal[Token(n)] <= Ordinal[Token(file[n].by.title)]
    BY <1>3, <2>1 DEF Ordered, GaveWay
  <2> QED
    BY <1>3, <2>2, NoCircle DEF ChainsLeadOn
<1> QED
  BY <1>1, <1>2, <1>3, HooksInvariant, PTL DEF Spec

\* Completed work turns into aborted work only if somebody wrote to the file
\* between the hook's read and its write (priorIsInProgress,
\* isOpenUpdateGoTaskForRepo, buildFixCandidateIsLive).
THEOREM CompletedStaysCompletedHolds == Spec => CompletedStaysCompleted
<1> DEFINE Kept == \A n \in Present :
                      file[n].status = "completed" /\ file'[n] # Missing /\ file'[n].status = "aborted"
                      => \E w \in Workers : runs[w].pc = "abort" /\ runs[w].at = n /\ runs[w].raced
<1>1. SupersedeInv /\ [Next]_vars => [Kept]_vars
  <2> SUFFICES ASSUME SupersedeInv, [Next]_vars, NEW n \in Present, file[n].status = "completed",
                      file'[n] # Missing, file'[n].status = "aborted"
               PROVE  \E w \in Workers : runs[w].pc = "abort" /\ runs[w].at = n /\ runs[w].raced
    BY DEF Kept
  <2>1. TypeOK /\ n \in Names /\ file'[n] # file[n]
    BY DEF SupersedeInv, Present
  <2>2. ASSUME NEW w \in Workers, runs[w] \in Run, Store(w) PROVE FALSE
    BY <2>1, <2>2, StoreFile
  <2>3. ASSUME NEW w \in Workers, Abort(w)
        PROVE  runs[w].pc = "abort" /\ runs[w].at = n /\ runs[w].raced
    <3>1. n = runs[w].at /\ runs[w].pc = "abort"
      BY <2>1, <2>3, AbortFile, AbortRun
    <3> QED
      BY <3>1 DEF SupersedeInv, RunOK, ReadOK
  <2>4. ASSUME NEW m \in Names, OperatorEdit(m) PROVE FALSE
    <3>1. m = n
      BY <2>1, <2>4, EditFile
    <3> QED
      BY <2>1, <2>4, <3>1, EditFile
  <2> QED
    BY <2>1, <2>2, <2>3, <2>4, VaultStep
<1> QED
  BY <1>1, HooksInvariant, PTL DEF Spec, CompletedStaysCompleted, Kept

\* A hook that nothing disturbed has closed what it owes when it is done, the
\* look-back and the other creates notwithstanding (supersedePriorUpdateGoTasks,
\* collapseCandidates, retireSupersededBuildFixTasks).
THEOREM DueIsClosedHolds == Spec => DueIsClosed
<1> DEFINE Closed == \A w \in Workers :
                        HookDone(w) /\ runs[w].clean => \A n \in runs[w].due : ~IsOpen(runs[w], file[n])
<1>1. SupersedeInv => Closed
  <2> SUFFICES ASSUME SupersedeInv, NEW w \in Workers, HookDone(w), runs[w].clean, NEW n \in runs[w].due
               PROVE  ~IsOpen(runs[w], file[n])
    BY DEF Closed
  <2> DEFINE r == runs[w]
  <2>1. TypeOK /\ r \in Run /\ r.pc = "inspect" /\ (r.todo = {} \/ ~MayGoOn(r)) /\ r.clean /\ n \in r.due
    BY RunType DEF SupersedeInv, HookDone
  <2>2. DueOK(file, r) /\ RecurringOK(r) /\ UpdateGoOK(file, r)
    BY DEF SupersedeInv, RunOK, ProgressOK
  <2> HIDE DEF r
  <2>3. Undisturbed(r) /\ Ahead(r) = r.todo
    BY <2>1 DEF Undisturbed, Ahead, InHook
  <2>4. n \in r.todo \/ ~IsOpen(r, file[n])
    BY <2>1, <2>2, <2>3 DEF DueOK
  <2>5. /\ r.spent \in 0 .. Lookback /\ Lookback \in Nat
        /\ r.due \subseteq Names /\ r.todo \subseteq Names
    BY <2>1, SupersedeAssumption DEF Run
  <2>6. ASSUME n \in r.todo PROVE FALSE
    <3>1. HookOf(r) # "build-fix" /\ ~(r.spent < Lookback)
      BY <2>1, <2>6 DEF MayGoOn
    <3>2. r.spent = Lookback
      BY <2>5, <3>1
    <3>3. CASE HookOf(r) = "recurring"
      <4>1. PICK L \in SUBSET {m \in Names : Recognised(m)} : Latest(r, L)
        BY <2>2, <2>3, <3>3 DEF RecurringOK
      <4>2. /\ r.todo \subseteq L
            /\ r.spent <= Cardinality(L \ r.todo)
            /\ \A m \in L \ r.todo, k \in r.todo : Ordinal[Token(k)] <= Ordinal[Token(m)]
            /\ Cardinality(NotEarlier(L, n)) < Lookback
        BY <2>1, <4>1 DEF Latest
      <4>3. L \in SUBSET Names /\ \A m \in L : Ordinal[Token(m)] \in Int
        BY SupersedeAssumption DEF Recognised
      <4>4. NotEarlier(L, n) \in SUBSET Names
        BY <4>3 DEF NotEarlier
      <4>5. L \ r.todo \in SUBSET NotEarlier(L, n)
        <5>1. SUFFICES ASSUME NEW m \in L \ r.todo PROVE m \in NotEarlier(L, n)
          OBVIOUS
        <5>2. Ordinal[Token(n)] <= Ordinal[Token(m)] /\ m # n
          BY <2>6, <4>2
        <5>3. Ordinal[Token(n)] \in Int /\ Ordinal[Token(m)] \in Int
          BY <2>6, <4>2, <4>3
        <5> QED
          BY <5>2, <5>3 DEF NotEarlier
      <4>6. /\ Cardinality(L \ r.todo) <= Cardinality(NotEarlier(L, n))
            /\ Cardinality(NotEarlier(L, n)) \in Nat
        BY <4>4, <4>5, Counted, CountedMore
      <4>7. Cardinality(L \ r.todo) \in Nat
        BY <4>3, Counted
      <4> QED
        BY <2>5, <3>2, <4>2, <4>6, <4>7
    <3>4. CASE HookOf(r) = "update-go"
      <4>1. Cardinality(r.due) <= Lookback /\ r.spent <= Cardinality(r.due \ r.todo)
        BY <2>1, <2>2, <2>3, <3>4 DEF UpdateGoOK
      <4>2. r.due \ r.todo \in SUBSET r.due /\ r.due \ r.todo # r.due
        BY <2>1, <2>6
      <4>3. /\ Cardinality(r.due \ r.todo) < Cardinality(r.due)
            /\ Cardinality(r.due) \in Nat /\ Cardinality(r.due \ r.todo) \in Nat
        <5>1. r.due \in SUBSET Names /\ r.due \ r.todo \in SUBSET Names
          BY <2>5
        <5> QED
          BY <4>2, <5>1, Counted, CountedMore
      <4> QED
        BY <2>5, <3>2, <4>1, <4>3
    <3> QED
      BY <2>1, <3>1, <3>3, <3>4, HookType
  <2> QED
    BY <2>4, <2>6 DEF r
<1> QED
  BY <1>1, HooksInvariant, PTL DEF Spec, DueIsClosed, Closed

=============================================================================
