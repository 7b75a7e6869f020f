------------------------------- MODULE Supersede -------------------------------
(***************************************************************************)
(* The create-task executor and the three hooks it runs on the file it has *)
(* just stored: a re-emitted build-fix task retires the tasks its markers  *)
(* name, a recurring instance the older instances of its schedule, an      *)
(* update-go task the other ones of its repository.  A hook lists files,   *)
(* reads one after the other, and aborts the open ones with a              *)
(* read-modify-write that does not look at the status again.  Every        *)
(* failure on a file is swallowed; a crash loses the hooks that have not   *)
(* run.  Every partition has a consumer of its own, so creates of          *)
(* different tasks overlap at every step.                                  *)
(*                                                                         *)
(* The name of a file is the sequence of its parts: "A - B - 2026W27" is   *)
(* <<"A", "B", "2026W27">>, and "Update Go repo sha" is <<"repo", "sha">>.  *)
(* What the index knows of identifiers is the subject of TaskIndex; here   *)
(* it may or may not know a file.  The GET and the POST of an abort are    *)
(* one step: the race between them is the subject of ResultWriter.         *)
(***************************************************************************)
EXTENDS Integers, FiniteSets, Sequences, SequencesExt

CONSTANTS
    Names,          \* file names that occur
    Missing,        \* there is no file of that name
    Nobody,         \* superseded_by is not set
    Workers,        \* consumers, one for each partition
    Creates,        \* the create commands
    InitialVaults,  \* vaults to start from
    Ordinal,        \* parsePeriodTokenOrdinal, on the tokens it recognises
    Lookback,       \* SUPERSEDE_LOOKBACK
    MaxCreates,     \* bound: creates delivered
    MaxFaults,      \* bound: requests that fail, and restarts
    MaxEdits        \* bound: edits of the operator

VARIABLES
    file,     \* the vault
    runs,     \* the create under way in each worker
    stores,   \* history: files that creates have stored
    creates,
    faults,
    edits

vars == <<file, runs, stores, creates, faults, edits>>

Terminal == {"completed", "aborted"}
Status   == {"in_progress", "hold"} \cup Terminal
Hooks    == <<"build-fix", "recurring", "update-go">>

\* by: the file that superseded this one, its command's title and the hook.
\* History: born, which of the stores the file comes from; late, the file gave way
\* to one that is not younger.
By   == [path : Names, hook : Range(Hooks), title : Names, late : BOOLEAN]
File == [id : STRING, status : Status, type : STRING, repo : STRING, build : STRING,
         by : By \cup {Nobody}, born : Int]

Command ==
    [id : STRING, title : Names, recurring : BOOLEAN, abortPrior : BOOLEAN, type : STRING,
     repo : STRING, build : STRING, retiresTask : STRING, retiresBuild : STRING]

\* The title with the short identifier behind it.
Alt(c, title) == Append(title, c.id)

\* The eight characters of a short identifier are no period: no period token has
\* eight.
ASSUME SupersedeAssumption ==
    /\ Names \subseteq Seq(STRING) \ {<< >>} /\ IsFiniteSet(Names)
    /\ Missing \notin Names \cup File /\ Nobody \notin By
    /\ \A t \in DOMAIN Ordinal : Ordinal[t] \in Int
    /\ Creates \subseteq Command
    /\ \A c \in Creates : Alt(c, c.title) \in Names /\ (c.recurring => c.id \notin DOMAIN Ordinal)
    /\ InitialVaults \subseteq [Names -> File \cup {Missing}]
    /\ \A v \in InitialVaults, n \in Names : v[n] # Missing => v[n].born <= 0
    /\ Lookback \in Nat /\ MaxCreates \in Nat /\ MaxFaults \in Nat /\ MaxEdits \in Nat

\* path: the title to POST, then the file of the create; hook: index of the hook;
\* todo: files listed and not looked at; spent: of the look-back; at: the file
\* about to be aborted.  History: born, of the file of the create; clean, nothing
\* failed and nobody else wrote to a file of the list since the listing; raced,
\* somebody else wrote to at since its read; due, the files the hook must have
\* closed when it is done.
Idle == [pc |-> "idle"]
Run  ==
    [pc : {"post", "postAlt", "list", "inspect", "abort"}, cmd : Creates, path : Names,
     born : Int, hook : 1 .. Len(Hooks), todo : SUBSET Names, spent : 0 .. Lookback,
     at : Names, clean : BOOLEAN, raced : BOOLEAN, due : SUBSET Names]

TypeOK ==
    /\ file \in [Names -> File \cup {Missing}]
    /\ runs \in [Workers -> Run \cup {Idle}]
    /\ stores \in Nat
    /\ creates \in 0 .. MaxCreates /\ faults \in 0 .. MaxFaults /\ edits \in 0 .. MaxEdits

Init ==
    /\ file \in InitialVaults /\ runs = [w \in Workers |-> Idle] /\ stores = 0
    /\ creates = 0 /\ faults = 0 /\ edits = 0

Present == {n \in Names : file[n] # Missing}

-----------------------------------------------------------------------------
(* The create. *)

\* The vault API stores a file where there is none or, except for recurring
\* tasks, in place of a closed one.
Takes(c, n) ==
    file[n] # Missing => ~c.recurring /\ file[n].status \in Terminal

NewFile(c, born) ==
    [id |-> c.id, status |-> "in_progress", type |-> c.type, repo |-> c.repo,
     build |-> c.build, by |-> Nobody, born |-> born]

Fault == faults < MaxFaults /\ faults' = faults + 1

\* reuseExistingIdentifierTitle: the title of a file that carries the identifier
\* when it is read.
Titles(c) == {c.title} \cup {n \in Present : file[n].id = c.id}

\* The run of w goes on as r.
Becomes(w, r) == runs' = [runs EXCEPT ![w] = r]

\* The creates of one task are in one partition.
Start(w, c) ==
    /\ runs[w] = Idle /\ creates < MaxCreates
    /\ \A v \in Workers : runs[v] # Idle => runs[v].cmd.id # c.id
    /\ creates' = creates + 1
    /\ \E title \in Titles(c) :
         Becomes(w, [pc |-> "post", cmd |-> c, path |-> title, born |-> 0, hook |-> 1,
                     todo |-> {}, spent |-> 0, at |-> title, clean |-> TRUE, raced |-> FALSE,
                     due |-> {}])
    /\ UNCHANGED <<file, stores, faults, edits>>

\* What somebody else's write to the file n is to the run r.
Touched(r, n) ==
    IF r = Idle THEN Idle
    ELSE [r EXCEPT !.clean = @ /\ n \notin r.todo \cup r.due,
                   !.raced = @ \/ (r.pc = "abort" /\ r.at = n)]

\* The run of w goes on as r once it has stored the file n.
Stored(w, r, n) ==
    runs' = [v \in Workers |-> IF v = w THEN r ELSE Touched(runs[v], n)]

\* The POST stores the file.
Store(w) ==
    /\ Takes(runs[w].cmd, runs[w].path)
    /\ stores' = stores + 1
    /\ file' = [file EXCEPT ![runs[w].path] = NewFile(runs[w].cmd, stores + 1)]

\* The hooks run on the stored file.
Created(w) ==
    /\ Store(w)
    /\ Stored(w, [runs[w] EXCEPT !.pc = "list", !.born = stores + 1], runs[w].path)

\* The title is taken by the task itself, by nobody in particular, or for as long
\* as its period lasts.
Exists(c, f) == f.id \in {"", c.id} \/ (c.recurring /\ f.status \in Terminal)

\* createThroughAPI: another task has the title; Names bounds the titles.
Post(w) ==
    /\ runs[w].pc = "post"
    /\ LET r == runs[w]  alt == Alt(r.cmd, r.path) IN
       \/ Created(w)
       \/ /\ ~Takes(r.cmd, r.path) /\ Exists(r.cmd, file[r.path])
          /\ Becomes(w, Idle)
          /\ UNCHANGED <<file, stores>>
       \/ /\ ~Takes(r.cmd, r.path) /\ ~Exists(r.cmd, file[r.path]) /\ alt \in Names
          /\ Becomes(w, [r EXCEPT !.pc = "postAlt", !.path = alt, !.at = alt])
          /\ UNCHANGED <<file, stores>>
    /\ UNCHANGED <<creates, faults, edits>>

PostAlt(w) ==
    /\ runs[w].pc = "postAlt"
    /\ \/ Created(w)
       \/ /\ ~Takes(runs[w].cmd, runs[w].path)
          /\ Becomes(w, Idle)
          /\ UNCHANGED <<file, stores>>
    /\ UNCHANGED <<creates, faults, edits>>

\* The POST fails, or its answer is lost: the command fails without its hooks.
PostFails(w) ==
    /\ runs[w].pc \in {"post", "postAlt"} /\ Fault
    /\ \/ Becomes(w, Idle) /\ UNCHANGED <<file, stores>>
       \/ Store(w) /\ Stored(w, Idle, runs[w].path)
    /\ UNCHANGED <<creates, edits>>

-----------------------------------------------------------------------------
(* What the hooks look for. *)

HookOf(r) == Hooks[r.hook]

Slug(n)  == Front(n)
Token(n) == Last(n)
Recognised(n) == Token(n) \in DOMAIN Ordinal

\* Whether the command has the hook's markers.
Applies(r) ==
    CASE HookOf(r) = "build-fix" -> r.cmd.retiresTask # "" \/ r.cmd.retiresBuild # ""
      [] HookOf(r) = "recurring" ->
            /\ r.cmd.recurring /\ r.cmd.abortPrior
            /\ Slug(r.cmd.title) # << >> /\ Recognised(r.cmd.title)
      [] HookOf(r) = "update-go" -> r.cmd.type = "update-go" /\ r.cmd.repo # ""

\* Variant: an instance of a later period is taken as well.
AnyPeriod(r, n) == TRUE

NotNewer(r, n) == Ordinal[Token(n)] <= Ordinal[Token(r.cmd.title)]

\* Variant: the new task is recognised by the command's title.
NotByTitle(r, n) == n # r.cmd.title

NotItself(r, n) == n # r.path

\* The names a hook goes through.  The recurring hook takes every name that
\* starts with its slug and ends in a period, and leaves out the command's title.
Listed(r) ==
    CASE HookOf(r) = "build-fix" -> {n \in Present : NotItself(r, n)}
      [] HookOf(r) = "recurring" ->
            {n \in Present : /\ IsStrictPrefix(Slug(r.cmd.title), n) /\ n # r.cmd.title
                             /\ Recognised(n) /\ NotNewer(r, n)}
      [] HookOf(r) = "update-go" ->
            {n \in Present : IsStrictPrefix(<<r.cmd.repo>>, n) /\ NotItself(r, n)}

\* The file's own frontmatter has the last word.  A marker that is empty names
\* nothing.
Matches(r, f) ==
    CASE HookOf(r) = "build-fix" ->
            \/ r.cmd.retiresTask # "" /\ f.id = r.cmd.retiresTask
            \/ r.cmd.retiresBuild # "" /\ f.build = r.cmd.retiresBuild
      [] HookOf(r) = "recurring" -> TRUE
      [] HookOf(r) = "update-go" -> f.type = "update-go" /\ f.repo = r.cmd.repo

\* Whether what was read is still to be worked on.
IsOpen(r, f) ==
    IF HookOf(r) = "build-fix" THEN f.status \notin Terminal ELSE f.status = "in_progress"

\* Variant: the status is not looked at.
IsNamed(r, f) == Matches(r, f)

\* Whether a file that was read is aborted next.
IsRetired(r, f) == Matches(r, f) /\ IsOpen(r, f)

\* Variant: the update-go hook pays for each file it reads, too.
PerFile(r, opened) == HookOf(r) # "build-fix"

\* The recurring hook pays for each file, the update-go hook for each open one.
Pays(r, opened) == HookOf(r) = "recurring" \/ (HookOf(r) = "update-go" /\ opened)

Cost(r, opened) == IF Pays(r, opened) THEN 1 ELSE 0

\* Variant: one file too many.
OneMore(r) == HookOf(r) = "build-fix" \/ r.spent <= Lookback

MayGoOn(r) == HookOf(r) = "build-fix" \/ r.spent < Lookback

\* The recurring hook goes from the latest period to the earliest; the code
\* orders equal periods by title, the model leaves their order open.
Turn(r, n) ==
    HookOf(r) = "recurring" => \A m \in r.todo : Ordinal[Token(m)] <= Ordinal[Token(n)]

\* What the hook owes when it starts: the look-back's most recent instances,
\* the open tasks of the repository if the look-back reaches for them, the
\* tasks that are named.
Due(r) ==
    LET open == {n \in Listed(r) : IsRetired(r, file[n])}
        ahead(n) == {m \in Listed(r) \ {n} : Ordinal[Token(m)] >= Ordinal[Token(n)]} IN
    CASE HookOf(r) = "build-fix" -> open
      [] HookOf(r) = "recurring" -> {n \in open : Cardinality(ahead(n)) < Lookback}
      [] HookOf(r) = "update-go" -> IF Cardinality(open) <= Lookback THEN open ELSE {}

-----------------------------------------------------------------------------
(* The hooks. *)

NextHook(w) ==
    Becomes(w, IF runs[w].hook = Len(Hooks) THEN Idle
               ELSE [runs[w] EXCEPT !.pc = "list", !.hook = @ + 1, !.todo = {}, !.spent = 0,
                                    !.at = runs[w].path, !.clean = TRUE, !.raced = FALSE,
                                    !.due = {}])

ListFiles(w) ==
    /\ runs[w].pc = "list"
    /\ IF Applies(runs[w])
       THEN Becomes(w, [runs[w] EXCEPT !.pc = "inspect", !.todo = Listed(runs[w]),
                                       !.due = Due(runs[w])])
       ELSE NextHook(w)
    /\ UNCHANGED <<file, stores, creates, faults, edits>>

ListFails(w) ==
    /\ runs[w].pc = "list" /\ Applies(runs[w]) /\ Fault
    /\ NextHook(w)
    /\ UNCHANGED <<file, stores, creates, edits>>

\* Read a file; an open one that matches is aborted next.
Inspect(w, n) ==
    /\ runs[w].pc = "inspect" /\ MayGoOn(runs[w]) /\ n \in runs[w].todo /\ Turn(runs[w], n)
    /\ LET opens == file[n] # Missing /\ IsRetired(runs[w], file[n]) IN
       Becomes(w, [runs[w] EXCEPT !.todo = @ \ {n}, !.spent = @ + Cost(runs[w], opens), !.at = n,
                                  !.pc = IF opens THEN "abort" ELSE "inspect"])
    /\ UNCHANGED <<file, stores, creates, faults, edits>>

InspectFails(w, n) ==
    /\ runs[w].pc = "inspect" /\ MayGoOn(runs[w]) /\ n \in runs[w].todo /\ Turn(runs[w], n) /\ Fault
    /\ Becomes(w, [runs[w] EXCEPT !.todo = @ \ {n}, !.spent = @ + Cost(runs[w], FALSE), !.clean = FALSE])
    /\ UNCHANGED <<file, stores, creates, edits>>

\* The run's file is where another task of that identifier was when the title was
\* chosen, not where the command says.
Reused(r) == r.path \notin {r.cmd.title, Alt(r.cmd, r.cmd.title)}

\* The file f of the vault was stored after the one of r, by another create; or it
\* is the one of r, at a title that the recurring hook does not leave out.
Late(r, f) ==
    \/ f.born > r.born
    \/ HookOf(r) = "recurring" /\ r.at = r.path /\ Reused(r)

\* The closure sets the status whatever it is by now.
AbortedBy(r, f) ==
    [f EXCEPT !.status = "aborted",
              !.by = [path |-> r.path, hook |-> HookOf(r), title |-> r.cmd.title,
                      late |-> Late(r, f)]]

Abort(w) ==
    /\ runs[w].pc = "abort"
    /\ LET at == runs[w].at IN
       file' = IF file[at] = Missing THEN file
               ELSE [file EXCEPT ![at] = AbortedBy(runs[w], file[at])]
    /\ Becomes(w, [runs[w] EXCEPT !.pc = "inspect", !.raced = FALSE])
    /\ UNCHANGED <<stores, creates, faults, edits>>

AbortFails(w) ==
    /\ runs[w].pc = "abort" /\ Fault
    /\ Becomes(w, [runs[w] EXCEPT !.pc = "inspect", !.raced = FALSE, !.clean = FALSE])
    /\ UNCHANGED <<file, stores, creates, edits>>

HookDone(w) ==
    /\ runs[w].pc = "inspect" /\ (runs[w].todo = {} \/ ~MayGoOn(runs[w]))
    /\ NextHook(w)
    /\ UNCHANGED <<file, stores, creates, faults, edits>>

-----------------------------------------------------------------------------
(* Everybody else. *)

Crash ==
    /\ \E w \in Workers : runs[w] # Idle
    /\ Fault
    /\ runs' = [w \in Workers |-> Idle]
    /\ UNCHANGED <<file, stores, creates, edits>>

\* The operator closes, reopens or deletes a task.
OperatorEdit(n) ==
    /\ edits < MaxEdits /\ n \in Present
    /\ \/ \E s \in {"in_progress", "completed"} \ {file[n].status} : file' = [file EXCEPT ![n].status = s]
       \/ file' = [file EXCEPT ![n] = Missing]
    /\ runs' = [w \in Workers |-> Touched(runs[w], n)]
    /\ edits' = edits + 1
    /\ UNCHANGED <<stores, creates, faults>>

\* A step of the worker w.
Work(w) ==
    \/ \E c \in Creates : Start(w, c)
    \/ Post(w) \/ PostAlt(w) \/ PostFails(w)
    \/ ListFiles(w) \/ ListFails(w) \/ Abort(w) \/ AbortFails(w) \/ HookDone(w)
    \/ \E n \in Names : Inspect(w, n) \/ InspectFails(w, n)

Next ==
    \/ \E w \in Workers : Work(w)
    \/ Crash
    \/ \E n \in Names : OperatorEdit(n)

Spec == Init /\ [][Next]_vars

-----------------------------------------------------------------------------
(* Properties. *)

Retired == {n \in Present : file[n].by # Nobody}

\* Whoever follows superseded_by arrives at a task that nothing superseded: no
\* task is retired by its own create, none by a task it has retired, unless two
\* creates overlapped and one aborted the file that the other stored after its
\* own, or the recurring hook met its own file at a title that was reused.  And an
\* instance of a schedule gives way to one of the same or a later period only,
\* however late the create of an earlier one is delivered (newRelPath,
\* collapseCandidates).
ChainsLeadOn ==
    /\ \A S \in SUBSET {n \in Retired : ~file[n].by.late} :
          S # {} => \E n \in S : file[n].by.path \notin S
    /\ \A n \in Retired : file[n].by.hook = "recurring"
          => Ordinal[Token(n)] <= Ordinal[Token(file[n].by.title)]

\* Work that was completed does not turn into aborted work, unless it was
\* completed between the hook's read of the file and its write
\* (priorIsInProgress, isOpenUpdateGoTaskForRepo, buildFixCandidateIsLive).
CompletedStaysCompleted ==
    [][\A n \in Present :
          file[n].status = "completed" /\ file'[n] # Missing /\ file'[n].status = "aborted"
          => \E w \in Workers : runs[w].pc = "abort" /\ runs[w].at = n /\ runs[w].raced]_vars

\* A hook that nobody disturbed leaves none of the files open that it owes,
\* whatever the other workers abort meanwhile: closed files it comes across do not
\* use up the look-back of the update-go hook, and the look-back of the recurring
\* hook goes to the latest instances (supersedePriorUpdateGoTasks,
\* collapseCandidates, retireSupersededBuildFixTasks).
DueIsClosed ==
    [][\A w \in Workers :
          HookDone(w) /\ runs[w].clean => \A n \in runs[w].due : ~IsOpen(runs[w], file[n])]_vars

\* docs/period-token-semantics.md: the candidates are the files of the same
\* slug, the title up to its final separator (listSameSlugCandidateTitles).
OwnScheduleOnly ==
    \A n \in Present : file[n].by # Nobody /\ file[n].by.hook = "recurring"
        => Slug(n) = Slug(file[n].by.title)

=============================================================================
