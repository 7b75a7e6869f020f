---------------------------- MODULE TaskIndexProofs ----------------------------
(***************************************************************************)
(* Proofs about the identifier index and the commands that use it, for any *)
(* number of paths, identifiers, commands, restarts and failed reads.      *)
(***************************************************************************)
EXTENDS TaskIndex, TLAPS

Pcs == {"resolve", "verify", "list", "walk", "found",
        "reuse", "check", "post", "alt", "record", "presence"}

\* The create of identifier i still goes by a file the index named: known
\* named the identifier throughout and carries it now.
Holds(i, c, fs, st) == ~c.faulty /\ c.known \in st /\ ByCurrent(fs[c.known], i)

\* What is true of the call c of identifier i, with the directory fs and the
\* history st, ca of its attempt: the history is about this identifier; a path
\* that is going to be used is one, and a lookup's was a match; a walk without
\* a match has every steady path before it; and a create that goes by a known
\* file asks for that file's title, and finds it taken by itself.
CallOK(i, c, fs, st, ca) ==
    c # Idle =>
        /\ st \subseteq Naming(fs, i) /\ Naming(fs, i) \subseteq ca
        /\ c.pc \in {"verify", "found", "check", "post", "record", "presence"}
             => c.path \in Paths
        /\ c.pc \in {"resolve", "list"} => c.path = None
        /\ c.pc = "found" \/ (c.pc = "walk" /\ c.path # None) => c.path \in ca
        /\ c.pc = "walk" /\ ~c.faulty /\ c.path = None => st \subseteq c.todo
        /\ c.pc = "reuse" => c.known = None
        /\ c.pc = "check" => c.path = c.known
        /\ c.pc = "post" /\ Holds(i, c, fs, st) => c.path = c.known
        /\ c.pc = "alt" => ~Holds(i, c, fs, st)

CallsOK == \A i \in Served : CallOK(i, calls[i], files, steady[i], carried[i])

IndexInv == TypeOK /\ CallsOK

-----------------------------------------------------------------------------
(* The operators. *)

\* A consumer that is not idle has a call.
LEMMA CallTyped ==
    ASSUME TypeOK, NEW i \in Served
    PROVE  /\ calls[i] \in Call \cup {Idle}
           /\ calls[i] # Idle <=> calls[i] \in Call
           /\ calls[i].pc \in Pcs => calls[i] \in Call
           /\ calls[i].pc \in Pcs \cup {"idle"}
  <1>1. calls[i] \in Call \cup {Idle}
    BY DEF TypeOK
  <1>2. ASSUME calls[i] = Idle PROVE calls[i].pc = "idle"
    BY <1>2 DEF Idle
  <1>3. ASSUME calls[i] \in Call PROVE calls[i].pc \in Pcs
    BY <1>3 DEF Call, Pcs
  <1> QED
    BY <1>1, <1>2, <1>3 DEF Pcs

\* The parts of a call.
LEMMA CallParts ==
    ASSUME NEW c \in Call
    PROVE  /\ c.pc \in Pcs /\ c.path \in Paths \cup {None} /\ c.todo \in SUBSET Paths
           /\ c.attempt \in 0 .. Attempts /\ c.known \in Paths \cup {None}
           /\ c.faulty \in BOOLEAN /\ c.recurring \in BOOLEAN /\ c.via \in BOOLEAN
           /\ c # Idle
  <1>1. c.pc \in Pcs
    BY DEF Call, Pcs
  <1>2. c # Idle
    <2>1. Idle.pc = "idle"
      BY DEF Idle
    <2> QED
      BY <1>1, <2>1 DEF Pcs
  <1> QED
    BY <1>1, <1>2 DEF Call

\* What setting where a call stands leaves alone.
LEMMA SetPc ==
    ASSUME NEW c \in Call, NEW x \in Pcs
    PROVE  LET d == [c EXCEPT !.pc = x] IN
           /\ d \in Call /\ d.pc = x /\ d.path = c.path /\ d.todo = c.todo
           /\ d.attempt = c.attempt /\ d.known = c.known /\ d.faulty = c.faulty
  BY DEF Call, Pcs

\* The same for the path.
LEMMA SetPath ==
    ASSUME NEW c \in Call, NEW x \in Paths \cup {None}
    PROVE  LET d == [c EXCEPT !.path = x] IN
           /\ d \in Call /\ d.pc = c.pc /\ d.path = x /\ d.todo = c.todo
           /\ d.attempt = c.attempt /\ d.known = c.known /\ d.faulty = c.faulty
  BY DEF Call

\* The same for the files still to be read.
LEMMA SetTodo ==
    ASSUME NEW c \in Call, NEW x \in SUBSET Paths
    PROVE  LET d == [c EXCEPT !.todo = x] IN
           /\ d \in Call /\ d.pc = c.pc /\ d.path = c.path /\ d.todo = x
           /\ d.attempt = c.attempt /\ d.known = c.known /\ d.faulty = c.faulty
  BY DEF Call

\* The same for the path the index named.
LEMMA SetKnown ==
    ASSUME NEW c \in Call, NEW x \in Paths \cup {None}
    PROVE  LET d == [c EXCEPT !.known = x] IN
           /\ d \in Call /\ d.pc = c.pc /\ d.path = c.path /\ d.todo = c.todo
           /\ d.attempt = c.attempt /\ d.known = x /\ d.faulty = c.faulty
  BY DEF Call

\* The same for the kind of match.
LEMMA SetVia ==
    ASSUME NEW c \in Call, NEW x \in BOOLEAN
    PROVE  LET d == [c EXCEPT !.via = x] IN
           /\ d \in Call /\ d.pc = c.pc /\ d.path = c.path /\ d.todo = c.todo
           /\ d.attempt = c.attempt /\ d.known = c.known /\ d.faulty = c.faulty
  BY DEF Call

\* The same for the mark of a failed read.
LEMMA SetFaulty ==
    ASSUME NEW c \in Call
    PROVE  LET d == [c EXCEPT !.faulty = TRUE] IN
           /\ d \in Call /\ d.pc = c.pc /\ d.path = c.path /\ d.todo = c.todo
           /\ d.attempt = c.attempt /\ d.known = c.known /\ d.faulty
  BY DEF Call

\* A new attempt.
LEMMA FreshTyped ==
    ASSUME NEW x \in Pcs, NEW n \in 0 .. Attempts, NEW r \in BOOLEAN
    PROVE  LET d == Fresh(x, n, r) IN
           /\ d \in Call /\ d.pc = x /\ d.path = None /\ d.known = None
  BY DEF Fresh, Call, Pcs

\* A name is a match of a path.
LEMMA NamingPaths ==
    ASSUME NEW fs, NEW i
    PROVE  /\ Naming(fs, i) \subseteq Paths
           /\ \A p \in Paths : ByCurrent(fs[p], i) => p \in Naming(fs, i)
           /\ \A p \in Paths : Matches(fs[p], i) <=> p \in Naming(fs, i)
           /\ \A p \in Naming(fs, i) : fs[p] # None
  BY DEF Naming, Matches, ByCurrent, ByPrevious

\* Another writer keeps what is true of a call if none of its steady paths
\* comes to carry the identifier by that write.
LEMMA WriteKeepsCall ==
    ASSUME NEW i, NEW c \in Call \cup {Idle}, NEW fs, NEW gs, NEW st, NEW ca,
           CallOK(i, c, fs, st, ca),
           \A p \in Paths : Matches(fs[p], i) /\ ByCurrent(gs[p], i) => ByCurrent(fs[p], i)
    PROVE  CallOK(i, c, gs, st \cap Naming(gs, i), ca \cup Naming(gs, i))
  <1> SUFFICES ASSUME c # Idle PROVE CallOK(i, c, gs, st \cap Naming(gs, i), ca \cup Naming(gs, i))
    BY DEF CallOK
  <1>1. c.faulty \in BOOLEAN
    BY CallParts
  <1>2. Holds(i, c, gs, st \cap Naming(gs, i)) => Holds(i, c, fs, st)
    <2> SUFFICES ASSUME Holds(i, c, gs, st \cap Naming(gs, i)) PROVE Holds(i, c, fs, st)
      OBVIOUS
    <2>1. c.known \in st /\ c.known \in Naming(fs, i) /\ c.known \in Paths /\ ~c.faulty
          /\ ByCurrent(gs[c.known], i)
      BY NamingPaths DEF Holds, CallOK
    <2>2. Matches(fs[c.known], i)
      BY <2>1, NamingPaths
    <2> QED
      BY <2>1, <2>2 DEF Holds
  <1> QED
    BY <1>2 DEF CallOK

-----------------------------------------------------------------------------
(* The three ways a step touches the calls and the directory. *)

\* A call goes on or ends, and no file is written.
LEMMA GoKeeps ==
    ASSUME IndexInv, NEW i \in Served, NEW c \in Call \cup {Idle}, Go(i, c), KeepFiles,
           CallOK(i, c, files, steady[i], carried[i]),
           index' \in [Ids -> SUBSET Paths], count' \in Nat
    PROVE  IndexInv'
  <1>1. /\ calls' = [calls EXCEPT ![i] = c]
        /\ UNCHANGED <<files, steady, carried, seen, scan, triggerOnly, edits, faults>>
    BY DEF Go, KeepFiles, scanVars
  <1>2. calls \in [Served -> Call \cup {Idle}]
    BY DEF IndexInv, TypeOK
  <1>3. calls' \in [Served -> Call \cup {Idle}]
    BY <1>1, <1>2
  <1>4. TypeOK'
    BY <1>1, <1>3 DEF IndexInv, TypeOK
  <1>5. ASSUME NEW j \in Served PROVE CallOK(j, calls'[j], files, steady[j], carried[j])
    BY <1>1, <1>2 DEF IndexInv, CallsOK
  <1>6. CallsOK'
    BY <1>1, <1>5 DEF CallsOK
  <1> QED
    BY <1>4, <1>6 DEF IndexInv

\* A call is ended.
LEMMA IdleOK ==
    ASSUME NEW i, NEW fs, NEW st, NEW ca
    PROVE  CallOK(i, Idle, fs, st, ca)
  BY DEF CallOK

\* A step that ends a call and writes no file.
LEMMA EndKeeps ==
    ASSUME IndexInv, NEW i \in Served, End(i), KeepFiles,
           index' \in [Ids -> SUBSET Paths], count' \in Nat
    PROVE  IndexInv'
  BY IdleOK, GoKeeps DEF End

\* An attempt begins.
LEMMA BeginKeeps ==
    ASSUME IndexInv, NEW i \in Served, NEW x \in {"resolve", "reuse"}, NEW n \in 0 .. Attempts,
           NEW r \in BOOLEAN, Begin(i, Fresh(x, n, r)), count' \in Nat
    PROVE  IndexInv'
  <1> DEFINE c == Fresh(x, n, r)
             N == Naming(files, i)
  <1>1. c \in Call /\ c.pc = x /\ c.path = None /\ c.known = None
    BY FreshTyped DEF Pcs
  <1>2. /\ calls' = [calls EXCEPT ![i] = c]
        /\ steady' = [steady EXCEPT ![i] = N] /\ carried' = [carried EXCEPT ![i] = N]
        /\ UNCHANGED <<files, index, seen, scan, triggerOnly, edits, faults>>
    BY DEF Begin, Go, scanVars
  <1>3. N \subseteq Paths
    BY NamingPaths
  <1> HIDE DEF c
  <1>4. CallOK(i, c, files, N, N)
    BY <1>1 DEF CallOK
  <1> HIDE DEF N
  <1>5. /\ calls \in [Served -> Call \cup {Idle}]
        /\ steady \in [Served -> SUBSET Paths] /\ carried \in [Served -> SUBSET Paths]
    BY DEF IndexInv, TypeOK
  <1>6. /\ calls' \in [Served -> Call \cup {Idle}]
        /\ steady' \in [Served -> SUBSET Paths] /\ carried' \in [Served -> SUBSET Paths]
    BY <1>1, <1>2, <1>3, <1>5
  <1>7. TypeOK'
    BY <1>2, <1>6 DEF IndexInv, TypeOK
  <1>8. ASSUME NEW j \in Served PROVE CallOK(j, calls'[j], files, steady'[j], carried'[j])
    BY <1>2, <1>4, <1>5 DEF IndexInv, CallsOK
  <1>9. CallsOK'
    BY <1>2, <1>8 DEF CallsOK
  <1> QED
    BY <1>7, <1>9 DEF IndexInv

\* Files are written: by the call i, which is then at c, or by somebody else.
LEMMA WriteKeeps ==
    ASSUME IndexInv, NEW fs \in [Paths -> File \cup {None}], WriteFiles(fs),
           calls' \in [Served -> Call \cup {Idle}],
           \A i \in Served :
             \/ CallOK(i, calls'[i], fs, steady[i] \cap Naming(fs, i), carried[i] \cup Naming(fs, i))
             \/ /\ calls'[i] = calls[i]
                /\ \A p \in Paths : Matches(files[p], i) /\ ByCurrent(fs[p], i)
                                    => ByCurrent(files[p], i),
           UNCHANGED <<index, scanVars, count>>, edits' \in Nat, faults' \in Nat
    PROVE  IndexInv'
  <1>1. /\ files' = fs
        /\ steady' = [i \in Served |-> steady[i] \cap Naming(fs, i)]
        /\ carried' = [i \in Served |-> carried[i] \cup Naming(fs, i)]
        /\ UNCHANGED <<index, seen, scan, triggerOnly, count>>
    BY DEF WriteFiles, scanVars
  <1>2. /\ steady \in [Served -> SUBSET Paths] /\ carried \in [Served -> SUBSET Paths]
        /\ calls \in [Served -> Call \cup {Idle}]
    BY DEF IndexInv, TypeOK
  <1>3. \A i \in Served : Naming(fs, i) \subseteq Paths
    BY NamingPaths
  <1>4. steady' \in [Served -> SUBSET Paths] /\ carried' \in [Served -> SUBSET Paths]
    BY <1>1, <1>2, <1>3
  <1>5. TypeOK'
    BY <1>1, <1>4 DEF IndexInv, TypeOK
  <1>6. ASSUME NEW i \in Served PROVE CallOK(i, calls'[i], fs, steady'[i], carried'[i])
    <2>1. steady'[i] = steady[i] \cap Naming(fs, i) /\ carried'[i] = carried[i] \cup Naming(fs, i)
      BY <1>1
    <2>2. CASE CallOK(i, calls'[i], fs, steady[i] \cap Naming(fs, i), carried[i] \cup Naming(fs, i))
      BY <2>1, <2>2
    <2>3. CASE /\ calls'[i] = calls[i]
               /\ \A p \in Paths : Matches(files[p], i) /\ ByCurrent(fs[p], i)
                                   => ByCurrent(files[p], i)
      <3>1. CallOK(i, calls[i], files, steady[i], carried[i]) /\ calls[i] \in Call \cup {Idle}
        BY <1>2 DEF IndexInv, CallsOK
      <3>2. CallOK(i, calls[i], fs, steady[i] \cap Naming(fs, i), carried[i] \cup Naming(fs, i))
        BY <2>3, <3>1, WriteKeepsCall
      <3> QED
        BY <2>1, <2>3, <3>2
    <2> QED
      BY <2>2, <2>3
  <1>7. CallsOK'
    BY <1>1, <1>6 DEF CallsOK
  <1> QED
    BY <1>5, <1>7 DEF IndexInv

\* The scanner writes neither calls nor files.
LEMMA ScanKeeps ==
    ASSUME IndexInv, UnchangedByScan, index' \in [Ids -> SUBSET Paths],
           seen' \in [Paths -> Ids \cup {None}],
           scan' \in [pc : {"idle", "cycle", "boot"}, todo : SUBSET Paths]
    PROVE  IndexInv'
  <1>1. UNCHANGED <<files, steady, carried, calls, triggerOnly, count, edits, faults>>
    BY DEF UnchangedByScan, KeepFiles, bounds
  <1>2. TypeOK'
    BY <1>1 DEF IndexInv, TypeOK
  <1>3. CallsOK'
    BY <1>1 DEF IndexInv, CallsOK
  <1> QED
    BY <1>2, <1>3 DEF IndexInv

-----------------------------------------------------------------------------
(* The steps of a lookup. *)

\* What is known of a call under way.
LEMMA Underway ==
    ASSUME IndexInv, NEW i \in Served, calls[i].pc \in Pcs
    PROVE  /\ calls[i] \in Call /\ calls[i] # Idle
           /\ CallOK(i, calls[i], files, steady[i], carried[i])
           /\ index \in [Ids -> SUBSET Paths] /\ count \in Nat
           /\ files \in [Paths -> File \cup {None}]
  <1>1. calls[i] \in Call
    BY CallTyped DEF IndexInv
  <1>2. calls[i] # Idle
    BY <1>1, CallParts
  <1> QED
    BY <1>1, <1>2 DEF IndexInv, TypeOK, CallsOK

\* Recording a path keeps the index a map to sets of paths.
LEMMA RecordTyped ==
    ASSUME IndexAssumption, TypeOK, NEW i \in Served, NEW p \in Paths,
           Record(i, p) \/ RecordDuplicate(i, p)
    PROVE  index' \in [Ids -> SUBSET Paths]
  <1>1. index \in [Ids -> SUBSET Paths] /\ i \in Ids
    BY DEF TypeOK, IndexAssumption
  <1>2. CASE Record(i, p)
    BY <1>1, <1>2 DEF Record
  <1>3. CASE RecordDuplicate(i, p)
    BY <1>1, <1>3 DEF RecordDuplicate
  <1> QED
    BY <1>2, <1>3

\* A lookup asks the index, verifies its hit, lists the directory.
LEMMA AskKeeps ==
    ASSUME IndexAssumption, IndexInv, NEW i \in Served, Resolve(i) \/ Verify(i) \/ List(i)
    PROVE  IndexInv'
  <1> DEFINE c == calls[i]
  <1>0. /\ c \in Call /\ c # Idle /\ CallOK(i, c, files, steady[i], carried[i])
        /\ index \in [Ids -> SUBSET Paths] /\ count \in Nat
    <2>1. calls[i].pc \in Pcs
      BY DEF Resolve, Verify, List, At, Pcs
    <2> QED
      BY <2>1, Underway
  <1>1. KeepFiles /\ index' = index /\ count' = count
    BY DEF Resolve, Verify, List
  <1>2. ASSUME NEW d \in Call \cup {Idle}, Go(i, d), CallOK(i, d, files, steady[i], carried[i])
        PROVE  IndexInv'
    BY <1>0, <1>1, <1>2, GoKeeps
  <1> HIDE DEF c
  <1>3. CASE Resolve(i)
    <2>0. c.pc = "resolve" /\ c.path = None
      BY <1>0, <1>3 DEF Resolve, At, CallOK, c
    <2>1. CASE End(i)
      BY <1>0, <1>1, <2>1, EndKeeps
    <2>2. CASE Go(i, [c EXCEPT !.pc = "list"])
      <3> DEFINE d == [c EXCEPT !.pc = "list"]
      <3>1. d \in Call /\ d.pc = "list" /\ d.path = None
        BY <1>0, <2>0, SetPc DEF Pcs
      <3> HIDE DEF d
      <3>2. CallOK(i, d, files, steady[i], carried[i])
        BY <1>0, <3>1 DEF CallOK
      <3> QED
        BY <1>2, <2>2, <3>1, <3>2 DEF d
    <2>3. ASSUME NEW p \in Paths, Go(i, [c EXCEPT !.pc = "verify", !.path = p]) PROVE IndexInv'
      <3> DEFINE b == [c EXCEPT !.pc = "verify"]
                 d == [b EXCEPT !.path = p]
      <3>1. b \in Call /\ b.pc = "verify"
        BY <1>0, SetPc DEF Pcs
      <3>2. Go(i, d)
        BY <2>3
      <3> HIDE DEF b
      <3>3. d \in Call /\ d.pc = "verify" /\ d.path = p
        BY <3>1, SetPath
      <3> HIDE DEF d
      <3>4. CallOK(i, d, files, steady[i], carried[i])
        BY <1>0, <3>3 DEF CallOK
      <3> QED
        BY <1>2, <3>2, <3>3, <3>4
    <2> QED
      BY <1>3, <2>1, <2>2, <2>3 DEF Resolve, c
  <1>4. CASE Verify(i)
    <2>0. c.pc = "verify" /\ c.path \in Paths
      BY <1>0, <1>4 DEF Verify, At, CallOK, c
    <2>1. CASE AcceptsHit(i, c.path)
      <3> DEFINE d == [c EXCEPT !.pc = "found"]
      <3>1. d \in Call /\ d.pc = "found" /\ d.path = c.path
        BY <1>0, SetPc DEF Pcs
      <3>2. Go(i, d)
        BY <1>4, <2>1 DEF Verify, c
      <3> HIDE DEF d
      <3>3. c.path \in Naming(files, i)
        BY <2>0, <2>1, NamingPaths DEF AcceptsHit
      <3>4. CallOK(i, d, files, steady[i], carried[i])
        BY <1>0, <2>0, <3>1, <3>3 DEF CallOK
      <3> QED
        BY <1>2, <3>1, <3>2, <3>4
    <2>2. CASE ~AcceptsHit(i, c.path)
      <3> DEFINE b == [c EXCEPT !.pc = "list"]
                 d == [b EXCEPT !.path = None]
      <3>1. b \in Call /\ b.pc = "list"
        BY <1>0, SetPc DEF Pcs
      <3>2. Go(i, d)
        BY <1>4, <2>2 DEF Verify, c
      <3> HIDE DEF b
      <3>3. d \in Call /\ d.pc = "list" /\ d.path = None
        BY <3>1, SetPath
      <3> HIDE DEF d
      <3>4. CallOK(i, d, files, steady[i], carried[i])
        BY <1>0, <3>3 DEF CallOK
      <3> QED
        BY <1>2, <3>2, <3>3, <3>4
    <2> QED
      BY <2>1, <2>2
  <1>5. CASE List(i)
    <2>0. c.pc = "list" /\ c.path = None
      BY <1>0, <1>5 DEF List, At, CallOK, c
    <2> DEFINE b == [c EXCEPT !.pc = "walk"]
               d == [b EXCEPT !.todo = Present]
    <2>1. b \in Call /\ b.pc = "walk" /\ b.path = None
      BY <1>0, <2>0, SetPc DEF Pcs
    <2>2. Go(i, d)
      BY <1>5 DEF List, c
    <2> HIDE DEF b
    <2>3. Present \in SUBSET Paths
      BY DEF Present
    <2>4. d \in Call /\ d.pc = "walk" /\ d.path = None /\ d.todo = Present
      BY <2>1, <2>3, SetTodo
    <2> HIDE DEF d
    <2>5. Naming(files, i) \subseteq Present
      BY NamingPaths DEF Present
    <2>6. CallOK(i, d, files, steady[i], carried[i])
      BY <1>0, <2>4, <2>5 DEF CallOK
    <2> QED
      BY <1>2, <2>2, <2>4, <2>6
  <1> QED
    BY <1>3, <1>4, <1>5

\* A lookup walks the directory.
LEMMA WalkKeeps ==
    ASSUME IndexAssumption, IndexInv, NEW i \in Served,
           WalkFound(i) \/ WalkMissed(i) \/ \E p \in Paths : WalkFile(i, p)
    PROVE  IndexInv'
  <1> DEFINE c == calls[i]
  <1>0. /\ c \in Call /\ c # Idle /\ CallOK(i, c, files, steady[i], carried[i]) /\ c.pc = "walk"
        /\ index \in [Ids -> SUBSET Paths] /\ count \in Nat
    <2>1. calls[i].pc = "walk"
      BY DEF WalkFound, WalkMissed, WalkFile, At
    <2> QED
      BY <2>1, Underway DEF Pcs
  <1>1. count' = count
    BY DEF WalkFound, WalkMissed, WalkFile
  <1> HIDE DEF c
  <1>2. CASE WalkFound(i)
    <2> DEFINE d == [c EXCEPT !.pc = "found"]
    <2>1. c.path # None /\ KeepFiles /\ Go(i, d)
      BY <1>2 DEF WalkFound, c
    <2>2. d \in Call /\ d.pc = "found" /\ d.path = c.path
      BY <1>0, SetPc DEF Pcs
    <2> HIDE DEF d
    <2>3. c.path \in Paths
      BY <1>0, <2>1, CallParts
    <2>4. CallOK(i, d, files, steady[i], carried[i])
      BY <1>0, <2>1, <2>2, <2>3 DEF CallOK
    <2>5. index' \in [Ids -> SUBSET Paths]
      <3>1. CASE UNCHANGED index
        BY <1>0, <3>1
      <3>2. CASE Record(i, c.path)
        BY <2>3, <3>2, RecordTyped DEF IndexInv
      <3> QED
        BY <1>2, <3>1, <3>2 DEF WalkFound, c
    <2> QED
      BY <1>0, <1>1, <2>1, <2>2, <2>4, <2>5, GoKeeps
  <1>3. CASE WalkMissed(i)
    <2>1. CASE c.attempt < Attempts
      <3>1. Begin(i, Fresh("resolve", c.attempt + 1, FALSE))
        BY <1>3, <2>1 DEF WalkMissed, c
      <3>2. c.attempt + 1 \in 0 .. Attempts
        BY <1>0, <2>1, CallParts DEF IndexAssumption
      <3> QED
        BY <1>0, <1>1, <3>1, <3>2, BeginKeeps
    <2>2. CASE ~(c.attempt < Attempts)
      <3>1. End(i) /\ KeepFiles /\ index' = index
        BY <1>3, <2>2 DEF WalkMissed, c
      <3> QED
        BY <1>0, <1>1, <3>1, EndKeeps
    <2> QED
      BY <2>1, <2>2
  <1>4. ASSUME NEW p \in Paths, WalkFile(i, p) PROVE IndexInv'
    <2> DEFINE b == [c EXCEPT !.todo = @ \ {p}]
               e == [b EXCEPT !.path = p]
               d == [e EXCEPT !.via = ByPrevious(files[p], i)]
    <2>1. KeepFiles /\ index' = index /\ p \in c.todo
      BY <1>4 DEF WalkFile, c
    <2>2. \/ ~WalkMatches(i, p) /\ Go(i, b)
          \/ End(i)
          \/ WalkMatches(i, p) /\ Go(i, d)
      BY <1>4 DEF WalkFile, c
    <2>3. /\ b \in Call /\ b.pc = "walk" /\ b.path = c.path /\ b.todo = c.todo \ {p}
          /\ b.faulty = c.faulty
      BY <1>0, CallParts, SetTodo
    <2> HIDE DEF b
    <2>4. e \in Call /\ e.pc = "walk" /\ e.path = p
      BY <2>3, SetPath
    <2> HIDE DEF e
    <2>5. d \in Call /\ d.pc = "walk" /\ d.path = p
      <3>1. ByPrevious(files[p], i) \in BOOLEAN
        BY DEF ByPrevious
      <3> QED
        BY <2>4, <3>1, SetVia
    <2> HIDE DEF d
    <2>6. WalkMatches(i, p) <=> p \in Naming(files, i)
      BY NamingPaths DEF WalkMatches
    <2>7. CASE ~WalkMatches(i, p) /\ Go(i, b)
      <3>1. CallOK(i, b, files, steady[i], carried[i])
        BY <1>0, <2>3, <2>6, <2>7 DEF CallOK
      <3> QED
        BY <1>0, <1>1, <2>1, <2>3, <2>7, <3>1, GoKeeps
    <2>8. CASE End(i)
      BY <1>0, <1>1, <2>1, <2>8, EndKeeps
    <2>9. CASE WalkMatches(i, p) /\ Go(i, d)
      <3>1. p # None
        BY DEF IndexAssumption
      <3>2. CallOK(i, d, files, steady[i], carried[i])
        BY <1>0, <2>5, <2>6, <2>9, <3>1 DEF CallOK
      <3> QED
        BY <1>0, <1>1, <2>1, <2>5, <2>9, <3>2, GoKeeps
    <2> QED
      BY <2>2, <2>7, <2>8, <2>9
  <1> QED
    BY <1>2, <1>3, <1>4

-----------------------------------------------------------------------------
(* The steps that write files. *)

\* A result is written to the file found.
LEMMA ResultKeeps ==
    ASSUME IndexAssumption, IndexInv, NEW i \in Served, WriteResult(i)
    PROVE  IndexInv'
  <1> DEFINE p == calls[i].path
  <1>0. /\ index \in [Ids -> SUBSET Paths] /\ count \in Nat /\ p \in Paths
        /\ files \in [Paths -> File \cup {None}]
    <2>1. calls[i].pc = "found"
      BY DEF WriteResult, At
    <2> QED
      BY <2>1, Underway DEF Pcs, CallOK
  <1>1. End(i) /\ index' = index /\ count' = count
    BY DEF WriteResult
  <1>2. CASE KeepFiles
    BY <1>0, <1>1, <1>2, EndKeeps
  <1>3. ASSUME NEW o \in BOOLEAN, files[p] # None,
               WriteFiles([files EXCEPT ![p].open = o /\ files[p].open])
        PROVE  IndexInv'
    <2> DEFINE b == o /\ files[p].open
               f == [files[p] EXCEPT !.open = b]
               fs == [files EXCEPT ![p] = f]
    <2>1. files[p] \in File /\ b \in BOOLEAN
      BY <1>0, <1>3 DEF File
    <2>2. f \in File /\ f.id = files[p].id /\ f.prev = files[p].prev
      BY <2>1 DEF File
    <2>3. WriteFiles(fs)
      BY <1>0, <1>3
    <2> HIDE DEF f
    <2>4. fs \in [Paths -> File \cup {None}]
      BY <1>0, <2>2
    <2>5. /\ calls' = [calls EXCEPT ![i] = Idle] /\ UNCHANGED <<index, scanVars, count, edits, faults>>
      BY <1>1 DEF End, Go
    <2>6. calls \in [Served -> Call \cup {Idle}] /\ edits \in Nat /\ faults \in Nat
      BY DEF IndexInv, TypeOK
    <2>7. calls' \in [Served -> Call \cup {Idle}]
      BY <2>5, <2>6
    <2>8. ASSUME NEW j, NEW q \in Paths, Matches(files[q], j), ByCurrent(fs[q], j)
          PROVE  ByCurrent(files[q], j)
      BY <1>0, <1>3, <2>2, <2>8 DEF ByCurrent
    <2> HIDE DEF fs
    <2>9. ASSUME NEW j \in Served PROVE
             \/ CallOK(j, calls'[j], fs, steady[j] \cap Naming(fs, j), carried[j] \cup Naming(fs, j))
             \/ /\ calls'[j] = calls[j]
                /\ \A q \in Paths : Matches(files[q], j) /\ ByCurrent(fs[q], j)
                                    => ByCurrent(files[q], j)
      BY <2>5, <2>6, <2>8, IdleOK
    <2> QED
      BY <2>3, <2>4, <2>5, <2>6, <2>7, <2>9, WriteKeeps
  <1> QED
    BY <1>2, <1>3 DEF WriteResult

\* A create stores its file.
LEMMA StoreKeeps ==
    ASSUME IndexAssumption, IndexInv, NEW i \in Served, calls[i].pc \in {"post", "alt"},
           NEW p \in Paths, Store(i, p), index' = index, count' = count
    PROVE  IndexInv'
  <1> DEFINE c == calls[i]
             b == [c EXCEPT !.pc = "record"]
             d == [b EXCEPT !.path = p]
             fs == [files EXCEPT ![p] = Created(i)]
  <1>0. /\ c \in Call /\ c # Idle /\ CallOK(i, c, files, steady[i], carried[i])
        /\ files \in [Paths -> File \cup {None}]
    BY Underway DEF Pcs
  <1>1. WriteFiles(fs) /\ Go(i, d)
    BY DEF Store
  <1> HIDE DEF c
  <1>2. b \in Call /\ b.pc = "record"
    BY <1>0, SetPc DEF Pcs
  <1> HIDE DEF b
  <1>3. d \in Call /\ d.pc = "record" /\ d.path = p
    BY <1>2, SetPath
  <1> HIDE DEF d
  <1>4. Created(i) \in File /\ Created(i).id = i
    BY DEF Created, File, IndexAssumption
  <1>5. fs \in [Paths -> File \cup {None}]
    BY <1>0, <1>4
  <1>6. /\ calls' = [calls EXCEPT ![i] = d] /\ UNCHANGED <<scanVars, edits, faults>>
    BY <1>1 DEF Go
  <1>7. calls \in [Served -> Call \cup {Idle}] /\ edits \in Nat /\ faults \in Nat
    BY DEF IndexInv, TypeOK
  <1>8. calls' \in [Served -> Call \cup {Idle}] /\ calls'[i] = d
    BY <1>3, <1>6, <1>7
  <1>9. ASSUME NEW j \in Served, j # i, NEW q \in Paths, Matches(files[q], j), ByCurrent(fs[q], j)
        PROVE  ByCurrent(files[q], j)
    BY <1>0, <1>4, <1>9 DEF ByCurrent
  <1> HIDE DEF fs
  <1>10. CallOK(i, d, fs, steady[i] \cap Naming(fs, i), carried[i] \cup Naming(fs, i))
    BY <1>3 DEF CallOK
  <1>11. ASSUME NEW j \in Served PROVE
           \/ CallOK(j, calls'[j], fs, steady[j] \cap Naming(fs, j), carried[j] \cup Naming(fs, j))
           \/ /\ calls'[j] = calls[j]
              /\ \A q \in Paths : Matches(files[q], j) /\ ByCurrent(fs[q], j)
                                  => ByCurrent(files[q], j)
    BY <1>6, <1>7, <1>8, <1>9, <1>10
  <1> QED
    BY <1>1, <1>5, <1>6, <1>7, <1>8, <1>11, WriteKeeps

\* A create fails, its file stored or not.
LEMMA PostFailsKeeps ==
    ASSUME IndexAssumption, IndexInv, NEW i \in Served, PostFails(i)
    PROVE  IndexInv'
  <1> DEFINE p == IF At(i, "post") THEN calls[i].path ELSE Alt[i]
             fs == [files EXCEPT ![p] = Created(i)]
  <1>1. /\ calls' = [calls EXCEPT ![i] = Idle] /\ UNCHANGED <<index, scanVars, count, edits>>
        /\ faults' = faults + 1 /\ calls[i].pc \in {"post", "alt"}
        /\ WriteFiles(fs) \/ KeepFiles
    BY DEF PostFails
  <1>2. /\ calls \in [Served -> Call \cup {Idle}] /\ files \in [Paths -> File \cup {None}]
        /\ edits' \in Nat /\ faults' \in Nat
    BY <1>1 DEF IndexInv, TypeOK
  <1>3. calls' \in [Served -> Call \cup {Idle}] /\ calls'[i] = Idle
        /\ \A j \in Served \ {i} : calls'[j] = calls[j]
    BY <1>1, <1>2
  <1>4. p \in Paths
    BY <1>1, Underway DEF Pcs, CallOK, At, IndexAssumption
  <1> HIDE DEF p
  <1>5. Created(i) \in File /\ Created(i).id = i
    BY DEF Created, File, IndexAssumption
  <1>6. CASE KeepFiles
    <2>1. UNCHANGED <<files, steady, carried, seen, scan, triggerOnly, index, count>>
      BY <1>1, <1>6 DEF KeepFiles, scanVars
    <2>2. TypeOK'
      BY <1>2, <1>3, <2>1 DEF IndexInv, TypeOK
    <2>3. ASSUME NEW j \in Served PROVE CallOK(j, calls'[j], files, steady[j], carried[j])
      BY <1>3, IdleOK DEF IndexInv, CallsOK
    <2>4. CallsOK'
      BY <2>1, <2>3 DEF CallsOK
    <2> QED
      BY <2>2, <2>4 DEF IndexInv
  <1>7. CASE WriteFiles(fs)
    <2>1. fs \in [Paths -> File \cup {None}]
      BY <1>2, <1>5
    <2>2. ASSUME NEW j \in Served, j # i, NEW q \in Paths, Matches(files[q], j), ByCurrent(fs[q], j)
          PROVE  ByCurrent(files[q], j)
      BY <1>2, <1>5, <2>2 DEF ByCurrent
    <2> HIDE DEF fs
    <2>3. ASSUME NEW j \in Served PROVE
             \/ CallOK(j, calls'[j], fs, steady[j] \cap Naming(fs, j), carried[j] \cup Naming(fs, j))
             \/ /\ calls'[j] = calls[j]
                /\ \A q \in Paths : Matches(files[q], j) /\ ByCurrent(fs[q], j)
                                    => ByCurrent(files[q], j)
      BY <1>3, <2>2, IdleOK
    <2> QED
      BY <1>1, <1>2, <1>3, <1>7, <2>1, <2>3, WriteKeeps
  <1> QED
    BY <1>1, <1>6, <1>7

\* Everybody else writes.
LEMMA OthersKeep ==
    ASSUME IndexAssumption, IndexInv, Others
    PROVE  IndexInv'
  <1>0. /\ files \in [Paths -> File \cup {None}] /\ calls \in [Served -> Call \cup {Idle}]
        /\ edits \in Nat /\ faults \in Nat
    BY DEF IndexInv, TypeOK
  <1>1. ASSUME NEW fs \in [Paths -> File \cup {None}], OthersWrite(fs),
               \A i \in Served, p \in Paths :
                   Matches(files[p], i) /\ ByCurrent(fs[p], i) => ByCurrent(files[p], i)
        PROVE  IndexInv'
    <2>1. /\ WriteFiles(fs) /\ calls' = calls /\ edits' \in Nat /\ faults' \in Nat
          /\ UNCHANGED <<index, scanVars, count>>
      BY <1>0, <1>1 DEF OthersWrite
    <2> QED
      BY <1>0, <1>1, <2>1, WriteKeeps
  <1>2. \A f : f = None => \A i : ~Matches(f, i) /\ ~ByCurrent(f, i)
    BY DEF Matches, ByCurrent, ByPrevious
  <1>3. ASSUME NEW p \in Paths, AddFile(p) PROVE IndexInv'
    <2>1. PICK j \in Ids : OthersWrite([files EXCEPT ![p] = Created(j)])
      BY <1>3 DEF AddFile
    <2> DEFINE fs == [files EXCEPT ![p] = Created(j)]
    <2>2. Created(j) \in File /\ files[p] = None
      BY <1>3 DEF AddFile, Created, File
    <2>3. fs \in [Paths -> File \cup {None}]
      BY <1>0, <2>2
    <2>4. \A q \in Paths : q # p => fs[q] = files[q]
      BY <1>0
    <2> HIDE DEF fs
    <2>5. \A i \in Served, q \in Paths :
              Matches(files[q], i) /\ ByCurrent(fs[q], i) => ByCurrent(files[q], i)
      BY <1>2, <2>2, <2>4
    <2> QED
      BY <1>1, <2>1, <2>3, <2>5 DEF fs
  <1>4. ASSUME NEW p \in Paths, RemoveFile(p) PROVE IndexInv'
    <2> DEFINE fs == [files EXCEPT ![p] = None]
    <2>1. OthersWrite(fs)
      BY <1>4 DEF RemoveFile
    <2>2. fs \in [Paths -> File \cup {None}] /\ fs[p] = None
      BY <1>0
    <2>3. \A q \in Paths : q # p => fs[q] = files[q]
      BY <1>0
    <2> HIDE DEF fs
    <2>4. \A i \in Served, q \in Paths :
              Matches(files[q], i) /\ ByCurrent(fs[q], i) => ByCurrent(files[q], i)
      BY <1>2, <2>2, <2>3
    <2> QED
      BY <1>1, <2>1, <2>2, <2>4
  <1>5. ASSUME NEW p \in Paths, NEW q \in Paths, CopyFile(p, q) PROVE IndexInv'
    <2> DEFINE fs == [files EXCEPT ![q] = files[p]]
    <2>1. OthersWrite(fs) /\ files[q] = None
      BY <1>5 DEF CopyFile
    <2>2. fs \in [Paths -> File \cup {None}]
      BY <1>0
    <2>3. \A r \in Paths : r # q => fs[r] = files[r]
      BY <1>0
    <2> HIDE DEF fs
    <2>4. \A i \in Served, r \in Paths :
              Matches(files[r], i) /\ ByCurrent(fs[r], i) => ByCurrent(files[r], i)
      BY <1>2, <2>1, <2>3
    <2> QED
      BY <1>1, <2>1, <2>2, <2>4
  <1>6. ASSUME NEW p \in Paths, NEW q \in Paths, MoveFile(p, q) PROVE IndexInv'
    <2> DEFINE fs == [files EXCEPT ![p] = None, ![q] = files[p]]
    <2>1. OthersWrite(fs) /\ files[q] = None /\ p # q
      BY <1>6 DEF MoveFile
    <2>2. fs \in [Paths -> File \cup {None}] /\ fs[p] = None
      BY <1>0, <2>1
    <2>3. \A r \in Paths : r # q /\ r # p => fs[r] = files[r]
      BY <1>0
    <2> HIDE DEF fs
    <2>4. \A i \in Served, r \in Paths :
              Matches(files[r], i) /\ ByCurrent(fs[r], i) => ByCurrent(files[r], i)
      BY <1>2, <2>1, <2>2, <2>3
    <2> QED
      BY <1>1, <2>1, <2>2, <2>4
  <1>7. ASSUME NEW p \in Paths, Repair(p) PROVE IndexInv'
    <2>1. PICK j \in Ids \ (Legacy \cup {files[p].id}) :
            OthersWrite([files EXCEPT ![p].id = j,
                             ![p].prev = IF files[p].id \in Legacy THEN files[p].id ELSE @])
      BY <1>7 DEF Repair
    <2> DEFINE old == IF files[p].id \in Legacy THEN files[p].id ELSE files[p].prev
               g == [files[p] EXCEPT !.id = j]
               f == [g EXCEPT !.prev = old]
               fs == [files EXCEPT ![p] = f]
    <2>2. OthersWrite(fs)
      BY <1>0, <2>1
    <2>3. files[p] \in File /\ files[p] # None
      BY <1>0, <1>7 DEF Repair
    <2>4. old \in Legacy \cup {None}
      BY <2>3 DEF File
    <2>5. g \in File /\ g.id = j
      BY <2>3 DEF File
    <2> HIDE DEF g, old
    <2>6. f \in File /\ f.id = j
      BY <2>4, <2>5 DEF File
    <2> HIDE DEF f
    <2>7. fs \in [Paths -> File \cup {None}] /\ fs[p] = f
      BY <1>0, <2>6
    <2>8. \A r \in Paths : r # p => fs[r] = files[r]
      BY <1>0
    <2> HIDE DEF fs
    <2>9. ASSUME NEW i \in Served, Matches(files[p], i), ByCurrent(fs[p], i)
          PROVE  ByCurrent(files[p], i)
      <3>1. i = j /\ i \notin Legacy /\ i # None
        BY <2>6, <2>7, <2>9 DEF ByCurrent, IndexAssumption
      <3>2. files[p].prev \in Legacy \cup {None}
        BY <2>3 DEF File
      <3> QED
        BY <2>9, <3>1, <3>2 DEF Matches, ByPrevious
    <2>10. \A i \in Served, r \in Paths :
              Matches(files[r], i) /\ ByCurrent(fs[r], i) => ByCurrent(files[r], i)
      BY <2>8, <2>9
    <2> QED
      BY <1>1, <2>2, <2>7, <2>10
  <1> QED
    BY <1>3, <1>4, <1>5, <1>6, <1>7 DEF Others

-----------------------------------------------------------------------------
(* The steps of a create. *)

\* A create asks the index and checks the file it names.
LEMMA ReuseKeeps ==
    ASSUME IndexAssumption, IndexInv, NEW i \in Served, Reuse(i) \/ Check(i)
    PROVE  IndexInv'
  <1> DEFINE c == calls[i]
  <1>0. /\ c \in Call /\ c # Idle /\ CallOK(i, c, files, steady[i], carried[i])
        /\ index \in [Ids -> SUBSET Paths] /\ count \in Nat
    <2>1. calls[i].pc \in Pcs
      BY DEF Reuse, Check, At, Pcs
    <2> QED
      BY <2>1, Underway
  <1>1. KeepFiles /\ index' = index /\ count' = count
    BY DEF Reuse, Check
  <1>2. ASSUME NEW d \in Call, Go(i, d), CallOK(i, d, files, steady[i], carried[i])
        PROVE  IndexInv'
    BY <1>0, <1>1, <1>2, GoKeeps
  <1>3. None \notin Paths /\ Title \in Paths /\ steady[i] \subseteq Paths
    BY <1>0, NamingPaths DEF IndexAssumption, CallOK
  <1> HIDE DEF c
  <1>4. CASE Reuse(i)
    <2>1. CASE Go(i, [c EXCEPT !.pc = "post", !.path = Title]) /\ c.known = None
      <3> DEFINE b == [c EXCEPT !.pc = "post"]
                 d == [b EXCEPT !.path = Title]
      <3>1. b \in Call /\ b.pc = "post" /\ b.known = None
        BY <1>0, <2>1, SetPc DEF Pcs
      <3>2. Go(i, d)
        BY <2>1
      <3> HIDE DEF b
      <3>3. d \in Call /\ d.pc = "post" /\ d.path = Title /\ d.known = None
        BY <1>3, <3>1, SetPath
      <3> HIDE DEF d
      <3>4. CallOK(i, d, files, steady[i], carried[i])
        BY <1>0, <1>3, <3>3 DEF CallOK, Holds
      <3> QED
        BY <1>2, <3>2, <3>3, <3>4
    <2>2. ASSUME NEW p \in Paths, Go(i, [c EXCEPT !.pc = "check", !.path = p, !.known = p])
          PROVE  IndexInv'
      <3> DEFINE b == [c EXCEPT !.pc = "check"]
                 e == [b EXCEPT !.path = p]
                 d == [e EXCEPT !.known = p]
      <3>1. b \in Call /\ b.pc = "check"
        BY <1>0, SetPc DEF Pcs
      <3>2. Go(i, d)
        BY <2>2
      <3> HIDE DEF b
      <3>3. e \in Call /\ e.pc = "check" /\ e.path = p
        BY <3>1, SetPath
      <3> HIDE DEF e
      <3>4. d \in Call /\ d.pc = "check" /\ d.path = p /\ d.known = p
        BY <3>3, SetKnown
      <3> HIDE DEF d
      <3>5. CallOK(i, d, files, steady[i], carried[i])
        BY <1>0, <3>4 DEF CallOK
      <3> QED
        BY <1>2, <3>2, <3>4, <3>5
    <2>3. c.known = None
      BY <1>0, <1>4 DEF Reuse, At, CallOK, c
    <2> QED
      BY <1>4, <2>1, <2>2, <2>3 DEF Reuse, c
  <1>5. CASE Check(i)
    <2> DEFINE t == ReusedTitle(i, c.path)
               b == [c EXCEPT !.pc = "post"]
               d == [b EXCEPT !.path = t]
    <2>0. c.path \in Paths /\ c.path = c.known
      BY <1>0, <1>5 DEF Check, At, CallOK, c
    <2>1. t \in Paths /\ (ByCurrent(files[c.path], i) => t = c.path)
      BY <1>3, <2>0 DEF ReusedTitle
    <2>2. Go(i, d)
      BY <1>5 DEF Check, c
    <2>3. b \in Call /\ b.pc = "post" /\ b.known = c.known /\ b.faulty = c.faulty
      BY <1>0, SetPc DEF Pcs
    <2> HIDE DEF b, t
    <2>4. d \in Call /\ d.pc = "post" /\ d.path = t /\ d.known = c.known
      BY <2>1, <2>3, SetPath
    <2> HIDE DEF d
    <2>5. Holds(i, d, files, steady[i]) => d.path = d.known
      BY <2>0, <2>1, <2>4 DEF Holds
    <2>6. CallOK(i, d, files, steady[i], carried[i])
      BY <1>0, <2>1, <2>4, <2>5 DEF CallOK
    <2> QED
      BY <1>2, <2>2, <2>4, <2>6
  <1> QED
    BY <1>4, <1>5

\* A create posts its file.
LEMMA PostKeeps ==
    ASSUME IndexAssumption, IndexInv, NEW i \in Served, Post(i) \/ PostAlt(i)
    PROVE  IndexInv'
  <1> DEFINE c == calls[i]
  <1>0. /\ c \in Call /\ c # Idle /\ CallOK(i, c, files, steady[i], carried[i])
        /\ index \in [Ids -> SUBSET Paths] /\ count \in Nat /\ c.pc \in {"post", "alt"}
    <2>1. calls[i].pc \in {"post", "alt"}
      BY DEF Post, PostAlt, At
    <2> QED
      BY <2>1, Underway DEF Pcs
  <1>1. index' = index /\ count' = count
    BY DEF Post, PostAlt
  <1>2. ASSUME NEW p \in Paths, Store(i, p) PROVE IndexInv'
    BY <1>0, <1>1, <1>2, StoreKeeps
  <1>3. CASE End(i) /\ KeepFiles
    BY <1>0, <1>1, <1>3, EndKeeps
  <1>4. CASE Post(i)
    <2>0. c.pc = "post" /\ c.path \in Paths
      BY <1>0, <1>4 DEF Post, At, CallOK
    <2>1. ASSUME files[c.path].id # i, Go(i, [c EXCEPT !.pc = "alt"]), KeepFiles PROVE IndexInv'
      <3> DEFINE d == [c EXCEPT !.pc = "alt"]
      <3>1. d \in Call /\ d.pc = "alt" /\ d.known = c.known /\ d.faulty = c.faulty
        BY <1>0, SetPc DEF Pcs
      <3>2. Go(i, d)
        BY <2>1
      <3> HIDE DEF d
      <3>3. ~Holds(i, d, files, steady[i])
        <4> SUFFICES ASSUME Holds(i, d, files, steady[i]) PROVE FALSE
          OBVIOUS
        <4>1. Holds(i, c, files, steady[i])
          BY <3>1 DEF Holds
        <4>2. c.path = c.known
          BY <1>0, <2>0, <4>1 DEF CallOK
        <4> QED
          BY <2>1, <4>1, <4>2 DEF Holds, ByCurrent
      <3>4. CallOK(i, d, files, steady[i], carried[i])
        BY <1>0, <3>1, <3>3 DEF CallOK
      <3> QED
        BY <1>0, <1>1, <2>1, <3>1, <3>2, <3>4, GoKeeps
    <2> QED
      BY <1>2, <1>3, <1>4, <2>0, <2>1 DEF Post
  <1>5. CASE PostAlt(i)
    <2>1. Alt[i] \in Paths
      BY DEF IndexAssumption
    <2> QED
      BY <1>2, <1>3, <1>5, <2>1 DEF PostAlt
  <1> QED
    BY <1>4, <1>5

\* A create records its file.
LEMMA RecordKeeps ==
    ASSUME IndexAssumption, IndexInv, NEW i \in Served, RecordCreated(i) \/ Presence(i)
    PROVE  IndexInv'
  <1> DEFINE c == calls[i]
  <1>0. /\ c \in Call /\ c # Idle /\ CallOK(i, c, files, steady[i], carried[i])
        /\ index \in [Ids -> SUBSET Paths] /\ count \in Nat /\ c.pc \in {"record", "presence"}
    <2>1. calls[i].pc \in {"record", "presence"}
      BY DEF RecordCreated, Presence, At
    <2> QED
      BY <2>1, Underway DEF Pcs
  <1>1. count' = count /\ KeepFiles
    BY DEF RecordCreated, Presence
  <1>2. c.path \in Paths
    BY <1>0 DEF CallOK
  <1>3. ASSUME Record(i, c.path) \/ RecordDuplicate(i, c.path) \/ UNCHANGED index
        PROVE  index' \in [Ids -> SUBSET Paths]
    BY <1>0, <1>2, <1>3, RecordTyped DEF IndexInv
  <1>4. CASE End(i) /\ (Record(i, c.path) \/ RecordDuplicate(i, c.path) \/ UNCHANGED index)
    BY <1>0, <1>1, <1>3, <1>4, EndKeeps
  <1>5. ASSUME NEW q \in Paths, RecordBeside(i, q) PROVE IndexInv'
    <2> DEFINE b == [c EXCEPT !.pc = "presence"]
               d == [b EXCEPT !.known = q]
    <2>1. Go(i, d) /\ UNCHANGED index
      BY <1>5 DEF RecordBeside
    <2>2. b \in Call /\ b.pc = "presence" /\ b.path = c.path
      BY <1>0, SetPc DEF Pcs
    <2> HIDE DEF b
    <2>3. d \in Call /\ d.pc = "presence" /\ d.path = c.path
      BY <2>2, SetKnown
    <2> HIDE DEF d
    <2>4. CallOK(i, d, files, steady[i], carried[i])
      BY <1>0, <1>2, <2>3 DEF CallOK
    <2> QED
      BY <1>0, <1>1, <2>1, <2>3, <2>4, GoKeeps
  <1> QED
    BY <1>4, <1>5 DEF RecordCreated, Presence

-----------------------------------------------------------------------------
(* Failed reads, the scanner, new commands and restarts. *)

\* A failed read sends a call on without the file.
LEMMA FaultKeeps ==
    ASSUME IndexAssumption, IndexInv, NEW i \in Served,
           ReadFails(i) \/ \E p \in Paths : SkipsFile(i, p)
    PROVE  IndexInv'
  <1> DEFINE c == calls[i]
  <1>0. /\ c \in Call /\ c # Idle /\ CallOK(i, c, files, steady[i], carried[i])
        /\ c.pc \in {"verify", "check", "presence", "walk"}
    <2>1. calls[i].pc \in {"verify", "check", "presence", "walk"}
      BY DEF ReadFails, SkipsFile, At
    <2> QED
      BY <2>1, Underway DEF Pcs
  <1>1. /\ UNCHANGED <<files, steady, carried, index, seen, scan, triggerOnly, count, edits>>
        /\ faults' \in Nat
    <2>1. faults \in Nat
      BY DEF IndexInv, TypeOK
    <2>2. CASE ReadFails(i)
      BY <2>1, <2>2 DEF ReadFails, KeepFiles, scanVars
    <2>3. ASSUME NEW p \in Paths, SkipsFile(i, p)
          PROVE  /\ UNCHANGED <<files, steady, carried, index, seen, scan, triggerOnly, count, edits>>
                 /\ faults' \in Nat
      BY <2>1, <2>3 DEF SkipsFile, KeepFiles, scanVars
    <2> QED
      BY <2>2, <2>3
  <1>2. ASSUME NEW d \in Call \cup {Idle}, calls' = [calls EXCEPT ![i] = d],
               CallOK(i, d, files, steady[i], carried[i])
        PROVE  IndexInv'
    <2>1. calls \in [Served -> Call \cup {Idle}]
      BY DEF IndexInv, TypeOK
    <2>2. calls' \in [Served -> Call \cup {Idle}]
      BY <1>2, <2>1
    <2>3. TypeOK'
      BY <1>1, <2>2 DEF IndexInv, TypeOK
    <2>4. ASSUME NEW j \in Served PROVE CallOK(j, calls'[j], files, steady[j], carried[j])
      BY <1>2, <2>1 DEF IndexInv, CallsOK
    <2>5. CallsOK'
      BY <1>1, <2>4 DEF CallsOK
    <2> QED
      BY <2>3, <2>5 DEF IndexInv
  <1> HIDE DEF c
  <1>3. CASE ReadFails(i)
    <2> DEFINE b == [c EXCEPT !.faulty = TRUE]
    <2>1. b \in Call /\ b.pc = c.pc /\ b.faulty /\ b.known = c.known
      BY <1>0, SetFaulty
    <2>2. calls' = [calls EXCEPT ![i] =
              CASE b.pc = "verify"   -> [b EXCEPT !.pc = "list", !.path = None]
                [] b.pc = "check"    -> [b EXCEPT !.pc = "post", !.path = Title]
                [] b.pc = "presence" -> Idle]
      BY <1>3 DEF ReadFails, c
    <2>3. b.pc \in {"verify", "check", "presence"}
      BY <1>3, <2>1 DEF ReadFails, c
    <2> HIDE DEF b
    <2>4. CASE b.pc = "verify"
      <3> DEFINE e == [b EXCEPT !.pc = "list"]
                 d == [e EXCEPT !.path = None]
      <3>1. calls' = [calls EXCEPT ![i] = d]
        BY <2>2, <2>4
      <3>2. e \in Call /\ e.pc = "list"
        BY <2>1, SetPc DEF Pcs
      <3> HIDE DEF e
      <3>3. d \in Call /\ d.pc = "list" /\ d.path = None
        BY <3>2, SetPath
      <3> HIDE DEF d
      <3>4. CallOK(i, d, files, steady[i], carried[i])
        BY <1>0, <3>3 DEF CallOK
      <3> QED
        BY <1>2, <3>1, <3>3, <3>4
    <2>5. CASE b.pc = "check"
      <3> DEFINE e == [b EXCEPT !.pc = "post"]
                 d == [e EXCEPT !.path = Title]
      <3>1. calls' = [calls EXCEPT ![i] = d]
        BY <2>2, <2>5
      <3>2. e \in Call /\ e.pc = "post" /\ e.faulty
        <4>1. e \in Call /\ e.pc = "post" /\ e.faulty = b.faulty
          BY <2>1, SetPc DEF Pcs
        <4> HIDE DEF e
        <4> QED
          BY <2>1, <4>1
      <3> HIDE DEF e
      <3>3. d \in Call /\ d.pc = "post" /\ d.path = Title /\ d.faulty /\ Title \in Paths
        BY <3>2, SetPath DEF IndexAssumption
      <3> HIDE DEF d
      <3>4. CallOK(i, d, files, steady[i], carried[i])
        BY <1>0, <3>3 DEF CallOK, Holds
      <3> QED
        BY <1>2, <3>1, <3>3, <3>4
    <2>6. CASE b.pc = "presence"
      <3>1. calls' = [calls EXCEPT ![i] = Idle]
        BY <2>2, <2>6
      <3> QED
        BY <1>2, <3>1, IdleOK
    <2> QED
      BY <2>3, <2>4, <2>5, <2>6
  <1>4. ASSUME NEW p \in Paths, SkipsFile(i, p) PROVE IndexInv'
    <2> DEFINE b == [c EXCEPT !.todo = @ \ {p}]
               d == [b EXCEPT !.faulty = TRUE]
    <2>1. calls' = [calls EXCEPT ![i] = d]
      <3>1. calls \in [Served -> Call \cup {Idle}]
        BY DEF IndexInv, TypeOK
      <3> QED
        BY <1>4, <3>1 DEF SkipsFile, c
    <2>2. b \in Call /\ b.pc = c.pc /\ b.path = c.path
      BY <1>0, CallParts, SetTodo
    <2> HIDE DEF b
    <2>3. d \in Call /\ d.pc = "walk" /\ d.path = c.path /\ d.faulty
      BY <1>4, <2>2, SetFaulty DEF SkipsFile, At, c
    <2> HIDE DEF d
    <2>4. c.pc = "walk"
      BY <1>4 DEF SkipsFile, At, c
    <2>5. CallOK(i, d, files, steady[i], carried[i])
      BY <1>0, <2>3, <2>4 DEF CallOK
    <2> QED
      BY <1>2, <2>1, <2>3, <2>5
  <1> QED
    BY <1>3, <1>4

\* The scanner rebuilds the index from what it has read.
LEMMA ScannerKeeps ==
    ASSUME IndexAssumption, IndexInv,
           StartScan \/ PublishIndex \/ \E p \in Paths : ScanFile(p)
    PROVE  IndexInv'
  <1>0. /\ files \in [Paths -> File \cup {None}] /\ index \in [Ids -> SUBSET Paths]
        /\ seen \in [Paths -> Ids \cup {None}]
        /\ scan \in [pc : {"idle", "cycle", "boot"}, todo : SUBSET Paths]
    BY DEF IndexInv, TypeOK
  <1>1. CASE StartScan
    <2>1. seen' \in [Paths -> Ids \cup {None}] /\ index' = index /\ UnchangedByScan
      BY <1>0, <1>1 DEF StartScan
    <2>2. scan' \in [pc : {"idle", "cycle", "boot"}, todo : SUBSET Paths]
      BY <1>1 DEF StartScan, Present
    <2> QED
      BY <1>0, <2>1, <2>2, ScanKeeps
  <1>2. CASE PublishIndex
    <2>1. index' \in [Ids -> SUBSET Paths] /\ UnchangedByScan
      BY <1>2 DEF PublishIndex, BuiltIndex
    <2>2. seen' \in [Paths -> Ids \cup {None}]
      BY <1>0, <1>2 DEF PublishIndex
    <2>3. scan' \in [pc : {"idle", "cycle", "boot"}, todo : SUBSET Paths]
      BY <1>2 DEF PublishIndex, Unscanned
    <2> QED
      BY <2>1, <2>2, <2>3, ScanKeeps
  <1>3. ASSUME NEW p \in Paths, ScanFile(p) PROVE IndexInv'
    <2>1. Indexable(p) => files[p].id \in Ids
      BY <1>0 DEF Indexable, File
    <2>2. seen' \in [Paths -> Ids \cup {None}] /\ index' = index /\ UnchangedByScan
      BY <1>0, <1>3, <2>1 DEF ScanFile
    <2>3. scan' \in [pc : {"idle", "cycle", "boot"}, todo : SUBSET Paths]
      BY <1>0, <1>3 DEF ScanFile
    <2> QED
      BY <1>0, <2>2, <2>3, ScanKeeps
  <1> QED
    BY <1>1, <1>2, <1>3

\* A command is taken up.
LEMMA StartKeeps ==
    ASSUME IndexAssumption, IndexInv, NEW i \in Served, StartCommand(i)
    PROVE  IndexInv'
  <1>1. count' \in Nat
    BY DEF StartCommand, IndexInv, TypeOK
  <1>2. 0 \in 0 .. Attempts /\ 1 \in 0 .. Attempts
    BY DEF IndexAssumption
  <1>3. CASE Begin(i, Fresh("resolve", 1, FALSE))
    BY <1>1, <1>2, <1>3, BeginKeeps
  <1>4. ASSUME NEW r \in BOOLEAN, Begin(i, Fresh("reuse", 0, r)) PROVE IndexInv'
    BY <1>1, <1>2, <1>4, BeginKeeps
  <1> QED
    BY <1>3, <1>4 DEF StartCommand

\* A restart drops the index, the bookkeeping and the calls.
LEMMA RestartKeeps ==
    ASSUME IndexAssumption, IndexInv, Restart
    PROVE  IndexInv'
  <1>1. /\ index' = [i \in Ids |-> {}] /\ seen' = [p \in Paths |-> None]
        /\ scan' = Unscanned(triggerOnly) /\ calls' = [i \in Served |-> Idle]
        /\ UNCHANGED <<files, steady, carried, triggerOnly, count, edits>>
    BY DEF Restart, KeepFiles
  <1>2. faults' \in Nat
    BY DEF Restart, IndexInv, TypeOK
  <1>3. scan' \in [pc : {"idle", "cycle", "boot"}, todo : SUBSET Paths]
    BY <1>1 DEF Unscanned
  <1>4. TypeOK'
    BY <1>1, <1>2, <1>3 DEF IndexInv, TypeOK
  <1>5. CallsOK'
    BY <1>1, IdleOK DEF CallsOK
  <1> QED
    BY <1>4, <1>5 DEF IndexInv

-----------------------------------------------------------------------------
(* The invariant. *)

\* The initial states satisfy the invariant.
LEMMA IndexInit ==
    ASSUME IndexAssumption, Init
    PROVE  IndexInv
  <1>1. /\ files \in [Paths -> File \cup {None}] /\ index = [i \in Ids |-> {}]
        /\ seen = [p \in Paths |-> None] /\ calls = [i \in Served |-> Idle]
        /\ steady = [i \in Served |-> {}] /\ carried = [i \in Served |-> {}]
        /\ count = 0 /\ edits = 0 /\ faults = 0
    BY DEF Init, IndexAssumption
  <1>2. triggerOnly \in BOOLEAN
    BY DEF Init
  <1>3. scan \in [pc : {"idle", "cycle", "boot"}, todo : SUBSET Paths]
    BY DEF Init, Unscanned
  <1>4. TypeOK
    BY <1>1, <1>2, <1>3 DEF TypeOK
  <1>5. CallsOK
    BY <1>1, IdleOK DEF CallsOK
  <1> QED
    BY <1>4, <1>5 DEF IndexInv

\* Every step keeps it.
LEMMA IndexNext ==
    ASSUME IndexAssumption, IndexInv, [Next]_vars
    PROVE  IndexInv'
  <1>1. ASSUME NEW i \in Served, StartCommand(i) \/ Lookup(i) \/ Create(i) \/ ReadFails(i)
        PROVE  IndexInv'
    <2>1. CASE StartCommand(i)
      BY <2>1, StartKeeps
    <2>2. CASE Resolve(i) \/ Verify(i) \/ List(i)
      BY <2>2, AskKeeps
    <2>3. CASE WalkFound(i) \/ WalkMissed(i) \/ \E p \in Paths : WalkFile(i, p)
      BY <2>3, WalkKeeps
    <2>4. CASE WriteResult(i)
      BY <2>4, ResultKeeps
    <2>5. CASE ReadFails(i) \/ \E p \in Paths : SkipsFile(i, p)
      BY <2>5, FaultKeeps
    <2>6. CASE Reuse(i) \/ Check(i)
      BY <2>6, ReuseKeeps
    <2>7. CASE Post(i) \/ PostAlt(i)
      BY <2>7, PostKeeps
    <2>8. CASE RecordCreated(i) \/ Presence(i)
      BY <2>8, RecordKeeps
    <2>9. CASE PostFails(i)
      BY <2>9, PostFailsKeeps
    <2> QED
      BY <1>1, <2>1, <2>2, <2>3, <2>4, <2>5, <2>6, <2>7, <2>8, <2>9 DEF Lookup, Create
  <1>2. CASE StartScan \/ PublishIndex \/ \E p \in Paths : ScanFile(p)
    BY <1>2, ScannerKeeps
  <1>3. CASE Others
    BY <1>3, OthersKeep
  <1>4. CASE Restart
    BY <1>4, RestartKeeps
  <1>5. CASE UNCHANGED vars
    BY <1>5 DEF vars, scanVars, bounds, IndexInv, TypeOK, CallsOK
  <1> QED
    BY <1>1, <1>2, <1>3, <1>4, <1>5 DEF Next

\* The invariant of the index and its commands: the history of an attempt is
\* about its identifier, and the path each call goes by is accounted for.
THEOREM IndexInvariant == Spec => []IndexInv
  <1>1. Init => IndexInv
    BY IndexAssumption, IndexInit
  <1>2. IndexInv /\ [Next]_vars => IndexInv'
    BY IndexAssumption, IndexNext
  <1> QED
    BY <1>1, <1>2, PTL DEF Spec

\* The directory, the index, the bookkeeping and the calls are always well
\* formed.
THEOREM IndexTypeCorrect == Spec => []TypeOK
  <1>1. IndexInv => TypeOK
    BY DEF IndexInv
  <1> QED
    BY <1>1, IndexInvariant, PTL

\* A lookup never answers with a path that did not name the identifier during
\* this very attempt, for any number of edits, repairs, renames and rebuilds
\* between its reads.
THEOREM LookupIsVerifiedHolds == Spec => []LookupIsVerified
  <1>1. IndexInv => LookupIsVerified
    <2> SUFFICES ASSUME IndexInv, NEW i \in Served, At(i, "found")
                 PROVE  calls[i].path \in carried[i]
      BY DEF LookupIsVerified
    <2>1. calls[i].pc = "found"
      BY DEF At
    <2> QED
      BY <2>1, Underway DEF Pcs, CallOK
  <1> QED
    BY <1>1, IndexInvariant, PTL

\* A result is dropped as not found only if no readable file named its
\* identifier throughout the last attempt: the walk has every such path before
\* it until it reads it.
THEOREM DropIsJustifiedHolds == Spec => DropIsJustified
  <1>1. ASSUME IndexInv, NEW i \in Served, WalkMissed(i), ~calls[i].faulty
        PROVE  steady[i] = {}
    <2>1. calls[i].pc = "walk" /\ calls[i].todo = {} /\ calls[i].path = None
      BY <1>1 DEF WalkMissed, At
    <2> QED
      BY <1>1, <2>1, Underway DEF Pcs, CallOK
  <1>2. IndexInv => [\A i \in Served :
                       WalkMissed(i) /\ calls[i].attempt = Attempts /\ ~calls[i].faulty
                       => steady[i] = {}]_vars
    BY <1>1
  <1> QED
    BY <1>2, IndexInvariant, PTL DEF DropIsJustified

\* Which steps touch the index besides the rebuild and the restart: those that
\* record a path, for one identifier.
LEMMA WhoRecords ==
    ASSUME [Next]_vars, ~PublishIndex, ~Restart
    PROVE  \/ index' = index
           \/ \E i \in Served, p \in {calls[j].path : j \in Served} :
                Record(i, p) \/ RecordDuplicate(i, p)
  <1>1. ASSUME NEW i \in Served,
               \/ StartCommand(i) \/ Resolve(i) \/ Verify(i) \/ List(i) \/ WriteResult(i)
               \/ Reuse(i) \/ Check(i) \/ Post(i) \/ PostAlt(i) \/ PostFails(i) \/ ReadFails(i)
               \/ \E p \in Paths : WalkFile(i, p) \/ SkipsFile(i, p)
        PROVE  index' = index
    BY <1>1 DEF StartCommand, Begin, Resolve, Verify, List, WriteResult, Reuse, Check, Post,
                PostAlt, PostFails, ReadFails, WalkFile, SkipsFile
  <1>2. ASSUME NEW i \in Served, WalkMissed(i) PROVE index' = index
    BY <1>2 DEF WalkMissed, Begin
  <1>3. ASSUME NEW i \in Served, WalkFound(i) \/ RecordCreated(i) \/ Presence(i)
        PROVE  \/ index' = index
               \/ Record(i, calls[i].path) \/ RecordDuplicate(i, calls[i].path)
    BY <1>3 DEF WalkFound, RecordCreated, Presence, RecordBeside
  <1>4. ASSUME NEW i \in Served, StartCommand(i) \/ Lookup(i) \/ Create(i) \/ ReadFails(i)
        PROVE  \/ index' = index
               \/ Record(i, calls[i].path) \/ RecordDuplicate(i, calls[i].path)
    BY <1>1, <1>2, <1>3, <1>4 DEF Lookup, Create
  <1>5. CASE StartScan \/ \E p \in Paths : ScanFile(p)
    BY <1>5 DEF StartScan, ScanFile
  <1>6. CASE Others
    BY <1>6 DEF Others, AddFile, RemoveFile, CopyFile, MoveFile, Repair, OthersWrite
  <1>7. CASE UNCHANGED vars
    BY <1>7 DEF vars
  <1> QED
    BY <1>4, <1>5, <1>6, <1>7 DEF Next

\* Once the index knows two files of one identifier, only a rebuild or a
\* restart forgets one of them.
THEOREM KnownDuplicateKeptHolds == Spec => KnownDuplicateKept
  <1>1. ASSUME IndexInv, [Next]_vars, ~PublishIndex, ~Restart, NEW j \in Ids, Ambiguous(j)
        PROVE  index[j] \subseteq index'[j]
    <2>1. index \in [Ids -> SUBSET Paths]
      BY <1>1 DEF IndexInv, TypeOK
    <2>2. ASSUME NEW i \in Served, NEW p, Record(i, p) PROVE index[j] \subseteq index'[j]
      BY <1>1, <2>1, <2>2 DEF Record
    <2>3. ASSUME NEW i \in Served, NEW p, RecordDuplicate(i, p) PROVE index[j] \subseteq index'[j]
      BY <2>1, <2>3 DEF RecordDuplicate
    <2> QED
      BY <1>1, <2>2, <2>3, WhoRecords
  <1>2. IndexInv /\ [Next]_vars
        => [~PublishIndex /\ ~Restart =>
              \A i \in Ids : Ambiguous(i) => index[i] \subseteq index'[i]]_vars
    BY <1>1
  <1> QED
    BY <1>2, IndexInvariant, PTL DEF Spec, KnownDuplicateKept

\* A create whose identifier has a file the index names, and which carries it
\* all along, stores no second file beside it, whatever happens between its
\* reads and its posts.
THEOREM CreateReusesHolds == Spec => CreateReusesTheFile
  <1>1. ASSUME IndexInv, NEW i \in Served, Post(i) \/ PostAlt(i) \/ PostFails(i),
               calls[i].known \in steady[i],
               ~calls[i].faulty, ByCurrent(files[calls[i].known], i),
               NEW p \in Paths \ {calls[i].known}
        PROVE  files'[p] = files[p]
    <2>1. calls[i].pc \in {"post", "alt"}
      BY <1>1 DEF Post, PostAlt, PostFails, At
    <2>2. calls[i] # Idle /\ CallOK(i, calls[i], files, steady[i], carried[i])
          /\ files \in [Paths -> File \cup {None}]
      BY <1>1, <2>1, Underway DEF Pcs
    <2>3. Holds(i, calls[i], files, steady[i])
      BY <1>1 DEF Holds
    <2>4. calls[i].pc = "post" /\ calls[i].path = calls[i].known
      BY <2>1, <2>2, <2>3 DEF CallOK
    <2>5. Post(i) \/ PostFails(i)
      BY <1>1, <2>4 DEF PostAlt, At
    <2>6. CASE KeepFiles
      BY <2>6 DEF KeepFiles
    <2>7. CASE WriteFiles([files EXCEPT ![calls[i].path] = Created(i)])
      <3>1. files' = [files EXCEPT ![calls[i].path] = Created(i)]
        BY <2>7 DEF WriteFiles
      <3> QED
        BY <2>2, <2>4, <3>1
    <2> QED
      BY <2>4, <2>5, <2>6, <2>7 DEF Post, PostFails, Store, At
  <1>2. IndexInv => [\A i \in Served :
                       (Post(i) \/ PostAlt(i) \/ PostFails(i))
                          /\ calls[i].known \in steady[i] /\ ~calls[i].faulty
                          /\ ByCurrent(files[calls[i].known], i)
                       => \A p \in Paths \ {calls[i].known} : files'[p] = files[p]]_vars
    BY <1>1
  <1> QED
    BY <1>2, IndexInvariant, PTL DEF CreateReusesTheFile

\* Who ends a create whose file is stored: its own record or presence check, if
\* nothing fails.
LEMMA WhoEnds ==
    ASSUME IndexAssumption, IndexInv, Next, NEW i \in Served,
           calls[i].pc \in {"record", "presence"}, calls'[i] = Idle, ~(faults' > faults)
    PROVE  RecordCreated(i) \/ Presence(i)
  <1>1. /\ calls[i] # Idle /\ calls \in [Served -> Call \cup {Idle}] /\ faults \in Nat
    BY Underway DEF Pcs, IndexInv, TypeOK
  <1>2. faults' # faults + 1
    BY <1>1
  <1>3. calls' # calls
    BY <1>1
  <1>4. ASSUME NEW j \in Served, NEW c, calls' = [calls EXCEPT ![j] = c] PROVE j = i
    BY <1>1, <1>4
  <1>5. ASSUME NEW j \in Served, StartCommand(j) PROVE FALSE
    <2>1. calls[j] = Idle /\ \E c : calls' = [calls EXCEPT ![j] = c]
      BY <1>5 DEF StartCommand, Begin, Go
    <2> QED
      BY <1>1, <1>4, <2>1
  <1>6. ASSUME NEW j \in Served, ReadFails(j) \/ PostFails(j) \/ \E p \in Paths : SkipsFile(j, p)
        PROVE  FALSE
    BY <1>2, <1>6 DEF ReadFails, PostFails, SkipsFile
  <1>7. ASSUME NEW j \in Served,
               \/ Resolve(j) \/ Verify(j) \/ List(j) \/ WriteResult(j)
               \/ Reuse(j) \/ Check(j) \/ Post(j) \/ PostAlt(j)
               \/ \E p \in Paths : WalkFile(j, p)
        PROVE  FALSE
    <2>1. calls[j].pc \notin {"record", "presence"}
      BY <1>7 DEF Resolve, Verify, List, WriteResult, Reuse, Check, Post, PostAlt, WalkFile, At
    <2>2. \E c : calls' = [calls EXCEPT ![j] = c]
      BY <1>7 DEF Resolve, Verify, List, WriteResult, Reuse, Check, Post, PostAlt, WalkFile,
                  Store, End, Go
    <2> QED
      BY <1>4, <2>1, <2>2
  <1>8. ASSUME NEW j \in Served, WalkFound(j) \/ WalkMissed(j) PROVE FALSE
    <2>1. calls[j].pc = "walk"
      BY <1>8 DEF WalkFound, WalkMissed, At
    <2>2. \E c : calls' = [calls EXCEPT ![j] = c]
      BY <1>8 DEF WalkFound, WalkMissed, Begin, End, Go
    <2> QED
      BY <1>4, <2>1, <2>2
  <1>9. ASSUME NEW j \in Served, RecordCreated(j) \/ Presence(j) PROVE j = i
    <2>1. \E c : calls' = [calls EXCEPT ![j] = c]
      BY <1>9 DEF RecordCreated, Presence, RecordBeside, End, Go
    <2> QED
      BY <1>4, <2>1
  <1>10. CASE StartScan \/ PublishIndex \/ \E p \in Paths : ScanFile(p)
    BY <1>3, <1>10 DEF StartScan, PublishIndex, ScanFile, UnchangedByScan
  <1>11. CASE Others
    BY <1>3, <1>11 DEF Others, AddFile, RemoveFile, CopyFile, MoveFile, Repair, OthersWrite
  <1>12. CASE Restart
    BY <1>2, <1>12 DEF Restart
  <1>13. CASE \E j \in Served : StartCommand(j) \/ Lookup(j) \/ Create(j) \/ ReadFails(j)
    BY <1>5, <1>6, <1>7, <1>8, <1>9, <1>13 DEF Lookup, Create
  <1> QED
    BY <1>10, <1>11, <1>12, <1>13 DEF Next

\* Unless a read fails or the process restarts, no create that got its answer ends
\* before its file can be resolved or its identifier is a known duplicate.
THEOREM CreatedFileIsVisibleHolds == Spec => CreatedFileIsVisible
  <1>1. ASSUME IndexInv, NEW i \in Served, calls'[i] = Idle, RecordCreated(i) \/ Presence(i)
        PROVE  calls[i].path \in index'[i] \/ Cardinality(index'[i]) >= 2
    <2>0. index \in [Ids -> SUBSET Paths] /\ i \in Ids
      BY <1>1, IndexAssumption DEF IndexInv, TypeOK, IndexAssumption
    <2>1. ASSUME Record(i, calls[i].path)
          PROVE  calls[i].path \in index'[i] \/ Cardinality(index'[i]) >= 2
      BY <2>0, <2>1 DEF Record, Ambiguous
    <2>2. ASSUME RecordDuplicate(i, calls[i].path) PROVE calls[i].path \in index'[i]
      BY <2>0, <2>2 DEF RecordDuplicate
    <2>3. CASE Presence(i)
      BY <2>1, <2>2, <2>3 DEF Presence
    <2>4. CASE RecordCreated(i)
      <3>1. ASSUME NEW q \in Paths, RecordBeside(i, q) PROVE FALSE
        <4> DEFINE b == [calls[i] EXCEPT !.pc = "presence"]
                   d == [b EXCEPT !.known = q]
        <4>1. calls[i] \in Call
          BY <1>1, <2>4, Underway DEF RecordCreated, At, Pcs
        <4>2. b \in Call
          BY <4>1, SetPc DEF Pcs
        <4>3. calls' = [calls EXCEPT ![i] = d]
          BY <3>1 DEF RecordBeside, Go
        <4> HIDE DEF b
        <4>4. d \in Call
          BY <4>2, SetKnown
        <4> HIDE DEF d
        <4>5. d # Idle
          BY <4>4, CallParts
        <4>6. calls'[i] = d
          BY <1>1, <4>3 DEF IndexInv, TypeOK
        <4> QED
          BY <1>1, <4>5, <4>6
      <3>2. ASSUME Ambiguous(i) \/ Resolves(i, calls[i].path), UNCHANGED index
            PROVE  calls[i].path \in index'[i] \/ Cardinality(index'[i]) >= 2
        BY <3>2 DEF Ambiguous, Resolves
      <3> QED
        BY <2>1, <2>4, <3>1, <3>2 DEF RecordCreated
    <2> QED
      BY <1>1, <2>3, <2>4
  <1>2. ASSUME IndexInv, Next, NEW i \in Served, calls[i].pc \in {"record", "presence"},
               calls'[i] = Idle, ~(faults' > faults)
        PROVE  calls[i].path \in index'[i] \/ Cardinality(index'[i]) >= 2
    BY <1>1, <1>2, IndexAssumption, WhoEnds
  <1>3. IndexInv /\ [Next]_vars
        => [\A i \in Served :
              calls[i].pc \in {"record", "presence"} /\ calls'[i] = Idle
              => \/ calls[i].path \in index'[i] \/ Cardinality(index'[i]) >= 2
                 \/ faults' > faults]_vars
    BY <1>2
  <1> QED
    BY <1>3, IndexInvariant, PTL DEF Spec, CreatedFileIsVisible

=============================================================================
