-------------------------- MODULE TypedCommandsProofs --------------------------
(***************************************************************************)
(* Proofs about the command consumer and the executors of the typed        *)
(* commands, for any commands, any batch size, any task, and any number of *)
(* lost sessions, failed requests and edits.  The consumer comes first: its*)
(* offset never passes a command that is neither executed nor dropped, and *)
(* each of its steps is a step of CommandLog or invisible there.  What is  *)
(* proved of it is used as it is for the executors that run inside it.     *)
(***************************************************************************)
EXTENDS TypedCommands, TLAPS

-----------------------------------------------------------------------------
(* The consumer. *)

Settled == executed \cup dropped

\* Nothing below the stored offset is open, and a session has a stored offset.
OffsetSettled ==
    /\ offset # None => 1 .. offset - 1 \subseteq Settled
    /\ session.pc # "down" => offset # None

\* The batch starts at the offset and ends within the log.
BatchInLog ==
    session.pc \in {"filter", "handle", "store"} =>
        session.from = offset /\ session.from <= session.to /\ session.to <= length

\* What the filter has looked at is kept or settled; so is, in the handler, the
\* whole batch; nothing of it is open once the offset is about to be stored.
BatchAccounted ==
    /\ session.pc = "filter" =>
         /\ session.from <= session.at /\ session.at <= session.to
         /\ session.kept \subseteq session.from .. session.at - 1
         /\ session.from .. session.at - 1 \subseteq session.kept \cup Settled
    /\ session.pc = "handle" =>
         /\ session.kept \subseteq session.from .. session.to
         /\ session.from .. session.to \subseteq session.kept \cup Settled
    /\ session.pc = "store" => session.from .. session.to \subseteq Settled

\* The executor under way works on the first message kept, which nobody drops.
CurrentIsFirst ==
    session.current # 0 =>
        /\ session.pc = "handle" /\ session.current \in session.kept
        /\ \A k \in session.kept : session.current <= k
        /\ session.current \in begun /\ session.current \notin dropped

\* A live command that was dropped was passed over by a start without an offset,
\* and no later session comes back to it.
PassedOver ==
    \A m \in dropped \ expired : m <= aged /\ (offset # None => m < offset)

ConsumerInv ==
    /\ ConsumerTypeOK /\ PassedOver
    /\ OffsetSettled /\ BatchInLog /\ BatchAccounted /\ CurrentIsFirst

-----------------------------------------------------------------------------

USE ConsumerAssumption

(* The fields of the session have their types. *)
LEMMA SessionFields ==
    ASSUME ConsumerTypeOK
    PROVE  /\ session.pc \in {"down", "poll", "filter", "handle", "store"}
           /\ session.from \in Nat /\ session.to \in Nat /\ session.at \in Nat
           /\ session.kept \subseteq Commands /\ session.current \in 0 .. MaxCommands
           /\ length \in Nat /\ aged \in Nat /\ MaxCommands \in Nat
           /\ offset # None => offset \in Nat \ {0} /\ offset <= length + 1
BY DEF ConsumerTypeOK, Session

(* Consumption starts with nothing settled and nothing owed. *)
LEMMA InvInit == ConsumerInit => ConsumerInv
<1>1. SUFFICES ASSUME ConsumerInit PROVE ConsumerInv
  OBVIOUS
<1>2. session = Down /\ Down \in Session
  BY <1>1 DEF ConsumerInit, Down, Session
<1>3. ConsumerTypeOK
  BY <1>1, <1>2 DEF ConsumerInit, ConsumerTypeOK
<1>4. QED
  BY <1>1, <1>2, <1>3 DEF ConsumerInit, ConsumerInv, PassedOver, OffsetSettled, BatchInLog,
                          BatchAccounted, CurrentIsFirst, Down

(* Publishing and the clock leave the session and what is settled alone. *)
LEMMA TopicStep ==
    ASSUME ConsumerInv, Publish \/ Expire
    PROVE  ConsumerInv'
<1>0. ConsumerTypeOK
  BY DEF ConsumerInv
<1>1. /\ UNCHANGED <<offset, session, begun, executed, dropped, faults>>
      /\ length <= length' /\ length' \in 0 .. MaxCommands
      /\ expired \subseteq expired' /\ expired' \subseteq 1 .. length'
      /\ aged' \in 0 .. length' /\ aged <= aged'
  <2>1. CASE Publish
    BY <1>0, <2>1 DEF Publish, ConsumerTypeOK
  <2>2. CASE Expire
    <3>1. CASE aged' = aged + 1 /\ aged < length /\ UNCHANGED expired
      BY <1>0, <2>2, <3>1 DEF Expire, ConsumerTypeOK
    <3>2. CASE \E m \in (1 .. length) \ expired : expired' = expired \cup {m} /\ UNCHANGED aged
      BY <1>0, <2>2, <3>2 DEF Expire, ConsumerTypeOK
    <3>3. QED
      BY <2>2, <3>1, <3>2 DEF Expire
  <2>3. QED
    BY <2>1, <2>2
<1>2. ConsumerTypeOK'
  <2>1. offset' \in (1 .. length' + 1) \cup {None}
    BY <1>0, <1>1, SessionFields
  <2>2. begun' \cup dropped' \subseteq 1 .. length'
    BY <1>0, <1>1, SessionFields DEF ConsumerTypeOK
  <2>3. session' \in Session /\ executed' \subseteq begun' /\ faults' \in 0 .. MaxFaults
    BY <1>0, <1>1 DEF ConsumerTypeOK
  <2>4. QED
    BY <1>1, <2>1, <2>2, <2>3 DEF ConsumerTypeOK
<1>3. BatchInLog'
  BY <1>0, <1>1, SessionFields DEF ConsumerInv, BatchInLog
<1>4. PassedOver'
  <2>1. \A m \in dropped : m \in Nat
    BY <1>0 DEF ConsumerTypeOK
  <2>2. QED
    BY <1>0, <1>1, <2>1, SessionFields DEF ConsumerInv, PassedOver
<1>5. QED
  BY <1>1, <1>2, <1>3, <1>4 DEF ConsumerInv, OffsetSettled, BatchAccounted, CurrentIsFirst, Settled

(* The session starts behind the commands that are past the window, which count
   as dropped, or where the last one left off. *)
LEMMA StartStep ==
    ASSUME ConsumerInv, Start
    PROVE  ConsumerInv'
<1>0. ConsumerTypeOK
  BY DEF ConsumerInv
<1>1. /\ session' = [Down EXCEPT !.pc = "poll"]
      /\ UNCHANGED <<length, expired, aged, begun, executed, faults>>
  BY DEF Start
<1>2. /\ offset' \in 1 .. length + 1 /\ offset' # None
      /\ dropped' \subseteq 1 .. length /\ dropped \subseteq dropped'
      /\ 1 .. offset' - 1 \subseteq executed \cup dropped'
      /\ \A m \in dropped' \ expired : m <= aged /\ m < offset'
  <2>1. CASE offset = None
    BY <1>0, <2>1, SessionFields DEF Start, StartOffset, ConsumerInv, PassedOver, ConsumerTypeOK
  <2>2. CASE offset # None
    BY <1>0, <2>2, SessionFields DEF Start, StartOffset, ConsumerInv, PassedOver, OffsetSettled,
                                     Settled, ConsumerTypeOK
  <2>3. QED
    BY <2>1, <2>2
<1>3. session' \in Session /\ session'.pc = "poll" /\ session'.current = 0
  BY <1>1 DEF Down, Session
<1>4. ConsumerTypeOK'
  BY <1>0, <1>1, <1>2, <1>3 DEF ConsumerTypeOK
<1>5. QED
  BY <1>1, <1>2, <1>3, <1>4 DEF ConsumerInv, PassedOver, OffsetSettled, BatchInLog,
                                BatchAccounted, CurrentIsFirst, Settled

(* Taking a batch commits to nothing. *)
LEMMA PollStep ==
    ASSUME ConsumerInv, Poll
    PROVE  ConsumerInv'
<1>0. ConsumerTypeOK
  BY DEF ConsumerInv
<1>1. UNCHANGED <<length, expired, aged, offset, begun, executed, dropped, faults>>
  BY DEF Poll
<1>2. offset # None /\ offset \in Nat \ {0}
  BY <1>0, SessionFields DEF Poll, ConsumerInv, OffsetSettled
<1>3. PICK to \in offset .. length :
        session' = [pc |-> "filter", from |-> offset, to |-> to, at |-> offset,
                    kept |-> {}, current |-> 0]
  BY DEF Poll
<1>4. session' \in Session
  BY <1>0, <1>2, <1>3, SessionFields DEF Session
<1>5. ConsumerTypeOK'
  BY <1>0, <1>1, <1>4 DEF ConsumerTypeOK
<1>6. QED
  BY <1>0, <1>1, <1>2, <1>3, <1>5, SessionFields
     DEF ConsumerInv, PassedOver, OffsetSettled, BatchInLog, BatchAccounted, CurrentIsFirst,
         Settled

(* The filter accounts for the message it looks at: kept, or dropped expired. *)
LEMMA FilterStep ==
    ASSUME ConsumerInv, Filter
    PROVE  ConsumerInv'
<1> DEFINE m    == session.at
           kept == IF Skip(m) THEN session.kept ELSE session.kept \cup {m}
<1>0. ConsumerTypeOK
  BY DEF ConsumerInv
<1>1. UNCHANGED <<length, expired, aged, offset, begun, executed, faults>>
  BY DEF Filter
<1>2. /\ session.pc = "filter" /\ session.current = 0 /\ offset # None
      /\ m \in session.from .. session.to /\ m \in 1 .. length /\ m \in Commands
  BY <1>0, SessionFields
     DEF Filter, ConsumerInv, BatchAccounted, BatchInLog, OffsetSettled, CurrentIsFirst,
         ConsumerTypeOK, Commands
<1>3. /\ dropped' = IF Skip(m) THEN dropped \cup {m} ELSE dropped
      /\ session' = [session EXCEPT !.at = m + 1, !.kept = kept,
                                    !.pc = IF m < session.to THEN "filter"
                                           ELSE IF kept = {} THEN "store" ELSE "handle"]
  BY DEF Filter
<1>4. /\ session'.pc = IF m < session.to THEN "filter"
                       ELSE IF kept = {} THEN "store" ELSE "handle"
      /\ session'.at = m + 1 /\ session'.kept = kept /\ session'.current = 0
      /\ session'.from = session.from /\ session'.to = session.to
  BY <1>0, <1>2, <1>3 DEF ConsumerTypeOK, Session
<1>5. session' \in Session
  <2>1. /\ m + 1 \in Nat /\ kept \in SUBSET Commands
        /\ (IF m < session.to THEN "filter" ELSE IF kept = {} THEN "store" ELSE "handle")
           \in {"down", "poll", "filter", "handle", "store"}
    BY <1>0, <1>2, SessionFields
  <2> HIDE DEF m, kept
  <2>2. QED
    BY <1>0, <1>3, <2>1 DEF ConsumerTypeOK, Session
<1>6. ConsumerTypeOK' /\ PassedOver'
  BY <1>0, <1>1, <1>2, <1>3, <1>5 DEF ConsumerTypeOK, ConsumerInv, PassedOver, Skip
<1>7. /\ kept \subseteq session.from .. m
      /\ session.from .. m \subseteq kept \cup Settled'
  BY <1>0, <1>1, <1>2, <1>3, SessionFields DEF ConsumerInv, BatchAccounted, Settled
<1>8. BatchAccounted'
  <2>1. m < session.to \/ m = session.to
    BY <1>0, <1>2, SessionFields
  <2>2. CASE m < session.to
    BY <1>0, <1>2, <1>4, <1>7, <2>2, SessionFields DEF BatchAccounted
  <2>3. CASE m = session.to
    BY <1>0, <1>2, <1>4, <1>7, <2>3, SessionFields DEF BatchAccounted
  <2>4. QED
    BY <2>1, <2>2, <2>3
<1>9. QED
  BY <1>1, <1>2, <1>3, <1>4, <1>6, <1>8
     DEF ConsumerInv, OffsetSettled, BatchInLog, CurrentIsFirst, Settled

(* A batch message found expired in the handler is settled and leaves the rest. *)
LEMMA DiscardStep ==
    ASSUME ConsumerInv, NEW m \in Commands, Discard(m)
    PROVE  ConsumerInv'
<1>0. ConsumerTypeOK
  BY DEF ConsumerInv
<1>1. /\ session' = [session EXCEPT !.kept = @ \ {m}]
      /\ dropped' = dropped \cup {m} /\ m \in expired
      /\ session.pc = "handle" /\ session.current = 0
      /\ UNCHANGED <<length, expired, aged, offset, begun, executed, faults>>
  BY DEF Discard
<1>2. /\ session'.pc = "handle" /\ session'.kept = session.kept \ {m}
      /\ session'.current = 0 /\ session'.from = session.from /\ session'.to = session.to
      /\ session' \in Session
  BY <1>0, <1>1, SessionFields DEF ConsumerTypeOK, Session
<1>3. ConsumerTypeOK'
  BY <1>0, <1>1, <1>2 DEF ConsumerTypeOK
<1>4. QED
  BY <1>1, <1>2, <1>3 DEF ConsumerInv, PassedOver, OffsetSettled, BatchInLog, BatchAccounted,
                          CurrentIsFirst, Settled

(* The executor of the first kept message starts; it is live and behind the
   stored offset, so not dropped. *)
LEMMA BeginStep ==
    ASSUME ConsumerInv, NEW m \in Commands, Begin(m)
    PROVE  ConsumerInv'
<1>0. ConsumerTypeOK
  BY DEF ConsumerInv
<1>1. /\ session' = [session EXCEPT !.current = m]
      /\ begun' = begun \cup {m} /\ m \notin expired
      /\ m \in session.kept /\ \A k \in session.kept : m <= k
      /\ session.pc = "handle"
      /\ UNCHANGED <<length, expired, aged, offset, executed, dropped, faults>>
  BY DEF Begin
<1>2. /\ session'.pc = "handle" /\ session'.kept = session.kept
      /\ session'.current = m /\ session'.from = session.from /\ session'.to = session.to
      /\ session' \in Session
  BY <1>0, <1>1, SessionFields DEF ConsumerTypeOK, Session, Commands
<1>3. m \in 1 .. length
  BY <1>0, <1>1, SessionFields DEF ConsumerInv, BatchAccounted, BatchInLog, Commands
<1>4. ConsumerTypeOK'
  BY <1>0, <1>1, <1>2, <1>3 DEF ConsumerTypeOK
<1>5. m \notin dropped
  <2>1. offset # None /\ offset \in Nat /\ offset <= m /\ m \in Nat
    BY <1>0, <1>1, SessionFields
       DEF ConsumerInv, BatchAccounted, BatchInLog, OffsetSettled, Commands
  <2>2. QED
    BY <1>1, <2>1 DEF ConsumerInv, PassedOver
<1>6. QED
  BY <1>1, <1>2, <1>4, <1>5 DEF ConsumerInv, PassedOver, OffsetSettled, BatchInLog,
                                BatchAccounted, CurrentIsFirst, Settled

(* It returns, with or without an error: its message is settled. *)
LEMMA ReturnStep ==
    ASSUME ConsumerInv, Return
    PROVE  ConsumerInv'
<1>0. ConsumerTypeOK
  BY DEF ConsumerInv
<1>1. /\ session' = [session EXCEPT !.kept = @ \ {session.current}, !.current = 0]
      /\ executed' = executed \cup {session.current}
      /\ UNCHANGED <<length, expired, aged, offset, begun, dropped, faults>>
      /\ session.pc = "handle" /\ session.current \in begun
  BY DEF Return, ConsumerInv, CurrentIsFirst
<1>2. /\ session'.pc = "handle" /\ session'.kept = session.kept \ {session.current}
      /\ session'.current = 0 /\ session'.from = session.from /\ session'.to = session.to
      /\ session' \in Session
  <2>1. session.kept \ {session.current} \in SUBSET Commands /\ 0 \in 0 .. MaxCommands
    BY <1>0, SessionFields
  <2>2. QED
    BY <1>0, <1>1, <2>1 DEF ConsumerTypeOK, Session
<1>3. ConsumerTypeOK'
  BY <1>0, <1>1, <1>2 DEF ConsumerTypeOK
<1>4. QED
  BY <1>1, <1>2, <1>3 DEF ConsumerInv, PassedOver, OffsetSettled, BatchInLog, BatchAccounted,
                          CurrentIsFirst, Settled

(* A batch whose kept messages are all settled ends, and the offset moves behind
   it; a lost session keeps the offset or loses it, never moves it. *)
LEMMA BatchEndStep ==
    ASSUME ConsumerInv, EndBatch \/ StoreOffset \/ SessionEnds
    PROVE  ConsumerInv'
<1>0. ConsumerTypeOK
  BY DEF ConsumerInv
<1>1. CASE EndBatch
  <2>1. /\ session' = [session EXCEPT !.pc = "store"] /\ session.kept = {}
        /\ session.pc = "handle"
        /\ UNCHANGED <<length, expired, aged, offset, begun, executed, dropped, faults>>
    BY <1>1 DEF EndBatch
  <2>2. /\ session'.pc = "store" /\ session'.current = session.current
        /\ session'.from = session.from /\ session'.to = session.to
        /\ session' \in Session /\ session.current = 0
    BY <1>0, <2>1, SessionFields DEF ConsumerTypeOK, Session, ConsumerInv, CurrentIsFirst
  <2>3. ConsumerTypeOK'
    BY <1>0, <2>1, <2>2 DEF ConsumerTypeOK
  <2>4. QED
    BY <2>1, <2>2, <2>3 DEF ConsumerInv, PassedOver, OffsetSettled, BatchInLog,
                            BatchAccounted, CurrentIsFirst, Settled
<1>2. CASE StoreOffset
  <2>1. /\ session' = [Down EXCEPT !.pc = "poll"] /\ session.pc = "store"
        /\ offset' = session.to + 1
        /\ UNCHANGED <<length, expired, aged, begun, executed, dropped, faults>>
    BY <1>2 DEF StoreOffset, OffsetBehindBatch
  <2>2. session' \in Session /\ session'.pc = "poll" /\ session'.current = 0
    BY <2>1 DEF Down, Session
  <2>3. /\ offset \in Nat \ {0} /\ session.from = offset /\ session.to <= length
        /\ session.from <= session.to
    BY <1>0, <2>1, SessionFields DEF ConsumerInv, OffsetSettled, BatchInLog
  <2>4. offset' \in 1 .. length + 1 /\ offset' # None
    BY <1>0, <2>1, <2>3, SessionFields
  <2>5. 1 .. offset' - 1 \subseteq Settled
    BY <1>0, <2>1, <2>3, SessionFields DEF ConsumerInv, OffsetSettled, BatchAccounted
  <2>6. ConsumerTypeOK'
    BY <1>0, <2>1, <2>2, <2>4 DEF ConsumerTypeOK
  <2>7. PassedOver'
    <3>1. \A m \in dropped : m \in Nat
      BY <1>0 DEF ConsumerTypeOK
    <3>2. offset # None /\ offset < offset' /\ offset' \in Nat /\ offset \in Nat
      BY <1>0, <2>1, <2>3, <2>4, SessionFields DEF ConsumerInv, OffsetSettled
    <3>3. QED
      BY <2>1, <3>1, <3>2 DEF ConsumerInv, PassedOver
  <2>8. QED
    BY <2>1, <2>2, <2>4, <2>5, <2>6, <2>7
       DEF ConsumerInv, OffsetSettled, BatchInLog, BatchAccounted, CurrentIsFirst, Settled
<1>3. CASE SessionEnds
  <2>1. /\ session' = Down /\ offset' \in {offset, None}
        /\ faults' \in 0 .. MaxFaults
        /\ UNCHANGED <<length, expired, aged, begun, executed, dropped>>
    BY <1>0, <1>3 DEF SessionEnds, ConsumerTypeOK
  <2>2. session' \in Session /\ session'.pc = "down" /\ session'.current = 0
    BY <2>1 DEF Down, Session
  <2>3. ConsumerTypeOK'
    BY <1>0, <2>1, <2>2 DEF ConsumerTypeOK
  <2>4. QED
    BY <2>1, <2>2, <2>3 DEF ConsumerInv, PassedOver, OffsetSettled, BatchInLog,
                            BatchAccounted, CurrentIsFirst, Settled
<1>4. QED
  BY <1>1, <1>2, <1>3

(* Every step of the consumer keeps the invariant. *)
LEMMA InvStep == ConsumerInv /\ [ConsumerNext]_consumerVars => ConsumerInv'
<1>1. SUFFICES ASSUME ConsumerInv, [ConsumerNext]_consumerVars PROVE ConsumerInv'
  OBVIOUS
<1>2. CASE Publish \/ Expire
  BY <1>1, <1>2, TopicStep
<1>3. CASE EndBatch \/ StoreOffset \/ SessionEnds
  BY <1>1, <1>3, BatchEndStep
<1>4. CASE Start \/ Poll \/ Filter \/ Return
  BY <1>1, <1>4, StartStep, PollStep, FilterStep, ReturnStep
<1>5. CASE \E m \in Commands : Discard(m) \/ Begin(m)
  BY <1>1, <1>5, DiscardStep, BeginStep
<1>6. CASE UNCHANGED consumerVars
  BY <1>1, <1>6 DEF consumerVars, ConsumerInv, ConsumerTypeOK, OffsetSettled, BatchInLog,
                    BatchAccounted, CurrentIsFirst, Settled, PassedOver
<1>7. QED
  BY <1>1, <1>2, <1>3, <1>4, <1>5, <1>6 DEF ConsumerNext, Consume, Handle

(* The stored offset never passes a command that is neither executed nor
   dropped, through redeliveries, lost sessions and a replaced volume. *)
THEOREM OffsetInvariant == ConsumerSpec => []ConsumerInv
BY InvInit, InvStep, PTL DEF ConsumerSpec

-----------------------------------------------------------------------------
(* Refinement *)

(* What the outcome of a command says about the sets it is computed from. *)
LEMMA FateFacts ==
    /\ \A m \in Commands :
         /\ Fate[m] \in Log!Open <=> m \notin Settled
         /\ Fate[m] = "started" <=> m \in begun /\ m \notin Settled
         /\ Fate[m] = "executed" <=> m \in executed
    /\ DOMAIN Fate = Commands
BY DEF Fate, Log!Open, Settled

(* Dropping expired commands is one step of CommandLog, or none if all of them
   were settled before. *)
LEMMA DropRefines ==
    ASSUME ConsumerTypeOK, NEW S \in SUBSET expired, S \subseteq Commands,
           dropped' = dropped \cup S,
           UNCHANGED <<length, expired, aged, offset, begun, executed>>
    PROVE  [Log!Next]_(Log!vars)
<1> DEFINE T == S \ Settled
<1>1. Fate' = [m \in Commands |-> IF m \in T THEN "dropped" ELSE Fate[m]]
  BY DEF Fate, Settled
<1>2. CASE T = {}
  <2>1. Fate' = Fate
    BY <1>1, <1>2 DEF Fate
  <2>2. QED
    BY <2>1 DEF Log!vars
<1>3. CASE T # {}
  <2>1. Log!Drop(T)
    BY <1>1, <1>3, FateFacts DEF Log!Drop, Log!Commands, Commands
  <2>2. T \in SUBSET Log!Commands
    BY DEF Log!Commands, Commands
  <2>3. QED
    BY <2>1, <2>2 DEF Log!Next
<1>4. QED
  BY <1>2, <1>3

(* A command is begun only when all before it are settled; a second delivery of
   a command whose executor had started shows no step. *)
LEMMA BeginRefines ==
    ASSUME ConsumerInv, NEW m \in Commands, Begin(m)
    PROVE  [Log!Next]_(Log!vars)
<1>0. ConsumerTypeOK
  BY DEF ConsumerInv
<1>1. /\ begun' = begun \cup {m} /\ m \notin expired
      /\ m \in session.kept /\ \A k \in session.kept : m <= k
      /\ session.pc = "handle"
      /\ UNCHANGED <<length, expired, aged, offset, executed, dropped>>
  BY DEF Begin
<1>2. /\ m \in session.from .. session.to /\ m \in 1 .. length
      /\ session.from = offset /\ offset \in Nat \ {0}
  BY <1>0, <1>1, SessionFields DEF ConsumerInv, BatchAccounted, BatchInLog, OffsetSettled
<1>3. \A k \in 1 .. m - 1 : k \in Settled /\ k \in Commands
  <2>1. SUFFICES ASSUME NEW k \in 1 .. m - 1 PROVE k \in Settled /\ k \in Commands
    OBVIOUS
  <2>2. k \in Commands /\ k \notin session.kept
    BY <1>0, <1>1, <1>2, <2>1, SessionFields DEF Commands
  <2>3. k \in 1 .. offset - 1 \/ k \in session.from .. session.to
    BY <1>0, <1>2, <2>1, SessionFields
  <2>4. QED
    BY <1>1, <1>2, <2>2, <2>3, ConsumerAssumption
       DEF ConsumerInv, OffsetSettled, BatchAccounted
<1>4. CASE m \in begun \/ m \in Settled
  <2>1. Fate' = Fate
    BY <1>1, <1>4 DEF Fate, Settled
  <2>2. QED
    BY <1>1, <2>1 DEF Log!vars
<1>5. CASE m \notin begun /\ m \notin Settled
  <2>1. Fate[m] = "pending"
    BY <1>5 DEF Fate, Settled
  <2>2. Fate' = [Fate EXCEPT ![m] = "started"]
    BY <1>1, <1>5 DEF Fate, Settled
  <2>3. \A k \in 1 .. m - 1 : Fate[k] \notin Log!Open
    BY <1>3, FateFacts
  <2>4. Log!Begin(m)
    BY <1>1, <1>2, <2>1, <2>2, <2>3 DEF Log!Begin
  <2>5. QED
    BY <2>4 DEF Log!Next, Log!Commands, Commands
<1>6. QED
  BY <1>4, <1>5

(* A command returns once; the return of a second delivery shows no step. *)
LEMMA ReturnRefines ==
    ASSUME ConsumerInv, Return
    PROVE  [Log!Next]_(Log!vars)
<1> DEFINE m == session.current
<1>0. ConsumerTypeOK
  BY DEF ConsumerInv
<1>1. /\ executed' = executed \cup {m} /\ m \in begun /\ m \notin dropped
      /\ m \in Commands
      /\ UNCHANGED <<length, expired, aged, offset, begun, dropped>>
  BY <1>0, SessionFields DEF Return, ConsumerInv, CurrentIsFirst
<1>2. CASE m \in executed
  <2>1. Fate' = Fate
    BY <1>1, <1>2 DEF Fate
  <2>2. QED
    BY <1>1, <2>1 DEF Log!vars
<1>3. CASE m \notin executed
  <2>1. Fate[m] = "started"
    BY <1>1, <1>3, FateFacts DEF Settled
  <2>2. Fate' = [Fate EXCEPT ![m] = "executed"]
    BY <1>1 DEF Fate
  <2>3. Log!Return(m)
    BY <1>1, <2>1, <2>2 DEF Log!Return
  <2>4. QED
    BY <1>1, <2>3 DEF Log!Next, Log!Commands, Commands
<1>4. QED
  BY <1>2, <1>3

(* Each step of the consumer is a step of CommandLog or invisible there. *)
LEMMA StepRefines ==
    ConsumerInv /\ [ConsumerNext]_consumerVars => [Log!Next]_(Log!vars)
<1>1. SUFFICES ASSUME ConsumerInv, [ConsumerNext]_consumerVars PROVE [Log!Next]_(Log!vars)
  OBVIOUS
<1>0. ConsumerTypeOK
  BY <1>1 DEF ConsumerInv
<1>2. CASE Publish
  <2>1. Fate' = Fate
    BY <1>2 DEF Publish, Fate
  <2>2. Log!Publish
    BY <1>2, <2>1 DEF Publish, Log!Publish
  <2>3. QED
    BY <2>2 DEF Log!Next
<1>3. CASE Expire
  <2>1. Fate' = Fate /\ length' = length /\ offset' = offset
    BY <1>3 DEF Expire, Fate
  <2>2. CASE \E m \in (1 .. length) \ expired : expired' = expired \cup {m} /\ UNCHANGED aged
    <3>1. PICK m \in 1 .. length : expired' = expired \cup {m} /\ UNCHANGED aged
      BY <2>2
    <3>2. Log!Expire(m) /\ m \in Log!Commands
      BY <1>0, <2>1, <3>1 DEF Log!Expire, Log!Commands, ConsumerTypeOK
    <3>3. QED
      BY <3>2 DEF Log!Next
  <2>3. CASE aged < length /\ aged' = aged + 1 /\ UNCHANGED expired
    <3>1. Log!Age
      BY <2>1, <2>3 DEF Log!Age
    <3>2. QED
      BY <3>1 DEF Log!Next
  <2>4. QED
    BY <1>3, <2>2, <2>3 DEF Expire
<1>4. CASE Start
  <2>1. UNCHANGED <<length, expired, aged, begun, executed>>
    BY <1>4 DEF Start
  <2>2. CASE offset = None
    <3>1. dropped' = dropped \cup (1 .. aged) /\ offset' # None
      BY <1>0, <1>4, <2>2, SessionFields DEF Start, StartOffset
    <3>2. Fate' = [m \in Commands |->
                     IF m <= aged /\ Fate[m] \in Log!Open THEN "dropped" ELSE Fate[m]]
      <4>1. \A m \in Commands : m \in 1 .. aged <=> m <= aged
        BY <1>0, SessionFields DEF Commands
      <4>2. \A m \in Commands :
               m \in dropped' <=> m \in dropped \/ m <= aged
        BY <3>1, <4>1
      <4>3. QED
        BY <2>1, <4>2, FateFacts DEF Fate, Settled
    <3>3. Log!PassOver
      BY <2>1, <2>2, <3>1, <3>2 DEF Log!PassOver, Log!Commands, Commands
    <3>4. QED
      BY <3>3 DEF Log!Next
  <2>3. CASE offset # None
    <3>1. UNCHANGED <<dropped, offset>>
      BY <1>4, <2>3 DEF Start, StartOffset
    <3>2. QED
      BY <2>1, <3>1 DEF Fate, Log!vars
  <2>4. QED
    BY <2>2, <2>3
<1>5. CASE Filter
  <2>1. session.at \in Commands
    <3>1. session.pc = "filter" /\ offset \in Nat \ {0}
      BY <1>0, <1>1, <1>5, SessionFields DEF Filter, ConsumerInv, OffsetSettled
    <3>2. QED
      BY <1>0, <1>1, <3>1, SessionFields
         DEF ConsumerInv, BatchAccounted, BatchInLog, Commands, ConsumerTypeOK
  <2>2. PICK S \in SUBSET expired : S \subseteq Commands /\ dropped' = dropped \cup S
    <3>1. CASE session.at \in expired
      <4>1. dropped' = dropped \cup {session.at}
        BY <1>5, <3>1 DEF Filter, Skip
      <4>2. QED
        BY <2>1, <3>1, <4>1
    <3>2. CASE session.at \notin expired
      <4>1. dropped' = dropped \cup {}
        BY <1>5, <3>2 DEF Filter, Skip
      <4>2. QED
        BY <4>1
    <3>3. QED
      BY <3>1, <3>2
  <2>3. QED
    BY <1>0, <1>5, <2>2, DropRefines DEF Filter
<1>6. CASE \E m \in Commands : Discard(m)
  <2>1. PICK m \in Commands : Discard(m)
    BY <1>6
  <2>2. {m} \in SUBSET expired /\ {m} \subseteq Commands
    BY <2>1 DEF Discard
  <2>3. QED
    BY <1>0, <2>1, <2>2, DropRefines DEF Discard
<1>7. CASE Return \/ \E m \in Commands : Begin(m)
  BY <1>1, <1>7, ReturnRefines, BeginRefines
<1>8. CASE Poll \/ EndBatch \/ UNCHANGED consumerVars
  <2>1. UNCHANGED <<length, expired, aged, offset, begun, executed, dropped>>
    BY <1>8 DEF Poll, EndBatch, consumerVars
  <2>2. QED
    BY <2>1 DEF Fate, Log!vars
<1>9. CASE StoreOffset
  <2>1. UNCHANGED <<length, expired, aged, begun, executed, dropped>>
    BY <1>9 DEF StoreOffset
  <2>2. offset # None /\ offset' # None
    BY <1>0, <1>1, <1>9, SessionFields
       DEF StoreOffset, OffsetBehindBatch, ConsumerInv, OffsetSettled
  <2>3. QED
    BY <2>1, <2>2 DEF Fate, Log!vars
<1>10. CASE SessionEnds
  <2>1. UNCHANGED <<length, expired, aged, begun, executed, dropped>>
    BY <1>10 DEF SessionEnds
  <2>2. Fate' = Fate
    BY <2>1 DEF Fate
  <2>3. CASE offset' = offset
    BY <2>1, <2>2, <2>3 DEF Log!vars
  <2>4. CASE offset' = None
    <3>1. Log!LoseOffset
      BY <2>1, <2>2, <2>4 DEF Log!LoseOffset
    <3>2. QED
      BY <3>1 DEF Log!Next
  <2>5. QED
    BY <1>10, <2>3, <2>4 DEF SessionEnds
<1>11. QED
  BY <1>1, <1>2, <1>3, <1>4, <1>5, <1>6, <1>7, <1>8, <1>9, <1>10
     DEF ConsumerNext, Consume, Handle

(* The consumer implements the safety of CommandLog: with its filter, its
   batches, its stored offset and its lost sessions it begins a command only
   live and after all commands before it are settled, and drops a live command
   only at a start that finds no stored offset and only if the broker stamped it
   before the window. *)
THEOREM ConsumerRefinesLog == ConsumerSpec => Log!SafeSpec
<1>1. ConsumerInit => Log!Init
  BY DEF ConsumerInit, Log!Init, Fate, Log!Commands, Commands
<1>2. ConsumerInv /\ [ConsumerNext]_consumerVars => [Log!Next]_(Log!vars)
  BY StepRefines
<1>3. QED
  BY <1>1, <1>2, OffsetInvariant, PTL DEF ConsumerSpec, Log!SafeSpec

-----------------------------------------------------------------------------
(* Frontmatters. *)

(* The types of the keys the executors name. *)
LEMMA KeyFacts ==
    /\ {"status", "phase", "assignee", "previous_assignee", "trigger_count", "max_triggers",
        "ref", "trigger_scope", "current_job", "target_vault", "retry_count"} \subseteq Keys
    /\ KeyTypes["status"] = Opt(Statuses)
    /\ KeyTypes["phase"] = Opt(Phases \cup {"human_review"})
    /\ KeyTypes["assignee"] = Opt(Names) /\ KeyTypes["previous_assignee"] = Opt(Names)
    /\ KeyTypes["trigger_count"] = Opt(Nat) /\ KeyTypes["retry_count"] = Opt(Nat)
    /\ KeyTypes["max_triggers"] = Opt(Nat) /\ KeyTypes["trigger_scope"] = Opt(Phases)
    /\ KeyTypes["current_job"] = Opt({"", "job"}) /\ KeyTypes["target_vault"] = Opt({"here"})
BY DEF Keys, KeyTypes

(* The keys of a frontmatter, read. *)
LEMMA ReadKeys ==
    ASSUME NEW fm, IsFrontmatter(fm)
    PROVE  /\ fm.assignee \in Opt(Names) /\ fm.previous_assignee \in Opt(Names)
           /\ fm.trigger_count \in Opt(Nat) /\ fm.max_triggers \in Opt(Nat)
           /\ fm.retry_count \in Opt(Nat) /\ Assignee(fm) \in Names
<1>1. \A k \in Keys : fm[k] \in KeyTypes[k]
  BY DEF IsFrontmatter, IsFields
<1>2. /\ fm.assignee \in Opt(Names) /\ fm.previous_assignee \in Opt(Names)
      /\ fm.trigger_count \in Opt(Nat) /\ fm.max_triggers \in Opt(Nat)
      /\ fm.retry_count \in Opt(Nat)
  BY <1>1, KeyFacts
<1>3. QED
  BY <1>2 DEF Assignee, Names, Opt

(* Laying typed fields over a frontmatter. *)
LEMMA OverlayTyped ==
    ASSUME NEW fm, IsFrontmatter(fm), NEW f, IsFields(f)
    PROVE  /\ IsFrontmatter(Overlay(fm, f))
           /\ \A j \in Keys : Overlay(fm, f)[j] = IF j \in DOMAIN f THEN f[j] ELSE fm[j]
BY DEF IsFrontmatter, IsFields, Overlay

(* Picking keys of a frontmatter. *)
LEMMA PickTyped ==
    ASSUME NEW fm, IsFrontmatter(fm), NEW K \in SUBSET Keys
    PROVE  /\ IsFields(Pick(fm, K)) /\ DOMAIN Pick(fm, K) = K
           /\ \A k \in K : Pick(fm, K)[k] = fm[k]
BY DEF IsFrontmatter, IsFields, Pick

\* What the mutators leave alone: the budget; and none brings an agent in.
BudgetKept(a, b) ==
    /\ IsFrontmatter(b)
    /\ b.max_triggers = a.max_triggers /\ b.trigger_count = a.trigger_count /\ b.ref = a.ref
    /\ Assignee(a) \notin Agents => Assignee(b) \notin Agents

(* Clearing the assignee keeps the rest and leaves nobody. *)
LEMMA ClearFacts ==
    ASSUME NEW fm, IsFrontmatter(fm)
    PROVE  /\ BudgetKept(fm, ClearAssignee(fm)) /\ Assignee(ClearAssignee(fm)) = ""
           /\ BudgetKept(fm, ClearAssigneeUnlessHuman(fm))
           /\ Assignee(ClearAssigneeUnlessHuman(fm)) \notin Agents
           /\ BudgetKept(fm, ClearAssigneeIfHumanReview(fm))
<1> DEFINE prev == IF Assignee(fm) = "" THEN fm.previous_assignee ELSE Assignee(fm)
           half == [fm EXCEPT !["assignee"] = ""]
           full == [half EXCEPT !["previous_assignee"] = prev]
<1>1. prev \in Opt(Names) /\ "" \in Opt(Names) /\ "" # Absent /\ "" \notin Agents
  BY ReadKeys, ValuesAssumption DEF Opt, Names
<1>2. ClearAssignee(fm) = full
  BY DEF ClearAssignee
<1>3. /\ IsFrontmatter(half)
      /\ \A j \in Keys : half[j] = IF j = "assignee" THEN "" ELSE fm[j]
  BY <1>1, KeyFacts DEF IsFrontmatter, IsFields
<1>4. /\ IsFrontmatter(full)
      /\ \A j \in Keys : full[j] = IF j = "previous_assignee" THEN prev ELSE half[j]
  <2> HIDE DEF half, prev
  <2>1. QED
    BY <1>1, <1>3, KeyFacts DEF IsFrontmatter, IsFields, full
<1>5. /\ BudgetKept(fm, ClearAssignee(fm)) /\ Assignee(ClearAssignee(fm)) = ""
  <2> HIDE DEF half, prev, full
  <2>1. QED
    BY <1>1, <1>2, <1>3, <1>4, KeyFacts DEF BudgetKept, Assignee
<1>6. /\ BudgetKept(fm, ClearAssigneeUnlessHuman(fm))
      /\ Assignee(ClearAssigneeUnlessHuman(fm)) \notin Agents
  <2>1. CASE Assignee(fm) \in Humans
    BY <2>1, ValuesAssumption DEF ClearAssigneeUnlessHuman, BudgetKept
  <2>2. CASE Assignee(fm) \notin Humans
    BY <1>1, <1>5, <2>2 DEF ClearAssigneeUnlessHuman
  <2>3. QED
    BY <2>1, <2>2
<1>7. BudgetKept(fm, ClearAssigneeIfHumanReview(fm))
  BY <1>6 DEF ClearAssigneeIfHumanReview, BudgetKept
<1>8. QED
  BY <1>5, <1>6, <1>7

(* So do the heal of target_vault and the end of a job. *)
LEMMA HealFacts ==
    ASSUME NEW fm, IsFrontmatter(fm)
    PROVE  /\ BudgetKept(fm, HealTargetVault(fm)) /\ BudgetKept(fm, ClearCurrentJobIfTerminal(fm))
           /\ \A j \in Keys : j # "target_vault" => HealTargetVault(fm)[j] = fm[j]
<1> DEFINE heal == [fm EXCEPT !.target_vault = "here"]
           done == [fm EXCEPT !.current_job = ""]
<1>1. "here" \in KeyTypes["target_vault"] /\ "" \in KeyTypes["current_job"]
  BY KeyFacts DEF Opt
<1>2. /\ IsFrontmatter(heal) /\ \A j \in Keys : j # "target_vault" => heal[j] = fm[j]
      /\ IsFrontmatter(done) /\ \A j \in Keys : j # "current_job" => done[j] = fm[j]
  BY <1>1, KeyFacts DEF IsFrontmatter, IsFields
<1>3. /\ HealTargetVault(fm) \in {fm, heal} /\ ClearCurrentJobIfTerminal(fm) \in {fm, done}
  BY DEF HealTargetVault, ClearCurrentJobIfTerminal
<1> HIDE DEF heal, done
<1>4. BudgetKept(fm, heal) /\ BudgetKept(fm, done)
  BY <1>2, KeyFacts DEF BudgetKept, Assignee
<1>5. BudgetKept(fm, fm)
  BY DEF BudgetKept
<1>6. QED
  BY <1>2, <1>3, <1>4, <1>5

-----------------------------------------------------------------------------
(* What a command computes from the frontmatter it read. *)

\* A frontmatter that has used up its triggers has no agent.
NoAgent(fm) == TriggerCapReached(fm) => Assignee(fm) \notin Agents

(* Two frontmatters that agree on the budget and the assignee agree on this. *)
LEMMA NoAgentSame ==
    ASSUME NEW a, NEW b, NoAgent(a), BudgetKept(a, b)
    PROVE  NoAgent(b)
BY DEF NoAgent, BudgetKept, TriggerCapReached, TriggerCapEngaged

(* The guard keeps a cap it finds and admits a new one only up to the default. *)
LEMMA GuardFacts ==
    ASSUME NEW fm, IsFrontmatter(fm), NEW u, IsFields(u)
    PROVE  /\ IsFrontmatter(ControllerOwnedGuard(fm, u))
           /\ LET cap == ControllerOwnedGuard(fm, u).max_triggers IN
              \/ cap = fm.max_triggers
              \/ fm.max_triggers = Absent /\ cap <= DefaultCap
<1> DEFINE over  == Overlay(fm, u)
           cap   == AllowedCap(fm.max_triggers, over.max_triggers)
           scope == IF "trigger_count" \in DOMAIN u THEN over.trigger_scope ELSE fm.trigger_scope
           half  == [over EXCEPT !.max_triggers = cap]
           full  == [half EXCEPT !.trigger_scope = scope]
<1>1. IsFrontmatter(over)
  BY OverlayTyped
<1>2. /\ cap \in KeyTypes["max_triggers"] /\ scope \in KeyTypes["trigger_scope"]
      /\ cap = fm.max_triggers \/ (fm.max_triggers = Absent /\ cap <= DefaultCap)
  <2> HIDE DEF over
  <2>1. /\ over.max_triggers \in KeyTypes["max_triggers"]
        /\ fm.max_triggers \in KeyTypes["max_triggers"]
        /\ over.trigger_scope \in KeyTypes["trigger_scope"]
        /\ fm.trigger_scope \in KeyTypes["trigger_scope"]
    BY <1>1, KeyFacts DEF IsFrontmatter, IsFields
  <2>2. QED
    BY <2>1 DEF AllowedCap
<1>3. ControllerOwnedGuard(fm, u) = full
  BY DEF ControllerOwnedGuard
<1> HIDE DEF cap, scope, over
<1>4. IsFrontmatter(half) /\ half.max_triggers = cap
  BY <1>1, <1>2, KeyFacts DEF IsFrontmatter, IsFields
<1> HIDE DEF half
<1>5. IsFrontmatter(full) /\ full.max_triggers = cap
  BY <1>2, <1>4, KeyFacts DEF IsFrontmatter, IsFields
<1>6. QED
  BY <1>2, <1>3, <1>5

(* After the guard the budget is settled, and at the cap no agent is left. *)
LEMMA UpdateFacts ==
    ASSUME NEW fm, IsFrontmatter(fm), NEW u, IsFields(u)
    PROVE  LET merged == ControllerOwnedGuard(fm, u)
               after  == UpdatedFrontmatter(fm, u) IN
           /\ IsFrontmatter(after) /\ after.max_triggers = merged.max_triggers
           /\ NoAgent(after)
<1> DEFINE merged == ControllerOwnedGuard(fm, u)
           capped == IF UpdateEscalates(fm, merged) THEN ClearAssigneeUnlessHuman(merged)
                     ELSE merged
           cleared == ClearAssigneeIfHumanReview(capped)
           healed  == HealTargetVault(cleared)
           after   == ClearCurrentJobIfTerminal(healed)
<1>1. IsFrontmatter(merged)
  BY GuardFacts
<1>2. UpdatedFrontmatter(fm, u) = after
  BY DEF UpdatedFrontmatter
<1>3. BudgetKept(merged, capped) /\ NoAgent(capped)
  <2> HIDE DEF merged
  <2>1. CASE TriggerCapReached(merged)
    BY <1>1, <2>1, ClearFacts DEF UpdateEscalates, NoAgent
  <2>2. CASE ~TriggerCapReached(merged)
    BY <1>1, <2>2 DEF UpdateEscalates, NoAgent, BudgetKept
  <2>3. QED
    BY <2>1, <2>2
<1> HIDE DEF merged, capped
<1>4. IsFrontmatter(capped)
  BY <1>3 DEF BudgetKept
<1>5. BudgetKept(capped, cleared)
  BY <1>4, ClearFacts
<1> HIDE DEF cleared
<1>6. BudgetKept(cleared, healed)
  BY <1>5, HealFacts DEF BudgetKept
<1> HIDE DEF healed
<1>7. BudgetKept(healed, after)
  BY <1>6, HealFacts DEF BudgetKept
<1> HIDE DEF after
<1>8. NoAgent(after)
  BY <1>3, <1>5, <1>6, <1>7, NoAgentSame
<1>9. IsFrontmatter(after) /\ after.max_triggers = merged.max_triggers
  BY <1>3, <1>5, <1>6, <1>7 DEF BudgetKept
<1>10. QED
  BY <1>2, <1>8, <1>9 DEF merged

\* What the PATCH of a command may do to the task that was read.
PatchLegal(fm, f) ==
    /\ IsFields(f)
    /\ "max_triggers" \in DOMAIN f =>
         fm.max_triggers = Absent /\ f["max_triggers"] <= DefaultCap
    /\ NoAgent(fm) => NoAgent(Overlay(fm, f))

(* An update sends the difference, so the task becomes what was computed. *)
LEMMA UpdatePatchLegal ==
    ASSUME NEW fm, IsFrontmatter(fm), NEW u, IsFields(u)
    PROVE  PatchLegal(fm, UpdatePatch(fm, u))
<1> DEFINE after == UpdatedFrontmatter(fm, u)
           K     == {k \in DOMAIN fm : after[k] # fm[k]}
           f     == Pick(after, K)
           over  == Overlay(fm, f)
<1>1. /\ IsFrontmatter(after) /\ NoAgent(after)
      /\ after.max_triggers = ControllerOwnedGuard(fm, u).max_triggers
  BY UpdateFacts
<1>2. UpdatePatch(fm, u) = f
  BY DEF UpdatePatch
<1>3. K \in SUBSET Keys /\ K = {k \in Keys : after[k] # fm[k]}
  BY DEF IsFrontmatter
<1> HIDE DEF after
<1>4. IsFields(f) /\ DOMAIN f = K /\ \A k \in K : f[k] = after[k]
  BY <1>1, <1>3, PickTyped
<1>5. /\ IsFrontmatter(over)
      /\ \A j \in Keys : over[j] = after[j]
  <2> HIDE DEF f, K
  <2>1. IsFrontmatter(over) /\ \A j \in Keys : over[j] = IF j \in DOMAIN f THEN f[j] ELSE fm[j]
    BY <1>4, OverlayTyped
  <2>2. QED
    BY <1>3, <1>4, <2>1
<1>6. "max_triggers" \in K => fm.max_triggers = Absent /\ after["max_triggers"] <= DefaultCap
  BY <1>1, GuardFacts
<1>7. NoAgent(over)
  <2> HIDE DEF over
  <2>1. BudgetKept(after, over)
    BY <1>5, KeyFacts DEF BudgetKept, Assignee
  <2>2. QED
    BY <1>1, <2>1, NoAgentSame
<1>8. QED
  BY <1>2, <1>4, <1>6, <1>7 DEF PatchLegal

(* An increment sends the new count, and at the cap the cleared assignee. *)
LEMMA IncrementPatchLegal ==
    ASSUME NEW fm, IsFrontmatter(fm), NEW c, c.field \in Counters, c.delta \in Nat
    PROVE  PatchLegal(fm, IncrementPatch(fm, c))
<1> DEFINE value   == Count(fm[c.field]) + c.delta
           counted == [fm EXCEPT ![c.field] = value]
           capped  == IF IncrementEscalates(fm, c) THEN ClearAssignee(counted) ELSE counted
           healed  == HealTargetVault(capped)
           K       == {c.field}
                      \cup (IF fm.target_vault = Absent THEN {"target_vault"} ELSE {})
                      \cup (IF IncrementEscalates(fm, c)
                            THEN {"assignee"} \cup (IF Assignee(fm) = "" THEN {}
                                                    ELSE {"previous_assignee"})
                            ELSE {})
           f       == Pick(healed, K)
           over    == Overlay(fm, f)
<1>1. IncrementPatch(fm, c) = f
  BY DEF IncrementPatch
<1>2. /\ c.field \in Keys /\ KeyTypes[c.field] = Opt(Nat) /\ fm[c.field] \in Opt(Nat)
      /\ c.field \notin {"max_triggers", "ref", "assignee", "target_vault", "previous_assignee"}
  BY KeyFacts DEF Counters, IsFrontmatter, IsFields
<1>3. value \in Nat /\ value \in Opt(Nat)
  BY <1>2 DEF Count, Opt
<1> HIDE DEF value
<1>4. /\ IsFrontmatter(counted) /\ counted[c.field] = value
      /\ \A j \in Keys : j # c.field => counted[j] = fm[j]
  BY <1>2, <1>3 DEF IsFrontmatter, IsFields
<1> HIDE DEF counted
<1>5. BudgetKept(counted, capped)
  BY <1>4, ClearFacts DEF BudgetKept
<1>6. /\ IncrementEscalates(fm, c) => Assignee(capped) = "" /\ capped["assignee"] = ""
      /\ ~IncrementEscalates(fm, c) => capped["assignee"] = fm["assignee"]
  <2>1. Assignee(ClearAssignee(counted)) = "" /\ ClearAssignee(counted)["assignee"] = ""
    BY <1>4, ClearFacts, KeyFacts DEF ClearAssignee, IsFrontmatter, IsFields
  <2>2. QED
    BY <1>2, <1>4, <2>1, KeyFacts
<1> HIDE DEF capped
<1>7. /\ BudgetKept(capped, healed) /\ IsFrontmatter(healed)
      /\ healed["assignee"] = capped["assignee"]
  BY <1>5, HealFacts, KeyFacts DEF BudgetKept
<1> HIDE DEF healed
<1>8. K \in SUBSET Keys /\ "max_triggers" \notin K /\ "ref" \notin K
      /\ ("assignee" \in K <=> IncrementEscalates(fm, c))
      /\ ("trigger_count" \in K <=> c.field = "trigger_count")
  BY <1>2, KeyFacts
<1> HIDE DEF K
<1>9. IsFields(f) /\ DOMAIN f = K /\ \A k \in K : f[k] = healed[k]
  BY <1>7, <1>8, PickTyped
<1> HIDE DEF f
<1>10. /\ IsFrontmatter(over)
       /\ \A j \in Keys : over[j] = IF j \in K THEN healed[j] ELSE fm[j]
  BY <1>9, OverlayTyped
<1> HIDE DEF over
<1>11. /\ over.max_triggers = fm.max_triggers /\ over.ref = fm.ref
       /\ over["assignee"] = healed["assignee"] \/ ~IncrementEscalates(fm, c)
       /\ over["assignee"] = fm["assignee"] \/ IncrementEscalates(fm, c)
       /\ over.trigger_count = IF c.field = "trigger_count" THEN value ELSE fm.trigger_count
  <2>1. healed.trigger_count = counted.trigger_count
    BY <1>5, <1>7 DEF BudgetKept
  <2>2. QED
    BY <1>4, <1>8, <1>10, <2>1, KeyFacts
<1>12. ASSUME NoAgent(fm), TriggerCapReached(over) PROVE Assignee(over) \notin Agents
  <2>1. CASE IncrementEscalates(fm, c)
    BY <1>6, <1>7, <1>11, <2>1, ValuesAssumption DEF Assignee
  <2>2. CASE ~IncrementEscalates(fm, c)
    <3>1. c.field # "trigger_count"
      <4>1. SUFFICES ASSUME c.field = "trigger_count" PROVE FALSE
        OBVIOUS
      <4>2. over.trigger_count = value /\ value = Count(fm.trigger_count) + c.delta
        BY <1>11, <4>1 DEF value
      <4>3. Count(over.trigger_count) = value
        BY <1>3, <4>2, ValuesAssumption DEF Count
      <4>4. QED
        BY <1>11, <1>12, <2>2, <4>1, <4>2, <4>3
           DEF IncrementEscalates, TriggerCapReached, TriggerCapEngaged
    <3>2. over.assignee = fm.assignee
      BY <1>11, <2>2
    <3>3. TriggerCapReached(fm)
      BY <1>11, <1>12, <3>1 DEF TriggerCapReached, TriggerCapEngaged
    <3>4. QED
      BY <1>12, <3>2, <3>3 DEF NoAgent, Assignee
  <2>3. QED
    BY <2>1, <2>2
<1>13. QED
  BY <1>1, <1>8, <1>9, <1>12 DEF PatchLegal, over, NoAgent

(* A completion sends status and phase. *)
LEMMA CompletePatchLegal ==
    ASSUME NEW fm, IsFrontmatter(fm)
    PROVE  PatchLegal(fm, CompletePatch(fm)) /\ "status" \in DOMAIN CompletePatch(fm)
<1> DEFINE healed == HealTargetVault(fm)
           half   == [healed EXCEPT !.status = "completed"]
           full   == [half EXCEPT !.phase = "done"]
           K      == {"status", "phase"}
                     \cup (IF fm.target_vault = Absent THEN {"target_vault"} ELSE {})
           f      == Pick(full, K)
           over   == Overlay(fm, f)
<1>1. CompletePatch(fm) = f
  BY DEF CompletePatch
<1>2. IsFrontmatter(healed)
  BY HealFacts DEF BudgetKept
<1> HIDE DEF healed
<1>3. "completed" \in KeyTypes["status"] /\ "done" \in KeyTypes["phase"]
  BY KeyFacts, TypedAssumption DEF Opt, Statuses, Terminal
<1>4. IsFrontmatter(half)
  BY <1>2, <1>3, KeyFacts DEF IsFrontmatter, IsFields
<1> HIDE DEF half
<1>5. IsFrontmatter(full)
  BY <1>3, <1>4, KeyFacts DEF IsFrontmatter, IsFields
<1> HIDE DEF full
<1>6. /\ K \in SUBSET Keys /\ "status" \in K
      /\ "max_triggers" \notin K /\ "ref" \notin K /\ "assignee" \notin K /\ "trigger_count" \notin K
  BY KeyFacts
<1> HIDE DEF K
<1>7. IsFields(f) /\ DOMAIN f = K /\ \A k \in K : f[k] = full[k]
  BY <1>5, <1>6, PickTyped
<1> HIDE DEF f
<1>8. /\ IsFrontmatter(over)
      /\ \A j \in Keys : over[j] = IF j \in K THEN f[j] ELSE fm[j]
  BY <1>7, OverlayTyped
<1> HIDE DEF over
<1>9. BudgetKept(fm, over)
  BY <1>6, <1>8, KeyFacts DEF BudgetKept, Assignee
<1>10. NoAgent(fm) => NoAgent(over)
  BY <1>9, NoAgentSame
<1>11. QED
  BY <1>1, <1>6, <1>7, <1>10 DEF PatchLegal, over

(* So the PATCH of any command is legal, and an escalation names somebody. *)
LEMMA FieldsLegal ==
    ASSUME NEW fm, IsFrontmatter(fm), NEW c, IsCommand(c)
    PROVE  /\ PatchLegal(fm, Fields(fm, c))
           /\ Escalates(fm, c) \in BOOLEAN /\ EscalatedName(fm, c) \in Names
           /\ c.op = "complete" => "status" \in DOMAIN Fields(fm, c) /\ ~Escalates(fm, c)
<1>1. CASE c.op = "update" /\ IsFields(c.updates)
  <2>1. IsFrontmatter(ControllerOwnedGuard(fm, c.updates))
    BY <1>1, GuardFacts
  <2>2. Assignee(ControllerOwnedGuard(fm, c.updates)) \in Names
    BY <2>1, ReadKeys
  <2>3. QED
    BY <1>1, <2>2, UpdatePatchLegal
       DEF Fields, Escalates, EscalatedName, UpdateEscalates, TriggerCapReached
<1>2. CASE c.op = "increment" /\ c.field \in Counters /\ c.delta \in Nat
  BY <1>2, IncrementPatchLegal, ReadKeys DEF Fields, Escalates, EscalatedName, IncrementEscalates
<1>3. CASE c.op = "complete"
  BY <1>3, CompletePatchLegal, ReadKeys DEF Fields, Escalates, EscalatedName
<1>4. QED
  BY <1>1, <1>2, <1>3 DEF IsCommand

-----------------------------------------------------------------------------
(* The invariant of the executors. *)

\* The call has read its task and not returned.
Working == call.pc \in {"reread", "put", "patch"}

\* What it sends was computed from what it read ...
SentFromRead ==
    Working => /\ call.fields = Fields(call.read, cmd)
               /\ call.escalates = Escalates(call.read, cmd)

\* ... which nobody but the operator has changed since.
ReadIsCurrent ==
    /\ Stored /\ edits = 0
    /\ call.pc = "patch" \/ (Working /\ BodyFirst(cmd))
    => call.read = disk.fm

\* The record of an escalation precedes its PATCH.
RecordFirst ==
    call.pc = "patch" /\ call.escalates /\ Stored => disk.body.cap # {}

\* The body to PUT takes over the sections of the task as it stands.
PutFollowsReread ==
    call.pc = "put" =>
        /\ call.body = MergedBody(call.fresh, cmd, call.escalates, call.name)
        /\ Stored => /\ disk.body.cap = call.fresh.cap
                     /\ disk.body.resolution = call.fresh.resolution

\* The PATCH of a completion precedes its Resolution.
CloseFirst ==
    call.pc \in {"reread", "put"} /\ cmd.op = "complete" => closed

TypedInv ==
    /\ ConsumerInv /\ TypeOK
    /\ SentFromRead /\ ReadIsCurrent /\ RecordFirst /\ PutFollowsReread /\ CloseFirst
    /\ ParkedHasItsRecord /\ ResolutionMeansClosed

(* The command an executor works on. *)
LEMMA CurrentCommand ==
    ASSUME TypedInv, call # NoCall
    PROVE  /\ session.current \in begun /\ session.current \in 1 .. length
           /\ session.current # 0 /\ IsCall(call) /\ cmd \in TypedCommand /\ IsCommand(cmd)
<1>1. session.current # 0 /\ IsCall(call)
  BY DEF TypedInv, TypeOK
<1>2. session.current \in begun /\ session.current \in 1 .. length
  BY <1>1 DEF TypedInv, ConsumerInv, CurrentIsFirst, ConsumerTypeOK
<1>3. cmd \in TypedCommand
  BY <1>2 DEF TypedInv, TypeOK, cmd
<1>4. QED
  BY <1>1, <1>2, <1>3, TypedAssumption

(* The parts of a call that works on a task. *)
LEMMA CallParts ==
    ASSUME NEW c, IsCall(c), c.pc \in {"reread", "put", "patch"}
    PROVE  /\ c.escalates \in BOOLEAN /\ c.name \in Names /\ c.fresh \in TaskBody
           /\ c.body \in TaskBody /\ IsFrontmatter(c.read) /\ IsFields(c.fields)
           /\ c = [pc |-> c.pc, read |-> c.read, fields |-> c.fields, escalates |-> c.escalates,
                   name |-> c.name, fresh |-> c.fresh, body |-> c.body]
BY DEF IsCall

(* Moving a call on changes its place only; one that returns keeps nothing. *)
LEMMA GotoFacts ==
    ASSUME NEW p, Goto(p), IsCall(call)
    PROVE  /\ p = "return" => call' = [pc |-> "return"]
           /\ p \in {"reread", "put", "patch"} /\ Working =>
                /\ IsCall(call') /\ call'.pc = p /\ call'.read = call.read
                /\ call'.fields = call.fields /\ call'.escalates = call.escalates
                /\ call'.name = call.name /\ call'.fresh = call.fresh /\ call'.body = call.body
<1> DEFINE next == [call EXCEPT !.pc = p]
<1>1. call' = IF next.pc = "return" THEN [pc |-> "return"] ELSE next
  BY DEF Goto, Continue
<1>2. next.pc = p
  BY DEF IsCall
<1>3. ASSUME p \in {"reread", "put", "patch"}, Working
      PROVE  /\ IsCall(next) /\ next.read = call.read
             /\ next.fields = call.fields /\ next.escalates = call.escalates
             /\ next.name = call.name /\ next.fresh = call.fresh /\ next.body = call.body
  <2>1. /\ call = [pc |-> call.pc, read |-> call.read, fields |-> call.fields,
                   escalates |-> call.escalates, name |-> call.name, fresh |-> call.fresh,
                   body |-> call.body]
        /\ call.escalates \in BOOLEAN /\ call.name \in Names /\ call.fresh \in TaskBody
        /\ call.body \in TaskBody /\ IsFrontmatter(call.read) /\ IsFields(call.fields)
    BY <1>3, CallParts DEF Working
  <2>2. next = [pc |-> p, read |-> call.read, fields |-> call.fields,
                escalates |-> call.escalates, name |-> call.name, fresh |-> call.fresh,
                body |-> call.body]
    BY <2>1
  <2> HIDE DEF next
  <2>3. QED
    BY <1>3, <2>1, <2>2 DEF IsCall
<1> HIDE DEF next
<1>4. QED
  BY <1>1, <1>2, <1>3

(* What the merge of sections into a body keeps and adds. *)
LEMMA MergedFacts ==
    ASSUME NEW b \in TaskBody, NEW c, IsCommand(c), NEW e \in BOOLEAN, NEW n \in Names
    PROVE  LET body == MergedBody(b, c, e, n) IN
           /\ body \in TaskBody /\ body.notes = b.notes
           /\ e => body.cap # {}
           /\ b.cap # {} => body.cap # {}
           /\ body.resolution = b.resolution \/ (c.op = "complete" /\ body.resolution = 1)
<1>1. /\ b.cap \in SUBSET Names /\ b.resolution \in Nat /\ b.failure \in BOOLEAN
      /\ b.notes \in SUBSET Nat
  BY DEF TaskBody
<1> DEFINE fail == b.failure \/ (c.op = "update" /\ c.section)
           cap  == IF e /\ b.cap = {} THEN {n} ELSE b.cap
           res  == IF c.op = "complete" /\ b.resolution = 0 THEN 1 ELSE b.resolution
<1>2. fail \in BOOLEAN
  BY <1>1
<1>3. cap \in SUBSET Names /\ res \in Nat
  BY <1>1
<1>4. MergedBody(b, c, e, n) =
        [cap |-> cap, resolution |-> res, failure |-> fail, notes |-> b.notes]
  <2>1. b = [cap |-> b.cap, resolution |-> b.resolution, failure |-> b.failure,
             notes |-> b.notes]
    BY DEF TaskBody
  <2>2. MergedBody(b, c, e, n) = [b EXCEPT !.failure = fail, !.cap = cap, !.resolution = res]
    BY Zenon DEF MergedBody
  <2> HIDE DEF fail, cap, res
  <2>3. QED
    BY <2>1, <2>2
<1> HIDE DEF fail
<1>5. QED
  BY <1>1, <1>2, <1>3, <1>4 DEF TaskBody

(* A stored PUT: the sections only grow, and a Resolution finds the task closed. *)
LEMMA StoreBodyFacts ==
    ASSUME TypedInv, call.pc = "put", Stored, StoreBody, UNCHANGED <<consumerVars, log>>
    PROVE  /\ IsTask(disk') /\ disk'.fm = disk.fm /\ disk'.body = call.body
           /\ partial' \subseteq begun /\ parked' \in BOOLEAN /\ closed' \in BOOLEAN
           /\ ParkedHasItsRecord' /\ ResolutionMeansClosed'
           /\ call.escalates => disk'.body.cap # {}
<1>1. call # NoCall
  BY DEF NoCall
<1>2. /\ IsCommand(cmd) /\ call.escalates \in BOOLEAN /\ call.name \in Names
      /\ call.fresh \in TaskBody /\ call.body \in TaskBody /\ session.current \in begun
  BY <1>1, CurrentCommand, CallParts
<1>3. IsTask(disk)
  BY DEF TypedInv, TypeOK, Stored
<1>4. IsTask(disk') /\ disk'.fm = disk.fm /\ disk'.body = call.body
  BY <1>2, <1>3 DEF StoreBody, IsTask
<1>5. partial' \subseteq begun /\ parked' \in BOOLEAN /\ closed' \in BOOLEAN
  BY <1>2 DEF StoreBody, TypedInv, TypeOK
<1>6. /\ call.body = MergedBody(call.fresh, cmd, call.escalates, call.name)
      /\ disk.body.cap = call.fresh.cap /\ disk.body.resolution = call.fresh.resolution
  BY DEF TypedInv, PutFollowsReread
<1>7. /\ call.escalates => call.body.cap # {}
      /\ call.fresh.cap # {} => call.body.cap # {}
      /\ \/ call.body.resolution = call.fresh.resolution
         \/ cmd.op = "complete" /\ call.body.resolution = 1
  BY <1>2, <1>6, MergedFacts
<1>8. ParkedHasItsRecord'
  BY <1>4, <1>6, <1>7 DEF StoreBody, ParkedHasItsRecord, TypedInv, Stored
<1>9. ResolutionMeansClosed'
  BY <1>4, <1>6, <1>7 DEF StoreBody, ResolutionMeansClosed, TypedInv, Stored, CloseFirst
<1>10. QED
  BY <1>4, <1>5, <1>7, <1>8, <1>9

(* A stored PATCH: an assignee cleared at the cap leaves its record behind. *)
LEMMA StoreFieldsFacts ==
    ASSUME TypedInv, call.pc = "patch", Stored, StoreFields, UNCHANGED <<consumerVars, log>>
    PROVE  /\ IsTask(disk') /\ disk'.fm = Overlay(disk.fm, call.fields)
           /\ disk'.body = disk.body
           /\ partial' \subseteq begun /\ parked' \in BOOLEAN /\ closed' \in BOOLEAN
           /\ ParkedHasItsRecord' /\ ResolutionMeansClosed'
           /\ cmd.op = "complete" => closed'
<1>1. call # NoCall
  BY DEF NoCall
<1>2. IsFields(call.fields) /\ session.current \in begun
  BY <1>1, CurrentCommand, CallParts
<1>3. IsTask(disk)
  BY DEF TypedInv, TypeOK, Stored
<1>4. IsFrontmatter(Overlay(disk.fm, call.fields))
  BY <1>2, <1>3, OverlayTyped DEF IsTask
<1>5. /\ disk' = [disk EXCEPT !.fm = Overlay(disk.fm, call.fields)]
      /\ parked' = (parked \/ (/\ call.escalates /\ "assignee" \in DOMAIN call.fields
                               /\ Assignee(disk.fm) # ""))
      /\ closed' = (closed \/ cmd.op = "complete")
      /\ partial' \in {partial \cup {session.current}, partial \ {session.current}}
  BY DEF StoreFields
<1>6. IsTask(disk') /\ disk'.fm = Overlay(disk.fm, call.fields) /\ disk'.body = disk.body
  BY <1>3, <1>4, <1>5 DEF IsTask
<1>7. partial' \subseteq begun
  BY <1>2, <1>5 DEF TypedInv, TypeOK
<1>8. parked' \in BOOLEAN /\ closed' \in BOOLEAN /\ (cmd.op = "complete" => closed')
      /\ (closed => closed') /\ (parked' => parked \/ call.escalates)
  BY <1>5
<1>9. ParkedHasItsRecord' /\ ResolutionMeansClosed'
  BY <1>6, <1>8 DEF ParkedHasItsRecord, ResolutionMeansClosed, RecordFirst, TypedInv, Stored
<1>10. QED
  BY <1>6, <1>7, <1>8, <1>9

(* Every step is a step of the consumer, or leaves it alone. *)
LEMMA IsConsumerStep == [Next]_vars => [ConsumerNext]_consumerVars
<1>1. SUFFICES ASSUME Next PROVE [ConsumerNext]_consumerVars
  BY DEF vars
<1>2. CASE ConsumerStep
  BY <1>2 DEF ConsumerStep, BeginCommand, Executor, ReadTask, RereadTask, ReadMissing, PutBody,
              PatchTask, RequestFails, ReturnCommand, ConsumerNext, Handle
<1>3. CASE (\E c \in TypedCommand : PublishCommand(c)) \/ (Expire /\ UNCHANGED taskVars)
           \/ OperatorEdit \/ EndSession
  BY <1>3 DEF PublishCommand, OperatorEdit, EndSession, ConsumerNext
<1>4. QED
  BY <1>1, <1>2, <1>3 DEF Next

(* A call that is not working has nothing to keep but the task. *)
LEMMA NotWorkingInv ==
    ASSUME ConsumerInv', TypeOK', ParkedHasItsRecord', ResolutionMeansClosed',
           call'.pc \notin {"reread", "put", "patch"}
    PROVE  TypedInv'
BY DEF TypedInv, SentFromRead, ReadIsCurrent, RecordFirst, PutFollowsReread, CloseFirst, Working

(* A step that touches neither consumer nor log keeps the types of the rest. *)
LEMMA TypesKept ==
    ASSUME TypedInv, UNCHANGED <<consumerVars, log>>, call # NoCall, IsCall(call'),
           disk' # Missing => IsTask(disk'), partial' \subseteq begun,
           parked' \in BOOLEAN, closed' \in BOOLEAN,
           edits' \in 0 .. MaxEdits, failures' \in 0 .. MaxFailures
    PROVE  TypeOK' /\ ConsumerInv' /\ cmd' = cmd
<1>1. ConsumerInv'
  BY InvStep DEF TypedInv
<1>2. session.current # 0
  BY CurrentCommand
<1>3. QED
  BY <1>1, <1>2 DEF TypedInv, TypeOK, ConsumerInv, consumerVars, cmd

(* The first read decides what the call will send. *)
LEMMA ReadStep ==
    ASSUME TypedInv, ReadTask
    PROVE  TypedInv'
<1> DEFINE fields    == Fields(disk.fm, cmd)
           escalates == Escalates(disk.fm, cmd)
           name      == IF escalates THEN EscalatedName(disk.fm, cmd) ELSE ""
           pc        == IF cmd.op = "complete" /\ disk.body.resolution > 0 THEN "return"
                        ELSE AfterRead(fields, escalates)
           next      == [read |-> disk.fm, fields |-> fields, escalates |-> escalates,
                         name |-> name, fresh |-> disk.body, body |-> disk.body, pc |-> pc]
<1>1. /\ call.pc = "read" /\ disk # Missing /\ call' = Continue(next)
      /\ UNCHANGED <<consumerVars, log, disk, partial, parked, closed, edits, failures>>
  BY DEF ReadTask
<1>2. call # NoCall /\ IsCommand(cmd)
  <2>1. call.pc = "read"
    BY DEF ReadTask
  <2>2. call # NoCall
    BY <2>1 DEF NoCall
  <2>3. QED
    BY <2>2, CurrentCommand
<1>3. IsTask(disk) /\ IsFrontmatter(disk.fm) /\ disk.body \in TaskBody
  BY <1>1 DEF TypedInv, TypeOK, IsTask
<1>4. /\ IsFields(fields) /\ escalates \in BOOLEAN /\ name \in Names
      /\ cmd.op = "complete" => ~escalates
  BY <1>2, <1>3, FieldsLegal DEF PatchLegal, Names
<1>5. /\ pc \in {"reread", "patch", "return"}
      /\ pc = "reread" => cmd.op # "complete"
      /\ pc = "patch" => ~escalates
  BY <1>4 DEF AfterRead, BodyFirst, WritesBody
<1> HIDE DEF fields, escalates, name, pc
<1>6. /\ call' = IF pc = "return" THEN [pc |-> "return"] ELSE next
      /\ next.pc = pc /\ next.read = disk.fm /\ next.fields = fields
      /\ next.escalates = escalates
  BY <1>1 DEF Continue
<1>7. pc # "return" => IsCall(next)
  BY <1>3, <1>4, <1>5 DEF IsCall
<1>8. IsCall(call')
  <2>1. IsCall([pc |-> "return"])
    BY DEF IsCall
  <2>2. QED
    BY <1>6, <1>7, <2>1
<1> HIDE DEF next
<1>9. TypeOK' /\ ConsumerInv' /\ cmd' = cmd
  <2>1. /\ disk' # Missing => IsTask(disk')
        /\ partial' \subseteq begun /\ parked' \in BOOLEAN /\ closed' \in BOOLEAN
        /\ edits' \in 0 .. MaxEdits /\ failures' \in 0 .. MaxFailures
    BY <1>1, <1>3 DEF TypedInv, TypeOK
  <2>2. QED
    BY <1>1, <1>2, <1>8, <2>1, TypesKept
<1>10. ParkedHasItsRecord' /\ ResolutionMeansClosed'
  BY <1>1 DEF TypedInv, ParkedHasItsRecord, ResolutionMeansClosed, Stored
<1>11. CASE pc = "return"
  <2>1. call'.pc = "return"
    BY <1>6, <1>11
  <2>2. QED
    BY <1>9, <1>10, <2>1, NotWorkingInv
<1>12. CASE pc \in {"reread", "patch"}
  <2>1. /\ call'.pc = pc /\ call'.read = disk.fm /\ call'.fields = fields
        /\ call'.escalates = escalates
    BY <1>6, <1>12
  <2>2. SentFromRead'
    BY <1>9, <2>1 DEF SentFromRead, fields, escalates
  <2>3. ReadIsCurrent' /\ RecordFirst' /\ PutFollowsReread' /\ CloseFirst'
    BY <1>1, <1>5, <1>9, <1>12, <2>1
       DEF ReadIsCurrent, RecordFirst, PutFollowsReread, CloseFirst
  <2>4. QED
    BY <1>9, <1>10, <2>2, <2>3 DEF TypedInv
<1>13. QED
  BY <1>5, <1>11, <1>12

(* The second read takes the body that will be written back; a body that has its
   sections already needs no PUT. *)
LEMMA RereadStep ==
    ASSUME TypedInv, RereadTask
    PROVE  TypedInv'
<1> DEFINE body == MergedBody(disk.body, cmd, call.escalates, call.name)
           pc   == IF body = disk.body THEN AfterBody ELSE "put"
           next == [call EXCEPT !.fresh = disk.body, !.body = body, !.pc = pc]
<1>1. /\ call.pc = "reread" /\ disk # Missing /\ call' = Continue(next)
      /\ UNCHANGED <<consumerVars, log, disk, partial, parked, closed, edits, failures>>
  BY DEF RereadTask, FreshBody
<1>2. call # NoCall /\ IsCommand(cmd) /\ IsCall(call)
  BY <1>1, CurrentCommand DEF NoCall
<1>3. IsTask(disk) /\ disk.body \in TaskBody
  BY <1>1 DEF TypedInv, TypeOK, IsTask
<1>4. /\ call.escalates \in BOOLEAN /\ call.name \in Names
      /\ IsFrontmatter(call.read) /\ IsFields(call.fields)
      /\ call = [pc |-> call.pc, read |-> call.read, fields |-> call.fields,
                 escalates |-> call.escalates, name |-> call.name, fresh |-> call.fresh,
                 body |-> call.body]
  BY <1>1, <1>2, CallParts
<1>5. body \in TaskBody /\ (call.escalates => body.cap # {})
  BY <1>2, <1>3, <1>4, MergedFacts
<1>6. /\ pc \in {"put", "patch", "return"}
      /\ pc = "patch" => body = disk.body /\ BodyFirst(cmd)
  BY DEF AfterBody
<1> HIDE DEF body, pc
<1>7. next = [pc |-> pc, read |-> call.read, fields |-> call.fields,
              escalates |-> call.escalates, name |-> call.name, fresh |-> disk.body,
              body |-> body]
  <2> DEFINE one == [call EXCEPT !.fresh = disk.body]
             two == [one EXCEPT !.body = body]
  <2>1. next = [two EXCEPT !.pc = pc]
    OBVIOUS
  <2>2. one = [pc |-> call.pc, read |-> call.read, fields |-> call.fields,
               escalates |-> call.escalates, name |-> call.name, fresh |-> disk.body,
               body |-> call.body]
    BY <1>4
  <2> HIDE DEF one
  <2>3. two = [pc |-> call.pc, read |-> call.read, fields |-> call.fields,
               escalates |-> call.escalates, name |-> call.name, fresh |-> disk.body,
               body |-> body]
    BY <2>2
  <2> HIDE DEF two, next
  <2>4. QED
    BY <2>1, <2>3
<1>8. call' = IF pc = "return" THEN [pc |-> "return"] ELSE next
  BY <1>1, <1>7 DEF Continue
<1> HIDE DEF next
<1>9. IsCall(call')
  <2>1. IsCall([pc |-> "return"])
    BY DEF IsCall
  <2>2. pc # "return" => IsCall(next)
    BY <1>3, <1>4, <1>5, <1>6, <1>7 DEF IsCall
  <2>3. QED
    BY <1>8, <2>1, <2>2
<1>10. TypeOK' /\ ConsumerInv' /\ cmd' = cmd
  <2>1. /\ disk' # Missing => IsTask(disk')
        /\ partial' \subseteq begun /\ parked' \in BOOLEAN /\ closed' \in BOOLEAN
        /\ edits' \in 0 .. MaxEdits /\ failures' \in 0 .. MaxFailures
    BY <1>1, <1>3 DEF TypedInv, TypeOK
  <2>2. QED
    BY <1>1, <1>2, <1>9, <2>1, TypesKept
<1>11. ParkedHasItsRecord' /\ ResolutionMeansClosed'
  BY <1>1 DEF TypedInv, ParkedHasItsRecord, ResolutionMeansClosed, Stored
<1>12. CASE pc = "return"
  <2>1. call'.pc = "return"
    BY <1>8, <1>12
  <2>2. QED
    BY <1>10, <1>11, <2>1, NotWorkingInv
<1>13. CASE pc \in {"put", "patch"}
  <2>1. /\ call'.pc = pc /\ call'.read = call.read /\ call'.fields = call.fields
        /\ call'.escalates = call.escalates /\ call'.name = call.name
        /\ call'.fresh = disk.body /\ call'.body = body
    BY <1>7, <1>8, <1>13
  <2>2. SentFromRead'
    BY <1>1, <1>10, <2>1 DEF SentFromRead, TypedInv, Working
  <2>3. ReadIsCurrent'
    BY <1>1, <1>6, <1>10, <1>13, <2>1 DEF ReadIsCurrent, TypedInv, Working, Stored, BodyFirst
  <2>4. RecordFirst'
    BY <1>1, <1>5, <1>6, <2>1 DEF RecordFirst
  <2>5. PutFollowsReread'
    BY <1>1, <1>10, <2>1 DEF PutFollowsReread, body
  <2>6. CloseFirst'
    BY <1>1, <1>10, <2>1 DEF CloseFirst, TypedInv
  <2>7. QED
    BY <1>10, <1>11, <2>2, <2>3, <2>4, <2>5, <2>6 DEF TypedInv
<1>14. QED
  BY <1>6, <1>12, <1>13

(* A PUT that is answered goes on to the PATCH, or returns. *)
LEMMA PutStep ==
    ASSUME TypedInv, PutBody
    PROVE  TypedInv'
<1>1. /\ call.pc = "put" /\ Stored /\ StoreBody /\ Goto(AfterBody)
      /\ UNCHANGED <<consumerVars, log, edits, failures>>
  BY DEF PutBody, Stored
<1>2. call # NoCall /\ Working
  BY <1>1 DEF NoCall, Working
<1>3. IsCall(call)
  BY <1>2, CurrentCommand
<1>4. /\ IsTask(disk') /\ disk'.fm = disk.fm /\ disk'.body = call.body
      /\ partial' \subseteq begun /\ parked' \in BOOLEAN /\ closed' \in BOOLEAN
      /\ ParkedHasItsRecord' /\ ResolutionMeansClosed'
      /\ call.escalates => disk'.body.cap # {}
  BY <1>1, StoreBodyFacts
<1>5. edits' \in 0 .. MaxEdits /\ failures' \in 0 .. MaxFailures
  BY <1>1 DEF TypedInv, TypeOK
<1>6. AfterBody = "return" \/ (AfterBody = "patch" /\ BodyFirst(cmd))
  BY DEF AfterBody
<1>7. CASE AfterBody = "return"
  <2>1. call' = [pc |-> "return"]
    BY <1>1, <1>3, <1>7, GotoFacts
  <2>2. IsCall(call') /\ call'.pc = "return"
    BY <2>1 DEF IsCall
  <2>3. TypeOK' /\ ConsumerInv'
    BY <1>1, <1>2, <1>4, <1>5, <2>2, TypesKept
  <2>4. QED
    BY <1>4, <2>2, <2>3, NotWorkingInv
<1>8. CASE AfterBody = "patch" /\ BodyFirst(cmd)
  <2>1. /\ IsCall(call') /\ call'.pc = "patch" /\ call'.read = call.read
        /\ call'.fields = call.fields /\ call'.escalates = call.escalates
    BY <1>1, <1>2, <1>3, <1>8, GotoFacts
  <2>2. TypeOK' /\ ConsumerInv' /\ cmd' = cmd
    BY <1>1, <1>2, <1>4, <1>5, <2>1, TypesKept
  <2>3. SentFromRead'
    BY <1>2, <2>1, <2>2 DEF SentFromRead, TypedInv
  <2>4. ReadIsCurrent'
    BY <1>1, <1>2, <1>4, <1>8, <2>1 DEF ReadIsCurrent, TypedInv, Stored
  <2>5. RecordFirst' /\ PutFollowsReread' /\ CloseFirst'
    BY <1>4, <2>1 DEF RecordFirst, PutFollowsReread, CloseFirst
  <2>6. QED
    BY <1>4, <2>2, <2>3, <2>4, <2>5 DEF TypedInv
<1>9. QED
  BY <1>6, <1>7, <1>8

(* A PATCH that is answered goes on to the Resolution, or returns. *)
LEMMA PatchStep ==
    ASSUME TypedInv, PatchTask
    PROVE  TypedInv'
<1>1. /\ call.pc = "patch" /\ Stored /\ StoreFields /\ Goto(AfterPatch)
      /\ UNCHANGED <<consumerVars, log, edits, failures>>
  BY DEF PatchTask, Stored
<1>2. call # NoCall /\ Working
  BY <1>1 DEF NoCall, Working
<1>3. IsCall(call)
  BY <1>2, CurrentCommand
<1>4. /\ IsTask(disk')
      /\ partial' \subseteq begun /\ parked' \in BOOLEAN /\ closed' \in BOOLEAN
      /\ ParkedHasItsRecord' /\ ResolutionMeansClosed'
      /\ cmd.op = "complete" => closed'
  BY <1>1, StoreFieldsFacts
<1>5. edits' \in 0 .. MaxEdits /\ failures' \in 0 .. MaxFailures
  BY <1>1 DEF TypedInv, TypeOK
<1>6. AfterPatch = "return" \/ (AfterPatch = "reread" /\ ~BodyFirst(cmd))
  BY DEF AfterPatch
<1>7. CASE AfterPatch = "return"
  <2>1. call' = [pc |-> "return"]
    BY <1>1, <1>3, <1>7, GotoFacts
  <2>2. IsCall(call') /\ call'.pc = "return"
    BY <2>1 DEF IsCall
  <2>3. TypeOK' /\ ConsumerInv'
    BY <1>1, <1>2, <1>4, <1>5, <2>2, TypesKept
  <2>4. QED
    BY <1>4, <2>2, <2>3, NotWorkingInv
<1>8. CASE AfterPatch = "reread" /\ ~BodyFirst(cmd)
  <2>1. /\ IsCall(call') /\ call'.pc = "reread" /\ call'.read = call.read
        /\ call'.fields = call.fields /\ call'.escalates = call.escalates
    BY <1>1, <1>2, <1>3, <1>8, GotoFacts
  <2>2. TypeOK' /\ ConsumerInv' /\ cmd' = cmd
    BY <1>1, <1>2, <1>4, <1>5, <2>1, TypesKept
  <2>3. SentFromRead'
    BY <1>2, <2>1, <2>2 DEF SentFromRead, TypedInv
  <2>4. ReadIsCurrent' /\ RecordFirst' /\ PutFollowsReread' /\ CloseFirst'
    BY <1>4, <1>8, <2>1, <2>2 DEF ReadIsCurrent, RecordFirst, PutFollowsReread, CloseFirst,
                                  BodyFirst
  <2>5. QED
    BY <1>4, <2>2, <2>3, <2>4 DEF TypedInv
<1>9. QED
  BY <1>6, <1>7, <1>8

(* A request that fails, and a task that is gone, end the executor; a write may
   have been stored all the same. *)
LEMMA FailStep ==
    ASSUME TypedInv, RequestFails \/ ReadMissing
    PROVE  TypedInv'
<1>1. /\ Goto("return") /\ UNCHANGED <<consumerVars, log, edits>>
      /\ call # NoCall /\ failures' \in 0 .. MaxFailures
  <2>1. CASE RequestFails
    <3>1. failures' = failures \/ (failures < MaxFailures /\ failures' = failures + 1)
      BY <2>1 DEF RequestFails
    <3>2. QED
      BY <2>1, <3>1, TypedAssumption DEF RequestFails, TypedInv, TypeOK
  <2>2. CASE ReadMissing
    BY <2>2 DEF ReadMissing, TypedInv, TypeOK, NoCall
  <2>3. QED
    BY <2>1, <2>2
<1>2. IsCall(call)
  BY <1>1, CurrentCommand
<1>3. call' = [pc |-> "return"]
  BY <1>1, <1>2, GotoFacts
<1>4. IsCall(call') /\ call'.pc = "return"
  BY <1>3 DEF IsCall
<1>5. /\ disk' # Missing => IsTask(disk')
      /\ partial' \subseteq begun /\ parked' \in BOOLEAN /\ closed' \in BOOLEAN
      /\ ParkedHasItsRecord' /\ ResolutionMeansClosed'
  <2>1. CASE UNCHANGED <<disk, partial, parked, closed>>
    BY <2>1 DEF TypedInv, TypeOK, ParkedHasItsRecord, ResolutionMeansClosed, Stored
  <2>2. CASE disk # Missing /\ call.pc = "put" /\ StoreBody
    BY <1>1, <2>2, StoreBodyFacts DEF Stored
  <2>3. CASE disk # Missing /\ call.pc = "patch" /\ StoreFields
    BY <1>1, <2>3, StoreFieldsFacts DEF Stored
  <2>4. QED
    BY <2>1, <2>2, <2>3 DEF RequestFails, ReadMissing
<1>6. edits' \in 0 .. MaxEdits
  BY <1>1 DEF TypedInv, TypeOK
<1>7. TypeOK' /\ ConsumerInv'
  BY <1>1, <1>4, <1>5, <1>6, TypesKept
<1>8. QED
  BY <1>4, <1>5, <1>7, NotWorkingInv

(* The operator leaves the sections of the body alone. *)
LEMMA OperatorStep ==
    ASSUME TypedInv, OperatorEdit
    PROVE  TypedInv'
<1>1. /\ disk # Missing /\ edits' = edits + 1 /\ edits < MaxEdits
      /\ UNCHANGED <<consumerVars, log, call, partial, parked, closed, failures>>
  BY DEF OperatorEdit
<1>2. IsTask(disk) /\ edits \in Nat /\ edits' # 0 /\ edits' \in 0 .. MaxEdits
  BY <1>1, TypedAssumption DEF TypedInv, TypeOK
<1>3. disk' # Missing => /\ IsTask(disk') /\ disk'.body.cap = disk.body.cap
                         /\ disk'.body.resolution = disk.body.resolution
  <2>1. CASE disk' = [disk EXCEPT !.body.notes = @ \cup {edits}]
    <3>1. disk.body \in TaskBody
      BY <1>2 DEF IsTask
    <3>2. /\ [disk.body EXCEPT !.notes = @ \cup {edits}] \in TaskBody
          /\ [disk.body EXCEPT !.notes = @ \cup {edits}].cap = disk.body.cap
          /\ [disk.body EXCEPT !.notes = @ \cup {edits}].resolution = disk.body.resolution
      BY <1>2, <3>1 DEF TaskBody
    <3>3. /\ disk'.fm = disk.fm /\ disk' \in [fm : {disk.fm}, body : TaskBody]
          /\ disk'.body = [disk.body EXCEPT !.notes = @ \cup {edits}]
      BY <1>2, <2>1, <3>2 DEF IsTask
    <3>4. QED
      BY <1>2, <3>2, <3>3 DEF IsTask
  <2>2. CASE \E a \in Agents \cup Humans : disk' = [disk EXCEPT !.fm.assignee = a]
    <3>1. PICK a \in Agents \cup Humans : disk' = [disk EXCEPT !.fm.assignee = a]
      BY <2>2
    <3>2. IsFrontmatter([disk.fm EXCEPT !.assignee = a])
      <4>1. IsFrontmatter(disk.fm) /\ a \in KeyTypes["assignee"]
        BY <1>2, KeyFacts DEF IsTask, Opt, Names
      <4>2. QED
        BY <4>1, KeyFacts DEF IsFrontmatter, IsFields
    <3>3. /\ disk'.fm = [disk.fm EXCEPT !.assignee = a] /\ disk'.body = disk.body
          /\ disk' \in [fm : {disk'.fm}, body : TaskBody]
      BY <1>2, <3>1 DEF IsTask
    <3>4. QED
      BY <3>2, <3>3 DEF IsTask
  <2>3. CASE disk' = [disk EXCEPT !.fm.max_triggers = 1]
    <3>1. IsFrontmatter([disk.fm EXCEPT !.max_triggers = 1])
      <4>1. IsFrontmatter(disk.fm) /\ 1 \in KeyTypes["max_triggers"]
        BY <1>2, KeyFacts DEF IsTask, Opt
      <4>2. QED
        BY <4>1, KeyFacts DEF IsFrontmatter, IsFields
    <3>2. /\ disk'.fm = [disk.fm EXCEPT !.max_triggers = 1] /\ disk'.body = disk.body
          /\ disk' \in [fm : {disk'.fm}, body : TaskBody]
      BY <1>2, <2>3 DEF IsTask
    <3>3. QED
      BY <3>1, <3>2 DEF IsTask
  <2>4. QED
    BY <2>1, <2>2, <2>3 DEF OperatorEdit
<1>4. ConsumerInv' /\ cmd' = cmd
  BY <1>1, InvStep DEF TypedInv, cmd, consumerVars
<1>5. TypeOK'
  BY <1>1, <1>2, <1>3, <1>4 DEF TypedInv, TypeOK, ConsumerInv, consumerVars
<1>6. SentFromRead' /\ ReadIsCurrent' /\ CloseFirst'
  BY <1>1, <1>2, <1>4 DEF TypedInv, SentFromRead, ReadIsCurrent, CloseFirst, Working
<1>7. RecordFirst' /\ PutFollowsReread'
  BY <1>1, <1>3, <1>4 DEF TypedInv, RecordFirst, PutFollowsReread, Stored
<1>8. ParkedHasItsRecord' /\ ResolutionMeansClosed'
  BY <1>1, <1>3 DEF TypedInv, ParkedHasItsRecord, ResolutionMeansClosed, Stored
<1>9. QED
  BY <1>4, <1>5, <1>6, <1>7, <1>8 DEF TypedInv

(* The consumer moves on only between two executors. *)
LEMMA ConsumeStep ==
    ASSUME TypedInv, Consume, UNCHANGED taskVars
    PROVE  TypedInv'
<1>1. ConsumerInv'
  BY InvStep DEF TypedInv, ConsumerNext
<1>2. session.current = 0 /\ session'.current = 0 /\ UNCHANGED <<length, begun>>
  <2>0. ConsumerTypeOK /\ CurrentIsFirst
    BY DEF TypedInv, ConsumerInv
  <2>1. CASE Start \/ Poll \/ StoreOffset
    BY <2>0, <2>1 DEF Start, Poll, StoreOffset, Down, CurrentIsFirst
  <2>2. CASE Filter
    BY <2>0, <2>2 DEF Filter, ConsumerTypeOK, Session, CurrentIsFirst
  <2>3. CASE EndBatch \/ \E m \in Commands : Discard(m)
    BY <2>0, <2>3 DEF EndBatch, Discard, ConsumerTypeOK, Session, CurrentIsFirst
  <2>4. QED
    BY <2>1, <2>2, <2>3 DEF Consume
<1>3. UNCHANGED <<log, disk, call, partial, parked, closed, edits, failures>>
  BY DEF taskVars
<1>4. call = NoCall /\ call'.pc = "idle"
  BY <1>2, <1>3 DEF TypedInv, TypeOK, NoCall
<1>5. TypeOK'
  BY <1>1, <1>2, <1>3, <1>4 DEF TypedInv, TypeOK, ConsumerInv
<1>6. ParkedHasItsRecord' /\ ResolutionMeansClosed'
  BY <1>3 DEF TypedInv, ParkedHasItsRecord, ResolutionMeansClosed, Stored
<1>7. QED
  BY <1>1, <1>4, <1>5, <1>6, NotWorkingInv

(* An executor starts, returns, or ends with its session. *)
LEMMA HandoverStep ==
    ASSUME TypedInv, ReturnCommand \/ EndSession \/ \E m \in Commands : BeginCommand(m)
    PROVE  TypedInv'
<1>1. ConsumerInv' /\ UNCHANGED <<log, disk, partial, parked, closed, edits, failures>>
      /\ length' = length /\ begun \subseteq begun'
  <2>1. CASE ReturnCommand
    BY <2>1, InvStep DEF ReturnCommand, Return, TypedInv, ConsumerNext, Handle
  <2>2. CASE EndSession
    BY <2>2, InvStep DEF EndSession, SessionEnds, TypedInv, ConsumerNext
  <2>3. CASE \E m \in Commands : BeginCommand(m)
    BY <2>3, InvStep DEF BeginCommand, Begin, TypedInv, ConsumerNext, Handle
  <2>4. QED
    BY <2>1, <2>2, <2>3
<1>2. /\ IF session'.current = 0 THEN call' = NoCall ELSE IsCall(call')
      /\ call'.pc \notin {"reread", "put", "patch"}
  <2>0. ConsumerTypeOK
    BY DEF TypedInv, ConsumerInv
  <2>1. CASE ReturnCommand
    BY <2>0, <2>1 DEF ReturnCommand, Return, NoCall, ConsumerTypeOK, Session
  <2>2. CASE EndSession
    BY <2>2 DEF EndSession, SessionEnds, NoCall, Down
  <2>3. CASE \E m \in Commands : BeginCommand(m)
    <3>1. PICK m \in Commands : BeginCommand(m)
      BY <2>3
    <3>2. session'.current = m /\ m # 0
      BY <2>0, <3>1, ConsumerAssumption DEF BeginCommand, Begin, ConsumerTypeOK, Session, Commands
    <3>3. call' \in [pc : {"read", "return"}]
      BY <3>1 DEF BeginCommand
    <3>4. QED
      BY <3>2, <3>3 DEF IsCall
  <2>4. QED
    BY <2>1, <2>2, <2>3
<1>3. TypeOK'
  BY <1>1, <1>2 DEF TypedInv, TypeOK, ConsumerInv
<1>4. ParkedHasItsRecord' /\ ResolutionMeansClosed'
  BY <1>1 DEF TypedInv, ParkedHasItsRecord, ResolutionMeansClosed, Stored
<1>5. QED
  BY <1>1, <1>2, <1>3, <1>4, NotWorkingInv

(* A command that is published, and the clock, do not reach a call under way. *)
LEMMA TopicKeeps ==
    ASSUME TypedInv,
           (\E c \in TypedCommand : PublishCommand(c)) \/ (Expire /\ UNCHANGED taskVars)
    PROVE  TypedInv'
<1>1. /\ ConsumerInv' /\ UNCHANGED <<session, begun>>
      /\ UNCHANGED <<disk, call, partial, parked, closed, edits, failures>>
  <2>1. CASE \E c \in TypedCommand : PublishCommand(c)
    BY <2>1, InvStep DEF PublishCommand, Publish, TypedInv, ConsumerNext
  <2>2. CASE Expire /\ UNCHANGED taskVars
    BY <2>2, InvStep DEF Expire, TypedInv, ConsumerNext, taskVars
  <2>3. QED
    BY <2>1, <2>2
<1>2. /\ log' \in Seq(TypedCommand) /\ Len(log') = length'
      /\ \A i \in 1 .. length : log'[i] = log[i]
  <2>0. log \in Seq(TypedCommand) /\ Len(log) = length
    BY DEF TypedInv, TypeOK
  <2>1. CASE \E c \in TypedCommand : PublishCommand(c)
    BY <2>0, <2>1 DEF PublishCommand, Publish
  <2>2. CASE Expire /\ UNCHANGED taskVars
    BY <2>0, <2>2 DEF Expire, taskVars
  <2>3. QED
    BY <2>1, <2>2
<1>3. TypeOK'
  BY <1>1, <1>2 DEF TypedInv, TypeOK, ConsumerInv
<1>4. ParkedHasItsRecord' /\ ResolutionMeansClosed'
  BY <1>1 DEF TypedInv, ParkedHasItsRecord, ResolutionMeansClosed, Stored
<1>5. CASE call = NoCall
  BY <1>1, <1>3, <1>4, <1>5, NotWorkingInv DEF NoCall
<1>6. CASE call # NoCall
  <2>1. cmd' = cmd
    BY <1>1, <1>2, <1>6, CurrentCommand DEF cmd
  <2>2. SentFromRead' /\ ReadIsCurrent' /\ RecordFirst' /\ PutFollowsReread' /\ CloseFirst'
    BY <1>1, <2>1 DEF TypedInv, SentFromRead, ReadIsCurrent, RecordFirst, PutFollowsReread,
                      CloseFirst, Working, Stored
  <2>3. QED
    BY <1>1, <1>3, <1>4, <2>2 DEF TypedInv
<1>7. QED
  BY <1>5, <1>6

(* Every step keeps the invariant. *)
LEMMA TypedStep == TypedInv /\ [Next]_vars => TypedInv'
<1>1. SUFFICES ASSUME TypedInv, [Next]_vars PROVE TypedInv'
  OBVIOUS
<1>2. CASE ConsumerStep
  BY <1>1, <1>2, ConsumeStep, HandoverStep, ReadStep, RereadStep, PutStep, PatchStep, FailStep
     DEF ConsumerStep, Executor
<1>3. CASE (\E c \in TypedCommand : PublishCommand(c)) \/ (Expire /\ UNCHANGED taskVars)
  BY <1>1, <1>3, TopicKeeps
<1>4. CASE OperatorEdit \/ EndSession
  BY <1>1, <1>4, OperatorStep, HandoverStep
<1>5. CASE UNCHANGED vars
  <2>1. ConsumerInv' /\ UNCHANGED taskVars
    BY <1>1, <1>5, InvStep DEF vars, TypedInv
  <2>2. QED
    BY <1>1, <1>5, <2>1
       DEF vars, consumerVars, taskVars, TypedInv, TypeOK, ConsumerInv, SentFromRead,
           ReadIsCurrent, RecordFirst, PutFollowsReread, CloseFirst, Working, Stored, cmd,
           ParkedHasItsRecord, ResolutionMeansClosed
<1>6. QED
  BY <1>1, <1>2, <1>3, <1>4, <1>5 DEF Next

-----------------------------------------------------------------------------
(* The theorems. *)

(* What the executors keep true at every instant. *)
THEOREM ExecutorInvariant == Spec => []TypedInv
<1>1. Init => TypedInv
  <2>1. SUFFICES ASSUME Init PROVE TypedInv
    OBVIOUS
  <2>2. ConsumerInv
    BY <2>1, InvInit DEF Init
  <2>3. /\ session.current = 0 /\ length = 0 /\ log = << >> /\ call = NoCall
        /\ partial = {} /\ parked = FALSE /\ closed = FALSE /\ edits = 0 /\ failures = 0
    BY <2>1 DEF Init, ConsumerInit, Down
  <2>4. disk # Missing => IsTask(disk) /\ disk.body.resolution = 0
    BY <2>1, TypedAssumption DEF Init
  <2>5. log \in Seq(TypedCommand) /\ Len(log) = length
    BY <2>3
  <2>6. TypeOK
    <3>1. edits \in 0 .. MaxEdits /\ failures \in 0 .. MaxFailures
      BY <2>3, TypedAssumption
    <3>2. partial \subseteq begun /\ parked \in BOOLEAN /\ closed \in BOOLEAN
      BY <2>3
    <3>3. ConsumerTypeOK
      BY <2>2 DEF ConsumerInv
    <3>4. QED
      BY <2>3, <2>4, <2>5, <3>1, <3>2, <3>3 DEF TypeOK
  <2>7. QED
    BY <2>2, <2>3, <2>4, <2>6
       DEF TypedInv, SentFromRead, ReadIsCurrent, RecordFirst, PutFollowsReread, CloseFirst,
           Working, NoCall, ParkedHasItsRecord, ResolutionMeansClosed, Stored
<1>2. QED
  BY <1>1, TypedStep, PTL DEF Spec

(* The consumer with its executors is well typed: what it reads, computes and
   writes back stays a task, whatever was published and edited. *)
THEOREM TypedTypeCorrect == Spec => []TypeOK
<1>1. TypedInv => TypeOK
  BY DEF TypedInv
<1>2. QED
  BY <1>1, ExecutorInvariant, PTL

(* With its executors the consumer still keeps the order of CommandLog. *)
THEOREM TypedRefinesLog == Spec => Log!SafeSpec
<1>1. Init => Log!Init
  BY DEF Init, ConsumerInit, Log!Init, Fate, Log!Commands, Commands
<1>2. TypedInv /\ [Next]_vars => [Log!Next]_(Log!vars)
  BY IsConsumerStep, StepRefines DEF TypedInv
<1>3. QED
  BY <1>1, <1>2, ExecutorInvariant, PTL DEF Spec, Log!SafeSpec

(* A task parked at the trigger cap has its record at every instant: PUT before
   PATCH, through failed requests, lost sessions and redeliveries. *)
THEOREM ParkedHasItsRecordHolds == Spec => []ParkedHasItsRecord
<1>1. TypedInv => ParkedHasItsRecord
  BY DEF TypedInv
<1>2. QED
  BY <1>1, ExecutorInvariant, PTL

(* At most one Resolution, and only on a task that was closed before. *)
THEOREM ResolutionMeansClosedHolds == Spec => []ResolutionMeansClosed
<1>1. TypedInv => ResolutionMeansClosed
  BY DEF TypedInv
<1>2. QED
  BY <1>1, ExecutorInvariant, PTL

(* The steps that store something: a PUT or a PATCH, answered or not, or an
   edit. *)
LEMMA Writes ==
    ASSUME TypedInv, [Next]_vars, disk' # disk
    PROVE  \/ edits' # edits
           \/ Stored /\ call.pc = "put" /\ StoreBody /\ UNCHANGED <<consumerVars, log, edits>>
           \/ Stored /\ call.pc = "patch" /\ StoreFields /\ UNCHANGED <<consumerVars, log, edits>>
<1>1. CASE OperatorEdit
  BY <1>1 DEF OperatorEdit, TypedInv, TypeOK
<1>2. CASE PutBody \/ PatchTask \/ RequestFails
  BY <1>2 DEF PutBody, PatchTask, RequestFails, Stored
<1>3. CASE ~OperatorEdit /\ ~PutBody /\ ~PatchTask /\ ~RequestFails
  BY <1>3 DEF Next, ConsumerStep, Executor, BeginCommand, ReadTask, RereadTask, ReadMissing,
              ReturnCommand, PublishCommand, EndSession, taskVars, vars
<1>4. QED
  BY <1>1, <1>2, <1>3

(* What the operator wrote before the re-read survives the PUT of the body. *)
THEOREM RereadEditsSurviveHolds == Spec => RereadEditsSurvive
<1> DEFINE P == Stored /\ disk' # Missing /\ disk'.body.notes # disk.body.notes /\ edits' = edits
                => disk.body.notes \cap call.fresh.notes \subseteq disk'.body.notes
<1>1. TypedInv /\ [Next]_vars => P
  <2>1. SUFFICES ASSUME TypedInv, [Next]_vars, disk'.body.notes # disk.body.notes,
                        edits' = edits
                 PROVE  disk.body.notes \cap call.fresh.notes \subseteq disk'.body.notes
    OBVIOUS
  <2>2. CASE Stored /\ call.pc = "patch" /\ StoreFields /\ UNCHANGED <<consumerVars, log, edits>>
    <3>1. disk'.body = disk.body
      BY <2>1, <2>2, StoreFieldsFacts
    <3>2. QED
      BY <2>1, <3>1
  <2>3. CASE Stored /\ call.pc = "put" /\ StoreBody /\ UNCHANGED <<consumerVars, log, edits>>
    <3>1. disk'.body = call.body
      BY <2>1, <2>3, StoreBodyFacts
    <3>2. call.body = MergedBody(call.fresh, cmd, call.escalates, call.name)
      BY <2>1, <2>3 DEF TypedInv, PutFollowsReread
    <3>3. call # NoCall
      BY <2>3 DEF NoCall
    <3>4. /\ IsCommand(cmd) /\ call.escalates \in BOOLEAN /\ call.name \in Names
          /\ call.fresh \in TaskBody
      BY <2>1, <2>3, <3>3, CurrentCommand, CallParts
    <3>5. call.body.notes = call.fresh.notes
      BY <3>2, <3>4, MergedFacts
    <3>6. QED
      BY <3>1, <3>5
  <2>4. QED
    BY <2>1, <2>2, <2>3, Writes
<1>2. QED
  BY <1>1, ExecutorInvariant, PTL DEF Spec, RereadEditsSurvive

(* What a PATCH does to the task it finds: its fields come from the call's read. *)
LEMMA PatchFromRead ==
    ASSUME TypedInv, call.pc = "patch"
    PROVE  PatchLegal(call.read, call.fields)
<1>1. call # NoCall
  BY DEF NoCall
<1>2. IsCommand(cmd) /\ IsFrontmatter(call.read)
  BY <1>1, CurrentCommand, CallParts
<1>3. call.fields = Fields(call.read, cmd)
  BY DEF TypedInv, SentFromRead, Working
<1>4. QED
  BY <1>2, <1>3, FieldsLegal

(* A cap that a command found is not changed by it, and one it brings along does
   not exceed the default. *)
THEOREM FoundCapKeptHolds == Spec => FoundCapKept
<1> DEFINE P == Stored /\ disk' # Missing /\ disk'.fm.max_triggers # disk.fm.max_triggers
                /\ edits' = edits
                => /\ call.read.max_triggers = Absent
                   /\ disk'.fm.max_triggers <= DefaultCap
<1>1. TypedInv /\ [Next]_vars => P
  <2>1. SUFFICES ASSUME TypedInv, [Next]_vars, edits' = edits, Stored,
                        disk'.fm.max_triggers # disk.fm.max_triggers
                 PROVE  /\ call.read.max_triggers = Absent
                        /\ disk'.fm.max_triggers <= DefaultCap
    OBVIOUS
  <2>2. CASE Stored /\ call.pc = "put" /\ StoreBody /\ UNCHANGED <<consumerVars, log, edits>>
    <3>1. disk'.fm = disk.fm
      BY <2>1, <2>2, StoreBodyFacts
    <3>2. QED
      BY <2>1, <3>1
  <2>3. CASE Stored /\ call.pc = "patch" /\ StoreFields /\ UNCHANGED <<consumerVars, log, edits>>
    <3>1. disk'.fm = Overlay(disk.fm, call.fields)
      BY <2>1, <2>3, StoreFieldsFacts
    <3>2. IsFrontmatter(disk.fm)
      BY <2>1 DEF TypedInv, TypeOK, IsTask, Stored
    <3>3. PatchLegal(call.read, call.fields)
      BY <2>1, <2>3, PatchFromRead
    <3>4. disk'.fm["max_triggers"] = IF "max_triggers" \in DOMAIN call.fields
                                     THEN call.fields["max_triggers"] ELSE disk.fm["max_triggers"]
      BY <3>1, <3>2, KeyFacts DEF Overlay, IsFrontmatter
    <3>5. QED
      BY <2>1, <3>3, <3>4 DEF PatchLegal
  <2>4. QED
    BY <2>1, <2>2, <2>3, Writes
<1>2. QED
  BY <1>1, ExecutorInvariant, PTL DEF Spec, FoundCapKept

(* No command leaves an agent on a task that has used up its triggers, if the
   tasks to start from have none: whichever of count, cap, ref and assignee it
   brings along, and whether its PATCH is answered or not. *)
THEOREM NoAgentAtTheCapHolds ==
    ASSUME \A t \in InitialTasks : t # Missing => NoAgent(t.fm)
    PROVE  Spec => []NoAgentAtTheCap
<1>1. Init => NoAgentAtTheCap
  BY DEF Init, NoAgentAtTheCap, NoAgent, Stored
<1>2. TypedInv /\ NoAgentAtTheCap /\ [Next]_vars => NoAgentAtTheCap'
  <2>1. SUFFICES ASSUME TypedInv, NoAgentAtTheCap, [Next]_vars, Stored', edits' = 0
                 PROVE  NoAgent(disk'.fm)
    BY DEF NoAgentAtTheCap, NoAgent
  <2>2. edits = 0
    <3>1. edits \in Nat /\ (edits' = edits \/ edits' = edits + 1)
      <4>1. edits \in Nat
        BY <2>1, TypedAssumption DEF TypedInv, TypeOK
      <4>2. CASE OperatorEdit
        BY <4>1, <4>2 DEF OperatorEdit
      <4>3. CASE ~OperatorEdit
        BY <2>1, <4>1, <4>3
           DEF Next, ConsumerStep, Executor, BeginCommand, ReadTask, RereadTask, ReadMissing,
               PutBody, PatchTask, RequestFails, ReturnCommand, PublishCommand, EndSession,
               taskVars, vars
      <4>4. QED
        BY <4>2, <4>3
    <3>2. QED
      BY <2>1, <3>1
  <2>3. CASE disk' = disk
    BY <2>1, <2>2, <2>3 DEF NoAgentAtTheCap, NoAgent, Stored
  <2>4. CASE Stored /\ call.pc = "put" /\ StoreBody /\ UNCHANGED <<consumerVars, log, edits>>
    <3>1. disk'.fm = disk.fm
      BY <2>1, <2>4, StoreBodyFacts
    <3>2. QED
      BY <2>1, <2>2, <2>4, <3>1 DEF NoAgentAtTheCap, NoAgent
  <2>5. CASE Stored /\ call.pc = "patch" /\ StoreFields /\ UNCHANGED <<consumerVars, log, edits>>
    <3>1. disk'.fm = Overlay(disk.fm, call.fields)
      BY <2>1, <2>5, StoreFieldsFacts
    <3>2. call.read = disk.fm
      BY <2>1, <2>2, <2>5 DEF TypedInv, ReadIsCurrent
    <3>3. NoAgent(disk.fm)
      BY <2>1, <2>2, <2>5 DEF NoAgentAtTheCap, NoAgent
    <3>4. QED
      BY <2>1, <2>5, <3>1, <3>2, <3>3, PatchFromRead DEF PatchLegal
  <2>6. QED
    BY <2>1, <2>2, <2>3, <2>4, <2>5, Writes
<1>3. QED
  BY <1>1, <1>2, ExecutorInvariant, PTL DEF Spec

=============================================================================
