---------------------------- MODULE CommandConsumer ----------------------------
(***************************************************************************)
(* The consumer of one partition of the request topic: it starts from the  *)
(* stored offset or, where none is stored, from the oldest command that    *)
(* can still be executed; takes a batch, drops and reports the expired     *)
(* commands of it, hands the others one by one to their executors, and     *)
(* stores the offset behind the batch.  Whatever ends the session, the     *)
(* retry loop or the restarted process enters again from the stored        *)
(* offset.                                                                 *)
(*                                                                         *)
(* Offsets count from 1.  Time is what is older than the expiry: a set of  *)
(* commands by their own request time, which the filter reads, and a       *)
(* prefix of the log by the broker's timestamps, which the seek uses.  The *)
(* two clocks are independent.                                             *)
(***************************************************************************)
EXTENDS Integers, FiniteSets

CONSTANTS
    None,          \* no offset is stored
    MaxCommands,   \* bound: commands published
    BatchSize,     \* COMMAND_BATCH_SIZE
    MaxExpired,    \* bound: commands that grow older than the expiry, by each clock
    MaxFaults      \* bound: sessions that end

ASSUME ConsumerAssumption ==
    /\ MaxCommands \in Nat /\ BatchSize \in Nat \ {0} /\ MaxFaults \in Nat
    /\ MaxExpired \in Nat /\ None \notin Nat

VARIABLES
    length,    \* commands appended to the partition
    expired,   \* commands whose requestTime is past the expiry
    aged,      \* the prefix whose broker timestamps are past it
    offset,    \* the offset store in the data directory
    session,   \* the consume call under way
    begun,     \* history: commands handed to an executor
    executed,  \* history: commands whose executor has returned
    dropped,   \* history: commands filtered out, discarded or passed over
    faults

consumerVars == <<length, expired, aged, offset, session, begun, executed, dropped, faults>>

Commands == 1 .. MaxCommands

\* The batch is from .. to; at is the next message the filter looks at; kept
\* are the ones it passes on; current is the one an executor works on.
Down == [pc |-> "down", from |-> 1, to |-> 0, at |-> 1, kept |-> {}, current |-> 0]
Session == [pc : {"down", "poll", "filter", "handle", "store"},
            from : Nat, to : Nat, at : Nat, kept : SUBSET Commands, current : 0 .. MaxCommands]

ConsumerTypeOK ==
    /\ length \in 0 .. MaxCommands /\ aged \in 0 .. length
    /\ expired \subseteq 1 .. length
    /\ offset \in (1 .. length + 1) \cup {None}
    /\ session \in Session
    /\ executed \subseteq begun /\ begun \cup dropped \subseteq 1 .. length
    /\ faults \in 0 .. MaxFaults

ConsumerInit ==
    /\ length = 0 /\ expired = {} /\ aged = 0
    /\ offset \in {1, None} /\ session = Down
    /\ begun = {} /\ executed = {} /\ dropped = {} /\ faults = 0

-----------------------------------------------------------------------------
(* The topic and the clock. *)

Publish ==
    /\ length < MaxCommands
    /\ length' = length + 1
    /\ UNCHANGED <<expired, aged, offset, session, begun, executed, dropped, faults>>

\* A command passes its expiry by its own request time, or the next one of the
\* log by the broker's timestamp: a producer's clock may run ahead or behind.
Expire ==
    /\ \/ /\ Cardinality(expired) < MaxExpired
          /\ \E m \in (1 .. length) \ expired : expired' = expired \cup {m}
          /\ UNCHANGED aged
       \/ /\ aged < length /\ aged < MaxExpired
          /\ aged' = aged + 1
          /\ UNCHANGED expired
    /\ UNCHANGED <<length, offset, session, begun, executed, dropped, faults>>

-----------------------------------------------------------------------------
(* The session. *)

\* Variant: without a stored offset the session starts at the newest one.
StartNewest == IF offset = None THEN length + 1 ELSE offset

\* The TTL seek: the first message at or after now minus the expiry, and the
\* newest offset when there is none.
StartOffset == IF offset = None THEN aged + 1 ELSE offset

\* The resolved offset is stored at once.
Start ==
    /\ session.pc = "down"
    /\ session' = [Down EXCEPT !.pc = "poll"]
    /\ offset' = StartOffset
    /\ dropped' = IF offset = None THEN dropped \cup (1 .. StartOffset - 1) ELSE dropped
    /\ UNCHANGED <<length, expired, aged, begun, executed, faults>>

Poll ==
    /\ session.pc = "poll" /\ offset <= length
    /\ \E to \in offset .. length :
         /\ to < offset + BatchSize
         /\ session' = [pc |-> "filter", from |-> offset, to |-> to, at |-> offset,
                        kept |-> {}, current |-> 0]
    /\ UNCHANGED <<length, expired, aged, offset, begun, executed, dropped, faults>>

\* NewExpiredCommandSkip: the command's own request time decides.
Skip(m) == m \in expired

\* The next message of the batch: an expired one is reported to the observer.
\* A batch of expired commands opens no handler transaction.
Filter ==
    /\ session.pc = "filter"
    /\ LET m    == session.at
           kept == IF Skip(m) THEN session.kept ELSE session.kept \cup {m} IN
       /\ dropped' = IF Skip(m) THEN dropped \cup {m} ELSE dropped
       /\ session' = [session EXCEPT !.at = m + 1, !.kept = kept,
                                     !.pc = IF m < session.to THEN "filter"
                                            ELSE IF kept = {} THEN "store" ELSE "handle"]
    /\ UNCHANGED <<length, expired, aged, offset, begun, executed, faults>>

\* The batch handler takes the kept messages in their order and looks at the
\* expiry once more: the batch may have been long under way.
Discard(m) ==
    /\ session.pc = "handle" /\ session.current = 0
    /\ m \in session.kept \cap expired /\ \A k \in session.kept : m <= k
    /\ session' = [session EXCEPT !.kept = @ \ {m}]
    /\ dropped' = dropped \cup {m}
    /\ UNCHANGED <<length, expired, aged, offset, begun, executed, faults>>

Begin(m) ==
    /\ session.pc = "handle" /\ session.current = 0
    /\ m \in session.kept \ expired /\ \A k \in session.kept : m <= k
    /\ session' = [session EXCEPT !.current = m]
    /\ begun' = begun \cup {m}
    /\ UNCHANGED <<length, expired, aged, offset, executed, dropped, faults>>

\* The executor returns.  An error is logged and the message skipped; it does
\* not end the batch.
Return ==
    /\ session.current # 0
    /\ session' = [session EXCEPT !.kept = @ \ {session.current}, !.current = 0]
    /\ executed' = executed \cup {session.current}
    /\ UNCHANGED <<length, expired, aged, offset, begun, dropped, faults>>

EndBatch ==
    /\ session.pc = "handle" /\ session.kept = {}
    /\ session' = [session EXCEPT !.pc = "store"]
    /\ UNCHANGED <<length, expired, aged, offset, begun, executed, dropped, faults>>

\* Variant: the offset behind the batch is counted from the message after it.
OffsetPastNext == session.to + 2

OffsetBehindBatch == session.to + 1

StoreOffset ==
    /\ session.pc = "store"
    /\ offset' = OffsetBehindBatch
    /\ session' = [Down EXCEPT !.pc = "poll"]
    /\ UNCHANGED <<length, expired, aged, begun, executed, dropped, faults>>

\* The broker goes away, the batch transaction fails, or the process is killed;
\* the volume of a killed process may be replaced.
SessionEnds ==
    /\ faults < MaxFaults /\ session.pc # "down"
    /\ session' = Down
    /\ faults' = faults + 1
    /\ offset' \in {offset, None}
    /\ UNCHANGED <<length, expired, aged, begun, executed, dropped>>

\* What the consumer does by itself; EXTENDing modules give Begin and Return
\* their executors.
Consume ==
    \/ Start \/ Poll \/ Filter \/ EndBatch \/ StoreOffset
    \/ \E m \in Commands : Discard(m)

Handle == Return \/ \E m \in Commands : Begin(m)

ConsumerNext == Consume \/ Handle \/ Publish \/ Expire \/ SessionEnds

\* The retry loop reconnects, and executors return: every request they send
\* has a timeout.
ConsumerSpec ==
    ConsumerInit /\ [][ConsumerNext]_consumerVars /\ WF_consumerVars(Consume \/ Handle)

-----------------------------------------------------------------------------
(* Refinement of CommandLog. *)

Fate ==
    [m \in Commands |->
        IF m \in executed THEN "executed"
        ELSE IF m \in dropped THEN "dropped"
        ELSE IF m \in begun THEN "started" ELSE "pending"]

Log == INSTANCE CommandLog WITH outcome <- Fate, stored <- (offset # None)

\* The consumer with its filter, its batches, its stored offset and its lost
\* sessions keeps the promise of CommandLog: a command is begun live and in
\* order, or dropped expired, and none is forgotten; a live one is dropped only
\* by a start that finds no stored offset, and only if the broker stamped it
\* before the window (newCommandConsumerFunc, NewExpiredCommandBatchHandler,
\* RetryConsumer).
LogSpec == Log!Spec

=============================================================================
