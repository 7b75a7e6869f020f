-------------------------- MODULE EscalationCoalescing --------------------------
(***************************************************************************)
(* publishEscalation and its coalescing window (pkg/result/               *)
(* result_writer.go): the consumer goroutines of all partitions share one  *)
(* resultWriter and its map of last pings.  A call reads the clock, claims *)
(* the key under the mutex, sends outside of it, and releases the claim    *)
(* when the send fails.                                                    *)
(***************************************************************************)
EXTENDS Integers

CONSTANTS
    Writers,    \* consumer goroutines
    Keys,       \* coalescing keys: repository and PR number
    NoKey,      \* a task name the pattern does not match
    Window,     \* escalationCoalescingWindow
    CallBound,  \* how long one publishEscalation call may take
    MaxTime,    \* bound: clock
    MaxCalls    \* bound: calls

\* The send is a synchronous produce with the client's timeouts of seconds; the
\* window is 30 minutes.
ASSUME CoalescingAssumption ==
    /\ NoKey \notin Keys
    /\ Window \in Nat /\ CallBound \in Nat /\ CallBound < Window
    /\ MaxTime \in Nat /\ MaxCalls \in Nat

Never == -1

VARIABLES
    now,          \* the clock
    publishedAt,  \* escalationPublishedAt, Never where the map has no entry
    calls,        \* the publishEscalation call of each writer
    serial,       \* calls so far: names them apart
    pings         \* history: the coalescable notifications sent by this process

vars == <<now, publishedAt, calls, serial, pings>>

Idle == [pc |-> "idle"]
Call == [pc : {"clocked"}, key : Keys, at : Nat, id : Nat]
        \cup [pc : {"sending"}, key : Keys \cup {NoKey}, at : Nat, id : Nat]
Ping == [key : Keys, at : Nat, id : Nat]

Sending(w, k) == calls[w].pc = "sending" /\ calls[w].key = k

TypeOK ==
    /\ now \in Nat
    /\ publishedAt \in [Keys -> Nat \cup {Never}]
    /\ calls \in [Writers -> Call \cup {Idle}]
    /\ serial \in Nat
    /\ pings \in SUBSET Ping

Init ==
    /\ now = 0
    /\ publishedAt = [k \in Keys |-> Never]
    /\ calls = [w \in Writers |-> Idle]
    /\ serial = 0
    /\ pings = {}

\* The clock is read before the mutex is taken; a name without a key skips the
\* claim and is sent (fail-open).
Escalate(w, k) ==
    /\ calls[w] = Idle /\ serial < MaxCalls
    /\ calls' = [calls EXCEPT ![w] =
                    [pc |-> IF k = NoKey THEN "sending" ELSE "clocked",
                     key |-> k, at |-> now, id |-> serial]]
    /\ serial' = serial + 1
    /\ UNCHANGED <<now, publishedAt, pings>>

\* Variant: every entry is dropped.
PrunedAll(t) == [k \in Keys |-> Never]

\* The map after the entries whose window has elapsed at t are deleted.
Pruned(t) ==
    [k \in Keys |-> IF publishedAt[k] # Never /\ t - publishedAt[k] >= Window
                    THEN Never ELSE publishedAt[k]]

\* claimEscalationCoalescingSlot grants the claim.
Claim(w) ==
    LET c == calls[w] IN
    /\ c.pc = "clocked"
    /\ Pruned(c.at)[c.key] = Never
    /\ publishedAt' = [Pruned(c.at) EXCEPT ![c.key] = c.at]
    /\ calls' = [calls EXCEPT ![w].pc = "sending"]
    /\ UNCHANGED <<now, serial, pings>>

\* It refuses: the escalation publishes nothing, and the window is not moved.
Suppress(w) ==
    LET c == calls[w] IN
    /\ c.pc = "clocked"
    /\ Pruned(c.at)[c.key] # Never
    /\ publishedAt' = Pruned(c.at)
    /\ calls' = [calls EXCEPT ![w] = Idle]
    /\ UNCHANGED <<now, serial, pings>>

SendAccepted(w) ==
    LET c == calls[w] IN
    /\ c.pc = "sending"
    /\ pings' = IF c.key = NoKey THEN pings
                ELSE pings \cup {[key |-> c.key, at |-> c.at, id |-> c.id]}
    /\ calls' = [calls EXCEPT ![w] = Idle]
    /\ UNCHANGED <<now, publishedAt, serial>>

\* Variant: a rejected send keeps the claim.
KeepClaim(k) == publishedAt' = publishedAt

\* Variant: the claim is aged by a window instead of deleted.
AgeClaim(k) ==
    publishedAt' = IF k = NoKey THEN publishedAt ELSE [publishedAt EXCEPT ![k] = @ - Window]

\* releaseEscalationCoalescingSlot deletes by key, whoever made the entry.
Release(k) ==
    publishedAt' = IF k = NoKey THEN publishedAt ELSE [publishedAt EXCEPT ![k] = Never]

SendRejected(w) ==
    LET c == calls[w] IN
    /\ c.pc = "sending"
    /\ Release(c.key)
    /\ calls' = [calls EXCEPT ![w] = Idle]
    /\ UNCHANGED <<now, serial, pings>>

\* Time passes, but no call takes longer than CallBound.
Tick ==
    /\ now < MaxTime
    /\ \A w \in Writers : calls[w] # Idle => now < calls[w].at + CallBound
    /\ now' = now + 1
    /\ UNCHANGED <<publishedAt, calls, serial, pings>>

\* The window lives in memory only: a restart clears it.
Restart ==
    /\ publishedAt' = [k \in Keys |-> Never]
    /\ calls' = [w \in Writers |-> Idle]
    /\ pings' = {}
    /\ UNCHANGED <<now, serial>>

Next ==
    \/ \E w \in Writers :
          \/ \E k \in Keys \cup {NoKey} : Escalate(w, k)
          \/ Claim(w) \/ Suppress(w) \/ SendAccepted(w) \/ SendRejected(w)
    \/ Tick
    \/ Restart

Spec == Init /\ [][Next]_vars

-----------------------------------------------------------------------------
(* Properties *)

\* One process announces one key at most once per window: any two of its
\* notifications carry clock readings a window apart, less the time a claim
\* may lag behind its reading.
PingsSpaced ==
    \A p, q \in pings :
        p.key = q.key /\ p # q =>
            \/ q.at >= p.at + Window - CallBound
            \/ p.at >= q.at + Window - CallBound

\* An escalation is suppressed only behind a notification of its key that was
\* sent within the window or is on its way: after a rejected send, and after
\* the window, the next escalation publishes.
SuppressedForAReason ==
    [][\A w \in Writers :
          Suppress(w)
          => \/ \E p \in pings : p.key = calls[w].key /\ calls[w].at - p.at < Window
             \/ \E v \in Writers : Sending(v, calls[w].key)]_vars

=============================================================================
