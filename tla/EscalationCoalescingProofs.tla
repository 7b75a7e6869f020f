----------------------- MODULE EscalationCoalescingProofs -----------------------
(* Proofs about the coalescing window, for any number of writers and keys. *)
EXTENDS EscalationCoalescing, TLAPS

\* No call outlives CallBound, so none sees its claim pruned.
CallsFresh ==
    \A w \in Writers : calls[w] # Idle =>
        calls[w].at <= now /\ now <= calls[w].at + CallBound

\* The entry of a key that is being sent is the sender's claim ...
ClaimHeld ==
    \A w \in Writers, k \in Keys : Sending(w, k) => publishedAt[k] = calls[w].at

\* ... and it is the only sender.
OneSender ==
    \A v, w \in Writers, k \in Keys : Sending(v, k) /\ Sending(w, k) => v = w

\* A ping is remembered for a window.
PingRemembered ==
    \A p \in pings : publishedAt[p.key] = p.at \/ now >= p.at + Window

\* A sender of a key that was announced is a window later.
SenderSpaced ==
    \A p \in pings, w \in Writers :
        Sending(w, p.key) => calls[w].at >= p.at + Window - CallBound

\* An entry stands for a ping that was sent or is being sent.
EntryWitness ==
    \A k \in Keys : publishedAt[k] # Never =>
        \/ \E p \in pings : p.key = k /\ p.at = publishedAt[k]
        \/ \E w \in Writers : Sending(w, k)

IInv ==
    /\ TypeOK /\ CallsFresh /\ ClaimHeld /\ OneSender
    /\ PingRemembered /\ SenderSpaced /\ PingsSpaced /\ EntryWitness

LEMMA CallFields ==
    ASSUME TypeOK, NEW w \in Writers
    PROVE  /\ calls[w] # Idle => calls[w] \in Call
           /\ calls[w] \in Call => calls[w].at \in Nat /\ calls[w].key \in Keys \cup {NoKey}
                                     /\ calls[w].id \in Nat /\ calls[w] # Idle
           /\ calls[w].pc \in {"clocked", "sending"} => calls[w] \in Call
           /\ calls[w].pc = "clocked" => calls[w].key \in Keys
           /\ Idle.pc = "idle"
  BY DEF TypeOK, Call, Idle

(* Pruning at a reading of a call under way spares every claim being sent. *)
LEMMA PruneSparesSenders ==
    ASSUME IInv, NEW w \in Writers, calls[w].pc = "clocked",
           NEW v \in Writers, NEW k \in Keys, Sending(v, k)
    PROVE  Pruned(calls[w].at)[k] = publishedAt[k] /\ publishedAt[k] # Never
<1>1. calls[w] \in Call /\ calls[v] \in Call
  BY CallFields DEF IInv, Sending
<1>2. /\ calls[w].at \in Nat /\ calls[v].at \in Nat /\ now \in Nat
      /\ calls[w].at <= now /\ now <= calls[v].at + CallBound
      /\ publishedAt[k] = calls[v].at
  BY <1>1, CallFields DEF IInv, CallsFresh, ClaimHeld, TypeOK
<1>3. ~(calls[w].at - publishedAt[k] >= Window)
  BY <1>2, CoalescingAssumption
<1>4. QED
  BY <1>2, <1>3 DEF Pruned, Never

(* What a pruned entry means. *)
LEMMA PruneFacts ==
    ASSUME IInv, NEW w \in Writers, calls[w].pc = "clocked", NEW k \in Keys
    PROVE  /\ Pruned(calls[w].at)[k] \in {publishedAt[k], Never}
           /\ \A p \in pings : p.key = k /\ Pruned(calls[w].at)[k] # p.at
                => now >= p.at + Window
           /\ Pruned(calls[w].at)[k] # Never => calls[w].at - publishedAt[k] < Window
<1>1. calls[w] \in Call
  BY CallFields DEF IInv
<1>2. /\ calls[w].at \in Nat /\ now \in Nat /\ calls[w].at <= now
      /\ publishedAt[k] \in Nat \cup {Never}
  BY <1>1, CallFields DEF IInv, CallsFresh, TypeOK
<1>3. Pruned(calls[w].at)[k] = IF publishedAt[k] # Never /\ calls[w].at - publishedAt[k] >= Window
                              THEN Never ELSE publishedAt[k]
  BY DEF Pruned
<1>4. ASSUME NEW p \in pings, p.key = k, Pruned(calls[w].at)[k] # p.at
      PROVE  now >= p.at + Window
  <2>1. p.at \in Nat
    BY DEF IInv, TypeOK, Ping
  <2>2. CASE publishedAt[k] = p.at
    BY <1>2, <1>3, <1>4, <2>1, <2>2, CoalescingAssumption
  <2>3. CASE publishedAt[k] # p.at
    BY <2>3, <1>4 DEF IInv, PingRemembered
  <2>4. QED
    BY <2>2, <2>3
<1>5. QED
  BY <1>2, <1>3, <1>4, CoalescingAssumption DEF Never

(* How a step that only moves the call of w changes who is sending. *)
LEMMA OthersKept ==
    ASSUME TypeOK, NEW w \in Writers, NEW c, calls' = [calls EXCEPT ![w] = c]
    PROVE  /\ calls'[w] = c
           /\ \A v \in Writers : v # w => calls'[v] = calls[v]
  BY DEF TypeOK

LEMMA TypeStep ==
    ASSUME TypeOK, [Next]_vars
    PROVE  TypeOK'
<1>1. ASSUME NEW w \in Writers, NEW k \in Keys \cup {NoKey}, Escalate(w, k) PROVE TypeOK'
  <2>1. [pc |-> IF k = NoKey THEN "sending" ELSE "clocked", key |-> k, at |-> now, id |-> serial]
           \in Call
    BY DEF TypeOK, Call
  <2>2. QED
    BY <1>1, <2>1 DEF Escalate, TypeOK
<1>2. ASSUME NEW w \in Writers, Claim(w) PROVE TypeOK'
  <2>1. calls[w] \in Call
    BY <1>2, CallFields DEF Claim
  <2>2. [calls[w] EXCEPT !.pc = "sending"] \in Call /\ calls[w].at \in Nat
    BY <2>1 DEF Call
  <2>3. Pruned(calls[w].at) \in [Keys -> Nat \cup {Never}]
    BY DEF Pruned, TypeOK
  <2>4. QED
    BY <1>2, <2>2, <2>3 DEF Claim, TypeOK
<1>3. ASSUME NEW w \in Writers, Suppress(w) PROVE TypeOK'
  <2>1. calls[w] \in Call
    BY <1>3, CallFields DEF Suppress
  <2>2. Pruned(calls[w].at) \in [Keys -> Nat \cup {Never}]
    BY DEF Pruned, TypeOK
  <2>3. calls[w].key \in Keys
    BY <1>3, CallFields DEF Suppress
  <2>4. QED
    BY <1>3, <2>2, <2>3 DEF Suppress, TypeOK
<1>4. ASSUME NEW w \in Writers, SendAccepted(w) PROVE TypeOK'
  <2>1. calls[w] \in Call
    BY <1>4, CallFields DEF SendAccepted
  <2>2. calls[w].key # NoKey =>
           [key |-> calls[w].key, at |-> calls[w].at, id |-> calls[w].id] \in Ping
    BY <2>1 DEF Call, Ping
  <2>3. QED
    BY <1>4, <2>2 DEF SendAccepted, TypeOK
<1>5. ASSUME NEW w \in Writers, SendRejected(w) PROVE TypeOK'
  BY <1>5 DEF SendRejected, Release, TypeOK
<1>6. CASE Tick
  BY <1>6 DEF Tick, TypeOK
<1>7. CASE Restart
  BY <1>7 DEF Restart, TypeOK
<1>8. CASE UNCHANGED vars
  BY <1>8 DEF vars, TypeOK
<1>9. QED
  BY <1>1, <1>2, <1>3, <1>4, <1>5, <1>6, <1>7, <1>8 DEF Next

LEMMA InvStep ==
    ASSUME IInv, [Next]_vars
    PROVE  IInv'
<1>0. TypeOK /\ TypeOK'
  BY TypeStep DEF IInv
<1>1. ASSUME NEW w \in Writers, NEW k \in Keys \cup {NoKey}, Escalate(w, k) PROVE IInv'
  <2> DEFINE c == [pc |-> IF k = NoKey THEN "sending" ELSE "clocked",
                   key |-> k, at |-> now, id |-> serial]
  <2>1. /\ calls' = [calls EXCEPT ![w] = c] /\ calls[w] = Idle
        /\ UNCHANGED <<now, publishedAt, pings>>
    BY <1>1 DEF Escalate
  <2>2. c.at = now /\ c.key = k /\ (k # NoKey => c.pc = "clocked")
    OBVIOUS
  <2> HIDE DEF c
  <2>3. calls'[w] = c /\ \A v \in Writers : v # w => calls'[v] = calls[v]
    BY <1>0, <2>1, OthersKept
  <2>4. \A v \in Writers, j \in Keys : Sending(v, j)' <=> Sending(v, j)
    BY <2>1, <2>2, <2>3, CoalescingAssumption DEF Sending, Idle
  <2>5. \A v \in Writers, j \in Keys : Sending(v, j) => calls'[v] = calls[v]
    BY <2>1, <2>3 DEF Sending, Idle
  <2>6. CallsFresh'
    BY <1>0, <2>1, <2>2, <2>3, CoalescingAssumption DEF IInv, CallsFresh, TypeOK
  <2>7. ClaimHeld' /\ OneSender'
    BY <2>1, <2>4, <2>5 DEF IInv, ClaimHeld, OneSender
  <2>8. PingRemembered' /\ PingsSpaced'
    BY <2>1 DEF IInv, PingRemembered, PingsSpaced
  <2>9. SenderSpaced' /\ EntryWitness'
    BY <1>0, <2>1, <2>4, <2>5 DEF IInv, SenderSpaced, EntryWitness, TypeOK, Ping
  <2>10. QED
    BY <1>0, <2>6, <2>7, <2>8, <2>9 DEF IInv
<1>2. ASSUME NEW w \in Writers, Claim(w) PROVE IInv'
  <2> DEFINE t == calls[w].at
             k == calls[w].key
             c == [calls[w] EXCEPT !.pc = "sending"]
  <2>1. /\ calls[w].pc = "clocked" /\ Pruned(t)[k] = Never
        /\ publishedAt' = [Pruned(t) EXCEPT ![k] = t]
        /\ calls' = [calls EXCEPT ![w] = c]
        /\ UNCHANGED <<now, pings>>
    BY <1>2 DEF Claim
  <2>2. calls[w] \in Call /\ k \in Keys /\ t \in Nat /\ now \in Nat
    BY <1>0, <2>1, CallFields DEF TypeOK
  <2>3. c.at = t /\ c.key = k /\ c.pc = "sending" /\ c # Idle
    BY <2>2 DEF Call, Idle
  <2>4. t <= now /\ now <= t + CallBound
    BY <1>0, <2>2, CallFields DEF IInv, CallsFresh
  <2>5. publishedAt'[k] = t /\ \A j \in Keys : j # k => publishedAt'[j] = Pruned(t)[j]
    BY <2>1, <2>2 DEF Pruned
  <2> HIDE DEF c
  <2>6. calls'[w] = c /\ \A v \in Writers : v # w => calls'[v] = calls[v]
    BY <1>0, <2>1, OthersKept
  <2>7. \A v \in Writers, j \in Keys : Sending(v, j) =>
           /\ j # k /\ v # w /\ publishedAt'[j] = publishedAt[j] /\ Sending(v, j)'
           /\ calls'[v] = calls[v]
    BY <2>1, <2>5, <2>6, PruneSparesSenders DEF Sending
  <2>8. \A v \in Writers, j \in Keys : Sending(v, j)' => Sending(v, j) \/ (v = w /\ j = k)
    BY <2>3, <2>6 DEF Sending
  <2>9. CallsFresh'
    BY <1>0, <2>1, <2>2, <2>3, <2>4, <2>6 DEF IInv, CallsFresh
  <2>10. ClaimHeld' /\ OneSender'
    BY <2>3, <2>5, <2>6, <2>7, <2>8 DEF IInv, ClaimHeld, OneSender
  <2>11. \A p \in pings : p.key \in Keys /\ p.at \in Nat
    BY <1>0 DEF TypeOK, Ping
  <2>12. \A p \in pings : publishedAt'[p.key] = p.at \/ now >= p.at + Window
    <3>1. SUFFICES ASSUME NEW p \in pings, publishedAt'[p.key] # p.at
                   PROVE  now >= p.at + Window
      OBVIOUS
    <3>2. CASE p.key = k
      <4>1. Pruned(t)[k] # p.at
        BY <2>1, <2>11 DEF Never
      <4>2. QED
        BY <3>2, <4>1, <2>1, <2>2, PruneFacts
    <3>3. CASE p.key # k
      BY <3>1, <3>3, <2>1, <2>5, <2>11, PruneFacts
    <3>4. QED
      BY <3>2, <3>3
  <2>13. PingRemembered' /\ PingsSpaced'
    BY <2>1, <2>12 DEF IInv, PingRemembered, PingsSpaced
  <2>14. SenderSpaced'
    <3>1. SUFFICES ASSUME NEW p \in pings, NEW v \in Writers, Sending(v, p.key)'
                   PROVE  calls'[v].at >= p.at + Window - CallBound
      BY <2>1 DEF SenderSpaced
    <3>2. CASE Sending(v, p.key)
      BY <3>2, <2>7, <2>11 DEF IInv, SenderSpaced
    <3>3. CASE v = w /\ p.key = k
      <4>1. Pruned(t)[k] # p.at
        BY <2>1, <2>11 DEF Never
      <4>2. now >= p.at + Window
        BY <3>3, <4>1, <2>1, <2>2, PruneFacts
      <4>3. calls'[v].at = t /\ p.at \in Nat
        BY <3>3, <2>3, <2>6, <2>11
      <4>4. QED
        BY <4>2, <4>3, <2>2, <2>4, CoalescingAssumption
    <3>4. QED
      BY <3>1, <3>2, <3>3, <2>8, <2>11
  <2>15. EntryWitness'
    <3>1. SUFFICES ASSUME NEW j \in Keys, publishedAt'[j] # Never
                   PROVE  \/ \E p \in pings : p.key = j /\ p.at = publishedAt'[j]
                          \/ \E v \in Writers : Sending(v, j)'
      BY <2>1 DEF EntryWitness
    <3>2. CASE j = k
      <4>1. Sending(w, j)'
        BY <3>2, <2>3, <2>6 DEF Sending
      <4>2. QED
        BY <4>1
    <3>3. CASE j # k
      <4>1. publishedAt'[j] = publishedAt[j]
        BY <3>1, <3>3, <2>1, <2>5, PruneFacts
      <4>2. QED
        BY <3>1, <4>1, <2>7 DEF IInv, EntryWitness
    <3>4. QED
      BY <3>2, <3>3
  <2>16. QED
    BY <1>0, <2>9, <2>10, <2>13, <2>14, <2>15 DEF IInv
<1>3. ASSUME NEW w \in Writers, Suppress(w) PROVE IInv'
  <2> DEFINE t == calls[w].at
  <2>1. /\ calls[w].pc = "clocked" /\ publishedAt' = Pruned(t)
        /\ calls' = [calls EXCEPT ![w] = Idle]
        /\ UNCHANGED <<now, pings>>
    BY <1>3 DEF Suppress
  <2>2. calls'[w] = Idle /\ \A v \in Writers : v # w => calls'[v] = calls[v]
    BY <1>0, <2>1, OthersKept
  <2>3. \A v \in Writers, j \in Keys : Sending(v, j) =>
           publishedAt'[j] = publishedAt[j] /\ Sending(v, j)' /\ calls'[v] = calls[v]
    BY <2>1, <2>2, PruneSparesSenders DEF Sending
  <2>4. \A v \in Writers, j \in Keys : Sending(v, j)' => Sending(v, j)
    BY <2>2 DEF Sending, Idle
  <2>5. CallsFresh'
    BY <2>1, <2>2 DEF IInv, CallsFresh
  <2>6. ClaimHeld' /\ OneSender'
    BY <2>3, <2>4 DEF IInv, ClaimHeld, OneSender
  <2>7. \A p \in pings : p.key \in Keys /\ p.at \in Nat
    BY <1>0 DEF TypeOK, Ping
  <2>8. PingRemembered' /\ PingsSpaced'
    BY <2>1, <2>7, PruneFacts DEF IInv, PingRemembered, PingsSpaced
  <2>9. SenderSpaced'
    BY <2>1, <2>3, <2>4, <2>7 DEF IInv, SenderSpaced
  <2>10. \A j \in Keys : publishedAt'[j] \in {publishedAt[j], Never}
    BY <2>1, PruneFacts
  <2>11. EntryWitness'
    BY <2>1, <2>3, <2>10 DEF IInv, EntryWitness
  <2>12. QED
    BY <1>0, <2>5, <2>6, <2>8, <2>9, <2>11 DEF IInv
<1>4. ASSUME NEW w \in Writers, SendAccepted(w) PROVE IInv'
  <2> DEFINE k == calls[w].key
             q == [key |-> k, at |-> calls[w].at, id |-> calls[w].id]
  <2>1. /\ calls[w].pc = "sending"
        /\ pings' = IF k = NoKey THEN pings ELSE pings \cup {q}
        /\ calls' = [calls EXCEPT ![w] = Idle]
        /\ UNCHANGED <<now, publishedAt>>
    BY <1>4 DEF SendAccepted
  <2>2. calls[w] \in Call /\ k \in Keys \cup {NoKey} /\ calls[w].at \in Nat
    BY <1>0, <2>1, CallFields
  <2>3. calls'[w] = Idle /\ \A v \in Writers : v # w => calls'[v] = calls[v]
    BY <1>0, <2>1, OthersKept
  <2>4. \A v \in Writers, j \in Keys : Sending(v, j)' => Sending(v, j) /\ calls'[v] = calls[v] /\ v # w
    BY <2>3 DEF Sending, Idle
  <2>5. \A v \in Writers, j \in Keys : Sending(v, j) /\ v # w => Sending(v, j)'
    BY <2>3 DEF Sending
  <2>6. CallsFresh'
    BY <2>1, <2>3 DEF IInv, CallsFresh
  <2>7. ClaimHeld' /\ OneSender'
    BY <2>1, <2>4 DEF IInv, ClaimHeld, OneSender
  <2>8. pings \subseteq pings' /\ (k = NoKey => pings' = pings)
        /\ \A p \in pings' : p \in pings \/ (k # NoKey /\ p = q)
    BY <2>1
  <2>9. q.key = k /\ q.at = calls[w].at
    OBVIOUS
  <2> HIDE DEF q
  <2>10. k # NoKey => k \in Keys /\ Sending(w, k) /\ publishedAt[k] = calls[w].at
    BY <2>1, <2>2 DEF IInv, ClaimHeld, Sending
  <2>11. \A p \in pings : p.key \in Keys /\ p.at \in Nat
    BY <1>0 DEF TypeOK, Ping
  <2>12. PingRemembered'
    BY <2>1, <2>8, <2>9, <2>10 DEF IInv, PingRemembered
  <2>13. \A p \in pings : k # NoKey /\ p.key = k => q.at >= p.at + Window - CallBound
    BY <2>9, <2>10 DEF IInv, SenderSpaced
  <2>14. PingsSpaced'
    <3>1. SUFFICES ASSUME NEW p \in pings', NEW r \in pings', p.key = r.key, p # r
                   PROVE  \/ r.at >= p.at + Window - CallBound
                          \/ p.at >= r.at + Window - CallBound
      BY DEF PingsSpaced
    <3>2. CASE p \in pings /\ r \in pings
      BY <3>1, <3>2 DEF IInv, PingsSpaced
    <3>3. CASE p \in pings /\ r = q /\ k # NoKey
      BY <3>1, <3>3, <2>9, <2>13
    <3>4. CASE r \in pings /\ p = q /\ k # NoKey
      BY <3>1, <3>4, <2>9, <2>13
    <3>5. QED
      BY <3>1, <3>2, <3>3, <3>4, <2>8
  <2>15. SenderSpaced'
    <3>1. SUFFICES ASSUME NEW p \in pings', NEW v \in Writers, Sending(v, p.key)'
                   PROVE  calls'[v].at >= p.at + Window - CallBound
      BY DEF SenderSpaced
    <3>2. CASE p \in pings
      BY <3>1, <3>2, <2>4, <2>11 DEF IInv, SenderSpaced
    <3>3. CASE p = q /\ k # NoKey
      BY <3>1, <3>3, <2>4, <2>9, <2>10 DEF IInv, OneSender
    <3>4. QED
      BY <3>2, <3>3, <2>8
  <2>16. EntryWitness'
    <3>1. SUFFICES ASSUME NEW j \in Keys, publishedAt[j] # Never
                   PROVE  \/ \E p \in pings' : p.key = j /\ p.at = publishedAt[j]
                          \/ \E v \in Writers : Sending(v, j)'
      BY <2>1 DEF EntryWitness
    <3>2. CASE \E p \in pings : p.key = j /\ p.at = publishedAt[j]
      BY <3>2, <2>8
    <3>3. CASE \E v \in Writers : Sending(v, j) /\ v # w
      BY <3>3, <2>5
    <3>4. CASE Sending(w, j)
      <4>1. k = j /\ k # NoKey
        BY <3>4, CoalescingAssumption DEF Sending
      <4>2. q \in pings'
        BY <4>1, <2>1
      <4>3. QED
        BY <4>1, <4>2, <2>9, <2>10
    <3>5. QED
      BY <3>1, <3>2, <3>3, <3>4 DEF IInv, EntryWitness
  <2>17. QED
    BY <1>0, <2>6, <2>7, <2>12, <2>14, <2>15, <2>16 DEF IInv
<1>5. ASSUME NEW w \in Writers, SendRejected(w) PROVE IInv'
  <2> DEFINE k == calls[w].key
  <2>1. /\ calls[w].pc = "sending"
        /\ publishedAt' = IF k = NoKey THEN publishedAt ELSE [publishedAt EXCEPT ![k] = Never]
        /\ calls' = [calls EXCEPT ![w] = Idle]
        /\ UNCHANGED <<now, pings>>
    BY <1>5 DEF SendRejected, Release
  <2>2. calls[w] \in Call /\ k \in Keys \cup {NoKey} /\ calls[w].at \in Nat
    BY <1>0, <2>1, CallFields
  <2>3. calls'[w] = Idle /\ \A v \in Writers : v # w => calls'[v] = calls[v]
    BY <1>0, <2>1, OthersKept
  <2>4. \A v \in Writers, j \in Keys : Sending(v, j)' =>
           Sending(v, j) /\ calls'[v] = calls[v] /\ v # w /\ j # k
    <3>1. SUFFICES ASSUME NEW v \in Writers, NEW j \in Keys, Sending(v, j)'
                   PROVE  Sending(v, j) /\ calls'[v] = calls[v] /\ v # w /\ j # k
      OBVIOUS
    <3>2. v # w /\ calls'[v] = calls[v] /\ Sending(v, j)
      BY <3>1, <2>3 DEF Sending, Idle
    <3>3. j # k
      BY <3>2, <2>1 DEF IInv, OneSender, Sending
    <3>4. QED
      BY <3>2, <3>3
  <2>5. \A v \in Writers, j \in Keys : Sending(v, j) /\ v # w => Sending(v, j)'
    BY <2>3 DEF Sending
  <2>6. \A j \in Keys : publishedAt'[j] = IF j = k THEN Never ELSE publishedAt[j]
    BY <1>0, <2>1, CoalescingAssumption DEF TypeOK
  <2>7. CallsFresh'
    BY <2>1, <2>3 DEF IInv, CallsFresh
  <2>8. ClaimHeld' /\ OneSender'
    BY <2>4, <2>6 DEF IInv, ClaimHeld, OneSender
  <2>9. \A p \in pings : p.key \in Keys /\ p.at \in Nat
    BY <1>0 DEF TypeOK, Ping
  <2>10. \A p \in pings : p.key = k => now >= p.at + Window
    <3>1. SUFFICES ASSUME NEW p \in pings, p.key = k PROVE now >= p.at + Window
      OBVIOUS
    <3>2. Sending(w, p.key) /\ publishedAt[p.key] = calls[w].at
      BY <3>1, <2>1, <2>9 DEF IInv, ClaimHeld, Sending
    <3>3. calls[w].at >= p.at + Window - CallBound
      BY <3>2 DEF IInv, SenderSpaced
    <3>4. calls[w].at # p.at
      BY <3>3, <2>2, <2>9, CoalescingAssumption
    <3>5. QED
      BY <3>2, <3>4 DEF IInv, PingRemembered
  <2>11. PingRemembered' /\ PingsSpaced'
    BY <2>1, <2>6, <2>9, <2>10 DEF IInv, PingRemembered, PingsSpaced
  <2>12. SenderSpaced'
    BY <2>1, <2>4, <2>9 DEF IInv, SenderSpaced
  <2>13. EntryWitness'
    <3>1. SUFFICES ASSUME NEW j \in Keys, publishedAt'[j] # Never
                   PROVE  \/ \E p \in pings : p.key = j /\ p.at = publishedAt'[j]
                          \/ \E v \in Writers : Sending(v, j)'
      BY <2>1 DEF EntryWitness
    <3>2. j # k /\ publishedAt'[j] = publishedAt[j] /\ ~Sending(w, j)
      BY <3>1, <2>6 DEF Sending
    <3>3. QED
      BY <3>1, <3>2, <2>5 DEF IInv, EntryWitness
  <2>14. QED
    BY <1>0, <2>7, <2>8, <2>11, <2>12, <2>13 DEF IInv
<1>6. CASE Tick
  <2>1. /\ now' = now + 1 /\ now \in Nat /\ UNCHANGED <<publishedAt, calls, pings>>
        /\ \A w \in Writers : calls[w] # Idle => now < calls[w].at + CallBound
    BY <1>0, <1>6 DEF Tick, TypeOK
  <2>2. \A w \in Writers : calls[w] # Idle => calls[w].at \in Nat
    BY <1>0, CallFields
  <2>3. CallsFresh'
    BY <2>1, <2>2, CoalescingAssumption DEF IInv, CallsFresh
  <2>4. \A p \in pings : p.at \in Nat
    BY <1>0 DEF TypeOK, Ping
  <2>5. PingRemembered'
    BY <2>1, <2>4, CoalescingAssumption DEF IInv, PingRemembered
  <2>6. ClaimHeld' /\ OneSender' /\ SenderSpaced' /\ PingsSpaced' /\ EntryWitness'
    BY <2>1 DEF IInv, ClaimHeld, OneSender, SenderSpaced, PingsSpaced, EntryWitness, Sending
  <2>7. QED
    BY <1>0, <2>3, <2>5, <2>6 DEF IInv
<1>7. CASE Restart
  <2>1. /\ pings' = {} /\ \A w \in Writers : calls'[w] = Idle
        /\ \A k \in Keys : publishedAt'[k] = Never
    BY <1>7 DEF Restart
  <2>2. \A w \in Writers, k \in Keys : ~Sending(w, k)'
    BY <2>1 DEF Sending, Idle
  <2>3. QED
    BY <1>0, <2>1, <2>2 DEF IInv, CallsFresh, ClaimHeld, OneSender, PingRemembered,
                            SenderSpaced, PingsSpaced, EntryWitness
<1>8. CASE UNCHANGED vars
  BY <1>0, <1>8 DEF vars, IInv, CallsFresh, ClaimHeld, OneSender, PingRemembered,
                    SenderSpaced, PingsSpaced, EntryWitness, Sending
<1>9. QED
  BY <1>1, <1>2, <1>3, <1>4, <1>5, <1>6, <1>7, <1>8 DEF Next

(* The invariant of the coalescing window. *)
THEOREM WindowInvariant == Spec => []IInv
<1>1. Init => IInv
  <2>1. Init => /\ TypeOK /\ pings = {}
                /\ \A w \in Writers : calls[w] = Idle
                /\ \A k \in Keys : publishedAt[k] = Never
    BY DEF Init, TypeOK
  <2>2. QED
    BY <2>1 DEF IInv, CallsFresh, ClaimHeld, OneSender, PingRemembered,
                SenderSpaced, PingsSpaced, EntryWitness, Sending, Idle
<1>2. IInv /\ [Next]_vars => IInv'
  BY InvStep
<1>3. QED
  BY <1>1, <1>2, PTL DEF Spec

(* The window, the calls under way and the history of pings keep their types:
   a rejected send and a pruned entry leave Never or a clock reading. *)
THEOREM TypeCorrect == Spec => []TypeOK
<1>1. IInv => TypeOK
  BY DEF IInv
<1>2. QED
  BY <1>1, WindowInvariant, PTL

(* One process never announces a key twice within a window, however many
   partitions escalate it concurrently and whichever of their sends fail. *)
THEOREM PingsSpacedHolds == Spec => []PingsSpaced
<1>1. IInv => PingsSpaced
  BY DEF IInv
<1>2. QED
  BY <1>1, WindowInvariant, PTL

(* A suppressed escalation always stands behind a ping of its key. *)
THEOREM SuppressedForAReasonHolds == Spec => SuppressedForAReason
<1>1. IInv =>
        \A w \in Writers :
          Suppress(w)
          => \/ \E p \in pings : p.key = calls[w].key /\ calls[w].at - p.at < Window
             \/ \E v \in Writers : Sending(v, calls[w].key)
  <2>1. SUFFICES ASSUME IInv, NEW w \in Writers, Suppress(w)
                 PROVE  \/ \E p \in pings : p.key = calls[w].key /\ calls[w].at - p.at < Window
                        \/ \E v \in Writers : Sending(v, calls[w].key)
    OBVIOUS
  <2>2. calls[w].pc = "clocked" /\ Pruned(calls[w].at)[calls[w].key] # Never
    BY <2>1 DEF Suppress
  <2>3. calls[w].key \in Keys
    BY <2>1, <2>2, CallFields DEF IInv
  <2>4. publishedAt[calls[w].key] # Never /\ calls[w].at - publishedAt[calls[w].key] < Window
    BY <2>1, <2>2, <2>3, PruneFacts
  <2>5. QED
    BY <2>1, <2>3, <2>4 DEF IInv, EntryWitness
<1>2. QED
  BY <1>1, WindowInvariant, PTL DEF SuppressedForAReason

=============================================================================
