------------------------------ MODULE CommandLog ------------------------------
(***************************************************************************)
(* What the command consumer promises to those who publish on the request  *)
(* topic, for the commands of one partition: a command is handed to its    *)
(* executor before it expires and after the ones published before it, and  *)
(* if it is not, it is dropped.  While an offset is stored only an expired *)
(* command is dropped; a start without one passes over what the broker     *)
(* stamped before the window, live or not.  No command is forgotten.       *)
(***************************************************************************)
EXTENDS Integers

CONSTANT MaxCommands   \* bound: commands published

VARIABLES
    length,    \* commands published
    expired,   \* commands older than commandExpireDuration by their request time
    aged,      \* the prefix that is older by the broker's timestamps
    stored,    \* an offset is stored
    outcome    \* what became of each command

vars == <<length, expired, aged, stored, outcome>>

Commands == 1 .. MaxCommands
Outcome  == {"pending", "started", "executed", "dropped"}
Open     == {"pending", "started"}

Init ==
    /\ length = 0 /\ expired = {} /\ aged = 0 /\ stored \in BOOLEAN
    /\ outcome = [m \in Commands |-> "pending"]

Publish ==
    /\ length < MaxCommands
    /\ length' = length + 1
    /\ UNCHANGED <<expired, aged, stored, outcome>>

Expire(m) ==
    /\ m \in 1 .. length
    /\ expired' = expired \cup {m}
    /\ UNCHANGED <<length, aged, stored, outcome>>

Age ==
    /\ aged < length
    /\ aged' = aged + 1
    /\ UNCHANGED <<length, expired, stored, outcome>>

\* The executor of a live command starts; the commands before it are settled.
Begin(m) ==
    /\ m \in (1 .. length) \ expired
    /\ outcome[m] = "pending"
    /\ \A k \in 1 .. m - 1 : outcome[k] \notin Open
    /\ outcome' = [outcome EXCEPT ![m] = "started"]
    /\ UNCHANGED <<length, expired, aged, stored>>

\* It returns, perhaps on a later delivery and past the expiry.
Return(m) ==
    /\ outcome[m] = "started"
    /\ outcome' = [outcome EXCEPT ![m] = "executed"]
    /\ UNCHANGED <<length, expired, aged, stored>>

\* Several commands may be given up at once.
Drop(S) ==
    /\ S # {} /\ S \subseteq expired
    /\ \A m \in S : outcome[m] \in Open
    /\ outcome' = [m \in Commands |-> IF m \in S THEN "dropped" ELSE outcome[m]]
    /\ UNCHANGED <<length, expired, aged, stored>>

LoseOffset ==
    /\ stored' = FALSE
    /\ UNCHANGED <<length, expired, aged, outcome>>

\* The start without a stored offset: what is open before the window is gone.
PassOver ==
    /\ ~stored /\ stored' = TRUE
    /\ outcome' = [m \in Commands |->
                     IF m <= aged /\ outcome[m] \in Open THEN "dropped" ELSE outcome[m]]
    /\ UNCHANGED <<length, expired, aged>>

Next ==
    \/ Publish \/ Age \/ LoseOffset \/ PassOver
    \/ \E m \in Commands : Expire(m) \/ Begin(m) \/ Return(m)
    \/ \E S \in SUBSET Commands : Drop(S)

\* The order in which commands are begun, returned and dropped.
SafeSpec == Init /\ [][Next]_vars

\* Every command published is settled in the end.
NoneForgotten == \A m \in Commands : m <= length ~> outcome[m] \notin Open

Spec == SafeSpec /\ NoneForgotten

=============================================================================
