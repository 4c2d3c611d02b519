--------------------------- MODULE SummaryContract ---------------------------
(***************************************************************************)
(* What the lifecycle store promises about a summary command, with leases, *)
(* tokens, deadlines, retries and reconciliation left out: the phase of    *)
(* each command as the chat would describe it.                             *)
(*                                                                         *)
(*   unknown -> waiting <-> computing -> ready <-> sending -> delivered    *)
(*                             |                      |                    *)
(*                             +------> failed <------+                    *)
(*                                                                         *)
(* RunLifecycle implements this module (ContractSpec there).               *)
(***************************************************************************)
EXTENDS Integers

CONSTANTS
    Runs,               \* the commands
    ChatOf,             \* the chat of each command
    CommandMessageId    \* its position in that chat

Before(e, r) == /\ ChatOf[e] = ChatOf[r]
                /\ CommandMessageId[e] < CommandMessageId[r]

VARIABLES
    phase,      \* phase[r]
    overtaken   \* commands that became known after a later one of their chat

contractVars == <<phase, overtaken>>

Phases == {"unknown", "waiting", "computing", "ready", "sending",
           "delivered", "failed"}
Uncomputed == {"waiting", "computing"}

ContractInit == /\ phase = [r \in Runs |-> "unknown"]
                /\ overtaken = {}

Become(r, from, to) == /\ phase[r] = from
                       /\ phase' = [phase EXCEPT ![r] = to]

\* A command becomes known; nothing else is said of when.
Request(r) ==
    /\ Become(r, "unknown", "waiting")
    /\ overtaken' = IF \E l \in Runs : Before(r, l) /\ phase[l] # "unknown"
                    THEN overtaken \cup {r} ELSE overtaken

\* One computation per chat at a time, and in the order of the commands.
Compute(r) ==
    /\ Become(r, "waiting", "computing")
    /\ \A e \in Runs : Before(e, r) => phase[e] \notin Uncomputed
    /\ \A o \in Runs : ChatOf[o] = ChatOf[r] => phase[o] # "computing"
    /\ UNCHANGED overtaken

Proceed(r) ==
    /\ \/ Become(r, "computing", "waiting")     \* to be retried
       \/ Become(r, "computing", "ready")       \* the text is stored
       \/ Become(r, "computing", "failed")
       \/ Become(r, "ready", "sending")
       \/ Become(r, "sending", "ready")         \* to be retried
       \/ Become(r, "sending", "delivered")
       \/ Become(r, "sending", "failed")
    /\ UNCHANGED overtaken

ContractNext == \E r \in Runs : Request(r) \/ Compute(r) \/ Proceed(r)

ContractSpec == ContractInit /\ [][ContractNext]_contractVars
=============================================================================
