------------------------- MODULE ConsumptionContract -------------------------
(***************************************************************************)
(* What the members of one chat are promised about catch-up: every bare    *)
(* /summary takes messages that no earlier one took, from above the        *)
(* boundary, and moves the boundary up to the last of them.  The promise   *)
(* is bound to an orderly chat: one whose messages carry times that follow *)
(* their ids and whose commands are known in the order of theirs           *)
(* (docs/architecture/mental-model.md, Checkpoint semantics, names both    *)
(* limits).                                                                *)
(***************************************************************************)
EXTENDS Integers

CONSTANT Messages      \* ids of messages

VARIABLES consumed,    \* messages that a catch-up answered for
          boundary,    \* id up to which they are behind the chat; 0 at first
          orderly

contractVars == <<consumed, boundary, orderly>>

Init == consumed = {} /\ boundary = 0 /\ orderly \in BOOLEAN

Consume(S) ==
    /\ orderly
    /\ S # {}
    /\ \A m \in S : m > boundary /\ m \notin consumed
    /\ consumed' = consumed \union S
    /\ boundary' \in S
    /\ \A m \in S : m <= boundary'
    /\ orderly' = orderly

\* A command that becomes known behind a later one ends the promise.
Disorder == orderly /\ ~orderly' /\ UNCHANGED <<consumed, boundary>>

Unpromised == ~orderly /\ ~orderly' /\ consumed \subseteq consumed'

Next == (\E S \in SUBSET Messages : Consume(S)) \/ Disorder \/ Unpromised

Spec == Init /\ [][Next]_contractVars
=============================================================================
