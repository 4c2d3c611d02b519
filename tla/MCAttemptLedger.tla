--------------------------- MODULE MCAttemptLedger ---------------------------
(***************************************************************************)
(* Two messages, the second a reply to the first, before two catch-ups     *)
(* with two attempts each; a window holds one message, so that a catch-up  *)
(* leaves a rest, and the first message is a day old for the last command. *)
(* Or, bound: instead of the first catch-up a count becomes known, which   *)
(* moves no boundary, and then no lease lapses.                            *)
(***************************************************************************)
EXTENDS AttemptLedger

MCMessages == {1, 3}
MCSent == [m \in MCMessages |-> m]
MCParent == [m \in MCMessages |-> IF m = 3 THEN 1 ELSE Null]
MCBlank == {}
MCCommands ==
    {[id |-> 4, date |-> 4, mode |-> "recent", count |-> Null],
     [id |-> 7, date |-> 9, mode |-> "recent", count |-> Null],
     [id |-> 8, date |-> 8, mode |-> "count", count |-> 3]}

\* Bound: two commands are known, the second catch-up and one other.
OneOther == \E c \in Commands :
    run[c].status = "unknown" /\ (c.id = 8 \/ (c.id = 4 /\ lapses = 0))
=============================================================================
