---------------------------- MODULE SummaryWindow ----------------------------
(***************************************************************************)
(* Which stored messages a /summary command is about                       *)
(* (packages/summarize/src/summary.window.ts and window/), as sets.        *)
(* WindowScan models the loops that compute them.                          *)
(*                                                                         *)
(* A message is its id in one chat; its other fields are constants.  Null  *)
(* stands for undefined and null alike; ids are positive, so 0 is below    *)
(* every id.                                                               *)
(***************************************************************************)
EXTENDS Integers, FiniteSets

CONSTANTS Messages,     \* ids of the text messages members may write
          Sent,         \* Sent[m]: the date of m, in the unit of Day
          Parent,       \* Parent[m]: the message m answers, or Null
          Blank,        \* messages whose text is white space only
          MaxMessages,  \* limits.ts: MAX_MESSAGES (128)
          Day,          \* limits.ts: DAY_MS
          Null

ASSUME WindowAssumption ==
    /\ Messages \subseteq Nat \ {0}
    /\ Sent \in [Messages -> Nat]
    /\ Parent \in [Messages -> Messages \union {Null}]
    /\ Blank \subseteq Messages
    /\ MaxMessages \in Nat \ {0}
    /\ Day \in Nat
    /\ Null \notin Nat

Modes == {"recent", "today", "count"}
Statuses == {"summarized", "deferred", "skipped", "empty", "error"}

\* A command: its message id, its date, its mode and for "count" the number.
Command == [id: Nat \ {0}, date: Nat, mode: Modes, count: Nat \union {Null}]

-----------------------------------------------------------------------------
(***************************************************************************)
(* Chronology.                                                             *)
(***************************************************************************)
\* compareChronologically(left, right) < 0
Before(left, right) ==
    \/ Sent[left] < Sent[right]
    \/ Sent[left] = Sent[right] /\ left < right

\* The first k messages of S, and the last k.
EarliestOf(S, k) == {m \in S : Cardinality({n \in S : Before(n, m)}) < k}
LatestOf(S, k) == {m \in S : Cardinality({n \in S : Before(m, n)}) < k}

\* The end of a set that is not empty: coverageOf's lastId.
Last(S) == CHOOSE m \in S : \A n \in S \ {m} : Before(n, m)

-----------------------------------------------------------------------------
(***************************************************************************)
(* Selection.                                                              *)
(***************************************************************************)
Consumption(command) ==
    IF command.mode = "recent" THEN "checkpoint" ELSE "read-only"

\* rawLimit: only an explicit count narrows the cap.
Limit(command) ==
    IF command.mode # "count" THEN MaxMessages
    ELSE LET wanted == IF command.count = Null THEN 100 ELSE command.count
             atLeastOne == IF wanted < 1 THEN 1 ELSE wanted
         IN  IF atLeastOne < MaxMessages THEN atLeastOne ELSE MaxMessages

\* since: the start of the day for today, else a day back.
Since(command) ==
    IF command.mode = "today" THEN command.date - (command.date % Day)
    ELSE command.date - Day

\* The tests of the loop in selectEligibleMessages, without the limit.
Candidates(all, command, checkpoint) ==
    {m \in all : /\ m < command.id
                 /\ m \notin Blank
                 /\ Consumption(command) = "checkpoint" =>
                        /\ checkpoint # Null => m > checkpoint
                        /\ Sent[m] >= Since(command)}

Eligible(all, command, checkpoint) ==
    LET candidates == Candidates(all, command, checkpoint)
    IN  IF Consumption(command) = "checkpoint"
        THEN EarliestOf(candidates, Limit(command))
        ELSE LatestOf(candidates, Limit(command))

\* neededParentIds, as far as selectContextMessages finds them in the history.
Context(all, eligible) ==
    {p \in all \ eligible : \E m \in eligible : Parent[m] = p}

\* SelectedConversation; a set in the place of its chronological sequence.
SelectSummaryWindow(all, command, checkpoint) ==
    LET eligible == Eligible(all, command, checkpoint)
    IN  IF eligible = {} THEN Null
        ELSE [eligible |-> eligible,
              context |-> Context(all, eligible),
              consumption |-> Consumption(command),
              checkpointBefore |-> checkpoint,
              upperExclusive |-> command.id]
=============================================================================
