----------------------------- MODULE WindowScan -----------------------------
(***************************************************************************)
(* The selection of a window as the code computes it                       *)
(* (summary.window.ts, window/eligible.ts, ranking.ts, context.ts,         *)
(* chronology.ts): one pass over the stored messages with a heap of        *)
(* bounded size, a second pass for the reply parents, a merge.  One state  *)
(* is one iteration; SummaryWindow says which window must come out.        *)
(*                                                                         *)
(* (chatId, messageId) is a key of the stored messages, so two of them     *)
(* never compare equal and the ordinals that break ties are left out.      *)
(***************************************************************************)
EXTENDS SummaryWindow, Sequences, Functions, Order

CONSTANTS Histories,     \* orders in which the store may return messages
          Commands,      \* commands, of type Command
          Checkpoints    \* boundaries read from the ledger

ASSUME ScanAssumption ==
    /\ Histories \subseteq Seq(Messages)
    /\ \A history \in Histories : IsInjective(history)
    /\ Commands \subseteq Command
    /\ Checkpoints \subseteq Messages \union {Null}

VARIABLES all,           \* the stored messages, as the query returns them
          command, checkpoint,
          pc,            \* scan, sift, parents, merge, done
          ordinal,       \* how many messages of all were visited
          selected,      \* the array of selectEligibleMessages
          heapified,
          root,          \* the node whose subtree is being made a heap
          index,         \* how far down siftDownSelection has come
          context,       \* the array of selectContextMessages
          merged,        \* the array of mergeChronologically
          contextIndex, eligibleIndex     \* how much of each is in merged

inputs == <<all, command, checkpoint>>
heap == <<heapified, root, index>>
merging == <<merged, contextIndex, eligibleIndex>>
scanVars == <<inputs, pc, ordinal, selected, heap, context, merging>>

-----------------------------------------------------------------------------
(***************************************************************************)
(* The heap of ranking.ts, numbered from 1.  Its root is the message to be *)
(* thrown away first.                                                      *)
(***************************************************************************)
Direction == IF Consumption(command) = "checkpoint" THEN "earliest" ELSE "latest"

BoundaryPrecedes(left, right) ==
    IF Direction = "earliest" THEN Before(right, left) ELSE Before(left, right)

ShouldReplaceBoundary(message, boundary) == BoundaryPrecedes(boundary, message)

\* Mutant: the loop of heapifySelection starts one parent too early in the array.
LastParentButOne(nodes) == nodes \div 2 - 1

\* Where heapifySelection starts: no node behind it has a child.
LastParent(nodes) == nodes \div 2

\* The child that is to be thrown away before the other.
BoundaryChild ==
    LET left == 2 * index
        right == left + 1
    IN  IF right \in DOMAIN selected /\ BoundaryPrecedes(selected[right], selected[left])
        THEN right ELSE left

\* Array.sort(compareChronologically).
Chronological(S) == InOrder(S, Before)

-----------------------------------------------------------------------------
ScanInit ==
    /\ all \in Histories
    /\ command \in Commands
    /\ checkpoint \in Checkpoints
    /\ pc = "scan"
    /\ ordinal = 0
    /\ selected = <<>>
    /\ heapified = FALSE /\ root = 0 /\ index = 0
    /\ context = <<>>
    /\ merged = <<>> /\ contextIndex = 0 /\ eligibleIndex = 0

Message == all[ordinal + 1]

Passes(m) == m \in Candidates(Range(all), command, checkpoint)

Full == Len(selected) >= Limit(command)

Visit == /\ pc = "scan"
         /\ ordinal < Len(all)
         /\ ordinal' = ordinal + 1
         /\ UNCHANGED <<inputs, heapified, context, merging>>

\* continue: the message is not for this command.
SkipMessage ==
    /\ Visit
    /\ ~Passes(Message)
    /\ UNCHANGED <<pc, selected, root, index>>

\* selected.length < limit: the fast path.
PushMessage ==
    /\ Visit
    /\ Passes(Message)
    /\ ~Full
    /\ selected' = Append(selected, Message)
    /\ UNCHANGED <<pc, root, index>>

\* The array is full for the first time: heapifySelection, from the last
\* parent down to the root.
StartHeapify ==
    /\ pc = "scan"
    /\ ordinal < Len(all)
    /\ Passes(Message)
    /\ Full
    /\ ~heapified
    /\ root' = LastParent(Len(selected))
    /\ index' = root'
    /\ pc' = "sift"
    /\ UNCHANGED <<inputs, ordinal, selected, heapified, context, merging>>

\* The array is a heap: the message replaces the root or is dropped.
ReplaceBoundary ==
    /\ Visit
    /\ Passes(Message)
    /\ Full
    /\ heapified
    /\ ShouldReplaceBoundary(Message, selected[1])
    /\ selected' = [selected EXCEPT ![1] = Message]
    /\ root' = 1
    /\ index' = 1
    /\ pc' = "sift"

DropMessage ==
    /\ Visit
    /\ Passes(Message)
    /\ Full
    /\ heapified
    /\ ~ShouldReplaceBoundary(Message, selected[1])
    /\ UNCHANGED <<pc, selected, root, index>>

\* One iteration of siftDownSelection.
Sinks == /\ 2 * index \in DOMAIN selected
         /\ BoundaryPrecedes(selected[BoundaryChild], selected[index])

Sink ==
    /\ pc = "sift"
    /\ root >= 1
    /\ Sinks
    /\ selected' = [selected EXCEPT ![index] = selected[BoundaryChild],
                                    ![BoundaryChild] = selected[index]]
    /\ index' = BoundaryChild
    /\ UNCHANGED <<inputs, pc, ordinal, heapified, root, context, merging>>

\* The subtree is a heap; heapifySelection goes on with the node before.
Settle ==
    /\ pc = "sift"
    /\ root >= 1
    /\ ~Sinks
    /\ root' = root - 1
    /\ index' = root - 1
    /\ UNCHANGED <<inputs, pc, ordinal, selected, heapified, context, merging>>

SiftDone ==
    /\ pc = "sift"
    /\ root < 1
    /\ pc' = "scan"
    /\ heapified' = TRUE
    /\ UNCHANGED <<inputs, ordinal, selected, root, index, context, merging>>

\* selected.sort; no window if nothing was selected.
SortSelected ==
    /\ pc = "scan"
    /\ ordinal = Len(all)
    /\ selected' = Chronological(Range(selected))
    /\ pc' = IF selected = <<>> THEN "done" ELSE "parents"
    /\ UNCHANGED <<inputs, ordinal, heap, context, merging>>

NeededParentIds ==
    {Parent[m] : m \in Range(selected)} \ (Range(selected) \union {Null})

\* selectContextMessages.
SelectContext ==
    /\ pc = "parents"
    /\ context' = Chronological(Range(all) \intersect NeededParentIds)
    /\ pc' = "merge"
    /\ UNCHANGED <<inputs, ordinal, selected, heap, merging>>

\* Which array mergeChronologically takes from; the context at equality.
ContextIsNext ==
    /\ contextIndex < Len(context)
    /\ eligibleIndex < Len(selected) =>
         ~Before(selected[eligibleIndex + 1], context[contextIndex + 1])

MergeOne ==
    /\ pc = "merge"
    /\ contextIndex < Len(context) \/ eligibleIndex < Len(selected)
    /\ IF ContextIsNext
       THEN /\ merged' = Append(merged, context[contextIndex + 1])
            /\ contextIndex' = contextIndex + 1
            /\ UNCHANGED eligibleIndex
       ELSE /\ merged' = Append(merged, selected[eligibleIndex + 1])
            /\ eligibleIndex' = eligibleIndex + 1
            /\ UNCHANGED contextIndex
    /\ UNCHANGED <<inputs, pc, ordinal, selected, heap, context>>

\* The window that createConversationWindow checks and returns.
MergeDone ==
    /\ pc = "merge"
    /\ contextIndex = Len(context) /\ eligibleIndex = Len(selected)
    /\ pc' = "done"
    /\ UNCHANGED <<inputs, ordinal, selected, heap, context, merging>>

ScanNext == \/ SkipMessage \/ PushMessage \/ StartHeapify \/ ReplaceBoundary
            \/ DropMessage \/ Sink \/ Settle \/ SiftDone
            \/ SortSelected \/ SelectContext \/ MergeOne \/ MergeDone

ScanSpec == ScanInit /\ [][ScanNext]_scanVars

-----------------------------------------------------------------------------
(***************************************************************************)
(* createConversationWindow throws for an empty window, for an id that     *)
(* occurs twice and for a message older than the one before it.            *)
(***************************************************************************)
ValidWindow(messages) ==
    /\ messages # <<>>
    /\ \A i, j \in DOMAIN messages :
         i < j => /\ messages[i] # messages[j]
                  /\ Sent[messages[i]] <= Sent[messages[j]]

Roles == [m \in Range(merged) |->
            IF m \in NeededParentIds THEN "context" ELSE "eligible"]

-----------------------------------------------------------------------------
(***************************************************************************)
(* After every iteration of the loop, whatever the order in which the      *)
(* store returns the messages, the array holds the first (or last) Limit   *)
(* candidates among the messages visited so far, and its root is the one   *)
(* to give up next.                                                        *)
(***************************************************************************)
BestSoFar ==
    pc = "scan" =>
      LET visited == {all[i] : i \in 1..ordinal}
      IN  /\ Range(selected) = Eligible(visited, command, checkpoint)
          /\ heapified => \A i \in DOMAIN selected :
                            ~BoundaryPrecedes(selected[i], selected[1])

(***************************************************************************)
(* What the loops produce is the window that SummaryWindow defines by      *)
(* sets: nothing is lost or doubled by the bounded heap or by the merge,   *)
(* eligible messages and reply parents are told apart, and                 *)
(* createConversationWindow never throws for a history in any order.       *)
(***************************************************************************)
WindowAsDefined ==
    pc = "done" =>
      LET window == SelectSummaryWindow(Range(all), command, checkpoint)
      IN  IF Eligible(Range(all), command, checkpoint) = {}
          THEN merged = <<>>
          ELSE /\ ValidWindow(merged)
               /\ {m \in DOMAIN Roles : Roles[m] = "eligible"} = window.eligible
               /\ {m \in DOMAIN Roles : Roles[m] = "context"} = window.context

(* Both: the loop keeps the right messages, and the window is made of them. *)
ScanInv == BestSoFar /\ WindowAsDefined

(***************************************************************************)
(* docs/architecture/mental-model.md, Window selection: a command for      *)
(* today filters by the start of its day.  The code compares with since    *)
(* for the catch-up command only, so that a command for today shows        *)
(* messages of other days.                                                 *)
(***************************************************************************)
TodayStartsAtMidnight ==
    (pc = "done" /\ command.mode = "today") =>
        \A m \in Range(selected) : Sent[m] >= Since(command)
=============================================================================
