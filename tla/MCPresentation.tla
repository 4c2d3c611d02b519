----------------------------- MODULE MCPresentation -----------------------------
(***************************************************************************)
(* What readers of a summary have in front of them: the preview in a group *)
(* chat and the parts of the Mini App.  They share no state and no step of *)
(* one depends on another, so that a behaviour of one with the others at   *)
(* rest is all there is to check: `part' names the one that works.         *)
(***************************************************************************)
EXTENDS GroupPreview, Navigation, SummaryHistory, ChatPool, ContextMenu, SourceList, Placement

VARIABLE part

presentationVars ==
  <<part, groupVars, navigationVars, pagingVars, poolVars, menuVars, sourceVars, placing>>

\* Summaries, oldest first: two were recorded in the same millisecond.
MCTimes == <<1, 2, 2, 3>>

AtRestPlacing == [low |-> 0, high |-> 0, size |-> 0, at |-> 0, anchor |-> 0, gap |-> 0, flip |-> FALSE]

MCInit ==
  /\ part \in {"group", "navigation", "history", "pool", "menu", "items", "lengths", "placement"}
  /\ GroupInit /\ NavigationInit /\ HistoryInit /\ PoolInit /\ MenuInit /\ SourceInit /\ PlacementInit
  /\ shown = "home"
  /\ recorded \in IF part = "history" THEN {{1, 2, 3}, Ids} ELSE {{}}
  /\ part = "placement" \/ placing = AtRestPlacing

MCNext ==
  /\ UNCHANGED <<part, placing>>
  /\ part = "group" \/ UNCHANGED groupVars
  /\ part = "navigation" \/ UNCHANGED navigationVars
  /\ part = "history" \/ UNCHANGED pagingVars
  /\ part = "pool" \/ UNCHANGED poolVars
  /\ part = "menu" \/ UNCHANGED menuVars
  /\ part \in {"items", "lengths"} \/ UNCHANGED sourceVars
  /\ \/ part = "group" /\ GroupNext
     \/ part = "navigation" /\ NavigationNext
     \/ part = "history" /\ HistoryNext
     \/ part = "pool" /\ PoolNext
     \/ part = "menu" /\ MenuNext
     \/ part = "items" /\ SourceNext /\ UNCHANGED page      \* the items alone,
     \/ part = "lengths" /\ SourceNext /\ UNCHANGED seen     \* or what is measured

\* No fair action of a part is enabled while it is at rest.
MCSpec ==
  /\ MCInit /\ [][MCNext]_presentationVars
  /\ GroupFairness /\ NavigationFairness
  /\ WF_menuVars(OnToggle) /\ WF_menuVars(MenuFrame)
=============================================================================
