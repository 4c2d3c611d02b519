------------------------------- MODULE Placement -------------------------------
(***************************************************************************)
(* Where the floating surfaces of the Mini App go: the context menu at a   *)
(* point (shared/context-menu/point-position.ts) and a popover at its      *)
(* anchor where the browser has no anchor positioning                      *)
(* (shared/popover/popover-position.ts).                                   *)
(*                                                                         *)
(* The axes of the screen are independent, and alike for a point; a popover*)
(* stands beside its anchor on the block axis and is flush with one of the *)
(* anchor's edges on the inline axis.  maxHeight is left out: it has no    *)
(* effect, because .context-menu-surface sets the custom property that     *)
(* carries it itself (context-menu.css:11).                                *)
(***************************************************************************)
EXTENDS Integers

CONSTANTS Extent       \* bound on the size of the viewport and of what is in it

ASSUME ExtentIsNat == Extent \in Nat

VARIABLES placing      \* what is placed, and where it has to go

(* A surface of some size, on an axis of a viewport of which the part from *)
(* low to high is free of margins and insets; at a point or an anchor of   *)
(* its own size, which may be in the margin or partly scrolled away.       *)
(* `flip' is the preference: before the anchor, or flush with its end.     *)
Placings ==
  [low : 0 .. Extent, high : 0 .. Extent, size : 0 .. Extent,
   at : -Extent .. Extent, anchor : 0 .. Extent, gap : 0 .. Extent, flip : BOOLEAN]

PlacementInit == placing \in Placings /\ placing.low <= placing.high

PlacementSpec == PlacementInit /\ [][UNCHANGED placing]_placing

-----------------------------------------------------------------------------
LargerOf(a, b) == IF a < b THEN b ELSE a
SmallerOf(a, b) == IF a < b THEN a ELSE b

(* Mutant: the limit does not take the surface's own size into account.    *)
ClampedToEdge(p, value) == SmallerOf(LargerOf(p.low, p.high), LargerOf(p.low, value))

(* clamp: a surface that does not fit starts at the low edge.              *)
Clamped(p, value) == SmallerOf(LargerOf(p.low, p.high - p.size), LargerOf(p.low, value))

(* resolvePointPlacement: after the point if there is room, or before it.  *)
PointPlacement(p) ==
  IF p.at + p.gap + p.size <= p.high THEN Clamped(p, p.at + p.gap)
                                     ELSE Clamped(p, p.at - p.size - p.gap)

(* positionFromAxes, on the block axis and on the inline axis.             *)
Beside(p, flip) == IF flip THEN p.at - p.gap - p.size ELSE p.at + p.anchor + p.gap
Flush(p, flip) == IF flip THEN p.at + p.anchor - p.size ELSE p.at

Within(p, start) == p.low <= start /\ start + p.size <= p.high

(* The end of resolvePopoverPosition: a surface that does not fit ends at  *)
(* the high edge.                                                          *)
Shifted(p, value) == SmallerOf(p.high - p.size, LargerOf(p.low, value))

(* resolvePopoverPosition: on the block axis the other side is taken when  *)
(* the preferred one overflows at its far end ...                          *)
BlockPlacement(p) ==
  LET overflows == IF p.flip THEN Beside(p, TRUE) < p.low ELSE Beside(p, FALSE) + p.size > p.high
  IN  Shifted(p, Beside(p, IF overflows THEN ~p.flip ELSE p.flip))

(* ... and on the inline axis when the preferred one overflows and it fits.*)
InlinePlacement(p) ==
  Shifted(p, Flush(p, IF ~Within(p, Flush(p, p.flip)) /\ Within(p, Flush(p, ~p.flip))
                      THEN ~p.flip ELSE p.flip))

-----------------------------------------------------------------------------
(* A surface that fits into the viewport is inside it on both of its ends, *)
(* at its edges and corners too, and it covers what it belongs to only if  *)
(* there is no room beside it on either side.                              *)
PlacedInside ==
  placing.size <= placing.high - placing.low =>
     /\ Within(placing, PointPlacement(placing))
     /\ Within(placing, BlockPlacement(placing))
     /\ Within(placing, InlinePlacement(placing))
     /\ \/ PointPlacement(placing) >= placing.at
        \/ PointPlacement(placing) + placing.size <= placing.at
        \/ placing.at - placing.gap - placing.size < placing.low
     /\ \/ BlockPlacement(placing) >= placing.at + placing.anchor
        \/ BlockPlacement(placing) + placing.size <= placing.at
        \/ ~Within(placing, Beside(placing, TRUE)) /\ ~Within(placing, Beside(placing, FALSE))
===============================================================================
