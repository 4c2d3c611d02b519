------------------------------ MODULE ContextMenu ------------------------------
(***************************************************************************)
(* The context menu of the Mini App: the controller of                     *)
(* shared/context-menu/create-context-menu.ts over the popover of          *)
(* shared/popover (popover-content.tsx, popover-root.tsx), whose visible   *)
(* state belongs to the browser.                                           *)
(*                                                                         *)
(* Effects run in the microtask after a handler, before any other event,   *)
(* and are part of the handler's step.  Timers, animation frames and the   *)
(* popover's toggle events come later, in any order.                       *)
(***************************************************************************)
EXTENDS Integers

CONSTANTS MaxRefusals    \* bound on native calls that are refused

ASSUME RefusalBound == MaxRefusals \in Nat

VARIABLES menu,          \* the signals open and point; suppressClick; open listeners
          press,         \* long press: the timer with its target, global listeners
          measure,       \* measureFrame, settleMeasureFrame and menuBounds
          popover        \* the native popover and PopoverContent's closure

menuVars == <<menu, press, measure, popover>>

(* Points of the screen; Nowhere stands for undefined.                     *)
Points == {1, 2}
Nowhere == 0
Hidden == -1              \* the rectangle of a panel that is not rendered

NoPress == [timer |-> FALSE, listeners |-> FALSE]
NoMeasure == [frame |-> FALSE, settle |-> FALSE, bounds |-> Nowhere, late |-> FALSE]
ClosedMenu == [open |-> FALSE, point |-> Nowhere, suppress |-> FALSE, listeners |-> FALSE]

MenuInit ==
  /\ menu = ClosedMenu /\ press = NoPress /\ measure = NoMeasure
  /\ popover = [rendered |-> FALSE, request |-> "none", toggle |-> FALSE, retry |-> FALSE,
                place |-> FALSE, placed |-> Nowhere, refusals |-> 0]

-----------------------------------------------------------------------------
(* PopoverContent                                                          *)

Request(open) == IF open THEN "open" ELSE "closed"

(* syncOpen: what it can lead to.  The native call dispatches beforetoggle,*)
(* which the controller accepts, and queues a toggle event; it may also be *)
(* refused as an InvalidStateError, to be tried again in a frame.          *)
SyncOpen(p, open) ==
  IF p.request = Request(open) \/ p.rendered = open THEN {p}
  ELSE { [p EXCEPT !.rendered = open, !.request = Request(open), !.toggle = TRUE] } \cup
       { q \in { [p EXCEPT !.request = "none", !.retry = TRUE, !.refusals = @ + 1] } :
         q.refusals <= MaxRefusals }

(* Mutant: the toggle event leaves the request in flight.                  *)
SettledNot(p) == [p EXCEPT !.toggle = FALSE, !.place = TRUE]

(* The toggle event: nothing is in flight; the fallback asks for a frame   *)
(* to place the panel.                                                     *)
Settled(p) == [p EXCEPT !.toggle = FALSE, !.request = "none", !.place = TRUE]

(* Its effects on a new point, and on a new value of open.                 *)
Follow(p, was, is) ==
  LET placing == [p EXCEPT !.place = @ \/ (is.point # Nowhere /\ is.point # was.point)]
  IN  IF was.open = is.open THEN {placing} ELSE SyncOpen(placing, is.open)

-----------------------------------------------------------------------------
(* createContextMenu                                                       *)

(* Mutant: the bounds measured for the activation before are kept.         *)
RemeasureKeepsBounds ==
  [frame |-> TRUE, settle |-> FALSE, bounds |-> measure.bounds,
   late |-> popover.toggle \/ popover.retry]

(* activate() forgets the bounds; its effect measures again, in the frame  *)
(* after the next.  `late' (history): a toggle event or a refused call was *)
(* still to come, or the panel was refused again before it was measured.   *)
Remeasure == [frame |-> TRUE, settle |-> FALSE, bounds |-> Nowhere,
              late |-> popover.toggle \/ popover.retry]

Activate(point, suppress) ==
  LET opened == [open |-> TRUE, point |-> point, suppress |-> suppress, listeners |-> TRUE] IN
  /\ press' = NoPress
  /\ menu' = opened
  /\ measure' = Remeasure
  /\ popover' \in Follow(popover, menu, opened)

(* close() with its effects; p is the popover as the caller left it.       *)
Close(p) ==
  /\ press' = NoPress
  /\ menu' = ClosedMenu
  /\ measure' = NoMeasure
  /\ popover' \in Follow(p, menu, ClosedMenu)

(* contextmenu, or Shift-F10, on a target.                                 *)
OnContextMenu == \E point \in Points : Activate(point, menu.suppress)

OnPointerDown ==
  /\ press' = [timer |-> TRUE, listeners |-> TRUE]
  /\ UNCHANGED <<menu, measure, popover>>

(* The finger moves, is lifted, or the browser takes the gesture.          *)
CancelPending ==
  /\ press.listeners
  /\ press' = NoPress
  /\ UNCHANGED <<menu, measure, popover>>

LongPress ==
  /\ press.timer
  /\ \E point \in Points : Activate(point, TRUE)

(* The mouse leaves the measured panel, or something scrolls.              *)
PointerExits == menu.open /\ measure.bounds # Nowhere /\ Close(popover)
OnScroll == menu.listeners /\ Close(popover)

(* The click that follows a long press is swallowed.                       *)
OnClick ==
  /\ menu.suppress
  /\ menu' = [menu EXCEPT !.suppress = FALSE]
  /\ UNCHANGED <<press, measure, popover>>

-----------------------------------------------------------------------------
(* The browser                                                             *)

(* Escape, a press outside, or hidePopover of an item: beforetoggle closes *)
(* the controller, whose effect finds the request in flight.               *)
LightDismiss ==
  /\ popover.rendered
  /\ LET hidden == [popover EXCEPT !.rendered = FALSE, !.toggle = TRUE,
                       !.request = IF @ = "none" THEN "closed" ELSE @]
     IN  IF menu.open THEN Close(hidden)
         ELSE popover' = hidden /\ UNCHANGED <<menu, press, measure>>

OnToggle ==
  /\ popover.toggle
  /\ popover' \in SyncOpen(Settled(popover), menu.open)
  /\ UNCHANGED <<menu, press, measure>>

(* An animation frame runs the callbacks asked for before it.              *)
MenuFrame ==
  /\ measure.frame \/ measure.settle \/ popover.retry \/ popover.place
  /\ \E p \in IF popover.retry THEN SyncOpen([popover EXCEPT !.retry = FALSE], menu.open)
              ELSE {popover} :
       /\ popover' = [p EXCEPT !.place = FALSE,
                        !.placed = IF popover.place /\ p.rendered /\ menu.open THEN menu.point ELSE @]
       /\ measure' = [frame |-> FALSE, settle |-> measure.frame,
                      late |-> measure.late \/ (measure.frame /\ p.retry),
                      bounds |-> IF ~measure.settle THEN measure.bounds
                                 ELSE IF popover.rendered THEN popover.placed ELSE Hidden]
  /\ UNCHANGED <<menu, press>>

MenuNext ==
  \/ OnContextMenu \/ OnPointerDown \/ CancelPending \/ LongPress
  \/ PointerExits \/ OnScroll \/ OnClick
  \/ LightDismiss \/ OnToggle \/ MenuFrame

MenuSpec ==
  /\ MenuInit /\ [][MenuNext]_menuVars
  /\ WF_menuVars(OnToggle) /\ WF_menuVars(MenuFrame)

-----------------------------------------------------------------------------
(* A closed menu leaves no listener, frame, measure or swallowed click     *)
(* behind, whatever closed it and whatever was under way; the bounds that  *)
(* decide whether the pointer left are those of the panel where it is now, *)
(* unless it was opened again before the browser was done with the change  *)
(* before, or the browser refused twice to open it.                        *)
MenuInv ==
  /\ ~menu.open => ~menu.listeners /\ ~menu.suppress /\ measure = NoMeasure
  /\ press.timer = press.listeners
  /\ ~measure.late => measure.bounds \in {Nowhere, menu.point}

(* Programmatic and native changes of the popover overtake each other, and *)
(* toggle events report them late: the popover always comes to agree with  *)
(* the controller again.                                                   *)
PopoverFollows == []<>(popover.rendered = menu.open)
=============================================================================
