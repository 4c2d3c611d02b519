------------------------------- MODULE SourceList -------------------------------
(***************************************************************************)
(* The list of source messages of a summary card                           *)
(* (components/AnimatedSourceList.tsx) in the window whose height is       *)
(* measured (components/source-window.ts), where the browser has no scroll *)
(* timelines.                                                              *)
(*                                                                         *)
(* Observers and events report changes; the work they cause is put off to  *)
(* one animation frame for each purpose, which reads the page again.  Some *)
(* changes are reported by nothing and wait for the next frame that is.    *)
(***************************************************************************)
EXTENDS Integers

CONSTANTS Items,         \* the <li> elements
          Lengths        \* bound on the lengths measured

ASSUME LengthsAreNat == Lengths \in Nat

VARIABLES mounted,       \* the list is in the page
          seen,          \* item -> what the IntersectionObserver told last
          visibility,    \* visibilityFrame and pendingVisibility
          inView,        \* item -> data-in-view
          motion,        \* item -> data-motion-active, and its fallback timer
          page,          \* what the browser would measure now, and unreported:
                         \* what changed with nothing to tell of it since measured
          gradients,     \* gradientFrame and the opacities drawn
          sized          \* frame, the cached insets and the height set

sourceVars == <<mounted, seen, visibility, inView, motion, page, gradients, sized>>
itemVars == <<seen, visibility, inView, motion>>
measureVars == <<page, gradients, sized>>

Measures == 0 .. Lengths
Nothing == [i \in {} |-> TRUE]
Least(a, b) == IF a < b THEN a ELSE b

(* sourceGradientOpacities, in units of EDGE_DISTANCE.                     *)
Opacities(scrollTop, maxScroll) ==
  [top |-> Least(Least(scrollTop, maxScroll), 1),
   bottom |-> Least(maxScroll - Least(scrollTop, maxScroll), 1)]

(* availableSourceWindowHeight: `room' is the viewport below the top of    *)
(* the window, which is read for every update; the insets are cached.      *)
AvailableHeight(room, insets) == IF room < insets THEN 0 ELSE room - insets

(* The list was just mounted: the gradients are transparent, nothing is in *)
(* view, and the height and the gradients are going to be measured.        *)
SourceInit ==
  /\ mounted = TRUE
  /\ seen = [i \in Items |-> FALSE] /\ inView = seen
  /\ visibility = [frame |-> FALSE, pending |-> Nothing]
  /\ motion = [i \in Items |-> [active |-> FALSE, timer |-> FALSE]]
  /\ page = [scrollTop |-> 0, maxScroll |-> Lengths, room |-> Lengths, insets |-> 0,
              moving |-> FALSE, unreported |-> {}]
  /\ gradients = [frame |-> TRUE, top |-> 0, bottom |-> 0]
  /\ sized = [frame |-> TRUE, needsInsets |-> TRUE, insets |-> 0, height |-> -1]

-----------------------------------------------------------------------------
(* The items                                                               *)

(* Mutant: the change is judged by the attribute alone.                    *)
IsStagedByAttribute(i) == inView[i]

(* What the item will show after the next frame.                           *)
IsStaged(i) == IF i \in DOMAIN visibility.pending THEN visibility.pending[i] ELSE inView[i]

Staged(i, isIntersecting) ==
  [j \in {i} \cup DOMAIN visibility.pending |->
     IF j = i THEN isIntersecting ELSE visibility.pending[j]]

(* An entry of the IntersectionObserver: stageVisibility.                  *)
StageVisibility(i, isIntersecting) ==
  /\ mounted
  /\ seen' = [seen EXCEPT ![i] = isIntersecting]
  /\ IF IsStaged(i) = isIntersecting THEN UNCHANGED <<visibility, motion>>
     ELSE /\ motion' = [motion EXCEPT ![i] = [active |-> TRUE, timer |-> TRUE]]
          /\ visibility' = [frame |-> TRUE, pending |-> Staged(i, isIntersecting)]
  /\ UNCHANGED <<mounted, inView, measureVars>>

VisibilityFrame ==
  /\ visibility.frame
  /\ inView' = [i \in Items |-> IsStaged(i)]
  /\ visibility' = [frame |-> FALSE, pending |-> Nothing]
  /\ UNCHANGED <<mounted, seen, motion, measureVars>>

AtRest == [active |-> FALSE, timer |-> FALSE]

(* transitionend of an item, possibly of a motion before the present one.  *)
TransitionEnd(i) ==
  /\ mounted /\ motion[i].active
  /\ motion' = [motion EXCEPT ![i] = AtRest]
  /\ UNCHANGED <<mounted, seen, visibility, inView, measureVars>>

(* The fallback, for a transition that never ended.                        *)
MotionTimeout(i) ==
  /\ motion[i].timer
  /\ motion' = [motion EXCEPT ![i] = AtRest]
  /\ UNCHANGED <<mounted, seen, visibility, inView, measureVars>>

-----------------------------------------------------------------------------
(* The gradients and the window                                            *)

(* The list is scrolled (onScroll), or its box changes (ResizeObserver).   *)
ListMoves ==
  /\ mounted
  /\ \E scrollTop, maxScroll \in Measures :
        page' = [page EXCEPT !.scrollTop = Least(scrollTop, maxScroll), !.maxScroll = maxScroll]
  /\ gradients' = [gradients EXCEPT !.frame = TRUE]
  /\ UNCHANGED <<mounted, itemVars, sized>>

(* The messages change their height in a box that stays: no observer tells,*)
(* and no scroll event if the list need not scroll back.                   *)
ContentChanges ==
  /\ mounted
  /\ \E maxScroll \in Measures :
        /\ page.scrollTop <= maxScroll
        /\ page' = [page EXCEPT !.maxScroll = maxScroll,
                                !.unreported = page.unreported \cup {"list"}]
  /\ UNCHANGED <<mounted, itemVars, gradients, sized>>

CommitGradients ==
  /\ gradients.frame
  /\ page' = [page EXCEPT !.unreported = page.unreported \ {"list"}]
  /\ LET drawn == Opacities(page.scrollTop, page.maxScroll) IN
     gradients' = [frame |-> FALSE, top |-> drawn.top, bottom |-> drawn.bottom]
  /\ UNCHANGED <<mounted, itemVars, sized>>

(* scheduleGeometry                                                        *)
ScheduleGeometry == [sized EXCEPT !.frame = TRUE, !.needsInsets = TRUE]

(* resize of the window or the visual viewport, or of what is above.       *)
Resize ==
  /\ mounted
  /\ \E room, insets \in Measures : page' = [page EXCEPT !.room = room, !.insets = insets]
  /\ sized' = ScheduleGeometry
  /\ UNCHANGED <<mounted, itemVars, gradients>>

(* The page scrolls under the viewport, and the window with it: the top of *)
(* the window moves, for which nothing listens.                            *)
PageScrolls ==
  /\ mounted
  /\ \E room \in Measures :
        page' = [page EXCEPT !.room = room, !.unreported = page.unreported \cup {"window"}]
  /\ UNCHANGED <<mounted, itemVars, gradients, sized>>

(* Telegram drags its viewport, and reports that it is stable again.       *)
ViewportMoves ==
  /\ mounted
  /\ \E room \in Measures : page' = [page EXCEPT !.room = room, !.moving = TRUE]
  /\ UNCHANGED <<mounted, itemVars, gradients, sized>>

ViewportIsStable ==
  /\ mounted /\ page.moving
  /\ page' = [page EXCEPT !.moving = FALSE]
  /\ sized' = ScheduleGeometry
  /\ UNCHANGED <<mounted, itemVars, gradients>>

MeasureWindow ==
  /\ sized.frame
  /\ page' = [page EXCEPT !.unreported = page.unreported \ {"window"}]
  /\ LET insets == IF sized.needsInsets THEN page.insets ELSE sized.insets IN
     sized' = [frame |-> FALSE, needsInsets |-> FALSE, insets |-> insets,
               height |-> AvailableHeight(page.room, insets)]
  /\ UNCHANGED <<mounted, itemVars, gradients>>

-----------------------------------------------------------------------------

(* The reader returns to the summary: every clean-up runs.                 *)
Unmount ==
  /\ mounted /\ mounted' = FALSE
  /\ visibility' = [frame |-> FALSE, pending |-> Nothing]
  /\ motion' = [i \in Items |-> [motion[i] EXCEPT !.timer = FALSE]]
  /\ gradients' = [gradients EXCEPT !.frame = FALSE]
  /\ sized' = [sized EXCEPT !.frame = FALSE]
  /\ UNCHANGED <<seen, inView, page>>

SourceNext ==
  \/ \E i \in Items :
        \/ \E isIntersecting \in BOOLEAN : StageVisibility(i, isIntersecting)
        \/ TransitionEnd(i) \/ MotionTimeout(i)
  \/ VisibilityFrame
  \/ ListMoves \/ ContentChanges \/ CommitGradients
  \/ Resize \/ PageScrolls \/ ViewportMoves \/ ViewportIsStable \/ MeasureWindow
  \/ Unmount

SourceSpec == SourceInit /\ [][SourceNext]_sourceVars

-----------------------------------------------------------------------------
(* Once no frame is due the page shows what was reported last, however many*)
(* reports the frame stood for and in whatever order they came, and also   *)
(* what changed unreported before it; a motion always has a timer to end   *)
(* it; and nothing of an unmounted list is still to run.                   *)
SourcesSettle ==
  IF mounted
  THEN /\ ~visibility.frame => inView = seen
       /\ \A i \in Items : motion[i].active => motion[i].timer
       /\ ~gradients.frame /\ "list" \notin page.unreported =>
             [top |-> gradients.top, bottom |-> gradients.bottom] = Opacities(page.scrollTop, page.maxScroll)
       /\ ~sized.frame /\ ~page.moving /\ "window" \notin page.unreported =>
             sized.height = AvailableHeight(page.room, page.insets)
  ELSE /\ ~visibility.frame /\ ~gradients.frame /\ ~sized.frame
       /\ \A i \in Items : ~motion[i].timer
=============================================================================
