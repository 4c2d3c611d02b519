------------------------------ MODULE Navigation ------------------------------
(***************************************************************************)
(* Navigation inside the Mini App: the client router over the browser's    *)
(* session history, and the one document-wide view transition that it      *)
(* shares with the message screens of the summary cards                    *)
(* (src/apps/cloudflare/src/wma/src/shared/navigation, routes/chat.tsx).   *)
(*                                                                         *)
(* The browser is external: it calls the update callback of a transition   *)
(* some time after startViewTransition returned, settles `ready' and       *)
(* `finished' later still, and goes on delivering clicks and popstate      *)
(* events in between.                                                      *)
(***************************************************************************)
EXTENDS Integers, Sequences

CONSTANTS MaxEntries,    \* bound on the session history
          MaxRuns        \* bound on the calls of transition.run

ASSUME NavigationBounds == MaxEntries \in Nat \ {0} /\ MaxRuns \in Nat

VARIABLES entries,       \* session history: a sequence of pages
          router,        \* the closure of useViewTransitionRouter
          shown,         \* the page in the DOM; its path is the signal pathname()
          scroll,        \* the window's offset, with the path it was scrolled on
          transitions,   \* every transition the browser was given, in order
          active,        \* the module's `active': a position in transitions, or None
          marks,         \* view-transition names and the motion of the document
          card,          \* a SummaryCard of the chat page
          runs           \* calls of run() so far (bound only)

navigationVars == <<entries, router, shown, scroll, transitions, active, marks, card, runs>>

None == 0
Pages == {"home", "chat A", "chat B"}
PathOf(page) == IF page = "home" THEN "/" ELSE "/chat"
Depth(page) == IF page = "home" THEN 0 ELSE 1

(* The page the address bar names.                                         *)
Here == entries[router.index]

Zero == [path |-> "/", y |-> 0]
Unmarked == [root |-> "", screen |-> "", motion |-> "none"]

(* A card shows the summary or its source messages.  Its block-size is     *)
(* "auto" or the height of a screen; `frame' is the height that the frame  *)
(* requested last will set.                                                *)
Screen(messages) == IF messages THEN "messages" ELSE "summary"
ClosedCard == [messages |-> FALSE, height |-> "auto", frame |-> "none"]

(* The document was just loaded at some entry.                             *)
NavigationInit ==
  /\ \E page \in Pages : entries = <<page>> /\ shown = page
  /\ scroll = [path |-> PathOf(shown), y |-> 0]
  /\ router = [index |-> 1, rendered |-> 1, positions |-> [i \in {1} |-> scroll]]
  /\ transitions = <<>> /\ active = None /\ marks = Unmarked /\ card = ClosedCard
  /\ runs = 0

-----------------------------------------------------------------------------
(* createViewTransition                                                    *)

RouteRun(page, index, offset) ==
  [owner |-> "route", page |-> page, index |-> index, y |-> offset.y,
   motion |-> IF Depth(page) < Depth(shown) THEN "pop" ELSE "push",
   stage |-> "capturing", cancelledBy |-> "nobody"]

CardRun(show) ==
  [owner |-> "card", messages |-> show, motion |-> IF show THEN "push" ELSE "pop",
   stage |-> "capturing", cancelledBy |-> "nobody"]

(* A route commits: Solid puts the page the location names into the DOM    *)
(* if the path changed, which unmounts the cards; then the entry counts as *)
(* rendered and its offset is restored.                                    *)
CommitRoute(r, t, location) ==
  /\ shown' = IF PathOf(t.page) = PathOf(shown) THEN shown
              ELSE IF t.page = "home" THEN "home" ELSE location
  /\ card' = IF shown' = shown THEN card ELSE ClosedCard
  /\ router' = [r EXCEPT !.rendered = t.index]
  /\ scroll' = [path |-> PathOf(shown'), y |-> t.y]

(* afterReady of a card that went to a screen, perhaps of another height:  *)
(* the old height is pinned until a frame sets the new one.                *)
MayPin(c, messages) == {c, [c EXCEPT !.height = Screen(~messages), !.frame = Screen(messages)]}

(* entry.cancel() of `active', by the run of an owner.                     *)
CancelActive(by) ==
  IF active = None THEN transitions ELSE [transitions EXCEPT ![active].cancelledBy = by]

(* run() that takes a snapshot: the root is not captured unless it is the  *)
(* surface, and the update waits for the browser.                          *)
Capture(t) ==
  /\ transitions' = Append(CancelActive(t.owner), t)
  /\ active' = Len(transitions')
  /\ marks' = [root   |-> IF t.owner = "route" THEN "route" ELSE "none",
               screen |-> IF t.owner = "card" THEN "route" ELSE "",
               motion |-> t.motion]

(* run() that commits at once: reduced motion, a hidden document, no       *)
(* browser support, or startViewTransition threw.                          *)
AtOnce(by) ==
  /\ transitions' = CancelActive(by)
  /\ active' = None /\ marks' = Unmarked

CountRun == runs < MaxRuns /\ runs' = runs + 1

-----------------------------------------------------------------------------
(* useViewTransitionRouter.  A handler leaves the router as r, moved to    *)
(* its new index, and then navigates.                                      *)

(* scrollPositions.set                                                     *)
SetPosition(positions, index, offset) ==
  [i \in {index} \cup DOMAIN positions |-> IF i = index THEN offset ELSE positions[i]]

RememberScroll == SetPosition(router.positions, router.rendered, scroll)

RunRoute(r, t, location) ==
  /\ CountRun
  /\ \/ Capture(t) /\ router' = r /\ UNCHANGED <<shown, scroll, card>>
     \/ AtOnce("route") /\ CommitRoute(r, t, location)

(* Mutant: a transition under way is left to run.                          *)
StayOnPathUncancelled(r, offset) ==
  /\ router' = [r EXCEPT !.rendered = r.index]
  /\ scroll' = [path |-> PathOf(shown), y |-> offset.y]
  /\ UNCHANGED <<transitions, active, marks, shown, card, runs>>

(* navigate() to the path that is shown already: only its own transition   *)
(* is cancelled, and the page stays.                                       *)
StayOnPath(r, offset) ==
  /\ IF active # None /\ transitions[active].owner = "route"
     THEN AtOnce("route") ELSE UNCHANGED <<transitions, active, marks>>
  /\ router' = [r EXCEPT !.rendered = r.index]
  /\ scroll' = [path |-> PathOf(shown), y |-> offset.y]
  /\ UNCHANGED <<shown, card, runs>>

Navigate(r, page, offset) ==
  IF PathOf(page) = PathOf(shown) THEN StayOnPath(r, offset)
  ELSE RunRoute(r, RouteRun(page, r.index, offset), page)

(* A click on a link of the page in the DOM.  A link to the path of the    *)
(* location is not taken by the router: it is dead if the location is the  *)
(* same, and otherwise loads a new document, which ends the model's run.   *)
HandleClick ==
  \E page \in Pages :
    /\ PathOf(page) # PathOf(shown)
    /\ PathOf(page) # PathOf(Here)
    /\ router.index < MaxEntries
    /\ LET index == router.index + 1
           kept  == [i \in {j \in DOMAIN RememberScroll : j < index} |-> RememberScroll[i]]
       IN  /\ entries' = Append(SubSeq(entries, 1, router.index), page)
           /\ Navigate([router EXCEPT !.index = index, !.positions = SetPosition(kept, index, Zero)],
                       page, Zero)

(* Back, Forward, or several steps at once.                                *)
HandlePopState ==
  \E index \in DOMAIN entries \ {router.index} :
    LET positions == RememberScroll IN
    /\ UNCHANGED entries
    /\ Navigate([router EXCEPT !.index = index, !.positions = positions], entries[index],
                IF index \in DOMAIN positions THEN positions[index] ELSE Zero)

(* The reader scrolls the page in the DOM.                                 *)
Scroll ==
  /\ scroll' = [path |-> PathOf(shown), y |-> 1 - scroll.y]
  /\ UNCHANGED <<entries, router, shown, transitions, active, marks, card, runs>>

(* The reader reloads: the index survives in the entry's state, the        *)
(* remembered offsets do not.                                              *)
Reload ==
  /\ shown' = Here /\ scroll' = [path |-> PathOf(Here), y |-> 0]
  /\ router' = [index |-> router.index, rendered |-> router.index,
                positions |-> [i \in {router.index} |-> scroll']]
  /\ transitions' = <<>> /\ active' = None /\ marks' = Unmarked /\ card' = ClosedCard
  /\ UNCHANGED <<entries, runs>>

-----------------------------------------------------------------------------
(* SummaryCard                                                             *)

(* clearAnimatedHeight                                                     *)
Unpinned(c) == [c EXCEPT !.height = "auto", !.frame = "none"]

(* Mutant: a height still pinned is left to its CSS transition.            *)
NavigateMessagesPinned ==
  /\ PathOf(shown) = "/chat" /\ CountRun
  /\ LET t == CardRun(~card.messages)
         done == [card EXCEPT !.messages = t.messages] IN
     \/ Capture(t) /\ UNCHANGED card
     \/ AtOnce("card") /\ card' \in MayPin(done, t.messages)
  /\ UNCHANGED <<entries, router, shown, scroll>>

(* The reader opens the source messages or returns to the summary.         *)
NavigateMessages ==
  /\ PathOf(shown) = "/chat" /\ CountRun
  /\ LET t == CardRun(~card.messages)
         cleared == Unpinned(card)
         done == [cleared EXCEPT !.messages = t.messages] IN
     \/ Capture(t) /\ card' = cleared
     \/ AtOnce("card") /\ card' = done
     \/ AtOnce("card") /\ card' \in MayPin(done, t.messages)  \* no startViewTransition
  /\ UNCHANGED <<entries, router, shown, scroll>>

AnimateHeight ==
  /\ card.frame # "none"
  /\ card' = [card EXCEPT !.height = card.frame, !.frame = "none"]
  /\ UNCHANGED <<entries, router, shown, scroll, transitions, active, marks, runs>>

(* transitionend of the height, or transitioncancel of anything inside.    *)
(* Neither is certain: no CSS transition starts where the old height and   *)
(* the new one are computed at once, without startViewTransition.          *)
FinishAnimatedHeight ==
  /\ card.height # "auto"
  /\ card' = Unpinned(card)
  /\ UNCHANGED <<entries, router, shown, scroll, transitions, active, marks, runs>>

-----------------------------------------------------------------------------
(* The browser                                                             *)

Cancelled(t) == t.cancelledBy # "nobody"

AtStage(i, stage) == transitions' = [transitions EXCEPT ![i].stage = stage]

(* Mutant: a cancelled transition still updates the page.                  *)
UpdateCallbackAnyway(i) ==
  LET t == transitions[i] IN
  /\ t.stage = "capturing" /\ AtStage(i, "updated")
  /\ IF t.owner = "route" THEN CommitRoute(router, t, Here)
     ELSE card' = [card EXCEPT !.messages = t.messages] /\ UNCHANGED <<shown, router, scroll>>
  /\ UNCHANGED <<entries, active, marks, runs>>

(* The update callback, which is called for skipped transitions too.       *)
UpdateCallback(i) ==
  LET t == transitions[i] IN
  /\ t.stage = "capturing" /\ AtStage(i, "updated")
  /\ IF Cancelled(t) THEN UNCHANGED <<shown, card, router, scroll>>
     ELSE IF t.owner = "route" THEN CommitRoute(router, t, Here)
     ELSE card' = [card EXCEPT !.messages = t.messages] /\ UNCHANGED <<shown, router, scroll>>
  /\ UNCHANGED <<entries, active, marks, runs>>

(* ready: never for a skipped transition, and not certain for another.     *)
Ready(i) ==
  LET t == transitions[i] IN
  /\ t.stage = "updated" /\ ~Cancelled(t) /\ AtStage(i, "ready")
  /\ IF active = i /\ t.owner = "card" THEN card' \in MayPin(card, t.messages) ELSE UNCHANGED card
  /\ UNCHANGED <<entries, router, shown, scroll, active, marks, runs>>

(* Mutant: the cleanup is left to transitions that became ready.           *)
FinishedIfReady(i) ==
  /\ transitions[i].stage \in {"updated", "ready"} /\ AtStage(i, "finished")
  /\ IF active = i /\ transitions[i].stage = "ready"
     THEN active' = None /\ marks' = Unmarked ELSE UNCHANGED <<active, marks>>
  /\ UNCHANGED <<entries, router, shown, scroll, card, runs>>

(* finished, with the cleanup of a transition that is still the active one.*)
Finished(i) ==
  /\ transitions[i].stage \in {"updated", "ready"} /\ AtStage(i, "finished")
  /\ IF active = i THEN active' = None /\ marks' = Unmarked ELSE UNCHANGED <<active, marks>>
  /\ UNCHANGED <<entries, router, shown, scroll, card, runs>>

BrowserStep == \E i \in DOMAIN transitions : UpdateCallback(i) \/ Ready(i) \/ Finished(i)

NavigationNext ==
  \/ HandleClick \/ HandlePopState \/ Scroll \/ Reload
  \/ NavigateMessages \/ AnimateHeight \/ FinishAnimatedHeight
  \/ BrowserStep

(* The browser calls back every transition it was given.  The reader owes  *)
(* nothing, and nobody owes the event that releases a pinned height.       *)
NavigationFairness == WF_navigationVars(BrowserStep)

NavigationSpec == NavigationInit /\ [][NavigationNext]_navigationVars /\ NavigationFairness

-----------------------------------------------------------------------------
(* Properties                                                              *)

RoutePending ==
  \E i \in DOMAIN transitions :
     transitions[i].owner = "route" /\ transitions[i].stage = "capturing" /\ ~Cancelled(transitions[i])

(* The messages of a card were opened between a navigation and its update: *)
(* the card's transition cancels the route's (view-transition.ts:20), which*)
(* then never updates.  The page that was left stays, and its link to the  *)
(* location's path is dead.                                                *)
RouteCutShort ==
  \E i \in DOMAIN transitions :
     /\ transitions[i].owner = "route" /\ transitions[i].cancelledBy = "card"
     /\ transitions[i].index = router.index

(* Whatever the order of clicks, history steps and browser callbacks, once *)
(* no navigation waits for its update the page of the location's path is   *)
(* in the DOM, unless a card cut the navigation short.                     *)
ShownFollows == RoutePending \/ RouteCutShort \/ PathOf(shown) = PathOf(Here)

(* A page enters the DOM only while the address bar names it: the update   *)
(* of a superseded navigation changes nothing.                             *)
NeverAnOldPage == [][shown' # shown => shown' = Here']_navigationVars

(* An offset remembered for an entry was scrolled on a page of that path,  *)
(* however quickly entries are traversed (view-transition-router.ts:104).  *)
ScrollKeptPerPage ==
  \A i \in DOMAIN router.positions :
     LET offset == router.positions[i] IN offset.y = 0 \/ offset.path = PathOf(entries[i])

(* Between transitions the reader is on the page of the address and finds  *)
(* it scrolled where he left it.                                           *)
NavigationInv == ShownFollows /\ ScrollKeptPerPage

(* A height is released by an event that may never come, so that what may  *)
(* stay pinned is, once its frame is drawn, the height of the screen on    *)
(* view: never of the screen that was left, however often the reader goes  *)
(* back and forth while transitions are under way.                         *)
PinnedIsShown ==
  card.height # "auto" =>
    Screen(card.messages) = IF card.frame = "none" THEN card.height ELSE card.frame

(* The names and the motion with which a transition marks the document,    *)
(* set by a call and removed by callbacks of which some belong to a later  *)
(* transition, are always removed.                                         *)
NavigationSettles == []<>(marks = Unmarked)
=============================================================================
