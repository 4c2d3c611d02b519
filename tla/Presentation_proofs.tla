------------------------- MODULE Presentation_proofs -------------------------
(***************************************************************************)
(* What readers of a summary have in front of them, for every bound: the   *)
(* preview in a group chat, and the navigation, the chat list, the context *)
(* menu, the source list and the placement of the Mini App.                *)
(***************************************************************************)
EXTENDS GroupPreview, Navigation, ChatPool, ContextMenu, SourceList, Placement,
        ConflatingWriter_proofs, FiniteSetTheorems

-----------------------------------------------------------------------------
(***************************************************************************)
(* The preview in a group chat: the session over the writer.               *)
(***************************************************************************)
S == INSTANCE ProgressiveSession_proofs WITH text <- streamed, published <- text

\* The session of the preview is the session that S speaks of.
LEMMA SameSession ==
    /\ Session!Init <=> S!Init
    /\ Session!SessionInv <=> S!SessionInv
    /\ Session!SessionInv' <=> S!SessionInv'
    /\ [Session!Next]_(Session!vars) <=> [S!Next]_(S!vars)
<1>1. Session!Init <=> S!Init
  BY DEF Session!Init, S!Init
<1>2. /\ Session!SessionInv <=> S!SessionInv
      /\ Session!SessionInv' <=> S!SessionInv'
  BY DEF Session!SessionInv, S!SessionInv, Session!SessionTypeOK, S!SessionTypeOK,
         Session!TransportSerialized, S!TransportSerialized, Session!CommitIsWhole,
         S!CommitIsWhole, Session!PreviewFollows, S!PreviewFollows,
         Session!States, S!States
<1>3. [Session!Next]_(Session!vars) <=> [S!Next]_(S!vars)
  BY DEF Session!vars, S!vars, Session!Next, S!Next, Session!Begin, S!Begin,
         Session!Append, S!Append, Session!TimerFires, S!TimerFires,
         Session!Finalize, S!Finalize, Session!Commit, S!Commit, Session!Fail, S!Fail,
         Session!UpdateAccepted, S!UpdateAccepted, Session!UpdateRejected,
         S!UpdateRejected, Session!CallAccepted, S!CallAccepted,
         Session!CallRejected, S!CallRejected, Session!Flush, S!Flush,
         Session!Set, S!Set, Session!preview, S!preview, Session!progress, S!progress,
         Session!CallerIdle, S!CallerIdle
<1>4. QED BY <1>1, <1>2, <1>3

\* The session starts within its invariant and stays there.
LEMMA GroupSession ==
    /\ Session!Init => Session!SessionInv
    /\ Session!SessionInv /\ [Session!Next]_(Session!vars) => Session!SessionInv'
<1>1. S!Init => S!SessionInv
  BY S!SessionInit, BoundsAssumption
<1>2. S!SessionInv /\ [S!Next]_(S!vars) => S!SessionInv'
  BY S!SessionStep, BoundsAssumption
<1>3. QED BY <1>1, <1>2, SameSession

(* How the two are coupled: the writer is ended by the session's last call,  *)
(* once, with the whole text, and the call returns what became of it.        *)
Coupled ==
    /\ ending # "no" => ended = ending
    /\ ended # "no" /\ ending = "no" => call = ended
    /\ ended # "no" /\ call = "none" => state \in {"completed", "failed"}
    /\ call = "commit" => streamed # 0
    /\ ending = "commit" => final.text = streamed
    /\ state = "completed" => ending = "commit" /\ writer.closed

GroupPreviewInv == WriterInv /\ Session!SessionInv /\ Coupled

\* A preview that nobody asked for is as the invariant says.
LEMMA GroupInitially == GroupInit => GroupPreviewInv
<1> SUFFICES ASSUME GroupInit PROVE GroupPreviewInv
  OBVIOUS
<1>1. WriterInv /\ Session!SessionInv
  BY InitWriter, GroupSession DEF GroupInit
<1>2. ending = "no" /\ ended = "no" /\ call = "none" /\ state = "idle"
  BY DEF GroupInit, Init, Session!Init
<1>3. QED BY <1>1, <1>2 DEF GroupPreviewInv, Coupled

\* Every step is one of the writer, or none, and one of the session, or none.
LEMMA GroupMoves ==
    ASSUME GroupPreviewInv, [GroupNext]_groupVars
    PROVE  [Next]_vars /\ [Session!Next]_(Session!vars)
<1> USE DEF Session!vars
<1>1. CASE SessionAlone
  <2>1. [Session!Next]_(Session!vars)
    BY <1>1 DEF SessionAlone, Session!Next
  <2>2. text' = text
    BY <1>1 DEF SessionAlone, Session!Begin, Session!TimerFires, Session!Finalize,
         Session!Commit, Session!Fail, Session!Append, Session!Flush, Session!Set,
         Session!preview
  <2>3. QED BY <1>1, <2>1, <2>2 DEF SessionAlone, sender, vars
<1>2. CASE HandOver
  <2>1. Session!Next
    BY <1>2 DEF HandOver, Session!Next
  <2>2. updating \in 1 .. MaxText
    BY <1>2, BoundsAssumption
       DEF HandOver, GroupPreviewInv, Session!SessionInv, Session!SessionTypeOK
  <2>3. QED BY <1>2, <2>1, <2>2 DEF HandOver, Next
<1>3. CASE Typing
  <2>1. Session!Next
    BY <1>3 DEF Typing, Session!Next
  <2>2. text' = text
    BY <1>3 DEF Typing, Session!CallAccepted, Session!CallRejected, Session!preview
  <2>3. QED BY <1>3, <2>1, <2>2 DEF Typing, sender, vars
<1>4. CASE Ends
  <2>1. call = "commit" => streamed \in 1 .. MaxText
    BY BoundsAssumption
       DEF GroupPreviewInv, Coupled, Session!SessionInv, Session!SessionTypeOK
  <2>2. Next
    BY <1>4, <2>1 DEF Ends, Next
  <2>3. text' = text /\ UNCHANGED session
    BY <1>4 DEF Ends, Commit, Fail, Finalize
  <2>4. QED BY <2>2, <2>3 DEF session
<1>5. CASE Ended
  <2>1. Session!Next
    BY <1>5 DEF Ended, Session!Next
  <2>2. text' = text
    BY <1>5 DEF Ended, Session!CallAccepted, Session!CallRejected, Session!preview
  <2>3. QED BY <1>5, <2>1, <2>2 DEF Ended, sender, vars
<1>6. CASE WriterDue
  <2>1. Next /\ UNCHANGED session
    BY <1>6 DEF WriterDue, Next
  <2>2. text' = text
    BY <1>6 DEF WriterDue, TimerFires, FinalProceeds, caller
  <2>3. QED BY <2>1, <2>2 DEF session
<1>7. ASSUME NEW i \in Issuers, WriterAlone(i)
      PROVE  [Next]_vars /\ [Session!Next]_(Session!vars)
  <2>1. Next /\ UNCHANGED session
    BY <1>7 DEF WriterAlone, Next
  <2>2. text' = text
    BY <1>7 DEF WriterAlone, Arrive, Answered, Failed, caller
  <2>3. QED BY <2>1, <2>2 DEF session
<1>8. CASE UNCHANGED groupVars
  BY <1>8 DEF groupVars, session, vars
<1>9. QED BY <1>1, <1>2, <1>3, <1>4, <1>5, <1>6, <1>7, <1>8 DEF GroupNext

\* Every step keeps the two coupled.
LEMMA CoupledStep ==
    ASSUME GroupPreviewInv, [GroupNext]_groupVars
    PROVE  Coupled'
<1> USE DEF Coupled
<1>1. /\ Coupled /\ WriterInv /\ Session!SessionInv
      /\ Phases
  BY DEF GroupPreviewInv, WriterInv
<1>2. CASE SessionAlone
  <2>1. UNCHANGED <<writer, final, ending>>
    BY <1>2 DEF SessionAlone, sender
  <2>2. ASSUME Session!Append(streamed') \/ Session!TimerFires \/ Session!Finalize
        PROVE  /\ ended = "no" /\ ended' = "no" /\ state' # "completed"
               /\ call' = "none"
    <3>1. state = "streaming" /\ ended = "no" /\ call = "none"
      BY <1>1, <2>2 DEF Session!Append, Session!TimerFires, Session!Finalize,
           Session!SessionInv, Session!SessionTypeOK
    <3>2. ended' = ended /\ call' = call /\ state' \in {state, "finalizing"}
      BY <2>2 DEF Session!Append, Session!TimerFires, Session!Finalize,
           Session!progress
    <3>3. QED BY <3>1, <3>2
  <2>3. CASE Session!Begin
    BY <1>1, <2>1, <2>3 DEF Session!Begin, Session!SessionInv
  <2>4. CASE Session!Commit
    BY <1>1, <2>1, <2>4 DEF Session!Commit, Session!SessionInv, Session!CallerIdle
  <2>5. CASE Session!Fail
    BY <1>1, <2>1, <2>5 DEF Session!Fail, Session!SessionInv, Session!CallerIdle
  <2>6. ASSUME NEW n \in 1 .. MaxText, Session!Append(n)
        PROVE  Session!Append(streamed')
    BY <2>6 DEF Session!Append
  <2>7. QED BY <1>1, <1>2, <2>1, <2>2, <2>3, <2>4, <2>5, <2>6 DEF SessionAlone
<1>3. CASE HandOver
  <2>1. ended = "no" /\ updating # 0 /\ ending' = ending
    BY <1>1, <1>3 DEF HandOver, Session!SessionInv, Update
  <2>2. /\ state' = state /\ streamed' = streamed
        /\ \/ ended' = ended /\ call' = call
           \/ awaiting \in {"commit", "fail"} /\ call' = awaiting /\ ended' = awaiting
    BY <1>3 DEF HandOver, Session!UpdateAccepted
  <2>3. state # "completed" /\ streamed # 0
    BY <1>1, <2>1, BoundsAssumption DEF Session!SessionInv, Session!SessionTypeOK
  <2>4. ending = "no"
    BY <1>1, <2>1
  <2>5. QED BY <1>1, <2>1, <2>2, <2>3, <2>4
<1>4. CASE Typing
  BY <1>1, <1>4 DEF Typing, sender, Session!CallAccepted, Session!CallRejected,
       Session!SessionInv
<1>5. CASE Ends
  <2>1. /\ UNCHANGED <<state, streamed, call, ended>>
        /\ ending = "no" /\ ended = call
    BY <1>1, <1>5 DEF Ends, session, Session!SessionInv
  <2>2. /\ call \in {"commit", "fail"} /\ ending' = call
        /\ call = "commit" => final'.text = streamed
    BY <1>5 DEF Ends, Commit, Fail, Finalize
  <2>3. state # "completed"
    BY <1>1, <2>1
  <2>4. QED BY <1>1, <2>1, <2>2, <2>3
<1>6. CASE Ended
  <2>1. UNCHANGED <<writer, final, ending, ended, streamed>> /\ call' = "none"
    BY <1>6 DEF Ended, sender, Session!CallAccepted, Session!CallRejected
  <2>2. \/ state' = "failed"
        \/ writer.closed /\ state' = IF call = "commit" THEN "completed" ELSE state
    BY <1>6 DEF Ended, Session!CallAccepted, Session!CallRejected
  <2>3. ending = call /\ (call = "fail" => state = "failed")
    BY <1>1, <1>6 DEF Ended, Session!SessionInv
  <2>4. QED BY <1>1, <1>6, <2>1, <2>2, <2>3 DEF Ended
<1>7. CASE WriterDue \/ \E i \in Issuers : WriterAlone(i)
  <2>1. UNCHANGED <<state, streamed, call, ended>>
    BY <1>7 DEF WriterDue, WriterAlone, session
  <2>2. ending' = ending /\ final'.text = final.text
    BY <1>1, <1>7 DEF WriterDue, WriterAlone, TimerFires, FinalProceeds, Arrive, Answered,
         Failed, PreviewEnds, FinalEnds, caller, WriterInv, WriterTypeOK
  <2>3. writer.closed => writer'.closed
    <3>1. SUFFICES ASSUME writer.closed PROVE writer'.closed
      OBVIOUS
    <3>2. /\ writer \in Writers /\ ~writer.timer
          /\ \A i \in Issuers : request[i].at = "none"
      BY <1>1, <3>1 DEF WriterInv, WriterTypeOK, FinalStands
    <3>3. CASE WriterDue
      <4>1. \/ writer' = [writer EXCEPT !.closed = TRUE]
            \/ writer' = writer
        BY <3>2, <3>3 DEF WriterDue, TimerFires, FinalProceeds
      <4>2. QED BY <3>1, <3>2, <4>1 DEF Writers
    <3>4. CASE \E i \in Issuers : WriterAlone(i)
      BY <3>2, <3>4 DEF WriterAlone, Arrive, Answered, Failed
    <3>5. QED BY <1>7, <3>3, <3>4
  <2>4. QED BY <1>1, <2>1, <2>2, <2>3
<1>8. CASE UNCHANGED groupVars
  BY <1>1, <1>8 DEF groupVars, session, vars
<1>9. QED BY <1>2, <1>3, <1>4, <1>5, <1>6, <1>7, <1>8 DEF GroupNext

\* What the two promise together follows.
LEMMA GroupInvFollows == GroupPreviewInv => GroupInv
<1> SUFFICES ASSUME GroupPreviewInv PROVE GroupInv
  OBVIOUS
<1>1. /\ FinalStands /\ Phases /\ Session!SessionInv /\ Coupled
  BY DEF GroupPreviewInv, WriterInv
<1>2. CompletedIsShown
  <2>1. SUFFICES ASSUME state = "completed"
                 PROVE  /\ writer.closed /\ final.text = streamed /\ updating = 0
    BY <1>1 DEF CompletedIsShown, FinalStands
  <2>2. ending = "commit" /\ writer.closed
    BY <1>1, <2>1 DEF Coupled
  <2>3. QED BY <1>1, <2>2 DEF Coupled, Session!SessionInv
<1>3. UpdatesAreTaken
  <2>1. SUFFICES ASSUME updating # 0
                 PROVE  ending = "no" /\ updating > text
    BY <1>1 DEF UpdatesAreTaken, Phases
  <2>2. ended = "no" /\ text < updating
    BY <1>1, <2>1 DEF Session!SessionInv
  <2>3. QED
    BY <1>1, <2>2, BoundsAssumption
       DEF Coupled, Session!SessionInv, Session!SessionTypeOK
<1>4. QED BY <1>2, <1>3 DEF GroupInv

\* The inductive step for the preview.
LEMMA GroupStep ==
    GroupPreviewInv /\ [GroupNext]_groupVars => GroupPreviewInv'
BY GroupMoves, CoupledStep, GroupSession, WriterStep DEF GroupPreviewInv

(* In a group chat a completed session has shown the whole summary, in the   *)
(* message that the receipt names, with nothing under way that could replace *)
(* it; and no update of the session is refused by the transport, so that a   *)
(* preview never prevents the delivery.                                      *)
THEOREM GroupSafe == FairGroupSpec => []GroupInv
BY GroupInitially, GroupStep, GroupInvFollows, PTL DEF FairGroupSpec

(* The preview in a group implements the session over any transport and the  *)
(* writer under any caller: what was proved of each alone holds of it.       *)
THEOREM GroupImplements == FairGroupSpec => WriterSpec /\ Session!SessionSpec
<1>1. GroupInit => Init /\ Session!Init
  BY DEF GroupInit
<1>2. GroupPreviewInv /\ [GroupNext]_groupVars
      => [Next]_vars /\ [Session!Next]_(Session!vars)
  BY GroupMoves
<1>3. QED
  BY <1>1, <1>2, GroupInitially, GroupStep, PTL
     DEF FairGroupSpec, WriterSpec, Session!SessionSpec

-----------------------------------------------------------------------------
(***************************************************************************)
(* Navigation: the page shown, the address and the offsets.                *)
(***************************************************************************)
Stages == {"capturing", "updated", "ready", "finished"}
Owners == {"nobody", "route", "card"}
Offsets == [path : {"/", "/chat"}, y : {0, 1}]
RouteRuns == [owner : {"route"}, page : Pages, index : Nat, y : {0, 1},
              motion : {"pop", "push"}, stage : Stages, cancelledBy : Owners]
CardRuns == [owner : {"card"}, messages : BOOLEAN, motion : {"pop", "push"},
             stage : Stages, cancelledBy : Owners]

NavigationTypes ==
  /\ entries \in Seq(Pages) /\ shown \in Pages /\ scroll \in Offsets
  /\ router = [index |-> router.index, rendered |-> router.rendered,
               positions |-> router.positions]
  /\ router.index \in DOMAIN entries /\ router.rendered \in DOMAIN entries
  /\ DOMAIN router.positions \subseteq DOMAIN entries
  /\ \A i \in DOMAIN router.positions : router.positions[i] \in Offsets
  /\ transitions \in Seq(RouteRuns \cup CardRuns)
  /\ active \in {None} \cup DOMAIN transitions

(* The page shown is the one of the entry that counts as rendered; when    *)
(* its path is the location's, the two entries are the same.               *)
RenderedInv ==
  /\ PathOf(shown) = PathOf(entries[router.rendered])
  /\ PathOf(shown) = PathOf(Here) => router.rendered = router.index
  /\ scroll.path = PathOf(shown)

Underway(t) == ~Cancelled(t) /\ t.stage # "finished"

(* A transition that may still change the page is the active one, and a    *)
(* route's is for the page of the location.                                *)
TransitionsInv ==
  \A i \in DOMAIN transitions :
    /\ Underway(transitions[i]) <=> i = active
    /\ i = active /\ transitions[i].owner = "route" /\ transitions[i].stage = "capturing"
         => transitions[i].index = router.index /\ transitions[i].page = Here

NavigationIndInv == NavigationTypes /\ RenderedInv /\ TransitionsInv /\ NavigationInv

(* The transitions that by' cut short stay cut short, and the one under    *)
(* way is cut short by it.                                                 *)
CutBy(by) ==
  \A i \in DOMAIN transitions : transitions[i].owner = "route" =>
    /\ i \in DOMAIN transitions' /\ transitions'[i].owner = "route"
    /\ transitions'[i].index = transitions[i].index
    /\ transitions[i].cancelledBy = "card" => transitions'[i].cancelledBy = "card"
    /\ i = active => transitions'[i].cancelledBy = by

\* Cancelling the active transition leaves none under way.
LEMMA CancelFacts ==
    ASSUME NavigationTypes, TransitionsInv, NEW by \in {"route", "card"}
    PROVE  /\ CancelActive(by) \in Seq(RouteRuns \cup CardRuns)
           /\ Len(CancelActive(by)) = Len(transitions) /\ Len(transitions) \in Nat
           /\ DOMAIN transitions = 1 .. Len(transitions)
           /\ \A i \in DOMAIN transitions :
                /\ ~Underway(CancelActive(by)[i])
                /\ CancelActive(by)[i].owner = transitions[i].owner
                /\ transitions[i].owner = "route"
                     => CancelActive(by)[i].index = transitions[i].index
                /\ transitions[i].cancelledBy = "card" => CancelActive(by)[i].cancelledBy = "card"
                /\ i = active => CancelActive(by)[i].cancelledBy = by
<1> DEFINE c == CancelActive(by)
           R == RouteRuns \cup CardRuns
<1>1. /\ transitions \in Seq(R) /\ active \in {None} \cup DOMAIN transitions
      /\ \A i \in DOMAIN transitions : Underway(transitions[i]) <=> i = active
  BY DEF NavigationTypes, TransitionsInv
<1>2. /\ Len(transitions) \in Nat /\ DOMAIN transitions = 1 .. Len(transitions)
      /\ \A i \in DOMAIN transitions : transitions[i] \in R
  BY <1>1
<1>3. CASE active = None
  <2>1. c = transitions /\ \A i \in DOMAIN transitions : i # active
    BY <1>2, <1>3 DEF CancelActive, None
  <2>2. QED BY <1>1, <1>2, <2>1
<1>4. CASE active # None
  <2> DEFINE t == [transitions[active] EXCEPT !.cancelledBy = by]
  <2>1. /\ c = [transitions EXCEPT ![active] = t]
        /\ active \in DOMAIN transitions
    BY <1>1, <1>4 DEF CancelActive
  <2>2. /\ t \in R /\ t.cancelledBy = by /\ t.owner = transitions[active].owner
        /\ t.owner = "route" => t.index = transitions[active].index
    <3>1. PICK x \in R : x = transitions[active]
      BY <1>2, <2>1
    <3>2. t = [x EXCEPT !.cancelledBy = by] /\ by \in Owners
      BY <3>1 DEF Owners
    <3> HIDE DEF t
    <3>3. CASE x \in RouteRuns
      BY <3>1, <3>2, <3>3 DEF RouteRuns
    <3>4. CASE x \in CardRuns
      BY <3>1, <3>2, <3>4 DEF CardRuns
    <3>5. QED BY <3>1, <3>3, <3>4
  <2>3. transitions[active].cancelledBy = "nobody" /\ ~Underway(t)
    BY <1>1, <2>1, <2>2 DEF Underway, Cancelled
  <2> HIDE DEF t, R
  <2>4. /\ c \in Seq(R) /\ Len(c) = Len(transitions)
        /\ c[active] = t
        /\ \A i \in DOMAIN transitions : i # active => c[i] = transitions[i]
    BY <1>1, <1>2, <2>1, <2>2
  <2> HIDE DEF c
  <2>5. ASSUME NEW i \in DOMAIN transitions
        PROVE  /\ ~Underway(c[i]) /\ c[i].owner = transitions[i].owner
               /\ transitions[i].owner = "route" => c[i].index = transitions[i].index
               /\ transitions[i].cancelledBy = "card" => c[i].cancelledBy = "card"
               /\ i = active => c[i].cancelledBy = by
    <3>1. CASE i = active
      BY <2>2, <2>3, <2>4, <3>1
    <3>2. CASE i # active
      BY <1>1, <2>4, <3>2
    <3>3. QED BY <3>1, <3>2
  <2>6. QED BY <1>2, <2>4, <2>5 DEF c, R
<1>5. QED BY <1>3, <1>4

\* A run that takes a snapshot is the one under way.
LEMMA CaptureFacts ==
    ASSUME NavigationTypes, TransitionsInv, NEW t \in RouteRuns \cup CardRuns,
           t.owner \in {"route", "card"}, t.stage = "capturing", t.cancelledBy = "nobody",
           Capture(t)
    PROVE  /\ transitions' \in Seq(RouteRuns \cup CardRuns)
           /\ active' \in DOMAIN transitions' /\ transitions'[active'] = t
           /\ \A i \in DOMAIN transitions' : Underway(transitions'[i]) <=> i = active'
           /\ CutBy(t.owner)
<1> DEFINE c == CancelActive(t.owner)
           R == RouteRuns \cup CardRuns
<1>1. transitions' = Append(c, t) /\ active' = Len(transitions')
  BY DEF Capture
<1>2. /\ c \in Seq(R) /\ Len(c) = Len(transitions) /\ Len(transitions) \in Nat
      /\ DOMAIN transitions = 1 .. Len(transitions)
      /\ \A i \in DOMAIN transitions :
           /\ ~Underway(c[i]) /\ c[i].owner = transitions[i].owner
           /\ transitions[i].owner = "route" => c[i].index = transitions[i].index
           /\ transitions[i].cancelledBy = "card" => c[i].cancelledBy = "card"
           /\ i = active => c[i].cancelledBy = t.owner
  BY CancelFacts
<1>3. Underway(t)
  BY DEF Underway, Cancelled
<1> HIDE DEF c, R
<1>4. /\ transitions' \in Seq(R) /\ Len(transitions') = Len(transitions) + 1
      /\ DOMAIN transitions' = 1 .. (Len(transitions) + 1)
      /\ transitions'[Len(transitions) + 1] = t
      /\ \A i \in DOMAIN transitions : transitions'[i] = c[i]
  BY <1>1, <1>2 DEF R
<1>5. active' = Len(transitions) + 1 /\ active' \in DOMAIN transitions'
  BY <1>1, <1>2, <1>4
<1>6. \A i \in DOMAIN transitions' : Underway(transitions'[i]) <=> i = active'
  <2> SUFFICES ASSUME NEW i \in DOMAIN transitions'
               PROVE  Underway(transitions'[i]) <=> i = active'
    OBVIOUS
  <2>1. CASE i = active'
    BY <1>3, <1>4, <1>5, <2>1
  <2>2. CASE i # active'
    <3>1. i \in DOMAIN transitions
      BY <1>2, <1>4, <1>5, <2>2
    <3>2. QED BY <1>2, <1>4, <2>2, <3>1
  <2>3. QED BY <2>1, <2>2
<1>7. CutBy(t.owner)
  <2>1. \A i \in DOMAIN transitions : i \in DOMAIN transitions'
    BY <1>2, <1>4
  <2>2. QED BY <1>2, <1>4, <2>1 DEF CutBy
<1>8. QED BY <1>1, <1>4, <1>5, <1>6, <1>7 DEF R

\* A run that commits at once leaves none under way.
LEMMA AtOnceFacts ==
    ASSUME NavigationTypes, TransitionsInv, NEW by \in {"route", "card"}, AtOnce(by)
    PROVE  /\ transitions' \in Seq(RouteRuns \cup CardRuns)
           /\ active' = None
           /\ \A i \in DOMAIN transitions' : ~Underway(transitions'[i]) /\ i # active'
           /\ CutBy(by)
<1>1. transitions' = CancelActive(by) /\ active' = None
  BY DEF AtOnce
<1>2. DOMAIN CancelActive(by) = DOMAIN transitions
  BY CancelFacts
<1>3. \A i \in DOMAIN transitions : i # None
  BY CancelFacts DEF None
<1>4. QED BY <1>1, <1>2, <1>3, CancelFacts DEF CutBy

(* What a handler hands to navigate: the router r at the entry of a page,  *)
(* with the offsets it remembered.                                         *)
Departs(r, to) ==
  /\ entries' \in Seq(Pages) /\ to \in Pages
  /\ r = [index |-> r.index, rendered |-> router.rendered, positions |-> r.positions]
  /\ r.index \in DOMAIN entries' /\ entries'[r.index] = to
  /\ router.rendered \in DOMAIN entries'
  /\ PathOf(entries'[router.rendered]) = PathOf(shown)
  /\ DOMAIN r.positions \subseteq DOMAIN entries'
  /\ \A i \in DOMAIN r.positions :
       /\ r.positions[i] \in Offsets
       /\ r.positions[i].y = 0 \/ r.positions[i].path = PathOf(entries'[i])

\* The paths of the pages.
LEMMA Paths == \A p \in Pages : PathOf(p) \in {"/", "/chat"} /\ (PathOf(p) = "/" <=> p = "home")
  BY DEF Pages, PathOf

\* A route's run, as it is handed to the browser.
LEMMA RouteRunType ==
    ASSUME NEW to \in Pages, NEW index \in Nat, NEW offset \in Offsets
    PROVE  /\ RouteRun(to, index, offset) \in RouteRuns
           /\ RouteRun(to, index, offset).index = index
           /\ RouteRun(to, index, offset).page = to
           /\ RouteRun(to, index, offset).y = offset.y
           /\ RouteRun(to, index, offset).owner = "route"
           /\ RouteRun(to, index, offset).stage = "capturing"
           /\ RouteRun(to, index, offset).cancelledBy = "nobody"
  BY DEF RouteRun, RouteRuns, Stages, Owners, Offsets

\* The router goes where the address went: at once, with the browser, or by staying.
LEMMA NavigateStep ==
    ASSUME NavigationIndInv, NEW r, NEW to, NEW offset \in Offsets,
           Departs(r, to), Navigate(r, to, offset)
    PROVE  NavigationIndInv' /\ (shown' = shown \/ shown' = Here')
<1> DEFINE t == RouteRun(to, r.index, offset)
           R == RouteRuns \cup CardRuns
<1>1. /\ NavigationTypes /\ RenderedInv /\ TransitionsInv
      /\ entries' \in Seq(Pages) /\ to \in Pages
      /\ r = [index |-> r.index, rendered |-> router.rendered, positions |-> r.positions]
      /\ r.index \in DOMAIN entries' /\ entries'[r.index] = to
      /\ router.rendered \in DOMAIN entries'
      /\ PathOf(entries'[router.rendered]) = PathOf(shown)
      /\ DOMAIN r.positions \subseteq DOMAIN entries'
      /\ \A i \in DOMAIN r.positions :
           /\ r.positions[i] \in Offsets
           /\ r.positions[i].y = 0 \/ r.positions[i].path = PathOf(entries'[i])
      /\ shown \in Pages /\ scroll \in Offsets /\ scroll.path = PathOf(shown)
      /\ active \in {None} \cup DOMAIN transitions
      /\ r.index \in Nat
  <2>1. /\ NavigationTypes /\ RenderedInv /\ TransitionsInv
        /\ shown \in Pages /\ scroll \in Offsets /\ scroll.path = PathOf(shown)
        /\ active \in {None} \cup DOMAIN transitions
    BY DEF NavigationIndInv, NavigationTypes, RenderedInv
  <2>2. r.index \in Nat
    BY DEF Departs
  <2>3. QED BY <2>1, <2>2 DEF Departs
<1>2. /\ t \in R /\ t.index = r.index /\ t.page = to /\ t.y = offset.y
      /\ t.owner = "route" /\ t.stage = "capturing" /\ t.cancelledBy = "nobody"
      /\ offset.y \in {0, 1}
  BY <1>1, RouteRunType DEF Offsets
\* It is enough to know the router, the page and the transitions.
<1>3. ASSUME router'.index = r.index, router'.positions = r.positions,
             router'.rendered \in {router.rendered, r.index},
             router' = [index |-> router'.index, rendered |-> router'.rendered,
                        positions |-> router'.positions],
             shown' \in Pages, PathOf(shown') = PathOf(entries'[router'.rendered]),
             PathOf(shown') = PathOf(to) => router'.rendered = r.index,
             scroll' \in Offsets, scroll'.path = PathOf(shown'),
             transitions' \in Seq(R), active' \in {None} \cup DOMAIN transitions',
             \A i \in DOMAIN transitions' :
               /\ Underway(transitions'[i]) <=> i = active'
               /\ i = active' /\ transitions'[i].owner = "route"
                    => transitions'[i].index = r.index /\ transitions'[i].page = to,
             PathOf(shown') = PathOf(to) \/ RoutePending'
      PROVE  NavigationIndInv' /\ Here' = to
  <2>1. Here' = to
    BY <1>1, <1>3 DEF Here
  <2>2. NavigationTypes'
    BY <1>1, <1>3 DEF NavigationTypes
  <2>3. RenderedInv'
    BY <1>3, <2>1 DEF RenderedInv
  <2>4. TransitionsInv'
    BY <1>3, <2>1 DEF TransitionsInv
  <2>5. ShownFollows'
    BY <1>3, <2>1 DEF ShownFollows
  <2>6. ScrollKeptPerPage'
    BY <1>1, <1>3 DEF ScrollKeptPerPage
  <2>7. QED BY <2>1, <2>2, <2>3, <2>4, <2>5, <2>6 DEF NavigationIndInv, NavigationInv
<1>4. CASE PathOf(to) = PathOf(shown)
  <2>1. StayOnPath(r, offset)
    BY <1>4 DEF Navigate
  <2>2. /\ router' = [r EXCEPT !.rendered = r.index]
        /\ scroll' = [path |-> PathOf(shown), y |-> offset.y]
        /\ shown' = shown
    BY <2>1 DEF StayOnPath
  <2>3. /\ router'.index = r.index /\ router'.rendered = r.index
        /\ router'.positions = r.positions
        /\ router' = [index |-> router'.index, rendered |-> router'.rendered,
                      positions |-> router'.positions]
    BY <1>1, <2>2
  <2>4. scroll' \in Offsets /\ scroll'.path = PathOf(shown')
    BY <1>1, <1>2, <2>2, Paths DEF Offsets
  <2>5. /\ transitions' \in Seq(R) /\ active' \in {None} \cup DOMAIN transitions'
        /\ \A i \in DOMAIN transitions' :
             /\ Underway(transitions'[i]) <=> i = active'
             /\ ~(i = active' /\ transitions'[i].owner = "route")
    <3>1. CASE active # None /\ transitions[active].owner = "route"
      <4>1. AtOnce("route")
        BY <2>1, <3>1 DEF StayOnPath
      <4>2. QED BY <1>1, <4>1, AtOnceFacts DEF R
    <3>2. CASE ~(active # None /\ transitions[active].owner = "route")
      <4>1. UNCHANGED <<transitions, active, marks>>
        BY <2>1, <3>2 DEF StayOnPath
      <4>2. \A i \in DOMAIN transitions : i # None
        BY <1>1 DEF NavigationTypes, None
      <4>3. QED BY <1>1, <3>2, <4>1, <4>2 DEF TransitionsInv, NavigationTypes, R
    <3>3. QED BY <3>1, <3>2
  <2>6. QED BY <1>1, <1>3, <1>4, <2>2, <2>3, <2>4, <2>5
<1>5. CASE PathOf(to) # PathOf(shown)
  <2>1. \/ Capture(t) /\ router' = r /\ UNCHANGED <<shown, scroll, card>>
        \/ AtOnce("route") /\ CommitRoute(r, t, to)
    BY <1>5 DEF Navigate, RunRoute
  <2>2. CASE Capture(t) /\ router' = r /\ UNCHANGED <<shown, scroll, card>>
    <3>1. /\ transitions' \in Seq(R)
          /\ active' \in DOMAIN transitions' /\ transitions'[active'] = t
          /\ \A i \in DOMAIN transitions' : Underway(transitions'[i]) <=> i = active'
      <4>1. t \in R /\ t.owner \in {"route", "card"} /\ Capture(t)
        BY <1>2, <2>2
      <4> HIDE DEF t, R
      <4>2. QED BY <1>1, <1>2, <4>1, CaptureFacts DEF R
    <3> HIDE DEF t, R
    <3>2. RoutePending'
      BY <1>2, <3>1 DEF RoutePending, Underway
    <3>3. QED BY <1>1, <1>2, <1>3, <1>5, <2>2, <3>1, <3>2
  <2>3. CASE AtOnce("route") /\ CommitRoute(r, t, to)
    <3>1. shown' = to
      BY <1>1, <1>2, <1>5, <2>3 DEF CommitRoute
    <3>2. router' = [r EXCEPT !.rendered = t.index] /\ scroll' = [path |-> PathOf(shown'), y |-> t.y]
      BY <2>3 DEF CommitRoute
    <3>3. /\ router'.index = r.index /\ router'.rendered = r.index
          /\ router'.positions = r.positions
          /\ router' = [index |-> router'.index, rendered |-> router'.rendered,
                        positions |-> router'.positions]
      BY <1>1, <1>2, <3>2
    <3>4. scroll' \in Offsets /\ scroll'.path = PathOf(shown')
      BY <1>1, <1>2, <3>1, <3>2, Paths DEF Offsets
    <3>5. /\ transitions' \in Seq(R) /\ active' = None
          /\ \A i \in DOMAIN transitions' : ~Underway(transitions'[i]) /\ i # active'
      BY <1>1, <2>3, AtOnceFacts
    <3> HIDE DEF t, R
    <3>6. NavigationIndInv' /\ Here' = to
      BY <1>1, <1>3, <3>1, <3>3, <3>4, <3>5
    <3>7. QED BY <3>1, <3>6
  <2>4. QED BY <2>1, <2>2, <2>3
<1>6. QED BY <1>4, <1>5

\* The offsets with the one of the page on view remembered.
LEMMA RememberFacts ==
    ASSUME NavigationIndInv
    PROVE  /\ DOMAIN RememberScroll \subseteq DOMAIN entries
           /\ \A i \in DOMAIN RememberScroll :
                /\ RememberScroll[i] \in Offsets
                /\ RememberScroll[i].y = 0 \/ RememberScroll[i].path = PathOf(entries[i])
<1>1. /\ scroll \in Offsets /\ router.rendered \in DOMAIN entries
      /\ DOMAIN router.positions \subseteq DOMAIN entries
      /\ \A i \in DOMAIN router.positions :
           /\ router.positions[i] \in Offsets
           /\ router.positions[i].y = 0 \/ router.positions[i].path = PathOf(entries[i])
      /\ scroll.path = PathOf(entries[router.rendered])
  BY DEF NavigationIndInv, NavigationTypes, RenderedInv, NavigationInv, ScrollKeptPerPage
<1>2. /\ DOMAIN RememberScroll = {router.rendered} \cup DOMAIN router.positions
      /\ \A i \in DOMAIN RememberScroll :
           RememberScroll[i] = IF i = router.rendered THEN scroll ELSE router.positions[i]
  BY DEF RememberScroll, SetPosition
<1>3. QED BY <1>1, <1>2

\* The router a handler moves to an entry.
LEMMA MovedRouter ==
    ASSUME NavigationTypes, NEW index, NEW positions
    PROVE  [router EXCEPT !.index = index, !.positions = positions]
             = [index |-> index, rendered |-> router.rendered, positions |-> positions]
<1>1. router = [index |-> router.index, rendered |-> router.rendered,
                positions |-> router.positions]
  BY DEF NavigationTypes
<1> DEFINE D == {router.index, router.rendered, index}
           r == [router EXCEPT !.index = index, !.positions = positions]
<1>2. router \in [index : D, rendered : D, positions : {router.positions}]
  BY <1>1
<1>3. index \in D
  OBVIOUS
<1> HIDE DEF D
<1>4. r \in [index : D, rendered : {router.rendered}, positions : {positions}]
  BY <1>2, <1>3
<1>5. r.index = index
  BY <1>2, <1>3
<1> HIDE DEF r
<1>6. r = [index |-> index, rendered |-> router.rendered, positions |-> positions]
  BY <1>4, <1>5
<1>7. QED BY <1>6 DEF r

\* Back and Forward.
LEMMA PopStateStep ==
    ASSUME NavigationIndInv, HandlePopState
    PROVE  NavigationIndInv' /\ (shown' = shown \/ shown' = Here')
<1>1. PICK index \in DOMAIN entries \ {router.index} :
        /\ UNCHANGED entries
        /\ Navigate([router EXCEPT !.index = index, !.positions = RememberScroll], entries[index],
                    IF index \in DOMAIN RememberScroll THEN RememberScroll[index] ELSE Zero)
  BY DEF HandlePopState
<1> DEFINE r == [router EXCEPT !.index = index, !.positions = RememberScroll]
           offset == IF index \in DOMAIN RememberScroll THEN RememberScroll[index] ELSE Zero
<1>2. /\ DOMAIN RememberScroll \subseteq DOMAIN entries
      /\ \A i \in DOMAIN RememberScroll :
           /\ RememberScroll[i] \in Offsets
           /\ RememberScroll[i].y = 0 \/ RememberScroll[i].path = PathOf(entries[i])
  BY RememberFacts
<1>3. offset \in Offsets
  BY <1>2 DEF Zero, Offsets
<1>4. /\ entries \in Seq(Pages) /\ router.rendered \in DOMAIN entries
      /\ router = [index |-> router.index, rendered |-> router.rendered,
                   positions |-> router.positions]
      /\ PathOf(entries[router.rendered]) = PathOf(shown)
  BY DEF NavigationIndInv, NavigationTypes, RenderedInv
<1>5. /\ r.index = index /\ r.positions = RememberScroll
      /\ r = [index |-> r.index, rendered |-> router.rendered, positions |-> r.positions]
  <2>1. NavigationTypes
    BY DEF NavigationIndInv
  <2>2. r = [index |-> index, rendered |-> router.rendered, positions |-> RememberScroll]
    BY <2>1, MovedRouter
  <2> HIDE DEF r
  <2>3. QED BY <2>2
<1> HIDE DEF r, offset
<1>6. Departs(r, entries[index])
  BY <1>1, <1>2, <1>4, <1>5 DEF Departs
<1>7. Navigate(r, entries[index], offset)
  BY <1>1 DEF r, offset
<1>8. QED BY <1>3, <1>6, <1>7, NavigateStep

\* A click: the entry on view is the location's, so that it survives the push.
LEMMA ClickStep ==
    ASSUME NavigationIndInv, HandleClick
    PROVE  NavigationIndInv' /\ (shown' = shown \/ shown' = Here')
<1> DEFINE next == router.index + 1
           kept == [i \in {j \in DOMAIN RememberScroll : j < next} |-> RememberScroll[i]]
           r == [router EXCEPT !.index = next, !.positions = SetPosition(kept, next, Zero)]
<1>1. PICK to \in Pages :
        /\ PathOf(to) # PathOf(shown) /\ PathOf(to) # PathOf(Here)
        /\ entries' = Append(SubSeq(entries, 1, router.index), to)
        /\ Navigate(r, to, Zero)
  BY DEF HandleClick
<1>2. /\ DOMAIN RememberScroll \subseteq DOMAIN entries
      /\ \A i \in DOMAIN RememberScroll :
           /\ RememberScroll[i] \in Offsets
           /\ RememberScroll[i].y = 0 \/ RememberScroll[i].path = PathOf(entries[i])
  BY RememberFacts
<1>3. /\ entries \in Seq(Pages) /\ router.rendered \in DOMAIN entries
      /\ router.index \in DOMAIN entries /\ shown \in Pages
      /\ router = [index |-> router.index, rendered |-> router.rendered,
                   positions |-> router.positions]
      /\ PathOf(entries[router.rendered]) = PathOf(shown)
      /\ PathOf(shown) = PathOf(Here) => router.rendered = router.index
  BY DEF NavigationIndInv, NavigationTypes, RenderedInv
<1>4. Zero \in Offsets /\ Zero.y = 0
  BY DEF Zero, Offsets
<1>5. router.rendered = router.index
  <2>1. Here \in Pages
    BY <1>3 DEF Here
  <2>2. PathOf(shown) = PathOf(Here)
    BY <1>1, <1>3, <2>1, Paths
  <2>3. QED BY <1>3, <2>2
<1>6. /\ r.index = next /\ r.positions = SetPosition(kept, next, Zero)
      /\ r = [index |-> r.index, rendered |-> router.rendered, positions |-> r.positions]
  <2>1. NavigationTypes
    BY DEF NavigationIndInv
  <2>2. r = [index |-> next, rendered |-> router.rendered,
             positions |-> SetPosition(kept, next, Zero)]
    BY <2>1, MovedRouter
  <2> HIDE DEF r
  <2>3. QED BY <2>2
<1>7. /\ router.index \in Nat \ {0} /\ router.index <= Len(entries) /\ Len(entries) \in Nat
      /\ DOMAIN entries = 1 .. Len(entries)
  BY <1>3
<1>8. /\ entries' \in Seq(Pages) /\ DOMAIN entries' = 1 .. next
      /\ entries'[next] = to
      /\ \A i \in 1 .. router.index : entries'[i] = entries[i]
  <2> DEFINE s == SubSeq(entries, 1, router.index)
  <2>1. /\ s \in Seq(Pages) /\ Len(s) = router.index
        /\ \A i \in 1 .. router.index : s[i] = entries[i]
    BY <1>3, <1>7
  <2> HIDE DEF s
  <2>2. entries' = Append(s, to)
    BY <1>1 DEF s
  <2>3. QED BY <1>7, <2>1, <2>2
<1>9. /\ DOMAIN r.positions \subseteq 1 .. next
      /\ \A i \in DOMAIN r.positions :
           IF i = next THEN r.positions[i] = Zero
           ELSE /\ i \in DOMAIN RememberScroll /\ i \in 1 .. router.index
                /\ r.positions[i] = RememberScroll[i]
  <2>1. /\ DOMAIN kept = {j \in DOMAIN RememberScroll : j < next}
        /\ \A i \in DOMAIN kept : kept[i] = RememberScroll[i]
    OBVIOUS
  <2>2. /\ DOMAIN r.positions = {next} \cup DOMAIN kept
        /\ \A i \in DOMAIN r.positions : r.positions[i] = IF i = next THEN Zero ELSE kept[i]
    BY <1>6 DEF SetPosition
  <2> HIDE DEF kept, r
  <2>3. \A i \in DOMAIN kept : i \in DOMAIN RememberScroll /\ i \in 1 .. router.index
    BY <1>2, <1>7, <2>1
  <2>4. next \in 1 .. next /\ 1 .. router.index \subseteq 1 .. next
    BY <1>7
  <2>5. QED BY <2>1, <2>2, <2>3, <2>4
<1> HIDE DEF kept, r
<1>10. \A i \in DOMAIN r.positions :
         /\ r.positions[i] \in Offsets
         /\ r.positions[i].y = 0 \/ r.positions[i].path = PathOf(entries'[i])
  BY <1>2, <1>4, <1>8, <1>9
<1>11. /\ router.rendered \in DOMAIN entries'
       /\ entries'[router.rendered] = entries[router.rendered]
       /\ next \in DOMAIN entries'
  BY <1>5, <1>7, <1>8
<1>12. Departs(r, to)
  <2>1. r.index \in DOMAIN entries' /\ entries'[r.index] = to
    BY <1>6, <1>8, <1>11
  <2>2. DOMAIN r.positions \subseteq DOMAIN entries'
    BY <1>8, <1>9
  <2>3. PathOf(entries'[router.rendered]) = PathOf(shown)
    BY <1>3, <1>11
  <2>4. r = [index |-> r.index, rendered |-> router.rendered, positions |-> r.positions]
    BY <1>6
  <2>5. QED BY ONLY <1>1, <1>8, <1>10, <1>11, <2>1, <2>2, <2>3, <2>4 DEF Departs
<1>13. QED BY <1>1, <1>4, <1>12, NavigateStep

\* A phase of one transition.
LEMMA PhaseFacts ==
    ASSUME NavigationTypes, NEW i \in DOMAIN transitions, NEW s \in Stages, AtStage(i, s)
    PROVE  /\ transitions' \in Seq(RouteRuns \cup CardRuns)
           /\ DOMAIN transitions' = DOMAIN transitions
           /\ transitions'[i].stage = s
           /\ \A j \in DOMAIN transitions :
                /\ j # i => transitions'[j] = transitions[j]
                /\ transitions'[j].owner = transitions[j].owner
                /\ transitions'[j].cancelledBy = transitions[j].cancelledBy
                /\ transitions[j].owner = "route" => /\ transitions'[j].index = transitions[j].index
                                                     /\ transitions'[j].page = transitions[j].page
<1> DEFINE R == RouteRuns \cup CardRuns
<1>1. /\ transitions \in Seq(R)
      /\ transitions' = [transitions EXCEPT ![i].stage = s]
  BY DEF NavigationTypes, AtStage
<1>2. PICK x \in R : x = transitions[i]
  BY <1>1
<1> DEFINE u == [x EXCEPT !.stage = s]
<1>3. /\ u \in R /\ u.stage = s /\ u.owner = x.owner /\ u.cancelledBy = x.cancelledBy
      /\ x.owner = "route" => u.index = x.index /\ u.page = x.page
  <2>1. CASE x \in RouteRuns
    BY <1>2, <2>1 DEF RouteRuns
  <2>2. CASE x \in CardRuns
    BY <1>2, <2>2 DEF CardRuns
  <2>3. QED BY <1>2, <2>1, <2>2
<1>4. transitions' = [transitions EXCEPT ![i] = u]
  BY <1>1, <1>2
<1> HIDE DEF R, u
<1>5. /\ transitions' \in Seq(R) /\ DOMAIN transitions' = DOMAIN transitions
      /\ transitions'[i] = u
      /\ \A j \in DOMAIN transitions : j # i => transitions'[j] = transitions[j]
  BY <1>1, <1>3, <1>4
<1>6. ASSUME NEW j \in DOMAIN transitions
      PROVE  /\ transitions'[j].owner = transitions[j].owner
             /\ transitions'[j].cancelledBy = transitions[j].cancelledBy
             /\ transitions[j].owner = "route" => /\ transitions'[j].index = transitions[j].index
                                                  /\ transitions'[j].page = transitions[j].page
  <2>1. CASE j = i
    BY <1>2, <1>3, <1>5, <2>1
  <2>2. CASE j # i
    BY <1>5, <2>2
  <2>3. QED BY <2>1, <2>2
<1>7. transitions'[i].stage = s
  BY <1>3, <1>5
<1>8. QED BY ONLY <1>5, <1>6, <1>7 DEF R

\* Unless the page changes, a step keeps what a card cut short.
LEMMA StillCutShort ==
    ASSUME RouteCutShort, NEW by, CutBy(by), router'.index = router.index
    PROVE  RouteCutShort'
<1>1. PICK i \in DOMAIN transitions :
        /\ transitions[i].owner = "route" /\ transitions[i].cancelledBy = "card"
        /\ transitions[i].index = router.index
  BY DEF RouteCutShort
<1>2. QED BY <1>1 DEF CutBy, RouteCutShort

\* A page that stays with its entry, while transitions are cut short or move on.
LEMMA StayingStep ==
    ASSUME NavigationIndInv, UNCHANGED <<entries, router, shown>>,
           scroll' \in Offsets, scroll'.path = PathOf(shown),
           transitions' \in Seq(RouteRuns \cup CardRuns),
           active' \in {None} \cup DOMAIN transitions',
           \A i \in DOMAIN transitions' :
             /\ Underway(transitions'[i]) <=> i = active'
             /\ i = active' /\ transitions'[i].owner = "route"
                            /\ transitions'[i].stage = "capturing"
                  => transitions'[i].index = router.index /\ transitions'[i].page = Here,
           ShownFollows'
    PROVE  NavigationIndInv'
<1>1. NavigationTypes /\ RenderedInv /\ ScrollKeptPerPage
  BY DEF NavigationIndInv, NavigationInv
<1>2. Here' = Here
  BY DEF Here
<1>3. NavigationTypes'
  BY <1>1 DEF NavigationTypes
<1>4. RenderedInv' /\ TransitionsInv' /\ ScrollKeptPerPage'
  BY <1>1, <1>2 DEF RenderedInv, TransitionsInv, ScrollKeptPerPage
<1>5. QED BY <1>3, <1>4 DEF NavigationIndInv, NavigationInv

\* The reader opens the messages of a card: a route under way is cut short.
LEMMA MessagesStep ==
    ASSUME NavigationIndInv, NavigateMessages
    PROVE  NavigationIndInv' /\ shown' = shown
<1> DEFINE t == CardRun(~card.messages)
           R == RouteRuns \cup CardRuns
<1>1. /\ NavigationTypes /\ RenderedInv /\ TransitionsInv /\ ShownFollows
      /\ UNCHANGED <<entries, router, shown, scroll>>
      /\ scroll \in Offsets /\ scroll.path = PathOf(shown)
      /\ Capture(t) \/ AtOnce("card")
  BY DEF NavigationIndInv, NavigationTypes, RenderedInv, NavigationInv, NavigateMessages
<1>2. /\ t \in R /\ t.owner = "card" /\ t.stage = "capturing" /\ t.cancelledBy = "nobody"
  <2>1. (~card.messages) \in BOOLEAN
    OBVIOUS
  <2>2. t.owner = "card" /\ t.stage = "capturing" /\ t.cancelledBy = "nobody"
    BY DEF CardRun
  <2>3. t \in CardRuns
    BY <2>1 DEF CardRun, CardRuns, Stages, Owners
  <2>4. QED BY <2>2, <2>3
<1> HIDE DEF t, R
<1>3. /\ transitions' \in Seq(R) /\ active' \in {None} \cup DOMAIN transitions'
      /\ \A i \in DOMAIN transitions' :
           /\ Underway(transitions'[i]) <=> i = active'
           /\ ~(i = active' /\ transitions'[i].owner = "route")
      /\ CutBy("card")
  <2>1. CASE Capture(t)
    <3>1. /\ transitions' \in Seq(R)
          /\ active' \in DOMAIN transitions' /\ transitions'[active'] = t
          /\ \A i \in DOMAIN transitions' : Underway(transitions'[i]) <=> i = active'
          /\ CutBy(t.owner)
      BY <1>1, <1>2, <2>1, CaptureFacts DEF R
    <3>2. QED BY <1>2, <3>1
  <2>2. CASE AtOnce("card")
    BY <1>1, <2>2, AtOnceFacts DEF R
  <2>3. QED BY <1>1, <2>1, <2>2
<1>4. ShownFollows'
  <2>1. CASE RoutePending
    <3>1. PICK i \in DOMAIN transitions :
            /\ transitions[i].owner = "route" /\ transitions[i].stage = "capturing"
            /\ ~Cancelled(transitions[i])
      BY <2>1 DEF RoutePending
    <3>2. i = active /\ transitions[i].index = router.index
      BY <1>1, <3>1 DEF TransitionsInv, Underway
    <3>3. RouteCutShort'
      BY <1>1, <1>3, <3>1, <3>2 DEF CutBy, RouteCutShort
    <3>4. QED BY <3>3 DEF ShownFollows
  <2>2. CASE RouteCutShort
    BY <1>1, <1>3, <2>2, StillCutShort DEF ShownFollows
  <2>3. CASE PathOf(shown) = PathOf(Here)
    BY <1>1, <2>3 DEF ShownFollows, Here
  <2>4. QED BY <1>1, <2>1, <2>2, <2>3 DEF ShownFollows
<1>5. QED BY <1>1, <1>3, <1>4, StayingStep DEF R

\* A phase keeps which routes are cut short, and whether one waits.
LEMMA PhaseStep ==
    ASSUME NavigationIndInv, NEW i \in DOMAIN transitions, NEW s \in Stages \ {"capturing"},
           AtStage(i, s), UNCHANGED <<entries, router, shown, scroll>>,
           \/ s # "finished" /\ active' = active
              /\ transitions[i].stage # "finished"
              /\ (transitions[i].stage = "capturing" =>
                    transitions[i].owner # "route" \/ Cancelled(transitions[i]))
           \/ s = "finished" /\ active' = (IF active = i THEN None ELSE active)
              /\ transitions[i].stage # "capturing"
    PROVE  NavigationIndInv'
<1>1. /\ NavigationTypes /\ RenderedInv /\ TransitionsInv /\ ShownFollows
      /\ scroll \in Offsets /\ scroll.path = PathOf(shown)
      /\ active \in {None} \cup DOMAIN transitions
      /\ transitions \in Seq(RouteRuns \cup CardRuns)
  BY DEF NavigationIndInv, NavigationTypes, RenderedInv, NavigationInv
<1>2. /\ transitions' \in Seq(RouteRuns \cup CardRuns)
      /\ DOMAIN transitions' = DOMAIN transitions
      /\ transitions'[i].stage = s
      /\ \A j \in DOMAIN transitions :
           /\ j # i => transitions'[j] = transitions[j]
           /\ transitions'[j].owner = transitions[j].owner
           /\ transitions'[j].cancelledBy = transitions[j].cancelledBy
           /\ transitions[j].owner = "route" => /\ transitions'[j].index = transitions[j].index
                                                /\ transitions'[j].page = transitions[j].page
  BY <1>1, PhaseFacts
<1>3. \A j \in DOMAIN transitions : j # None
  BY <1>1 DEF None
<1>4. active' \in {None} \cup DOMAIN transitions'
  BY <1>1, <1>2
<1>5. ASSUME NEW j \in DOMAIN transitions
      PROVE  /\ Underway(transitions'[j]) <=> j = active'
             /\ j = active' /\ transitions'[j].owner = "route"
                            /\ transitions'[j].stage = "capturing"
                  => transitions'[j].index = router.index /\ transitions'[j].page = Here
  <2>1. CASE j # i
    BY <1>1, <1>2, <1>3, <2>1 DEF TransitionsInv
  <2>2. CASE j = i
    <3>1. transitions'[j].stage # "capturing"
      BY <1>2, <2>2
    <3>2. Underway(transitions'[j]) <=> ~Cancelled(transitions[j]) /\ s # "finished"
      BY <1>2, <2>2 DEF Underway, Cancelled
    <3>3. CASE s # "finished"
      BY <1>1, <2>2, <3>1, <3>2, <3>3 DEF TransitionsInv, Underway
    <3>4. CASE s = "finished"
      BY <1>3, <2>2, <3>1, <3>2, <3>4
    <3>5. QED BY <3>3, <3>4
  <2>3. QED BY <2>1, <2>2
<1>6. ShownFollows'
  <2>1. CASE RoutePending
    <3>1. PICK j \in DOMAIN transitions :
            /\ transitions[j].owner = "route" /\ transitions[j].stage = "capturing"
            /\ ~Cancelled(transitions[j])
      BY <2>1 DEF RoutePending
    <3>2. j # i
      BY <3>1
    <3>3. transitions'[j] = transitions[j] /\ j \in DOMAIN transitions'
      BY <1>2, <3>2
    <3>4. RoutePending'
      BY <3>1, <3>3 DEF RoutePending
    <3>5. QED BY <3>4 DEF ShownFollows
  <2>2. CASE RouteCutShort
    <3>1. PICK j \in DOMAIN transitions :
            /\ transitions[j].owner = "route" /\ transitions[j].cancelledBy = "card"
            /\ transitions[j].index = router.index
      BY <2>2 DEF RouteCutShort
    <3>2. /\ transitions'[j].owner = "route" /\ transitions'[j].cancelledBy = "card"
          /\ transitions'[j].index = router.index /\ j \in DOMAIN transitions'
      BY <1>2, <3>1
    <3>3. RouteCutShort'
      BY <3>2 DEF RouteCutShort
    <3>4. QED BY <3>3 DEF ShownFollows
  <2>3. CASE PathOf(shown) = PathOf(Here)
    BY <2>3 DEF ShownFollows, Here
  <2>4. QED BY <1>1, <2>1, <2>2, <2>3 DEF ShownFollows
<1>7. QED BY <1>1, <1>2, <1>4, <1>5, <1>6, StayingStep

\* The update callback of a route that was not superseded.
LEMMA CommitStep ==
    ASSUME NavigationIndInv, NEW i \in DOMAIN transitions,
           transitions[i].stage = "capturing", ~Cancelled(transitions[i]),
           transitions[i].owner = "route", AtStage(i, "updated"),
           CommitRoute(router, transitions[i], Here), UNCHANGED <<entries, active>>
    PROVE  NavigationIndInv' /\ (shown' = shown \/ shown' = Here')
<1> DEFINE t == transitions[i]
<1>1. /\ NavigationTypes /\ RenderedInv /\ TransitionsInv /\ ScrollKeptPerPage
      /\ entries \in Seq(Pages) /\ shown \in Pages
      /\ router = [index |-> router.index, rendered |-> router.rendered,
                   positions |-> router.positions]
      /\ router.index \in DOMAIN entries
      /\ active \in {None} \cup DOMAIN transitions
      /\ transitions \in Seq(RouteRuns \cup CardRuns)
  BY DEF NavigationIndInv, NavigationTypes, NavigationInv
<1>2. i = active /\ t.index = router.index /\ t.page = Here
  BY <1>1 DEF TransitionsInv, Underway
<1>3. t.y \in {0, 1} /\ Here \in Pages
  <2>1. t \in RouteRuns \cup CardRuns
    BY <1>1
  <2>2. t \in RouteRuns
    BY <2>1 DEF CardRuns
  <2>3. QED BY <1>1, <2>2 DEF RouteRuns, Here
<1>4. /\ shown' = IF PathOf(t.page) = PathOf(shown) THEN shown
                  ELSE IF t.page = "home" THEN "home" ELSE Here
      /\ router' = [router EXCEPT !.rendered = t.index]
      /\ scroll' = [path |-> PathOf(shown'), y |-> t.y]
  BY DEF CommitRoute
<1>5. /\ shown' = shown \/ shown' = Here
      /\ shown' \in Pages /\ PathOf(shown') = PathOf(Here)
  BY <1>1, <1>2, <1>3, <1>4
<1>6. /\ router'.index = router.index /\ router'.rendered = router.index
      /\ router'.positions = router.positions
      /\ router' = [index |-> router'.index, rendered |-> router'.rendered,
                    positions |-> router'.positions]
  BY <1>1, <1>2, <1>4
<1>7. scroll' \in Offsets /\ scroll'.path = PathOf(shown')
  BY <1>3, <1>4, <1>5, Paths DEF Offsets
<1>8. Here' = Here
  BY <1>6 DEF Here
<1>9. /\ transitions' \in Seq(RouteRuns \cup CardRuns)
      /\ DOMAIN transitions' = DOMAIN transitions
      /\ transitions'[i].stage = "updated"
      /\ \A j \in DOMAIN transitions :
           /\ j # i => transitions'[j] = transitions[j]
           /\ transitions'[j].cancelledBy = transitions[j].cancelledBy
  <2>1. "updated" \in Stages
    BY DEF Stages
  <2>2. QED BY <1>1, <2>1, PhaseFacts
<1>10. ASSUME NEW j \in DOMAIN transitions
       PROVE  /\ Underway(transitions'[j]) <=> j = active
              /\ j = active => transitions'[j].stage # "capturing"
  <2>1. CASE j = i
    BY <1>2, <1>9, <2>1 DEF Underway, Cancelled
  <2>2. CASE j # i
    BY <1>1, <1>2, <1>9, <2>2 DEF TransitionsInv
  <2>3. QED BY <2>1, <2>2
<1> HIDE DEF t
<1>11. NavigationTypes'
  BY <1>1, <1>5, <1>6, <1>7, <1>9 DEF NavigationTypes
<1>12. RenderedInv'
  BY <1>5, <1>6, <1>7, <1>8 DEF RenderedInv, Here
<1>13. TransitionsInv'
  BY <1>9, <1>10 DEF TransitionsInv
<1>14. NavigationInv'
  BY <1>1, <1>5, <1>6, <1>8 DEF NavigationInv, ShownFollows, ScrollKeptPerPage
<1>15. QED BY <1>5, <1>8, <1>11, <1>12, <1>13, <1>14 DEF NavigationIndInv

\* The browser's callbacks, in any order and however late.
LEMMA BrowserSteps ==
    ASSUME NavigationIndInv, BrowserStep
    PROVE  NavigationIndInv' /\ (shown' = shown \/ shown' = Here')
<1>1. PICK i \in DOMAIN transitions : UpdateCallback(i) \/ Ready(i) \/ Finished(i)
  BY DEF BrowserStep
<1>2. /\ "updated" \in Stages \ {"capturing"} /\ "ready" \in Stages \ {"capturing"}
      /\ "finished" \in Stages \ {"capturing"}
  BY DEF Stages
<1>3. CASE UpdateCallback(i)
  <2>1. /\ transitions[i].stage = "capturing" /\ AtStage(i, "updated")
        /\ UNCHANGED <<entries, active, marks, runs>>
    BY <1>3 DEF UpdateCallback
  <2>2. CASE ~Cancelled(transitions[i]) /\ transitions[i].owner = "route"
    BY <1>3, <2>1, <2>2, CommitStep DEF UpdateCallback
  <2>3. CASE Cancelled(transitions[i]) \/ transitions[i].owner # "route"
    <3>1. UNCHANGED <<shown, router, scroll>>
      BY <1>3, <2>3 DEF UpdateCallback
    <3>2. QED BY <1>2, <2>1, <2>3, <3>1, PhaseStep
  <2>4. QED BY <2>2, <2>3
<1>4. CASE Ready(i)
  <2>1. /\ transitions[i].stage = "updated" /\ AtStage(i, "ready")
        /\ UNCHANGED <<entries, router, shown, scroll, active>>
    BY <1>4 DEF Ready
  <2>2. QED BY <1>2, <2>1, PhaseStep
<1>5. CASE Finished(i)
  <2>1. /\ transitions[i].stage \in {"updated", "ready"} /\ AtStage(i, "finished")
        /\ active' = (IF active = i THEN None ELSE active)
        /\ UNCHANGED <<entries, router, shown, scroll>>
    BY <1>5 DEF Finished
  <2>2. QED BY <1>2, <2>1, PhaseStep
<1>6. QED BY <1>1, <1>3, <1>4, <1>5

\* A document that was just loaded.
LEMMA NavigationInitially == NavigationInit => NavigationIndInv
<1> SUFFICES ASSUME NavigationInit PROVE NavigationIndInv
  OBVIOUS
<1>1. PICK at \in Pages : entries = <<at>> /\ shown = at
  BY DEF NavigationInit
<1>2. /\ scroll = [path |-> PathOf(shown), y |-> 0]
      /\ router = [index |-> 1, rendered |-> 1, positions |-> [i \in {1} |-> scroll]]
      /\ transitions = <<>> /\ active = None
  BY DEF NavigationInit
<1>3. /\ entries \in Seq(Pages) /\ DOMAIN entries = {1} /\ entries[1] = shown /\ shown \in Pages
  BY <1>1
<1>4. scroll \in Offsets /\ scroll.path = PathOf(shown) /\ scroll.y = 0
  BY <1>2, <1>3, Paths DEF Offsets
<1>5. /\ router.index = 1 /\ router.rendered = 1 /\ DOMAIN router.positions = {1}
      /\ router.positions[1] = scroll
      /\ router = [index |-> router.index, rendered |-> router.rendered,
                   positions |-> router.positions]
  BY <1>2
<1>6. transitions \in Seq(RouteRuns \cup CardRuns) /\ DOMAIN transitions = {}
  BY <1>2
<1>7. NavigationTypes
  BY <1>2, <1>3, <1>4, <1>5, <1>6 DEF NavigationTypes
<1>8. RenderedInv /\ TransitionsInv /\ NavigationInv
  BY <1>3, <1>4, <1>5, <1>6 DEF RenderedInv, TransitionsInv, NavigationInv, ShownFollows,
                                ScrollKeptPerPage, Here
<1>9. QED BY <1>7, <1>8 DEF NavigationIndInv

\* A reload starts over at the entry it finds.
LEMMA ReloadStep ==
    ASSUME NavigationIndInv, Reload
    PROVE  NavigationIndInv' /\ shown' = Here'
<1>1. /\ entries \in Seq(Pages) /\ router.index \in DOMAIN entries
  BY DEF NavigationIndInv, NavigationTypes
<1>2. /\ shown' = Here /\ scroll' = [path |-> PathOf(Here), y |-> 0]
      /\ router' = [index |-> router.index, rendered |-> router.index,
                    positions |-> [i \in {router.index} |-> scroll']]
      /\ transitions' = <<>> /\ active' = None /\ UNCHANGED entries
  BY DEF Reload
<1>3. /\ router'.index = router.index /\ router'.rendered = router.index
      /\ DOMAIN router'.positions = {router.index} /\ router'.positions[router.index] = scroll'
      /\ router' = [index |-> router'.index, rendered |-> router'.rendered,
                    positions |-> router'.positions]
  BY <1>2
<1>4. Here' = Here /\ Here \in Pages /\ Here = entries[router.index]
  BY <1>1, <1>2, <1>3 DEF Here
<1>5. scroll' \in Offsets /\ scroll'.path = PathOf(shown') /\ scroll'.y = 0
  BY <1>2, <1>4, Paths DEF Offsets
<1>6. transitions' \in Seq(RouteRuns \cup CardRuns) /\ DOMAIN transitions' = {}
  BY <1>2
<1>7. NavigationTypes'
  BY <1>1, <1>2, <1>3, <1>4, <1>5, <1>6 DEF NavigationTypes
<1>8. RenderedInv' /\ TransitionsInv' /\ NavigationInv'
  BY <1>1, <1>2, <1>3, <1>4, <1>5, <1>6 DEF RenderedInv, TransitionsInv, NavigationInv,
                                            ShownFollows, ScrollKeptPerPage
<1>9. QED BY <1>2, <1>4, <1>7, <1>8 DEF NavigationIndInv

\* Every step of the reader and of the browser.
LEMMA NavigationStep ==
    ASSUME NavigationIndInv, [NavigationNext]_navigationVars
    PROVE  NavigationIndInv' /\ (shown' = shown \/ shown' = Here')
<1>1. CASE HandleClick \/ HandlePopState
  BY <1>1, ClickStep, PopStateStep
<1>2. CASE Reload
  BY <1>2, ReloadStep
<1>3. CASE NavigateMessages
  BY <1>3, MessagesStep
<1>4. CASE BrowserStep
  BY <1>4, BrowserSteps
<1>5. CASE Scroll \/ AnimateHeight \/ FinishAnimatedHeight \/ UNCHANGED navigationVars
  <2>1. /\ UNCHANGED <<entries, router, shown, transitions, active>>
        /\ scroll' = scroll \/ scroll' = [path |-> PathOf(shown), y |-> 1 - scroll.y]
    BY <1>5 DEF Scroll, AnimateHeight, FinishAnimatedHeight, navigationVars
  <2>2. /\ NavigationTypes /\ RenderedInv /\ TransitionsInv /\ ShownFollows
        /\ scroll \in Offsets /\ scroll.path = PathOf(shown) /\ shown \in Pages
    BY DEF NavigationIndInv, NavigationTypes, RenderedInv, NavigationInv
  <2>3. scroll' \in Offsets /\ scroll'.path = PathOf(shown)
    <3>1. scroll.y \in {0, 1} /\ 1 - scroll.y \in {0, 1} /\ PathOf(shown) \in {"/", "/chat"}
      BY <2>2, Paths DEF Offsets
    <3>2. QED BY <2>1, <2>2, <3>1 DEF Offsets
  <2>4. ShownFollows'
    BY <2>1, <2>2 DEF ShownFollows, RoutePending, RouteCutShort, Here
  <2>5. QED BY <2>1, <2>2, <2>3, <2>4, StayingStep DEF TransitionsInv, NavigationTypes
<1>6. QED BY <1>1, <1>2, <1>3, <1>4, <1>5 DEF NavigationNext

(* Whatever the reader and the browser do, and for histories and runs of   *)
(* any number, the page in the DOM is the address's once no navigation     *)
(* waits, and the offsets remembered belong to their entries.              *)
THEOREM NavigationSafe == NavigationSpec => []NavigationInv
<1>1. NavigationIndInv /\ [NavigationNext]_navigationVars => NavigationIndInv'
  BY NavigationStep
<1>2. NavigationIndInv => NavigationInv
  BY DEF NavigationIndInv
<1>3. QED BY NavigationInitially, <1>1, <1>2, PTL DEF NavigationSpec

(* A page enters the DOM only while the address bar names it.              *)
THEOREM OldPagesStayOut == NavigationSpec => NeverAnOldPage
<1>1. NavigationIndInv /\ [NavigationNext]_navigationVars => NavigationIndInv'
  BY NavigationStep
<1>2. NavigationIndInv /\ [NavigationNext]_navigationVars
        => [shown' # shown => shown' = Here']_navigationVars
  BY NavigationStep
<1>3. QED BY NavigationInitially, <1>1, <1>2, PTL DEF NavigationSpec, NeverAnOldPage

CardShapes == [messages : BOOLEAN, height : {"auto", "summary", "messages"},
               frame : {"none", "summary", "messages"}]

(* A frame is requested only while a height is pinned.                     *)
CardSound == card \in CardShapes /\ PinnedIsShown /\ (card.height = "auto" => card.frame = "none")

(* While the transition of the card waits for its update no height is      *)
(* pinned, and once updated the card shows what its transition was for.    *)
CardInv ==
  /\ CardSound
  /\ active # None /\ transitions[active].owner = "card" =>
       /\ transitions[active].stage = "capturing" => card.height = "auto"
       /\ transitions[active].stage = "updated" => card.messages = transitions[active].messages

\* A card without a pinned height is as it should be, and so is one that stays.
LEMMA CardAuto ==
    ASSUME \/ CardSound /\ UNCHANGED card
           \/ card' \in CardShapes /\ card'.height = "auto" /\ card'.frame = "none"
    PROVE  CardSound'
  BY DEF CardSound, PinnedIsShown

\* The card with its height released, on either screen, or closed.
LEMMA CardReleased ==
    ASSUME CardSound, NEW messages \in BOOLEAN,
           card' \in {Unpinned(card), [Unpinned(card) EXCEPT !.messages = messages], ClosedCard}
    PROVE  CardSound' /\ card'.height = "auto"
<1>1. card \in CardShapes
  BY DEF CardSound
<1>2. card' \in CardShapes /\ card'.height = "auto" /\ card'.frame = "none"
  <2>1. PICK c \in CardShapes : c = card
    BY <1>1
  <2>2. CASE card' = ClosedCard
    BY <2>2 DEF CardShapes, ClosedCard
  <2>3. CASE card' = [c EXCEPT !.height = "auto", !.frame = "none"]
    BY <2>3 DEF CardShapes
  <2>4. CASE card' = [[c EXCEPT !.height = "auto", !.frame = "none"] EXCEPT !.messages = messages]
    BY <2>4 DEF CardShapes
  <2>5. QED BY <2>1, <2>2, <2>3, <2>4 DEF Unpinned
<1>3. QED BY <1>2, CardAuto

\* The card with a height pinned on its way to the screen that it shows.
LEMMA CardPinned ==
    ASSUME NEW c \in CardShapes, NEW messages \in BOOLEAN, c.messages = messages,
           card' \in MayPin(c, messages), card' # c
    PROVE  CardSound'
<1>1. card' = [c EXCEPT !.height = Screen(~messages), !.frame = Screen(messages)]
  BY DEF MayPin
<1>2. /\ card' \in CardShapes /\ card'.messages = messages
      /\ card'.height = Screen(~messages) /\ card'.frame = Screen(messages)
  BY <1>1 DEF CardShapes, Screen
<1>3. Screen(messages) # "none" /\ Screen(~messages) # "auto"
  BY DEF Screen
<1>4. Screen(card'.messages) = card'.frame
  BY <1>2
<1>5. QED BY <1>2, <1>3, <1>4 DEF CardSound, PinnedIsShown, Screen

\* A transition that is not a card's, or none, says nothing of the card.
LEMMA CardOfNone ==
    ASSUME CardSound', active' = None \/ transitions'[active'].owner = "route"
    PROVE  CardInv'
  BY DEF CardInv

\* A navigation leaves the card, or closes it with its page.
LEMMA CardNavigates ==
    ASSUME NavigationIndInv, CardInv, NEW r, NEW to \in Pages, NEW index \in Nat,
           NEW offset \in Offsets, r.index = index, Navigate(r, to, offset)
    PROVE  CardInv'
<1> DEFINE t == RouteRun(to, r.index, offset)
<1>1. NavigationTypes /\ TransitionsInv /\ CardSound
  BY DEF NavigationIndInv, CardInv
<1>2. card' \in {card, ClosedCard}
  BY DEF Navigate, StayOnPath, RunRoute, CommitRoute
<1>3. CardSound'
  BY <1>1, <1>2, CardAuto, CardReleased
<1>4. CASE AtOnce("route")
  BY <1>3, <1>4, CardOfNone DEF AtOnce
<1>5. CASE Capture(t)
  <2>1. t \in RouteRuns /\ t.owner = "route" /\ t.stage = "capturing" /\ t.cancelledBy = "nobody"
    BY RouteRunType
  <2> HIDE DEF t
  <2>2. transitions'[active'] = t
    BY <1>1, <1>5, <2>1, CaptureFacts
  <2>3. QED BY <1>3, <2>1, <2>2, CardOfNone
<1>6. CASE UNCHANGED <<transitions, active, card>>
  BY <1>3, <1>6 DEF CardInv
<1>7. QED BY <1>4, <1>5, <1>6 DEF Navigate, StayOnPath, RunRoute

\* The reader changes the screen: what was pinned for the other is released.
LEMMA CardOpens ==
    ASSUME NavigationIndInv, CardInv, NavigateMessages
    PROVE  CardInv'
<1> DEFINE t == CardRun(~card.messages)
<1>1. NavigationTypes /\ TransitionsInv /\ CardSound
  BY DEF NavigationIndInv, CardInv
<1>2. /\ t \in CardRuns /\ t.owner = "card" /\ t.stage = "capturing" /\ t.cancelledBy = "nobody"
      /\ t.messages \in BOOLEAN
  BY DEF CardRun, CardRuns, Stages, Owners
<1> DEFINE done == [Unpinned(card) EXCEPT !.messages = t.messages]
<1>3. done \in CardShapes /\ done.messages = t.messages
  BY <1>1, <1>2 DEF CardSound, CardShapes, Unpinned
<1>4. CASE AtOnce("card") /\ card' \in {done} \cup MayPin(done, t.messages)
  <2>1. active' = None
    BY <1>4 DEF AtOnce
  <2>2. CASE card' = done
    BY <1>1, <1>2, <2>1, <2>2, CardReleased, CardOfNone
  <2>3. CASE card' # done
    <3>1. card' \in MayPin(done, t.messages)
      BY <1>4, <2>3
    <3> HIDE DEF done, t
    <3>2. CardSound'
      BY <1>2, <1>3, <2>3, <3>1, CardPinned
    <3>3. QED BY <2>1, <3>2, CardOfNone
  <2>4. QED BY <2>2, <2>3
<1>5. CASE Capture(t) /\ card' = Unpinned(card)
  <2> HIDE DEF t
  <2>1. transitions'[active'] = t
    BY <1>1, <1>2, <1>5, CaptureFacts
  <2>2. CardSound' /\ card'.height = "auto"
    BY <1>1, <1>2, <1>5, CardReleased
  <2>3. QED BY <1>2, <2>1, <2>2 DEF CardInv
<1>6. QED BY <1>4, <1>5 DEF NavigateMessages

\* The browser updates a card that has no height pinned, and pins the height
\* of a card that was updated.
LEMMA CardBrowses ==
    ASSUME NavigationIndInv, CardInv, BrowserStep
    PROVE  CardInv'
<1>1. /\ NavigationTypes /\ TransitionsInv
      /\ transitions \in Seq(RouteRuns \cup CardRuns)
      /\ active \in {None} \cup DOMAIN transitions
      /\ CardSound
      /\ active # None /\ transitions[active].owner = "card" =>
           /\ transitions[active].stage = "capturing" => card.height = "auto"
           /\ transitions[active].stage = "updated" => card.messages = transitions[active].messages
  BY DEF NavigationIndInv, NavigationTypes, CardInv
<1>2. PICK i \in DOMAIN transitions : UpdateCallback(i) \/ Ready(i) \/ Finished(i)
  BY DEF BrowserStep
<1>3. /\ \A j \in DOMAIN transitions : transitions[j] \in RouteRuns \cup CardRuns
      /\ \A j \in DOMAIN transitions : j # None
  BY <1>1 DEF None
<1>4. PICK s \in {"updated", "ready", "finished"} : AtStage(i, s)
  BY <1>2 DEF UpdateCallback, Ready, Finished
<1>5. /\ transitions'[i] = [transitions[i] EXCEPT !.stage = s]
      /\ \A j \in DOMAIN transitions : j # i => transitions'[j] = transitions[j]
  BY <1>1, <1>4 DEF AtStage
<1>6. /\ transitions'[i].stage = s
      /\ transitions'[i].owner = transitions[i].owner
      /\ transitions[i].owner = "card" => /\ transitions[i].messages \in BOOLEAN
                                          /\ transitions'[i].messages = transitions[i].messages
  <2>1. CASE transitions[i] \in RouteRuns
    BY <1>5, <2>1 DEF RouteRuns
  <2>2. CASE transitions[i] \in CardRuns
    BY <1>5, <2>2 DEF CardRuns
  <2>3. QED BY <1>3, <2>1, <2>2
\* A step that leaves the card, and does not update the active transition.
<1>7. ASSUME UNCHANGED card, active' \in {active, None},
             i = active' => s # "updated"
      PROVE  CardInv'
  <2>1. CardSound'
    BY <1>1, <1>7, CardAuto
  <2>2. CASE active' = None
    BY <2>1, <2>2, CardOfNone
  <2>3. CASE active' = active /\ active # None
    <3>1. CASE i = active
      BY <1>1, <1>4, <1>6, <1>7, <2>1, <2>3, <3>1 DEF CardInv
    <3>2. CASE i # active
      BY <1>1, <1>5, <1>7, <2>1, <2>3, <3>2 DEF CardInv
    <3>3. QED BY <3>1, <3>2
  <2>4. QED BY <1>7, <2>2, <2>3
<1>8. CASE UpdateCallback(i)
  <2>1. transitions[i].stage = "capturing" /\ UNCHANGED active /\ AtStage(i, "updated")
    BY <1>8 DEF UpdateCallback
  <2>2. transitions'[i].stage = "updated" /\ s = "updated"
    <3>1. transitions'[i] = [transitions[i] EXCEPT !.stage = "updated"]
      BY <1>1, <2>1 DEF AtStage
    <3>2. transitions'[i].stage = "updated"
      BY <1>3, <3>1 DEF RouteRuns, CardRuns
    <3>3. QED BY <1>6, <3>2
  <2>3. CASE Cancelled(transitions[i])
    <3>1. UNCHANGED card /\ i # active
      BY <1>1, <1>8, <2>3 DEF UpdateCallback, TransitionsInv, Underway
    <3>2. QED BY <1>7, <2>1, <3>1
  <2>4. CASE ~Cancelled(transitions[i])
    <3>1. i = active
      BY <1>1, <2>1, <2>4 DEF TransitionsInv, Underway
    <3>2. CASE transitions[i].owner = "route"
      <4>1. card' \in {card, ClosedCard}
        BY <1>8, <2>4, <3>2 DEF UpdateCallback, CommitRoute
      <4>2. CardSound'
        BY <1>1, <4>1, CardAuto, CardReleased
      <4>3. transitions'[active'].owner = "route"
        BY <1>6, <2>1, <3>1, <3>2
      <4>4. QED BY <4>2, <4>3, CardOfNone
    <3>3. CASE transitions[i].owner = "card"
      <4>1. card' = [card EXCEPT !.messages = transitions[i].messages]
        BY <1>8, <2>4, <3>3 DEF UpdateCallback
      <4>2. card.height = "auto" /\ card.frame = "none"
        BY <1>1, <1>3, <2>1, <3>1, <3>3 DEF CardSound
      <4>3. /\ card' \in CardShapes /\ card'.height = "auto" /\ card'.frame = "none"
            /\ card'.messages = transitions[i].messages
        BY <1>1, <1>6, <3>3, <4>1, <4>2 DEF CardSound, CardShapes
      <4>4. QED BY <1>6, <2>1, <2>2, <3>1, <3>3, <4>3, CardAuto DEF CardInv
    <3>4. QED BY <1>3, <3>2, <3>3 DEF RouteRuns, CardRuns
  <2>5. QED BY <2>3, <2>4
<1>9. CASE Ready(i)
  <2>1. transitions[i].stage = "updated" /\ UNCHANGED active /\ AtStage(i, "ready")
    BY <1>9 DEF Ready
  <2>2. transitions'[i].stage = "ready" /\ s = "ready"
    <3>1. transitions'[i] = [transitions[i] EXCEPT !.stage = "ready"]
      BY <1>1, <2>1 DEF AtStage
    <3>2. transitions'[i].stage = "ready"
      BY <1>3, <3>1 DEF RouteRuns, CardRuns
    <3>3. QED BY <1>6, <3>2
  <2>3. CASE active = i /\ transitions[i].owner = "card"
    <3>1. card' \in MayPin(card, transitions[i].messages)
      BY <1>9, <2>3 DEF Ready
    <3>2. card.messages = transitions[i].messages /\ transitions[i].messages \in BOOLEAN
      BY <1>1, <1>3, <1>6, <2>1, <2>3
    <3>3. CardSound'
      BY <1>1, <3>1, <3>2, CardAuto, CardPinned DEF CardSound
    <3>4. transitions'[active'].stage = "ready"
      BY <2>1, <2>2, <2>3
    <3>5. QED BY <3>3, <3>4 DEF CardInv
  <2>4. CASE ~(active = i /\ transitions[i].owner = "card")
    BY <1>7, <1>9, <2>1, <2>2, <2>4 DEF Ready
  <2>5. QED BY <2>3, <2>4
<1>10. CASE Finished(i)
  <2>1. /\ AtStage(i, "finished") /\ UNCHANGED card
        /\ active' = IF active = i THEN None ELSE active
    BY <1>10 DEF Finished
  <2>2. i # active'
    BY <1>3, <2>1
  <2>3. QED BY <1>7, <2>1, <2>2
<1>11. QED BY <1>2, <1>8, <1>9, <1>10

\* Every step keeps the card as the invariant says.
LEMMA CardStep ==
    ASSUME NavigationIndInv, CardInv, [NavigationNext]_navigationVars
    PROVE  CardInv'
<1>1. CASE HandleClick
  <2>1. \E to \in Pages : \E r : r.index = router.index + 1 /\ Navigate(r, to, Zero)
    <3> DEFINE next == router.index + 1
               kept == [i \in {j \in DOMAIN RememberScroll : j < next} |-> RememberScroll[i]]
               r == [router EXCEPT !.index = next, !.positions = SetPosition(kept, next, Zero)]
    <3>1. PICK to \in Pages : Navigate(r, to, Zero)
      BY <1>1 DEF HandleClick
    <3>2. r.index = next
      BY MovedRouter DEF NavigationIndInv
    <3>3. QED BY <3>1, <3>2
  <2>2. router.index + 1 \in Nat /\ Zero \in Offsets
    BY DEF NavigationIndInv, NavigationTypes, Zero, Offsets
  <2>3. QED BY <2>1, <2>2, CardNavigates
<1>2. CASE HandlePopState
  <2>1. \E index \in DOMAIN entries : \E r :
          /\ r.index = index
          /\ Navigate(r, entries[index],
                      IF index \in DOMAIN RememberScroll THEN RememberScroll[index] ELSE Zero)
    <3>1. PICK index \in DOMAIN entries :
            Navigate([router EXCEPT !.index = index, !.positions = RememberScroll], entries[index],
                     IF index \in DOMAIN RememberScroll THEN RememberScroll[index] ELSE Zero)
      BY <1>2 DEF HandlePopState
    <3>2. [router EXCEPT !.index = index, !.positions = RememberScroll].index = index
      BY MovedRouter DEF NavigationIndInv
    <3>3. QED BY <3>1, <3>2
  <2>2. ASSUME NEW index \in DOMAIN entries
        PROVE  /\ (IF index \in DOMAIN RememberScroll THEN RememberScroll[index] ELSE Zero) \in Offsets
               /\ index \in Nat /\ entries[index] \in Pages
    BY RememberFacts DEF NavigationIndInv, NavigationTypes, Zero, Offsets
  <2>3. QED BY <2>1, <2>2, CardNavigates
<1>3. CASE Reload
  <2>1. card' = ClosedCard /\ active' = None
    BY <1>3 DEF Reload
  <2>2. QED BY <2>1, CardReleased, CardOfNone DEF CardInv
<1>4. CASE NavigateMessages
  BY <1>4, CardOpens
<1>5. CASE BrowserStep
  BY <1>5, CardBrowses
<1>6. CASE AnimateHeight \/ FinishAnimatedHeight
  <2>1. /\ UNCHANGED <<transitions, active>>
        /\ \/ card.frame # "none" /\ card' = [card EXCEPT !.height = card.frame, !.frame = "none"]
           \/ card' = Unpinned(card)
    BY <1>6 DEF AnimateHeight, FinishAnimatedHeight
  <2>2. CardSound
    BY DEF CardInv
  <2>3. CASE card' = Unpinned(card)
    <3>1. TRUE \in BOOLEAN
      OBVIOUS
    <3>2. CardSound' /\ card'.height = "auto"
      BY <2>2, <2>3, <3>1, CardReleased
    <3>3. card'.messages = card.messages
      BY <2>2, <2>3 DEF CardSound, CardShapes, Unpinned
    <3>4. QED BY <2>1, <3>2, <3>3 DEF CardInv
  <2>4. CASE card.frame # "none" /\ card' = [card EXCEPT !.height = card.frame, !.frame = "none"]
    <3>1. /\ card' \in CardShapes /\ card'.height = card.frame /\ card'.frame = "none"
          /\ card'.messages = card.messages /\ card.height # "auto"
      BY <2>2, <2>4 DEF CardSound, CardShapes
    <3>2. card.frame \in {"summary", "messages"} /\ Screen(card.messages) = card.frame
      BY <2>2, <2>4, <3>1 DEF CardSound, CardShapes, PinnedIsShown
    <3>3. PinnedIsShown' /\ card'.height # "auto"
      BY <3>1, <3>2 DEF PinnedIsShown, Screen
    <3>4. QED BY <2>1, <3>1, <3>3 DEF CardInv, CardSound
  <2>5. QED BY <2>1, <2>3, <2>4
<1>7. CASE Scroll \/ UNCHANGED navigationVars
  <2>1. UNCHANGED <<transitions, active, card>>
    BY <1>7 DEF Scroll, navigationVars
  <2>2. QED BY <2>1, CardAuto DEF CardInv
<1>8. QED BY <1>1, <1>2, <1>3, <1>4, <1>5, <1>6, <1>7 DEF NavigationNext

(* However often the reader goes back and forth, and whether or not the    *)
(* browser ever tells that a height was reached, a height that stays       *)
(* pinned is of the screen on view.                                        *)
THEOREM PinnedHeightSafe == NavigationSpec => []PinnedIsShown
<1>1. NavigationInit => CardInv
  BY DEF NavigationInit, CardInv, CardSound, CardShapes, PinnedIsShown, ClosedCard
<1>2. NavigationIndInv /\ [NavigationNext]_navigationVars => NavigationIndInv'
  BY NavigationStep
<1>3. CardInv => PinnedIsShown
  BY DEF CardInv, CardSound
<1>4. QED BY NavigationInitially, CardStep, <1>1, <1>2, <1>3, PTL DEF NavigationSpec

-----------------------------------------------------------------------------
(***************************************************************************)
(* The context menu: the controller and the native popover.                *)
(***************************************************************************)
Popovers == [rendered : BOOLEAN, request : {"none", "open", "closed"}, toggle : BOOLEAN,
             retry : BOOLEAN, place : BOOLEAN, placed : Points \cup {Nowhere},
             refusals : Nat]

MenuTypes ==
  /\ menu \in [open : BOOLEAN, point : Points \cup {Nowhere}, suppress : BOOLEAN,
               listeners : BOOLEAN]
  /\ press \in [timer : BOOLEAN, listeners : BOOLEAN]
  /\ measure \in [frame : BOOLEAN, settle : BOOLEAN, late : BOOLEAN,
                  bounds : Points \cup {Nowhere, Hidden}]
  /\ popover \in Popovers
  /\ menu.open <=> menu.point # Nowhere

(* What the popover owes to a controller that is open, or is not: a change   *)
(* that is not made is under way or will be tried again, and so is the       *)
(* placing of the panel at the point.                                       *)
Owed(p, m) ==
  /\ p.request # "none" => p.toggle
  /\ p.toggle \/ p.retry \/ p.rendered = m.open
  /\ m.open => p.toggle \/ p.place \/ (p.retry /\ ~p.rendered) \/ p.placed = m.point

(* Until it is measured, a panel that was opened undisturbed is on its way   *)
(* to the point, and then it is there.                                       *)
Approaches ==
  ~measure.late =>
    /\ measure.frame => /\ popover.place \/ popover.placed = menu.point
                        /\ popover.rendered \/ (popover.retry /\ ~popover.toggle)
    /\ measure.settle => popover.placed = menu.point /\ popover.rendered
    /\ measure.bounds \in {Nowhere, menu.point}

MenuIndInv == MenuTypes /\ MenuInv /\ Owed(popover, menu) /\ Approaches

\* What a call of syncOpen leads to.
LEMMA SyncCases ==
    ASSUME NEW p \in Popovers, NEW open \in BOOLEAN, NEW q \in SyncOpen(p, open),
           p.request # "none" => p.toggle
    PROVE  /\ q \in Popovers
           /\ q.place = p.place /\ q.placed = p.placed
           /\ q.request # "none" => q.toggle
           /\ \/ q = p /\ p.toggle
              \/ q = p /\ (p.rendered <=> open)
              \/ (q.rendered <=> open) /\ q.toggle /\ q.retry = p.retry
              \/ q.retry /\ q.rendered = p.rendered /\ q.toggle = p.toggle
                 /\ (p.rendered <=> ~open)
<1> USE DEF Popovers
<1>1. CASE p.request = Request(open) \/ p.rendered = open
  <2>1. q = p
    BY <1>1 DEF SyncOpen
  <2>2. QED BY <1>1, <2>1 DEF Request
<1>2. CASE q = [p EXCEPT !.rendered = open, !.request = Request(open), !.toggle = TRUE]
  <2>1. q.toggle /\ (q.rendered <=> open) /\ q.retry = p.retry
    BY <1>2
  <2>2. q.place = p.place /\ q.placed = p.placed
    BY <1>2
  <2>3. q \in Popovers
    BY <1>2 DEF Request
  <2>4. QED BY <2>1, <2>2, <2>3
<1>3. CASE /\ p.rendered # open
           /\ q = [p EXCEPT !.request = "none", !.retry = TRUE, !.refusals = @ + 1]
  <2>a. q.retry
    BY <1>3
  <2>b. q.rendered = p.rendered /\ q.toggle = p.toggle /\ q.request = "none"
    BY <1>3
  <2>1. q.retry /\ q.rendered = p.rendered /\ q.toggle = p.toggle /\ q.request = "none"
    BY <2>a, <2>b
  <2>2. q.place = p.place /\ q.placed = p.placed
    BY <1>3
  <2>3. q \in Popovers
    <3>1. p.refusals + 1 \in Nat
      OBVIOUS
    <3>2. QED BY <1>3, <3>1
  <2>4. p.rendered <=> ~open
    BY <1>3
  <2>5. QED BY <2>1, <2>2, <2>3, <2>4
<1>4. QED
  <2>1. q \in IF p.request = Request(open) \/ p.rendered = open THEN {p}
              ELSE { [p EXCEPT !.rendered = open, !.request = Request(open), !.toggle = TRUE],
                     [p EXCEPT !.request = "none", !.retry = TRUE, !.refusals = @ + 1] }
    BY DEF SyncOpen
  <2>2. QED BY <1>1, <1>2, <1>3, <2>1

\* The effects of a handler on the popover.
LEMMA FollowCases ==
    ASSUME NEW p \in Popovers, p.request # "none" => p.toggle,
           NEW was, was.open \in BOOLEAN, NEW is, is.open \in BOOLEAN,
           p.toggle \/ p.retry \/ p.rendered = was.open,
           NEW q \in Follow(p, was, is)
    PROVE  /\ q \in Popovers
           /\ q.placed = p.placed
           /\ p.place => q.place
           /\ is.point # Nowhere /\ is.point # was.point => q.place
           /\ q.request # "none" => q.toggle
           /\ q.toggle \/ q.retry \/ q.rendered = is.open
           /\ is.open /\ ~p.toggle /\ ~p.retry => q.rendered \/ (q.retry /\ ~q.toggle)
           /\ is.open = was.open => /\ q.rendered = p.rendered
                                    /\ q.toggle = p.toggle /\ q.retry = p.retry
<1> DEFINE followed == [p EXCEPT !.place = @ \/ (is.point # Nowhere /\ is.point # was.point)]
<1>1. /\ followed \in Popovers
      /\ followed.placed = p.placed /\ followed.request = p.request
      /\ followed.toggle = p.toggle /\ followed.retry = p.retry
      /\ followed.rendered = p.rendered
      /\ followed.place <=> p.place \/ (is.point # Nowhere /\ is.point # was.point)
  BY DEF Popovers
<1>2. q \in IF was.open = is.open THEN {followed} ELSE SyncOpen(followed, is.open)
  BY DEF Follow
<1> HIDE DEF followed
<1>3. CASE was.open = is.open
  BY <1>1, <1>2, <1>3 DEF Popovers
<1>4. CASE was.open # is.open
  <2>1. q \in SyncOpen(followed, is.open)
    BY <1>2, <1>4
  <2>2. followed.request # "none" => followed.toggle
    BY <1>1
  <2>3. /\ q \in Popovers
        /\ q.place = followed.place /\ q.placed = followed.placed
        /\ q.request # "none" => q.toggle
        /\ \/ q = followed /\ followed.toggle
           \/ q = followed /\ (followed.rendered <=> is.open)
           \/ (q.rendered <=> is.open) /\ q.toggle /\ q.retry = followed.retry
           \/ q.retry /\ q.rendered = followed.rendered /\ q.toggle = followed.toggle
              /\ (followed.rendered <=> ~is.open)
    BY <1>1, <2>1, <2>2, SyncCases
  <2>4. q.rendered \in BOOLEAN /\ q.toggle \in BOOLEAN /\ q.retry \in BOOLEAN
    BY <2>3 DEF Popovers
  <2>5. QED BY <1>1, <1>4, <2>3, <2>4
<1>5. QED BY <1>3, <1>4

\* A menu at rest is as the invariant says.
LEMMA MenuInitially == MenuInit => MenuIndInv
<1> SUFFICES ASSUME MenuInit PROVE MenuIndInv
  OBVIOUS
<1> USE DEF MenuInit, ClosedMenu, NoPress, NoMeasure
<1>1. MenuTypes
  BY DEF MenuTypes, Popovers, Points, Nowhere
<1>2. MenuInv
  BY DEF MenuInv
<1>3. Owed(popover, menu) /\ Approaches
  BY DEF Owed, Approaches
<1>4. QED BY <1>1, <1>2, <1>3 DEF MenuIndInv

\* An activation forgets the bounds and has them measured at its point.
LEMMA ActivateStep ==
    ASSUME MenuIndInv, NEW point \in Points, NEW suppress \in BOOLEAN,
           Activate(point, suppress)
    PROVE  MenuIndInv'
<1> DEFINE opened == [open |-> TRUE, point |-> point, suppress |-> suppress,
                      listeners |-> TRUE]
<1>1. /\ MenuTypes /\ Owed(popover, menu) /\ MenuInv
      /\ point # Nowhere
  BY DEF MenuIndInv, Points, Nowhere
<1>2. /\ opened.open \in BOOLEAN /\ opened.open /\ opened.point = point
      /\ menu' = opened /\ press' = NoPress /\ measure' = Remeasure
      /\ popover' \in Follow(popover, menu, opened)
  BY DEF Activate
<1>3. /\ popover \in Popovers /\ menu.open \in BOOLEAN
      /\ popover.toggle \in BOOLEAN /\ popover.retry \in BOOLEAN
      /\ popover.place \in BOOLEAN /\ popover.rendered \in BOOLEAN
      /\ popover.request # "none" => popover.toggle
      /\ popover.toggle \/ popover.retry \/ popover.rendered = menu.open
      /\ menu.open => \/ popover.toggle \/ popover.place
                      \/ popover.retry /\ ~popover.rendered
                      \/ popover.placed = menu.point
      /\ ~menu.open => menu.point = Nowhere
  BY <1>1 DEF MenuTypes, Popovers, Owed
<1>4. /\ measure'.frame /\ ~measure'.settle /\ measure'.bounds = Nowhere
      /\ measure'.late <=> popover.toggle \/ popover.retry
  BY <1>2, <1>3 DEF Remeasure
<1> HIDE DEF opened
<1>5. /\ popover' \in Popovers
      /\ popover'.placed = popover.placed
      /\ popover.place => popover'.place
      /\ point # menu.point => popover'.place
      /\ popover'.request # "none" => popover'.toggle
      /\ popover'.toggle \/ popover'.retry \/ popover'.rendered = opened.open
      /\ ~popover.toggle /\ ~popover.retry
           => popover'.rendered \/ (popover'.retry /\ ~popover'.toggle)
      /\ menu.open => /\ popover'.rendered = popover.rendered
                      /\ popover'.toggle = popover.toggle
                      /\ popover'.retry = popover.retry
  <2>1. /\ popover' \in Popovers
        /\ popover'.placed = popover.placed
        /\ popover.place => popover'.place
        /\ opened.point # Nowhere /\ opened.point # menu.point => popover'.place
        /\ popover'.request # "none" => popover'.toggle
        /\ popover'.toggle \/ popover'.retry \/ popover'.rendered = opened.open
        /\ opened.open /\ ~popover.toggle /\ ~popover.retry
             => popover'.rendered \/ (popover'.retry /\ ~popover'.toggle)
        /\ opened.open = menu.open => /\ popover'.rendered = popover.rendered
                                      /\ popover'.toggle = popover.toggle
                                      /\ popover'.retry = popover.retry
    <3>1. popover \in Popovers /\ menu.open \in BOOLEAN /\ opened.open \in BOOLEAN
      BY <1>2, <1>3
    <3>2. popover.request # "none" => popover.toggle
      BY <1>3
    <3>3. popover.toggle \/ popover.retry \/ popover.rendered = menu.open
      BY <1>3
    <3>4. popover' \in Follow(popover, menu, opened)
      BY <1>2
    <3>5. QED BY ONLY <3>1, <3>2, <3>3, <3>4, FollowCases
  <2>2. menu.open => opened.open = menu.open
    BY <1>2, <1>3
  <2>3. QED BY <1>1, <1>2, <2>1, <2>2
<1>6. \/ popover'.toggle \/ popover'.place
      \/ popover'.retry /\ ~popover'.rendered
      \/ popover'.placed = point
  <2>1. CASE point # menu.point
    BY <1>5, <2>1
  <2>2. CASE point = menu.point
    BY <1>1, <1>3, <1>5, <2>2
  <2>3. QED BY <2>1, <2>2
<1>7. ~measure'.late => popover'.place \/ popover'.placed = point
  <2>1. CASE point # menu.point
    BY <1>5, <2>1
  <2>2. CASE point = menu.point
    BY <1>1, <1>3, <1>4, <1>5, <2>2
  <2>3. QED BY <2>1, <2>2
<1>8. ~measure'.late => popover'.rendered \/ (popover'.retry /\ ~popover'.toggle)
  BY <1>4, <1>5
<1>9. menu'.open /\ menu'.point = point /\ menu'.open \in BOOLEAN
  BY <1>2 DEF opened
<1>10. MenuTypes'
  <2>1. menu' \in [open : BOOLEAN, point : Points \cup {Nowhere}, suppress : BOOLEAN,
                   listeners : BOOLEAN]
    BY <1>2 DEF opened
  <2>2. press' \in [timer : BOOLEAN, listeners : BOOLEAN]
    BY <1>2 DEF NoPress
  <2>3. measure' \in [frame : BOOLEAN, settle : BOOLEAN, late : BOOLEAN,
                      bounds : Points \cup {Nowhere, Hidden}]
    <3>1. (popover.toggle \/ popover.retry) \in BOOLEAN
      OBVIOUS
    <3>2. QED BY <1>2, <3>1 DEF Remeasure
  <2>4. QED BY <1>1, <1>5, <1>9, <2>1, <2>2, <2>3 DEF MenuTypes
<1>11. MenuInv'
  BY <1>2, <1>4, <1>9 DEF MenuInv, NoPress
<1>12. Owed(popover, menu)'
  BY <1>2, <1>5, <1>6, <1>9 DEF Owed
<1>13. Approaches'
  BY <1>4, <1>7, <1>8, <1>9 DEF Approaches
<1>14. QED BY <1>10, <1>11, <1>12, <1>13 DEF MenuIndInv

\* Whatever closes the menu leaves nothing of it behind.
LEMMA CloseStep ==
    ASSUME MenuTypes, NEW p \in Popovers, p.request # "none" => p.toggle,
           p.toggle \/ p.retry \/ p.rendered = menu.open, Close(p)
    PROVE  MenuIndInv'
<1>1. /\ menu' = ClosedMenu /\ press' = NoPress /\ measure' = NoMeasure
      /\ popover' \in Follow(p, menu, ClosedMenu)
  BY DEF Close
<1>2. /\ ~ClosedMenu.open /\ ClosedMenu.open \in BOOLEAN /\ menu.open \in BOOLEAN
      /\ ClosedMenu.point = Nowhere /\ ~ClosedMenu.listeners /\ ~ClosedMenu.suppress
      /\ ClosedMenu \in [open : BOOLEAN, point : Points \cup {Nowhere},
                         suppress : BOOLEAN, listeners : BOOLEAN]
  BY DEF ClosedMenu, MenuTypes
<1>3. /\ popover' \in Popovers
      /\ popover'.request # "none" => popover'.toggle
      /\ popover'.toggle \/ popover'.retry \/ popover'.rendered = ClosedMenu.open
  BY <1>1, <1>2, FollowCases
<1>4. MenuTypes'
  BY <1>1, <1>2, <1>3 DEF MenuTypes, NoPress, NoMeasure
<1>5. MenuInv' /\ Approaches'
  BY <1>1, <1>2 DEF MenuInv, Approaches, NoPress, NoMeasure
<1>6. Owed(popover, menu)'
  BY <1>1, <1>2, <1>3 DEF Owed
<1>7. QED BY <1>4, <1>5, <1>6 DEF MenuIndInv

\* The toggle event: the popover follows what the controller wants by now.
LEMMA ToggleStep ==
    ASSUME MenuIndInv, OnToggle
    PROVE  MenuIndInv'
<1> DEFINE s == Settled(popover)
<1>1. /\ MenuTypes /\ MenuInv /\ Owed(popover, menu) /\ Approaches
      /\ popover \in Popovers /\ menu.open \in BOOLEAN
      /\ UNCHANGED <<menu, press, measure>>
      /\ popover' \in SyncOpen(s, menu.open)
  BY DEF MenuIndInv, OnToggle, MenuTypes
<1>2. /\ s \in Popovers
      /\ s.request = "none" /\ s.place /\ s.placed = popover.placed
      /\ s.rendered = popover.rendered /\ s.retry = popover.retry
  <2>1. s \in Popovers
    BY <1>1 DEF Settled, Popovers
  <2>2. s.place
    BY <1>1 DEF Settled, Popovers
  <2>3. /\ s.request = "none" /\ s.placed = popover.placed
        /\ s.rendered = popover.rendered /\ s.retry = popover.retry
    BY <1>1 DEF Settled, Popovers
  <2>4. QED BY <2>1, <2>2, <2>3
<1>3. ~s.toggle
  BY <1>1 DEF Settled, Popovers
<1> HIDE DEF s
<1>4. /\ popover' \in Popovers
      /\ popover'.place = s.place /\ popover'.placed = s.placed
      /\ popover'.request # "none" => popover'.toggle
      /\ \/ popover' = s /\ s.toggle
         \/ popover' = s /\ (s.rendered <=> menu.open)
         \/ (popover'.rendered <=> menu.open) /\ popover'.toggle /\ popover'.retry = s.retry
         \/ popover'.retry /\ popover'.rendered = s.rendered /\ popover'.toggle = s.toggle
            /\ (s.rendered <=> ~menu.open)
  <2>1. s.request # "none" => s.toggle
    BY <1>2
  <2>2. s \in Popovers /\ menu.open \in BOOLEAN
    BY <1>1, <1>2
  <2>3. popover' \in SyncOpen(s, menu.open)
    BY <1>1
  <2>4. QED BY ONLY <2>1, <2>2, <2>3, SyncCases
<1>5. /\ popover'.rendered \in BOOLEAN /\ popover'.toggle \in BOOLEAN
      /\ popover'.retry \in BOOLEAN /\ popover'.place \in BOOLEAN
      /\ popover.rendered \in BOOLEAN /\ s.rendered \in BOOLEAN
  BY <1>1, <1>2, <1>4 DEF Popovers
<1>6. popover'.place /\ popover'.placed = popover.placed
  BY <1>2, <1>4
<1>7. popover'.toggle \/ popover'.retry \/ popover'.rendered = menu.open
  BY <1>1, <1>3, <1>4, <1>5
<1>8. popover.rendered /\ menu.open => popover'.rendered
  BY <1>1, <1>2, <1>4, <1>5
<1>9. ~measure.late => ~measure.frame \/ popover.rendered
  BY <1>1 DEF OnToggle, Approaches
<1>10. MenuTypes' /\ MenuInv'
  BY <1>1, <1>4 DEF MenuTypes, MenuInv
<1>11. Owed(popover, menu)'
  BY <1>1, <1>4, <1>6, <1>7 DEF Owed
<1>12. Approaches'
  <2>1. SUFFICES ASSUME ~measure.late
                 PROVE  /\ measure.frame => popover'.rendered
                        /\ measure.settle => /\ popover'.placed = menu.point
                                             /\ popover'.rendered
    BY <1>1, <1>6 DEF Approaches
  <2>2. measure.frame \/ measure.settle => menu.open
    BY <1>1 DEF MenuInv, NoMeasure
  <2>3. QED BY <1>1, <1>6, <1>8, <1>9, <2>1, <2>2 DEF Approaches
<1>13. QED BY <1>10, <1>11, <1>12 DEF MenuIndInv

\* A frame: the call is tried again, the panel is placed, and measured.
LEMMA FrameStep ==
    ASSUME MenuIndInv, MenuFrame
    PROVE  MenuIndInv'
<1> DEFINE s == [popover EXCEPT !.retry = FALSE]
<1>1. /\ MenuTypes /\ MenuInv /\ Owed(popover, menu) /\ Approaches
      /\ popover \in Popovers /\ menu.open \in BOOLEAN
      /\ menu.point \in Points \cup {Nowhere}
      /\ UNCHANGED <<menu, press>>
  BY DEF MenuIndInv, MenuFrame, MenuTypes
<1>2. PICK p \in IF popover.retry THEN SyncOpen(s, menu.open) ELSE {popover} :
        /\ popover' = [p EXCEPT !.place = FALSE,
                         !.placed = IF popover.place /\ p.rendered /\ menu.open
                                    THEN menu.point ELSE @]
        /\ measure' = [frame |-> FALSE, settle |-> measure.frame,
                       late |-> measure.late \/ (measure.frame /\ p.retry),
                       bounds |-> IF ~measure.settle THEN measure.bounds
                                  ELSE IF popover.rendered THEN popover.placed ELSE Hidden]
  BY DEF MenuFrame
<1>3. /\ s \in Popovers /\ s.rendered = popover.rendered /\ s.toggle = popover.toggle
      /\ s.request = popover.request /\ s.placed = popover.placed
      /\ ~s.retry
  <2>1. ~s.retry
    BY <1>1 DEF Popovers
  <2>2. QED BY <1>1, <2>1 DEF Popovers
<1> HIDE DEF s
<1>4. /\ popover.rendered \in BOOLEAN /\ popover.toggle \in BOOLEAN
      /\ popover.retry \in BOOLEAN /\ popover.place \in BOOLEAN
      /\ popover.request # "none" => popover.toggle
      /\ popover.toggle \/ popover.retry \/ popover.rendered = menu.open
      /\ menu.open => \/ popover.toggle \/ popover.place
                      \/ popover.retry /\ ~popover.rendered
                      \/ popover.placed = menu.point
  BY <1>1 DEF Popovers, Owed
<1>5. /\ p \in Popovers
      /\ p.placed = popover.placed
      /\ p.request # "none" => p.toggle
      /\ p.toggle \/ p.retry \/ p.rendered = menu.open
      /\ menu.open /\ popover.rendered => p.rendered
      /\ menu.open => \/ p.toggle
                      \/ p.retry /\ ~p.rendered
                      \/ p.rendered /\ (popover.place \/ popover.placed = menu.point)
      /\ menu.open /\ popover.retry /\ ~popover.toggle => p.rendered \/ p.retry
  <2>1. CASE ~popover.retry
    <3>1. p = popover
      BY <1>2, <2>1
    <3>2. QED BY <1>1, <1>4, <2>1, <3>1
  <2>2. CASE popover.retry
    <3>1. p \in SyncOpen(s, menu.open)
      BY <1>2, <2>2
    <3>2. s.request # "none" => s.toggle
      BY <1>3, <1>4
    <3>3. s \in Popovers /\ menu.open \in BOOLEAN
      BY <1>1, <1>3
    <3>4. /\ p \in Popovers
          /\ p.place = s.place /\ p.placed = s.placed
          /\ p.request # "none" => p.toggle
          /\ \/ p = s /\ s.toggle
             \/ p = s /\ (s.rendered <=> menu.open)
             \/ (p.rendered <=> menu.open) /\ p.toggle /\ p.retry = s.retry
             \/ p.retry /\ p.rendered = s.rendered /\ p.toggle = s.toggle
                /\ (s.rendered <=> ~menu.open)
      BY ONLY <3>1, <3>2, <3>3, SyncCases
    <3>5. p.rendered \in BOOLEAN /\ p.toggle \in BOOLEAN /\ p.retry \in BOOLEAN
      BY <3>4 DEF Popovers
    <3>6. CASE p = s /\ s.toggle
      BY <1>1, <1>3, <1>4, <3>4, <3>5, <3>6
    <3>7. CASE p = s /\ (s.rendered <=> menu.open)
      BY <1>1, <1>3, <1>4, <3>4, <3>5, <3>7
    <3>8. CASE (p.rendered <=> menu.open) /\ p.toggle /\ p.retry = s.retry
      BY <1>1, <1>3, <1>4, <3>4, <3>5, <3>8
    <3>9. CASE p.retry /\ p.rendered = s.rendered /\ p.toggle = s.toggle
               /\ (s.rendered <=> ~menu.open)
      BY <1>1, <1>3, <1>4, <3>4, <3>5, <3>9
    <3>10. QED BY <3>4, <3>6, <3>7, <3>8, <3>9
  <2>3. QED BY <1>4, <2>1, <2>2
<1>6. /\ p.rendered \in BOOLEAN /\ p.toggle \in BOOLEAN /\ p.retry \in BOOLEAN
      /\ p.placed \in Points \cup {Nowhere}
  BY <1>5 DEF Popovers
<1>7. /\ popover' \in Popovers
      /\ popover'.rendered = p.rendered /\ popover'.toggle = p.toggle
      /\ popover'.request = p.request /\ popover'.retry = p.retry
      /\ popover'.placed = IF popover.place /\ p.rendered /\ menu.open
                           THEN menu.point ELSE popover.placed
  <2> DEFINE at == IF popover.place /\ p.rendered /\ menu.open THEN menu.point ELSE p.placed
  <2>1. at \in Points \cup {Nowhere}
    BY <1>1, <1>6
  <2>2. popover' = [p EXCEPT !.place = FALSE, !.placed = at]
    BY <1>2
  <2>3. at = IF popover.place /\ p.rendered /\ menu.open THEN menu.point ELSE popover.placed
    BY <1>5
  <2> HIDE DEF at
  <2>4. QED BY <1>5, <2>1, <2>2, <2>3 DEF Popovers
<1>8. /\ measure.frame \in BOOLEAN /\ measure.settle \in BOOLEAN
      /\ measure.late \in BOOLEAN
      /\ measure.bounds \in Points \cup {Nowhere, Hidden}
  BY <1>1 DEF MenuTypes
<1>9. /\ ~measure'.frame
      /\ measure'.settle <=> measure.frame
      /\ measure'.late <=> measure.late \/ (measure.frame /\ p.retry)
      /\ measure'.bounds = IF ~measure.settle THEN measure.bounds
                           ELSE IF popover.rendered THEN popover.placed ELSE Hidden
  <2>1. measure'.settle <=> measure.frame
    BY <1>2
  <2>2. measure'.late <=> measure.late \/ (measure.frame /\ p.retry)
    BY <1>2
  <2>3. QED BY <1>2, <2>1, <2>2
<1>10. MenuTypes'
  <2> DEFINE l == measure.late \/ (measure.frame /\ p.retry)
             b == IF ~measure.settle THEN measure.bounds
                  ELSE IF popover.rendered THEN popover.placed ELSE Hidden
  <2>1. l \in BOOLEAN
    OBVIOUS
  <2>2. b \in Points \cup {Nowhere, Hidden}
    BY <1>1, <1>8 DEF Popovers
  <2>3. measure' = [frame |-> FALSE, settle |-> measure.frame, late |-> l, bounds |-> b]
    BY <1>2
  <2> HIDE DEF l, b
  <2>4. measure' \in [frame : BOOLEAN, settle : BOOLEAN, late : BOOLEAN,
                      bounds : Points \cup {Nowhere, Hidden}]
    BY <1>8, <2>1, <2>2, <2>3
  <2>5. QED BY <1>1, <1>7, <2>4 DEF MenuTypes
<1>11. measure.frame \/ measure.settle => menu.open
  BY <1>1 DEF MenuInv, NoMeasure
<1>12. Approaches'
  <2>1. SUFFICES ASSUME ~measure'.late
                 PROVE  /\ measure.frame => popover'.placed = menu.point /\ popover'.rendered
                        /\ measure'.bounds \in {Nowhere, menu.point}
    BY <1>1, <1>9 DEF Approaches
  <2>2. /\ ~measure.late /\ (measure.frame => ~p.retry)
        /\ measure.frame => /\ popover.place \/ popover.placed = menu.point
                            /\ popover.rendered \/ (popover.retry /\ ~popover.toggle)
        /\ measure.settle => popover.placed = menu.point /\ popover.rendered
        /\ measure.bounds \in {Nowhere, menu.point}
    BY <1>1, <1>9, <2>1 DEF Approaches
  <2>3. measure.frame => p.rendered
    BY <1>5, <1>11, <2>2
  <2>4. measure.frame => popover'.placed = menu.point /\ popover'.rendered
    BY <1>7, <1>11, <2>2, <2>3
  <2>5. measure'.bounds \in {Nowhere, menu.point}
    BY <1>9, <2>2
  <2>6. QED BY <2>4, <2>5
<1>13. MenuInv'
  <2>1. ~menu.open => measure' = NoMeasure
    <3>1. ~menu.open => measure = NoMeasure
      BY <1>1 DEF MenuInv
    <3>2. SUFFICES ASSUME measure = NoMeasure PROVE measure' = NoMeasure
      BY <3>1
    <3>3. ~measure.frame /\ ~measure.late /\ ~measure.settle /\ measure.bounds = Nowhere
      BY <3>2 DEF NoMeasure
    <3>4. (measure.late \/ (measure.frame /\ p.retry)) = FALSE /\ measure.frame = FALSE
      BY <1>8, <3>3, Zenon
    <3>5. measure' = [frame |-> FALSE, settle |-> FALSE, late |-> FALSE, bounds |-> Nowhere]
      BY <1>2, <3>3, <3>4
    <3>6. QED BY <3>5 DEF NoMeasure
  <2>2. ~measure'.late => measure'.bounds \in {Nowhere, menu.point}
    BY <1>1, <1>12 DEF Approaches
  <2>3. QED BY <1>1, <2>1, <2>2 DEF MenuInv
<1>14. Owed(popover, menu)'
  <2>1. menu.open => \/ popover'.toggle
                     \/ popover'.retry /\ ~popover'.rendered
                     \/ popover'.placed = menu.point
    BY <1>5, <1>7
  <2>2. QED BY <1>1, <1>5, <1>7, <2>1 DEF Owed
<1>15. QED BY <1>10, <1>12, <1>13, <1>14 DEF MenuIndInv

\* The other handlers, and steps of other components.
LEMMA MenuStep ==
    ASSUME MenuIndInv, [MenuNext]_menuVars
    PROVE  MenuIndInv'
<1>1. /\ MenuTypes /\ MenuInv /\ Owed(popover, menu) /\ Approaches
      /\ popover \in Popovers /\ menu.open \in BOOLEAN /\ menu.suppress \in BOOLEAN
      /\ popover.request # "none" => popover.toggle
      /\ popover.toggle \/ popover.retry \/ popover.rendered = menu.open
  BY DEF MenuIndInv, MenuTypes, Owed
<1>2. CASE OnContextMenu
  BY <1>1, <1>2, ActivateStep DEF OnContextMenu
<1>3. CASE LongPress
  <2>1. TRUE \in BOOLEAN
    OBVIOUS
  <2>2. QED BY <1>3, <2>1, ActivateStep DEF LongPress
<1>4. CASE PointerExits \/ OnScroll
  BY <1>1, <1>4, CloseStep DEF PointerExits, OnScroll
<1>5. CASE OnPointerDown \/ CancelPending
  <2>1. UNCHANGED <<menu, measure, popover>>
    BY <1>5 DEF OnPointerDown, CancelPending
  <2>2. \/ press' = [timer |-> TRUE, listeners |-> TRUE]
        \/ press' = [timer |-> FALSE, listeners |-> FALSE]
    BY <1>5 DEF OnPointerDown, CancelPending, NoPress
  <2>3. press' \in [timer : BOOLEAN, listeners : BOOLEAN] /\ press'.timer = press'.listeners
    <3>1. CASE press' = [timer |-> TRUE, listeners |-> TRUE]
      BY <3>1
    <3>2. CASE press' = [timer |-> FALSE, listeners |-> FALSE]
      BY <3>2
    <3>3. QED BY <2>2, <3>1, <3>2
  <2>4. QED BY <1>1, <2>1, <2>3 DEF MenuIndInv, MenuTypes, MenuInv, Owed, Approaches
<1>6. CASE OnClick
  <2>1. /\ menu' \in [open : BOOLEAN, point : Points \cup {Nowhere}, suppress : BOOLEAN,
                      listeners : BOOLEAN]
        /\ menu'.open = menu.open /\ menu'.point = menu.point
        /\ menu'.listeners = menu.listeners
        /\ UNCHANGED <<press, measure, popover>>
    BY <1>1, <1>6 DEF OnClick, MenuTypes
  <2>2. ~menu'.suppress
    BY <1>1, <1>6 DEF OnClick, MenuTypes
  <2>3. QED BY <1>1, <2>1, <2>2 DEF MenuIndInv, MenuTypes, MenuInv, Owed, Approaches
<1>7. CASE LightDismiss
  <2> DEFINE hidden == [popover EXCEPT !.rendered = FALSE, !.toggle = TRUE,
                          !.request = IF @ = "none" THEN "closed" ELSE @]
  <2>1. /\ popover.rendered
        /\ menu.open => Close(hidden)
        /\ ~menu.open => popover' = hidden /\ UNCHANGED <<menu, press, measure>>
    BY <1>7 DEF LightDismiss
  <2>2. hidden \in Popovers /\ hidden.placed = popover.placed
    BY <1>1 DEF Popovers
  <2>3. hidden.toggle
    BY <1>1 DEF Popovers
  <2> HIDE DEF hidden
  <2>4. CASE menu.open
    <3>1. hidden.request # "none" => hidden.toggle
      BY <2>3
    <3>2. hidden.toggle \/ hidden.retry \/ hidden.rendered = menu.open
      BY <2>3
    <3>3. Close(hidden)
      BY <2>1, <2>4
    <3>4. QED BY ONLY <1>1, <2>2, <3>1, <3>2, <3>3, CloseStep
  <2>5. CASE ~menu.open
    <3>1. popover' = hidden /\ UNCHANGED <<menu, press, measure>>
      BY <2>1, <2>5
    <3>2. measure = NoMeasure
      BY <1>1, <2>5 DEF MenuInv
    <3>3. MenuTypes' /\ MenuInv'
      BY <1>1, <2>2, <3>1 DEF MenuTypes, MenuInv
    <3>4. Owed(popover, menu)'
      BY <2>3, <2>5, <3>1 DEF Owed
    <3>5. Approaches'
      BY <3>1, <3>2 DEF Approaches, NoMeasure
    <3>6. QED BY <3>3, <3>4, <3>5 DEF MenuIndInv
  <2>6. QED BY <1>1, <2>4, <2>5
<1>8. CASE UNCHANGED menuVars
  BY <1>8 DEF menuVars, MenuIndInv, MenuTypes, MenuInv, Owed, Approaches
<1>9. QED
  BY <1>2, <1>3, <1>4, <1>5, <1>6, <1>7, <1>8, ToggleStep, FrameStep DEF MenuNext

(* A closed menu leaves nothing behind, and the bounds that decide whether *)
(* the pointer left it are those of the panel where it is now, however     *)
(* often the browser refuses a call.                                       *)
THEOREM MenuSafe == MenuSpec => []MenuInv
<1>1. MenuIndInv /\ [MenuNext]_menuVars => MenuIndInv'
  BY MenuStep
<1>2. MenuIndInv => MenuInv
  BY DEF MenuIndInv
<1>3. QED BY MenuInitially, <1>1, <1>2, PTL DEF MenuSpec

-----------------------------------------------------------------------------
(***************************************************************************)
(* The pool of chat queries: one index, shared by the workers.             *)
(***************************************************************************)
Calls == [index : Indexes \cup {0}, method : {"none", "getChatMember", "getChat"}]

(* What a worker is at: its chat was taken, and it asks for the chat's     *)
(* title only if the bot is a member; a worker returns when none is left.  *)
WorkerKeeps(c) ==
  \/ c = Returned /\ nextIndex > Chats
  \/ c.index \in Indexes /\ c.index < nextIndex /\ (c.method = "getChat" => Accessible(c.index))

(* A chat below the shared index was taken once, and is with a worker      *)
(* until it has an answer.                                                 *)
PoolInv ==
  /\ nextIndex \in Nat \ {0} /\ calls \in [PoolWorkers -> Calls]
  /\ results \in [Indexes -> {"pending", "absent", "listed"}]
  /\ asked = [i \in Indexes |-> IF i < nextIndex THEN 1 ELSE 0]
  /\ \A w \in PoolWorkers : WorkerKeeps(calls[w])
  /\ \A i \in Indexes : i < nextIndex /\ results[i] = "pending"
                          => \E w \in PoolWorkers : calls[w].index = i
  /\ \A i \in Indexes : results[i] = "listed" => Accessible(i)

\* The workers of the pool.
LEMMA PoolSize ==
  /\ Chats \in Nat
  /\ Cardinality(PoolWorkers) \in Nat
  /\ PoolWorkers = 1 .. Cardinality(PoolWorkers)
  /\ Cardinality(PoolWorkers) <= Chats
  /\ Chats # 0 => PoolWorkers # {}
<1> DEFINE k == IF Concurrency < Chats THEN Concurrency ELSE Chats
<1>1. k \in Nat /\ k <= Chats /\ (Chats # 0 => k # 0) /\ Chats \in Nat
  BY PoolBounds
<1>2. PoolWorkers = 1 .. k
  BY DEF PoolWorkers
<1> HIDE DEF k
<1>3. Cardinality(1 .. k) = k
  <2>1. Cardinality(1 .. k) = IF 1 > k THEN 0 ELSE k - 1 + 1
    BY <1>1, FS_Interval
  <2>2. QED BY <1>1, <2>1
<1>4. k # 0 => 1 \in 1 .. k
  BY <1>1
<1>5. QED BY <1>1, <1>2, <1>3, <1>4

\* A call taken at the shared index.
LEMMA TakeCases ==
    ASSUME NEW index \in Nat \ {0}
    PROVE  /\ Take(index) \in Calls
           /\ index > Chats => Take(index) = Returned
           /\ index <= Chats => Take(index).index = index /\ Take(index).method # "getChat"
<1>1. CASE index > Chats
  BY <1>1, PoolBounds DEF Take, Calls, Returned
<1>2. CASE ~(index > Chats)
  <2>1. index \in Indexes
    BY <1>2, PoolBounds DEF Indexes
  <2>2. Take(index) = [index |-> index, method |-> "getChatMember"]
    BY <1>2 DEF Take
  <2>3. QED BY <1>2, <2>1, <2>2, PoolBounds DEF Calls
<1>3. QED BY <1>1, <1>2

\* Every worker starts with a chat of its own.
LEMMA PoolInitially == PoolInit => PoolInv
<1> SUFFICES ASSUME PoolInit PROVE PoolInv
  OBVIOUS
<1> DEFINE k == Cardinality(PoolWorkers)
<1>1. /\ k \in Nat /\ PoolWorkers = 1 .. k /\ k <= Chats /\ Chats \in Nat
  BY PoolSize
<1>2. /\ nextIndex = 1 + k /\ calls = [w \in PoolWorkers |-> Take(w)]
      /\ results = [i \in Indexes |-> "pending"]
      /\ asked = [i \in Indexes |-> IF i \in PoolWorkers THEN 1 ELSE 0]
  BY DEF PoolInit
<1> HIDE DEF k
<1>3. \A w \in PoolWorkers : /\ w \in Nat \ {0} /\ w <= Chats /\ w < nextIndex
                             /\ w \in Indexes
  BY <1>1, <1>2 DEF Indexes
<1>4. \A w \in PoolWorkers : /\ calls[w] \in Calls /\ calls[w].index = w
                             /\ calls[w].method # "getChat"
  BY <1>2, <1>3, TakeCases
<1>5. \A i \in Indexes : i \in PoolWorkers <=> i < nextIndex
  BY <1>1, <1>2 DEF Indexes
<1>6. /\ nextIndex \in Nat \ {0}
      /\ calls \in [PoolWorkers -> Calls]
      /\ results \in [Indexes -> {"pending", "absent", "listed"}]
      /\ asked = [i \in Indexes |-> IF i < nextIndex THEN 1 ELSE 0]
  BY <1>1, <1>2, <1>4, <1>5
<1>7. \A w \in PoolWorkers : WorkerKeeps(calls[w])
  BY <1>3, <1>4 DEF WorkerKeeps
<1>8. \A i \in Indexes : i < nextIndex => \E w \in PoolWorkers : calls[w].index = i
  BY <1>4, <1>5
<1>9. \A i \in Indexes : results[i] # "listed"
  BY <1>2
<1>10. QED BY <1>6, <1>7, <1>8, <1>9 DEF PoolInv

\* A worker that has its answer stores it and takes the next chat.
LEMMA MappedStep ==
    ASSUME PoolInv, NEW w \in PoolWorkers, calls[w].method # "none",
           NEW value \in {"absent", "listed"},
           value = "listed" => calls[w].method = "getChat",
           Mapped(w, value)
    PROVE  PoolInv'
<1> DEFINE n == nextIndex
           next == Take(n)
           mine == calls[w].index
<1>1. /\ n \in Nat \ {0} /\ calls \in [PoolWorkers -> Calls]
      /\ results \in [Indexes -> {"pending", "absent", "listed"}]
      /\ asked = [i \in Indexes |-> IF i < n THEN 1 ELSE 0]
      /\ \A i \in Indexes : i < n /\ results[i] = "pending"
                              => \E v \in PoolWorkers : calls[v].index = i
      /\ \A i \in Indexes : results[i] = "listed" => Accessible(i)
  BY DEF PoolInv
<1>2. /\ results' = [results EXCEPT ![mine] = value]
      /\ calls' = [calls EXCEPT ![w] = next]
      /\ nextIndex' = n + 1
      /\ asked' = [i \in Indexes |-> asked[i] + (IF i = n THEN 1 ELSE 0)]
  BY DEF Mapped, Store
<1>3. mine \in Indexes /\ (value = "listed" => Accessible(mine))
  <2>1. WorkerKeeps(calls[w]) /\ calls[w] # Returned
    BY DEF PoolInv, Returned
  <2>2. QED BY <2>1 DEF WorkerKeeps
<1>4. /\ next \in Calls
      /\ n > Chats => next = Returned
      /\ n <= Chats => next.index = n /\ next.method # "getChat"
  BY <1>1, TakeCases
<1>5. \A v \in PoolWorkers : WorkerKeeps(calls[v])
  BY DEF PoolInv
<1> HIDE DEF n, next, mine
<1>6. \A i \in Indexes : i \in Nat /\ i <= Chats /\ i \in Int
  BY PoolBounds DEF Indexes
<1>7. Chats \in Nat /\ n \in Nat
  BY <1>1, PoolBounds
<1>8. /\ nextIndex' \in Nat \ {0} /\ calls' \in [PoolWorkers -> Calls]
      /\ results' \in [Indexes -> {"pending", "absent", "listed"}]
  BY <1>1, <1>2, <1>3, <1>4
<1>9. asked' = [i \in Indexes |-> IF i < nextIndex' THEN 1 ELSE 0]
  <2>1. \A i \in Indexes : asked[i] + (IF i = n THEN 1 ELSE 0) = IF i < n + 1 THEN 1 ELSE 0
    BY <1>1, <1>6, <1>7
  <2>2. QED BY <1>2, <2>1
<1>10. \A v \in PoolWorkers : WorkerKeeps(calls[v])'
  <2> SUFFICES ASSUME NEW v \in PoolWorkers PROVE WorkerKeeps(calls[v])'
    OBVIOUS
  <2>1. CASE v = w
    <3>1. calls'[v] = next
      BY <1>1, <1>2, <2>1
    <3>2. CASE n > Chats
      BY <1>2, <1>4, <1>7, <3>1, <3>2 DEF WorkerKeeps
    <3>3. CASE n <= Chats
      <4>1. n \in Indexes
        BY <1>1, <1>7, <3>3 DEF Indexes
      <4>2. QED BY <1>2, <1>4, <1>7, <3>1, <3>3, <4>1 DEF WorkerKeeps
    <3>4. QED BY <1>7, <3>2, <3>3
  <2>2. CASE v # w
    <3>1. calls'[v] = calls[v]
      BY <1>1, <1>2, <2>2
    <3>2. \/ calls[v] = Returned /\ n > Chats
          \/ /\ calls[v].index \in Indexes /\ calls[v].index < n
             /\ calls[v].method = "getChat" => Accessible(calls[v].index)
      BY <1>5 DEF WorkerKeeps, n
    <3>3. QED BY <1>2, <1>6, <1>7, <3>1, <3>2 DEF WorkerKeeps
  <2>3. QED BY <2>1, <2>2
<1>11. \A i \in Indexes : i < nextIndex' /\ results'[i] = "pending"
                            => \E v \in PoolWorkers : calls'[v].index = i
  <2> SUFFICES ASSUME NEW i \in Indexes, i < n + 1, results'[i] = "pending"
               PROVE  \E v \in PoolWorkers : calls'[v].index = i
    BY <1>2
  <2>1. i # mine /\ results[i] = "pending"
    BY <1>1, <1>2, <1>3
  <2>2. CASE i = n
    <3>1. calls'[w] = next /\ n <= Chats
      BY <1>1, <1>2, <1>6, <2>2
    <3>2. QED BY <1>4, <2>2, <3>1
  <2>3. CASE i < n
    <3>1. PICK v \in PoolWorkers : calls[v].index = i
      BY <1>1, <2>1, <2>3
    <3>2. v # w
      BY <2>1, <3>1 DEF mine
    <3>3. calls'[v] = calls[v]
      BY <1>1, <1>2, <3>2
    <3>4. QED BY <3>1, <3>3
  <2>4. QED BY <1>6, <1>7, <2>2, <2>3
<1>12. \A i \in Indexes : results'[i] = "listed" => Accessible(i)
  BY <1>1, <1>2, <1>3
<1>13. QED BY <1>8, <1>9, <1>10, <1>11, <1>12 DEF PoolInv

\* The answers of Telegram, in any order.
LEMMA PoolStep ==
    ASSUME PoolInv, [PoolNext]_poolVars
    PROVE  PoolInv'
<1>1. CASE UNCHANGED poolVars
  BY <1>1 DEF poolVars, PoolInv, WorkerKeeps
<1>2. ASSUME NEW w \in PoolWorkers, MemberAnswered(w)
      PROVE  PoolInv'
  <2>1. CASE Mapped(w, "absent")
    <3>1. calls[w].method # "none"
      BY <1>2 DEF MemberAnswered
    <3>2. QED BY <2>1, <3>1, MappedStep
  <2>2. CASE /\ Accessible(calls[w].index)
             /\ calls' = [calls EXCEPT ![w].method = "getChat"]
             /\ UNCHANGED <<nextIndex, results, asked>>
    <3>1. calls \in [PoolWorkers -> Calls] /\ calls[w].method = "getChatMember"
      BY <1>2 DEF PoolInv, MemberAnswered
    <3>2. /\ calls' \in [PoolWorkers -> Calls]
          /\ \A v \in PoolWorkers : calls'[v].index = calls[v].index
          /\ \A v \in PoolWorkers : v # w => calls'[v] = calls[v]
      BY <2>2, <3>1 DEF Calls
    <3>3. WorkerKeeps(calls[w])'
      <4>1. calls[w].index \in Indexes /\ calls[w].index < nextIndex
        BY <3>1 DEF PoolInv, WorkerKeeps, Returned
      <4>2. QED BY <2>2, <3>2, <4>1 DEF WorkerKeeps
    <3>4. \A v \in PoolWorkers : WorkerKeeps(calls[v])'
      BY <2>2, <3>2, <3>3 DEF PoolInv, WorkerKeeps
    <3>5. QED BY <2>2, <3>2, <3>4 DEF PoolInv
  <2>3. QED BY <1>2, <2>1, <2>2 DEF MemberAnswered
<1>3. ASSUME NEW w \in PoolWorkers, ChatAnswered(w)
      PROVE  PoolInv'
  <2>1. calls[w].method = "getChat" /\ (Mapped(w, "listed") \/ Mapped(w, "absent"))
    BY <1>3 DEF ChatAnswered
  <2>2. CASE Mapped(w, "listed")
    BY <2>1, <2>2, MappedStep
  <2>3. CASE Mapped(w, "absent")
    BY <2>1, <2>3, MappedStep
  <2>4. QED BY <2>1, <2>2, <2>3
<1>4. QED BY <1>1, <1>2, <1>3 DEF PoolNext

\* With all workers back the index is past the catalog.
LEMMA PoolInvCovers == PoolInv => PoolCovers
<1> SUFFICES ASSUME PoolInv, \A w \in PoolWorkers : calls[w] = Returned, NEW i \in Indexes
             PROVE  /\ asked[i] = 1 /\ results[i] # "pending"
                    /\ results[i] = "listed" => Accessible(i)
  BY DEF PoolCovers
<1>1. Chats \in Nat /\ i \in 1 .. Chats /\ Chats # 0
  BY PoolBounds DEF Indexes
<1>2. PICK w \in PoolWorkers : TRUE
  BY <1>1, PoolSize
<1>3. calls[w] = Returned /\ WorkerKeeps(calls[w])
  BY DEF PoolInv
<1>4. nextIndex > Chats
  BY <1>1, <1>3 DEF WorkerKeeps, Indexes, Returned
<1>5. nextIndex \in Nat /\ i < nextIndex
  BY <1>1, <1>4 DEF PoolInv
<1>6. \A v \in PoolWorkers : calls[v].index # i
  BY <1>1 DEF Returned
<1>7. QED BY <1>5, <1>6 DEF PoolInv

(* However the answers are ordered, a pool of any size asks about every    *)
(* chat of a catalog of any length once, and lists it on its own answers.  *)
THEOREM PoolSafe == PoolSpec => []PoolCovers
<1>1. QED BY PoolInitially, PoolStep, PoolInvCovers, PTL DEF PoolSpec

-----------------------------------------------------------------------------
(***************************************************************************)
(* The list of source messages: what is put off to a frame.                *)
(***************************************************************************)
SourcePages == [scrollTop : Int, maxScroll : Int, room : Int, insets : Int, moving : BOOLEAN,
                unreported : SUBSET {"list", "window"}]

SourceTypes ==
  /\ mounted \in BOOLEAN
  /\ seen \in [Items -> BOOLEAN] /\ inView \in [Items -> BOOLEAN]
  /\ visibility = [frame |-> visibility.frame, pending |-> visibility.pending]
  /\ motion \in [Items -> [active : BOOLEAN, timer : BOOLEAN]]
  /\ page \in SourcePages
  /\ gradients \in [frame : BOOLEAN, top : Int, bottom : Int]
  /\ sized \in [frame : BOOLEAN, needsInsets : BOOLEAN, insets : Int, height : Int]

(* What is shown, with what is staged, is what was reported; only a frame  *)
(* that is due lets it differ.                                             *)
ItemsInv ==
  /\ ~visibility.frame => visibility.pending = Nothing
  /\ mounted => \A i \in Items : IsStaged(i) = seen[i]
  /\ mounted => \A i \in Items : motion[i].active => motion[i].timer

(* The gradients and the height are those of the page, or a frame is due,  *)
(* or a change went unreported; the insets that are cached are the page's, *)
(* or due to be read again.                                                *)
MeasuresInv ==
  mounted =>
    /\ ~gradients.frame /\ "list" \notin page.unreported
         => /\ gradients.top = Opacities(page.scrollTop, page.maxScroll).top
            /\ gradients.bottom = Opacities(page.scrollTop, page.maxScroll).bottom
    /\ ~sized.frame => ~sized.needsInsets
    /\ ~sized.needsInsets => sized.insets = page.insets
    /\ ~sized.frame /\ ~page.moving /\ "window" \notin page.unreported
         => sized.height = AvailableHeight(page.room, page.insets)

(* The clean-ups leave nothing to run.                                     *)
UnmountedInv ==
  ~mounted => /\ ~visibility.frame /\ ~gradients.frame /\ ~sized.frame
              /\ \A i \in Items : ~motion[i].timer

SourceInv == SourceTypes /\ ItemsInv /\ MeasuresInv /\ UnmountedInv

\* The list is as the invariant says when it is mounted.
LEMMA SourceInitially == SourceInit => SourceInv
<1> SUFFICES ASSUME SourceInit PROVE SourceInv
  OBVIOUS
<1> USE LengthsAreNat DEF SourceInit
<1>1. SourceTypes
  BY DEF SourceTypes, SourcePages, Nothing
<1>2. ItemsInv
  BY DEF ItemsInv, IsStaged, Nothing
<1>3. MeasuresInv /\ UnmountedInv
  BY DEF MeasuresInv, UnmountedInv
<1>4. QED BY <1>1, <1>2, <1>3 DEF SourceInv

\* What the pure helpers return.
LEMMA SourceNumbers ==
    ASSUME NEW a \in Int, NEW b \in Int
    PROVE  /\ Least(a, b) \in Int /\ AvailableHeight(a, b) \in Int
           /\ Opacities(a, b).top \in Int /\ Opacities(a, b).bottom \in Int
<1>1. ASSUME NEW x \in Int, NEW y \in Int PROVE Least(x, y) \in Int
  BY DEF Least
<1>2. AvailableHeight(a, b) \in Int
  BY DEF AvailableHeight
<1>3. Least(a, b) \in Int /\ Least(Least(a, b), 1) \in Int /\ Least(b - Least(a, b), 1) \in Int
  <2>1. Least(a, b) \in Int
    BY <1>1
  <2>2. b - Least(a, b) \in Int
    BY <2>1
  <2>3. Least(Least(a, b), 1) \in Int
    BY ONLY <1>1, <2>1
  <2>4. Least(b - Least(a, b), 1) \in Int
    BY ONLY <1>1, <2>2
  <2>5. QED BY <2>1, <2>3, <2>4
<1>4. QED BY <1>2, <1>3 DEF Opacities

\* Reports about the items, their frame, and the end of their motions.
LEMMA ItemsStep ==
    ASSUME SourceInv, NEW i \in Items,
           \/ \E isIntersecting \in BOOLEAN : StageVisibility(i, isIntersecting)
           \/ TransitionEnd(i) \/ MotionTimeout(i) \/ VisibilityFrame
    PROVE  SourceInv'
<1>1. /\ SourceTypes /\ ItemsInv /\ MeasuresInv /\ UnmountedInv
      /\ mounted \in BOOLEAN
      /\ motion \in [Items -> [active : BOOLEAN, timer : BOOLEAN]]
  BY DEF SourceInv, SourceTypes
<1>2. UNCHANGED <<mounted, page, gradients, sized>>
  BY DEF StageVisibility, TransitionEnd, MotionTimeout, VisibilityFrame, itemVars, measureVars
<1>3. MeasuresInv'
  BY <1>1, <1>2 DEF MeasuresInv
<1>4. ASSUME NEW b \in BOOLEAN, StageVisibility(i, b)
      PROVE  SourceInv'
  <2>1. mounted /\ seen' = [seen EXCEPT ![i] = b] /\ UNCHANGED inView
    BY <1>4 DEF StageVisibility
  <2>2. CASE IsStaged(i) = b
    <3>1. UNCHANGED <<visibility, motion>>
      BY <1>4, <2>2 DEF StageVisibility
    <3>2. seen' = seen
      <4>1. seen[i] = b
        BY <1>1, <2>1, <2>2 DEF ItemsInv
      <4>2. QED BY <1>1, <2>1, <4>1 DEF SourceTypes
    <3>3. QED BY <1>1, <1>2, <1>3, <2>1, <3>1, <3>2
              DEF SourceInv, SourceTypes, ItemsInv, UnmountedInv, IsStaged
  <2>3. CASE IsStaged(i) # b
    <3>1. /\ motion' = [motion EXCEPT ![i] = [active |-> TRUE, timer |-> TRUE]]
          /\ visibility' = [frame |-> TRUE, pending |-> Staged(i, b)]
      BY <1>4, <2>3 DEF StageVisibility
    <3>2. SourceTypes'
      BY <1>1, <1>2, <2>1, <3>1 DEF SourceTypes
    <3>3. \A j \in Items : motion'[j].active => motion'[j].timer
      BY <1>1, <2>1, <3>1 DEF ItemsInv
    <3>4. \A j \in Items : IsStaged(j)' = seen'[j]
      <4> SUFFICES ASSUME NEW j \in Items PROVE IsStaged(j)' = seen'[j]
        OBVIOUS
      <4> DEFINE pending == visibility.pending
                 staged == Staged(i, b)
      <4>1. /\ DOMAIN staged = {i} \cup DOMAIN pending
            /\ staged[i] = b
            /\ j # i /\ j \in DOMAIN pending => staged[j] = pending[j]
        BY DEF Staged
      <4>2. visibility'.pending = staged
        BY <3>1
      <4>3. IsStaged(j) = seen[j] /\ seen \in [Items -> BOOLEAN]
        BY <1>1, <2>1 DEF ItemsInv, SourceTypes
      <4> HIDE DEF staged
      <4>4. CASE j = i
        BY <2>1, <4>1, <4>2, <4>3, <4>4 DEF IsStaged
      <4>5. CASE j # i
        BY <2>1, <4>1, <4>2, <4>3, <4>5 DEF IsStaged
      <4>6. QED BY <4>4, <4>5
    <3>5. ItemsInv'
      <4>1. visibility'.frame
        BY <3>1
      <4>2. QED BY <3>3, <3>4, <4>1 DEF ItemsInv
    <3>6. UnmountedInv'
      BY <1>2, <2>1 DEF UnmountedInv
    <3>7. QED BY <1>3, <3>2, <3>5, <3>6 DEF SourceInv
  <2>4. QED BY <2>2, <2>3
<1>5. CASE TransitionEnd(i) \/ MotionTimeout(i)
  <2>1. motion' = [motion EXCEPT ![i] = AtRest] /\ UNCHANGED <<seen, visibility, inView>>
    BY <1>5 DEF TransitionEnd, MotionTimeout
  <2>2. \A j \in Items : /\ motion'[j] \in [active : BOOLEAN, timer : BOOLEAN]
                         /\ motion'[j] = motion[j] \/ (~motion'[j].active /\ ~motion'[j].timer)
    BY <1>1, <2>1 DEF AtRest
  <2>3. SourceTypes'
    BY <1>1, <1>2, <2>1 DEF SourceTypes, AtRest
  <2>4. ItemsInv'
    BY <1>1, <1>2, <2>1, <2>2 DEF ItemsInv, IsStaged
  <2>5. UnmountedInv'
    BY <1>1, <1>2, <2>1, <2>2 DEF UnmountedInv
  <2>6. QED BY <1>3, <2>3, <2>4, <2>5 DEF SourceInv
<1>6. CASE VisibilityFrame
  <2>1. /\ visibility.frame
        /\ inView' = [j \in Items |-> IsStaged(j)]
        /\ visibility' = [frame |-> FALSE, pending |-> Nothing]
        /\ UNCHANGED <<seen, motion>>
    BY <1>6 DEF VisibilityFrame
  <2>2. mounted
    BY <1>1, <2>1 DEF UnmountedInv
  <2>3. /\ \A j \in Items : inView'[j] = seen[j]
        /\ inView' \in [Items -> BOOLEAN]
    BY <1>1, <2>1, <2>2 DEF ItemsInv, SourceTypes
  <2>4. SourceTypes'
    BY <1>1, <1>2, <2>1, <2>3 DEF SourceTypes
  <2>5. visibility'.pending = Nothing /\ DOMAIN Nothing = {}
    BY <2>1 DEF Nothing
  <2>6. ItemsInv'
    BY <1>1, <1>2, <2>1, <2>2, <2>3, <2>5 DEF ItemsInv, IsStaged
  <2>7. UnmountedInv'
    BY <1>2, <2>2 DEF UnmountedInv
  <2>8. QED BY <1>3, <2>4, <2>6, <2>7 DEF SourceInv
<1>7. QED BY <1>4, <1>5, <1>6

\* Changes of the page, and the frames that measure it.
LEMMA MeasuresStep ==
    ASSUME SourceInv,
           \/ ListMoves \/ ContentChanges \/ CommitGradients \/ Resize \/ PageScrolls
           \/ ViewportMoves \/ ViewportIsStable \/ MeasureWindow
    PROVE  SourceInv'
<1>1. /\ SourceTypes /\ ItemsInv /\ MeasuresInv /\ UnmountedInv
      /\ mounted \in BOOLEAN
      /\ page \in SourcePages
      /\ gradients \in [frame : BOOLEAN, top : Int, bottom : Int]
      /\ sized \in [frame : BOOLEAN, needsInsets : BOOLEAN, insets : Int, height : Int]
  BY DEF SourceInv, SourceTypes
<1>2. UNCHANGED <<mounted, seen, visibility, inView, motion>>
  BY DEF ListMoves, ContentChanges, CommitGradients, Resize, PageScrolls, ViewportMoves,
         ViewportIsStable, MeasureWindow, itemVars
<1>3. mounted
  BY <1>1 DEF ListMoves, ContentChanges, CommitGradients, Resize, PageScrolls, ViewportMoves,
              ViewportIsStable, MeasureWindow, UnmountedInv
<1>4. ItemsInv' /\ UnmountedInv'
  BY <1>1, <1>2, <1>3 DEF ItemsInv, UnmountedInv, IsStaged
<1>5. \A n \in Measures : n \in Int
  BY LengthsAreNat DEF Measures
<1>6. SUFFICES /\ page' \in SourcePages
               /\ gradients' \in [frame : BOOLEAN, top : Int, bottom : Int]
               /\ sized' \in [frame : BOOLEAN, needsInsets : BOOLEAN, insets : Int, height : Int]
               /\ MeasuresInv'
  BY <1>1, <1>2, <1>4 DEF SourceInv, SourceTypes
<1>7. CASE ListMoves
  <2>1. PICK scrollTop, maxScroll \in Measures :
          page' = [page EXCEPT !.scrollTop = Least(scrollTop, maxScroll), !.maxScroll = maxScroll]
    BY <1>7 DEF ListMoves
  <2>2. gradients' = [gradients EXCEPT !.frame = TRUE] /\ UNCHANGED sized
    BY <1>7 DEF ListMoves
  <2>3. Least(scrollTop, maxScroll) \in Int /\ maxScroll \in Int
    BY <1>5, SourceNumbers
  <2>4. /\ page' \in SourcePages
        /\ page'.room = page.room /\ page'.insets = page.insets
        /\ page'.moving = page.moving /\ page'.unreported = page.unreported
    BY <1>1, <2>1, <2>3 DEF SourcePages
  <2>5. gradients'.frame
    BY <1>1, <2>2
  <2>6. MeasuresInv'
    BY <1>1, <1>2, <2>2, <2>4, <2>5 DEF MeasuresInv
  <2>7. QED BY <1>1, <2>2, <2>4, <2>6
<1>8. CASE CommitGradients
  <2> DEFINE drawn == Opacities(page.scrollTop, page.maxScroll)
  <2>1. /\ gradients' = [frame |-> FALSE, top |-> drawn.top, bottom |-> drawn.bottom]
        /\ page' = [page EXCEPT !.unreported = page.unreported \ {"list"}]
        /\ UNCHANGED sized
    BY <1>8 DEF CommitGradients
  <2>2. drawn.top \in Int /\ drawn.bottom \in Int
    BY <1>1, SourceNumbers DEF SourcePages
  <2>3. /\ page' \in SourcePages
        /\ page'.scrollTop = page.scrollTop /\ page'.maxScroll = page.maxScroll
        /\ page'.room = page.room /\ page'.insets = page.insets /\ page'.moving = page.moving
        /\ "window" \in page'.unreported <=> "window" \in page.unreported
    BY <1>1, <2>1 DEF SourcePages
  <2>4. MeasuresInv'
    BY <1>1, <1>2, <2>1, <2>3 DEF MeasuresInv
  <2> HIDE DEF drawn
  <2>5. QED BY <1>1, <2>1, <2>2, <2>3, <2>4
<1>9. CASE Resize
  <2>1. PICK room, insets \in Measures : page' = [page EXCEPT !.room = room, !.insets = insets]
    BY <1>9 DEF Resize
  <2>2. sized' = ScheduleGeometry /\ UNCHANGED gradients
    BY <1>9 DEF Resize
  <2>3. /\ page' \in SourcePages
        /\ page'.scrollTop = page.scrollTop /\ page'.maxScroll = page.maxScroll
        /\ page'.unreported = page.unreported
    BY <1>1, <1>5, <2>1 DEF SourcePages
  <2>4. sized' \in [frame : BOOLEAN, needsInsets : BOOLEAN, insets : Int, height : Int]
    BY <1>1, <2>2 DEF ScheduleGeometry
  <2>5. sized'.frame /\ sized'.needsInsets
    BY <1>1, <2>2 DEF ScheduleGeometry
  <2>6. MeasuresInv'
    BY <1>1, <1>2, <2>2, <2>3, <2>5 DEF MeasuresInv
  <2>7. QED BY <1>1, <2>2, <2>3, <2>4, <2>6
<1>10. CASE ViewportMoves
  <2>1. PICK room \in Measures : page' = [page EXCEPT !.room = room, !.moving = TRUE]
    BY <1>10 DEF ViewportMoves
  <2>2. UNCHANGED <<gradients, sized>>
    BY <1>10 DEF ViewportMoves
  <2>3. /\ page' \in SourcePages
        /\ page'.scrollTop = page.scrollTop /\ page'.maxScroll = page.maxScroll
        /\ page'.insets = page.insets /\ page'.unreported = page.unreported
    BY <1>1, <1>5, <2>1 DEF SourcePages
  <2>4. page'.moving
    BY <1>1, <2>1 DEF SourcePages
  <2>5. MeasuresInv'
    BY <1>1, <1>2, <2>2, <2>3, <2>4 DEF MeasuresInv
  <2>6. QED BY <1>1, <2>2, <2>3, <2>5
<1>11. CASE ViewportIsStable
  <2>1. page' = [page EXCEPT !.moving = FALSE] /\ sized' = ScheduleGeometry /\ UNCHANGED gradients
    BY <1>11 DEF ViewportIsStable
  <2>2. /\ page' \in SourcePages
        /\ page'.scrollTop = page.scrollTop /\ page'.maxScroll = page.maxScroll
        /\ page'.unreported = page.unreported
    BY <1>1, <2>1 DEF SourcePages
  <2>3. sized' \in [frame : BOOLEAN, needsInsets : BOOLEAN, insets : Int, height : Int]
    BY <1>1, <2>1 DEF ScheduleGeometry
  <2>4. sized'.frame /\ sized'.needsInsets
    BY <1>1, <2>1 DEF ScheduleGeometry
  <2>5. MeasuresInv'
    BY <1>1, <1>2, <2>1, <2>2, <2>4 DEF MeasuresInv
  <2>6. QED BY <1>1, <2>1, <2>2, <2>3, <2>5
<1>12. CASE MeasureWindow
  <2> DEFINE insets == IF sized.needsInsets THEN page.insets ELSE sized.insets
  <2>1. /\ sized' = [frame |-> FALSE, needsInsets |-> FALSE, insets |-> insets,
                     height |-> AvailableHeight(page.room, insets)]
        /\ page' = [page EXCEPT !.unreported = page.unreported \ {"window"}]
        /\ UNCHANGED gradients
    BY <1>12 DEF MeasureWindow
  <2>2. insets = page.insets
    BY <1>1, <1>3 DEF MeasuresInv
  <2> HIDE DEF insets
  <2>3. insets \in Int /\ AvailableHeight(page.room, insets) \in Int
    BY <1>1, <2>2, SourceNumbers DEF SourcePages
  <2>4. /\ page' \in SourcePages
        /\ page'.scrollTop = page.scrollTop /\ page'.maxScroll = page.maxScroll
        /\ page'.room = page.room /\ page'.insets = page.insets
        /\ "list" \in page'.unreported <=> "list" \in page.unreported
    BY <1>1, <2>1 DEF SourcePages
  <2>5. MeasuresInv'
    BY <1>1, <1>2, <2>1, <2>2, <2>4 DEF MeasuresInv
  <2>6. QED BY <1>1, <2>1, <2>3, <2>4, <2>5
<1>13. CASE ContentChanges
  <2>1. PICK maxScroll \in Measures :
          page' = [page EXCEPT !.maxScroll = maxScroll,
                               !.unreported = page.unreported \cup {"list"}]
    BY <1>13 DEF ContentChanges
  <2>2. UNCHANGED <<gradients, sized>>
    BY <1>13 DEF ContentChanges
  <2>3. /\ page' \in SourcePages /\ "list" \in page'.unreported
        /\ page'.room = page.room /\ page'.insets = page.insets /\ page'.moving = page.moving
        /\ "window" \in page'.unreported <=> "window" \in page.unreported
    BY <1>1, <1>5, <2>1 DEF SourcePages
  <2>4. MeasuresInv'
    BY <1>1, <1>2, <2>2, <2>3 DEF MeasuresInv
  <2>5. QED BY <1>1, <2>2, <2>3, <2>4
<1>14. CASE PageScrolls
  <2>1. PICK room \in Measures :
          page' = [page EXCEPT !.room = room, !.unreported = page.unreported \cup {"window"}]
    BY <1>14 DEF PageScrolls
  <2>2. UNCHANGED <<gradients, sized>>
    BY <1>14 DEF PageScrolls
  <2>3. /\ page' \in SourcePages /\ "window" \in page'.unreported
        /\ page'.scrollTop = page.scrollTop /\ page'.maxScroll = page.maxScroll
        /\ page'.insets = page.insets
        /\ "list" \in page'.unreported <=> "list" \in page.unreported
    BY <1>1, <1>5, <2>1 DEF SourcePages
  <2>4. MeasuresInv'
    BY <1>1, <1>2, <2>2, <2>3 DEF MeasuresInv
  <2>5. QED BY <1>1, <2>2, <2>3, <2>4
<1>15. QED BY <1>7, <1>8, <1>9, <1>10, <1>11, <1>12, <1>13, <1>14

\* The reader leaves: the clean-ups run.
LEMMA UnmountStep ==
    ASSUME SourceInv, Unmount
    PROVE  SourceInv'
<1>1. /\ SourceTypes
      /\ motion \in [Items -> [active : BOOLEAN, timer : BOOLEAN]]
      /\ gradients \in [frame : BOOLEAN, top : Int, bottom : Int]
      /\ sized \in [frame : BOOLEAN, needsInsets : BOOLEAN, insets : Int, height : Int]
  BY DEF SourceInv, SourceTypes
<1>2. /\ mounted' = FALSE
      /\ visibility' = [frame |-> FALSE, pending |-> Nothing]
      /\ motion' = [i \in Items |-> [motion[i] EXCEPT !.timer = FALSE]]
      /\ gradients' = [gradients EXCEPT !.frame = FALSE]
      /\ sized' = [sized EXCEPT !.frame = FALSE]
      /\ UNCHANGED <<seen, inView, page>>
  BY DEF Unmount
<1>3. /\ motion' \in [Items -> [active : BOOLEAN, timer : BOOLEAN]]
      /\ gradients' \in [frame : BOOLEAN, top : Int, bottom : Int]
      /\ sized' \in [frame : BOOLEAN, needsInsets : BOOLEAN, insets : Int, height : Int]
  BY <1>1, <1>2
<1>4. ~visibility'.frame /\ ~gradients'.frame /\ ~sized'.frame
  BY <1>1, <1>2
<1>5. \A i \in Items : ~motion'[i].timer
  BY <1>1, <1>2
<1>6. SourceTypes'
  BY <1>1, <1>2, <1>3 DEF SourceTypes
<1>7. ItemsInv' /\ MeasuresInv'
  BY <1>2 DEF ItemsInv, MeasuresInv
<1>8. QED BY <1>4, <1>5, <1>6, <1>7 DEF SourceInv, UnmountedInv

\* Every step of the list keeps its invariant.
LEMMA SourceStep ==
    ASSUME SourceInv, [SourceNext]_sourceVars
    PROVE  SourceInv'
<1>1. CASE UNCHANGED sourceVars
  BY <1>1 DEF sourceVars, SourceInv, SourceTypes, ItemsInv, MeasuresInv, UnmountedInv, IsStaged
<1>2. CASE VisibilityFrame
  <2>1. CASE Items # {}
    BY <1>2, <2>1, ItemsStep
  <2>2. CASE Items = {}
    BY <1>2, <2>2 DEF VisibilityFrame, measureVars, SourceInv, SourceTypes, ItemsInv,
                      MeasuresInv, UnmountedInv, Nothing
  <2>3. QED BY <2>1, <2>2
<1>3. QED
  BY <1>1, <1>2, ItemsStep, MeasuresStep, UnmountStep DEF SourceNext

\* Without a frame that is due nothing is staged.
LEMMA SourceInvSettles == SourceInv => SourcesSettle
<1> SUFFICES ASSUME SourceInv PROVE SourcesSettle
  OBVIOUS
<1>1. SourceTypes /\ ItemsInv /\ MeasuresInv /\ UnmountedInv
  BY DEF SourceInv
<1>2. mounted /\ ~visibility.frame => inView = seen
  <2>1. SUFFICES ASSUME mounted, ~visibility.frame PROVE \A i \in Items : inView[i] = seen[i]
    BY <1>1 DEF SourceTypes
  <2>2. DOMAIN visibility.pending = {}
    BY <1>1, <2>1 DEF ItemsInv, Nothing
  <2>3. QED BY <1>1, <2>1, <2>2 DEF ItemsInv, IsStaged
<1>3. mounted /\ ~gradients.frame /\ "list" \notin page.unreported =>
        [top |-> gradients.top, bottom |-> gradients.bottom] = Opacities(page.scrollTop, page.maxScroll)
  BY <1>1 DEF MeasuresInv, Opacities
<1>4. QED BY <1>1, <1>2, <1>3 DEF SourcesSettle, ItemsInv, MeasuresInv, UnmountedInv

(* However the reports about a list and its frames are ordered, what it    *)
(* shows once no frame is due is what was reported last.                   *)
THEOREM SourceSafe == SourceSpec => []SourcesSettle
<1>1. QED BY SourceInitially, SourceStep, SourceInvSettles, PTL DEF SourceSpec

-----------------------------------------------------------------------------
(* A surface is placed inside the viewport, whatever the sizes.            *)
THEOREM PlacementIsInside == PlacementSpec => []PlacedInside
<1>1. PlacementInit => PlacedInside
  <2>. SUFFICES ASSUME PlacementInit, placing.size <= placing.high - placing.low
                PROVE  PlacedInside
    BY DEF PlacedInside
  <2>1. /\ placing.low \in Int /\ placing.high \in Int /\ placing.size \in Int
        /\ placing.at \in Int /\ placing.anchor \in Int /\ placing.gap \in Int
        /\ placing.flip \in BOOLEAN
    BY ExtentIsNat DEF PlacementInit, Placings
  <2>2. placing.size >= 0 /\ placing.anchor >= 0 /\ placing.gap >= 0
    BY ExtentIsNat DEF PlacementInit, Placings
  <2>3. ASSUME NEW start \in Int
        PROVE  /\ Within(placing, Clamped(placing, start))
               /\ Within(placing, Shifted(placing, start))
    BY <2>1, <2>2 DEF Within, Clamped, Shifted, LargerOf, SmallerOf
  <2>4. Within(placing, PointPlacement(placing))
    BY <2>1, <2>3 DEF PointPlacement
  <2>5. Within(placing, BlockPlacement(placing))
    BY <2>1, <2>3 DEF BlockPlacement, Beside
  <2>6. Within(placing, InlinePlacement(placing))
    BY <2>1, <2>3 DEF InlinePlacement, Flush
  <2>7. \/ PointPlacement(placing) >= placing.at
        \/ PointPlacement(placing) + placing.size <= placing.at
        \/ placing.at - placing.gap - placing.size < placing.low
    BY <2>1, <2>2 DEF PointPlacement, Clamped, LargerOf, SmallerOf
  <2>8. \/ BlockPlacement(placing) >= placing.at + placing.anchor
        \/ BlockPlacement(placing) + placing.size <= placing.at
        \/ ~Within(placing, Beside(placing, TRUE)) /\ ~Within(placing, Beside(placing, FALSE))
    BY <2>1, <2>2 DEF BlockPlacement, Within, Beside, Shifted, LargerOf, SmallerOf
  <2>. QED
    BY <2>4, <2>5, <2>6, <2>7, <2>8 DEF PlacedInside
<1>2. PlacedInside /\ [UNCHANGED placing]_placing => PlacedInside'
  BY DEF PlacedInside, Within, PointPlacement, BlockPlacement, InlinePlacement, Shifted,
     Beside, Flush, Clamped, LargerOf, SmallerOf
<1>. QED
  BY <1>1, <1>2, PTL DEF PlacementSpec
=============================================================================
