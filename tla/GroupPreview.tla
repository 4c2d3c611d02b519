---------------------------- MODULE GroupPreview ----------------------------
(* The preview of a summary in a group chat, end to end: the session of      *)
(* ProgressiveSession over the transport of ConflatingWriter.                *)
(*                                                                           *)
(* The writer knows the texts that the publisher handed over, so its text is *)
(* the publisher's published. update() of the transport returns at once;     *)
(* commit() and fail() return when finalize() of the writer does.            *)
EXTENDS ConflatingWriter

VARIABLES
    state, streamed, timer, desired, updating, terminal, awaiting,
    call, flushed, ended

Session == INSTANCE ProgressiveSession WITH text <- streamed, published <- text

session == <<state, streamed, timer, desired, updating, terminal, awaiting,
             call, flushed, ended>>
sender == <<writer, final, request, messageId, chat, ending, lost>>
groupVars == <<session, vars>>

GroupInit == Init /\ Session!Init

-----------------------------------------------------------------------------
\* The session works without the transport, the transport without the session.
SessionAlone ==
    /\ \/ Session!Begin \/ Session!TimerFires
       \/ Session!Finalize \/ Session!Commit \/ Session!Fail
       \/ \E n \in 1 .. MaxText : Session!Append(n)
    /\ UNCHANGED sender

WriterAlone(i) ==
    /\ Arrive(i) \/ Answered(i) \/ Failed(i)
    /\ UNCHANGED session

WriterDue ==
    /\ TimerFires \/ FinalProceeds
    /\ UNCHANGED session

(* transport.update: the writer takes the text. It throws when finalizing or *)
(* closed; UpdatesAreTaken shows that the case does not occur.               *)
HandOver ==
    /\ updating # 0
    /\ Session!UpdateAccepted
    /\ Update(updating)

\* transport.begin: sendChatAction
Typing ==
    /\ call = "begin"
    /\ Session!CallAccepted \/ Session!CallRejected
    /\ UNCHANGED sender

\* transport.commit and transport.fail call finalize() of the writer ...
Ends ==
    /\ ending = "no"
    /\ \/ call = "commit" /\ Commit(streamed)
       \/ call = "fail" /\ Fail
    /\ UNCHANGED session

\* Mutant: the transport's commit resolves while the writer is finalizing.
EndedEarly ==
    /\ call \in {"commit", "fail"} /\ ending = call
    /\ IF final.pc # "idle" \/ writer.closed THEN Session!CallAccepted
                                             ELSE Session!CallRejected
    /\ UNCHANGED sender

\* ... and return or throw when it does.
Ended ==
    /\ call \in {"commit", "fail"} /\ ending = call /\ final.pc = "idle"
    /\ IF writer.closed THEN Session!CallAccepted ELSE Session!CallRejected
    /\ UNCHANGED sender

GroupNext ==
    \/ SessionAlone \/ HandOver \/ Typing \/ Ends \/ Ended
    \/ WriterDue \/ \E i \in Issuers : WriterAlone(i)

(* As ConflatingWriter's Fairness: due callbacks run, requests get an answer *)
(* or an error. Nothing is asked of the stream of the model.                 *)
GroupFairness ==
    /\ WF_groupVars(TimerFires /\ UNCHANGED session)
    /\ WF_groupVars(FinalProceeds /\ UNCHANGED session)
    /\ \A i \in Issuers :
          /\ WF_groupVars(Arrive(i) /\ UNCHANGED session)
          /\ WF_groupVars((Answered(i) \/ Failed(i)) /\ UNCHANGED session)

FairGroupSpec == GroupInit /\ [][GroupNext]_groupVars /\ GroupFairness

-----------------------------------------------------------------------------
(* The group chat shows the whole summary, in the message whose id the       *)
(* processor stores as the receipt, when the session has completed; nothing  *)
(* that is still under way could replace it.                                 *)
CompletedIsShown ==
    state = "completed" =>
        /\ messageId # 0 /\ chat[messageId] = streamed
        /\ \A i \in Issuers : request[i].at = "none"
        /\ writer.pending = 0 /\ ~writer.timer /\ updating = 0

(* The writer never throws at the publisher. Hence an update cannot fail in a*)
(* group chat, whatever becomes of the edits, and neither can finalize() of  *)
(* the session: no preview prevents the delivery.                            *)
UpdatesAreTaken ==
    updating # 0 =>
        /\ ~writer.closed /\ ~writer.finalizing /\ ending = "no"
        /\ updating > text

(* Session and transport together: a completed session has shown the whole   *)
(* summary, and no update of the session is refused by the transport.        *)
GroupInv == CompletedIsShown /\ UpdatesAreTaken
=============================================================================
