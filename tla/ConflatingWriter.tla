-------------------------- MODULE ConflatingWriter --------------------------
(* The preview of a summary in a group chat: ConflatingWriter, which keeps   *)
(* the newest text and writes it at most once at a time, and                 *)
(* EditableMessageTransport, whose write sends one message and edits it from *)
(* then on (packages/telegram/src/transport).                                *)
(*                                                                           *)
(* A text is its version, since it only ever grows: 1..MaxText while the     *)
(* model streams, FailText for the notice of a failure; 0 is "no text".      *)
(* JavaScript runs a callback to its end, so an action is a callback; between*)
(* two of them anything the event loop may deliver can come.                 *)
EXTENDS Naturals, Sequences

CONSTANTS MaxText,  \* versions of the streamed text (bound)
          MaxLost   \* messages posted whose answer is lost (bound)

ASSUMPTION BoundsAssumption == MaxText \in Nat /\ MaxLost \in Nat

VARIABLES
    writer,     \* the fields of the ConflatingWriter
    final,      \* the call of finalize: what it writes, where it stands
    request,    \* the HTTP requests open for the writer and for finalize
    messageId,  \* EditableMessageTransport.messageId, 0 for undefined
    chat,       \* Telegram: the texts of the bot's messages of this command
    text,       \* the newest version given to update
    ending,     \* how the caller ended the preview: "no", "commit", "fail"
    lost        \* messages posted whose answer was lost (history)

vars == <<writer, final, request, messageId, chat, text, ending, lost>>
transport == <<messageId, chat, lost>>
caller == <<text, ending>>

FailText == MaxText + 1
Texts == 1 .. FailText
Issuers == {"preview", "final"}
Closed == [at |-> "none", to |-> 0]

Writers == [pending : 0 .. MaxText, lastWritten : 0 .. FailText,
            inFlight : 0 .. MaxText, timer : BOOLEAN,
            finalizing : BOOLEAN, closed : BOOLEAN]

Init ==
    /\ writer = [pending |-> 0, lastWritten |-> 0, inFlight |-> 0,
                 timer |-> FALSE, finalizing |-> FALSE, closed |-> FALSE]
    /\ final = [pc |-> "idle", text |-> 0]
    /\ request = [i \in Issuers |-> Closed]
    /\ messageId = 0
    /\ chat = <<>>
    /\ text = 0
    /\ ending = "no"
    /\ lost = 0

-----------------------------------------------------------------------------
(* The private methods of the writer, as functions of its fields.            *)

Blocked(w) == w.closed \/ w.finalizing \/ w.inFlight # 0 \/ w.pending = 0

StartWrite(w) ==
    IF Blocked(w) THEN w
    ELSE [w EXCEPT !.pending = 0,
                   !.inFlight = IF w.pending = w.lastWritten THEN @
                                                             ELSE w.pending]

(* What schedule() can leave. The first text is written at once; a later one *)
(* either is due now or waits for the timer, an earlier promise being kept.  *)
Schedule(w) ==
    LET unarmed == [w EXCEPT !.timer = FALSE]
    IN IF Blocked(w) THEN {w}
       ELSE IF w.pending = w.lastWritten
       THEN {[unarmed EXCEPT !.pending = 0]}
       ELSE {StartWrite(unarmed)} \cup
            IF w.lastWritten = 0 THEN {} ELSE {[w EXCEPT !.timer = TRUE]}

(* A write that starts calls Telegram: sendMessage without a message id,     *)
(* editMessageText with one.                                                 *)
Call(i) == request' = [request EXCEPT ![i] = [at |-> "sent", to |-> messageId]]

CallIfStarted ==
    IF writer'.inFlight # writer.inFlight /\ writer'.inFlight # 0
    THEN Call("preview") ELSE UNCHANGED request

-----------------------------------------------------------------------------
(* The caller. SerializedPublisher hands over growing texts, and none once it*)
(* is terminal; it ends with commit or fail. A failed commit may be followed *)
(* by fail, as finalize's error path and the writer's tests provide for.     *)

Update(v) ==
    /\ ~writer.closed /\ ~writer.finalizing
    /\ ending = "no"
    /\ v > text
    /\ text' = v
    /\ writer' \in Schedule([writer EXCEPT !.pending = v])
    /\ CallIfStarted
    /\ UNCHANGED <<final, transport, ending>>

\* Mutant: what was pending survives finalize.
FinalizeKeepsPending(v) ==
    /\ ~writer.closed /\ ~writer.finalizing
    /\ writer' = [writer EXCEPT !.finalizing = TRUE]
    /\ final' = [pc |-> "await", text |-> v]
    /\ UNCHANGED <<request, transport, text>>

Finalize(v) ==
    /\ ~writer.closed /\ ~writer.finalizing
    /\ writer' = [writer EXCEPT !.finalizing = TRUE, !.timer = FALSE,
                                !.pending = 0]
    /\ final' = [pc |-> "await", text |-> v]
    /\ UNCHANGED <<request, transport, text>>

Commit(v) == ending = "no" /\ v >= text /\ Finalize(v) /\ ending' = "commit"

Fail == Finalize(FailText) /\ ending' = "fail"

-----------------------------------------------------------------------------
(* The writer's callbacks.                                                   *)

TimerFires ==
    /\ writer.timer
    /\ writer' = StartWrite([writer EXCEPT !.timer = FALSE])
    /\ CallIfStarted
    /\ UNCHANGED <<final, transport, caller>>

\* Mutant: finalize does not wait for the write in flight.
FinalProceedsAtOnce ==
    /\ final.pc = "await"
    /\ IF writer.lastWritten = final.text
       THEN /\ writer' = [writer EXCEPT !.closed = TRUE]
            /\ final' = [final EXCEPT !.pc = "idle"]
            /\ UNCHANGED request
       ELSE /\ final' = [final EXCEPT !.pc = "write"]
            /\ Call("final")
            /\ UNCHANGED writer
    /\ UNCHANGED <<transport, caller>>

(* finalize() after "await this.inFlight": nothing to write if the text is   *)
(* there already.                                                            *)
FinalProceeds ==
    /\ final.pc = "await" /\ writer.inFlight = 0
    /\ IF writer.lastWritten = final.text
       THEN /\ writer' = [writer EXCEPT !.closed = TRUE]
            /\ final' = [final EXCEPT !.pc = "idle"]
            /\ UNCHANGED request
       ELSE /\ final' = [final EXCEPT !.pc = "write"]
            /\ Call("final")
            /\ UNCHANGED writer
    /\ UNCHANGED <<transport, caller>>

-----------------------------------------------------------------------------
(* Telegram: a request arrives, then it is answered. An error is a refusal   *)
(* or a lost request (nothing happened), or the loss of the answer.          *)

Value(i) == IF i = "preview" THEN writer.inFlight ELSE final.text

Arrive(i) ==
    LET to == request[i].to
    IN /\ request[i].at = "sent"
       /\ IF to = 0
          THEN /\ chat' = Append(chat, Value(i))
               /\ request' = [request EXCEPT ![i] =
                                  [at |-> "applied", to |-> Len(chat) + 1]]
          ELSE /\ chat' = [chat EXCEPT ![to] = Value(i)]
               /\ request' = [request EXCEPT ![i].at = "applied"]
       /\ UNCHANGED <<writer, final, messageId, lost, caller>>

\* Mutant: only a successful write makes room for the next.
PreviewEndsIfWritten(w) ==
    /\ IF w.lastWritten = w.inFlight
       THEN writer' \in Schedule([w EXCEPT !.inFlight = 0])
       ELSE UNCHANGED writer
    /\ request' = [request EXCEPT !["preview"] =
                       IF writer'.inFlight \in {0, w.inFlight} THEN Closed
                       ELSE [at |-> "sent", to |-> messageId']]
    /\ UNCHANGED final

(* The write of a preview ends: its value is recorded if it succeeded, and   *)
(* what came meanwhile is scheduled. Intermediate errors are swallowed.      *)
PreviewEnds(w) ==
    /\ writer' \in Schedule([w EXCEPT !.inFlight = 0])
    /\ request' = [request EXCEPT !["preview"] =
                       IF writer'.inFlight = 0 THEN Closed
                       ELSE [at |-> "sent", to |-> messageId']]
    /\ UNCHANGED final

\* finalize() returns or rejects; a failed one leaves room for another.
FinalEnds(w) ==
    /\ writer' = [w EXCEPT !.finalizing = FALSE]
    /\ request' = [request EXCEPT !["final"] = Closed]
    /\ final' = [final EXCEPT !.pc = "idle"]

Answered(i) ==
    /\ request[i].at = "applied"
    /\ messageId' = request[i].to
    /\ IF i = "preview"
       THEN PreviewEnds([writer EXCEPT !.lastWritten = writer.inFlight])
       ELSE FinalEnds([writer EXCEPT !.lastWritten = final.text,
                                     !.closed = TRUE])
    /\ UNCHANGED <<chat, lost, caller>>

Failed(i) ==
    /\ \/ request[i].at = "sent" /\ UNCHANGED lost
       \/ request[i].at = "applied" /\ messageId # 0 /\ UNCHANGED lost
       \/ /\ request[i].at = "applied" /\ messageId = 0
          /\ lost < MaxLost /\ lost' = lost + 1
    /\ UNCHANGED messageId
    /\ IF i = "preview" THEN PreviewEnds(writer) ELSE FinalEnds(writer)
    /\ UNCHANGED <<chat, caller>>

-----------------------------------------------------------------------------
Next ==
    \/ \E v \in 1 .. MaxText : Update(v) \/ Commit(v)
    \/ Fail
    \/ TimerFires
    \/ FinalProceeds
    \/ \E i \in Issuers : Arrive(i) \/ Answered(i) \/ Failed(i)

(* The event loop runs what is due, timers expire, and every request gets an *)
(* answer or an error. No answer is owed to be a success.                    *)
Fairness ==
    /\ WF_vars(TimerFires)
    /\ WF_vars(FinalProceeds)
    /\ \A i \in Issuers : WF_vars(Arrive(i)) /\ WF_vars(Answered(i) \/ Failed(i))

WriterSpec == Init /\ [][Next]_vars
FairWriterSpec == WriterSpec /\ Fairness

-----------------------------------------------------------------------------
WriterTypeOK ==
    /\ writer \in Writers
    /\ final \in [pc : {"idle", "await", "write"}, text : 0 .. FailText]
    /\ chat \in Seq(Texts)
    /\ messageId \in 0 .. Len(chat)
    /\ request \in [Issuers -> [at : {"none", "sent", "applied"},
                                to : 0 .. Len(chat)]]
    /\ text \in 0 .. MaxText
    /\ ending \in {"no", "commit", "fail"}
    /\ lost \in 0 .. MaxLost

(* Never two requests to Telegram at a time: a preview and the final text    *)
(* cannot overtake one another on the wire.                                  *)
OneWriteAtATime ==
    ~(request["preview"].at # "none" /\ request["final"].at # "none")

(* No lost wake-up: a text that waits has a timer or a write in flight whose *)
(* end will schedule it; nothing waits once finalize was called.             *)
PendingIsPromised ==
    writer.pending # 0 =>
        /\ writer.timer \/ writer.inFlight # 0
        /\ ~writer.finalizing /\ ~writer.closed

(* finalize is a hard barrier: when it has closed the writer, the message the*)
(* caller gets the id of shows the final text, and nothing is under way.     *)
FinalStands ==
    writer.closed =>
        /\ messageId # 0 /\ chat[messageId] = final.text
        /\ \A i \in Issuers : request[i].at = "none"
        /\ writer.pending = 0 /\ ~writer.timer

(* The command gets one message; a further one needs an answer that was lost *)
(* after Telegram had posted the first.                                      *)
OneArtifact == Len(chat) <= 1 + lost

(* What makes these inductive: which request stands for which write, which   *)
(* of the writer's fields exclude each other, and an order on everything     *)
(* that carries a text.                                                      *)
Requests ==
    /\ (request["preview"].at # "none") <=> (writer.inFlight # 0)
    /\ (request["final"].at # "none") <=> (final.pc = "write")
    /\ \A i \in Issuers :
          /\ request[i].at = "sent" => request[i].to = messageId
          /\ request[i].at = "applied" =>
                /\ request[i].to \in DOMAIN chat
                /\ chat[request[i].to] = Value(i)
                /\ messageId # 0 => request[i].to = messageId
    /\ (messageId = 0) <=> (writer.lastWritten = 0)
    /\ Len(chat) <= lost + IF \/ messageId # 0
                              \/ \E i \in Issuers : request[i].at = "applied"
                           THEN 1 ELSE 0

Phases ==
    /\ ending = "no" => ~writer.finalizing /\ ~writer.closed
    /\ final.pc # "idle" => writer.finalizing /\ ~writer.closed
    /\ final.pc = "write" => writer.inFlight = 0
    /\ writer.finalizing => final.pc # "idle" \/ writer.closed
    /\ ending # "no" => writer.pending = 0 /\ ~writer.timer
    /\ writer.closed => writer.inFlight = 0 /\ final.pc = "idle"

Ages ==
    /\ writer.pending # 0 => writer.pending = text
    /\ writer.inFlight <= text
    /\ ending # "no" => final.text # 0 /\ text <= final.text
    /\ messageId # 0 => chat[messageId] >= writer.lastWritten
    /\ writer.lastWritten <= IF ending = "no" THEN text ELSE final.text
    /\ \A m \in DOMAIN chat :
          /\ chat[m] <= IF ending = "no" THEN text ELSE final.text
          /\ writer.inFlight # 0 => chat[m] <= writer.inFlight

WriterInv ==
    /\ WriterTypeOK
    /\ Requests
    /\ Phases
    /\ Ages
    /\ PendingIsPromised
    /\ FinalStands

(* The text of a message never goes back to an older one.                    *)
NeverOlder == [][\A m \in DOMAIN chat : chat'[m] >= chat[m]]_vars

(* finalize returns, and no text waits for ever to be tried.                 *)
FinalizeReturns == (final.pc # "idle") ~> (final.pc = "idle")
PendingIsTried == (writer.pending # 0) ~> (writer.pending = 0)
WriterProgress == FinalizeReturns /\ PendingIsTried
=============================================================================
