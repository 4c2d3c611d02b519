------------------------- MODULE ProgressiveSession -------------------------
(* The preview of one attempt: ProgressiveSummarySession, its scheduler and   *)
(* SerializedPublisher (packages/summarize/src/progressive), over a transport *)
(* whose calls are answered or fail when they like. In a private chat the     *)
(* transport is Telegram itself; in a group ConflatingWriter stands between.  *)
(*                                                                            *)
(* The text only grows, so it is its length, and so is a snapshot of it. The  *)
(* caller is sequential: it awaits every method it calls. The scheduler's     *)
(* publishedLength is the length of the publisher's desired text: both change *)
(* in flush() only.                                                           *)
EXTENDS Naturals

CONSTANT MaxText   \* length of the whole summary (bound)
ASSUMPTION MaxTextAssumption == MaxText \in Nat

VARIABLES
    state,      \* ProgressiveSummarySession.stateValue
    text,       \* the text streamed so far
    timer,      \* ProgressiveScheduler.timer is armed
    desired,    \* SerializedPublisher.desired
    published,  \* SerializedPublisher.published
    updating,   \* the snapshot of the update the drain awaits; 0: no drain
    terminal,   \* SerializedPublisher.terminal
    awaiting,   \* the method that awaits the drain
    call,       \* the transport call the caller's method awaits
    flushed,    \* finalize() has returned
    ended       \* the terminal call made to the transport (history)

vars == <<state, text, timer, desired, published, updating, terminal,
          awaiting, call, flushed, ended>>
preview == <<desired, published, updating>>
progress == <<awaiting, call, flushed, ended>>

States == {"idle", "preparing", "streaming", "finalizing", "completed", "failed"}
CallerIdle == awaiting = "no" /\ call = "none"

Init ==
    /\ state = "idle" /\ text = 0 /\ timer = FALSE
    /\ desired = 0 /\ published = 0 /\ updating = 0 /\ terminal = FALSE
    /\ awaiting = "no" /\ call = "none" /\ flushed = FALSE /\ ended = "no"

-----------------------------------------------------------------------------
\* Mutant: a snapshot that comes during an update is forgotten.
SetIfIdle(snapshot) ==
    /\ IF updating = 0 THEN desired' = snapshot /\ updating' = snapshot
                       ELSE UNCHANGED <<desired, updating>>
    /\ UNCHANGED published

(* SerializedPublisher.set: a drain starts unless one runs.                  *)
Set(snapshot) ==
    /\ desired' = snapshot
    /\ updating' = IF updating = 0 /\ snapshot # published
                   THEN snapshot ELSE updating
    /\ UNCHANGED published

\* ProgressiveScheduler.flush and flushNow
Flush(snapshot) ==
    /\ timer' = FALSE
    /\ IF snapshot = desired THEN UNCHANGED preview ELSE Set(snapshot)

Begin ==
    /\ state = "idle" /\ CallerIdle
    /\ state' = "preparing" /\ call' = "begin"
    /\ UNCHANGED <<text, timer, preview, terminal, awaiting, flushed, ended>>

(* A delta: the cadence decides whether it is flushed or waits for the timer.*)
Append(n) ==
    /\ state = "streaming" /\ CallerIdle /\ n > text
    /\ text' = n
    /\ \/ Flush(n)
       \/ timer' = TRUE /\ UNCHANGED preview
    /\ UNCHANGED <<state, terminal, progress>>

TimerFires ==
    /\ timer
    /\ Flush(text)
    /\ UNCHANGED <<state, text, terminal, progress>>

(* finalize() publishes what is left and awaits the drain.                   *)
Finalize ==
    /\ state = "streaming" /\ CallerIdle
    /\ state' = "finalizing"
    /\ Flush(text)
    /\ IF updating' # 0 THEN awaiting' = "finalize" /\ UNCHANGED flushed
                        ELSE flushed' = TRUE /\ UNCHANGED awaiting
    /\ UNCHANGED <<text, terminal, call, ended>>

(* commit() is called by the processor, once the text is stored and the      *)
(* delivery claimed, which happens to no empty text; it awaits the drain     *)
(* first.                                                                    *)
Commit ==
    /\ state = "finalizing" /\ flushed /\ CallerIdle
    /\ text # 0
    /\ IF updating # 0
       THEN awaiting' = "commit" /\ UNCHANGED <<call, ended, terminal>>
       ELSE /\ terminal' = TRUE /\ call' = "commit" /\ ended' = "commit"
            /\ UNCHANGED awaiting
    /\ UNCHANGED <<state, text, timer, preview, flushed>>

\* Mutant: the scheduler is not cancelled.
FailKeepsTimer ==
    /\ state \notin {"completed", "failed"} /\ CallerIdle
    /\ state' = "failed" /\ terminal' = TRUE
    /\ IF updating # 0 THEN awaiting' = "fail" /\ UNCHANGED <<call, ended>>
                       ELSE call' = "fail" /\ ended' = "fail" /\ UNCHANGED awaiting
    /\ UNCHANGED <<text, timer, preview, flushed>>

(* fail() is called when the model, the workflow or the processor fails, at  *)
(* any time before commit(), also of a session that never began.             *)
Fail ==
    /\ state \notin {"completed", "failed"} /\ CallerIdle
    /\ state' = "failed" /\ timer' = FALSE /\ terminal' = TRUE
    /\ IF updating # 0 THEN awaiting' = "fail" /\ UNCHANGED <<call, ended>>
                       ELSE call' = "fail" /\ ended' = "fail" /\ UNCHANGED awaiting
    /\ UNCHANGED <<text, preview, flushed>>

-----------------------------------------------------------------------------
(* The transport. The update is accepted: the drain goes on with what came   *)
(* meanwhile, or it ends and so does the wait for it.                        *)

UpdateAccepted ==
    /\ updating # 0
    /\ published' = updating
    /\ IF ~terminal /\ desired # updating
       THEN updating' = desired /\ UNCHANGED <<awaiting, call, flushed, ended, terminal>>
       ELSE /\ updating' = 0
            /\ awaiting' = "no"
            /\ flushed' = (flushed \/ awaiting = "finalize")
            /\ terminal' = (terminal \/ awaiting = "commit")
            /\ call' = IF awaiting \in {"commit", "fail"} THEN awaiting ELSE call
            /\ ended' = IF awaiting \in {"commit", "fail"} THEN awaiting ELSE ended
    /\ UNCHANGED <<state, text, timer, desired>>

(* The update fails: the drain ends with the error, which reaches the method *)
(* that awaits it, and unless the publisher is terminal a new drain starts   *)
(* at once. After fail() the notice is not sent then.                        *)
UpdateRejected ==
    /\ updating # 0
    /\ updating' = IF terminal THEN 0 ELSE desired
    /\ awaiting' = "no"
    /\ state' = IF awaiting \in {"finalize", "commit"} THEN "failed" ELSE state
    /\ UNCHANGED <<text, timer, desired, published, terminal, call, flushed, ended>>

CallAccepted ==
    /\ call # "none"
    /\ call' = "none"
    /\ state' = CASE call = "begin"  -> "streaming"
                  [] call = "commit" -> "completed"
                  [] OTHER           -> state
    /\ UNCHANGED <<text, timer, preview, terminal, awaiting, flushed, ended>>

CallRejected ==
    /\ call # "none"
    /\ call' = "none" /\ state' = "failed"
    /\ UNCHANGED <<text, timer, preview, terminal, awaiting, flushed, ended>>

-----------------------------------------------------------------------------
Next ==
    \/ Begin \/ (\E n \in 1 .. MaxText : Append(n)) \/ TimerFires
    \/ Finalize \/ Commit \/ Fail
    \/ UpdateAccepted \/ UpdateRejected \/ CallAccepted \/ CallRejected

(* Timers expire and the transport answers, no matter how. Nothing obliges   *)
(* the model to go on, nor the processor to commit.                          *)
Fairness ==
    /\ WF_vars(TimerFires)
    /\ WF_vars(UpdateAccepted \/ UpdateRejected)
    /\ WF_vars(CallAccepted \/ CallRejected)

SessionSpec == Init /\ [][Next]_vars
FairSessionSpec == SessionSpec /\ Fairness

-----------------------------------------------------------------------------
SessionTypeOK ==
    /\ state \in States
    /\ text \in 0 .. MaxText /\ desired \in 0 .. MaxText
    /\ published \in 0 .. MaxText /\ updating \in 0 .. MaxText
    /\ timer \in BOOLEAN /\ terminal \in BOOLEAN /\ flushed \in BOOLEAN
    /\ awaiting \in {"no", "finalize", "commit", "fail"}
    /\ call \in {"none", "begin", "commit", "fail"}
    /\ ended \in {"no", "commit", "fail"}

(* "Serializes transport calls": an update never overlaps the final delivery,*)
(* the failure notice or the preparation.                                    *)
TransportSerialized == ~(updating # 0 /\ call # "none")

(* Delivery comes last and is of the whole text, which the preview shows.    *)
CommitIsWhole ==
    call = "commit" => published = text /\ desired = text /\ updating = 0

(* No lost wake-up: an unpublished text has a timer or a drain that will     *)
(* come to it, whatever failed before.                                       *)
PreviewFollows ==
    /\ (state = "streaming" /\ text # desired) => timer
    /\ (~terminal /\ desired # published) => updating # 0

(* All of it, and what ConflatingWriter relies on: one terminal call and no  *)
(* update after it.                                                          *)
SessionInv ==
    /\ SessionTypeOK
    /\ TransportSerialized
    /\ CommitIsWhole
    /\ PreviewFollows
    /\ published <= desired /\ desired <= text
    /\ updating # 0 => published < updating /\ updating <= desired
    /\ state \in {"idle", "preparing"} => text = 0
    /\ timer => state = "streaming"
    /\ ended # "no" => updating = 0 /\ awaiting = "no" /\ terminal
    /\ call \in {"commit", "fail"} => ended = call
    /\ (call = "begin") <=> (state = "preparing")
    /\ awaiting = "no" \/ call = "none"
    /\ awaiting = "finalize" => state = "finalizing" /\ ~flushed
    /\ awaiting = "commit" => state = "finalizing"
    /\ awaiting = "fail" => state = "failed" /\ terminal
    /\ awaiting # "no" => updating # 0
    /\ terminal => state = "failed" \/ ended = "commit"
    /\ terminal /\ updating # 0 => awaiting = "fail"
    /\ state = "completed" => ended = "commit"
    /\ call = "commit" => state = "finalizing"
    /\ state = "finalizing" => desired = text
    /\ state = "finalizing" /\ flushed => published = text
    /\ state = "finalizing" /\ ~flushed => awaiting = "finalize"
    /\ state \in {"idle", "preparing", "streaming"} => ~terminal /\ ~flushed
=============================================================================
