-------------------------- MODULE ProcessingAttempt --------------------------
(***************************************************************************)
(* One processing attempt from end to end (apps/cloudflare/src/processor:  *)
(* process-summary-execution.ts, processing-lease-heartbeat.ts,            *)
(* failure-policy.ts; packages/summarize: execution/attempt.ts): the       *)
(* evaluation under a heartbeat that renews the lease, the record of the   *)
(* attempt, the text of the run, and the delivery through the preview.     *)
(*                                                                         *)
(* RunLifecycle and SummaryPipeline have the runs and their leases; here a *)
(* lease is held or lost, and a write of the attempt succeeds accordingly. *)
(***************************************************************************)
EXTENDS Evaluation

CONSTANT MaxBeats   \* bound: renewals that fall due in one attempt

ASSUME BeatsAssumption == MaxBeats \in Nat

VARIABLES phase,      \* where processRun is
          owner,      \* the lease is still this attempt's
          last,       \* attempt = MAX_ATTEMPTS
          value,      \* what the operation returned
          heart,      \* the renewals of withProcessingLeaseHeartbeat
          session,    \* progressiveSession is still defined
          record,     \* the attempt as it was recorded
          stored,     \* the text of the run
          delivered,  \* the text that a plain message delivered
          verdict     \* the disposition

attempt == <<phase, owner, last, value, heart, session, record, stored,
             delivered, verdict>>
attemptVars == <<vars, evaluation, attempt>>

Unwritten == [status |-> "none", evidence |-> NotInvoked]

AttemptInit ==
    /\ EvaluationInit
    /\ phase = "lookup" /\ owner = TRUE /\ last \in BOOLEAN
    /\ value = "none" /\ session = FALSE
    /\ heart = [beats |-> 0, queued |-> 0, due |-> 0, chain |-> "true",
                lost |-> FALSE, owed |-> FALSE, granted |-> FALSE]
    /\ record = Unwritten /\ stored = "none" /\ delivered = "none"
    /\ verdict = "none"

-----------------------------------------------------------------------------
(***************************************************************************)
(* The heartbeat.  Every beat chains a renewal to those before it.  When   *)
(* the operation has a result it waits for those that were queued then;    *)
(* in the end for all of them.  owed and granted are history: a renewal    *)
(* was under way at the end of the operation, and one was granted since.   *)
(***************************************************************************)
Operating == phase \in {"lookup", "evaluate", "conflict"}
Beating == Operating \/ phase = "renewing"
Settled(n) == n = 0 \/ heart.chain # "true"

Beat ==
    /\ Beating /\ heart.beats < MaxBeats
    /\ heart' = [heart EXCEPT !.beats = @ + 1,
                   !.queued = IF heart.chain = "true" THEN @ + 1 ELSE @]
    /\ UNCHANGED <<vars, evaluation, phase, owner, last, value, session, record,
                   stored, delivered, verdict>>

\* renewLease answers, or rejects.
Renewal ==
    /\ heart.queued > 0 /\ heart.chain = "true"
    /\ heart' \in
        { IF owner
          THEN [heart EXCEPT !.queued = @ - 1,
                             !.due = IF @ = 0 THEN 0 ELSE @ - 1,
                             !.granted = @ \/ phase = "renewing"]
          ELSE [heart EXCEPT !.queued = 0, !.chain = "false", !.lost = TRUE],
          [heart EXCEPT !.queued = 0, !.chain = "rejected"] }
    /\ UNCHANGED <<vars, evaluation, phase, owner, last, value, session, record,
                   stored, delivered, verdict>>

\* Mutant: the result does not wait for the renewals under way.
ReturnsAtOnce(v) ==
    /\ phase' = "closing" /\ value' = v
    /\ heart' = [heart EXCEPT !.owed = heart.queued > 0]

\* The operation returns v ...
Returns(v) ==
    /\ phase' = "renewing" /\ value' = v
    /\ heart' = [heart EXCEPT !.due = heart.queued, !.owed = heart.queued > 0]

\* ... or it throws.
Throws == phase' = "closing" /\ UNCHANGED <<value, heart>>

Renewed ==
    /\ phase = "renewing" /\ Settled(heart.due)
    /\ phase' = "closing"
    /\ error' = IF heart.chain = "rejected" THEN "storage"
                ELSE IF heart.lost THEN "lease" ELSE error
    /\ UNCHANGED <<vars, progressive, pc, action, stream, journal, calls, owner,
                   last, value, heart, session, record, stored, delivered, verdict>>

\* finally: a renewal that was rejected takes the place of any other outcome.
Closed ==
    /\ phase = "closing" /\ Settled(heart.queued)
    /\ error' = IF heart.chain = "rejected" THEN "storage" ELSE error
    /\ phase' = IF error' = "none" THEN "present" ELSE "caught"
    /\ UNCHANGED <<vars, progressive, pc, action, stream, journal, calls, owner,
                   last, value, heart, session, record, stored, delivered, verdict>>

-----------------------------------------------------------------------------
(***************************************************************************)
(* The operation: lookup, evaluation, record.                              *)
(***************************************************************************)
\* An accepted outcome is presented; no session is made for it.
LookupFinds ==
    /\ phase = "lookup" /\ Returns("accepted")
    /\ UNCHANGED <<vars, evaluation, owner, last, session, record, stored,
                   delivered, verdict>>

LookupEmpty ==
    /\ phase = "lookup" /\ phase' = "evaluate" /\ session' = progressive
    /\ UNCHANGED <<vars, evaluation, owner, last, value, heart, record, stored,
                   delivered, verdict>>

LookupFails ==
    /\ phase = "lookup" /\ Throws /\ error' = "storage"
    /\ UNCHANGED <<vars, progressive, pc, action, stream, journal, calls, owner,
                   last, session, record, stored, delivered, verdict>>

Evaluate ==
    /\ phase = "evaluate" /\ EvaluationStep
    /\ UNCHANGED attempt

\* The window is empty, or its outcome is known: the model is not asked.
ModelNotNeeded ==
    /\ phase = "evaluate" /\ pc = "classify:1"
    /\ pc' = "decided" /\ action' \in {"EMPTY", "REUSE"}
    /\ UNCHANGED <<vars, progressive, stream, journal, calls, error, attempt>>

LoadFails ==
    /\ phase = "evaluate" /\ pc = "classify:1"
    /\ pc' = "threw" /\ error' = "storage"
    /\ UNCHANGED <<vars, progressive, action, stream, journal, calls, attempt>>

Outcome == CASE action = "SUMMARIZE" -> "generated"
             [] action = "REUSE"     -> "reused"
             [] OTHER                -> "message"

Written == [status |-> Outcome, evidence |-> Snapshot(FALSE)]

Recorded ==
    /\ phase = "evaluate" /\ pc = "decided" /\ owner
    /\ record' = Written
    /\ Returns(Outcome)
    /\ UNCHANGED <<vars, evaluation, owner, last, session, stored, delivered, verdict>>

(* What attempt.persist throws is not recorded; a commit whose answer is     *)
(* lost stands.                                                              *)
RecordRefused ==
    /\ phase = "evaluate" /\ pc = "decided"
    /\ \/ ~owner /\ error' = "lease" /\ UNCHANGED record
       \/ error' = "storage" /\ record' \in {record, IF owner THEN Written ELSE record}
    /\ Throws
    /\ UNCHANGED <<vars, progressive, pc, action, stream, journal, calls, owner,
                   last, session, stored, delivered, verdict>>

(* alreadyCommitted: the outcome that stands is presented, the preview ends. *)
AlreadyCommitted ==
    /\ phase = "evaluate" /\ pc = "decided" /\ owner
    /\ IF session
       THEN /\ FailSession
            /\ IF CallerIdle' THEN Returns("accepted") /\ session' = FALSE
                              ELSE phase' = "conflict" /\ UNCHANGED <<value, heart, session>>
       ELSE Returns("accepted") /\ UNCHANGED <<vars, session>>
    /\ UNCHANGED <<evaluation, owner, last, record, stored, delivered, verdict>>

\* The failure is recorded; when it cannot be, the error is thrown all the same.
FailureRecorded ==
    /\ phase = "evaluate" /\ pc = "threw"
    /\ record' \in { record, IF owner THEN [status |-> "error", evidence |-> Snapshot(TRUE)]
                                      ELSE record }
    /\ Throws
    /\ UNCHANGED <<vars, evaluation, owner, last, session, stored, delivered, verdict>>

-----------------------------------------------------------------------------
(***************************************************************************)
(* After the operation.                                                    *)
(***************************************************************************)
Over(v) == phase' = "over" /\ verdict' = v
OverIfOwned(v) == Over(IF owner THEN v ELSE "retry")
Caught(e) == phase' = "caught" /\ error' = e /\ UNCHANGED verdict

\* A text that Telegram does not take: the run fails, the preview is left.
Invalid ==
    /\ phase = "present" /\ value # "message"
    /\ \/ OverIfOwned("permanent") /\ UNCHANGED error
       \/ Caught("storage")
    /\ UNCHANGED <<vars, progressive, pc, action, stream, journal, calls, owner,
                   last, value, heart, session, record, stored, delivered>>

\* storeDeliveryPayload gives the lease up.
Store ==
    /\ phase = "present"
    /\ \/ owner /\ stored' = value /\ owner' = FALSE
          /\ \/ phase' = "claim" /\ UNCHANGED <<error, verdict>>
             \/ Caught("storage")
       \/ ~owner /\ Over("retry") /\ UNCHANGED <<owner, stored, error>>
       \/ Caught("storage") /\ UNCHANGED <<owner, stored>>
    /\ UNCHANGED <<vars, progressive, pc, action, stream, journal, calls, last,
                   value, heart, session, record, delivered>>

ClaimDelivery ==
    /\ phase = "claim"
    /\ \/ owner' = TRUE /\ phase' = "deliver" /\ UNCHANGED <<error, verdict>>
       \/ Over("retry") /\ UNCHANGED <<owner, error>>
       \/ Caught("storage") /\ UNCHANGED owner
    /\ UNCHANGED <<vars, progressive, pc, action, stream, journal, calls, last,
                   value, heart, session, record, stored, delivered>>

Previewed == session /\ state = "finalizing"

\* Mutant: the preview is committed before the text of the run is stored.
CommitPreviewEarly ==
    /\ phase \in {"present", "deliver"} /\ Previewed
    /\ Commit /\ phase' = "committing"
    /\ UNCHANGED <<evaluation, owner, last, value, heart, session, record, stored,
                   delivered, verdict>>

CommitPreview ==
    /\ phase = "deliver" /\ Previewed
    /\ Commit /\ phase' = "committing"
    /\ UNCHANGED <<evaluation, owner, last, value, heart, session, record, stored,
                   delivered, verdict>>

\* Mutant: only a status from 500 on is retried.
RetryableUnlessLimited(e) == e \in {"transport-transient", "lease"}

Retryable(e) == e \in {"provider-transient", "transport-transient", "lease"}

\* sendMessage and markCompleted, which may fail, too, after a message was sent.
Deliver ==
    /\ phase = "deliver" /\ ~Previewed
    /\ \/ delivered' = stored /\ OverIfOwned("completed")
       \/ delivered' \in {"none", stored} /\ OverIfOwned("retry")
       \/ delivered' \in {"none", stored} /\ OverIfOwned("permanent")
    /\ UNCHANGED <<vars, evaluation, owner, last, value, heart, session, record, stored>>

\* The preview is told of the failure before the run is.
Catch ==
    /\ phase = "caught"
    /\ IF session /\ state \notin {"completed", "failed"}
       THEN Fail /\ phase' = "noticing"
       ELSE phase' = "handle" /\ UNCHANGED vars
    /\ UNCHANGED <<evaluation, owner, last, value, heart, session, record, stored,
                   delivered, verdict>>

HandleProcessingError ==
    /\ phase = "handle"
    /\ OverIfOwned(IF Retryable(error) /\ ~last THEN "retry" ELSE "permanent")
    /\ UNCHANGED <<vars, evaluation, owner, last, value, heart, session, record,
                   stored, delivered>>

-----------------------------------------------------------------------------
(***************************************************************************)
(* The transport answers.  Where a method of the session returns by it,    *)
(* or rejects, what awaited the method goes on.                            *)
(***************************************************************************)
MethodReturns == ~CallerIdle /\ CallerIdle'

AfterMethod ==
    CASE phase = "evaluate" ->
            Resolved /\ UNCHANGED <<phase, value, heart, session, verdict>>
      [] phase = "conflict" ->
            Returns("accepted") /\ session' = FALSE
            /\ UNCHANGED <<pc, error, verdict>>
      [] phase = "committing" ->
            (OverIfOwned("completed") \/ OverIfOwned("permanent"))
            /\ UNCHANGED <<pc, error, value, heart, session>>
      [] phase = "noticing" ->
            phase' = "handle" /\ UNCHANGED <<pc, error, value, heart, session, verdict>>

Accepted ==
    /\ UpdateAccepted \/ CallAccepted
    /\ IF MethodReturns THEN AfterMethod
       ELSE UNCHANGED <<pc, error, phase, value, heart, session, verdict>>
    /\ UNCHANGED <<progressive, action, stream, journal, calls, owner, last,
                   record, stored, delivered>>

AfterRejected(e) ==
    CASE phase = "evaluate" ->
            Rejected(e) /\ UNCHANGED <<phase, value, heart, session, verdict>>
      [] phase = "conflict" ->
            Throws /\ error' = e /\ UNCHANGED <<pc, session, verdict>>
      [] phase = "committing" ->
            OverIfOwned(IF Retryable(e) THEN "retry" ELSE "permanent")
            /\ UNCHANGED <<pc, error, value, heart, session>>
      [] phase = "noticing" ->
            phase' = "handle" /\ UNCHANGED <<pc, error, value, heart, session, verdict>>

Refused(e) ==
    /\ UpdateRejected \/ CallRejected
    /\ IF MethodReturns THEN AfterRejected(e)
       ELSE UNCHANGED <<pc, error, phase, value, heart, session, verdict>>
    /\ UNCHANGED <<progressive, action, stream, journal, calls, owner, last,
                   record, stored, delivered>>

TimerDue == TimerFires /\ UNCHANGED <<evaluation, attempt>>

\* The lease lapses and somebody else takes the run.
LeaseLapses ==
    /\ owner /\ phase # "over" /\ owner' = FALSE
    /\ UNCHANGED <<vars, evaluation, phase, last, value, heart, session, record,
                   stored, delivered, verdict>>

-----------------------------------------------------------------------------
Operate ==
    \/ LookupFinds \/ LookupEmpty \/ LookupFails
    \/ Evaluate \/ ModelNotNeeded \/ LoadFails
    \/ Recorded \/ RecordRefused \/ AlreadyCommitted \/ FailureRecorded

Conclude ==
    \/ Renewed \/ Closed \/ Invalid \/ Store \/ ClaimDelivery
    \/ CommitPreview \/ Deliver \/ Catch \/ HandleProcessingError

Transport == Accepted \/ \E e \in TransportErrors : Refused(e)

AttemptNext ==
    \/ Operate \/ Conclude \/ Transport \/ TimerDue
    \/ Beat \/ Renewal \/ LeaseLapses

(***************************************************************************)
(* The attempt goes on, and everything it asks answers, in whatever way:   *)
(* the model, the database, Telegram, the lease store.                     *)
(***************************************************************************)
AttemptFairness ==
    /\ WF_attemptVars(Operate) /\ WF_attemptVars(Conclude)
    /\ WF_attemptVars(Transport) /\ WF_attemptVars(TimerDue)
    /\ WF_attemptVars(Renewal)

FairAttemptSpec == AttemptInit /\ [][AttemptNext]_attemptVars /\ AttemptFairness

-----------------------------------------------------------------------------
AttemptTypeOK ==
    /\ phase \in {"lookup", "evaluate", "conflict", "renewing", "closing", "present",
                  "claim", "deliver", "committing", "caught", "noticing", "handle", "over"}
    /\ verdict \in {"none", "completed", "retry", "permanent"}
    /\ journal \in [Invocations -> {"none", "pending", "succeeded", "failed"}]
    /\ calls \in [Invocations -> {"none", "asked", "used", "unusable"}
                               \cup ProviderErrors \cup OutputErrors]

(* INV-12 of the mental model: what is recorded of an attempt says of every  *)
(* call of the model what became of it: nothing of a call that was not made, *)
(* "succeeded" of the calls whose answer was used and of no other, and never *)
(* that a call is pending.                                                   *)
EvidenceIsTrue ==
    record # Unwritten =>
        \A i \in Invocations :
            record.evidence[i] = CASE calls[i] = "none" -> "none"
                                   [] calls[i] = "used" -> "succeeded"
                                   [] OTHER             -> "failed"

(* INV-09: the preview becomes the delivered message when the attempt that   *)
(* generated it is recorded and its text is the text of the run; a plain     *)
(* message never repeats it in the same attempt.                             *)
CommitFollowsRecord ==
    /\ ended = "commit" => record.status = "generated" /\ stored = "generated"
    /\ delivered # "none" => ended # "commit" /\ delivered = stored

(* The chat is told that the summary failed only when this attempt does not  *)
(* deliver what it generated.                                                *)
NoticeIsTrue ==
    ended = "fail" =>
        /\ delivered \in {"none", "accepted"}
        /\ verdict = "completed" => delivered = "accepted"

(* Every variable has its type; what the chat was told of the attempt and    *)
(* what is stored of it agree.                                               *)
ChatAgrees == AttemptTypeOK /\ CommitFollowsRecord /\ NoticeIsTrue

(* A result that was there while a renewal was under way is used only when   *)
(* the lease was found to be held after it.                                  *)
ResultUnderLease ==
    phase \in {"present", "claim", "deliver", "committing"} /\ heart.owed => heart.granted

(* When the attempt is over nothing of its preview goes on: no timer, no     *)
(* call, and no session that still streams.  One thing does: the drain that  *)
(* a rejected finalize() leaves behind, which nobody can stop.               *)
OverIsQuiet ==
    phase = "over" =>
        /\ CallerIdle /\ ~timer
        /\ state \notin {"preparing", "streaming"}
        /\ updating # 0 => state = "failed" /\ ended = "no" /\ ~terminal

(* Whatever fails, in whatever order, the attempt comes to its verdict.      *)
AttemptEnds == <>(phase = "over")

(* "retryable model/delivery failures become retry_wait": a model failure    *)
(* that can be retried ends the run while attempts are left only when the    *)
(* preview, told of it first, fails for good in its turn, or a renewal       *)
(* rejects: their error takes its place.                                     *)
RetryableIsRetried ==
    (\E i \in Invocations : calls[i] = "provider-transient")
        /\ verdict = "permanent" /\ ~last
    => error = "transport-permanent" \/ heart.chain = "rejected"
=============================================================================
