----------------------- MODULE ProcessingAttempt_proofs -----------------------
(***************************************************************************)
(* The safety of one processing attempt, for texts, streams and heartbeats *)
(* of any length.                                                          *)
(***************************************************************************)
EXTENDS ProcessingAttempt, ProgressiveSession_proofs

(***************************************************************************)
(* The inductive invariant of the attempt, in parts.                       *)
(***************************************************************************)
Pcs == {"classify:1", "classify:2", "classifying:1", "classifying:2", "generate",
        "generating", "begin", "beginning", "ask", "asking", "read", "finalize",
        "finalizing", "fail", "failing", "decided", "threw"}
Hearts == [beats : Nat, queued : Nat, due : Nat, chain : {"true", "false", "rejected"},
           lost : BOOLEAN, owed : BOOLEAN, granted : BOOLEAN]

Types ==
    /\ AttemptTypeOK
    /\ pc \in Pcs /\ heart \in Hearts
    /\ progressive \in BOOLEAN /\ owner \in BOOLEAN /\ last \in BOOLEAN
    /\ session \in BOOLEAN

\* Their parts, as they are proved.
Flags ==
    /\ progressive \in BOOLEAN /\ owner \in BOOLEAN /\ last \in BOOLEAN
    /\ session \in BOOLEAN
Points ==
    /\ pc \in Pcs
    /\ phase \in {"lookup", "evaluate", "conflict", "renewing", "closing", "present",
                  "claim", "deliver", "committing", "caught", "noticing", "handle", "over"}
    /\ verdict \in {"none", "completed", "retry", "permanent"}
CallsTyped ==
    /\ journal \in [Invocations -> {"none", "pending", "succeeded", "failed"}]
    /\ calls \in [Invocations -> {"none", "asked", "used", "unusable"}
                               \cup ProviderErrors \cup OutputErrors]

\* An attempt that failed in the evaluation, or is about to.
Failing == pc \in {"fail", "failing", "threw"}

\* The call of the model that is awaited.
Awaited == CASE pc = "classifying:1" -> "classifier:1"
             [] pc = "classifying:2" -> "classifier:2"
             [] pc \in {"generating", "asking", "read"} -> "summarizer:1"
             [] OTHER -> "none"

(* The journal lags behind the calls in one thing only: of an answer that    *)
(* was lost or refused it knows nothing.  Unless the attempt fails that is   *)
(* the call it awaits, and no other.                                         *)
JournalFollows ==
    /\ \A i \in Invocations :
          journal[i] = CASE calls[i] = "none"     -> "none"
                         [] calls[i] = "used"     -> "succeeded"
                         [] calls[i] = "unusable" -> "failed"
                         [] OTHER                 -> "pending"
    /\ Failing \/ \A i \in Invocations :
          \/ i # Awaited /\ calls[i] \in {"none", "used", "unusable"}
          \/ i = Awaited /\ calls[i] = "asked"

(* What was recorded stays true: no call is made afterwards.                 *)
Evidence ==
    /\ EvidenceIsTrue
    /\ record # Unwritten => ~Operating

(* A method of the session is awaited where the processor calls one.         *)
CallerAwaits ==
    /\ call = "begin" => phase = "evaluate" /\ pc = "beginning"
    /\ awaiting = "finalize" => phase = "evaluate" /\ pc = "finalizing"
    /\ awaiting = "commit" \/ call = "commit" => phase = "committing"
    /\ awaiting = "fail" \/ call = "fail" =>
          phase \in {"conflict", "noticing"} \/ (phase = "evaluate" /\ pc = "failing")
    /\ ended = "commit" => phase \in {"committing", "over"}
    /\ phase = "committing" => awaiting = "commit" \/ call = "commit"

(* The session streams while the summary is generated, and no longer.        *)
SessionAt ==
    /\ state = "streaming" =>
          phase = "evaluate" /\ pc \in {"ask", "asking", "read", "finalize", "fail"}
    /\ state \in {"preparing", "streaming", "finalizing", "completed"} => action = "SUMMARIZE"
    /\ phase = "lookup" => pc = "classify:1" /\ state = "idle" /\ ~session
    /\ phase = "evaluate" /\ pc \in {"classify:1", "classify:2", "classifying:1",
                                    "classifying:2"} => state = "idle"
    /\ phase = "evaluate" /\ pc \in {"generate", "generating", "begin", "beginning",
                                    "ask", "asking", "read", "finalize", "finalizing"}
       => action = "SUMMARIZE"

Presenting == phase \in {"present", "claim", "deliver", "committing"}

(* What the operation returned is what is recorded; an outcome that another  *)
(* attempt recorded comes without a session.                                 *)
Results ==
    /\ Operating => value = "none" /\ verdict = "none" /\ stored = "none"
    /\ value = "accepted" => ~session
    /\ value = "generated" => record.status = "generated"
    /\ value \in {"reused", "message"} => action # "SUMMARIZE"
    /\ value \in {"none", "accepted", "generated", "reused", "message"}
    /\ phase = "renewing" \/ Presenting => value # "none"
    /\ phase = "closing" /\ value = "none" => error # "none"
    /\ phase \in {"claim", "deliver", "committing"} => stored = value
    /\ stored # "none" => stored = value

(* An error is thrown or caught, and never forgotten.                        *)
Errors ==
    /\ phase = "lookup" \/ phase = "conflict" => error = "none"
    /\ phase = "evaluate" /\ ~Failing => error = "none"
    /\ phase = "evaluate" /\ Failing => error # "none"
    /\ phase \in {"caught", "noticing", "handle"} => error # "none"
    /\ phase = "conflict" => pc = "decided"
    /\ Presenting => error = "none"

(* What the chat was told.                                                   *)
Told ==
    /\ CommitFollowsRecord
    /\ delivered # "none" => phase = "over" /\ error = "none" /\ stored = value
    /\ phase = "committing" => value = "generated"
    /\ verdict # "none" => phase = "over"
    /\ verdict = "completed" =>
          error = "none" /\ (ended = "commit" \/ (delivered = value /\ value # "none"))
    /\ ended = "fail" \/ awaiting = "fail" =>
          phase = "conflict" \/ value = "accepted" \/ error # "none"

(* The renewals that the result waits for.                                   *)
Renewals ==
    /\ heart.chain = "false" => heart.lost
    /\ Operating => ~heart.owed
    /\ phase = "renewing" /\ heart.owed /\ ~heart.granted =>
          heart.due > 0 \/ heart.chain # "true"
    /\ phase \in {"closing", "present", "claim", "deliver", "committing"}
          /\ error = "none" /\ heart.owed => heart.granted

(* What becomes of a failure of the model that can be retried.               *)
Transient ==
    (\E i \in Invocations : calls[i] = "provider-transient") =>
        /\ Failing
        /\ phase \in {"evaluate", "closing", "caught", "noticing", "handle", "over"}
        /\ value = "none"
        /\ \/ error \in {"provider-transient", "transport-transient", "transport-permanent"}
           \/ heart.chain = "rejected"
        /\ verdict = "permanent" /\ ~last =>
              error = "transport-permanent" \/ heart.chain = "rejected"

AttemptInv ==
    /\ SessionInv /\ Types /\ JournalFollows /\ Evidence /\ CallerAwaits
    /\ SessionAt /\ Results /\ Errors /\ Told /\ Renewals /\ Transient

\* An attempt begins with a session that did not, and with a journal of nothing.
LEMMA AttemptInitially == AttemptInit => AttemptInv
<1> SUFFICES ASSUME AttemptInit PROVE AttemptInv
    OBVIOUS
<1> USE DEF AttemptInit, EvaluationInit
<1>1. SessionInv
      BY SessionInit
<1>2. /\ state = "idle" /\ awaiting = "no" /\ call = "none" /\ ended = "no"
      BY DEF Init
<1>3. /\ heart \in Hearts /\ ~heart.owed /\ heart.chain = "true"
      BY DEF Hearts
<1>4. /\ journal \in [Invocations -> {"none"}] /\ calls \in [Invocations -> {"none"}]
      /\ \A i \in Invocations : journal[i] = "none" /\ calls[i] = "none"
      BY DEF NotInvoked
<1>5. Types
      BY <1>3, <1>4 DEF Types, AttemptTypeOK, Pcs
<1>6. JournalFollows
      BY <1>4 DEF JournalFollows, Awaited, Invocations
<1>7. Evidence
      BY DEF Evidence, EvidenceIsTrue
<1>8. CallerAwaits /\ SessionAt
      BY <1>2 DEF CallerAwaits, SessionAt
<1>9. Results /\ Errors /\ Told
      BY <1>2 DEF Results, Errors, Told, CommitFollowsRecord, Operating, Presenting, Failing
<1>10. Renewals /\ Transient
      BY <1>3, <1>4 DEF Renewals, Transient, Operating
<1> QED BY <1>1, <1>5, <1>6, <1>7, <1>8, <1>9, <1>10 DEF AttemptInv

-----------------------------------------------------------------------------
\* Nothing of the attempt goes on by the answer.
Waits == UNCHANGED <<pc, error, phase, value, heart, session, verdict>>

(***************************************************************************)
(* The transport's answers: the method that awaited one of them returns,   *)
(* or it goes on waiting.                                                  *)
(***************************************************************************)
LEMMA AcceptedCases ==
    ASSUME SessionInv, CallerAwaits, Types, Accepted
    PROVE  /\ UNCHANGED <<progressive, action, stream, journal, calls, owner, last,
                          record, stored, delivered>>
           /\ \/ Waits
              \/ /\ CallerIdle'
                 /\ \/ /\ phase = "evaluate" /\ phase' = phase
                       /\ \/ pc = "beginning" /\ pc' = "ask"
                          \/ pc = "finalizing" /\ pc' = "decided"
                          \/ pc = "failing" /\ pc' = "threw"
                       /\ UNCHANGED <<error, value, heart, session, verdict>>
                    \/ /\ phase = "conflict" /\ Returns("accepted")
                       /\ phase' = "renewing" /\ value' = "accepted"
                       /\ session' \in BOOLEAN /\ ~session'
                       /\ UNCHANGED <<pc, error, verdict>>
                    \/ /\ phase = "committing" /\ phase' = "over"
                       /\ call = "commit"
                       /\ verdict' \in {"completed", "permanent", "retry"}
                       /\ UNCHANGED <<pc, error, value, heart, session>>
                    \/ /\ phase = "noticing" /\ phase' = "handle"
                       /\ UNCHANGED <<pc, error, value, heart, session, verdict>>
<1>1. UNCHANGED <<progressive, action, stream, journal, calls, owner, last,
                  record, stored, delivered>>
      BY DEF Accepted
<1>2. CASE ~MethodReturns
      BY <1>2 DEF Accepted, Waits
<1>3. CASE MethodReturns
      <2>1. AfterMethod /\ ~CallerIdle /\ CallerIdle'
            BY <1>3 DEF Accepted, MethodReturns
      <2>2. \/ phase = "evaluate" /\ pc \in {"beginning", "finalizing", "failing"}
            \/ phase \in {"conflict", "committing", "noticing"}
            BY <2>1 DEF CallerAwaits, SessionInv, SessionTypeOK, CallerIdle
      <2>3. CASE phase = "evaluate"
            BY <1>1, <2>1, <2>2, <2>3 DEF AfterMethod, Resolved
      <2>4. CASE phase = "conflict"
            BY <1>1, <2>1, <2>4 DEF AfterMethod, Returns
      <2>5. CASE phase = "committing"
            <3>1. call = "commit"
                  BY <2>1, <2>5
                  DEF CallerAwaits, Accepted, UpdateAccepted, CallAccepted, CallerIdle
            <3> QED BY <1>1, <2>1, <2>5, <3>1 DEF AfterMethod, OverIfOwned, Over
      <2>6. CASE phase = "noticing"
            BY <1>1, <2>1, <2>6 DEF AfterMethod
      <2> QED BY <2>2, <2>3, <2>4, <2>5, <2>6
<1> QED BY <1>2, <1>3

\* The same of an answer that rejects.
LEMMA RefusedCases ==
    ASSUME SessionInv, CallerAwaits, Types, NEW e \in TransportErrors, Refused(e)
    PROVE  /\ UNCHANGED <<progressive, action, stream, journal, calls, owner, last,
                          record, stored, delivered>>
           /\ \/ Waits
              \/ /\ CallerIdle'
                 /\ \/ /\ phase = "evaluate" /\ phase' = phase /\ error' = e
                       /\ \/ pc \in {"beginning", "failing"} /\ pc' = "threw"
                          \/ pc = "finalizing" /\ pc' = "fail"
                       /\ UNCHANGED <<value, heart, session, verdict>>
                    \/ /\ phase = "conflict" /\ phase' = "closing" /\ error' = e
                       /\ UNCHANGED <<pc, value, heart, session, verdict>>
                    \/ /\ phase = "committing" /\ phase' = "over"
                       /\ verdict' \in {"permanent", "retry"}
                       /\ UNCHANGED <<pc, error, value, heart, session>>
                    \/ /\ phase = "noticing" /\ phase' = "handle"
                       /\ UNCHANGED <<pc, error, value, heart, session, verdict>>
<1>1. UNCHANGED <<progressive, action, stream, journal, calls, owner, last,
                  record, stored, delivered>>
      BY DEF Refused
<1>2. CASE ~MethodReturns
      BY <1>2 DEF Refused, Waits
<1>3. CASE MethodReturns
      <2>1. AfterRejected(e) /\ ~CallerIdle /\ CallerIdle'
            BY <1>3 DEF Refused, MethodReturns
      <2>2. \/ phase = "evaluate" /\ pc \in {"beginning", "finalizing", "failing"}
            \/ phase \in {"conflict", "committing", "noticing"}
            BY <2>1 DEF CallerAwaits, SessionInv, SessionTypeOK, CallerIdle
      <2>3. CASE phase = "evaluate"
            BY <1>1, <2>1, <2>2, <2>3 DEF AfterRejected, Rejected
      <2>4. CASE phase = "conflict"
            BY <1>1, <2>1, <2>4 DEF AfterRejected, Throws
      <2>5. CASE phase = "committing"
            BY <1>1, <2>1, <2>5 DEF AfterRejected, OverIfOwned, Over
      <2>6. CASE phase = "noticing"
            BY <1>1, <2>1, <2>6 DEF AfterRejected
      <2> QED BY <2>2, <2>3, <2>4, <2>5, <2>6
<1> QED BY <1>2, <1>3

(***************************************************************************)
(* The session's part of a step of the attempt is a step of the session.   *)
(***************************************************************************)
LEMMA EvaluationMovesSession ==
    ASSUME SessionInv, EvaluationStep
    PROVE  [Next]_vars
<1>1. CASE ClassifierStep
      BY <1>1 DEF ClassifierStep, AskClassifier, ClassifierRefused,
         ClassifierUnusable, ClassifierDecides
<1>2. CASE GenerationStep
      BY <1>2 DEF GenerationStep, AskForSummary, SummaryReceived, SummaryRefused,
         SummaryUnusable
<1>3. CASE TakeLine
      <2>1. CASE text < MaxText /\ Append(text + 1)
            <3>1. text + 1 \in 1 .. MaxText
                  BY <2>1, MaxTextAssumption DEF SessionInv, SessionTypeOK
            <3> QED BY <2>1, <3>1 DEF Next
      <2> QED BY <1>3, <2>1 DEF TakeLine
<1>4. CASE StreamStep /\ ~TakeLine
      BY <1>4 DEF StreamStep, BeginPreview, AskForStream, StreamOpens, StreamRefused,
         ReadChunk, ReadFails, BodyEnds, TakeBadLine, SummaryStreamed, StreamUnusable,
         FinalizePreview, FailPreview, FailSession, Next
<1> QED BY <1>1, <1>2, <1>3, <1>4 DEF EvaluationStep

\* The same of the processor, its heartbeat and the transport's answers.
LEMMA AttemptMovesSession ==
    ASSUME SessionInv, [AttemptNext]_attemptVars
    PROVE  [Next]_vars
<1>1. CASE LookupFinds \/ LookupEmpty \/ LookupFails \/ ModelNotNeeded \/ LoadFails
             \/ Recorded \/ RecordRefused \/ FailureRecorded
      BY <1>1 DEF LookupFinds, LookupEmpty, LookupFails, ModelNotNeeded, LoadFails,
         Recorded, RecordRefused, FailureRecorded
<1>2. CASE Evaluate
      BY <1>2, EvaluationMovesSession DEF Evaluate
<1>3. CASE AlreadyCommitted \/ Catch \/ CommitPreview
      BY <1>3 DEF AlreadyCommitted, FailSession, Catch, CommitPreview, Next
<1>4. CASE Renewed \/ Closed \/ Invalid \/ Store \/ ClaimDelivery \/ Deliver
             \/ HandleProcessingError
      BY <1>4 DEF Renewed, Closed, Invalid, Store, ClaimDelivery, Deliver,
         HandleProcessingError
<1>5. CASE Transport \/ TimerDue
      BY <1>5 DEF Transport, Accepted, Refused, TimerDue, Next
<1>6. CASE Beat \/ Renewal \/ LeaseLapses \/ UNCHANGED attemptVars
      BY <1>6 DEF Beat, Renewal, LeaseLapses, attemptVars
<1> QED BY <1>1, <1>2, <1>3, <1>4, <1>5, <1>6 DEF AttemptNext, Operate, Conclude

(***************************************************************************)
(* Types.                                                                  *)
(***************************************************************************)
\* The heartbeat stays a heartbeat when the operation returns.
LEMMA ReturnsHeart ==
    ASSUME heart \in Hearts, NEW v, Returns(v)
    PROVE  heart' \in Hearts
<1> DEFINE owed == heart.queued > 0
<1>1. owed \in BOOLEAN
      OBVIOUS
<1>2. heart' = [heart EXCEPT !.due = heart.queued, !.owed = owed]
      BY DEF Returns
<1> HIDE DEF owed
<1> QED BY <1>1, <1>2 DEF Hearts

\* Beats and renewals keep it one.
LEMMA HeartStep ==
    ASSUME SessionInv, CallerAwaits, Types, [AttemptNext]_attemptVars
    PROVE  heart' \in Hearts
<1>0. heart \in Hearts
      BY DEF Types
<1>1. CASE UNCHANGED heart
      BY <1>0, <1>1
<1>2. ASSUME NEW v, Returns(v) PROVE heart' \in Hearts
      BY <1>0, <1>2, ReturnsHeart
<1>3. CASE LookupFinds \/ LookupEmpty \/ LookupFails
      BY <1>1, <1>2, <1>3 DEF LookupFinds, LookupEmpty, LookupFails, Throws
<1>4. CASE Evaluate \/ ModelNotNeeded \/ LoadFails
      BY <1>1, <1>4 DEF Evaluate, ModelNotNeeded, LoadFails, attempt
<1>5. CASE Recorded \/ RecordRefused \/ AlreadyCommitted \/ FailureRecorded
      BY <1>1, <1>2, <1>5 DEF Recorded, RecordRefused, AlreadyCommitted,
         FailureRecorded, Throws
<1>6. CASE Conclude
      BY <1>1, <1>6 DEF Conclude, Renewed, Closed, Invalid, Store, ClaimDelivery,
         CommitPreview, Deliver, Catch, HandleProcessingError
<1>7. CASE Accepted
      BY <1>1, <1>2, <1>7, AcceptedCases DEF Waits
<1>8. ASSUME NEW e \in TransportErrors, Refused(e) PROVE heart' \in Hearts
      BY <1>1, <1>8, RefusedCases DEF Waits
<1>9. CASE Beat
      <2> DEFINE queued == IF heart.chain = "true" THEN heart.queued + 1 ELSE heart.queued
      <2>1. queued \in Nat /\ heart.beats + 1 \in Nat
            BY <1>0 DEF Hearts
      <2>2. heart' = [heart EXCEPT !.beats = @ + 1, !.queued = queued]
            BY <1>9 DEF Beat
      <2> HIDE DEF queued
      <2> QED BY <1>0, <2>1, <2>2 DEF Hearts
<1>10. CASE Renewal
      <2>1. heart.queued - 1 \in Nat /\ (heart.due # 0 => heart.due - 1 \in Nat)
            BY <1>0, <1>10 DEF Renewal, Hearts
      <2>2. CASE owner /\ heart' = [heart EXCEPT !.queued = @ - 1,
                              !.due = IF @ = 0 THEN 0 ELSE @ - 1,
                              !.granted = @ \/ phase = "renewing"]
            <3> DEFINE granted == heart.granted \/ phase = "renewing"
                       due == IF heart.due = 0 THEN 0 ELSE heart.due - 1
            <3>1. granted \in BOOLEAN /\ due \in Nat
                  BY <1>0, <2>1 DEF Hearts
            <3>2. heart' = [heart EXCEPT !.queued = @ - 1, !.due = due,
                                         !.granted = granted]
                  BY <2>2
            <3> HIDE DEF granted, due
            <3> QED BY <1>0, <2>1, <3>1, <3>2 DEF Hearts
      <2>3. CASE heart' = [heart EXCEPT !.queued = 0, !.chain = "false", !.lost = TRUE]
            BY <1>0, <2>3 DEF Hearts
      <2>4. CASE heart' = [heart EXCEPT !.queued = 0, !.chain = "rejected"]
            BY <1>0, <2>4 DEF Hearts
      <2> QED BY <1>10, <2>2, <2>3, <2>4 DEF Renewal
<1>11. CASE TimerDue \/ LeaseLapses \/ UNCHANGED attemptVars
      BY <1>1, <1>11 DEF TimerDue, LeaseLapses, attemptVars, attempt
<1> QED BY <1>3, <1>4, <1>5, <1>6, <1>7, <1>8, <1>9, <1>10, <1>11
        DEF AttemptNext, Operate, Transport

\* The flags.
LEMMA FlagsStep ==
    ASSUME SessionInv, Types, CallerAwaits, SessionAt, Errors,
           [AttemptNext]_attemptVars
    PROVE  Flags'
<1> USE DEF Types, Flags, vars, evaluation, attempt, preview, progress
<1>1. CASE LookupFinds \/ LookupEmpty \/ LookupFails
      BY <1>1 DEF LookupFinds, LookupEmpty, LookupFails, Returns, Throws
<1>2. CASE Evaluate /\ ClassifierStep
      BY <1>2 DEF Evaluate, ClassifierStep, AskClassifier, ClassifierRefused,
         ClassifierUnusable, ClassifierDecides, Classifying, ClassifierCall,
         Request, Answer, NoAnswer
<1>3. CASE Evaluate /\ GenerationStep
      BY <1>3 DEF Evaluate, GenerationStep, AskForSummary, SummaryReceived,
         SummaryRefused, SummaryUnusable, Request, Answer, NoAnswer
<1>4. CASE Evaluate /\ StreamStep
      BY <1>4 DEF Evaluate, StreamStep, BeginPreview, AskForStream, StreamOpens,
         StreamRefused, ReadChunk, ReadFails, BodyEnds, TakeLine, TakeBadLine,
         SummaryStreamed, StreamUnusable, FinalizePreview, FailPreview, Breaks,
         Request, Answer, NoAnswer, FailSession, FailReturnsAt, Begin, Append,
         Finalize, Fail, CallerIdle
<1>5. CASE ModelNotNeeded \/ LoadFails
      BY <1>5 DEF ModelNotNeeded, LoadFails
<1>6. CASE Recorded
      BY <1>6 DEF Recorded, Returns, Written, Outcome
<1>7. CASE RecordRefused
      BY <1>7 DEF RecordRefused, Throws, Written, Outcome
<1>8. CASE FailureRecorded
      BY <1>8 DEF FailureRecorded, Throws
<1>9. CASE AlreadyCommitted
      BY <1>9 DEF AlreadyCommitted, FailSession, Fail, CallerIdle, Returns
<1>10. CASE Renewed \/ Closed
      BY <1>10 DEF Renewed, Closed, Settled
<1>11. CASE Invalid \/ Store \/ ClaimDelivery
      BY <1>11 DEF Invalid, Store, ClaimDelivery, OverIfOwned, Over, Caught
<1>12. CASE CommitPreview \/ Deliver
      BY <1>12 DEF CommitPreview, Deliver, Previewed, Commit, CallerIdle,
         OverIfOwned, Over
<1>13. CASE Catch \/ HandleProcessingError
      BY <1>13 DEF Catch, HandleProcessingError, Fail, CallerIdle, OverIfOwned,
         Over, Retryable
<1>14. CASE Accepted
      BY <1>14, AcceptedCases DEF Waits, Accepted, Returns
<1>15. ASSUME NEW e \in TransportErrors, Refused(e) PROVE Flags'
      BY <1>15, RefusedCases DEF Waits, Refused, TransportErrors
<1>16. CASE Beat \/ Renewal \/ LeaseLapses
      BY <1>16 DEF Beat, Renewal, LeaseLapses
<1>17. CASE TimerDue
      BY <1>17 DEF TimerDue, TimerFires
<1>18. CASE UNCHANGED attemptVars
      BY <1>18 DEF attemptVars
<1> QED BY <1>1, <1>2, <1>3, <1>4, <1>5, <1>6, <1>7, <1>8, <1>9, <1>10, <1>11,
   <1>12, <1>13, <1>14, <1>15, <1>16, <1>17, <1>18 DEF AttemptNext, Operate,
   Conclude, Transport, Evaluate, EvaluationStep

\* Where the attempt is, and its verdict.
LEMMA PointsStep ==
    ASSUME SessionInv, Types, CallerAwaits, SessionAt, Errors,
           [AttemptNext]_attemptVars
    PROVE  Points'
<1> USE DEF Types, AttemptTypeOK, Points, Pcs, vars, evaluation, attempt, preview,
   progress
<1>1. CASE LookupFinds \/ LookupEmpty \/ LookupFails
      BY <1>1 DEF LookupFinds, LookupEmpty, LookupFails, Returns, Throws
<1>2. CASE Evaluate /\ ClassifierStep
      BY <1>2 DEF Evaluate, ClassifierStep, AskClassifier, ClassifierRefused,
         ClassifierUnusable, ClassifierDecides, Classifying, ClassifierCall,
         Request, Answer, NoAnswer
<1>3. CASE Evaluate /\ GenerationStep
      BY <1>3 DEF Evaluate, GenerationStep, AskForSummary, SummaryReceived,
         SummaryRefused, SummaryUnusable, Request, Answer, NoAnswer
<1>4. CASE Evaluate /\ StreamStep
      BY <1>4 DEF Evaluate, StreamStep, BeginPreview, AskForStream, StreamOpens,
         StreamRefused, ReadChunk, ReadFails, BodyEnds, TakeLine, TakeBadLine,
         SummaryStreamed, StreamUnusable, FinalizePreview, FailPreview, Breaks,
         Request, Answer, NoAnswer, FailSession, FailReturnsAt, Begin, Append,
         Finalize, Fail, CallerIdle
<1>5. CASE ModelNotNeeded \/ LoadFails
      BY <1>5 DEF ModelNotNeeded, LoadFails
<1>6. CASE Recorded
      BY <1>6 DEF Recorded, Returns, Written, Outcome
<1>7. CASE RecordRefused
      BY <1>7 DEF RecordRefused, Throws, Written, Outcome
<1>8. CASE FailureRecorded
      BY <1>8 DEF FailureRecorded, Throws
<1>9. CASE AlreadyCommitted
      BY <1>9 DEF AlreadyCommitted, FailSession, Fail, CallerIdle, Returns
<1>10. CASE Renewed \/ Closed
      BY <1>10 DEF Renewed, Closed, Settled
<1>11. CASE Invalid \/ Store \/ ClaimDelivery
      BY <1>11 DEF Invalid, Store, ClaimDelivery, OverIfOwned, Over, Caught
<1>12. CASE CommitPreview \/ Deliver
      BY <1>12 DEF CommitPreview, Deliver, Previewed, Commit, CallerIdle,
         OverIfOwned, Over
<1>13. CASE Catch \/ HandleProcessingError
      BY <1>13 DEF Catch, HandleProcessingError, Fail, CallerIdle, OverIfOwned,
         Over, Retryable
<1>14. CASE Accepted
      BY <1>14, AcceptedCases DEF Waits, Accepted, Returns
<1>15. ASSUME NEW e \in TransportErrors, Refused(e) PROVE Points'
      BY <1>15, RefusedCases DEF Waits, Refused, TransportErrors
<1>16. CASE Beat \/ Renewal \/ LeaseLapses
      BY <1>16 DEF Beat, Renewal, LeaseLapses
<1>17. CASE TimerDue
      BY <1>17 DEF TimerDue, TimerFires
<1>18. CASE UNCHANGED attemptVars
      BY <1>18 DEF attemptVars
<1> QED BY <1>1, <1>2, <1>3, <1>4, <1>5, <1>6, <1>7, <1>8, <1>9, <1>10, <1>11,
   <1>12, <1>13, <1>14, <1>15, <1>16, <1>17, <1>18 DEF AttemptNext, Operate,
   Conclude, Transport, Evaluate, EvaluationStep

\* The journal and what became of the calls.
LEMMA CallsTypedStep ==
    ASSUME SessionInv, Types, CallerAwaits, SessionAt, Errors,
           [AttemptNext]_attemptVars
    PROVE  CallsTyped'
<1> USE DEF Types, AttemptTypeOK, CallsTyped, Invocations, ProviderErrors,
   OutputErrors, vars, evaluation, attempt, preview, progress
<1>1. CASE LookupFinds \/ LookupEmpty \/ LookupFails
      BY <1>1 DEF LookupFinds, LookupEmpty, LookupFails, Returns, Throws
<1>2. CASE Evaluate /\ ClassifierStep
      BY <1>2 DEF Evaluate, ClassifierStep, AskClassifier, ClassifierRefused,
         ClassifierUnusable, ClassifierDecides, Classifying, ClassifierCall,
         Request, Answer, NoAnswer
<1>3. CASE Evaluate /\ GenerationStep
      BY <1>3 DEF Evaluate, GenerationStep, AskForSummary, SummaryReceived,
         SummaryRefused, SummaryUnusable, Request, Answer, NoAnswer
<1>4. CASE Evaluate /\ StreamStep
      <2>1. CASE AskForStream
            BY <1>4, <2>1 DEF Evaluate, AskForStream, Request
      <2>2. CASE (\E e \in ProviderErrors : StreamRefused(e)) \/ ReadFails \/ StreamUnusable
            BY <1>4, <2>2 DEF Evaluate, StreamRefused, ReadFails, StreamUnusable,
               Breaks, NoAnswer
      <2>3. CASE \E e \in {"provider-permanent", "invalid"} : TakeBadLine(e)
            BY <1>4, <2>3 DEF Evaluate, TakeBadLine, Breaks, NoAnswer
      <2>4. CASE SummaryStreamed
            BY <1>4, <2>4 DEF Evaluate, SummaryStreamed, Answer
      <2>5. CASE BeginPreview \/ StreamOpens \/ (\E n \in 0 .. MaxLines, half \in BOOLEAN : ReadChunk(n, half)) \/ BodyEnds \/ TakeLine
            BY <1>4, <2>5 DEF Evaluate, BeginPreview, StreamOpens, ReadChunk,
               BodyEnds, TakeLine
      <2>6. CASE FinalizePreview \/ FailPreview
            BY <1>4, <2>6 DEF Evaluate, FinalizePreview, FailPreview, FailReturnsAt
      <2> QED BY <1>4, <2>1, <2>2, <2>3, <2>4, <2>5, <2>6 DEF StreamStep
<1>5. CASE ModelNotNeeded \/ LoadFails
      BY <1>5 DEF ModelNotNeeded, LoadFails
<1>6. CASE Recorded
      BY <1>6 DEF Recorded, Returns, Written, Outcome
<1>7. CASE RecordRefused
      BY <1>7 DEF RecordRefused, Throws, Written, Outcome
<1>8. CASE FailureRecorded
      BY <1>8 DEF FailureRecorded, Throws
<1>9. CASE AlreadyCommitted
      BY <1>9 DEF AlreadyCommitted, FailSession, Fail, CallerIdle, Returns
<1>10. CASE Renewed \/ Closed
      BY <1>10 DEF Renewed, Closed, Settled
<1>11. CASE Invalid \/ Store \/ ClaimDelivery
      BY <1>11 DEF Invalid, Store, ClaimDelivery, OverIfOwned, Over, Caught
<1>12. CASE CommitPreview \/ Deliver
      BY <1>12 DEF CommitPreview, Deliver, Previewed, Commit, CallerIdle,
         OverIfOwned, Over
<1>13. CASE Catch \/ HandleProcessingError
      BY <1>13 DEF Catch, HandleProcessingError, Fail, CallerIdle, OverIfOwned,
         Over, Retryable
<1>14. CASE Accepted
      BY <1>14, AcceptedCases DEF Waits, Accepted, Returns
<1>15. ASSUME NEW e \in TransportErrors, Refused(e) PROVE CallsTyped'
      BY <1>15, RefusedCases DEF Waits, Refused, TransportErrors
<1>16. CASE Beat \/ Renewal \/ LeaseLapses
      BY <1>16 DEF Beat, Renewal, LeaseLapses
<1>17. CASE TimerDue
      BY <1>17 DEF TimerDue, TimerFires
<1>18. CASE UNCHANGED attemptVars
      BY <1>18 DEF attemptVars
<1> QED BY <1>1, <1>2, <1>3, <1>4, <1>5, <1>6, <1>7, <1>8, <1>9, <1>10, <1>11,
   <1>12, <1>13, <1>14, <1>15, <1>16, <1>17, <1>18 DEF AttemptNext, Operate,
   Conclude, Transport, Evaluate, EvaluationStep

\* Who awaits the session: a method returns before the processor goes on.
LEMMA CallerAwaitsStep ==
    ASSUME SessionInv, SessionInv', Types, CallerAwaits, SessionAt,
           [AttemptNext]_attemptVars
    PROVE  CallerAwaits'
<1> USE DEF SessionInv, SessionTypeOK, TransportSerialized, Types, AttemptTypeOK,
   CallerAwaits, SessionAt, States, vars, evaluation, attempt, preview, progress
<1>1. CASE LookupFinds \/ LookupEmpty \/ LookupFails
      BY <1>1 DEF LookupFinds, LookupEmpty, LookupFails, Returns, Throws
<1>2. CASE Evaluate /\ ClassifierStep
      BY <1>2 DEF Evaluate, ClassifierStep, AskClassifier, ClassifierRefused,
         ClassifierUnusable, ClassifierDecides, Classifying, ClassifierCall,
         Request, Answer, NoAnswer
<1>3. CASE Evaluate /\ GenerationStep
      BY <1>3 DEF Evaluate, GenerationStep, AskForSummary, SummaryReceived,
         SummaryRefused, SummaryUnusable, Request, Answer, NoAnswer
<1>4. CASE Evaluate /\ StreamStep
      BY <1>4 DEF Evaluate, StreamStep, BeginPreview, AskForStream, StreamOpens,
         StreamRefused, ReadChunk, ReadFails, BodyEnds, TakeLine, TakeBadLine,
         SummaryStreamed, StreamUnusable, FinalizePreview, FailPreview, Breaks,
         Request, Answer, NoAnswer, FailSession, FailReturnsAt, Begin, Append,
         Finalize, Fail, CallerIdle
<1>5. CASE ModelNotNeeded \/ LoadFails
      BY <1>5 DEF ModelNotNeeded, LoadFails
<1>6. CASE Recorded
      BY <1>6 DEF Recorded, Returns, Written, Outcome
<1>7. CASE RecordRefused
      BY <1>7 DEF RecordRefused, Throws, Written, Outcome
<1>8. CASE FailureRecorded
      BY <1>8 DEF FailureRecorded, Throws
<1>9. CASE AlreadyCommitted
      BY <1>9 DEF AlreadyCommitted, FailSession, Fail, CallerIdle, Returns
<1>10. CASE Renewed \/ Closed
      BY <1>10 DEF Renewed, Closed, Settled
<1>11. CASE Invalid \/ Store \/ ClaimDelivery
      BY <1>11 DEF Invalid, Store, ClaimDelivery, OverIfOwned, Over, Caught
<1>12. CASE CommitPreview \/ Deliver
      BY <1>12 DEF CommitPreview, Deliver, Previewed, Commit, CallerIdle,
         OverIfOwned, Over
<1>13. CASE Catch \/ HandleProcessingError
      BY <1>13 DEF Catch, HandleProcessingError, Fail, CallerIdle, OverIfOwned,
         Over, Retryable
<1>14. CASE Accepted
      BY <1>14 DEF Accepted, UpdateAccepted, CallAccepted, MethodReturns,
         AfterMethod, CallerIdle, Resolved, Returns, OverIfOwned, Over
<1>15. ASSUME NEW e \in TransportErrors, Refused(e) PROVE CallerAwaits'
      BY <1>15 DEF Refused, UpdateRejected, CallRejected, MethodReturns,
         AfterRejected, CallerIdle, Rejected, Throws, OverIfOwned, Over,
         TransportErrors
<1>16. CASE Beat \/ Renewal \/ LeaseLapses
      BY <1>16 DEF Beat, Renewal, LeaseLapses
<1>17. CASE TimerDue
      BY <1>17 DEF TimerDue, TimerFires
<1>18. CASE UNCHANGED attemptVars
      BY <1>18 DEF attemptVars
<1> QED BY <1>1, <1>2, <1>3, <1>4, <1>5, <1>6, <1>7, <1>8, <1>9, <1>10, <1>11,
   <1>12, <1>13, <1>14, <1>15, <1>16, <1>17, <1>18 DEF AttemptNext, Operate,
   Conclude, Transport, Evaluate, EvaluationStep

\* Where the session is: it streams while the summary is generated only.
LEMMA SessionAtStep ==
    ASSUME SessionInv, SessionInv', Types, CallerAwaits, SessionAt, Errors,
           [AttemptNext]_attemptVars
    PROVE  SessionAt'
<1> USE DEF SessionInv, SessionTypeOK, Types, AttemptTypeOK, CallerAwaits,
   SessionAt, Errors, States, Failing, vars, evaluation, attempt, preview,
   progress
<1>1. CASE LookupFinds \/ LookupEmpty \/ LookupFails
      BY <1>1 DEF LookupFinds, LookupEmpty, LookupFails, Returns, Throws
<1>2. CASE Evaluate /\ ClassifierStep
      BY <1>2 DEF Evaluate, ClassifierStep, AskClassifier, ClassifierRefused,
         ClassifierUnusable, ClassifierDecides, Classifying, ClassifierCall,
         Request, Answer, NoAnswer
<1>3. CASE Evaluate /\ GenerationStep
      BY <1>3 DEF Evaluate, GenerationStep, AskForSummary, SummaryReceived,
         SummaryRefused, SummaryUnusable, Request, Answer, NoAnswer
<1>4. CASE Evaluate /\ StreamStep
      BY <1>4 DEF Evaluate, StreamStep, BeginPreview, AskForStream, StreamOpens,
         StreamRefused, ReadChunk, ReadFails, BodyEnds, TakeLine, TakeBadLine,
         SummaryStreamed, StreamUnusable, FinalizePreview, FailPreview, Breaks,
         Request, Answer, NoAnswer, FailSession, FailReturnsAt, Begin, Append,
         Finalize, Fail, CallerIdle
<1>5. CASE ModelNotNeeded \/ LoadFails
      BY <1>5 DEF ModelNotNeeded, LoadFails
<1>6. CASE Recorded
      BY <1>6 DEF Recorded, Returns, Written, Outcome
<1>7. CASE RecordRefused
      BY <1>7 DEF RecordRefused, Throws, Written, Outcome
<1>8. CASE FailureRecorded
      BY <1>8 DEF FailureRecorded, Throws
<1>9. CASE AlreadyCommitted
      BY <1>9 DEF AlreadyCommitted, FailSession, Fail, CallerIdle, Returns
<1>10. CASE Renewed \/ Closed
      BY <1>10 DEF Renewed, Closed, Settled
<1>11. CASE Invalid \/ Store \/ ClaimDelivery
      BY <1>11 DEF Invalid, Store, ClaimDelivery, OverIfOwned, Over, Caught
<1>12. CASE CommitPreview \/ Deliver
      BY <1>12 DEF CommitPreview, Deliver, Previewed, Commit, CallerIdle,
         OverIfOwned, Over
<1>13. CASE Catch \/ HandleProcessingError
      BY <1>13 DEF Catch, HandleProcessingError, Fail, CallerIdle, OverIfOwned,
         Over, Retryable
<1>14. CASE Accepted
      BY <1>14 DEF Accepted, UpdateAccepted, CallAccepted, MethodReturns,
         AfterMethod, CallerIdle, Resolved, Returns, OverIfOwned, Over
<1>15. ASSUME NEW e \in TransportErrors, Refused(e) PROVE SessionAt'
      BY <1>15, RefusedCases DEF Waits, Refused, TransportErrors, UpdateRejected,
         CallRejected, CallerIdle
<1>16. CASE Beat \/ Renewal \/ LeaseLapses
      BY <1>16 DEF Beat, Renewal, LeaseLapses
<1>17. CASE TimerDue
      BY <1>17 DEF TimerDue, TimerFires
<1>18. CASE UNCHANGED attemptVars
      BY <1>18 DEF attemptVars
<1> QED BY <1>1, <1>2, <1>3, <1>4, <1>5, <1>6, <1>7, <1>8, <1>9, <1>10, <1>11,
   <1>12, <1>13, <1>14, <1>15, <1>16, <1>17, <1>18 DEF AttemptNext, Operate,
   Conclude, Transport, Evaluate, EvaluationStep

\* An error is neither forgotten nor made up.
LEMMA ErrorsStep ==
    ASSUME SessionInv, Types, CallerAwaits, SessionAt, Errors, Renewals,
           [AttemptNext]_attemptVars
    PROVE  Errors'
<1> USE DEF SessionInv, SessionTypeOK, Types, AttemptTypeOK, CallerAwaits,
   SessionAt, Errors, States, Failing, Presenting, ProviderErrors, OutputErrors,
   vars, evaluation, attempt, preview, progress
<1>1. CASE LookupFinds \/ LookupEmpty \/ LookupFails
      BY <1>1 DEF LookupFinds, LookupEmpty, LookupFails, Returns, Throws
<1>2. CASE Evaluate /\ ClassifierStep
      BY <1>2 DEF Evaluate, ClassifierStep, AskClassifier, ClassifierRefused,
         ClassifierUnusable, ClassifierDecides, Classifying, ClassifierCall,
         Request, Answer, NoAnswer
<1>3. CASE Evaluate /\ GenerationStep
      BY <1>3 DEF Evaluate, GenerationStep, AskForSummary, SummaryReceived,
         SummaryRefused, SummaryUnusable, Request, Answer, NoAnswer
<1>4. CASE Evaluate /\ StreamStep
      BY <1>4 DEF Evaluate, StreamStep, BeginPreview, AskForStream, StreamOpens,
         StreamRefused, ReadChunk, ReadFails, BodyEnds, TakeLine, TakeBadLine,
         SummaryStreamed, StreamUnusable, FinalizePreview, FailPreview, Breaks,
         Request, Answer, NoAnswer, FailSession, FailReturnsAt, Begin, Append,
         Finalize, Fail, CallerIdle
<1>5. CASE ModelNotNeeded \/ LoadFails
      BY <1>5 DEF ModelNotNeeded, LoadFails
<1>6. CASE Recorded \/ RecordRefused \/ FailureRecorded
      BY <1>6 DEF Recorded, RecordRefused, FailureRecorded, Returns, Throws,
         Written, Outcome
<1>7. CASE AlreadyCommitted
      BY <1>7 DEF AlreadyCommitted, FailSession, Fail, CallerIdle, Returns
<1>8. CASE Renewed \/ Closed
      BY <1>8 DEF Renewed, Closed, Settled
<1>9. CASE Invalid \/ Store \/ ClaimDelivery
      BY <1>9 DEF Invalid, Store, ClaimDelivery, OverIfOwned, Over, Caught
<1>10. CASE CommitPreview \/ Deliver
      BY <1>10 DEF CommitPreview, Deliver, Previewed, Commit, CallerIdle,
         OverIfOwned, Over
<1>11. CASE Catch \/ HandleProcessingError
      BY <1>11 DEF Catch, HandleProcessingError, Fail, CallerIdle, OverIfOwned,
         Over, Retryable
<1>12. CASE Accepted
      BY <1>12, AcceptedCases DEF Waits, Accepted, Returns
<1>13. ASSUME NEW e \in TransportErrors, Refused(e) PROVE Errors'
      BY <1>13, RefusedCases DEF Waits, Refused, TransportErrors
<1>14. CASE Beat \/ Renewal \/ LeaseLapses
      BY <1>14 DEF Beat, Renewal, LeaseLapses
<1>15. CASE TimerDue
      BY <1>15 DEF TimerDue, TimerFires
<1>16. CASE UNCHANGED attemptVars
      BY <1>16 DEF attemptVars
<1> QED BY <1>1, <1>2, <1>3, <1>4, <1>5, <1>6, <1>7, <1>8, <1>9, <1>10, <1>11,
   <1>12, <1>13, <1>14, <1>15, <1>16 DEF AttemptNext, Operate, Conclude,
   Transport, Evaluate, EvaluationStep

\* What the operation returns is what it recorded.
LEMMA ResultsStep ==
    ASSUME SessionInv, Types, CallerAwaits, SessionAt, Errors, Results,
           [AttemptNext]_attemptVars
    PROVE  Results'
<1> USE DEF Types, AttemptTypeOK, CallerAwaits, SessionAt, Errors, Results,
   Failing, Presenting, Operating, vars, evaluation, attempt, preview, progress
<1>1. CASE LookupFinds \/ LookupEmpty \/ LookupFails
      BY <1>1 DEF LookupFinds, LookupEmpty, LookupFails, Returns, Throws
<1>2. CASE Evaluate /\ ClassifierStep
      BY <1>2 DEF Evaluate, ClassifierStep, AskClassifier, ClassifierRefused,
         ClassifierUnusable, ClassifierDecides, Classifying, ClassifierCall,
         Request, Answer, NoAnswer
<1>3. CASE Evaluate /\ GenerationStep
      BY <1>3 DEF Evaluate, GenerationStep, AskForSummary, SummaryReceived,
         SummaryRefused, SummaryUnusable, Request, Answer, NoAnswer
<1>4. CASE Evaluate /\ StreamStep
      BY <1>4 DEF Evaluate, StreamStep, BeginPreview, AskForStream, StreamOpens,
         StreamRefused, ReadChunk, ReadFails, BodyEnds, TakeLine, TakeBadLine,
         SummaryStreamed, StreamUnusable, FinalizePreview, FailPreview, Breaks,
         Request, Answer, NoAnswer, FailSession, FailReturnsAt, Begin, Append,
         Finalize, Fail, CallerIdle
<1>5. CASE ModelNotNeeded \/ LoadFails
      BY <1>5 DEF ModelNotNeeded, LoadFails
<1>6. CASE Recorded
      BY <1>6 DEF Recorded, Returns, Written, Outcome
<1>7. CASE RecordRefused
      BY <1>7 DEF RecordRefused, Throws, Written, Outcome
<1>8. CASE FailureRecorded
      BY <1>8 DEF FailureRecorded, Throws
<1>9. CASE AlreadyCommitted
      BY <1>9 DEF AlreadyCommitted, FailSession, Fail, CallerIdle, Returns
<1>10. CASE Renewed \/ Closed
      BY <1>10 DEF Renewed, Closed, Settled
<1>11. CASE Invalid \/ Store \/ ClaimDelivery
      BY <1>11 DEF Invalid, Store, ClaimDelivery, OverIfOwned, Over, Caught
<1>12. CASE CommitPreview \/ Deliver
      BY <1>12 DEF CommitPreview, Deliver, Previewed, Commit, CallerIdle,
         OverIfOwned, Over
<1>13. CASE Catch \/ HandleProcessingError
      BY <1>13 DEF Catch, HandleProcessingError, Fail, CallerIdle, OverIfOwned,
         Over, Retryable
<1>14. CASE Accepted
      BY <1>14, AcceptedCases DEF Waits, Accepted
<1>15. ASSUME NEW e \in TransportErrors, Refused(e) PROVE Results'
      BY <1>15, RefusedCases DEF Waits, Refused, TransportErrors
<1>16. CASE Beat \/ Renewal \/ LeaseLapses
      BY <1>16 DEF Beat, Renewal, LeaseLapses
<1>17. CASE TimerDue
      BY <1>17 DEF TimerDue, TimerFires
<1>18. CASE UNCHANGED attemptVars
      BY <1>18 DEF attemptVars
<1> QED BY <1>1, <1>2, <1>3, <1>4, <1>5, <1>6, <1>7, <1>8, <1>9, <1>10, <1>11,
   <1>12, <1>13, <1>14, <1>15, <1>16, <1>17, <1>18 DEF AttemptNext, Operate,
   Conclude, Transport, Evaluate, EvaluationStep

\* What the chat is told: of a commit, of a plain message, of a failure.
LEMMA ToldStep ==
    ASSUME SessionInv, SessionInv', Types, CallerAwaits, SessionAt, Errors, Results, Told, CallerAwaits', SessionAt', Results', Errors',
           [AttemptNext]_attemptVars
    PROVE  Told'
<1> USE DEF SessionInv, SessionTypeOK, States, Told, CommitFollowsRecord, Types,
   AttemptTypeOK, CallerAwaits, SessionAt, Errors, Results, Failing, Presenting,
   Operating, vars, evaluation, attempt, preview, progress
<1>1. CASE LookupFinds \/ LookupEmpty \/ LookupFails
      BY <1>1 DEF LookupFinds, LookupEmpty, LookupFails, Returns, Throws
<1>2. CASE Evaluate /\ ClassifierStep
      BY <1>2 DEF Evaluate, ClassifierStep, AskClassifier, ClassifierRefused,
         ClassifierUnusable, ClassifierDecides, Classifying, ClassifierCall,
         Request, Answer, NoAnswer
<1>3. CASE Evaluate /\ GenerationStep
      BY <1>3 DEF Evaluate, GenerationStep, AskForSummary, SummaryReceived,
         SummaryRefused, SummaryUnusable, Request, Answer, NoAnswer
<1>4. CASE Evaluate /\ StreamStep
      BY <1>4 DEF Evaluate, StreamStep, BeginPreview, AskForStream, StreamOpens,
         StreamRefused, ReadChunk, ReadFails, BodyEnds, TakeLine, TakeBadLine,
         SummaryStreamed, StreamUnusable, FinalizePreview, FailPreview, Breaks,
         Request, Answer, NoAnswer, FailSession, FailReturnsAt, Begin, Append,
         Finalize, Fail, CallerIdle
<1>5. CASE ModelNotNeeded \/ LoadFails
      BY <1>5 DEF ModelNotNeeded, LoadFails
<1>6. CASE Recorded
      BY <1>6 DEF Recorded, Returns, Written, Outcome
<1>7. CASE RecordRefused
      BY <1>7 DEF RecordRefused, Throws, Written, Outcome
<1>8. CASE FailureRecorded
      BY <1>8 DEF FailureRecorded, Throws
<1>9. CASE AlreadyCommitted
      BY <1>9 DEF AlreadyCommitted, FailSession, Fail, CallerIdle, Returns
<1>10. CASE Renewed \/ Closed
      BY <1>10 DEF Renewed, Closed, Settled
<1>11. CASE Invalid \/ Store \/ ClaimDelivery
      BY <1>11 DEF Invalid, Store, ClaimDelivery, OverIfOwned, Over, Caught
<1>12. CASE CommitPreview \/ Deliver
      BY <1>12 DEF CommitPreview, Deliver, Previewed, Commit, CallerIdle,
         OverIfOwned, Over
<1>13. CASE Catch \/ HandleProcessingError
      BY <1>13 DEF Catch, HandleProcessingError, Fail, CallerIdle, OverIfOwned,
         Over, Retryable
<1>14. CASE Accepted
      <2>1. CASE UpdateAccepted
            BY <1>14, <2>1, AcceptedCases DEF Waits, UpdateAccepted, CallerIdle
      <2>2. CASE CallAccepted
            BY <1>14, <2>2, AcceptedCases DEF Waits, CallAccepted, CallerIdle
      <2> QED BY <1>14, <2>1, <2>2 DEF Accepted
<1>15. ASSUME NEW e \in TransportErrors, Refused(e) PROVE Told'
      BY <1>15, RefusedCases DEF Waits, Refused, TransportErrors, UpdateRejected,
         CallRejected, CallerIdle
<1>16. CASE Beat \/ Renewal \/ LeaseLapses
      BY <1>16 DEF Beat, Renewal, LeaseLapses
<1>17. CASE TimerDue
      BY <1>17 DEF TimerDue, TimerFires
<1>18. CASE UNCHANGED attemptVars
      BY <1>18 DEF attemptVars
<1> QED BY <1>1, <1>2, <1>3, <1>4, <1>5, <1>6, <1>7, <1>8, <1>9, <1>10, <1>11,
   <1>12, <1>13, <1>14, <1>15, <1>16, <1>17, <1>18 DEF AttemptNext, Operate,
   Conclude, Transport, Evaluate, EvaluationStep

\* The result waits for the renewals that were under way.
LEMMA RenewalsStep ==
    ASSUME SessionInv, Types, CallerAwaits, Errors, Results, Renewals,
           [AttemptNext]_attemptVars
    PROVE  Renewals'
<1> USE DEF Types, AttemptTypeOK, CallerAwaits, Errors, Hearts, Renewals, Failing,
   Presenting, Operating, vars, evaluation, attempt, preview, progress
<1>1. CASE LookupFinds \/ LookupEmpty \/ LookupFails
      BY <1>1 DEF LookupFinds, LookupEmpty, LookupFails, Returns, Throws
<1>2. CASE Evaluate /\ ClassifierStep
      BY <1>2 DEF Evaluate, ClassifierStep, AskClassifier, ClassifierRefused,
         ClassifierUnusable, ClassifierDecides, Classifying, ClassifierCall,
         Request, Answer, NoAnswer
<1>3. CASE Evaluate /\ GenerationStep
      BY <1>3 DEF Evaluate, GenerationStep, AskForSummary, SummaryReceived,
         SummaryRefused, SummaryUnusable, Request, Answer, NoAnswer
<1>4. CASE Evaluate /\ StreamStep
      BY <1>4 DEF Evaluate, StreamStep, BeginPreview, AskForStream, StreamOpens,
         StreamRefused, ReadChunk, ReadFails, BodyEnds, TakeLine, TakeBadLine,
         SummaryStreamed, StreamUnusable, FinalizePreview, FailPreview, Breaks,
         Request, Answer, NoAnswer, FailSession, FailReturnsAt, Begin, Append,
         Finalize, Fail, CallerIdle
<1>5. CASE ModelNotNeeded \/ LoadFails
      BY <1>5 DEF ModelNotNeeded, LoadFails
<1>6. CASE Recorded \/ RecordRefused \/ FailureRecorded
      BY <1>6 DEF Recorded, RecordRefused, FailureRecorded, Returns, Throws,
         Written, Outcome
<1>7. CASE AlreadyCommitted
      BY <1>7 DEF AlreadyCommitted, FailSession, Fail, CallerIdle, Returns
<1>8. CASE Renewed \/ Closed
      BY <1>8 DEF Renewed, Closed, Settled
<1>9. CASE Invalid \/ Store \/ ClaimDelivery
      BY <1>9 DEF Invalid, Store, ClaimDelivery, OverIfOwned, Over, Caught
<1>10. CASE CommitPreview \/ Deliver
      BY <1>10 DEF CommitPreview, Deliver, Previewed, Commit, CallerIdle,
         OverIfOwned, Over
<1>11. CASE Catch \/ HandleProcessingError
      BY <1>11 DEF Catch, HandleProcessingError, Fail, CallerIdle, OverIfOwned,
         Over, Retryable
<1>12. CASE Accepted
      BY <1>12, AcceptedCases DEF Waits, Accepted, Returns
<1>13. ASSUME NEW e \in TransportErrors, Refused(e) PROVE Renewals'
      BY <1>13, RefusedCases DEF Waits, Refused, TransportErrors
<1>14. CASE Beat \/ Renewal \/ LeaseLapses
      BY <1>14 DEF Beat, Renewal, LeaseLapses
<1>15. CASE TimerDue
      BY <1>15 DEF TimerDue, TimerFires
<1>16. CASE UNCHANGED attemptVars
      BY <1>16 DEF attemptVars
<1> QED BY <1>1, <1>2, <1>3, <1>4, <1>5, <1>6, <1>7, <1>8, <1>9, <1>10, <1>11,
   <1>12, <1>13, <1>14, <1>15, <1>16 DEF AttemptNext, Operate, Conclude,
   Transport, Evaluate, EvaluationStep

\* The journal follows the calls of the model.
LEMMA JournalStep ==
    ASSUME SessionInv, Types, CallerAwaits, SessionAt, Errors, JournalFollows,
           [AttemptNext]_attemptVars
    PROVE  JournalFollows'
<1> USE DEF Types, AttemptTypeOK, CallerAwaits, SessionAt, Errors, Failing,
   JournalFollows, Invocations, Awaited, ProviderErrors, OutputErrors, vars,
   evaluation, attempt, preview, progress
<1>1. CASE LookupFinds \/ LookupEmpty \/ LookupFails
      BY <1>1 DEF LookupFinds, LookupEmpty, LookupFails, Returns, Throws
<1>2. CASE Evaluate /\ ClassifierStep
      BY <1>2 DEF Evaluate, ClassifierStep, AskClassifier, ClassifierRefused,
         ClassifierUnusable, ClassifierDecides, Classifying, ClassifierCall,
         Request, Answer, NoAnswer
<1>3. CASE Evaluate /\ GenerationStep
      BY <1>3 DEF Evaluate, GenerationStep, AskForSummary, SummaryReceived,
         SummaryRefused, SummaryUnusable, Request, Answer, NoAnswer
<1>4. CASE Evaluate /\ StreamStep
      <2>1. CASE AskForStream
            BY <1>4, <2>1 DEF Evaluate, AskForStream, Request
      <2>2. CASE (\E e \in ProviderErrors : StreamRefused(e)) \/ ReadFails \/ StreamUnusable
            BY <1>4, <2>2 DEF Evaluate, StreamRefused, ReadFails, StreamUnusable,
               Breaks, NoAnswer
      <2>3. CASE \E e \in {"provider-permanent", "invalid"} : TakeBadLine(e)
            BY <1>4, <2>3 DEF Evaluate, TakeBadLine, Breaks, NoAnswer
      <2>4. CASE SummaryStreamed
            BY <1>4, <2>4 DEF Evaluate, SummaryStreamed, Answer
      <2>5. CASE BeginPreview \/ StreamOpens \/ (\E n \in 0 .. MaxLines, half \in BOOLEAN : ReadChunk(n, half)) \/ BodyEnds \/ TakeLine
            BY <1>4, <2>5 DEF Evaluate, BeginPreview, StreamOpens, ReadChunk,
               BodyEnds, TakeLine
      <2>6. CASE FinalizePreview \/ FailPreview
            BY <1>4, <2>6 DEF Evaluate, FinalizePreview, FailPreview, FailReturnsAt
      <2> QED BY <1>4, <2>1, <2>2, <2>3, <2>4, <2>5, <2>6 DEF StreamStep
<1>5. CASE ModelNotNeeded \/ LoadFails
      BY <1>5 DEF ModelNotNeeded, LoadFails
<1>6. CASE Recorded
      BY <1>6 DEF Recorded, Returns, Written, Outcome
<1>7. CASE RecordRefused
      BY <1>7 DEF RecordRefused, Throws, Written, Outcome
<1>8. CASE FailureRecorded
      BY <1>8 DEF FailureRecorded, Throws
<1>9. CASE AlreadyCommitted
      BY <1>9 DEF AlreadyCommitted, FailSession, Fail, CallerIdle, Returns
<1>10. CASE Renewed \/ Closed
      BY <1>10 DEF Renewed, Closed, Settled
<1>11. CASE Invalid \/ Store \/ ClaimDelivery
      BY <1>11 DEF Invalid, Store, ClaimDelivery, OverIfOwned, Over, Caught
<1>12. CASE CommitPreview \/ Deliver
      BY <1>12 DEF CommitPreview, Deliver, Previewed, Commit, CallerIdle,
         OverIfOwned, Over
<1>13. CASE Catch \/ HandleProcessingError
      BY <1>13 DEF Catch, HandleProcessingError, Fail, CallerIdle, OverIfOwned,
         Over, Retryable
<1>14. CASE Accepted
      BY <1>14, AcceptedCases DEF Waits, Accepted, Returns
<1>15. ASSUME NEW e \in TransportErrors, Refused(e) PROVE JournalFollows'
      BY <1>15, RefusedCases DEF Waits, Refused, TransportErrors
<1>16. CASE Beat \/ Renewal \/ LeaseLapses
      BY <1>16 DEF Beat, Renewal, LeaseLapses
<1>17. CASE TimerDue
      BY <1>17 DEF TimerDue, TimerFires
<1>18. CASE UNCHANGED attemptVars
      BY <1>18 DEF attemptVars
<1> QED BY <1>1, <1>2, <1>3, <1>4, <1>5, <1>6, <1>7, <1>8, <1>9, <1>10, <1>11,
   <1>12, <1>13, <1>14, <1>15, <1>16, <1>17, <1>18 DEF AttemptNext, Operate,
   Conclude, Transport, Evaluate, EvaluationStep

\* A failure that can be retried is one until another takes its place.
LEMMA TransientStep ==
    ASSUME SessionInv, Types, CallerAwaits, SessionAt, Errors, Results, JournalFollows, Transient,
           [AttemptNext]_attemptVars
    PROVE  Transient'
<1> USE DEF Types, AttemptTypeOK, CallerAwaits, SessionAt, Errors, Transient,
   Failing, Presenting, Operating, Hearts, JournalFollows, Invocations, Awaited,
   Results, ProviderErrors, OutputErrors, vars, evaluation, attempt, preview,
   progress
<1>1. CASE LookupFinds \/ LookupEmpty \/ LookupFails
      BY <1>1 DEF LookupFinds, LookupEmpty, LookupFails, Returns, Throws
<1>2. CASE Evaluate /\ ClassifierStep
      BY <1>2 DEF Evaluate, ClassifierStep, AskClassifier, ClassifierRefused,
         ClassifierUnusable, ClassifierDecides, Classifying, ClassifierCall,
         Request, Answer, NoAnswer
<1>3. CASE Evaluate /\ GenerationStep
      BY <1>3 DEF Evaluate, GenerationStep, AskForSummary, SummaryReceived,
         SummaryRefused, SummaryUnusable, Request, Answer, NoAnswer
<1>4. CASE Evaluate /\ StreamStep
      BY <1>4 DEF Evaluate, StreamStep, BeginPreview, AskForStream, StreamOpens,
         StreamRefused, ReadChunk, ReadFails, BodyEnds, TakeLine, TakeBadLine,
         SummaryStreamed, StreamUnusable, FinalizePreview, FailPreview, Breaks,
         Request, Answer, NoAnswer, FailSession, FailReturnsAt, Begin, Append,
         Finalize, Fail, CallerIdle
<1>5. CASE ModelNotNeeded \/ LoadFails
      BY <1>5 DEF ModelNotNeeded, LoadFails
<1>6. CASE Recorded \/ RecordRefused \/ FailureRecorded
      BY <1>6 DEF Recorded, RecordRefused, FailureRecorded, Returns, Throws,
         Written, Outcome
<1>7. CASE AlreadyCommitted
      BY <1>7 DEF AlreadyCommitted, FailSession, Fail, CallerIdle, Returns
<1>8. CASE Renewed \/ Closed
      BY <1>8 DEF Renewed, Closed, Settled
<1>9. CASE Invalid \/ Store \/ ClaimDelivery
      BY <1>9 DEF Invalid, Store, ClaimDelivery, OverIfOwned, Over, Caught
<1>10. CASE CommitPreview \/ Deliver
      BY <1>10 DEF CommitPreview, Deliver, Previewed, Commit, CallerIdle,
         OverIfOwned, Over
<1>11. CASE Catch \/ HandleProcessingError
      BY <1>11 DEF Catch, HandleProcessingError, Fail, CallerIdle, OverIfOwned,
         Over, Retryable
<1>12. CASE Accepted
      BY <1>12, AcceptedCases DEF Waits, Accepted, Returns
<1>13. ASSUME NEW e \in TransportErrors, Refused(e) PROVE Transient'
      BY <1>13, RefusedCases DEF Waits, Refused, TransportErrors
<1>14. CASE Beat \/ Renewal \/ LeaseLapses
      BY <1>14 DEF Beat, Renewal, LeaseLapses
<1>15. CASE TimerDue
      BY <1>15 DEF TimerDue, TimerFires
<1>16. CASE UNCHANGED attemptVars
      BY <1>16 DEF attemptVars
<1> QED BY <1>1, <1>2, <1>3, <1>4, <1>5, <1>6, <1>7, <1>8, <1>9, <1>10, <1>11,
   <1>12, <1>13, <1>14, <1>15, <1>16 DEF AttemptNext, Operate, Conclude,
   Transport, Evaluate, EvaluationStep

\* All of the types.
LEMMA TypesStep ==
    ASSUME SessionInv, CallerAwaits, SessionAt, Errors, Types, [AttemptNext]_attemptVars
    PROVE  Types'
BY HeartStep, FlagsStep, PointsStep, CallsTypedStep
   DEF Types, AttemptTypeOK, Flags, Points, CallsTyped

(***************************************************************************)
(* What was recorded stays true: the calls change during the operation     *)
(* only, and the record at its end.                                        *)
(***************************************************************************)
LEMMA EvidenceStep ==
    ASSUME SessionInv, Types, CallerAwaits, Errors, JournalFollows, Evidence,
           [AttemptNext]_attemptVars
    PROVE  Evidence'
<1>1. ASSUME Operating, UNCHANGED record PROVE Evidence'
      BY <1>1 DEF Evidence, EvidenceIsTrue, Unwritten, NotInvoked
<1>2. ASSUME ~Operating, ~Operating', UNCHANGED <<record, calls>> PROVE Evidence'
      BY <1>2 DEF Evidence, EvidenceIsTrue, Unwritten, NotInvoked
<1>3. ASSUME Operating, ~Operating', UNCHANGED calls, pc = "decided",
             record' = Written PROVE Evidence'
      <2>1. \A i \in Invocations : record'.evidence[i] = journal[i]
            BY <1>3 DEF Written, Snapshot
      <2>2. \A i \in Invocations : record'.evidence[i] =
               CASE calls[i] = "none" -> "none" [] calls[i] = "used" -> "succeeded"
                 [] OTHER -> "failed"
            <3>1. \A i \in Invocations : calls[i] \in {"none", "used", "unusable"}
                  BY <1>3 DEF JournalFollows, Failing, Awaited, Invocations
            <3> QED BY <2>1, <3>1 DEF JournalFollows
      <2> QED BY <1>3, <2>2 DEF Evidence, EvidenceIsTrue
<1>4. ASSUME Operating, ~Operating', UNCHANGED calls,
             record' = [status |-> "error", evidence |-> Snapshot(TRUE)] PROVE Evidence'
      <2>1. \A i \in Invocations : record'.evidence[i] =
               IF journal[i] = "pending" THEN "failed" ELSE journal[i]
            BY <1>4 DEF Snapshot
      <2>2. \A i \in Invocations : record'.evidence[i] =
               CASE calls[i] = "none" -> "none" [] calls[i] = "used" -> "succeeded"
                 [] OTHER -> "failed"
            BY <2>1 DEF JournalFollows
      <2> QED BY <1>4, <2>2 DEF Evidence, EvidenceIsTrue
<1>5. CASE LookupFinds \/ LookupEmpty \/ LookupFails \/ Evaluate \/ ModelNotNeeded
             \/ LoadFails \/ AlreadyCommitted
      BY <1>1, <1>5 DEF LookupFinds, LookupEmpty, LookupFails, Evaluate, ModelNotNeeded,
         LoadFails, AlreadyCommitted, attempt, Operating
<1>6. CASE Recorded
      BY <1>3, <1>6 DEF Recorded, Returns, Operating, evaluation
<1>7. CASE RecordRefused
      BY <1>1, <1>3, <1>7 DEF RecordRefused, Throws, Operating
<1>8. CASE FailureRecorded
      BY <1>1, <1>4, <1>8 DEF FailureRecorded, Throws, Operating, evaluation
<1>9. CASE Conclude
      BY <1>2, <1>9 DEF Conclude, Renewed, Closed, Invalid, Store, ClaimDelivery,
         CommitPreview, Deliver, Catch, HandleProcessingError, OverIfOwned, Over, Caught,
         Operating, evaluation
<1>10. CASE Accepted
      BY <1>1, <1>2, <1>10, AcceptedCases DEF Waits, Operating, Returns
<1>11. ASSUME NEW e \in TransportErrors, Refused(e) PROVE Evidence'
      BY <1>1, <1>2, <1>11, RefusedCases DEF Waits, Operating
<1>12. CASE TimerDue \/ Beat \/ Renewal \/ LeaseLapses \/ UNCHANGED attemptVars
      BY <1>1, <1>2, <1>12 DEF TimerDue, Beat, Renewal, LeaseLapses, attemptVars,
         evaluation, attempt, Operating
<1> QED BY <1>5, <1>6, <1>7, <1>8, <1>9, <1>10, <1>11, <1>12
        DEF AttemptNext, Operate, Transport

\* Together: the invariant is inductive.
LEMMA AttemptStep == AttemptInv /\ [AttemptNext]_attemptVars => AttemptInv'
<1> SUFFICES ASSUME AttemptInv, [AttemptNext]_attemptVars PROVE AttemptInv'
    OBVIOUS
<1> USE DEF AttemptInv
<1>1. SessionInv'
      BY AttemptMovesSession, SessionStep
<1>2. Types'
      BY TypesStep
<1>3. CallerAwaits' /\ SessionAt'
      BY <1>1, CallerAwaitsStep, SessionAtStep
<1>4. Errors' /\ Results'
      BY ErrorsStep, ResultsStep
<1>5. Told'
      BY <1>1, <1>3, <1>4, ToldStep
<1>6. JournalFollows' /\ Evidence'
      BY JournalStep, EvidenceStep
<1>7. Renewals' /\ Transient'
      BY RenewalsStep, TransientStep
<1> QED BY <1>1, <1>2, <1>3, <1>4, <1>5, <1>6, <1>7

-----------------------------------------------------------------------------
(***************************************************************************)
(* The invariant gives what the run checks.                                *)
(***************************************************************************)
LEMMA InvChatAgrees == AttemptInv => ChatAgrees
<1> SUFFICES ASSUME AttemptInv PROVE ChatAgrees
    OBVIOUS
<1>1. AttemptTypeOK /\ CommitFollowsRecord
      BY DEF AttemptInv, Types, Told
<1>2. ASSUME ended = "fail" PROVE NoticeIsTrue
      <2>1. CASE delivered # "none"
            BY <1>2, <2>1 DEF AttemptInv, Told, NoticeIsTrue, CommitFollowsRecord
      <2>2. CASE delivered = "none"
            BY <1>2, <2>2 DEF AttemptInv, Told, NoticeIsTrue
      <2> QED BY <2>1, <2>2
<1> QED BY <1>1, <1>2 DEF ChatAgrees, NoticeIsTrue

\* When the attempt is over its preview is.
LEMMA InvOverIsQuiet == AttemptInv => OverIsQuiet
<1> SUFFICES ASSUME AttemptInv, phase = "over"
             PROVE  /\ CallerIdle /\ ~timer
                    /\ state \notin {"preparing", "streaming"}
                    /\ updating # 0 => state = "failed" /\ ended = "no" /\ ~terminal
    BY DEF OverIsQuiet
<1>1. CallerIdle
      BY DEF AttemptInv, CallerAwaits, SessionInv, SessionTypeOK, CallerIdle
<1>2. state \notin {"preparing", "streaming"} /\ ~timer
      BY <1>1 DEF AttemptInv, SessionAt, SessionInv, CallerIdle
<1>3. ASSUME updating # 0 PROVE state = "failed" /\ ended = "no" /\ ~terminal
      <2>1. ended = "no" /\ ~terminal
            BY <1>1, <1>3 DEF AttemptInv, SessionInv, CallerIdle
      <2>2. published < updating /\ updating <= desired /\ desired <= text
            BY <1>3 DEF AttemptInv, SessionInv
      <2>3. text \in Nat /\ desired \in Nat /\ published \in Nat /\ updating \in Nat
            BY MaxTextAssumption DEF AttemptInv, SessionInv, SessionTypeOK
      <2>4. state # "idle" /\ state # "finalizing" /\ state # "completed"
            BY <1>1, <2>1, <2>2, <2>3 DEF AttemptInv, SessionInv, CallerIdle
      <2> QED BY <1>2, <2>1, <2>4 DEF AttemptInv, SessionInv, SessionTypeOK, States
<1> QED BY <1>1, <1>2, <1>3

\* The other three are parts of it.
LEMMA InvOthers ==
    AttemptInv => EvidenceIsTrue /\ ResultUnderLease /\ RetryableIsRetried
<1>1. AttemptInv => EvidenceIsTrue
      BY DEF AttemptInv, Evidence
<1>2. AttemptInv => ResultUnderLease
      BY DEF AttemptInv, Renewals, Errors, Presenting, ResultUnderLease
<1>3. AttemptInv => RetryableIsRetried
      BY DEF AttemptInv, Transient, RetryableIsRetried
<1> QED BY <1>1, <1>2, <1>3

-----------------------------------------------------------------------------
\* The inductive invariant holds of every attempt.
THEOREM AttemptSafe == FairAttemptSpec => []AttemptInv
BY AttemptInitially, AttemptStep, PTL DEF FairAttemptSpec

(***************************************************************************)
(* The processor and the evaluation drive the session as it may be driven: *)
(* an attempt implements the specification of the session.                 *)
(***************************************************************************)
THEOREM AttemptImplementsSession == FairAttemptSpec => SessionSpec
<1>1. AttemptInit => Init
      BY DEF AttemptInit, EvaluationInit
<1>2. AttemptInv /\ [AttemptNext]_attemptVars => [Next]_vars
      BY AttemptMovesSession DEF AttemptInv
<1> QED BY <1>1, <1>2, AttemptSafe, PTL DEF FairAttemptSpec, SessionSpec

(***************************************************************************)
(* INV-12: the recorded evidence says of every call of the model what      *)
(* became of it.                                                           *)
(***************************************************************************)
THEOREM EvidenceSafe == FairAttemptSpec => []EvidenceIsTrue
BY AttemptSafe, InvOthers, PTL

(***************************************************************************)
(* INV-09: the preview is committed of what is recorded and stored only,   *)
(* no plain message repeats it, and no failure is told of what is          *)
(* delivered.                                                              *)
(***************************************************************************)
THEOREM ChatAgreesSafe == FairAttemptSpec => []ChatAgrees
BY AttemptSafe, InvChatAgrees, PTL

\* A result is not used before the renewals that were under way are granted.
THEOREM ResultUnderLeaseSafe == FairAttemptSpec => []ResultUnderLease
BY AttemptSafe, InvOthers, PTL

\* Nothing of the preview goes on after the attempt but a drain of a
\* rejected finalize().
THEOREM OverIsQuietSafe == FairAttemptSpec => []OverIsQuiet
BY AttemptSafe, InvOverIsQuiet, PTL

\* A failure of the model that can be retried ends no run unless another
\* failure took its place.
THEOREM RetryableSafe == FairAttemptSpec => []RetryableIsRetried
BY AttemptSafe, InvOthers, PTL
===============================================================================
