----------------------------- MODULE Evaluation -----------------------------
(***************************************************************************)
(* The model calls of one attempt (packages/summarize: evaluation,         *)
(* classifier, generation, SummaryExecutionJournal; packages/model:        *)
(* OllamaClient), which drive the preview of ProgressiveSession.           *)
(*                                                                         *)
(* The model is asked to classify the window, twice at most, and then for  *)
(* the summary, which is streamed into the preview, or asked for whole     *)
(* where there is no preview.  A response is what the parser makes of it.  *)
(* The journal keeps the evidence of every call.                           *)
(***************************************************************************)
EXTENDS ProgressiveSession

CONSTANTS MaxChunks,  \* bound: chunks of the body of a stream
          MaxLines    \* bound: lines that end in one chunk

ASSUME EvaluationAssumption == MaxChunks \in Nat /\ MaxLines \in Nat

VARIABLES progressive,  \* the workflow was given a session
          pc,           \* where the attempt is
          action,       \* the action the classifier decided on
          stream,       \* the body that is read: what is buffered of it
          journal,      \* SummaryExecutionJournal.invocations
          calls,        \* what became of each model call (history)
          error         \* what was thrown

evaluation == <<progressive, pc, action, stream, journal, calls, error>>

\* invocationKey: the stage and the number of the call in it
Invocations == {"classifier:1", "classifier:2", "summarizer:1"}
NotInvoked == [i \in Invocations |-> "none"]

(***************************************************************************)
(* Errors.  An OllamaError with status 429 or from 500 on is transient;    *)
(* one with another status, which includes the 200 of an error inside a    *)
(* body, is not.  fetch and reader reject with a TypeError.                *)
(***************************************************************************)
ProviderErrors == {"provider-transient", "provider-permanent", "network"}
OutputErrors == {"empty", "invalid"}
TransportErrors == {"transport-transient", "transport-permanent"}

NoBody == [chunks |-> 0, lines |-> 0, half |-> FALSE, eof |-> FALSE]

EvaluationInit ==
    /\ Init
    /\ progressive \in BOOLEAN
    /\ pc = "classify:1"
    /\ action = "none"
    /\ stream = NoBody
    /\ journal = NotInvoked
    /\ calls = NotInvoked
    /\ error = "none"

-----------------------------------------------------------------------------
(***************************************************************************)
(* The journal.                                                            *)
(***************************************************************************)
Request(i) ==
    /\ journal' = [journal EXCEPT ![i] = "pending"]
    /\ calls' = [calls EXCEPT ![i] = "asked"]

Answer(i, status) ==
    /\ journal' = [journal EXCEPT ![i] = status]
    /\ calls' = [calls EXCEPT ![i] = IF status = "succeeded" THEN "used"
                                                              ELSE "unusable"]

\* The answer is lost or refused, and nothing is recorded of it.
NoAnswer(i, e) ==
    /\ calls' = [calls EXCEPT ![i] = e]
    /\ UNCHANGED journal

\* Mutant: what is still pending when an error is recorded stays so.
SnapshotAsItIs(failed) == journal

\* A call that is pending when the attempt fails has failed with it.
Snapshot(failed) ==
    [i \in Invocations |->
        IF journal[i] = "pending" /\ failed THEN "failed" ELSE journal[i]]

-----------------------------------------------------------------------------
(***************************************************************************)
(* The classifier.                                                         *)
(***************************************************************************)
Predicates == {"durable", "essentialReferentsResolved", "visiblyIncomplete",
               "alreadyCompact", "primarilyReaction", "primarilyBanter",
               "requiresSynthesis"}

DecideFromPredicates(true) ==
    CASE "durable" \notin true ->
             (CASE "primarilyReaction" \in true -> "SKIP_REACTIONS"
                [] "primarilyReaction" \notin true /\ "primarilyBanter" \in true
                     -> "SKIP_BANTER"
                [] OTHER -> "SKIP_NO_VALUE")
      [] "durable" \in true /\ "essentialReferentsResolved" \notin true
             -> "DEFER_CONTEXT"
      [] {"durable", "essentialReferentsResolved", "visiblyIncomplete"} \subseteq true
             -> "DEFER_INCOMPLETE"
      [] OTHER -> IF "alreadyCompact" \in true \/ "requiresSynthesis" \notin true
                  THEN "DEFER_COMPACT" ELSE "SUMMARIZE"

Classifying == pc \in {"classifying:1", "classifying:2"}
ClassifierCall == IF pc \in {"classify:1", "classifying:1"} THEN "classifier:1"
                                                            ELSE "classifier:2"

AskClassifier ==
    /\ pc \in {"classify:1", "classify:2"}
    /\ pc' = IF pc = "classify:1" THEN "classifying:1" ELSE "classifying:2"
    /\ Request(ClassifierCall)
    /\ UNCHANGED <<vars, progressive, action, stream, error>>

\* fetch rejects, the status is an error, the body is none or an error.
ClassifierRefused(e) ==
    /\ Classifying
    /\ pc' = "threw" /\ error' = e
    /\ NoAnswer(ClassifierCall, e)
    /\ UNCHANGED <<vars, progressive, action, stream>>

\* Mutant: an output that cannot be used is asked for again and again.
ClassifierUnusableAgain(e, length) ==
    /\ Classifying
    /\ IF e = "empty" \/ length
       THEN pc' = "classify:2" /\ UNCHANGED error
       ELSE pc' = "threw" /\ error' = e
    /\ Answer(ClassifierCall, "failed")
    /\ UNCHANGED <<vars, progressive, action, stream>>

\* An output that is empty or was cut for its length is asked for once more.
ClassifierUnusable(e, length) ==
    /\ Classifying
    /\ IF pc = "classifying:1" /\ (e = "empty" \/ length)
       THEN pc' = "classify:2" /\ UNCHANGED error
       ELSE pc' = "threw" /\ error' = e
    /\ Answer(ClassifierCall, "failed")
    /\ UNCHANGED <<vars, progressive, action, stream>>

\* The action decides whether a summary is asked for.
ClassifierDecides(true) ==
    /\ Classifying
    /\ action' = DecideFromPredicates(true)
    /\ pc' = IF action' # "SUMMARIZE" THEN "decided"
             ELSE IF progressive THEN "begin" ELSE "generate"
    /\ Answer(ClassifierCall, "succeeded")
    /\ UNCHANGED <<vars, progressive, stream, error>>

-----------------------------------------------------------------------------
(***************************************************************************)
(* Generation without a preview.                                           *)
(***************************************************************************)
AskForSummary ==
    /\ pc = "generate" /\ pc' = "generating"
    /\ Request("summarizer:1")
    /\ UNCHANGED <<vars, progressive, action, stream, error>>

SummaryRefused(e) ==
    /\ pc = "generating" /\ pc' = "threw" /\ error' = e
    /\ NoAnswer("summarizer:1", e)
    /\ UNCHANGED <<vars, progressive, action, stream>>

\* The output does not parse, or parses into a text that is no summary, of
\* which nothing is recorded.
SummaryUnusable(e) ==
    /\ pc = "generating" /\ pc' = "threw" /\ error' = e
    /\ Answer("summarizer:1", "failed") \/ NoAnswer("summarizer:1", e)
    /\ UNCHANGED <<vars, progressive, action, stream>>

SummaryReceived ==
    /\ pc = "generating" /\ pc' = "decided"
    /\ Answer("summarizer:1", "succeeded")
    /\ UNCHANGED <<vars, progressive, action, stream, error>>

-----------------------------------------------------------------------------
(***************************************************************************)
(* Generation into the preview.                                            *)
(***************************************************************************)
BeginPreview ==
    /\ pc = "begin" /\ pc' = "beginning"
    /\ Begin
    /\ UNCHANGED <<progressive, action, stream, journal, calls, error>>

AskForStream ==
    /\ pc = "ask" /\ pc' = "asking"
    /\ Request("summarizer:1")
    /\ UNCHANGED <<vars, progressive, action, stream, error>>

\* An error inside "for await" goes to the preview first.
Breaks(e) ==
    /\ pc' = "fail" /\ error' = e
    /\ NoAnswer("summarizer:1", e)
    /\ UNCHANGED <<progressive, action, stream>>

StreamRefused(e) == pc = "asking" /\ Breaks(e) /\ UNCHANGED vars

StreamOpens ==
    /\ pc = "asking" /\ pc' = "read"
    /\ UNCHANGED <<vars, progressive, action, stream, journal, calls, error>>

(***************************************************************************)
(* reader.read: a chunk ends any number of lines and may begin another; it *)
(* is read once the lines before it were taken.                            *)
(***************************************************************************)
ReadChunk(lines, half) ==
    /\ pc = "read" /\ stream.lines = 0 /\ ~stream.eof
    /\ stream.chunks < MaxChunks
    /\ lines = 0 => half
    /\ stream' = [stream EXCEPT !.chunks = @ + 1, !.lines = lines, !.half = half]
    /\ UNCHANGED <<vars, progressive, pc, action, journal, calls, error>>

ReadFails ==
    /\ pc = "read" /\ stream.lines = 0 /\ ~stream.eof
    /\ Breaks("network") /\ UNCHANGED vars

\* The end of the body: what is buffered of a line is taken for one.
BodyEnds ==
    /\ pc = "read" /\ stream.lines = 0 /\ ~stream.eof
    /\ stream' = [stream EXCEPT !.eof = TRUE, !.half = FALSE,
                                !.lines = IF stream.half THEN 1 ELSE 0]
    /\ UNCHANGED <<vars, progressive, pc, action, journal, calls, error>>

\* parseLine and append: a delta, or a line without content.
TakeLine ==
    /\ pc = "read" /\ stream.lines > 0
    /\ stream' = [stream EXCEPT !.lines = @ - 1]
    /\ (text < MaxText /\ Append(text + 1)) \/ UNCHANGED vars
    /\ UNCHANGED <<progressive, pc, action, journal, calls, error>>

\* A line that is an error of the provider, or no JSON.
TakeBadLine(e) ==
    /\ pc = "read" /\ stream.lines > 0
    /\ Breaks(e) /\ UNCHANGED vars

\* The stream is over, which is not the same as done: validateSemanticOutput.
SummaryStreamed ==
    /\ pc = "read" /\ stream.eof /\ stream.lines = 0 /\ text # 0
    /\ pc' = "finalize"
    /\ Answer("summarizer:1", "succeeded")
    /\ UNCHANGED <<vars, progressive, action, stream, error>>

StreamUnusable ==
    /\ pc = "read" /\ stream.eof /\ stream.lines = 0
    /\ Breaks(IF text = 0 THEN "empty" ELSE "invalid") /\ UNCHANGED vars

FinalizePreview ==
    /\ pc = "finalize"
    /\ Finalize
    /\ pc' = IF flushed' THEN "decided" ELSE "finalizing"
    /\ UNCHANGED <<progressive, action, stream, journal, calls, error>>

\* ProgressiveSummarySession.fail does nothing where there is no more to do.
FailSession == Fail \/ (state \in {"completed", "failed"} /\ UNCHANGED vars)
FailReturnsAt(now, later) == pc' = IF CallerIdle' THEN now ELSE later

FailPreview ==
    /\ pc = "fail"
    /\ FailSession
    /\ FailReturnsAt("threw", "failing")
    /\ UNCHANGED <<progressive, action, stream, journal, calls, error>>

(***************************************************************************)
(* The method of the session that the evaluation awaits returns, or it     *)
(* rejects: begin outside of the try, finalize inside.  When fail rejects, *)
(* its error takes the place of the one it was called for.                 *)
(***************************************************************************)
Resolved ==
    /\ pc' = CASE pc = "beginning"  -> "ask"
               [] pc = "finalizing" -> "decided"
               [] pc = "failing"    -> "threw"
               [] OTHER             -> pc
    /\ UNCHANGED error

Rejected(e) ==
    /\ pc' = CASE pc \in {"beginning", "failing"} -> "threw"
               [] pc = "finalizing"               -> "fail"
               [] OTHER                           -> pc
    /\ error' = IF pc \in {"beginning", "failing", "finalizing"} THEN e ELSE error

-----------------------------------------------------------------------------
ClassifierStep ==
    \/ AskClassifier
    \/ \E e \in ProviderErrors : ClassifierRefused(e)
    \/ \E e \in OutputErrors, length \in BOOLEAN : ClassifierUnusable(e, length)
    \/ \E true \in SUBSET Predicates : ClassifierDecides(true)

GenerationStep ==
    \/ AskForSummary \/ SummaryReceived
    \/ \E e \in ProviderErrors : SummaryRefused(e)
    \/ \E e \in OutputErrors : SummaryUnusable(e)

StreamStep ==
    \/ BeginPreview \/ AskForStream \/ StreamOpens
    \/ \E e \in ProviderErrors : StreamRefused(e)
    \/ \E lines \in 0 .. MaxLines, half \in BOOLEAN : ReadChunk(lines, half)
    \/ ReadFails \/ BodyEnds \/ TakeLine
    \/ \E e \in {"provider-permanent", "invalid"} : TakeBadLine(e)
    \/ SummaryStreamed \/ StreamUnusable \/ FinalizePreview \/ FailPreview

EvaluationStep == ClassifierStep \/ GenerationStep \/ StreamStep
=============================================================================
