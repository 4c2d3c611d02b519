----------------------------- MODULE MCPipeline -----------------------------
(* Instances of the pipeline: one command, or two commands of one chat.    *)
EXTENDS SummaryPipeline, TLC
CONSTANTS a1, a2, w1, w2, c1, c2

OneRun == {a1}
TwoRuns == {a1, a2}
MCChatOf == [r \in {a1, a2} |-> "chatA"]
MCCommandMessageId == [r \in {a1, a2} |-> IF r = a2 THEN 2 ELSE 1]
OneCommandMessageId == [r \in {a1} |-> 1]

OneWorker == {w1}
TwoWorkers == {w1, w2}
OneCron == {c1}
TwoCrons == {c1, c2}

\* Bound: after a second fault one of the stages has one claim only.
SecondFaultSpares == \A r \in Runs :
    faults < 2 \/ row[r].attempt <= 1 \/ row[r].deliveryAttempt <= 1

\* Consumer invocations are interchangeable.
WorkerSymmetry == Permutations(TwoWorkers)
=============================================================================
