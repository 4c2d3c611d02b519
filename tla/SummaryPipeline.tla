--------------------------- MODULE SummaryPipeline ---------------------------
(***************************************************************************)
(* The asynchronous path of a /summary command, from the Telegram webhook  *)
(* to the message in the chat:                                             *)
(*                                                                         *)
(*   webhook -> lifecycle row -> queue -> consumer/processor -> Telegram   *)
(*                    ^                        |                           *)
(*                    +------ cron reconciler -+                           *)
(*                                                                         *)
(* The workers are consumer invocations together with the processor they   *)
(* call (queue handler and process() die together as far as the message is *)
(* concerned).  Every RPC to the lifecycle service is a step of its own,   *)
(* so workers, webhook and cron interleave between any two of them.        *)
(*                                                                         *)
(* Faults are counted: a call that throws before or after it took effect,  *)
(* a crashed invocation, a lease that lapses under a live holder, an       *)
(* ambiguous Telegram answer, a failed queue send.  MaxFaults bounds their *)
(* number.  Model and Telegram errors that answer properly cost nothing.   *)
(***************************************************************************)
EXTENDS RunLifecycle, FiniteSets

CONSTANTS
    Workers,                \* concurrent queue consumer invocations
    Crons,                  \* concurrent invocations of the scheduled handler
    MAX_ATTEMPTS,           \* processing budget (4 in the code)
    MAX_DELIVERY_ATTEMPTS,  \* delivery budget (4 in the code)
    MaxFaults,              \* bound on injected faults
    MaxJobs                 \* the cron adds no job for a run that has this many

ASSUME BudgetsAssumption ==
    /\ MAX_ATTEMPTS \in Nat \ {0}
    /\ MAX_DELIVERY_ATTEMPTS \in Nat \ {0}
    /\ MaxFaults \in Nat /\ MaxJobs \in Nat \ {0}

VARIABLES
    ingress,    \* ingress[r]: where the webhook invocation for command r is
    jobs,       \* jobs[r]: queue messages {runId: r} waiting to be consumed
    worker,     \* worker[w]: the invocation w and what it holds
    cron,       \* cron[c]: the reconciliation pass c
    accepted,   \* accepted[r]: orchestration attempts of r with a committed
                \* non-error row in the attempt ledger
    generated,  \* history: computations of r started
    sent,       \* history: copies of the final text that the steps Send put
                \* into the chat; what a preview posted before is not counted
    faults      \* history: faults injected so far

vars == <<row, late, ingress, jobs, worker, cron, accepted, generated, sent,
          faults>>
environment == <<ingress, jobs, cron>>
history == <<accepted, generated, sent>>

IngressSteps == {"update", "send", "markQueued", "handled"}
WorkerSteps == {"idle", "get", "claimDelivery", "claimProcessing", "exhausted",
                "lookup", "generate", "invalid", "store", "claimReady",
                "failProcessing", "retryProcessing", "send", "undeliverable",
                "complete", "failDelivery", "retryDelivery", "again", "done"}

\* token and attempt identify the claim; finalizing: the text was streamed to
\* the chat while it was generated, delivery only has to commit it.
Worker == [pc : WorkerSteps, run : Runs \cup {Null}, token : Nat,
           attempt : Nat, finalizing : BOOLEAN]
NoJob == [pc |-> "idle", run |-> Null, token |-> 0, attempt |-> 0,
          finalizing |-> FALSE]

\* snapshot: the rows listStale selected and the pass has not dealt with yet,
\* as they were; expired: runs whose lease the pass expired and that it has
\* not requeued yet (one at most).
Found == [run : Runs, status : Statuses, leaseToken : Nat]
Cron == [snapshot : SUBSET Found, expired : SUBSET Runs, prepared : SUBSET Runs]
NoPass == [snapshot |-> {}, expired |-> {}, prepared |-> {}]

Init == /\ LifecycleInit
        /\ ingress = [r \in Runs |-> "update"]
        /\ jobs = [r \in Runs |-> 0]
        /\ worker = [w \in Workers |-> NoJob]
        /\ cron = [c \in Crons |-> NoPass]
        /\ accepted = [r \in Runs |-> {}]
        /\ generated = [r \in Runs |-> 0]
        /\ sent = [r \in Runs |-> 0]
        /\ faults = 0

NoFault == UNCHANGED faults
Fault   == faults < MaxFaults /\ faults' = faults + 1
Enqueue(r, n) == jobs' = [jobs EXCEPT ![r] = @ + n]

-----------------------------------------------------------------------------
(* Webhook.  Telegram sends one update at a time (max_connections=1) and   *)
(* repeats it until the handler answers, so a throwing handler is retried. *)
IngressCreate(r) ==
    /\ ingress[r] = "update"
    /\ \A e \in Runs :
          RunOrder(e, r) => ingress[e] \in {"markQueued", "handled"}
    /\ \/ Create(r)
       \/ row[r].status # "missing" /\ UNCHANGED lifecycleVars
    /\ \/ NoFault /\ ingress' = [ingress EXCEPT ![r] = "send"]
       \/ Fault   /\ UNCHANGED ingress
    /\ UNCHANGED <<jobs, worker, cron, history>>

IngressSend(r) ==
    /\ ingress[r] = "send"
    /\ \/ NoFault /\ Enqueue(r, 1)
                  /\ ingress' = [ingress EXCEPT ![r] = "markQueued"]
       \/ Fault   /\ (Enqueue(r, 1) \/ UNCHANGED jobs)
                  /\ ingress' = [ingress EXCEPT ![r] = "update"]
    /\ UNCHANGED <<lifecycleVars, worker, cron, history>>

\* waitUntil(markSummaryRunQueued): a failure is only counted.  If the HTTP
\* answer is lost, Telegram sends the update again.
IngressMarkQueued(r) ==
    /\ ingress[r] = "markQueued"
    /\ \/ /\ NoFault
          /\ IF row[r].status = "created" THEN MarkQueued(r)
                                         ELSE UNCHANGED lifecycleVars
          /\ ingress' = [ingress EXCEPT ![r] = "handled"]
       \/ /\ Fault
          /\ UNCHANGED lifecycleVars
          /\ \E next \in {"handled", "update"} :
                ingress' = [ingress EXCEPT ![r] = next]
    /\ UNCHANGED <<jobs, worker, cron, history>>

IngressStep(r) == IngressCreate(r) \/ IngressSend(r) \/ IngressMarkQueued(r)

-----------------------------------------------------------------------------
(* Consumer: a message is taken, and leaves the queue for good only when   *)
(* it is acknowledged.                                                     *)
Goto(w, pc) == worker' = [worker EXCEPT ![w].pc = pc]
At(w, pc)   == worker[w].pc = pc
Run(w)      == worker[w].run
Token(w)    == worker[w].token

Take(w, r) ==
    /\ At(w, "idle")
    /\ jobs[r] > 0
    /\ Enqueue(r, -1)
    /\ worker' = [worker EXCEPT ![w] = [NoJob EXCEPT !.pc = "get", !.run = r]]
    /\ UNCHANGED <<lifecycleVars, ingress, cron, history, faults>>

\* message.retry(): delivered again, or moved to the dead letter queue once
\* max_retries is used up.  The retry count itself is not tracked.
MessageRetry(w) ==
    /\ worker' = [worker EXCEPT ![w] = NoJob]
    /\ \E n \in {0, 1} : Enqueue(Run(w), n)
    /\ UNCHANGED <<ingress, cron>>

Ack(w) ==
    /\ At(w, "done")
    /\ worker' = [worker EXCEPT ![w] = NoJob]
    /\ UNCHANGED <<lifecycleVars, environment, history, faults>>

\* rescheduleLogicalRun: send the replacement, then acknowledge.  A fault
\* loses the acknowledgement (both messages live) or the replacement.
Reschedule(w) ==
    /\ At(w, "again")
    /\ \/ /\ NoFault
          /\ Enqueue(Run(w), 1)
          /\ worker' = [worker EXCEPT ![w] = NoJob]
          /\ UNCHANGED <<ingress, cron>>
       \/ /\ Fault
          /\ Enqueue(Run(w), 2)
          /\ worker' = [worker EXCEPT ![w] = NoJob]
          /\ UNCHANGED <<ingress, cron>>
       \/ Fault /\ MessageRetry(w)
    /\ UNCHANGED <<lifecycleVars, history>>

\* The isolate is lost at any point; nobody renews or releases its lease.
Crash(w) ==
    /\ ~At(w, "idle")
    /\ Fault
    /\ MessageRetry(w)
    /\ UNCHANGED <<lifecycleVars, history>>

-----------------------------------------------------------------------------
(* A fenced lifecycle RPC: the statement runs if its WHERE clause holds    *)
(* (yes), else nothing is written (no).                                    *)
Fenced(w, stage, Statement, yes, no) ==
    /\ NoFault
    /\ \/ Statement /\ Goto(w, yes)
       \/ /\ ~Owns(Run(w), Token(w), stage)
          /\ UNCHANGED lifecycleVars
          /\ Goto(w, no)
    /\ UNCHANGED environment

\* The RPC throws, with or without the statement having been committed, and
\* the caller catches it.
Caught(w, Statement, handler) ==
    /\ Fault
    /\ Statement \/ UNCHANGED lifecycleVars
    /\ Goto(w, handler)
    /\ UNCHANGED environment

\* The same when nobody catches it: process() rejects, the consumer retries.
Uncaught(w, Statement) ==
    /\ Fault
    /\ Statement \/ UNCHANGED lifecycleVars
    /\ MessageRetry(w)

-----------------------------------------------------------------------------
(* claimWork: get, claimDelivery and claimProcessing in one RPC.           *)
\* Mutant: terminal runs are not recognised.
ClaimWorkGetBlind(w) ==
    /\ At(w, "get")
    /\ NoFault
    /\ Goto(w, "claimDelivery")
    /\ UNCHANGED <<lifecycleVars, environment, history>>

ClaimWorkGet(w) ==
    /\ At(w, "get")
    /\ NoFault
    /\ Goto(w, IF row[Run(w)].status \in Terminal \cup {"missing"}
               THEN "done" ELSE "claimDelivery")
    /\ UNCHANGED <<lifecycleVars, environment, history>>

\* The delivery claim w now holds; deliver() first checks its budget.
HoldDelivery(w, checked) ==
    LET r == Run(w)
        spent == row[r].deliveryAttempt + 1 > MAX_DELIVERY_ATTEMPTS
    IN worker' = [worker EXCEPT
           ![w].token = ClaimsOf(r) + 1,
           ![w].pc = IF checked /\ spent THEN "undeliverable" ELSE "send"]

ClaimWorkDelivery(w) ==
    /\ At(w, "claimDelivery")
    /\ \/ /\ NoFault
          /\ \/ ClaimDelivery(Run(w)) /\ HoldDelivery(w, TRUE)
             \/ /\ ~DeliveryClaimable(Run(w))
                /\ UNCHANGED lifecycleVars
                /\ Goto(w, "claimProcessing")
          /\ UNCHANGED environment
       \/ Uncaught(w, ClaimDelivery(Run(w)))
    /\ UNCHANGED history

\* Mutant: the processing budget allows one attempt too many.
AfterProcessingClaimOffByOne(attempt) ==
    IF attempt > MAX_ATTEMPTS + 1 THEN "exhausted" ELSE "lookup"

\* Where processRun goes with a claim of that attempt number.
AfterProcessingClaim(attempt) ==
    IF attempt > MAX_ATTEMPTS THEN "exhausted" ELSE "lookup"

ClaimWorkProcessing(w) ==
    LET r == Run(w) IN
    /\ At(w, "claimProcessing")
    /\ \/ /\ NoFault
          /\ \/ /\ ClaimProcessing(r)
                /\ worker' = [worker EXCEPT
                      ![w].token = ClaimsOf(r) + 1,
                      ![w].attempt = row[r].attempt + 1,
                      ![w].pc = AfterProcessingClaim(row[r].attempt + 1)]
             \/ /\ ~(ProcessingClaimable(r) /\ NoEarlierRunInProcessing(r))
                /\ UNCHANGED lifecycleVars
                /\ Goto(w, "again")
          /\ UNCHANGED environment
       \/ Uncaught(w, ClaimProcessing(r))
    /\ UNCHANGED history

FailExhausted(w) ==
    LET Statement == MarkFailed(Run(w), Token(w), "processing") IN
    /\ At(w, "exhausted")
    /\ \/ Fenced(w, "processing", Statement, "done", "again")
       \/ Uncaught(w, Statement)
    /\ UNCHANGED history

-----------------------------------------------------------------------------
(* Processing.                                                             *)

\* handleProcessingError for a retryable error.
Retryable(w) == IF worker[w].attempt >= MAX_ATTEMPTS THEN "failProcessing"
                                                     ELSE "retryProcessing"

\* Mutant: the ledger is not consulted.
LookupOutcomeSkipped(w) ==
    /\ At(w, "lookup")
    /\ NoFault /\ Goto(w, "generate")
    /\ UNCHANGED <<lifecycleVars, environment, history>>

\* Mutant: a missing outcome is presented as an empty one.
LookupOutcomeAssumed(w) ==
    /\ At(w, "lookup")
    /\ NoFault /\ Goto(w, "store")
    /\ UNCHANGED <<lifecycleVars, environment, history>>

\* An accepted outcome of an earlier attempt is presented, not recomputed.
LookupOutcome(w) ==
    /\ At(w, "lookup")
    /\ \/ NoFault /\ Goto(w, IF accepted[Run(w)] = {} THEN "generate" ELSE "store")
       \/ Fault   /\ Goto(w, "failProcessing")
    /\ UNCHANGED <<lifecycleVars, environment, history>>

\* Mutant: the ledger insert is not fenced by the lease.
CommitAttemptUnfenced(w) ==
    /\ accepted' = [accepted EXCEPT ![Run(w)] = @ \cup {worker[w].attempt}]
    /\ UNCHANGED lifecycleVars

\* recordAttempt's transaction: the fence on the lifecycle row and the ledger
\* row commit together.
CommitAttempt(w) ==
    /\ Owns(Run(w), Token(w), "processing")
    /\ row[Run(w)].attempt = worker[w].attempt
    /\ accepted' = [accepted EXCEPT ![Run(w)] = @ \cup {worker[w].attempt}]
    /\ row' = [row EXCEPT ![Run(w)].updatedAt = "recent"]
    /\ UNCHANGED late

NoCommit == UNCHANGED <<lifecycleVars, accepted>>

\* The summarize workflow: models, then recordAttempt.  A streamed summary
\* leaves the progressive session "finalizing"; other outcomes do not.  Error
\* evidence rows are not represented: nothing reads them back.
Generate(w) ==
    /\ At(w, "generate")
    /\ generated' = [generated EXCEPT ![Run(w)] = @ + 1]
    /\ \/ /\ NoFault /\ CommitAttempt(w)
          /\ \E streamed \in BOOLEAN :
                worker' = [worker EXCEPT ![w].pc = "store",
                                         ![w].finalizing = streamed]
       \/ /\ NoFault /\ NoCommit                     \* LeaseLostError
          /\ ~Owns(Run(w), Token(w), "processing")
          /\ Goto(w, Retryable(w))
       \/ NoFault /\ NoCommit /\ Goto(w, Retryable(w))     \* model 429, 5xx
       \/ NoFault /\ NoCommit /\ Goto(w, "failProcessing") \* other errors
       \/ Fault /\ (CommitAttempt(w) \/ NoCommit) /\ Goto(w, "failProcessing")
    /\ UNCHANGED <<environment, sent>>

\* validateTelegramPayload rejects the text.
RejectPayload(w) ==
    /\ At(w, "store")
    /\ Goto(w, "invalid")
    /\ UNCHANGED <<lifecycleVars, environment, history, faults>>

FailInvalid(w) ==
    LET Statement == MarkFailed(Run(w), Token(w), "processing") IN
    /\ At(w, "invalid")
    /\ \/ Fenced(w, "processing", Statement, "done", "again")
       \/ Caught(w, Statement, "failProcessing")
    /\ UNCHANGED history

Store(w) ==
    LET Statement == StoreDeliveryPayload(Run(w), Token(w)) IN
    /\ At(w, "store")
    /\ \/ Fenced(w, "processing", Statement, "claimReady", "again")
       \/ Caught(w, Statement, "failProcessing")
    /\ UNCHANGED history

\* claimDelivery by the processor that stored the text.  A finalizing session
\* is committed straight away; deliver() checks the delivery budget.
ClaimReady(w) ==
    /\ At(w, "claimReady")
    /\ \/ /\ NoFault
          /\ \/ ClaimDelivery(Run(w)) /\ HoldDelivery(w, ~worker[w].finalizing)
             \/ /\ ~DeliveryClaimable(Run(w))
                /\ UNCHANGED lifecycleVars
                /\ Goto(w, "again")
          /\ UNCHANGED environment
       \/ Caught(w, ClaimDelivery(Run(w)), "failProcessing")
    /\ UNCHANGED history

\* Mutant: the job is acknowledged although the fence refused the failure.
FailProcessingAcks(w) ==
    LET Statement == MarkFailed(Run(w), Token(w), "processing") IN
    /\ At(w, "failProcessing")
    /\ Fenced(w, "processing", Statement, "done", "done")
    /\ UNCHANGED history

FailProcessing(w) ==
    LET Statement == MarkFailed(Run(w), Token(w), "processing") IN
    /\ At(w, "failProcessing")
    /\ \/ Fenced(w, "processing", Statement, "done", "again")
       \/ Uncaught(w, Statement)
    /\ UNCHANGED history

RetryProcessing(w) ==
    LET Statement == MarkRetry(Run(w), Token(w), "processing") IN
    /\ At(w, "retryProcessing")
    /\ \/ Fenced(w, "processing", Statement, "again", "again")
       \/ Uncaught(w, Statement)
    /\ UNCHANGED history

-----------------------------------------------------------------------------
(* Delivery: deliverInsideSpan, and the commit of a finalizing session.    *)
FailUndeliverable(w) ==
    LET Statement == MarkFailed(Run(w), Token(w), "delivering") IN
    /\ At(w, "undeliverable")
    /\ \/ Fenced(w, "delivering", Statement, "done", "again")
       \/ Uncaught(w, Statement)
    /\ UNCHANGED history

\* Mutant: an HTTP error of Telegram is taken for a delivery.
SendOptimistic(w) ==
    /\ At(w, "send")
    /\ \/ sent' = [sent EXCEPT ![Run(w)] = @ + 1]
       \/ UNCHANGED sent
    /\ NoFault
    /\ Goto(w, "complete")
    /\ UNCHANGED <<lifecycleVars, environment, accepted, generated>>

Send(w) ==
    /\ At(w, "send")
    /\ \/ /\ sent' = [sent EXCEPT ![Run(w)] = @ + 1]
          /\ \/ NoFault /\ Goto(w, "complete")
             \/ Fault   /\ Goto(w, "retryDelivery")  \* delivered, answer lost
       \/ UNCHANGED sent /\ NoFault /\ Goto(w, "retryDelivery") \* 429, 5xx
       \/ UNCHANGED sent /\ NoFault /\ Goto(w, "failDelivery")  \* other 4xx
    /\ UNCHANGED <<lifecycleVars, environment, accepted, generated>>

\* An exception here is an unknown error to classifyFailure: not retryable.
Complete(w) ==
    LET Statement == MarkCompleted(Run(w), Token(w)) IN
    /\ At(w, "complete")
    /\ \/ Fenced(w, "delivering", Statement, "done", "again")
       \/ Caught(w, Statement, "failDelivery")
    /\ UNCHANGED history

FailDelivery(w) ==
    LET Statement == MarkFailed(Run(w), Token(w), "delivering") IN
    /\ At(w, "failDelivery")
    /\ \/ Fenced(w, "delivering", Statement, "done", "again")
       \/ Uncaught(w, Statement)
    /\ UNCHANGED history

RetryDelivery(w) ==
    LET Statement == MarkRetry(Run(w), Token(w), "delivering") IN
    /\ At(w, "retryDelivery")
    /\ \/ Fenced(w, "delivering", Statement, "again", "again")
       \/ Uncaught(w, Statement)
    /\ UNCHANGED history

ProcessorStep(w) ==
    \/ ClaimWorkGet(w) \/ ClaimWorkDelivery(w) \/ ClaimWorkProcessing(w)
    \/ FailExhausted(w) \/ LookupOutcome(w) \/ Generate(w) \/ RejectPayload(w)
    \/ FailInvalid(w) \/ Store(w) \/ ClaimReady(w) \/ FailProcessing(w)
    \/ RetryProcessing(w) \/ FailUndeliverable(w) \/ Send(w) \/ Complete(w)
    \/ FailDelivery(w) \/ RetryDelivery(w)

-----------------------------------------------------------------------------
(* The scheduled reconciler: one query takes a snapshot, then each run is  *)
(* prepared by its own statements, then one sendBatch publishes the jobs.  *)
\* Mutant: due retries are left to the queue.
ActionableWithoutRetries(r) ==
    \/ /\ row[r].status \in {"created", "queued", "summary_ready"}
       /\ row[r].updatedAt = "stale"
    \/ row[r].status \in Leased /\ Reached(row[r].leaseExpiresAt)

Actionable(r) ==
    \/ /\ row[r].status \in {"created", "queued", "summary_ready"}
       /\ row[r].updatedAt = "stale"
    \/ row[r].status \in Leased /\ Reached(row[r].leaseExpiresAt)
    \/ row[r].status = "retry_wait" /\ Reached(row[r].nextRetryAt)

CronScan(c) ==
    LET stale == {r \in Runs : Actionable(r) /\ jobs[r] < MaxJobs} IN
    /\ cron[c] = NoPass
    /\ stale # {}
    /\ cron' = [cron EXCEPT ![c].snapshot =
                  {[run |-> r, status |-> row[r].status,
                    leaseToken |-> row[r].leaseToken] : r \in stale}]
    /\ UNCHANGED <<lifecycleVars, ingress, jobs, worker, history, faults>>

\* The first statement of prepareRunForEnqueue.  expireLease compares the
\* lease with the time of the scan, when this very lease had expired: a lease
\* granted since then expires later than that.
PrepareStatement(found) ==
    LET r == found.run IN
    \/ found.status = "created" /\ MarkQueued(r)
    \/ found.status \in {"queued", "summary_ready"} /\ Touch(r, found.status)
    \/ found.status = "retry_wait" /\ RequeueRetry(r)
    \/ /\ found.status \in Leased
       /\ row[r].leaseToken = found.leaseToken
       /\ ExpireLease(r, found.status)

\* Its WHERE clause.
PrepareGuard(found) ==
    /\ row[found.run].status = found.status
    /\ found.status \in Leased => row[found.run].leaseToken = found.leaseToken

CronPrepare(c, found) ==
    LET r == found.run
        afterwards(expired, prepared) ==
            cron' = [cron EXCEPT ![c].snapshot = @ \ {found},
                                 ![c].expired  = @ \cup expired,
                                 ![c].prepared = @ \cup prepared]
    IN
    /\ cron[c].expired = {}
    /\ \/ /\ NoFault
          /\ PrepareStatement(found)
          /\ IF found.status \in Leased THEN afterwards({r}, {})
                                        ELSE afterwards({}, {r})
       \/ /\ NoFault
          /\ ~PrepareGuard(found)
          /\ UNCHANGED lifecycleVars
          /\ afterwards({}, {})
       \/ /\ Fault                              \* caught: the run is skipped
          /\ PrepareStatement(found) \/ UNCHANGED lifecycleVars
          /\ afterwards({}, {})
    /\ UNCHANGED <<ingress, jobs, worker, history>>

\* The second statement after expireLease: retry_wait -> queued.
CronRequeueExpired(c, r) ==
    LET afterwards(prepared) ==
            cron' = [cron EXCEPT ![c].expired = {},
                                 ![c].prepared = @ \cup prepared]
    IN
    /\ \/ NoFault /\ RequeueRetry(r) /\ afterwards({r})
       \/ /\ NoFault
          /\ row[r].status # "retry_wait"
          /\ UNCHANGED lifecycleVars
          /\ afterwards({})
       \/ /\ Fault
          /\ RequeueRetry(r) \/ UNCHANGED lifecycleVars
          /\ afterwards({})
    /\ UNCHANGED <<ingress, jobs, worker, history>>

\* sendBatch, once every run of the snapshot is dealt with.
CronPublish(c) ==
    /\ cron[c] # NoPass
    /\ cron[c].snapshot = {}
    /\ cron[c].expired = {}
    /\ cron' = [cron EXCEPT ![c] = NoPass]
    /\ jobs' = [r \in Runs |-> IF r \in cron[c].prepared THEN jobs[r] + 1
                                                        ELSE jobs[r]]
    /\ UNCHANGED <<lifecycleVars, ingress, worker, history, faults>>

\* The invocation dies, or sendBatch fails and is only logged.
CronCrash(c) ==
    /\ cron[c] # NoPass
    /\ Fault
    /\ cron' = [cron EXCEPT ![c] = NoPass]
    /\ UNCHANGED <<lifecycleVars, ingress, jobs, worker, history>>

CronStep(c) ==
    \/ CronScan(c)
    \/ \E found \in cron[c].snapshot : CronPrepare(c, found)
    \/ \E r \in cron[c].expired : CronRequeueExpired(c, r)
    \/ CronPublish(c)

-----------------------------------------------------------------------------
(* Time.  A lease lapses under its live holder only by a fault: processing *)
(* renews it every 30 s of 2 min, and a delivery is one Telegram call.     *)
HeldByLiveWorker(r) ==
    \E w \in Workers : /\ worker[w].pc \notin {"idle", "again", "done"}
                       /\ Run(w) = r
                       /\ Token(w) = row[r].leaseToken

LeasePasses(r) == /\ LeaseLapses(r)
                  /\ IF HeldByLiveWorker(r) THEN Fault ELSE NoFault
                  /\ UNCHANGED <<environment, worker, history>>

DeadlinePasses(r) == /\ RetryFallsDue(r) \/ GoesStale(r)
                     /\ UNCHANGED <<environment, worker, history, faults>>

Next ==
    \/ \E r \in Runs : IngressStep(r) \/ LeasePasses(r) \/ DeadlinePasses(r)
    \/ \E w \in Workers, r \in Runs : Take(w, r)
    \/ \E w \in Workers : ProcessorStep(w) \/ Ack(w) \/ Reschedule(w) \/ Crash(w)
    \/ \E c \in Crons : CronStep(c) \/ CronCrash(c)

PipelineSpec == Init /\ [][Next]_vars

(* Fairness.  Telegram repeats an update until it is answered; the queue   *)
(* delivers every message in time, whatever else it holds; an invocation   *)
(* that is not lost proceeds; the cron trigger keeps firing whatever the   *)
(* queue holds (strong: the bound MaxJobs would otherwise disable it while *)
(* a job waits); time passes.  No fault is ever owed.                      *)
Fairness ==
    /\ \A r \in Runs : /\ WF_vars(IngressStep(r))
                       /\ SF_vars(\E w \in Workers : Take(w, r))
                       /\ WF_vars(LeasePasses(r) /\ NoFault)
                       /\ WF_vars(DeadlinePasses(r))
    /\ \A w \in Workers : WF_vars(ProcessorStep(w) \/ Ack(w) \/ Reschedule(w))
    /\ \A c \in Crons : SF_vars(CronScan(c)) /\ WF_vars(CronStep(c))

FairPipelineSpec == PipelineSpec /\ Fairness

-----------------------------------------------------------------------------
(* Type invariant.                                                         *)
PipelineTypeOK ==
    /\ LifecycleTypeOK
    /\ ingress \in [Runs -> IngressSteps]
    /\ jobs \in [Runs -> Nat]
    /\ worker \in [Workers -> Worker]
    /\ cron \in [Crons -> Cron]
    /\ accepted \in [Runs -> SUBSET Nat]
    /\ generated \in [Runs -> Nat]
    /\ sent \in [Runs -> Nat]
    /\ faults \in 0..MaxFaults

(* INV-05, INV-08: however often a job is duplicated, a lease taken over   *)
(* or a processor restarted, one attempt of a command at most gets its     *)
(* outcome into the ledger.                                                *)
OneAcceptedOutcome == \A r \in Runs : Cardinality(accepted[r]) <= 1

(* INV-09: the ledger outcome precedes the delivery text, and nothing is   *)
(* sent before the text is stored.                                         *)
OutcomePrecedesText ==
    \A r \in Runs : /\ row[r].summary => accepted[r] # {}
                    /\ sent[r] > 0 => row[r].summary

(* INV-09: a processor that holds the lease does not call the models for a *)
(* command whose outcome is already in the ledger; only a processor that   *)
(* lost its lease can still be computing one.                              *)
LiveOwnerReusesOutcome ==
    \A w \in Workers :
        At(w, "generate") /\ Owns(Run(w), Token(w), "processing")
        => accepted[Run(w)] = {}

(* The models are called for a command MAX_ATTEMPTS times at most, counting*)
(* the calls of crashed and superseded processors.                         *)
GenerationBudget == \A r \in Runs : generated[r] <= MAX_ATTEMPTS

(* The budgets end every run: beyond the claims they allow, the claim that *)
(* finds each of them spent, and one more for a streamed text, only a      *)
(* fault costs a claim.  (MaxClaims is set above this, and so never takes  *)
(* a claim away.)                                                          *)
ClaimBudget ==
    \A r \in Runs :
        ClaimsOf(r) <= MAX_ATTEMPTS + MAX_DELIVERY_ATTEMPTS + 2 + faults

(* The text reaches the chat MAX_DELIVERY_ATTEMPTS times at most, plus one *)
(* commit of a streamed text, the path that does not look at the budget.   *)
DeliveryBudget == \A r \in Runs : sent[r] <= MAX_DELIVERY_ATTEMPTS + 1

(* A duplicate in the chat needs a fault: queue duplicates, takeovers of   *)
(* abandoned leases and cron passes alone never send the text twice.       *)
DuplicatesNeedFaults == \A r \in Runs : sent[r] <= 1 + faults

(* Neither model calls nor claims nor sends exceed what the budgets and    *)
(* the faults allow, whoever takes the run over in whatever order.  The    *)
(* messages a preview leaves behind are the matter of ConflatingWriter.tla.*)
Budgets == GenerationBudget /\ ClaimBudget /\ DeliveryBudget /\ DuplicatesNeedFaults

(* INV-11: completed is written only after Telegram accepted the text.     *)
DeliveredWhenCompleted ==
    \A r \in Runs : row[r].status = "completed" => sent[r] > 0

(* A queue message is acknowledged without a replacement only when its run *)
(* is finished.                                                            *)
AckedWhenSettled ==
    \A w \in Workers : At(w, "done") => row[Run(w)].status \in Terminal

(* The unique index on processing rows is a second line of defence: since  *)
(* the commands of a chat arrive in order, the claim that passes the check *)
(* of earlier runs is never rejected by the index.                         *)
IndexNeverRejects ==
    \A r \in Runs :
        ProcessingClaimable(r) /\ NoEarlierRunInProcessing(r)
        => ChatHasNoOtherProcessing(r)

(* The inductive invariant behind the theorems.  A worker's knowledge      *)
(* stays true however long it pauses: the run exists, its token is that of *)
(* a claim of the run, the ledger and the text are where it left them.  A  *)
(* run's row, ledger and messages agree, and rows of a chat appear in      *)
(* order.                                                                  *)
Holding == WorkerSteps \ {"idle", "get", "claimDelivery", "claimProcessing",
                          "again", "done"}

WorkerInv(w) ==
    /\ ~At(w, "idle") => Run(w) \in Runs /\ row[Run(w)].status # "missing"
    /\ worker[w].pc \in Holding => Token(w) \in 1..ClaimsOf(Run(w))
    /\ worker[w].pc \in {"lookup", "generate"} => worker[w].attempt > 0
    /\ At(w, "store") => accepted[Run(w)] # {}
    /\ At(w, "send") => row[Run(w)].summary
    /\ At(w, "complete") => sent[Run(w)] > 0
    /\ At(w, "done") => row[Run(w)].status \in Terminal

RunInv(r) ==
    /\ \A a, b \in accepted[r] : a = b
    /\ accepted[r] # {} => row[r].attempt > 0
    /\ row[r].summary => accepted[r] # {}
    /\ sent[r] > 0 => row[r].summary
    /\ row[r].status = "completed" => sent[r] > 0
    /\ ingress[r] # "update" \/ jobs[r] > 0 => row[r].status # "missing"
    /\ \A e \in Runs :
          RunOrder(e, r) /\ row[r].status # "missing" => row[e].status # "missing"

PipelineInv ==
    /\ PipelineTypeOK
    /\ LifecycleInv
    /\ late = {}
    /\ \A r \in Runs : RunInv(r)
    /\ \A w \in Workers : WorkerInv(w)
    /\ \A v, w \in Workers :
          /\ worker[v].pc \in Holding /\ worker[w].pc \in Holding
          /\ Run(v) = Run(w) /\ Token(v) = Token(w)
          => v = w
    /\ LiveOwnerReusesOutcome
    /\ \A c \in Crons : \A r \in cron[c].prepared : row[r].status # "missing"

(* The reason the chat is serialised: once the outcome of a command is in  *)
(* the ledger, no earlier command of its chat adds one, so the consumption *)
(* boundary a command starts from is never undercut afterwards.            *)
OutcomesInChatOrder ==
    [][\A e, r \in Runs :
          RunOrder(e, r) /\ accepted[r] # {} => accepted'[e] = accepted[e]]_vars

(* Fencing: while a lease is valid, no statement ends it and no outcome    *)
(* enters the ledger but those of the worker that was given it.  A worker  *)
(* that paused while its lease lapsed and the run was claimed anew writes  *)
(* nothing over its successor, however long it paused.                     *)
OnlyTheHolderWrites ==
    [][\A r \in Runs :
          \/ row[r].leaseExpiresAt = "future" /\ row'[r].leaseToken # row[r].leaseToken
          \/ accepted'[r] # accepted[r]
          => \E w \in Workers : /\ worker[w].pc \in Holding /\ worker'[w] # worker[w]
                               /\ Run(w) = r /\ Token(w) = row[r].leaseToken]_vars

(* Every accepted command ends: completed or failed_permanent, through any *)
(* bounded number of crashes, lost messages and lost answers.              *)
EveryRunSettles ==
    \A r \in Runs : (row[r].status # "missing") ~> (row[r].status \in Terminal)

(* No job circulates for ever: in the end the queue is empty and every     *)
(* consumer has acknowledged.                                              *)
QueueDrains ==
    <>[](\A r \in Runs : jobs[r] = 0) /\ <>[](\A w \in Workers : At(w, "idle"))

-----------------------------------------------------------------------------
(* What the comments and the documents say and the code does not do.       *)

(* worker.ts: "A concurrent cron invocation that loses the CAS must not    *)
(* publish a duplicate job from the same stale snapshot."  A queued or     *)
(* summary_ready run is prepared only while it is still stale.             *)
PreparesOnlyStaleRuns ==
    [][\A c \in Crons, r \in Runs :
          /\ r \in cron'[c].prepared \ cron[c].prepared
          /\ row[r].status \in {"queued", "summary_ready"}
          => row[r].updatedAt = "stale"]_vars

(* mental-model.md: the delivery claim above the budget "ends the run      *)
(* without a new send".                                                    *)
NoSendAboveBudget == \A r \in Runs : sent[r] <= MAX_DELIVERY_ATTEMPTS
=============================================================================
