----------------------- MODULE SummaryPipeline_proofs -----------------------
(* Proofs about the pipeline, for every number of runs, workers, cron      *)
(* passes, faults and jobs.                                                *)
EXTENDS SummaryPipeline, RunLifecycle_proofs, FiniteSetTheorems

-----------------------------------------------------------------------------
(* The statements of the pipeline are statements of the store.             *)
LEMMA StatementsAreSteps ==
    ASSUME NEW r \in Runs
    PROVE  /\ Create(r) => RunStep(r)
           /\ MarkQueued(r) => RunStep(r)
           /\ RequeueRetry(r) => RunStep(r)
           /\ ReEnqueue(r) => RunStep(r)
           /\ ClaimProcessing(r) => RunStep(r)
           /\ ClaimDelivery(r) => RunStep(r)
           /\ \A stage \in Leased : ExpireLease(r, stage) => RunStep(r)
           /\ LeaseLapses(r) => RunStep(r)
           /\ RetryFallsDue(r) => RunStep(r)
           /\ GoesStale(r) => RunStep(r)
           /\ \A token \in 1..ClaimsOf(r) :
                 /\ StoreDeliveryPayload(r, token) => RunStep(r)
                 /\ MarkCompleted(r, token) => RunStep(r)
                 /\ \A stage \in Leased :
                       /\ MarkRetry(r, token, stage) => RunStep(r)
                       /\ MarkFailed(r, token, stage) => RunStep(r)
                       /\ RenewLease(r, token, stage) => RunStep(r)
BY DEF RunStep, LeaseholderStep

(* Counters and ownership after the step.                                  *)
NextClaimsOf(r) == row'[r].attempt + row'[r].deliveryAttempt

OwnsNext(r, token) == /\ row'[r].status = "processing"
                      /\ row'[r].leaseToken = token
                      /\ row'[r].leaseExpiresAt = "future"

(* What a statement may do to the row of its run: it never takes back a    *)
(* claim, a stored text or an ending, and nobody but a claim makes a token *)
(* that was handed out before own the row.                                 *)
Advances(r) ==
    /\ row[r].status # "missing" => row'[r].status # "missing"
    /\ row[r].status \in Terminal => row'[r].status \in Terminal
    /\ row[r].attempt <= row'[r].attempt
    /\ ClaimsOf(r) <= NextClaimsOf(r)
    /\ row[r].summary => row'[r].summary
    /\ \A token \in 1..ClaimsOf(r) :
          OwnsNext(r, token) => Owns(r, token, "processing")

(* Statements that create no row, store no text and complete nothing.      *)
Quiet(r) ==
    /\ row'[r].status # "missing" => row[r].status # "missing"
    /\ row'[r].summary => row[r].summary
    /\ row'[r].status = "completed" => row[r].status = "completed"

LEMMA ClaimEffect ==
    ASSUME LifecycleTypeOK, NEW r \in Runs,
           ClaimProcessing(r) \/ ClaimDelivery(r)
    PROVE  /\ Advances(r)
           /\ Quiet(r)
           /\ NextClaimsOf(r) = ClaimsOf(r) + 1
           /\ row'[r].leaseToken = ClaimsOf(r) + 1
           /\ ClaimDelivery(r) => row[r].summary
           /\ late' = late
<1>b. /\ row[r] \in Row
      /\ row \in [Runs -> Row]
  BY DEF LifecycleTypeOK
<1>n. /\ row[r].attempt \in Nat
      /\ row[r].deliveryAttempt \in Nat
      /\ row[r].leaseToken \in Nat
  BY <1>b DEF Row
<1>1. /\ row[r].status \notin Terminal \cup {"missing"}
      /\ row'[r].status \in Leased
      /\ row'[r].leaseToken = ClaimsOf(r) + 1
      /\ row'[r].summary = row[r].summary
      /\ \/ /\ row'[r].attempt = row[r].attempt + 1
            /\ row'[r].deliveryAttempt = row[r].deliveryAttempt
         \/ /\ row'[r].attempt = row[r].attempt
            /\ row'[r].deliveryAttempt = row[r].deliveryAttempt + 1
      /\ late' = late
  <2>1. CASE ClaimProcessing(r)
    BY <2>1, <1>b DEF ClaimProcessing, ProcessingClaimable, Row, Leased, Terminal
  <2>2. CASE ClaimDelivery(r)
    BY <2>2, <1>b DEF ClaimDelivery, DeliveryClaimable, Row, Leased, Terminal
  <2>3. QED BY <2>1, <2>2
<1>2. NextClaimsOf(r) = ClaimsOf(r) + 1 /\ ClaimsOf(r) \in Nat
  BY <1>n, <1>1 DEF ClaimsOf, NextClaimsOf
<1>3. row[r].attempt <= row'[r].attempt
  BY <1>n, <1>1
<1>4. \A token \in 1..ClaimsOf(r) : ~OwnsNext(r, token)
  BY <1>1, <1>2 DEF OwnsNext
<1>5. Advances(r) /\ Quiet(r)
  BY <1>1, <1>2, <1>3, <1>4 DEF Advances, Quiet, Leased
<1>6. ClaimDelivery(r) => row[r].summary
  BY DEF ClaimDelivery, DeliveryClaimable
<1>7. QED BY <1>1, <1>2, <1>5, <1>6

(* The other statements keep the counters, and at most give up the lease.  *)
Keeps(r) ==
    /\ row'[r].attempt = row[r].attempt
    /\ row'[r].deliveryAttempt = row[r].deliveryAttempt
    /\ row[r].status \in Terminal => row'[r].status \in Terminal
    /\ row[r].status # "missing" => row'[r].status # "missing"
    /\ row[r].summary => row'[r].summary
    /\ row'[r].status = "processing" => row[r].status = "processing"
    /\ row'[r].leaseExpiresAt = "future" => row[r].leaseExpiresAt = "future"
    /\ row'[r].leaseToken \in {0, row[r].leaseToken}

LEMMA KeepsAdvances ==
    ASSUME LifecycleTypeOK, NEW r \in Runs, Keeps(r)
    PROVE  Advances(r)
<1>1. row[r].attempt \in Nat /\ row[r].deliveryAttempt \in Nat
  BY DEF LifecycleTypeOK, Row
<1>2. /\ row[r].attempt <= row'[r].attempt
      /\ ClaimsOf(r) <= NextClaimsOf(r)
  BY <1>1 DEF Keeps, ClaimsOf, NextClaimsOf
<1>3. ASSUME NEW token \in 1..ClaimsOf(r), OwnsNext(r, token)
      PROVE  Owns(r, token, "processing")
  BY <1>3 DEF Keeps, Owns, OwnsNext
<1>4. QED BY <1>2, <1>3 DEF Keeps, Advances

LEMMA SystemEffect ==
    ASSUME LifecycleTypeOK, NEW r \in Runs, RowInv(r),
           \/ Create(r) \/ MarkQueued(r) \/ RequeueRetry(r) \/ ReEnqueue(r)
           \/ \E stage \in Leased : ExpireLease(r, stage)
           \/ LeaseLapses(r) \/ RetryFallsDue(r) \/ GoesStale(r)
    PROVE  /\ Advances(r)
           /\ \/ Quiet(r) /\ late' = late
              \/ Create(r) /\ row'[r].status = "created" /\ ~row'[r].summary
<1> DEFINE Goal == Keeps(r) /\ Quiet(r) /\ late' = late
<1>b. /\ row[r] \in Row
      /\ row \in [Runs -> Row]
  BY DEF LifecycleTypeOK
<1> USE DEF Keeps, Quiet, Terminal
<1>1. ASSUME Create(r)
      PROVE  Keeps(r) /\ row'[r].status = "created" /\ ~row'[r].summary
  <2>1. row[r] = NoRow /\ row'[r] = [NoRow EXCEPT !.status = "created"]
    BY <1>1, <1>b DEF Create, RowInv
  <2>2. QED BY <2>1 DEF NoRow, Null
<1>2. ASSUME MarkQueued(r) \/ RequeueRetry(r) PROVE Goal
  BY <1>2, <1>b DEF MarkQueued, RequeueRetry, Transition, Row
<1>3. ASSUME ReEnqueue(r) PROVE Goal
  BY <1>3, <1>b DEF ReEnqueue, Touch, Row
<1>4. ASSUME NEW stage \in Leased, ExpireLease(r, stage) PROVE Goal
  BY <1>4, <1>b DEF ExpireLease, Row, Leased, Null
<1>5. ASSUME LeaseLapses(r) PROVE Goal
  <2>1. row[r].status # "missing"
    BY <1>5 DEF LeaseLapses, RowInv, NoRow, Null
  <2>2. QED BY <1>5, <1>b, <2>1 DEF LeaseLapses, Row
<1>6. ASSUME RetryFallsDue(r) PROVE Goal
  <2>1. row[r].status # "missing"
    BY <1>6 DEF RetryFallsDue, RowInv, NoRow, Null
  <2>2. QED BY <1>6, <1>b, <2>1 DEF RetryFallsDue, Row
<1>7. ASSUME GoesStale(r) PROVE Goal
  BY <1>7, <1>b DEF GoesStale, Row
<1> HIDE DEF Keeps, Quiet, Terminal
<1>8. QED BY <1>1, <1>2, <1>3, <1>4, <1>5, <1>6, <1>7, KeepsAdvances

LEMMA HolderEffect ==
    ASSUME LifecycleTypeOK, NEW r \in Runs, NEW token \in 1..ClaimsOf(r)
    PROVE  /\ StoreDeliveryPayload(r, token)
              => /\ Advances(r)
                 /\ row'[r].status # "completed"
                 /\ Owns(r, token, "processing")
                 /\ late' = late
           /\ MarkCompleted(r, token)
              => /\ Advances(r)
                 /\ row'[r].summary => row[r].summary
                 /\ row'[r].status = "completed"
                 /\ late' = late
           /\ \A stage \in Leased :
                /\ MarkRetry(r, token, stage)
                   => Advances(r) /\ Quiet(r) /\ late' = late
                /\ MarkFailed(r, token, stage)
                   => /\ Advances(r) /\ Quiet(r) /\ late' = late
                      /\ row'[r].status = "failed_permanent"
                /\ RenewLease(r, token, stage)
                   => Advances(r) /\ Quiet(r) /\ late' = late
<1>b. /\ row[r] \in Row
      /\ row \in [Runs -> Row]
  BY DEF LifecycleTypeOK
<1> USE DEF Keeps, Quiet, Terminal, Leased, Null
<1>1. ASSUME StoreDeliveryPayload(r, token)
      PROVE  /\ Keeps(r)
             /\ row'[r].status # "completed"
             /\ Owns(r, token, "processing")
             /\ late' = late
  BY <1>1, <1>b DEF StoreDeliveryPayload, Owns, Row
<1>2. ASSUME MarkCompleted(r, token)
      PROVE  /\ Keeps(r)
             /\ row'[r].summary => row[r].summary
             /\ row'[r].status = "completed"
             /\ late' = late
  BY <1>2, <1>b DEF MarkCompleted, Owns, Row
<1>3. ASSUME NEW stage \in Leased, MarkRetry(r, token, stage)
      PROVE  Keeps(r) /\ Quiet(r) /\ late' = late
  BY <1>3, <1>b DEF MarkRetry, Owns, Row
<1>4. ASSUME NEW stage \in Leased, MarkFailed(r, token, stage)
      PROVE  /\ Keeps(r) /\ Quiet(r) /\ late' = late
             /\ row'[r].status = "failed_permanent"
  BY <1>4, <1>b DEF MarkFailed, Owns, Row
<1>5. ASSUME NEW stage \in Leased, RenewLease(r, token, stage)
      PROVE  Keeps(r) /\ Quiet(r) /\ late' = late
  BY <1>5, <1>b DEF RenewLease, Owns, Row
<1> HIDE DEF Keeps, Quiet
<1>6. QED BY <1>1, <1>2, <1>3, <1>4, <1>5, KeepsAdvances

-----------------------------------------------------------------------------
(* From one row to all of them.                                            *)
StoreStep == /\ [LifecycleNext]_lifecycleVars
             /\ \A q \in Runs : Advances(q)

LEMMA Everywhere ==
    ASSUME LifecycleInv, NEW r \in Runs, RunStep(r), Advances(r)
    PROVE  StoreStep /\ \A q \in Runs \ {r} : row'[q] = row[q] /\ Quiet(q)
<1>1. LifecycleTypeOK
  BY DEF LifecycleInv
<1>2. \A q \in Runs \ {r} : row'[q] = row[q]
  BY <1>1, OneRowAtATime DEF LifecycleTypeOK
<1>3. ASSUME NEW q \in Runs, row'[q] = row[q]
      PROVE  Advances(q) /\ Quiet(q)
  <2>1. row[q].attempt <= row'[q].attempt /\ ClaimsOf(q) <= NextClaimsOf(q)
    BY <1>1, <1>3 DEF LifecycleTypeOK, Row, ClaimsOf, NextClaimsOf
  <2>2. QED BY <1>3, <2>1 DEF Advances, Quiet, Owns, OwnsNext
<1>4. LifecycleNext
  BY DEF LifecycleNext
<1>5. QED BY <1>2, <1>3, <1>4 DEF StoreStep

LEMMA Nowhere ==
    ASSUME LifecycleInv, UNCHANGED lifecycleVars
    PROVE  StoreStep /\ \A q \in Runs : Quiet(q)
<1>1. row' = row
  BY DEF lifecycleVars
<1>2. ASSUME NEW q \in Runs
      PROVE  Advances(q) /\ Quiet(q)
  <2>1. row[q].attempt <= row'[q].attempt /\ ClaimsOf(q) <= NextClaimsOf(q)
    BY <1>1 DEF LifecycleInv, LifecycleTypeOK, Row, ClaimsOf, NextClaimsOf
  <2>2. QED BY <1>1, <2>1 DEF Advances, Quiet, Owns, OwnsNext
<1>3. QED BY <1>2 DEF StoreStep

(* What any step of the pipeline owes the invariant on rows and history.   *)
RowsOK ==
    /\ StoreStep
    /\ \A q \in Runs :
          /\ row'[q].summary => row[q].summary \/ accepted[q] # {}
          /\ row'[q].status = "completed"
             => row[q].status = "completed" \/ sent[q] > 0
          /\ row'[q].status # "missing" => row[q].status # "missing"

LEMMA QuietRowsOK ==
    ASSUME StoreStep, \A q \in Runs : Quiet(q)
    PROVE  RowsOK
BY DEF RowsOK, Quiet

-----------------------------------------------------------------------------
(* How a step leaves its worker: at another place with the same claim, with*)
(* a new claim, or idle.                                                   *)
OthersStay(w) == /\ worker' \in [Workers -> Worker]
                 /\ \A v \in Workers \ {w} : worker'[v] = worker[v]

Proceeds(w, pc) == /\ OthersStay(w)
                   /\ worker'[w].pc = pc
                   /\ worker'[w].run = worker[w].run
                   /\ worker'[w].token = worker[w].token
                   /\ worker'[w].attempt = worker[w].attempt

Claims(w, pc) == /\ OthersStay(w)
                 /\ worker'[w].pc = pc
                 /\ worker'[w].run = worker[w].run
                 /\ worker'[w].token = ClaimsOf(Run(w)) + 1

Drops(w) == OthersStay(w) /\ worker'[w].pc = "idle"

LEMMA GotoProceeds ==
    ASSUME worker \in [Workers -> Worker], NEW w \in Workers,
           NEW pc \in WorkerSteps, Goto(w, pc)
    PROVE  Proceeds(w, pc)
BY DEF Goto, Proceeds, OthersStay, Worker

LEMMA NoJobDrops ==
    ASSUME worker \in [Workers -> Worker], NEW w \in Workers,
           worker' = [worker EXCEPT ![w] = NoJob]
    PROVE  Drops(w)
BY DEF NoJob, Drops, OthersStay, Worker, WorkerSteps, Null

(* Only jobs of existing runs enter the queue.                             *)
QueueOK == /\ jobs' \in [Runs -> Nat]
           /\ \A q \in Runs : jobs'[q] > 0 => jobs[q] > 0 \/ row'[q].status # "missing"

LEMMA EnqueueOK ==
    ASSUME jobs \in [Runs -> Nat], NEW r \in Runs, row'[r].status # "missing",
           NEW n \in Nat, Enqueue(r, n)
    PROVE  QueueOK
BY DEF Enqueue, QueueOK

LEMMA QueueUnchanged ==
    ASSUME jobs \in [Runs -> Nat], UNCHANGED jobs
    PROVE  QueueOK
BY DEF QueueOK

LEMMA MessageRetryEffect ==
    ASSUME PipelineTypeOK, NEW w \in Workers, Run(w) \in Runs,
           row'[Run(w)].status # "missing", MessageRetry(w)
    PROVE  Drops(w) /\ QueueOK /\ UNCHANGED <<ingress, cron>>
<1>1. Drops(w)
  BY NoJobDrops DEF PipelineTypeOK, MessageRetry
<1>2. PICK n \in {0, 1} : Enqueue(Run(w), n)
  BY DEF MessageRetry
<1>3. QueueOK
  BY <1>2, EnqueueOK DEF PipelineTypeOK
<1>4. QED BY <1>1, <1>3 DEF MessageRetry

(* What a worker must know at the place it goes to.                        *)
Knows(w, pc) ==
    /\ pc \in {"lookup", "generate"} => worker'[w].attempt > 0
    /\ pc = "generate" => accepted' = accepted /\ accepted[Run(w)] = {}
    /\ pc = "store" => accepted'[Run(w)] # {}
    /\ pc = "send" => row'[Run(w)].summary
    /\ pc = "complete" => sent'[Run(w)] > 0
    /\ pc = "done" => row'[Run(w)].status \in Terminal

WorkerMoves(w) ==
    \/ Drops(w)
    \/ \E pc \in WorkerSteps \ {"idle"} :
          /\ Proceeds(w, pc)
          /\ pc \in Holding => worker[w].pc \in Holding
          /\ Knows(w, pc)
    \/ \E pc \in WorkerSteps \ {"idle"} :
          /\ Claims(w, pc)
          /\ NextClaimsOf(Run(w)) = ClaimsOf(Run(w)) + 1
          /\ Knows(w, pc)

Effect(w) == /\ RowsOK
             /\ late' = late
             /\ QueueOK
             /\ UNCHANGED <<ingress, cron>>
             /\ WorkerMoves(w)

LEMMA Basics ==
    ASSUME PipelineInv, NEW w \in Workers, ~At(w, "idle")
    PROVE  /\ LifecycleTypeOK /\ LifecycleInv
           /\ worker \in [Workers -> Worker]
           /\ jobs \in [Runs -> Nat]
           /\ Run(w) \in Runs
           /\ RowInv(Run(w))
           /\ row[Run(w)].status # "missing"
           /\ StoreStep => row'[Run(w)].status # "missing"
           /\ worker[w].pc \in Holding => Token(w) \in 1..ClaimsOf(Run(w))
BY DEF PipelineInv, PipelineTypeOK, LifecycleInv, WorkerInv, StoreStep, Advances

(* A step that keeps the rows and moves on to a place without obligations. *)
LEMMA IdleEffect ==
    ASSUME PipelineInv, NEW w \in Workers, ~At(w, "idle"),
           UNCHANGED lifecycleVars, UNCHANGED environment,
           NEW pc \in WorkerSteps \ {"idle"}, Goto(w, pc), Knows(w, pc),
           pc \in Holding => worker[w].pc \in Holding
    PROVE  Effect(w)
<1>1. RowsOK /\ late' = late
  BY Basics, Nowhere, QuietRowsOK DEF lifecycleVars
<1>2. QueueOK /\ UNCHANGED <<ingress, cron>>
  BY Basics, QueueUnchanged DEF environment
<1>3. Proceeds(w, pc)
  BY Basics, GotoProceeds
<1>4. QED BY <1>1, <1>2, <1>3 DEF Effect, WorkerMoves

(* A step that writes a row quietly and moves on.                          *)
LEMMA QuietEffect ==
    ASSUME PipelineInv, NEW w \in Workers, ~At(w, "idle"),
           RunStep(Run(w)), Advances(Run(w)), Quiet(Run(w)), late' = late,
           UNCHANGED environment,
           NEW pc \in WorkerSteps \ {"idle"}, Goto(w, pc), Knows(w, pc),
           pc \in Holding => worker[w].pc \in Holding
    PROVE  Effect(w)
<1>1. StoreStep /\ \A q \in Runs : Quiet(q)
  BY Basics, Everywhere
<1>2. RowsOK
  BY <1>1, QuietRowsOK
<1>3. QueueOK /\ UNCHANGED <<ingress, cron>>
  BY Basics, QueueUnchanged DEF environment
<1>4. Proceeds(w, pc)
  BY Basics, GotoProceeds
<1>5. QED BY <1>2, <1>3, <1>4 DEF Effect, WorkerMoves

(* An invocation that ends without acknowledging its message.              *)
LEMMA DropEffect ==
    ASSUME PipelineInv, NEW w \in Workers, ~At(w, "idle"),
           \/ UNCHANGED lifecycleVars
           \/ /\ RunStep(Run(w)) /\ Advances(Run(w)) /\ Quiet(Run(w))
              /\ late' = late,
           MessageRetry(w)
    PROVE  Effect(w)
<1>1. StoreStep /\ (\A q \in Runs : Quiet(q)) /\ late' = late
  BY Basics, Everywhere, Nowhere DEF lifecycleVars
<1>2. RowsOK
  BY <1>1, QuietRowsOK
<1>3. Drops(w) /\ QueueOK /\ UNCHANGED <<ingress, cron>>
  BY <1>1, Basics, MessageRetryEffect DEF PipelineInv
<1>4. QED BY <1>1, <1>2, <1>3 DEF Effect, WorkerMoves

(* The fenced failure and retry statements, however the call ends.         *)
LEMMA FailEffect ==
    ASSUME PipelineInv, NEW w \in Workers, worker[w].pc \in Holding,
           NEW stage \in Leased,
           NEW handler \in {"failProcessing", "failDelivery"},
           \/ Fenced(w, stage, MarkFailed(Run(w), Token(w), stage), "done", "again")
           \/ Caught(w, MarkFailed(Run(w), Token(w), stage), handler)
           \/ Uncaught(w, MarkFailed(Run(w), Token(w), stage))
    PROVE  Effect(w)
<1> DEFINE Statement == MarkFailed(Run(w), Token(w), stage)
<1>1. ~At(w, "idle")
  BY DEF At, Holding
<1>2. Statement => /\ RunStep(Run(w)) /\ Advances(Run(w)) /\ Quiet(Run(w))
                   /\ late' = late
                   /\ row'[Run(w)].status = "failed_permanent"
  BY <1>1, Basics, StatementsAreSteps, HolderEffect
<1> HIDE DEF Statement
<1>3. CASE Fenced(w, stage, Statement, "done", "again")
  <2>1. CASE Statement /\ Goto(w, "done")
    BY <1>1, <1>2, <1>3, <2>1, QuietEffect
       DEF Fenced, Knows, Terminal, WorkerSteps, Holding
  <2>2. CASE UNCHANGED lifecycleVars /\ Goto(w, "again")
    BY <1>1, <1>3, <2>2, IdleEffect DEF Fenced, Knows, WorkerSteps, Holding
  <2>3. QED BY <1>3, <2>1, <2>2 DEF Fenced
<1>4. CASE Caught(w, Statement, handler)
  <2>1. CASE Statement /\ Goto(w, handler)
    BY <1>1, <1>2, <1>4, <2>1, QuietEffect
       DEF Caught, Knows, WorkerSteps, Holding
  <2>2. CASE UNCHANGED lifecycleVars /\ Goto(w, handler)
    BY <1>1, <1>4, <2>2, IdleEffect DEF Caught, Knows, WorkerSteps, Holding
  <2>3. QED BY <1>4, <2>1, <2>2 DEF Caught
<1>5. CASE Uncaught(w, Statement)
  BY <1>1, <1>2, <1>5, DropEffect DEF Uncaught
<1>6. QED BY <1>3, <1>4, <1>5 DEF Statement

LEMMA RetryEffect ==
    ASSUME PipelineInv, NEW w \in Workers, worker[w].pc \in Holding,
           NEW stage \in Leased,
           \/ Fenced(w, stage, MarkRetry(Run(w), Token(w), stage), "again", "again")
           \/ Uncaught(w, MarkRetry(Run(w), Token(w), stage))
    PROVE  Effect(w)
<1> DEFINE Statement == MarkRetry(Run(w), Token(w), stage)
<1>1. ~At(w, "idle")
  BY DEF At, Holding
<1>2. Statement => /\ RunStep(Run(w)) /\ Advances(Run(w)) /\ Quiet(Run(w))
                   /\ late' = late
  BY <1>1, Basics, StatementsAreSteps, HolderEffect
<1> HIDE DEF Statement
<1>3. CASE Fenced(w, stage, Statement, "again", "again")
  <2>1. CASE Statement /\ Goto(w, "again")
    BY <1>1, <1>2, <1>3, <2>1, QuietEffect DEF Fenced, Knows, WorkerSteps, Holding
  <2>2. CASE UNCHANGED lifecycleVars /\ Goto(w, "again")
    BY <1>1, <1>3, <2>2, IdleEffect DEF Fenced, Knows, WorkerSteps, Holding
  <2>3. QED BY <1>3, <2>1, <2>2 DEF Fenced
<1>4. CASE Uncaught(w, Statement)
  BY <1>1, <1>2, <1>4, DropEffect DEF Uncaught
<1>5. QED BY <1>3, <1>4 DEF Statement

(* The claims.                                                             *)
LEMMA ClaimFacts ==
    ASSUME PipelineInv, NEW w \in Workers, ~At(w, "idle"),
           ClaimProcessing(Run(w)) \/ ClaimDelivery(Run(w))
    PROVE  /\ RunStep(Run(w)) /\ Advances(Run(w)) /\ Quiet(Run(w))
           /\ late' = late
           /\ RowsOK
           /\ NextClaimsOf(Run(w)) = ClaimsOf(Run(w)) + 1
           /\ ClaimDelivery(Run(w)) => row'[Run(w)].summary
           /\ ClaimsOf(Run(w)) \in Nat
           /\ row[Run(w)].attempt \in Nat
<1>1. /\ RunStep(Run(w)) /\ Advances(Run(w)) /\ Quiet(Run(w)) /\ late' = late
      /\ NextClaimsOf(Run(w)) = ClaimsOf(Run(w)) + 1
      /\ ClaimDelivery(Run(w)) => row[Run(w)].summary
  <2>1. LifecycleTypeOK /\ Run(w) \in Runs
    BY Basics
  <2>2. RunStep(Run(w))
    BY <2>1, StatementsAreSteps
  <2>3. QED BY <2>1, <2>2, ClaimEffect
<1>2. StoreStep /\ \A q \in Runs : Quiet(q)
  BY <1>1, Basics, Everywhere
<1>3. RowsOK
  BY <1>2, QuietRowsOK
<1>4. row[Run(w)].attempt \in Nat /\ row[Run(w)].deliveryAttempt \in Nat
  BY Basics DEF LifecycleTypeOK, Row
<1>5. ClaimsOf(Run(w)) \in Nat
  BY <1>4 DEF ClaimsOf
<1>6. QED BY <1>1, <1>3, <1>4, <1>5 DEF Advances

LEMMA HoldDeliveryEffect ==
    ASSUME PipelineInv, NEW w \in Workers, ~At(w, "idle"), NEW checked \in BOOLEAN,
           ClaimDelivery(Run(w)), HoldDelivery(w, checked), UNCHANGED environment
    PROVE  Effect(w)
<1>1. PICK pc \in {"undeliverable", "send"} :
         worker' = [worker EXCEPT ![w].token = ClaimsOf(Run(w)) + 1, ![w].pc = pc]
  <2> DEFINE spent == row[Run(w)].deliveryAttempt + 1 > MAX_DELIVERY_ATTEMPTS
             next == IF checked /\ spent THEN "undeliverable" ELSE "send"
  <2>1. next \in {"undeliverable", "send"}
    OBVIOUS
  <2>2. worker' = [worker EXCEPT ![w].token = ClaimsOf(Run(w)) + 1,
                                 ![w].pc = next]
    BY DEF HoldDelivery
  <2> HIDE DEF next
  <2>3. QED BY <2>1, <2>2
<1>2. /\ ClaimsOf(Run(w)) + 1 \in Nat
      /\ row'[Run(w)].summary /\ RowsOK /\ late' = late
      /\ NextClaimsOf(Run(w)) = ClaimsOf(Run(w)) + 1
  BY ClaimFacts
<1>3. Claims(w, pc)
  BY <1>1, <1>2, Basics DEF Claims, OthersStay, Worker, WorkerSteps
<1>4. QueueOK /\ UNCHANGED <<ingress, cron>>
  BY Basics, QueueUnchanged DEF environment
<1>5. Knows(w, pc) /\ pc \in WorkerSteps \ {"idle"}
  BY <1>2 DEF Knows, WorkerSteps
<1>6. QED BY <1>2, <1>3, <1>4, <1>5 DEF Effect, WorkerMoves

LEMMA ClaimWorkDeliveryEffect ==
    ASSUME PipelineInv, NEW w \in Workers, ClaimWorkDelivery(w)
    PROVE  Effect(w)
<1>1. ~At(w, "idle")
  BY DEF ClaimWorkDelivery, At
<1>2. CASE ClaimDelivery(Run(w)) /\ HoldDelivery(w, TRUE) /\ UNCHANGED environment
  BY <1>1, <1>2, HoldDeliveryEffect
<1>3. CASE /\ UNCHANGED lifecycleVars /\ Goto(w, "claimProcessing")
           /\ UNCHANGED environment
  BY <1>1, <1>3, IdleEffect DEF Knows, WorkerSteps, Holding
<1>4. CASE Uncaught(w, ClaimDelivery(Run(w)))
  BY <1>1, <1>4, ClaimFacts, DropEffect DEF Uncaught
<1>5. QED BY <1>2, <1>3, <1>4 DEF ClaimWorkDelivery

LEMMA ClaimWorkProcessingEffect ==
    ASSUME PipelineInv, NEW w \in Workers, ClaimWorkProcessing(w)
    PROVE  Effect(w)
<1> DEFINE r == Run(w)
<1>1. ~At(w, "idle")
  BY DEF ClaimWorkProcessing, At
<1>2. CASE /\ ClaimProcessing(r)
           /\ worker' = [worker EXCEPT
                ![w].token = ClaimsOf(r) + 1,
                ![w].attempt = row[r].attempt + 1,
                ![w].pc = AfterProcessingClaim(row[r].attempt + 1)]
           /\ UNCHANGED environment
  <2>1. /\ ClaimsOf(r) + 1 \in Nat
        /\ row[r].attempt \in Nat /\ RowsOK /\ late' = late
        /\ NextClaimsOf(r) = ClaimsOf(r) + 1
    BY <1>1, <1>2, ClaimFacts
  <2>2. PICK pc \in {"exhausted", "lookup"} : pc = AfterProcessingClaim(row[r].attempt + 1)
    BY DEF AfterProcessingClaim
  <2>3. row[r].attempt + 1 \in Nat /\ row[r].attempt + 1 > 0
    BY <2>1
  <2>4. Claims(w, pc) /\ worker'[w].attempt = row[r].attempt + 1
    <3>1. worker \in [Workers -> Worker] /\ pc \in WorkerSteps
      BY <1>1, Basics DEF WorkerSteps
    <3>2. worker' = [worker EXCEPT ![w].token = ClaimsOf(r) + 1,
                                   ![w].attempt = row[r].attempt + 1,
                                   ![w].pc = pc]
      BY <1>2, <2>2
    <3>3. [worker[w] EXCEPT !.token = ClaimsOf(r) + 1,
                            !.attempt = row[r].attempt + 1, !.pc = pc] \in Worker
      BY <2>1, <2>3, <3>1 DEF Worker
    <3>4. QED BY <3>1, <3>2, <3>3 DEF Claims, OthersStay, Worker
  <2>5. QueueOK /\ UNCHANGED <<ingress, cron>>
    BY <1>1, <1>2, Basics, QueueUnchanged DEF environment
  <2>6. Knows(w, pc) /\ pc \in WorkerSteps \ {"idle"}
    BY <2>3, <2>4 DEF Knows, WorkerSteps
  <2>7. QED BY <2>1, <2>4, <2>5, <2>6 DEF Effect, WorkerMoves
<1>3. CASE /\ UNCHANGED lifecycleVars /\ Goto(w, "again")
           /\ UNCHANGED environment
  BY <1>1, <1>3, IdleEffect DEF Knows, WorkerSteps, Holding
<1>4. CASE Uncaught(w, ClaimProcessing(r))
  BY <1>1, <1>4, ClaimFacts, DropEffect DEF Uncaught
<1>5. QED BY <1>2, <1>3, <1>4 DEF ClaimWorkProcessing

LEMMA ClaimReadyEffect ==
    ASSUME PipelineInv, NEW w \in Workers, ClaimReady(w)
    PROVE  Effect(w)
<1>1. ~At(w, "idle") /\ worker[w].pc \in Holding
  BY DEF ClaimReady, At, Holding, WorkerSteps
<1>2. CASE /\ ClaimDelivery(Run(w)) /\ HoldDelivery(w, ~worker[w].finalizing)
           /\ UNCHANGED environment
  BY <1>1, <1>2, HoldDeliveryEffect
<1>3. CASE UNCHANGED lifecycleVars /\ Goto(w, "again") /\ UNCHANGED environment
  BY <1>1, <1>3, IdleEffect DEF Knows, WorkerSteps, Holding
<1>4. CASE Caught(w, ClaimDelivery(Run(w)), "failProcessing")
  <2>1. CASE ClaimDelivery(Run(w)) /\ Goto(w, "failProcessing")
    BY <1>1, <1>4, <2>1, ClaimFacts, QuietEffect DEF Caught, Knows, WorkerSteps
  <2>2. CASE UNCHANGED lifecycleVars /\ Goto(w, "failProcessing")
    BY <1>1, <1>4, <2>2, IdleEffect DEF Caught, Knows, WorkerSteps
  <2>3. QED BY <1>4, <2>1, <2>2 DEF Caught
<1>5. QED BY <1>2, <1>3, <1>4 DEF ClaimReady

(* Recording the outcome.                                                  *)
LEMMA CommitFacts ==
    ASSUME PipelineInv, NEW w \in Workers, At(w, "generate"), CommitAttempt(w)
    PROVE  /\ RunStep(Run(w)) /\ Advances(Run(w)) /\ Quiet(Run(w))
           /\ late' = late
           /\ accepted' = [accepted EXCEPT ![Run(w)] = {worker[w].attempt}]
           /\ row[Run(w)].attempt > 0
<1>1. ~At(w, "idle") /\ worker[w].pc \in Holding
  BY DEF At, Holding, WorkerSteps
<1>2. RenewLease(Run(w), Token(w), "processing")
  BY DEF CommitAttempt, RenewLease
<1>3. RunStep(Run(w)) /\ Advances(Run(w)) /\ Quiet(Run(w)) /\ late' = late
  BY <1>1, <1>2, Basics, StatementsAreSteps, HolderEffect DEF Leased
<1>4. accepted[Run(w)] = {}
  BY DEF CommitAttempt, PipelineInv, LiveOwnerReusesOutcome
<1>5. accepted' = [accepted EXCEPT ![Run(w)] = {worker[w].attempt}]
  BY <1>4 DEF CommitAttempt
<1>6. row[Run(w)].attempt > 0
  BY DEF CommitAttempt, PipelineInv, WorkerInv, At
<1>7. QED BY <1>3, <1>5, <1>6

LEMMA GenerateEffect ==
    ASSUME PipelineInv, NEW w \in Workers, Generate(w)
    PROVE  Effect(w)
<1>1. ~At(w, "idle") /\ At(w, "generate") /\ worker[w].pc \in Holding
  BY DEF Generate, At, Holding, WorkerSteps
<1>2. UNCHANGED environment
  BY DEF Generate
<1>3. ASSUME NEW streamed \in BOOLEAN, CommitAttempt(w),
             worker' = [worker EXCEPT ![w].pc = "store", ![w].finalizing = streamed]
      PROVE  Effect(w)
  <2>1. /\ RunStep(Run(w)) /\ Advances(Run(w)) /\ Quiet(Run(w)) /\ late' = late
        /\ accepted' = [accepted EXCEPT ![Run(w)] = {worker[w].attempt}]
    BY <1>1, <1>3, CommitFacts
  <2>2. StoreStep /\ \A q \in Runs : Quiet(q)
    BY <1>1, <2>1, Basics, Everywhere
  <2>3. RowsOK
    BY <2>2, QuietRowsOK
  <2>4. QueueOK /\ UNCHANGED <<ingress, cron>>
    BY <1>1, <1>2, Basics, QueueUnchanged DEF environment
  <2>5. Proceeds(w, "store")
    BY <1>1, <1>3, Basics DEF Proceeds, OthersStay, Worker, WorkerSteps
  <2>6. accepted'[Run(w)] # {}
    BY <1>1, <2>1, Basics DEF PipelineInv, PipelineTypeOK
  <2>7. Knows(w, "store") /\ "store" \in WorkerSteps \ {"idle"}
    BY <2>6 DEF Knows, WorkerSteps
  <2>8. QED BY <1>1, <2>1, <2>3, <2>4, <2>5, <2>7 DEF Effect, WorkerMoves
<1>4. ASSUME NEW pc \in {"failProcessing", "retryProcessing"},
             NoCommit, Goto(w, pc)
      PROVE  Effect(w)
  BY <1>1, <1>2, <1>4, IdleEffect DEF NoCommit, Knows, WorkerSteps
<1>5. CASE CommitAttempt(w) /\ Goto(w, "failProcessing")
  BY <1>1, <1>2, <1>5, CommitFacts, QuietEffect DEF Knows, WorkerSteps
<1>6. Retryable(w) \in {"failProcessing", "retryProcessing"}
  BY DEF Retryable
<1>7. QED BY <1>3, <1>4, <1>5, <1>6 DEF Generate

LEMMA StoreEffect ==
    ASSUME PipelineInv, NEW w \in Workers, Store(w)
    PROVE  Effect(w)
<1> DEFINE Statement == StoreDeliveryPayload(Run(w), Token(w))
<1>1. /\ ~At(w, "idle") /\ worker[w].pc \in Holding
      /\ accepted[Run(w)] # {}
  BY DEF Store, At, Holding, WorkerSteps, PipelineInv, WorkerInv
<1>2. ASSUME NEW pc \in {"claimReady", "failProcessing"}, Statement,
             Goto(w, pc), UNCHANGED environment
      PROVE  Effect(w)
  <2>1. /\ RunStep(Run(w)) /\ Advances(Run(w)) /\ late' = late
        /\ row'[Run(w)].status # "completed"
    BY <1>1, <1>2, Basics, StatementsAreSteps, HolderEffect
  <2>2. StoreStep /\ \A q \in Runs \ {Run(w)} : Quiet(q)
    BY <1>1, <2>1, Basics, Everywhere
  <2>3. RowsOK
    BY <1>1, <2>1, <2>2, Basics DEF RowsOK, Quiet
  <2>4. QueueOK /\ UNCHANGED <<ingress, cron>>
    BY <1>1, <1>2, Basics, QueueUnchanged DEF environment
  <2>5. Proceeds(w, pc) /\ Knows(w, pc) /\ pc \in WorkerSteps \ {"idle"}
    BY <1>1, <1>2, Basics, GotoProceeds DEF Knows, WorkerSteps
  <2>6. QED BY <1>1, <2>1, <2>3, <2>4, <2>5 DEF Effect, WorkerMoves
<1>3. ASSUME NEW pc \in {"again", "failProcessing"}, UNCHANGED lifecycleVars,
             Goto(w, pc), UNCHANGED environment
      PROVE  Effect(w)
  BY <1>1, <1>3, IdleEffect DEF Knows, WorkerSteps
<1>4. QED BY <1>2, <1>3 DEF Store, Fenced, Caught

LEMMA CompleteEffect ==
    ASSUME PipelineInv, NEW w \in Workers, Complete(w)
    PROVE  Effect(w)
<1> DEFINE Statement == MarkCompleted(Run(w), Token(w))
<1>1. /\ ~At(w, "idle") /\ worker[w].pc \in Holding
      /\ sent[Run(w)] > 0
  BY DEF Complete, At, Holding, WorkerSteps, PipelineInv, WorkerInv
<1>2. ASSUME NEW pc \in {"done", "failDelivery"}, Statement,
             Goto(w, pc), UNCHANGED environment
      PROVE  Effect(w)
  <2>1. /\ RunStep(Run(w)) /\ Advances(Run(w)) /\ late' = late
        /\ row'[Run(w)].summary => row[Run(w)].summary
        /\ row'[Run(w)].status = "completed"
    BY <1>1, <1>2, Basics, StatementsAreSteps, HolderEffect
  <2>2. StoreStep /\ \A q \in Runs \ {Run(w)} : Quiet(q)
    BY <1>1, <2>1, Basics, Everywhere
  <2>3. RowsOK
    BY <1>1, <2>1, <2>2, Basics DEF RowsOK, Quiet
  <2>4. QueueOK /\ UNCHANGED <<ingress, cron>>
    BY <1>1, <1>2, Basics, QueueUnchanged DEF environment
  <2>5. Proceeds(w, pc) /\ Knows(w, pc) /\ pc \in WorkerSteps \ {"idle"}
    BY <1>1, <1>2, <2>1, Basics, GotoProceeds DEF Knows, WorkerSteps, Terminal
  <2>6. QED BY <1>1, <2>1, <2>3, <2>4, <2>5 DEF Effect, WorkerMoves
<1>3. ASSUME NEW pc \in {"again", "failDelivery"}, UNCHANGED lifecycleVars,
             Goto(w, pc), UNCHANGED environment
      PROVE  Effect(w)
  BY <1>1, <1>3, IdleEffect DEF Knows, WorkerSteps
<1>4. QED BY <1>2, <1>3 DEF Complete, Fenced, Caught

LEMMA SendEffect ==
    ASSUME PipelineInv, NEW w \in Workers, Send(w)
    PROVE  Effect(w)
<1>1. /\ ~At(w, "idle") /\ worker[w].pc \in Holding
      /\ UNCHANGED lifecycleVars /\ UNCHANGED environment
  BY DEF Send, At, Holding, WorkerSteps
<1>2. CASE sent' = [sent EXCEPT ![Run(w)] = @ + 1] /\ Goto(w, "complete")
  <2>1. sent'[Run(w)] > 0
    BY <1>1, <1>2, Basics DEF PipelineInv, PipelineTypeOK
  <2>2. QED BY <1>1, <1>2, <2>1, IdleEffect DEF Knows, WorkerSteps
<1>3. ASSUME NEW pc \in {"retryDelivery", "failDelivery"}, Goto(w, pc)
      PROVE  Effect(w)
  BY <1>1, <1>3, IdleEffect DEF Knows, WorkerSteps
<1>4. QED BY <1>2, <1>3 DEF Send

WorkerStep(w) == ProcessorStep(w) \/ Ack(w) \/ Reschedule(w) \/ Crash(w)

(* Every step of a worker, its crash included.                             *)
LEMMA WorkerEffect ==
    ASSUME PipelineInv, NEW w \in Workers, WorkerStep(w)
    PROVE  ~At(w, "idle") /\ Effect(w)
<1>1. CASE ClaimWorkGet(w)
  <2>1. ~At(w, "idle") /\ UNCHANGED lifecycleVars /\ UNCHANGED environment
    BY <1>1 DEF ClaimWorkGet, At
  <2>2. CASE Goto(w, "done") /\ row[Run(w)].status \in Terminal
    BY <2>1, <2>2, IdleEffect DEF Knows, WorkerSteps, Holding, lifecycleVars
  <2>3. CASE Goto(w, "claimDelivery")
    BY <2>1, <2>3, IdleEffect DEF Knows, WorkerSteps, Holding
  <2>4. QED BY <1>1, <2>1, <2>2, <2>3, Basics DEF ClaimWorkGet
<1>2. CASE ClaimWorkDelivery(w)
  BY <1>2, ClaimWorkDeliveryEffect DEF ClaimWorkDelivery, At
<1>3. CASE ClaimWorkProcessing(w)
  BY <1>3, ClaimWorkProcessingEffect DEF ClaimWorkProcessing, At
<1>4. CASE FailExhausted(w)
  BY <1>4, FailEffect DEF FailExhausted, At, Holding, WorkerSteps, Leased
<1>5. CASE LookupOutcome(w)
  <2>1. /\ ~At(w, "idle") /\ worker[w].pc \in Holding
        /\ worker[w].attempt > 0
        /\ UNCHANGED lifecycleVars /\ UNCHANGED environment
        /\ accepted' = accepted
    BY <1>5 DEF LookupOutcome, At, Holding, WorkerSteps, PipelineInv, WorkerInv,
                history
  <2>2. CASE Goto(w, "generate") /\ accepted[Run(w)] = {}
    <3>1. worker'[w].attempt > 0
      BY <2>1, <2>2, Basics, GotoProceeds DEF Proceeds, WorkerSteps
    <3>2. QED BY <2>1, <2>2, <3>1, IdleEffect DEF Knows, WorkerSteps
  <2>3. CASE Goto(w, "store") /\ accepted[Run(w)] # {}
    BY <2>1, <2>3, IdleEffect DEF Knows, WorkerSteps
  <2>4. CASE Goto(w, "failProcessing")
    BY <2>1, <2>4, IdleEffect DEF Knows, WorkerSteps
  <2>5. QED BY <1>5, <2>1, <2>2, <2>3, <2>4 DEF LookupOutcome
<1>6. CASE Generate(w)
  BY <1>6, GenerateEffect DEF Generate, At
<1>7. CASE RejectPayload(w)
  <2>1. /\ ~At(w, "idle") /\ worker[w].pc \in Holding
        /\ UNCHANGED lifecycleVars /\ UNCHANGED environment
        /\ Goto(w, "invalid")
    BY <1>7 DEF RejectPayload, At, Holding, WorkerSteps
  <2>2. QED BY <2>1, IdleEffect DEF Knows, WorkerSteps
<1>8. CASE FailInvalid(w)
  BY <1>8, FailEffect DEF FailInvalid, At, Holding, WorkerSteps, Leased
<1>9. CASE Store(w)
  BY <1>9, StoreEffect DEF Store, At
<1>10. CASE ClaimReady(w)
  BY <1>10, ClaimReadyEffect DEF ClaimReady, At
<1>11. CASE FailProcessing(w)
  BY <1>11, FailEffect DEF FailProcessing, At, Holding, WorkerSteps, Leased
<1>12. CASE RetryProcessing(w)
  BY <1>12, RetryEffect DEF RetryProcessing, At, Holding, WorkerSteps, Leased
<1>13. CASE FailUndeliverable(w)
  BY <1>13, FailEffect DEF FailUndeliverable, At, Holding, WorkerSteps, Leased
<1>14. CASE Send(w)
  BY <1>14, SendEffect DEF Send, At
<1>15. CASE Complete(w)
  BY <1>15, CompleteEffect DEF Complete, At
<1>16. CASE FailDelivery(w)
  BY <1>16, FailEffect DEF FailDelivery, At, Holding, WorkerSteps, Leased
<1>17. CASE RetryDelivery(w)
  BY <1>17, RetryEffect DEF RetryDelivery, At, Holding, WorkerSteps, Leased
<1>18. CASE Ack(w) \/ Reschedule(w) \/ Crash(w)
  <2>1. ~At(w, "idle") /\ UNCHANGED lifecycleVars
    BY <1>18 DEF Ack, Reschedule, Crash, At
  <2>2. RowsOK /\ late' = late /\ row'[Run(w)].status # "missing"
    BY <2>1, Basics, Nowhere, QuietRowsOK DEF lifecycleVars
  <2>3. CASE MessageRetry(w)
    BY <2>1, <2>3, DropEffect
  <2>4. CASE /\ worker' = [worker EXCEPT ![w] = NoJob]
             /\ UNCHANGED jobs \/ Enqueue(Run(w), 1) \/ Enqueue(Run(w), 2)
             /\ UNCHANGED <<ingress, cron>>
    <3>1. Drops(w) /\ QueueOK
      BY <2>1, <2>2, <2>4, Basics, NoJobDrops, EnqueueOK, QueueUnchanged
    <3>2. QED BY <2>1, <2>2, <2>4, <3>1 DEF Effect, WorkerMoves
  <2>5. QED BY <1>18, <2>1, <2>3, <2>4 DEF Ack, Reschedule, Crash, environment
<1>19. QED
  BY <1>1, <1>2, <1>3, <1>4, <1>5, <1>6, <1>7, <1>8, <1>9, <1>10, <1>11, <1>12,
     <1>13, <1>14, <1>15, <1>16, <1>17, <1>18 DEF WorkerStep, ProcessorStep

(* What a worker writes to the ledger and to the chat.                     *)
LEMMA WorkerHistory ==
    ASSUME PipelineInv, NEW w \in Workers, WorkerStep(w)
    PROVE  /\ \/ accepted' = accepted
              \/ At(w, "generate") /\ CommitAttempt(w)
           /\ \/ sent' = sent
              \/ At(w, "send") /\ sent' = [sent EXCEPT ![Run(w)] = @ + 1]
           /\ generated' \in [Runs -> Nat]
           /\ faults' \in 0..MaxFaults
<1> USE DEF PipelineInv, PipelineTypeOK
<1>1. \/ accepted' = accepted
      \/ At(w, "generate") /\ CommitAttempt(w)
  BY DEF WorkerStep, ProcessorStep, Ack, Reschedule, Crash, history, ClaimWorkGet,
         ClaimWorkDelivery, ClaimWorkProcessing, FailExhausted, LookupOutcome,
         Generate, NoCommit, RejectPayload, FailInvalid, Store, ClaimReady,
         FailProcessing, RetryProcessing, FailUndeliverable, Send, Complete,
         FailDelivery, RetryDelivery
<1>2. \/ sent' = sent
      \/ At(w, "send") /\ sent' = [sent EXCEPT ![Run(w)] = @ + 1]
  BY DEF WorkerStep, ProcessorStep, Ack, Reschedule, Crash, history, ClaimWorkGet,
         ClaimWorkDelivery, ClaimWorkProcessing, FailExhausted, LookupOutcome,
         Generate, RejectPayload, FailInvalid, Store, ClaimReady,
         FailProcessing, RetryProcessing, FailUndeliverable, Send, Complete,
         FailDelivery, RetryDelivery
<1>3. \/ generated' = generated
      \/ generated' = [generated EXCEPT ![Run(w)] = @ + 1]
  BY DEF WorkerStep, ProcessorStep, Ack, Reschedule, Crash, history, ClaimWorkGet,
         ClaimWorkDelivery, ClaimWorkProcessing, FailExhausted, LookupOutcome,
         Generate, RejectPayload, FailInvalid, Store, ClaimReady,
         FailProcessing, RetryProcessing, FailUndeliverable, Send, Complete,
         FailDelivery, RetryDelivery
<1>4. NoFault \/ Fault
  BY DEF WorkerStep, ProcessorStep, Ack, Reschedule, Crash, NoFault, ClaimWorkGet,
         ClaimWorkDelivery, ClaimWorkProcessing, FailExhausted, LookupOutcome,
         Generate, RejectPayload, FailInvalid, Store, ClaimReady, Fenced, Caught,
         Uncaught, FailProcessing, RetryProcessing, FailUndeliverable, Send,
         Complete, FailDelivery, RetryDelivery
<1>5. generated' \in [Runs -> Nat]
  BY <1>3
<1>6. faults' \in 0..MaxFaults
  BY <1>4, BudgetsAssumption DEF NoFault, Fault
<1>7. QED BY <1>1, <1>2, <1>5, <1>6

-----------------------------------------------------------------------------
(* The webhook, the reconciler and time.                                   *)
PreparedExist == \A c \in Crons : \A r \in cron[c].prepared : row[r].status # "missing"

(* A statement of theirs, on any row.                                      *)
LEMMA SystemRows ==
    ASSUME PipelineInv, NEW r \in Runs,
           \/ MarkQueued(r) \/ RequeueRetry(r) \/ ReEnqueue(r)
           \/ \E stage \in Leased : ExpireLease(r, stage)
           \/ LeaseLapses(r) \/ RetryFallsDue(r) \/ GoesStale(r)
    PROVE  RowsOK /\ late' = late
<1>1. LifecycleTypeOK /\ LifecycleInv /\ RowInv(r)
  BY DEF PipelineInv, LifecycleInv
<1>2. ~Create(r)
  <2>1. row[r].status # "missing"
    BY <1>1 DEF MarkQueued, RequeueRetry, Transition, ReEnqueue, Touch,
                ExpireLease, Leased, LeaseLapses, RetryFallsDue, GoesStale,
                RowInv, NoRow, Null
  <2>2. QED BY <2>1 DEF Create
<1>3. Advances(r) /\ Quiet(r) /\ late' = late
  BY <1>1, <1>2, SystemEffect
<1>4. RunStep(r)
  BY StatementsAreSteps
<1>5. StoreStep /\ \A q \in Runs : Quiet(q)
  BY <1>1, <1>3, <1>4, Everywhere
<1>6. QED BY <1>3, <1>5, QuietRowsOK

LEMMA StandstillRows ==
    ASSUME PipelineInv, UNCHANGED lifecycleVars
    PROVE  RowsOK /\ late' = late
BY Nowhere, QuietRowsOK DEF PipelineInv, lifecycleVars

(* What these steps do to the rest.                                        *)
SystemMoves == /\ RowsOK
               /\ late' = late
               /\ QueueOK
               /\ ingress' \in [Runs -> IngressSteps]
               /\ \A q \in Runs : ingress'[q] # "update"
                                  => ingress[q] # "update" \/ row'[q].status # "missing"
               /\ cron' \in [Crons -> Cron]
               /\ PreparedExist'
               /\ faults' \in 0..MaxFaults

LEMMA FaultType ==
    ASSUME PipelineInv, NoFault \/ Fault
    PROVE  faults' \in 0..MaxFaults
BY BudgetsAssumption DEF PipelineInv, PipelineTypeOK, NoFault, Fault

LEMMA PreparedStay ==
    ASSUME PipelineInv, RowsOK, cron' = cron
    PROVE  cron' \in [Crons -> Cron] /\ PreparedExist'
<1>1. PreparedExist /\ cron \in [Crons -> Cron]
  BY DEF PipelineInv, PipelineTypeOK, PreparedExist
<1>2. \A c \in Crons : cron[c].prepared \subseteq Runs
  BY <1>1 DEF Cron
<1>3. QED BY <1>1, <1>2 DEF PreparedExist, RowsOK, StoreStep, Advances

LEMMA TimeEffect ==
    ASSUME PipelineInv, NEW r \in Runs, LeasePasses(r) \/ DeadlinePasses(r)
    PROVE  SystemMoves
<1>1. RowsOK /\ late' = late
  BY SystemRows DEF LeasePasses, DeadlinePasses
<1>2. UNCHANGED environment
  BY DEF LeasePasses, DeadlinePasses
<1>3. QueueOK
  BY <1>2, QueueUnchanged DEF PipelineInv, PipelineTypeOK, environment
<1>4. faults' \in 0..MaxFaults
  BY FaultType DEF LeasePasses, DeadlinePasses, NoFault
<1>5. cron' \in [Crons -> Cron] /\ PreparedExist'
  BY <1>1, <1>2, PreparedStay DEF environment
<1>6. QED BY <1>1, <1>2, <1>3, <1>4, <1>5
          DEF SystemMoves, environment, PipelineInv, PipelineTypeOK

LEMMA TakeEffect ==
    ASSUME PipelineInv, NEW w \in Workers, NEW r \in Runs, Take(w, r)
    PROVE  /\ SystemMoves
           /\ OthersStay(w) /\ worker'[w].pc = "get" /\ worker'[w].run = r
           /\ row'[r].status # "missing"
<1>1. /\ RowsOK /\ late' = late /\ row' = row
  BY StandstillRows DEF Take, lifecycleVars
<1>2. QueueOK
  <2>1. jobs \in [Runs -> Nat] /\ jobs[r] > 0 /\ jobs' = [jobs EXCEPT ![r] = @ + (-1)]
    BY DEF Take, Enqueue, PipelineInv, PipelineTypeOK
  <2>2. jobs[r] + (-1) \in Nat
    BY <2>1
  <2>3. QED BY <2>1, <2>2 DEF QueueOK
<1>3. cron' \in [Crons -> Cron] /\ PreparedExist'
  BY <1>1, PreparedStay DEF Take
<1>4. row[r].status # "missing"
  BY DEF Take, PipelineInv, RunInv
<1>5. OthersStay(w) /\ worker'[w].pc = "get" /\ worker'[w].run = r
  BY DEF Take, PipelineInv, PipelineTypeOK, OthersStay, Worker, NoJob,
         WorkerSteps, Null
<1>6. QED BY <1>1, <1>2, <1>3, <1>4, <1>5
          DEF SystemMoves, Take, PipelineInv, PipelineTypeOK

(* The passes of the reconciler.                                           *)
CronKeeps(c) ==
    /\ cron' \in [Crons -> Cron]
    /\ \A d \in Crons : cron'[d].prepared \subseteq cron[d].prepared

LEMMA CronKeepsPrepared ==
    ASSUME PipelineInv, RowsOK, NEW c \in Crons, CronKeeps(c)
    PROVE  PreparedExist'
<1>1. PreparedExist /\ cron \in [Crons -> Cron]
  BY DEF PipelineInv, PipelineTypeOK, PreparedExist
<1>2. \A d \in Crons : cron[d].prepared \subseteq Runs
  BY <1>1 DEF Cron
<1>3. QED BY <1>1, <1>2 DEF CronKeeps, PreparedExist, RowsOK, StoreStep, Advances

LEMMA SystemMovesByParts ==
    ASSUME PipelineInv, RowsOK, late' = late, UNCHANGED ingress, QueueOK,
           cron' \in [Crons -> Cron], PreparedExist', faults' \in 0..MaxFaults
    PROVE  SystemMoves
BY DEF SystemMoves, PipelineInv, PipelineTypeOK

LEMMA CronScanEffect ==
    ASSUME PipelineInv, NEW c \in Crons, CronScan(c)
    PROVE  SystemMoves
<1>1. RowsOK /\ late' = late /\ UNCHANGED <<ingress, jobs, faults>>
  BY StandstillRows DEF CronScan
<1>2. QueueOK
  BY <1>1, QueueUnchanged DEF PipelineInv, PipelineTypeOK
<1>3. CronKeeps(c)
  <2>1. cron \in [Crons -> Cron]
    BY DEF PipelineInv, PipelineTypeOK
  <2>2. PICK found \in SUBSET Found : cron' = [cron EXCEPT ![c].snapshot = found]
    <3> DEFINE stale == {r \in Runs : Actionable(r) /\ jobs[r] < MaxJobs}
               found == {[run |-> r, status |-> row[r].status,
                          leaseToken |-> row[r].leaseToken] : r \in stale}
    <3>1. \A r \in Runs : row[r].status \in Statuses /\ row[r].leaseToken \in Nat
      BY DEF PipelineInv, PipelineTypeOK, LifecycleTypeOK, Row
    <3>2. found \in SUBSET Found
      BY <3>1 DEF Found
    <3>3. cron' = [cron EXCEPT ![c].snapshot = found]
      BY DEF CronScan
    <3>4. QED BY <3>2, <3>3
  <2>3. QED BY <2>1, <2>2 DEF CronKeeps, Cron
<1>4. faults' \in 0..MaxFaults
  BY <1>1 DEF PipelineInv, PipelineTypeOK
<1>5. QED BY <1>1, <1>2, <1>3, <1>4, CronKeepsPrepared, SystemMovesByParts
          DEF CronKeeps

LEMMA CronPrepareEffect ==
    ASSUME PipelineInv, NEW c \in Crons, NEW found \in cron[c].snapshot,
           CronPrepare(c, found)
    PROVE  SystemMoves
<1> DEFINE r == found.run
<1>1. cron \in [Crons -> Cron] /\ found \in Found /\ r \in Runs
  BY DEF PipelineInv, PipelineTypeOK, Cron, Found
<1>2. /\ UNCHANGED <<ingress, jobs>>
      /\ PrepareStatement(found) \/ UNCHANGED lifecycleVars
      /\ NoFault \/ Fault
  BY DEF CronPrepare
<1>3. ASSUME PrepareStatement(found)
      PROVE  /\ RowsOK /\ late' = late
             /\ row[r].status # "missing"
  <2>1. \/ MarkQueued(r) \/ RequeueRetry(r) \/ ReEnqueue(r)
        \/ \E stage \in Leased : ExpireLease(r, stage)
    BY <1>3 DEF PrepareStatement, ReEnqueue
  <2>2. row[r].status # "missing"
    BY <2>1 DEF MarkQueued, RequeueRetry, Transition, ReEnqueue, Touch,
                ExpireLease, Leased
  <2>3. QED BY <1>1, <2>1, <2>2, SystemRows
<1>4. RowsOK /\ late' = late
  BY <1>2, <1>3, StandstillRows
<1>5. QueueOK
  BY <1>2, QueueUnchanged DEF PipelineInv, PipelineTypeOK
<1>6. faults' \in 0..MaxFaults
  BY <1>2, FaultType
<1>7. PICK expired \in SUBSET {r}, prepared \in SUBSET {r} :
         /\ cron' = [cron EXCEPT ![c].snapshot = @ \ {found},
                                 ![c].expired  = @ \cup expired,
                                 ![c].prepared = @ \cup prepared]
         /\ prepared = {} \/ PrepareStatement(found)
  BY DEF CronPrepare
<1>8. /\ cron' \in [Crons -> Cron]
      /\ \A d \in Crons : cron'[d].prepared \subseteq cron[d].prepared \cup prepared
  <2> DEFINE pass == [cron[c] EXCEPT !.snapshot = @ \ {found},
                                     !.expired  = @ \cup expired,
                                     !.prepared = @ \cup prepared]
  <2>1. cron[c] \in Cron /\ expired \subseteq Runs /\ prepared \subseteq Runs
    BY <1>1
  <2>2. pass \in Cron /\ pass.prepared = cron[c].prepared \cup prepared
    BY <2>1 DEF Cron
  <2>3. cron' = [cron EXCEPT ![c] = pass]
    BY <1>1, <1>7
  <2>4. QED BY <1>1, <2>2, <2>3
<1>9. PreparedExist'
  <2>1. PreparedExist
    BY DEF PipelineInv, PreparedExist
  <2>2. \A q \in prepared : row[q].status # "missing"
    BY <1>3, <1>7
  <2>3. \A d \in Crons : \A q \in cron'[d].prepared : q \in Runs /\ row[q].status # "missing"
    BY <1>1, <1>8, <2>1, <2>2 DEF PreparedExist, Cron
  <2>4. QED BY <1>4, <2>3 DEF PreparedExist, RowsOK, StoreStep, Advances
<1>10. QED BY <1>2, <1>4, <1>5, <1>6, <1>8, <1>9, SystemMovesByParts

LEMMA CronRequeueExpiredEffect ==
    ASSUME PipelineInv, NEW c \in Crons, NEW r \in cron[c].expired,
           CronRequeueExpired(c, r)
    PROVE  SystemMoves
<1>1. cron \in [Crons -> Cron] /\ r \in Runs
  BY DEF PipelineInv, PipelineTypeOK, Cron
<1>2. /\ UNCHANGED <<ingress, jobs>>
      /\ RequeueRetry(r) \/ UNCHANGED lifecycleVars
      /\ NoFault \/ Fault
  BY DEF CronRequeueExpired
<1>3. ASSUME RequeueRetry(r)
      PROVE  RowsOK /\ late' = late /\ row[r].status # "missing"
  BY <1>1, <1>3, SystemRows DEF RequeueRetry, Transition
<1>4. RowsOK /\ late' = late
  BY <1>2, <1>3, StandstillRows
<1>5. QueueOK
  BY <1>2, QueueUnchanged DEF PipelineInv, PipelineTypeOK
<1>6. faults' \in 0..MaxFaults
  BY <1>2, FaultType
<1>7. PICK prepared \in SUBSET {r} :
         /\ cron' = [cron EXCEPT ![c].expired = {},
                                 ![c].prepared = @ \cup prepared]
         /\ prepared = {} \/ RequeueRetry(r)
  BY DEF CronRequeueExpired
<1>8. /\ cron' \in [Crons -> Cron]
      /\ \A d \in Crons : cron'[d].prepared \subseteq cron[d].prepared \cup prepared
  BY <1>1, <1>7 DEF Cron
<1>9. PreparedExist'
  <2>1. PreparedExist
    BY DEF PipelineInv, PreparedExist
  <2>2. \A q \in prepared : row[q].status # "missing"
    BY <1>3, <1>7
  <2>3. \A d \in Crons : \A q \in cron'[d].prepared : q \in Runs /\ row[q].status # "missing"
    BY <1>1, <1>8, <2>1, <2>2 DEF PreparedExist, Cron
  <2>4. QED BY <1>4, <2>3 DEF PreparedExist, RowsOK, StoreStep, Advances
<1>10. QED BY <1>2, <1>4, <1>5, <1>6, <1>8, <1>9, SystemMovesByParts

LEMMA CronEndEffect ==
    ASSUME PipelineInv, NEW c \in Crons, CronPublish(c) \/ CronCrash(c)
    PROVE  SystemMoves
<1>1. RowsOK /\ late' = late /\ UNCHANGED ingress /\ row' = row
  BY StandstillRows DEF CronPublish, CronCrash, lifecycleVars
<1>2. cron \in [Crons -> Cron] /\ cron' = [cron EXCEPT ![c] = NoPass]
  BY DEF PipelineInv, PipelineTypeOK, CronPublish, CronCrash
<1>3. CronKeeps(c)
  BY <1>2 DEF CronKeeps, Cron, NoPass
<1>4. QueueOK
  <2>1. jobs \in [Runs -> Nat] /\ PreparedExist
    BY DEF PipelineInv, PipelineTypeOK, PreparedExist
  <2>2. CASE CronPublish(c)
    BY <1>1, <2>1, <2>2 DEF CronPublish, QueueOK, PreparedExist
  <2>3. CASE CronCrash(c)
    BY <2>1, <2>3, QueueUnchanged DEF CronCrash
  <2>4. QED BY <2>2, <2>3
<1>5. faults' \in 0..MaxFaults
  BY FaultType DEF CronPublish, CronCrash, NoFault
<1>6. QED BY <1>1, <1>3, <1>4, <1>5, CronKeepsPrepared, SystemMovesByParts
          DEF CronKeeps

(* The webhook, beyond the creation of the row.                            *)
LEMMA IngressEffect ==
    ASSUME PipelineInv, NEW r \in Runs, IngressSend(r) \/ IngressMarkQueued(r)
    PROVE  SystemMoves
<1> USE DEF PipelineInv, PipelineTypeOK
<1>1. RowsOK /\ late' = late
  <2>1. MarkQueued(r) \/ UNCHANGED lifecycleVars
    BY DEF IngressSend, IngressMarkQueued
  <2>2. QED BY <2>1, SystemRows, StandstillRows
<1>2. row[r].status # "missing"
  BY DEF IngressSend, IngressMarkQueued, RunInv
<1>3. row'[r].status # "missing"
  BY <1>1, <1>2 DEF RowsOK, StoreStep, Advances
<1>4. QueueOK
  <2>1. UNCHANGED jobs \/ Enqueue(r, 1)
    BY DEF IngressSend, IngressMarkQueued
  <2>2. QED BY <1>3, <2>1, EnqueueOK, QueueUnchanged
<1>5. \E next \in IngressSteps : ingress' = [ingress EXCEPT ![r] = next]
  BY DEF IngressSend, IngressMarkQueued, IngressSteps
<1>6. /\ ingress' \in [Runs -> IngressSteps]
      /\ \A q \in Runs : ingress'[q] # "update"
                         => ingress[q] # "update" \/ row'[q].status # "missing"
  BY <1>3, <1>5
<1>7. cron' = cron
  BY DEF IngressSend, IngressMarkQueued
<1>8. cron' \in [Crons -> Cron] /\ PreparedExist'
  BY <1>1, <1>7, PreparedStay
<1>9. faults' \in 0..MaxFaults
  BY FaultType DEF IngressSend, IngressMarkQueued
<1>10. QED BY <1>1, <1>4, <1>6, <1>8, <1>9 DEF SystemMoves

-----------------------------------------------------------------------------
(* Each part of the invariant is kept.                                     *)
HistoryGrows ==
    \A q \in Runs : /\ accepted[q] # {} => accepted'[q] # {}
                    /\ sent[q] > 0 => sent'[q] > 0

LEMMA BystanderInv ==
    ASSUME PipelineInv, StoreStep, HistoryGrows, NEW v \in Workers,
           worker'[v] = worker[v]
    PROVE  WorkerInv(v)'
<1>1. WorkerInv(v) /\ LifecycleTypeOK /\ worker \in [Workers -> Worker]
  BY DEF PipelineInv, PipelineTypeOK
<1>2. CASE At(v, "idle")
  BY <1>2 DEF WorkerInv, At, Holding
<1>3. CASE ~At(v, "idle")
  <2>1. Run(v) \in Runs /\ Run(v)' = Run(v) /\ Token(v)' = Token(v)
    BY <1>1, <1>3 DEF WorkerInv, Run, Token
  <2> DEFINE r == Run(v)
  <2>2. Advances(r)
    BY <2>1 DEF StoreStep
  <2>3. worker[v].pc \in Holding => Token(v) \in 1..NextClaimsOf(r)
    <3>1. /\ ClaimsOf(r) <= NextClaimsOf(r)
          /\ worker[v].pc \in Holding => Token(v) \in 1..ClaimsOf(r)
      BY <1>1, <2>2 DEF Advances, WorkerInv
    <3>2. ClaimsOf(r) \in Nat /\ NextClaimsOf(r) \in Nat
      <4>1. LifecycleTypeOK'
        BY TypeStep DEF PipelineInv, PipelineTypeOK, StoreStep
      <4>2. QED BY <1>1, <2>1, <4>1 DEF LifecycleTypeOK, Row, ClaimsOf, NextClaimsOf
    <3>3. QED BY <3>1, <3>2
  <2>4. ClaimsOf(Run(v))' = NextClaimsOf(r)
    BY <2>1 DEF ClaimsOf, NextClaimsOf
  <2>5. row'[r].status # "missing"
    BY <1>1, <1>3, <2>2 DEF WorkerInv, Advances
  <2>6. QED BY <1>1, <1>3, <2>1, <2>2, <2>3, <2>4, <2>5
            DEF WorkerInv, At, Advances, HistoryGrows
<1>4. QED BY <1>2, <1>3

LEMMA ActorInv ==
    ASSUME PipelineInv, NEW w \in Workers, ~At(w, "idle"), StoreStep,
           WorkerMoves(w)
    PROVE  /\ WorkerInv(w)'
           /\ worker' \in [Workers -> Worker]
           /\ \A v \in Workers \ {w} : worker'[v] = worker[v]
           /\ worker'[w].pc \in Holding
              => /\ worker'[w].run = Run(w)
                 /\ \/ worker[w].pc \in Holding /\ worker'[w].token = Token(w)
                    \/ worker'[w].token = ClaimsOf(Run(w)) + 1
           /\ worker'[w].pc = "generate"
              => /\ worker'[w].run = Run(w)
                 /\ accepted' = accepted /\ accepted[Run(w)] = {}
<1> DEFINE r == Run(w)
<1>1. /\ Run(w) \in Runs /\ row'[Run(w)].status # "missing"
      /\ worker[w].pc \in Holding => Token(w) \in 1..ClaimsOf(Run(w))
      /\ LifecycleTypeOK
  BY Basics
<1>2. Advances(r)
  BY <1>1 DEF StoreStep
<1>3. /\ ClaimsOf(r) \in Nat /\ NextClaimsOf(r) \in Nat
      /\ ClaimsOf(r) <= NextClaimsOf(r)
  <2>1. LifecycleTypeOK'
    BY <1>1, TypeStep DEF StoreStep
  <2>2. QED BY <1>1, <1>2, <2>1
            DEF LifecycleTypeOK, Row, ClaimsOf, NextClaimsOf, Advances
<1>4. CASE Drops(w)
  BY <1>4 DEF Drops, OthersStay, WorkerInv, At, Holding
<1>5. ASSUME NEW pc \in WorkerSteps \ {"idle"}, Knows(w, pc),
             OthersStay(w), worker'[w].pc = pc, worker'[w].run = r,
             \/ /\ worker'[w].token = Token(w)
                /\ pc \in Holding => worker[w].pc \in Holding
             \/ worker'[w].token = ClaimsOf(r) + 1 /\ NextClaimsOf(r) = ClaimsOf(r) + 1
      PROVE  WorkerInv(w)'
  <2>1. Run(w)' = r /\ Token(w)' = worker'[w].token
    BY <1>5 DEF Run, Token
  <2>2. ClaimsOf(Run(w))' = NextClaimsOf(r)
    BY <2>1 DEF ClaimsOf, NextClaimsOf
  <2>3. pc \in Holding => worker'[w].token \in 1..NextClaimsOf(r)
    BY <1>1, <1>3, <1>5
  <2>4. QED BY <1>1, <1>5, <2>1, <2>2, <2>3 DEF WorkerInv, At, Knows
<1>6. ASSUME NEW pc \in WorkerSteps \ {"idle"}, Proceeds(w, pc), Knows(w, pc),
             pc \in Holding => worker[w].pc \in Holding
      PROVE  /\ OthersStay(w) /\ worker'[w].pc = pc /\ worker'[w].run = r
             /\ worker'[w].token = Token(w)
             /\ WorkerInv(w)'
  BY <1>5, <1>6 DEF Proceeds, Run, Token
<1>7. ASSUME NEW pc \in WorkerSteps \ {"idle"}, Claims(w, pc), Knows(w, pc),
             NextClaimsOf(Run(w)) = ClaimsOf(Run(w)) + 1
      PROVE  /\ OthersStay(w) /\ worker'[w].pc = pc /\ worker'[w].run = r
             /\ worker'[w].token = ClaimsOf(r) + 1
             /\ WorkerInv(w)'
  BY <1>5, <1>7 DEF Claims, Run
<1>8. CASE \E pc \in WorkerSteps \ {"idle"} :
              /\ Proceeds(w, pc)
              /\ pc \in Holding => worker[w].pc \in Holding
              /\ Knows(w, pc)
  BY <1>6, <1>8 DEF OthersStay, Knows
<1>9. CASE \E pc \in WorkerSteps \ {"idle"} :
              /\ Claims(w, pc)
              /\ NextClaimsOf(Run(w)) = ClaimsOf(Run(w)) + 1
              /\ Knows(w, pc)
  BY <1>7, <1>9 DEF OthersStay, Knows
<1>10. QED BY <1>4, <1>8, <1>9 DEF WorkerMoves

(* No two workers hold the same claim.                                     *)
TokensDiffer ==
    \A v, w \in Workers :
        /\ worker[v].pc \in Holding /\ worker[w].pc \in Holding
        /\ Run(v) = Run(w) /\ Token(v) = Token(w)
        => v = w

LEMMA ActorTokens ==
    ASSUME PipelineInv, NEW w \in Workers, ~At(w, "idle"), StoreStep,
           WorkerMoves(w)
    PROVE  TokensDiffer'
<1>1. /\ \A v \in Workers \ {w} : worker'[v] = worker[v]
      /\ worker'[w].pc \in Holding
         => /\ worker'[w].run = Run(w)
            /\ \/ worker[w].pc \in Holding /\ worker'[w].token = Token(w)
               \/ worker'[w].token = ClaimsOf(Run(w)) + 1
  BY ActorInv
<1>2. TokensDiffer
  BY DEF PipelineInv, TokensDiffer
<1>3. ASSUME NEW v \in Workers \ {w}, worker[v].pc \in Holding, Run(v) = Run(w)
      PROVE  Token(v) # ClaimsOf(Run(w)) + 1
  <2>1. Token(v) \in 1..ClaimsOf(Run(w))
    BY <1>3, Basics DEF At, Holding
  <2>2. ClaimsOf(Run(w)) \in Nat
    BY Basics DEF LifecycleTypeOK, Row, ClaimsOf
  <2>3. QED BY <2>1, <2>2
<1>4. ASSUME NEW v \in Workers \ {w},
             worker'[v].pc \in Holding, worker'[w].pc \in Holding,
             worker'[v].run = worker'[w].run, worker'[v].token = worker'[w].token
      PROVE  FALSE
  BY <1>1, <1>2, <1>3, <1>4 DEF TokensDiffer, Run, Token
<1>5. ASSUME NEW u \in Workers \ {w}, NEW v \in Workers \ {w},
             worker'[v].pc \in Holding, worker'[u].pc \in Holding,
             worker'[v].run = worker'[u].run, worker'[v].token = worker'[u].token
      PROVE  u = v
  BY <1>1, <1>2, <1>5 DEF TokensDiffer, Run, Token
<1>6. QED BY <1>4, <1>5 DEF TokensDiffer, Run, Token

LEMMA ActorReuses ==
    ASSUME PipelineInv, NEW w \in Workers, ~At(w, "idle"), StoreStep,
           WorkerMoves(w),
           \/ accepted' = accepted
           \/ At(w, "generate") /\ CommitAttempt(w)
    PROVE  LiveOwnerReusesOutcome'
<1>1. /\ \A v \in Workers \ {w} : worker'[v] = worker[v]
      /\ worker'[w].pc = "generate"
         => /\ worker'[w].run = Run(w)
            /\ accepted' = accepted /\ accepted[Run(w)] = {}
  BY ActorInv
<1>2. ASSUME NEW v \in Workers \ {w}, worker[v].pc = "generate",
             OwnsNext(Run(v), Token(v))
      PROVE  accepted'[Run(v)] = {}
  <2>1. /\ Run(v) \in Runs /\ Token(v) \in 1..ClaimsOf(Run(v))
        /\ worker[v].pc \in Holding
    BY <1>2, Basics DEF At, Holding, WorkerSteps
  <2>2. Owns(Run(v), Token(v), "processing")
    BY <1>2, <2>1 DEF StoreStep, Advances
  <2>3. accepted[Run(v)] = {}
    BY <1>2, <2>2 DEF PipelineInv, LiveOwnerReusesOutcome, At
  <2>4. CASE At(w, "generate") /\ CommitAttempt(w)
    <3>1. row[Run(w)].leaseToken = Token(w) /\ worker[w].pc \in Holding
      BY <2>4 DEF CommitAttempt, Owns, At, Holding, WorkerSteps
    <3>2. Run(v) # Run(w)
      BY <2>1, <2>2, <3>1 DEF PipelineInv, Owns
    <3>3. QED BY <2>1, <2>3, <2>4, <3>2
              DEF CommitAttempt, PipelineInv, PipelineTypeOK
  <2>5. QED BY <2>3, <2>4
<1>3. ASSUME NEW v \in Workers, worker'[v].pc = "generate",
             OwnsNext(worker'[v].run, worker'[v].token)
      PROVE  accepted'[worker'[v].run] = {}
  BY <1>1, <1>2, <1>3 DEF Run, Token
<1>4. QED BY <1>3 DEF LiveOwnerReusesOutcome, At, Run, Token, Owns, OwnsNext

LEMMA RunKept ==
    ASSUME PipelineInv, StoreStep, QueueOK, HistoryGrows, NEW r \in Runs,
           row'[r].summary => row[r].summary \/ accepted[r] # {},
           row'[r].status = "completed" => row[r].status = "completed" \/ sent[r] > 0,
           \A e \in Runs : RunOrder(e, r) /\ row'[r].status # "missing"
                           => row'[e].status # "missing",
           \A a, b \in accepted'[r] : a = b,
           accepted'[r] # {} => accepted[r] # {} \/ row[r].attempt > 0,
           sent'[r] > 0 => sent[r] > 0 \/ row[r].summary,
           ingress'[r] # "update" => ingress[r] # "update" \/ row'[r].status # "missing"
    PROVE  RunInv(r)'
<1>1. RunInv(r) /\ Advances(r)
  BY DEF PipelineInv, StoreStep
<1>2. accepted'[r] # {} => row'[r].attempt > 0
  <2>1. row[r].attempt \in Nat /\ row'[r].attempt \in Nat
    <3>1. LifecycleTypeOK /\ LifecycleTypeOK'
      BY TypeStep DEF PipelineInv, PipelineTypeOK, StoreStep
    <3>2. QED BY <3>1 DEF LifecycleTypeOK, Row
  <2>2. QED BY <1>1, <2>1 DEF RunInv, Advances
<1>3. row'[r].summary => accepted'[r] # {}
  BY <1>1 DEF RunInv, HistoryGrows
<1>4. sent'[r] > 0 => row'[r].summary
  BY <1>1 DEF RunInv, Advances
<1>5. row'[r].status = "completed" => sent'[r] > 0
  BY <1>1 DEF RunInv, HistoryGrows
<1>6. ingress'[r] # "update" \/ jobs'[r] > 0 => row'[r].status # "missing"
  BY <1>1 DEF RunInv, QueueOK, Advances
<1>7. QED BY <1>2, <1>3, <1>4, <1>5, <1>6 DEF RunInv, RunOrder

LEMMA RowsOrder ==
    ASSUME PipelineInv, RowsOK, NEW r \in Runs
    PROVE  \A e \in Runs : RunOrder(e, r) /\ row'[r].status # "missing"
                           => row'[e].status # "missing"
BY DEF PipelineInv, RunInv, RowsOK, StoreStep, Advances

LEMMA StoreInvKept ==
    ASSUME PipelineInv, StoreStep
    PROVE  LifecycleInv' /\ LifecycleTypeOK'
<1>1. LifecycleInv'
  BY InvStep DEF PipelineInv, StoreStep
<1>2. QED BY <1>1 DEF LifecycleInv

(* The steps of a worker keep the invariant.                               *)
LEMMA WorkerKeeps ==
    ASSUME PipelineInv, NEW w \in Workers, WorkerStep(w)
    PROVE  PipelineInv'
<1>1. /\ ~At(w, "idle") /\ RowsOK /\ late' = late /\ QueueOK
      /\ UNCHANGED <<ingress, cron>> /\ WorkerMoves(w) /\ StoreStep
  BY WorkerEffect DEF Effect, RowsOK
<1>2. /\ \/ accepted' = accepted
         \/ At(w, "generate") /\ CommitAttempt(w)
      /\ \/ sent' = sent
         \/ At(w, "send") /\ sent' = [sent EXCEPT ![Run(w)] = @ + 1]
      /\ generated' \in [Runs -> Nat]
      /\ faults' \in 0..MaxFaults
  BY WorkerHistory
<1>3. /\ Run(w) \in Runs /\ WorkerInv(w) /\ PipelineTypeOK
  BY <1>1, Basics DEF PipelineInv
<1>4. /\ accepted' \in [Runs -> SUBSET Nat]
      /\ \A q \in Runs : /\ accepted[q] # {} => accepted'[q] # {}
                         /\ accepted'[q] # {} => accepted[q] # {} \/ row[q].attempt > 0
                         /\ \A a, b \in accepted'[q] : a = b
  <2>1. CASE accepted' = accepted
    BY <1>3, <2>1 DEF PipelineTypeOK, PipelineInv, RunInv
  <2>2. CASE At(w, "generate") /\ CommitAttempt(w)
    <3>1. /\ accepted' = [accepted EXCEPT ![Run(w)] = {worker[w].attempt}]
          /\ row[Run(w)].attempt > 0
      BY <2>2, CommitFacts
    <3>2. worker[w].attempt \in Nat
      BY <1>3 DEF PipelineTypeOK, Worker
    <3>3. QED BY <1>3, <3>1, <3>2 DEF PipelineTypeOK, PipelineInv, RunInv
  <2>3. QED BY <1>2, <2>1, <2>2
<1>5. /\ sent' \in [Runs -> Nat]
      /\ \A q \in Runs : /\ sent[q] > 0 => sent'[q] > 0
                         /\ sent'[q] > 0 => sent[q] > 0 \/ row[q].summary
  <2>1. CASE sent' = sent
    BY <1>3, <2>1 DEF PipelineTypeOK
  <2>2. CASE At(w, "send") /\ sent' = [sent EXCEPT ![Run(w)] = @ + 1]
    BY <1>3, <2>2 DEF PipelineTypeOK, WorkerInv
  <2>3. QED BY <1>2, <2>1, <2>2
<1>6. HistoryGrows
  BY <1>4, <1>5 DEF HistoryGrows
<1>7. \A r \in Runs : RunInv(r)'
  BY <1>1, <1>4, <1>5, <1>6, RowsOrder, RunKept DEF RowsOK
<1>8. /\ worker' \in [Workers -> Worker]
      /\ \A v \in Workers : WorkerInv(v)'
  <2>1. /\ WorkerInv(w)' /\ worker' \in [Workers -> Worker]
        /\ \A v \in Workers \ {w} : worker'[v] = worker[v]
    BY <1>1, ActorInv
  <2>2. \A v \in Workers \ {w} : WorkerInv(v)'
    BY <1>1, <1>6, <2>1, BystanderInv
  <2>3. QED BY <2>1, <2>2
<1>9. TokensDiffer' /\ LiveOwnerReusesOutcome'
  BY <1>1, <1>2, ActorTokens, ActorReuses
<1>10. LifecycleInv' /\ LifecycleTypeOK'
  BY <1>1, StoreInvKept
<1>11. PreparedExist' /\ cron' \in [Crons -> Cron] /\ late' = {}
       /\ ingress' \in [Runs -> IngressSteps]
  BY <1>1, <1>3, PreparedStay DEF PipelineTypeOK, PipelineInv
<1>12. PipelineTypeOK'
  BY <1>1, <1>2, <1>4, <1>5, <1>8, <1>10, <1>11 DEF PipelineTypeOK, QueueOK
<1>13. QED BY <1>7, <1>8, <1>9, <1>10, <1>11, <1>12
           DEF PipelineInv, TokensDiffer, PreparedExist

(* If the workers and the ledger stand still, so do their parts.           *)
LEMMA StandstillWorkers ==
    ASSUME PipelineInv, StoreStep, worker' = worker, UNCHANGED history
    PROVE  /\ \A v \in Workers : WorkerInv(v)'
           /\ TokensDiffer' /\ LiveOwnerReusesOutcome'
<1>1. HistoryGrows
  BY DEF HistoryGrows, history
<1>2. \A v \in Workers : WorkerInv(v)'
  BY <1>1, BystanderInv
<1>3. TokensDiffer'
  BY DEF PipelineInv, TokensDiffer, Run, Token
<1>4. ASSUME NEW v \in Workers, worker[v].pc = "generate",
             OwnsNext(Run(v), Token(v))
      PROVE  accepted[Run(v)] = {}
  <2>1. Run(v) \in Runs /\ Token(v) \in 1..ClaimsOf(Run(v))
    BY <1>4, Basics DEF At, Holding, WorkerSteps
  <2>2. Owns(Run(v), Token(v), "processing")
    BY <1>4, <2>1 DEF StoreStep, Advances
  <2>3. QED BY <1>4, <2>2 DEF PipelineInv, LiveOwnerReusesOutcome, At
<1>5. LiveOwnerReusesOutcome'
  BY <1>4 DEF LiveOwnerReusesOutcome, At, Run, Token, Owns, OwnsNext, history
<1>6. QED BY <1>2, <1>3, <1>5

LEMMA SystemKeeps ==
    ASSUME PipelineInv, SystemMoves, UNCHANGED history,
           worker' \in [Workers -> Worker],
           \A v \in Workers : WorkerInv(v)',
           TokensDiffer', LiveOwnerReusesOutcome'
    PROVE  PipelineInv'
<1>1. /\ RowsOK /\ StoreStep /\ QueueOK /\ late' = late
      /\ ingress' \in [Runs -> IngressSteps]
      /\ \A q \in Runs : ingress'[q] # "update"
                         => ingress[q] # "update" \/ row'[q].status # "missing"
      /\ cron' \in [Crons -> Cron] /\ PreparedExist' /\ faults' \in 0..MaxFaults
  BY DEF SystemMoves, RowsOK
<1>2. accepted' = accepted /\ generated' = generated /\ sent' = sent
  BY DEF history
<1>3. HistoryGrows
  BY <1>2 DEF HistoryGrows
<1>4. \A r \in Runs : RunInv(r) /\ sent \in [Runs -> Nat]
  BY DEF PipelineInv, PipelineTypeOK
<1>5. \A r \in Runs : RunInv(r)'
  <2> TAKE r \in Runs
  <2>1. \A a, b \in accepted'[r] : a = b
    BY <1>2, <1>4 DEF RunInv
  <2>2. QED BY <1>1, <1>2, <1>3, <2>1, RowsOrder, RunKept DEF RowsOK
<1>6. LifecycleInv' /\ LifecycleTypeOK'
  BY <1>1, StoreInvKept
<1>7. PipelineTypeOK'
  BY <1>1, <1>2, <1>6 DEF PipelineInv, PipelineTypeOK, QueueOK
<1>8. late' = {}
  BY <1>1 DEF PipelineInv
<1>9. QED BY <1>1, <1>5, <1>6, <1>7, <1>8
          DEF PipelineInv, TokensDiffer, PreparedExist

LEMMA TakeKeeps ==
    ASSUME PipelineInv, NEW w \in Workers, NEW r \in Runs, Take(w, r)
    PROVE  PipelineInv'
<1>1. /\ SystemMoves /\ StoreStep
      /\ worker' \in [Workers -> Worker]
      /\ \A v \in Workers \ {w} : worker'[v] = worker[v]
      /\ worker'[w].pc = "get" /\ worker'[w].run = r
      /\ row'[r].status # "missing"
  BY TakeEffect DEF OthersStay, SystemMoves, RowsOK
<1>2. UNCHANGED history /\ UNCHANGED lifecycleVars
  BY DEF Take
<1>3. HistoryGrows
  BY <1>2 DEF HistoryGrows, history
<1>4. WorkerInv(w)'
  BY <1>1 DEF WorkerInv, At, Run, Holding
<1>5. \A v \in Workers : WorkerInv(v)'
  BY <1>1, <1>3, <1>4, BystanderInv
<1>6. worker'[w].pc \notin Holding \cup {"generate"}
  BY <1>1 DEF Holding
<1>7. TokensDiffer'
  BY <1>1, <1>6 DEF PipelineInv, TokensDiffer, Run, Token
<1>8. LiveOwnerReusesOutcome'
  <2>1. row' = row /\ accepted' = accepted
    BY <1>2 DEF history, lifecycleVars
  <2>2. \A v \in Workers : worker'[v].pc = "generate" => worker'[v] = worker[v]
    BY <1>1, <1>6
  <2>3. QED BY <2>1, <2>2
            DEF PipelineInv, LiveOwnerReusesOutcome, At, Run, Token, Owns
<1>9. QED BY <1>1, <1>2, <1>5, <1>7, <1>8, SystemKeeps

LEMMA StillWorkersKeep ==
    ASSUME PipelineInv, SystemMoves, worker' = worker, UNCHANGED history
    PROVE  PipelineInv'
<1>1. worker' \in [Workers -> Worker]
  BY DEF PipelineInv, PipelineTypeOK
<1>2. QED BY <1>1, StandstillWorkers, SystemKeeps DEF SystemMoves, RowsOK

(* The webhook records the command: rows of a chat appear in their order.  *)
LEMMA CreateKeeps ==
    ASSUME PipelineInv, NEW r \in Runs, IngressCreate(r)
    PROVE  PipelineInv'
<1>t. PipelineTypeOK /\ LifecycleTypeOK /\ LifecycleInv /\ RowInv(r)
  BY DEF PipelineInv, PipelineTypeOK, LifecycleInv
<1>1. /\ UNCHANGED <<jobs, worker, cron>> /\ UNCHANGED history
      /\ NoFault \/ Fault
      /\ ingress' = [ingress EXCEPT ![r] = "send"] \/ UNCHANGED ingress
  BY DEF IngressCreate
<1>2. /\ ingress' \in [Runs -> IngressSteps]
      /\ \A q \in Runs \ {r} : ingress'[q] = ingress[q]
  BY <1>1, <1>t DEF PipelineTypeOK, IngressSteps
<1>3. faults' \in 0..MaxFaults
  BY <1>1, FaultType
<1>4. QueueOK
  BY <1>1, <1>t, QueueUnchanged DEF PipelineTypeOK
<1>5. CASE row[r].status # "missing" /\ UNCHANGED lifecycleVars
  <2>1. RowsOK /\ late' = late /\ row' = row
    BY <1>5, StandstillRows DEF lifecycleVars
  <2>2. cron' \in [Crons -> Cron] /\ PreparedExist'
    BY <1>1, <2>1, PreparedStay
  <2>3. SystemMoves
    BY <1>2, <1>3, <1>4, <1>5, <2>1, <2>2 DEF SystemMoves
  <2>4. QED BY <1>1, <2>3, StillWorkersKeep
<1>6. CASE Create(r)
  <2>1. row[r].status = "missing"
    BY <1>6 DEF Create
  <2>2. RunStep(r)
    BY <1>6, StatementsAreSteps
  <2>3. Advances(r) /\ row'[r].status = "created" /\ ~row'[r].summary
    <3>1. row'[r].status # "missing"
      BY <1>6, <1>t DEF Create, NoRow, LifecycleTypeOK
    <3>2. QED BY <1>6, <1>t, <2>1, <3>1, SystemEffect DEF Quiet
  <2>4. StoreStep /\ \A q \in Runs \ {r} : row'[q] = row[q]
    BY <1>t, <2>2, <2>3, Everywhere
  <2>5. late' = {}
    <3>1. ASSUME NEW l \in Runs, RunOrder(r, l), row[l].status # "missing"
          PROVE  FALSE
      BY <2>1, <3>1 DEF PipelineInv, RunInv
    <3>2. QED BY <1>6, <3>1 DEF Create, PipelineInv
  <2>6. HistoryGrows
    BY <1>1 DEF HistoryGrows, history
  <2>7. ASSUME NEW q \in Runs
        PROVE  \A e \in Runs : RunOrder(e, q) /\ row'[q].status # "missing"
                               => row'[e].status # "missing"
    <3>1. CASE q = r
      <4>1. ASSUME NEW e \in Runs, RunOrder(e, r)
            PROVE  row[e].status # "missing"
        <5>1. ingress[e] # "update"
          BY <4>1 DEF IngressCreate
        <5>2. QED BY <5>1 DEF PipelineInv, RunInv
      <4>2. QED BY <2>4, <3>1, <4>1 DEF StoreStep, Advances
    <3>2. CASE q # r
      BY <2>4, <3>2 DEF PipelineInv, RunInv, StoreStep, Advances
    <3>3. QED BY <3>1, <3>2
  <2>8. \A q \in Runs : RunInv(q)'
    <3> TAKE q \in Runs
    <3>1. RunInv(q) /\ sent \in [Runs -> Nat]
      BY <1>t DEF PipelineInv, PipelineTypeOK
    <3>2. accepted' = accepted /\ sent' = sent
      BY <1>1 DEF history
    <3>3. /\ row'[q].summary => row[q].summary
          /\ row'[q].status = "completed" => row[q].status = "completed"
          /\ ingress'[q] # "update"
             => ingress[q] # "update" \/ row'[q].status # "missing"
      BY <1>2, <2>3, <2>4
    <3>4. \A a, b \in accepted'[q] : a = b
      BY <3>1, <3>2 DEF RunInv
    <3>5. QED BY <1>4, <2>4, <2>6, <2>7, <3>2, <3>3, <3>4, RunKept
  <2>9. /\ \A v \in Workers : WorkerInv(v)'
        /\ TokensDiffer' /\ LiveOwnerReusesOutcome'
    BY <1>1, <2>4, StandstillWorkers
  <2>10. LifecycleInv' /\ LifecycleTypeOK'
    BY <2>4, StoreInvKept
  <2>11. PreparedExist'
    <3>1. PreparedExist /\ cron' = cron /\ \A c \in Crons : cron[c].prepared \subseteq Runs
      BY <1>1, <1>t DEF PipelineInv, PreparedExist, PipelineTypeOK, Cron
    <3>2. QED BY <2>4, <3>1 DEF PreparedExist, StoreStep, Advances
  <2>12. PipelineTypeOK'
    BY <1>1, <1>2, <1>3, <1>t, <2>10 DEF PipelineTypeOK, history
  <2>13. QED BY <2>5, <2>8, <2>9, <2>10, <2>11, <2>12
             DEF PipelineInv, TokensDiffer, PreparedExist
<1>7. QED BY <1>5, <1>6 DEF IngressCreate

(* Every step keeps the invariant, and is a statement of the store or      *)
(* leaves the store alone.                                                 *)
LEMMA PipelineStep ==
    PipelineInv /\ [Next]_vars => PipelineInv' /\ [LifecycleNext]_lifecycleVars
<1> SUFFICES ASSUME PipelineInv, [Next]_vars
             PROVE  PipelineInv' /\ [LifecycleNext]_lifecycleVars
  OBVIOUS
<1>s. SystemMoves => [LifecycleNext]_lifecycleVars
  BY DEF SystemMoves, RowsOK, StoreStep
<1>1. CASE UNCHANGED vars
  <2>1. /\ UNCHANGED lifecycleVars /\ UNCHANGED environment
        /\ UNCHANGED history /\ worker' = worker /\ faults' = faults
    BY <1>1 DEF vars, lifecycleVars, environment, history
  <2>2. RowsOK /\ late' = late /\ row' = row
    BY <2>1, StandstillRows DEF lifecycleVars
  <2>3. QueueOK
    BY <2>1, QueueUnchanged DEF PipelineInv, PipelineTypeOK, environment
  <2>4. cron' \in [Crons -> Cron] /\ PreparedExist'
    BY <2>1, <2>2, PreparedStay DEF environment
  <2>5. SystemMoves
    BY <2>1, <2>2, <2>3, <2>4, SystemMovesByParts
       DEF environment, PipelineInv, PipelineTypeOK
  <2>6. QED BY <1>s, <2>1, <2>5, StillWorkersKeep
<1>2. ASSUME NEW r \in Runs, IngressStep(r)
      PROVE  PipelineInv' /\ [LifecycleNext]_lifecycleVars
  <2>1. CASE IngressCreate(r)
    <3>1. Create(r) \/ UNCHANGED lifecycleVars
      BY <2>1 DEF IngressCreate
    <3>2. [LifecycleNext]_lifecycleVars
      BY <3>1, StatementsAreSteps DEF LifecycleNext
    <3>3. QED BY <2>1, <3>2, CreateKeeps
  <2>2. CASE IngressSend(r) \/ IngressMarkQueued(r)
    <3>1. worker' = worker /\ UNCHANGED history
      BY <2>2 DEF IngressSend, IngressMarkQueued
    <3>2. QED BY <1>s, <2>2, <3>1, IngressEffect, StillWorkersKeep
  <2>3. QED BY <1>2, <2>1, <2>2 DEF IngressStep
<1>3. ASSUME NEW r \in Runs, LeasePasses(r) \/ DeadlinePasses(r)
      PROVE  PipelineInv' /\ [LifecycleNext]_lifecycleVars
  <2>1. worker' = worker /\ UNCHANGED history
    BY <1>3 DEF LeasePasses, DeadlinePasses
  <2>2. QED BY <1>s, <1>3, <2>1, TimeEffect, StillWorkersKeep
<1>4. ASSUME NEW w \in Workers, NEW r \in Runs, Take(w, r)
      PROVE  PipelineInv' /\ [LifecycleNext]_lifecycleVars
  BY <1>s, <1>4, TakeEffect, TakeKeeps
<1>5. ASSUME NEW w \in Workers, WorkerStep(w)
      PROVE  PipelineInv' /\ [LifecycleNext]_lifecycleVars
  BY <1>5, WorkerEffect, WorkerKeeps DEF Effect, RowsOK, StoreStep
<1>6. ASSUME NEW c \in Crons, CronStep(c) \/ CronCrash(c)
      PROVE  PipelineInv' /\ [LifecycleNext]_lifecycleVars
  <2>1. worker' = worker /\ UNCHANGED history
    BY <1>6 DEF CronStep, CronScan, CronPrepare, CronRequeueExpired, CronPublish,
                CronCrash
  <2>2. SystemMoves
    BY <1>6, CronScanEffect, CronPrepareEffect, CronRequeueExpiredEffect,
       CronEndEffect DEF CronStep
  <2>3. QED BY <1>s, <2>1, <2>2, StillWorkersKeep
<1>7. QED BY <1>1, <1>2, <1>3, <1>4, <1>5, <1>6 DEF Next, WorkerStep

LEMMA PipelineInitInv == Init => PipelineInv
<1> SUFFICES ASSUME Init PROVE PipelineInv
  OBVIOUS
<1>1. LifecycleInv /\ LifecycleTypeOK /\ late = {}
  BY InitInv DEF Init, LifecycleInit, LifecycleInv
<1>2. PipelineTypeOK
  BY <1>1, BudgetsAssumption
     DEF Init, PipelineTypeOK, IngressSteps, Worker, WorkerSteps, NoJob, Cron,
         NoPass, Null
<1>3. \A r \in Runs : RunInv(r)
  <2> TAKE r \in Runs
  <2>1. /\ row[r] = NoRow /\ accepted[r] = {} /\ sent[r] = 0
        /\ ingress[r] = "update" /\ jobs[r] = 0
    BY DEF Init, LifecycleInit
  <2>2. row[r].status = "missing" /\ ~row[r].summary
    BY <2>1 DEF NoRow
  <2>3. QED BY <2>1, <2>2 DEF RunInv
<1>4. \A w \in Workers : worker[w].pc = "idle"
  BY DEF Init, NoJob
<1>5. \A w \in Workers : WorkerInv(w)
  BY <1>4 DEF WorkerInv, At, Holding
<1>6. LiveOwnerReusesOutcome
  BY <1>4 DEF LiveOwnerReusesOutcome, At
<1>7. \A c \in Crons : cron[c].prepared = {}
  BY DEF Init, NoPass
<1>8. QED BY <1>1, <1>2, <1>3, <1>4, <1>5, <1>6, <1>7 DEF PipelineInv, Holding

-----------------------------------------------------------------------------
(* The inductive invariant: what every invocation knows stays true however *)
(* long it pauses, and the row, the ledger, the queue and the chat agree.  *)
THEOREM PipelineInvariant == PipelineSpec => []PipelineInv
BY PipelineInitInv, PipelineStep, PTL DEF PipelineSpec

(* Type correctness of the whole pipeline.                                 *)
THEOREM PipelineTypeCorrect == PipelineSpec => []PipelineTypeOK
<1>1. PipelineInv => PipelineTypeOK
  BY DEF PipelineInv
<1>2. QED BY <1>1, PipelineInvariant, PTL

(* The webhook, the processors and the cron use the store as its module    *)
(* allows: every theorem about the store holds in the pipeline.            *)
THEOREM PipelineRefines == PipelineSpec => LifecycleSpec
<1>1. Init => LifecycleInit
  BY DEF Init
<1>2. QED BY <1>1, PipelineStep, PipelineInvariant, PTL
          DEF PipelineSpec, LifecycleSpec

(* Seen from the chat, the whole pipeline keeps the contract.              *)
THEOREM PipelineContract == PipelineSpec => ContractSpec
BY PipelineRefines, Refinement

(* INV-05, INV-08: one outcome per command at most enters the ledger.      *)
THEOREM OneOutcome == PipelineSpec => []OneAcceptedOutcome
<1>1. PipelineInv => OneAcceptedOutcome
  <2> SUFFICES ASSUME PipelineInv, NEW r \in Runs
               PROVE  Cardinality(accepted[r]) <= 1
    BY DEF OneAcceptedOutcome
  <2>1. CASE accepted[r] = {}
    BY <2>1, FS_EmptySet
  <2>2. CASE accepted[r] # {}
    <3>1. PICK a : a \in accepted[r]
      BY <2>2
    <3>2. accepted[r] = {a}
      BY <3>1 DEF PipelineInv, RunInv
    <3>3. Cardinality({a}) = 1
      BY FS_Singleton
    <3>4. QED BY <3>2, <3>3
  <2>3. QED BY <2>1, <2>2
<1>2. QED BY <1>1, PipelineInvariant, PTL

(* INV-09: ledger, then text, then chat.                                   *)
THEOREM TextAfterOutcome == PipelineSpec => []OutcomePrecedesText
<1>1. PipelineInv => OutcomePrecedesText
  BY DEF PipelineInv, RunInv, OutcomePrecedesText
<1>2. QED BY <1>1, PipelineInvariant, PTL

(* INV-09: the holder of the lease reuses an outcome that exists.          *)
THEOREM OwnerReuses == PipelineSpec => []LiveOwnerReusesOutcome
<1>1. PipelineInv => LiveOwnerReusesOutcome
  BY DEF PipelineInv
<1>2. QED BY <1>1, PipelineInvariant, PTL

(* INV-11: a completed command was delivered.                              *)
THEOREM CompletedIsDelivered == PipelineSpec => []DeliveredWhenCompleted
<1>1. PipelineInv => DeliveredWhenCompleted
  BY DEF PipelineInv, RunInv, DeliveredWhenCompleted
<1>2. QED BY <1>1, PipelineInvariant, PTL

(* A job leaves the queue without a successor only for a finished run.     *)
THEOREM AcknowledgedIsSettled == PipelineSpec => []AckedWhenSettled
<1>1. PipelineInv => AckedWhenSettled
  BY DEF PipelineInv, WorkerInv, AckedWhenSettled
<1>2. QED BY <1>1, PipelineInvariant, PTL

(* The index on processing rows never rejects a claim that passed the      *)
(* check of earlier runs: a later run in processing would have to have     *)
(* overtaken this one.                                                     *)
THEOREM IndexIdle == PipelineSpec => []IndexNeverRejects
<1>1. PipelineInv => IndexNeverRejects
  <2> SUFFICES ASSUME PipelineInv, NEW r \in Runs, ProcessingClaimable(r),
                      NoEarlierRunInProcessing(r),
                      NEW o \in Runs \ {r}, ChatOf[o] = ChatOf[r],
                      row[o].status = "processing"
               PROVE  FALSE
    BY DEF IndexNeverRejects, ChatHasNoOtherProcessing
  <2>1. InProcessingStage(r) /\ InProcessingStage(o)
    BY DEF ProcessingClaimable, InProcessingStage
  <2>2. RunOrder(r, o)
    BY <2>1, RunsAssumption DEF NoEarlierRunInProcessing
  <2>3. row[o].attempt > 0
    BY DEF PipelineInv, LifecycleInv, RowInv
  <2>4. row[r].status # "missing"
    BY <2>1 DEF InProcessingStage
  <2>5. QED BY <2>1, <2>2, <2>3, <2>4 DEF PipelineInv, LifecycleInv, NoOvertaking
<1>2. QED BY <1>1, PipelineInvariant, PTL

(* Once a command has its outcome no earlier command of the chat gets one. *)
THEOREM ChatOrder == PipelineSpec => OutcomesInChatOrder
<1> DEFINE A == \A e, r \in Runs :
          RunOrder(e, r) /\ accepted[r] # {} => accepted'[e] = accepted[e]
<1>1. PipelineInv /\ [Next]_vars => [A]_vars
  <2> SUFFICES ASSUME PipelineInv, Next, NEW e \in Runs, NEW r \in Runs,
                      RunOrder(e, r), accepted[r] # {}
               PROVE  accepted'[e] = accepted[e]
    OBVIOUS
  <2>1. ASSUME NEW w \in Workers, At(w, "generate"), CommitAttempt(w)
        PROVE  accepted'[e] = accepted[e]
    <3>1. CASE Run(w) = e
      <4>1. row[e].status = "processing"
        BY <2>1, <3>1 DEF CommitAttempt, Owns
      <4>2. InProcessingStage(e) /\ row[e].status # "missing"
        BY <4>1 DEF InProcessingStage
      <4>3. row[r].attempt > 0
        BY DEF PipelineInv, RunInv
      <4>4. FALSE
        BY <4>2, <4>3 DEF PipelineInv, LifecycleInv, NoOvertaking
      <4>5. QED BY <4>4
    <3>2. CASE Run(w) # e
      BY <2>1, <3>2 DEF CommitAttempt, PipelineInv, PipelineTypeOK
    <3>3. QED BY <3>1, <3>2
  <2>2. ASSUME NEW w \in Workers, WorkerStep(w)
        PROVE  accepted'[e] = accepted[e]
    BY <2>1, <2>2, WorkerHistory
  <2>3. CASE accepted' = accepted
    BY <2>3
  <2>4. ASSUME NEW q \in Runs, IngressStep(q)
        PROVE  accepted' = accepted
    BY <2>4 DEF IngressStep, IngressCreate, IngressSend, IngressMarkQueued, history
  <2>5. ASSUME NEW q \in Runs, \/ LeasePasses(q) \/ DeadlinePasses(q)
                               \/ \E w \in Workers : Take(w, q)
        PROVE  accepted' = accepted
    BY <2>5 DEF LeasePasses, DeadlinePasses, Take, history
  <2>6. ASSUME NEW c \in Crons, CronStep(c) \/ CronCrash(c)
        PROVE  accepted' = accepted
    <3>1. UNCHANGED history
      BY <2>6 DEF CronStep, CronScan, CronPrepare, CronRequeueExpired,
                  CronPublish, CronCrash
    <3>2. QED BY <3>1 DEF history
  <2>7. QED BY <2>2, <2>3, <2>4, <2>5, <2>6 DEF Next, WorkerStep
<1>2. QED BY <1>1, PipelineInvariant, PTL DEF PipelineSpec, OutcomesInChatOrder

-----------------------------------------------------------------------------
(***************************************************************************)
(* Budgets.  For one run, who is where and what is still owed.             *)
(***************************************************************************)
Here(r, places) == {w \in Workers : Run(w) = r /\ worker[w].pc \in places}

Computing(r) == Here(r, {"lookup", "generate"})
Sending(r)   == Here(r, {"send"})

(* Senders that lost their lease: each of them cost a fault, and its message *)
(* may still reach the chat.                                                 *)
Stray(r) == {w \in Sending(r) : ~Owns(r, Token(w), "delivering")}

(* The run is over, or a worker at that place, which owns it, will end it    *)
(* unless a fault stops it.                                                  *)
Closing(r, pc, stage) ==
    \/ row[r].status \in Terminal
    \/ \E w \in Here(r, {pc}) : Owns(r, Token(w), stage)

(* A streamed text may still be committed by the worker that stored it; the  *)
(* commit does not look at the budget and may cost one claim more, once.     *)
Unstreamed(r) == ~row[r].summary \/ Here(r, {"claimReady"}) # {}
Extra(r) == IF Unstreamed(r) THEN 0 ELSE 1

Settling(r) == IF Closing(r, "complete", "delivering") THEN 1 ELSE 0

StreamInv(r) ==
    /\ \A v, w \in Here(r, {"claimReady"}) : v = w
    /\ Here(r, {"claimReady"}) # {} => row[r].summary
    /\ row[r].deliveryAttempt > 0 => row[r].summary

SpentInv(r) ==
    row[r].attempt > MAX_ATTEMPTS =>
      /\ ~row[r].summary
      /\ \A w \in Workers :
            /\ Run(w) = r /\ worker[w].pc \in Holding
            /\ Owns(r, Token(w), "processing")
            => At(w, "exhausted")

ProcessingClaims(r) ==
    \/ row[r].attempt <= MAX_ATTEMPTS + faults
    \/ /\ row[r].attempt <= MAX_ATTEMPTS + faults + 1
       /\ Closing(r, "exhausted", "processing")

DeliveryClaims(r) ==
    \/ row[r].deliveryAttempt <= MAX_DELIVERY_ATTEMPTS + faults + Extra(r)
    \/ /\ row[r].deliveryAttempt <= MAX_DELIVERY_ATTEMPTS + faults + Extra(r) + 1
       /\ Closing(r, "undeliverable", "delivering")

Computations(r) ==
    /\ IsFiniteSet(Computing(r))
    /\ generated[r] + Cardinality(Computing(r)) <= row[r].attempt
    /\ generated[r] + Cardinality(Computing(r)) <= MAX_ATTEMPTS

Messages(r) ==
    /\ IsFiniteSet(Sending(r))
    /\ sent[r] + Cardinality(Sending(r)) <= row[r].deliveryAttempt + Extra(r)
    /\ sent[r] + Cardinality(Sending(r)) <= MAX_DELIVERY_ATTEMPTS + Extra(r)

Duplicates(r) == sent[r] + Cardinality(Stray(r)) <= faults + Settling(r)

BudgetInv(r) ==
    /\ StreamInv(r)
    /\ SpentInv(r)
    /\ ProcessingClaims(r)
    /\ DeliveryClaims(r)
    /\ Computations(r)
    /\ Messages(r)
    /\ Duplicates(r)

-----------------------------------------------------------------------------
(* What a statement does to the leases and the counters of its row.          *)
OwnsAfter(r, token, stage) == /\ row'[r].status = stage
                              /\ row'[r].leaseToken = token
                              /\ row'[r].leaseExpiresAt = "future"

SameClaims(r) == /\ row'[r].attempt = row[r].attempt
                 /\ row'[r].deliveryAttempt = row[r].deliveryAttempt

NoClaim(r) == SameClaims(r) /\ row'[r].summary = row[r].summary

LeaseStays(r, token) ==
    \A stage \in Leased : OwnsAfter(r, token, stage) <=> Owns(r, token, stage)

(* Of the statements that need no lease only the clock takes one away.       *)
LEMMA SystemLeases ==
    ASSUME LifecycleTypeOK, NEW r \in Runs, RowInv(r),
           \/ Create(r) \/ MarkQueued(r) \/ RequeueRetry(r) \/ ReEnqueue(r)
           \/ \E stage \in Leased : ExpireLease(r, stage)
           \/ RetryFallsDue(r) \/ GoesStale(r)
    PROVE  NoClaim(r) /\ \A token \in Nat : LeaseStays(r, token)
<1> DEFINE Goal == NoClaim(r) /\ \A token \in Nat : LeaseStays(r, token)
<1>b. /\ row[r] \in Row
      /\ row \in [Runs -> Row]
  BY DEF LifecycleTypeOK
<1> USE DEF NoClaim, SameClaims, LeaseStays, OwnsAfter, Owns, Leased
<1>1. ASSUME Create(r) PROVE Goal
  <2>1. row[r] = NoRow /\ row'[r] = [NoRow EXCEPT !.status = "created"]
    BY <1>1, <1>b DEF Create, RowInv
  <2>2. QED BY <2>1 DEF NoRow, Null
<1>2. ASSUME MarkQueued(r) \/ RequeueRetry(r) PROVE Goal
  BY <1>2, <1>b DEF MarkQueued, RequeueRetry, Transition, Row
<1>3. ASSUME ReEnqueue(r) PROVE Goal
  BY <1>3, <1>b DEF ReEnqueue, Touch, Row
<1>4. ASSUME NEW stage \in Leased, ExpireLease(r, stage) PROVE Goal
  BY <1>4, <1>b DEF ExpireLease, Reached, Row
<1>5. ASSUME RetryFallsDue(r) PROVE Goal
  BY <1>5, <1>b DEF RetryFallsDue, Row
<1>6. ASSUME GoesStale(r) PROVE Goal
  BY <1>6, <1>b DEF GoesStale, Row
<1>7. QED BY <1>1, <1>2, <1>3, <1>4, <1>5, <1>6

\* A lease that passes is lost to its holder and to nobody else.
LEMMA LapseLeases ==
    ASSUME LifecycleTypeOK, NEW r \in Runs, LeaseLapses(r)
    PROVE  /\ NoClaim(r)
           /\ row'[r].status = row[r].status
           /\ \A token \in Nat : /\ token # row[r].leaseToken => LeaseStays(r, token)
                                 /\ \A stage \in Leased : ~OwnsAfter(r, token, stage)
BY DEF LifecycleTypeOK, Row, LeaseLapses, NoClaim, SameClaims, LeaseStays, OwnsAfter,
       Owns, Leased

(* A claim is granted only when nobody owns the run, and its token is new.   *)
LEMMA ClaimLeases ==
    ASSUME LifecycleTypeOK, NEW r \in Runs, RowInv(r),
           ClaimProcessing(r) \/ ClaimDelivery(r)
    PROVE  /\ row[r].status \notin Terminal
           /\ row'[r].summary = row[r].summary
           /\ \A token \in 1..ClaimsOf(r), stage \in Leased :
                 ~Owns(r, token, stage) /\ ~OwnsAfter(r, token, stage)
           /\ ClaimProcessing(r) =>
                /\ row'[r].attempt = row[r].attempt + 1
                /\ row'[r].deliveryAttempt = row[r].deliveryAttempt
                /\ ~row[r].summary
                /\ OwnsAfter(r, ClaimsOf(r) + 1, "processing")
           /\ ClaimDelivery(r) =>
                /\ row'[r].attempt = row[r].attempt
                /\ row'[r].deliveryAttempt = row[r].deliveryAttempt + 1
                /\ row[r].summary
                /\ OwnsAfter(r, ClaimsOf(r) + 1, "delivering")
<1>b. /\ row[r] \in Row
      /\ row \in [Runs -> Row]
      /\ ClaimsOf(r) \in Nat
  BY DEF LifecycleTypeOK, Row, ClaimsOf
<1>1. CASE ClaimProcessing(r)
  <2>1. /\ row'[r] = [row[r] EXCEPT
                  !.status = "processing",      !.updatedAt = "recent",
                  !.leaseExpiresAt = "future",  !.leaseToken = ClaimsOf(r) + 1,
                  !.nextRetryAt = Null,         !.retryStage = Null,
                  !.attempt = row[r].attempt + 1]
        /\ ProcessingClaimable(r)
    BY <1>1, <1>b DEF ClaimProcessing
  <2>2. /\ row'[r].status = "processing" /\ row'[r].leaseToken = ClaimsOf(r) + 1
        /\ row'[r].leaseExpiresAt = "future"
        /\ row'[r].attempt = row[r].attempt + 1
        /\ row'[r].deliveryAttempt = row[r].deliveryAttempt
        /\ row'[r].summary = row[r].summary
    BY <2>1, <1>b DEF Row
  <2>3. /\ row[r].status \notin Terminal
        /\ \A token \in 1..ClaimsOf(r), stage \in Leased : ~Owns(r, token, stage)
    BY <2>1 DEF ProcessingClaimable, Reached, Owns, Leased, Terminal
  <2>4. ~row[r].summary
    BY <2>1 DEF ProcessingClaimable, InProcessingStage, RowInv
  <2>5. ~ClaimDelivery(r)
    BY <2>4 DEF ClaimDelivery, DeliveryClaimable
  <2>6. \A token \in 1..ClaimsOf(r), stage \in Leased : ~OwnsAfter(r, token, stage)
    BY <1>b, <2>2 DEF OwnsAfter
  <2>7. QED BY <2>2, <2>3, <2>4, <2>5, <2>6 DEF OwnsAfter
<1>2. CASE ClaimDelivery(r)
  <2>1. /\ row'[r] = [row[r] EXCEPT
                  !.status = "delivering",      !.updatedAt = "recent",
                  !.leaseExpiresAt = "future",  !.leaseToken = ClaimsOf(r) + 1,
                  !.nextRetryAt = Null,         !.retryStage = Null,
                  !.deliveryAttempt = row[r].deliveryAttempt + 1]
        /\ DeliveryClaimable(r)
    BY <1>2, <1>b DEF ClaimDelivery
  <2>2. /\ row'[r].status = "delivering" /\ row'[r].leaseToken = ClaimsOf(r) + 1
        /\ row'[r].leaseExpiresAt = "future"
        /\ row'[r].attempt = row[r].attempt
        /\ row'[r].deliveryAttempt = row[r].deliveryAttempt + 1
        /\ row'[r].summary = row[r].summary
    BY <2>1, <1>b DEF Row
  <2>3. /\ row[r].status \notin Terminal
        /\ \A token \in 1..ClaimsOf(r), stage \in Leased : ~Owns(r, token, stage)
        /\ row[r].summary
    BY <2>1 DEF DeliveryClaimable, Reached, Owns, Leased, Terminal
  <2>5. ~ClaimProcessing(r)
    BY <2>3 DEF ClaimProcessing, ProcessingClaimable, InProcessingStage, RowInv
  <2>6. \A token \in 1..ClaimsOf(r), stage \in Leased : ~OwnsAfter(r, token, stage)
    BY <1>b, <2>2 DEF OwnsAfter
  <2>7. QED BY <2>2, <2>3, <2>5, <2>6 DEF OwnsAfter
<1>3. QED BY <1>1, <1>2

(* The statements of a leaseholder take no other lease away.                 *)
LEMMA HolderLeases ==
    ASSUME LifecycleTypeOK, NEW r \in Runs, RowInv(r), NEW token \in 1..ClaimsOf(r),
           LeaseholderStep(r, token)
    PROVE  /\ SameClaims(r)
           /\ \A other \in Nat \ {token} : LeaseStays(r, other)
           /\ StoreDeliveryPayload(r, token) =>
                /\ row'[r].summary /\ ~row[r].summary
                /\ Owns(r, token, "processing")
           /\ ~StoreDeliveryPayload(r, token) => row'[r].summary = row[r].summary
           /\ MarkCompleted(r, token) => row'[r].status \in Terminal
           /\ \A stage \in Leased :
                MarkFailed(r, token, stage) => row'[r].status \in Terminal
<1>b. /\ row[r] \in Row
      /\ row \in [Runs -> Row]
      /\ token \in Nat \ {0}
  BY DEF LifecycleTypeOK
<1>d. /\ MarkCompleted(r, token) => row'[r].status \in Terminal
      /\ \A stage \in Leased : MarkFailed(r, token, stage) => row'[r].status \in Terminal
  BY HolderEffect DEF Terminal
<1> USE DEF SameClaims, LeaseStays, OwnsAfter, Owns, Leased, Terminal
<1>1. CASE StoreDeliveryPayload(r, token)
  <2>1. ~row[r].summary
    BY <1>1 DEF StoreDeliveryPayload, RowInv, InProcessingStage
  <2>2. /\ row'[r].status = "summary_ready" /\ row'[r].summary
        /\ row'[r].attempt = row[r].attempt
        /\ row'[r].deliveryAttempt = row[r].deliveryAttempt
        /\ row[r].leaseToken = token /\ row[r].status = "processing"
        /\ row[r].leaseExpiresAt = "future"
    BY <1>1, <1>b DEF StoreDeliveryPayload, Row
  <2>4. SameClaims(r) /\ \A other \in Nat \ {token} : LeaseStays(r, other)
    BY <1>b, <2>2
  <2> HIDE DEF SameClaims, LeaseStays, Owns
  <2>5. Owns(r, token, "processing")
    BY <2>2 DEF Owns
  <2>6. QED BY <1>1, <1>d, <2>1, <2>2, <2>4, <2>5
<1>2. CASE ~StoreDeliveryPayload(r, token)
  <2>1. CASE MarkCompleted(r, token)
    BY <1>2, <2>1, <1>b DEF MarkCompleted, Row
  <2>2. ASSUME NEW stage \in Leased, MarkFailed(r, token, stage)
        PROVE  /\ SameClaims(r) /\ row'[r].summary = row[r].summary
               /\ \A other \in Nat \ {token} : LeaseStays(r, other)
    BY <2>2, <1>b DEF MarkFailed, Row
  <2>3. ASSUME NEW stage \in Leased, MarkRetry(r, token, stage)
        PROVE  /\ SameClaims(r) /\ row'[r].summary = row[r].summary
               /\ \A other \in Nat \ {token} : LeaseStays(r, other)
    BY <2>3, <1>b DEF MarkRetry, Row
  <2>4. ASSUME NEW stage \in Leased, RenewLease(r, token, stage)
        PROVE  /\ SameClaims(r) /\ row'[r].summary = row[r].summary
               /\ \A other \in Nat \ {token} : LeaseStays(r, other)
    BY <2>4, <1>b DEF RenewLease, Row
  <2>7. /\ SameClaims(r) /\ row'[r].summary = row[r].summary
        /\ \A other \in Nat \ {token} : LeaseStays(r, other)
    BY <1>2, <2>1, <2>2, <2>3, <2>4 DEF LeaseholderStep
  <2> HIDE DEF SameClaims, LeaseStays, Terminal
  <2>8. QED BY <1>2, <1>d, <2>7
<1>3. QED BY <1>1, <1>2

-----------------------------------------------------------------------------
(* The step of a worker, as far as the budgets of its run go.                *)
Watched == {"lookup", "generate", "exhausted", "claimReady", "undeliverable",
            "send", "complete"}

\* What it writes to the row.
Written(w) ==
    \/ row' = row
    \/ ClaimProcessing(Run(w)) \/ ClaimDelivery(Run(w))
    \/ worker[w].pc \in Holding /\ LeaseholderStep(Run(w), Token(w))

\* The computations and the copies in the chat it adds.
Computed(w) ==
    \/ generated'[Run(w)] = generated[Run(w)]
    \/ At(w, "generate") /\ generated'[Run(w)] = generated[Run(w)] + 1
SentOrNot(w) ==
    \/ sent'[Run(w)] = sent[Run(w)]
    \/ At(w, "send") /\ sent'[Run(w)] = sent[Run(w)] + 1
Silent(w) == /\ generated'[Run(w)] = generated[Run(w)]
             /\ sent'[Run(w)] = sent[Run(w)]

\* It stops; what it was about to end it has ended, or does not own.
Quits(w) ==
    /\ worker'[w].pc \notin Watched
    /\ NoClaim(Run(w)) /\ UNCHANGED faults
    /\ Computed(w) /\ sent'[Run(w)] = sent[Run(w)]
    /\ At(w, "exhausted") /\ Owns(Run(w), Token(w), "processing")
       => row'[Run(w)].status \in Terminal
    /\ At(w, "undeliverable") \/ At(w, "complete")
       => (Owns(Run(w), Token(w), "delivering") => row'[Run(w)].status \in Terminal)

\* A fault stops it, whatever it was doing.
Faults(w) ==
    /\ worker'[w].pc \notin Watched
    /\ faults' = faults + 1
    /\ \/ NoClaim(Run(w))
       \/ ClaimProcessing(Run(w)) \/ ClaimDelivery(Run(w))
       \/ At(w, "store") /\ StoreDeliveryPayload(Run(w), Token(w))
    /\ Computed(w) /\ SentOrNot(w)

GoesOn(w, pc) == Proceeds(w, pc) /\ UNCHANGED faults
TakesLease(w, pc) == Claims(w, pc) /\ UNCHANGED faults /\ Silent(w)

TakesProcessing(w) ==
    /\ At(w, "claimProcessing")
    /\ ClaimProcessing(Run(w))
    /\ TakesLease(w, AfterProcessingClaim(row[Run(w)].attempt + 1))

TakesDelivery(w) ==
    /\ ClaimDelivery(Run(w))
    /\ \/ /\ At(w, "claimDelivery") \/ At(w, "claimReady")
          /\ TakesLease(w, "undeliverable")
          /\ row[Run(w)].deliveryAttempt + 1 > MAX_DELIVERY_ATTEMPTS
       \/ /\ At(w, "claimDelivery")
          /\ TakesLease(w, "send")
          /\ row[Run(w)].deliveryAttempt + 1 <= MAX_DELIVERY_ATTEMPTS
       \/ /\ At(w, "claimReady")
          /\ TakesLease(w, "send")

Begins(w) == At(w, "lookup") /\ GoesOn(w, "generate") /\ Silent(w) /\ row' = row

Stores(w) == /\ At(w, "store") /\ GoesOn(w, "claimReady") /\ Silent(w)
             /\ StoreDeliveryPayload(Run(w), Token(w))

Sends(w) == /\ At(w, "send") /\ GoesOn(w, "complete") /\ row' = row
            /\ generated'[Run(w)] = generated[Run(w)]
            /\ sent'[Run(w)] = sent[Run(w)] + 1

Course(w) == \/ Quits(w) \/ Faults(w) \/ TakesProcessing(w) \/ TakesDelivery(w)
             \/ Begins(w) \/ Stores(w) \/ Sends(w)

\* Where a step leaves its worker, with a fault and without.
LEMMA Whereto ==
    ASSUME PipelineInv, NEW w \in Workers, ~At(w, "idle")
    PROVE  /\ \A pc \in WorkerSteps : Goto(w, pc) => Proceeds(w, pc)
           /\ MessageRetry(w) => worker'[w].pc = "idle"
           /\ worker' = [worker EXCEPT ![w] = NoJob] => worker'[w].pc = "idle"
<1>1. worker \in [Workers -> Worker]
  BY Basics
<1>2. worker' = [worker EXCEPT ![w] = NoJob] => worker'[w].pc = "idle"
  BY <1>1, NoJobDrops DEF Drops
<1>3. QED BY <1>1, <1>2, GotoProceeds DEF MessageRetry

\* What a step that leaves a counter of the history alone does to its run.
LEMMA HistoryOfRun ==
    ASSUME PipelineInv, NEW w \in Workers, ~At(w, "idle")
    PROVE  /\ UNCHANGED history => Silent(w)
           /\ UNCHANGED history => Computed(w)
           /\ UNCHANGED sent => sent'[Run(w)] = sent[Run(w)]
           /\ UNCHANGED generated => generated'[Run(w)] = generated[Run(w)]
           /\ sent' = [sent EXCEPT ![Run(w)] = @ + 1]
              => sent'[Run(w)] = sent[Run(w)] + 1
           /\ generated' = [generated EXCEPT ![Run(w)] = @ + 1]
              => generated'[Run(w)] = generated[Run(w)] + 1
<1>1. Run(w) \in Runs /\ sent \in [Runs -> Nat] /\ generated \in [Runs -> Nat]
  BY Basics DEF PipelineInv, PipelineTypeOK
<1>2. QED BY <1>1 DEF history, Silent, Computed

(* The statements that end a run, give it back or do nothing.                *)
LEMMA EndingCourse ==
    ASSUME PipelineInv, NEW w \in Workers, worker[w].pc \in Holding,
           ~At(w, "generate"), UNCHANGED history,
           NEW stage \in Leased,
           At(w, "exhausted") => stage = "processing",
           At(w, "undeliverable") \/ At(w, "complete") => stage = "delivering",
           NEW ACTION Statement, NEW next \in {"done", "again"},
           Statement => /\ LeaseholderStep(Run(w), Token(w))
                        /\ NoClaim(Run(w))
                        /\ next = "done" => row'[Run(w)].status \in Terminal,
           At(w, "exhausted") \/ At(w, "undeliverable") \/ At(w, "complete")
              => next = "done",
           NEW handler \in {"failProcessing", "failDelivery"},
           \/ Fenced(w, stage, Statement, next, "again")
           \/ Caught(w, Statement, handler)
           \/ Uncaught(w, Statement)
    PROVE  Written(w) /\ (Quits(w) \/ Faults(w))
<1>1. ~At(w, "idle")
  BY DEF At, Holding
<1>2. Silent(w) /\ Computed(w)
  BY <1>1, HistoryOfRun
<1>3. UNCHANGED lifecycleVars => row' = row /\ NoClaim(Run(w))
  BY DEF lifecycleVars, NoClaim, SameClaims
<1>4. {"done", "again", "failProcessing", "failDelivery"} \subseteq WorkerSteps \ Watched
  BY DEF WorkerSteps, Watched
<1>5. CASE Fenced(w, stage, Statement, next, "again")
  <2>1. worker'[w].pc \notin Watched /\ UNCHANGED faults
    BY <1>1, <1>4, <1>5, Whereto DEF Fenced, NoFault, Proceeds
  <2>2. CASE Statement
    BY <1>2, <2>1, <2>2 DEF Written, Quits, Silent
  <2>3. CASE ~Owns(Run(w), Token(w), stage) /\ UNCHANGED lifecycleVars
    BY <1>2, <1>3, <2>1, <2>3 DEF Written, Quits, Silent
  <2>4. QED BY <1>5, <2>2, <2>3 DEF Fenced
<1>6. CASE Caught(w, Statement, handler) \/ Uncaught(w, Statement)
  <2>1. worker'[w].pc \notin Watched /\ faults' = faults + 1
    BY <1>1, <1>4, <1>6, Whereto DEF Caught, Uncaught, Fault, Proceeds, Watched
  <2>2. Statement \/ UNCHANGED lifecycleVars
    BY <1>6 DEF Caught, Uncaught
  <2>3. QED BY <1>2, <1>3, <2>1, <2>2 DEF Written, Faults, Silent, SentOrNot
<1>7. QED BY <1>5, <1>6

\* The statements a worker issues with its own token.
LEMMA HolderStatements ==
    ASSUME PipelineInv, NEW w \in Workers, worker[w].pc \in Holding
    PROVE  /\ \A stage \in Leased :
                /\ MarkFailed(Run(w), Token(w), stage)
                   => /\ LeaseholderStep(Run(w), Token(w)) /\ NoClaim(Run(w))
                      /\ row'[Run(w)].status \in Terminal
                /\ MarkRetry(Run(w), Token(w), stage)
                   => LeaseholderStep(Run(w), Token(w)) /\ NoClaim(Run(w))
           /\ MarkCompleted(Run(w), Token(w))
              => /\ LeaseholderStep(Run(w), Token(w)) /\ NoClaim(Run(w))
                 /\ row'[Run(w)].status \in Terminal
           /\ CommitAttempt(w)
              => LeaseholderStep(Run(w), Token(w)) /\ NoClaim(Run(w))
           /\ StoreDeliveryPayload(Run(w), Token(w))
              => /\ LeaseholderStep(Run(w), Token(w)) /\ SameClaims(Run(w))
                 /\ row'[Run(w)].summary /\ ~row[Run(w)].summary
                 /\ Owns(Run(w), Token(w), "processing")
<1> DEFINE r == Run(w)
           token == Token(w)
<1>1. /\ r \in Runs /\ LifecycleTypeOK /\ RowInv(r) /\ token \in 1..ClaimsOf(r)
      /\ row[r] \in Row /\ row \in [Runs -> Row]
  BY Basics DEF At, Holding, LifecycleTypeOK
<1> HIDE DEF r, token
<1>2. CommitAttempt(w) => RenewLease(r, token, "processing")
  BY DEF CommitAttempt, RenewLease, r, token
<1>3. /\ \A stage \in Leased :
           /\ MarkFailed(r, token, stage) => LeaseholderStep(r, token)
           /\ MarkRetry(r, token, stage) => LeaseholderStep(r, token)
           /\ RenewLease(r, token, stage) => LeaseholderStep(r, token)
      /\ MarkCompleted(r, token) => LeaseholderStep(r, token)
      /\ StoreDeliveryPayload(r, token) => LeaseholderStep(r, token)
  BY DEF LeaseholderStep
<1>4. StoreDeliveryPayload(r, token) => row'[r].status = "summary_ready"
  BY <1>1 DEF StoreDeliveryPayload, Row
<1>5. \A stage \in Leased :
           /\ MarkFailed(r, token, stage) => ~StoreDeliveryPayload(r, token)
           /\ MarkRetry(r, token, stage) => ~StoreDeliveryPayload(r, token)
           /\ RenewLease(r, token, stage) => ~StoreDeliveryPayload(r, token)
  <2>1. ASSUME NEW stage \in Leased, MarkFailed(r, token, stage)
        PROVE  row'[r].status # "summary_ready"
    BY <2>1, <1>1 DEF MarkFailed, Row
  <2>2. ASSUME NEW stage \in Leased, MarkRetry(r, token, stage)
        PROVE  row'[r].status # "summary_ready"
    BY <2>2, <1>1 DEF MarkRetry, Row
  <2>3. ASSUME NEW stage \in Leased, RenewLease(r, token, stage)
        PROVE  row'[r].status # "summary_ready"
    BY <2>3, <1>1 DEF RenewLease, Owns, Leased, Row
  <2>4. QED BY <1>4, <2>1, <2>2, <2>3
<1>6. MarkCompleted(r, token) => ~StoreDeliveryPayload(r, token)
  BY <1>1, <1>4, HolderLeases, <1>3 DEF Terminal
<1>7. "processing" \in Leased
  BY DEF Leased
<1>8. LeaseholderStep(r, token) =>
         /\ SameClaims(r)
         /\ StoreDeliveryPayload(r, token) =>
              /\ row'[r].summary /\ ~row[r].summary
              /\ Owns(r, token, "processing")
         /\ ~StoreDeliveryPayload(r, token) => NoClaim(r)
         /\ MarkCompleted(r, token) => row'[r].status \in Terminal
         /\ \A stage \in Leased :
              MarkFailed(r, token, stage) => row'[r].status \in Terminal
  BY <1>1, HolderLeases DEF NoClaim
<1>9. QED BY <1>2, <1>3, <1>5, <1>6, <1>7, <1>8 DEF r, token

\* A move without writing, to a place nobody watches, or lost to a fault.
LEMMA StandingCourse ==
    ASSUME PipelineInv, NEW w \in Workers, ~At(w, "idle"), row' = row,
           worker'[w].pc \notin Watched, Computed(w), SentOrNot(w),
           \/ /\ NoFault /\ sent'[Run(w)] = sent[Run(w)]
              /\ worker[w].pc \notin {"exhausted", "undeliverable", "complete"}
           \/ Fault
    PROVE  Written(w) /\ (Quits(w) \/ Faults(w))
<1>1. Written(w) /\ NoClaim(Run(w))
  BY DEF Written, NoClaim, SameClaims
<1>2. CASE Fault
  BY <1>1, <1>2 DEF Fault, Faults
<1>3. CASE /\ NoFault /\ sent'[Run(w)] = sent[Run(w)]
           /\ worker[w].pc \notin {"exhausted", "undeliverable", "complete"}
  BY <1>1, <1>3 DEF NoFault, Quits, At
<1>4. QED BY <1>2, <1>3

\* A claim cut short by a fault: granted or not, the worker is gone.
LEMMA ClaimCourse ==
    ASSUME PipelineInv, NEW w \in Workers, ~At(w, "idle"), UNCHANGED history,
           ~At(w, "generate"),
           ClaimProcessing(Run(w)) \/ ClaimDelivery(Run(w)) \/ UNCHANGED lifecycleVars,
           Fault, worker'[w].pc \notin Watched
    PROVE  Written(w) /\ Faults(w)
<1>1. Silent(w) /\ Computed(w)
  BY HistoryOfRun
<1>2. UNCHANGED lifecycleVars => row' = row /\ NoClaim(Run(w))
  BY DEF lifecycleVars, NoClaim, SameClaims
<1>3. QED BY <1>1, <1>2 DEF Written, Faults, Silent, SentOrNot, Fault

\* A delivery claim, with the budget looked at or, in a commit, not.
LEMMA DeliveryCourse ==
    ASSUME PipelineInv, NEW w \in Workers, UNCHANGED history, NoFault,
           At(w, "claimDelivery") \/ At(w, "claimReady"),
           ClaimDelivery(Run(w)), NEW checked \in BOOLEAN,
           At(w, "claimDelivery") => checked, HoldDelivery(w, checked)
    PROVE  Written(w) /\ TakesDelivery(w)
<1> DEFINE spent == row[Run(w)].deliveryAttempt + 1 > MAX_DELIVERY_ATTEMPTS
           next == IF checked /\ spent THEN "undeliverable" ELSE "send"
<1>1. ~At(w, "idle")
  BY DEF At
<1>2. worker' = [worker EXCEPT ![w].token = ClaimsOf(Run(w)) + 1, ![w].pc = next]
  BY DEF HoldDelivery
<1>3. /\ next = "undeliverable" => spent
      /\ next = "send" /\ At(w, "claimDelivery") => ~spent
      /\ next \in {"send", "undeliverable"}
  OBVIOUS
<1>4. ClaimsOf(Run(w)) + 1 \in Nat /\ row[Run(w)].deliveryAttempt \in Nat
  BY <1>1, ClaimFacts, Basics DEF LifecycleTypeOK, Row
<1>5. ~spent => row[Run(w)].deliveryAttempt + 1 <= MAX_DELIVERY_ATTEMPTS
  BY <1>4, BudgetsAssumption
<1> HIDE DEF next
<1>6. Claims(w, next)
  BY <1>1, <1>2, <1>3, <1>4, Basics DEF Claims, OthersStay, Worker, WorkerSteps
<1>7. TakesLease(w, next)
  BY <1>1, <1>6, HistoryOfRun DEF TakesLease, NoFault
<1>8. QED BY <1>3, <1>5, <1>7 DEF Written, TakesDelivery

\* A processing claim: begun, refused, spent, or lost to a fault.
LEMMA ProcessingCourse ==
    ASSUME PipelineInv, NEW w \in Workers, ClaimWorkProcessing(w)
    PROVE  /\ Written(w) /\ Course(w)
           /\ worker'[w].pc \in Holding => TakesProcessing(w)
<1> DEFINE r == Run(w)
           next == AfterProcessingClaim(row[r].attempt + 1)
<1>1. /\ ~At(w, "idle") /\ ~At(w, "generate") /\ At(w, "claimProcessing")
      /\ UNCHANGED history
  BY DEF ClaimWorkProcessing, At
<1>2. CASE /\ NoFault
           /\ ClaimProcessing(r)
           /\ worker' = [worker EXCEPT
                ![w].token = ClaimsOf(r) + 1,
                ![w].attempt = row[r].attempt + 1,
                ![w].pc = next]
  <2>1. /\ ClaimsOf(r) + 1 \in Nat /\ row[r].attempt + 1 \in Nat
        /\ worker \in [Workers -> Worker]
    BY <1>1, <1>2, ClaimFacts, Basics
  <2>2. next \in WorkerSteps
    BY DEF AfterProcessingClaim, WorkerSteps
  <2> HIDE DEF next
  <2>3. [worker[w] EXCEPT !.token = ClaimsOf(r) + 1,
                          !.attempt = row[r].attempt + 1, !.pc = next] \in Worker
    BY <2>1, <2>2 DEF Worker
  <2>4. Claims(w, next)
    BY <1>2, <2>1, <2>2, <2>3 DEF Claims, OthersStay, Worker
  <2>5. QED BY <1>1, <1>2, <2>4, HistoryOfRun
        DEF next, TakesLease, TakesProcessing, Written, Course, NoFault
<1>3. CASE NoFault /\ UNCHANGED lifecycleVars /\ Goto(w, "again")
  BY <1>1, <1>3, Whereto, HistoryOfRun, StandingCourse
     DEF lifecycleVars, Watched, WorkerSteps, Proceeds, Course, Silent, SentOrNot, At, Holding
<1>4. CASE Uncaught(w, ClaimProcessing(r))
  BY <1>1, <1>4, Whereto, ClaimCourse DEF Uncaught, Watched, Course, Holding
<1>5. QED BY <1>2, <1>3, <1>4 DEF ClaimWorkProcessing

\* The four claims of a worker.
LEMMA ClaimsCourse ==
    ASSUME PipelineInv, NEW w \in Workers, ClaimWorkDelivery(w) \/ ClaimReady(w)
    PROVE  Written(w) /\ Course(w)
<1>1. /\ ~At(w, "idle") /\ ~At(w, "generate")
      /\ UNCHANGED history
      /\ At(w, "claimDelivery") \/ At(w, "claimReady")
  BY DEF ClaimWorkDelivery, ClaimReady, At
<1>2. ASSUME NoFault, UNCHANGED lifecycleVars,
             NEW pc \in {"claimProcessing", "again"}, Goto(w, pc)
      PROVE  Written(w) /\ Course(w)
  BY <1>1, <1>2, Whereto, HistoryOfRun, StandingCourse
     DEF lifecycleVars, Watched, WorkerSteps, Proceeds, Course, Silent, SentOrNot, At
<1>3. ASSUME Fault, ClaimDelivery(Run(w)) \/ UNCHANGED lifecycleVars,
             Goto(w, "failProcessing") \/ MessageRetry(w)
      PROVE  Written(w) /\ Course(w)
  BY <1>1, <1>3, Whereto, ClaimCourse
     DEF Watched, WorkerSteps, Proceeds, Course
<1>4. ASSUME NoFault, ClaimDelivery(Run(w)), NEW checked \in BOOLEAN,
             At(w, "claimDelivery") => checked, HoldDelivery(w, checked)
      PROVE  Written(w) /\ Course(w)
  BY <1>1, <1>4, DeliveryCourse DEF Course
<1>5. CASE ClaimWorkDelivery(w)
  BY <1>2, <1>3, <1>4, <1>5 DEF ClaimWorkDelivery, Uncaught
<1>6. CASE ClaimReady(w)
  <2>1. At(w, "claimReady") /\ ~At(w, "claimDelivery")
    BY <1>6 DEF ClaimReady, At
  <2>2. (~worker[w].finalizing) \in BOOLEAN
    OBVIOUS
  <2>3. CASE NoFault /\ ClaimDelivery(Run(w)) /\ HoldDelivery(w, ~worker[w].finalizing)
    BY <1>4, <2>1, <2>2, <2>3
  <2>4. QED BY <1>2, <1>3, <1>6, <2>3 DEF ClaimReady, Caught
<1>7. QED BY <1>5, <1>6

\* A computation: it ends, or is given back, and is counted once.
LEMMA GenerateCourse ==
    ASSUME PipelineInv, NEW w \in Workers, Generate(w)
    PROVE  Written(w) /\ (Quits(w) \/ Faults(w))
<1>1. /\ ~At(w, "idle") /\ worker[w].pc \in Holding /\ At(w, "generate")
      /\ worker[w].pc \notin {"exhausted", "undeliverable", "complete"}
  BY DEF Generate, At, Holding, WorkerSteps
<1>2. Computed(w) /\ sent'[Run(w)] = sent[Run(w)]
  BY <1>1, HistoryOfRun DEF Generate, Computed
<1>3. worker'[w].pc \notin Watched
  <2>1. worker \in [Workers -> Worker]
    BY <1>1, Basics
  <2>2. ASSUME NEW streamed \in BOOLEAN,
               worker' = [worker EXCEPT ![w].pc = "store", ![w].finalizing = streamed]
        PROVE  worker'[w].pc = "store"
    BY <2>1, <2>2 DEF Worker
  <2>3. Retryable(w) \in {"failProcessing", "retryProcessing"}
    BY DEF Retryable
  <2>4. \E pc \in {"store", "failProcessing", "retryProcessing"} : worker'[w].pc = pc
    <3>1. \/ worker'[w].pc = "store"
          \/ Goto(w, Retryable(w)) \/ Goto(w, "failProcessing")
      BY <2>2 DEF Generate
    <3>2. QED BY <1>1, <2>3, <3>1, Whereto DEF Proceeds, WorkerSteps
  <2>5. QED BY <2>4 DEF Watched
<1>4. CommitAttempt(w) \/ row' = row
  BY DEF Generate, NoCommit, lifecycleVars
<1>5. Written(w) /\ NoClaim(Run(w))
  BY <1>1, <1>4, HolderStatements DEF Written, NoClaim, SameClaims
<1>6. CASE Fault
  BY <1>2, <1>3, <1>5, <1>6 DEF Faults, Fault, SentOrNot
<1>7. CASE NoFault
  BY <1>1, <1>2, <1>3, <1>5, <1>7 DEF Quits, NoFault, At
<1>8. QED BY <1>6, <1>7 DEF Generate

\* Storing the text: for a stream the worker goes on to claim its delivery.
LEMMA StoreCourse ==
    ASSUME PipelineInv, NEW w \in Workers, Store(w)
    PROVE  Written(w) /\ Course(w)
<1> DEFINE Statement == StoreDeliveryPayload(Run(w), Token(w))
<1>1. /\ ~At(w, "idle") /\ worker[w].pc \in Holding /\ At(w, "store")
      /\ worker[w].pc \notin {"exhausted", "undeliverable", "complete"}
      /\ ~At(w, "generate")
      /\ UNCHANGED history
  BY DEF Store, At, Holding, WorkerSteps
<1>2. Silent(w) /\ Computed(w) /\ SentOrNot(w)
  BY <1>1, HistoryOfRun DEF Silent, SentOrNot
<1>3. Statement => Written(w)
  BY <1>1, HolderStatements DEF Written
<1> HIDE DEF Statement
<1>4. CASE NoFault /\ Statement /\ Goto(w, "claimReady")
  BY <1>1, <1>2, <1>3, <1>4, Whereto
     DEF Course, Stores, GoesOn, NoFault, WorkerSteps, Statement
<1>5. CASE NoFault /\ UNCHANGED lifecycleVars /\ Goto(w, "again")
  BY <1>1, <1>2, <1>5, Whereto, StandingCourse
     DEF lifecycleVars, Watched, WorkerSteps, Proceeds, Course, Silent
<1>6. CASE Fault /\ Goto(w, "failProcessing")
           /\ (Statement \/ UNCHANGED lifecycleVars)
  <2>1. worker'[w].pc \notin Watched
    BY <1>1, <1>6, Whereto DEF Watched, WorkerSteps, Proceeds
  <2>2. CASE UNCHANGED lifecycleVars
    BY <1>1, <1>2, <1>6, <2>1, <2>2, StandingCourse DEF lifecycleVars, Course
  <2>3. CASE Statement
    BY <1>1, <1>2, <1>3, <1>6, <2>1, <2>3 DEF Faults, Fault, Course, Statement
  <2>4. QED BY <1>6, <2>2, <2>3
<1>7. QED BY <1>4, <1>5, <1>6 DEF Store, Fenced, Caught, Statement

\* Sending: a message that reached the chat is counted, acknowledged or not.
LEMMA SendCourse ==
    ASSUME PipelineInv, NEW w \in Workers, Send(w)
    PROVE  Written(w) /\ Course(w)
<1>1. /\ ~At(w, "idle") /\ At(w, "send") /\ ~At(w, "generate")
      /\ worker[w].pc \notin {"exhausted", "undeliverable", "complete"}
      /\ UNCHANGED lifecycleVars /\ UNCHANGED generated
  BY DEF Send, At
<1>2. row' = row /\ Written(w) /\ Computed(w)
      /\ generated'[Run(w)] = generated[Run(w)]
  BY <1>1, HistoryOfRun DEF lifecycleVars, Written, Computed
<1>3. /\ sent' = [sent EXCEPT ![Run(w)] = @ + 1]
         => SentOrNot(w) /\ sent'[Run(w)] = sent[Run(w)] + 1
      /\ UNCHANGED sent => SentOrNot(w) /\ sent'[Run(w)] = sent[Run(w)]
  BY <1>1, HistoryOfRun DEF SentOrNot
<1>4. \A pc \in WorkerSteps : Goto(w, pc) => Proceeds(w, pc)
  BY <1>1, Whereto
<1>5. CASE /\ sent' = [sent EXCEPT ![Run(w)] = @ + 1]
           /\ NoFault /\ Goto(w, "complete")
  BY <1>1, <1>2, <1>3, <1>4, <1>5 DEF Course, Sends, GoesOn, NoFault, WorkerSteps
<1>6. CASE /\ sent' = [sent EXCEPT ![Run(w)] = @ + 1]
           /\ Fault /\ Goto(w, "retryDelivery")
  BY <1>1, <1>2, <1>3, <1>4, <1>6, StandingCourse
     DEF Course, Proceeds, WorkerSteps, Watched
<1>7. CASE /\ UNCHANGED sent /\ NoFault
           /\ Goto(w, "retryDelivery") \/ Goto(w, "failDelivery")
  BY <1>1, <1>2, <1>3, <1>4, <1>7, StandingCourse
     DEF Course, Proceeds, WorkerSteps, Watched
<1>8. QED BY <1>5, <1>6, <1>7 DEF Send

\* The lookup of a result computed earlier.
LEMMA LookupCourse ==
    ASSUME PipelineInv, NEW w \in Workers, LookupOutcome(w)
    PROVE  Written(w) /\ Course(w)
<1>1. /\ ~At(w, "idle") /\ At(w, "lookup") /\ ~At(w, "generate")
      /\ worker[w].pc \notin {"exhausted", "undeliverable", "complete"}
      /\ UNCHANGED lifecycleVars /\ UNCHANGED history
  BY DEF LookupOutcome, At
<1>2. /\ row' = row /\ Written(w) /\ Computed(w) /\ Silent(w) /\ SentOrNot(w)
      /\ sent'[Run(w)] = sent[Run(w)]
  BY <1>1, HistoryOfRun DEF lifecycleVars, Written, Silent, SentOrNot
<1>3. \A pc \in WorkerSteps : Goto(w, pc) => Proceeds(w, pc)
  BY <1>1, Whereto
<1>4. CASE NoFault /\ Goto(w, "generate")
  BY <1>1, <1>2, <1>3, <1>4 DEF Course, Begins, GoesOn, NoFault, WorkerSteps
<1>5. CASE NoFault /\ Goto(w, "store")
  BY <1>1, <1>2, <1>3, <1>5, StandingCourse
     DEF Course, Proceeds, WorkerSteps, Watched
<1>6. CASE Fault /\ Goto(w, "failProcessing")
  BY <1>1, <1>2, <1>3, <1>6, StandingCourse
     DEF Course, Proceeds, WorkerSteps, Watched
<1>7. QED BY <1>4, <1>5, <1>6 DEF LookupOutcome

\* Failing a run ends it, unless the lease is gone.
LEMMA FailCourse ==
    ASSUME PipelineInv, NEW w \in Workers, worker[w].pc \in Holding,
           ~At(w, "generate"), UNCHANGED history, NEW stage \in Leased,
           At(w, "exhausted") => stage = "processing",
           At(w, "undeliverable") \/ At(w, "complete") => stage = "delivering",
           NEW handler \in {"failProcessing", "failDelivery"},
           \/ Fenced(w, stage, MarkFailed(Run(w), Token(w), stage), "done", "again")
           \/ Caught(w, MarkFailed(Run(w), Token(w), stage), handler)
           \/ Uncaught(w, MarkFailed(Run(w), Token(w), stage))
    PROVE  Written(w) /\ (Quits(w) \/ Faults(w))
<1> DEFINE Statement == MarkFailed(Run(w), Token(w), stage)
<1>1. Statement => /\ LeaseholderStep(Run(w), Token(w))
                   /\ NoClaim(Run(w))
                   /\ row'[Run(w)].status \in Terminal
  BY HolderStatements
<1> HIDE DEF Statement
<1>2. \/ Fenced(w, stage, Statement, "done", "again")
      \/ Caught(w, Statement, handler)
      \/ Uncaught(w, Statement)
  BY DEF Statement
<1>3. QED BY <1>1, <1>2, EndingCourse

\* A scheduled retry gives the run back.
LEMMA RetryCourse ==
    ASSUME PipelineInv, NEW w \in Workers, worker[w].pc \in Holding,
           worker[w].pc \notin {"generate", "exhausted", "undeliverable", "complete"},
           UNCHANGED history, NEW stage \in Leased,
           \/ Fenced(w, stage, MarkRetry(Run(w), Token(w), stage), "again", "again")
           \/ Uncaught(w, MarkRetry(Run(w), Token(w), stage))
    PROVE  Written(w) /\ (Quits(w) \/ Faults(w))
<1> DEFINE Statement == MarkRetry(Run(w), Token(w), stage)
<1>1. Statement => LeaseholderStep(Run(w), Token(w)) /\ NoClaim(Run(w))
  BY HolderStatements
<1> HIDE DEF Statement
<1>2. \/ Fenced(w, stage, Statement, "again", "again")
      \/ Uncaught(w, Statement)
  BY DEF Statement
<1>3. QED BY <1>1, <1>2, EndingCourse DEF At

\* Completing a run ends it, unless the lease is gone.
LEMMA CompleteCourse ==
    ASSUME PipelineInv, NEW w \in Workers, Complete(w)
    PROVE  Written(w) /\ (Quits(w) \/ Faults(w))
<1> DEFINE Statement == MarkCompleted(Run(w), Token(w))
<1>1. /\ worker[w].pc \in Holding /\ At(w, "complete") /\ UNCHANGED history
      /\ ~At(w, "generate") /\ ~At(w, "exhausted")
  BY DEF Complete, At, Holding, WorkerSteps
<1>2. Statement => /\ LeaseholderStep(Run(w), Token(w))
                   /\ NoClaim(Run(w))
                   /\ row'[Run(w)].status \in Terminal
  BY <1>1, HolderStatements
<1> HIDE DEF Statement
<1>3. \/ Fenced(w, "delivering", Statement, "done", "again")
      \/ Caught(w, Statement, "failDelivery")
      \/ Uncaught(w, Statement)
  BY DEF Statement, Complete
<1>4. QED BY <1>1, <1>2, <1>3, EndingCourse DEF Leased

\* Every step of a worker is one of these.
LEMMA WorkerCourse ==
    ASSUME PipelineInv, NEW w \in Workers, WorkerStep(w)
    PROVE  Written(w) /\ Course(w)
<1>1. CASE ClaimWorkGet(w) \/ RejectPayload(w) \/ Ack(w) \/ Reschedule(w) \/ Crash(w)
  <2>1. ~At(w, "idle") /\ UNCHANGED lifecycleVars /\ UNCHANGED history
    BY <1>1 DEF ClaimWorkGet, RejectPayload, Ack, Reschedule, Crash, At
  <2>2. row' = row /\ Silent(w) /\ sent'[Run(w)] = sent[Run(w)] /\ SentOrNot(w)
    BY <2>1, HistoryOfRun DEF lifecycleVars, Silent, SentOrNot
  <2>3. \/ /\ NoFault
           /\ \/ Goto(w, "done") \/ Goto(w, "claimDelivery") \/ Goto(w, "invalid")
              \/ worker' = [worker EXCEPT ![w] = NoJob]
           /\ worker[w].pc \in {"get", "store", "done", "again"}
        \/ /\ Fault
           /\ worker' = [worker EXCEPT ![w] = NoJob]
    BY <1>1 DEF ClaimWorkGet, RejectPayload, Ack, Reschedule, Crash, At, NoFault,
                MessageRetry
  <2>4. worker'[w].pc \notin Watched
    BY <2>1, <2>3, Whereto DEF Proceeds, WorkerSteps, Watched
  <2>5. QED BY <2>1, <2>2, <2>3, <2>4, HistoryOfRun, StandingCourse DEF Course
<1>2. CASE ClaimWorkDelivery(w) \/ ClaimReady(w)
  BY <1>2, ClaimsCourse
<1>3. CASE ClaimWorkProcessing(w)
  BY <1>3, ProcessingCourse
<1>4. CASE Generate(w)
  BY <1>4, GenerateCourse DEF Course
<1>5. CASE Store(w)
  BY <1>5, StoreCourse
<1>6. CASE Send(w)
  BY <1>6, SendCourse
<1>7. CASE LookupOutcome(w)
  BY <1>7, LookupCourse
<1>8. CASE Complete(w)
  BY <1>8, CompleteCourse DEF Course
<1>9. CASE FailExhausted(w) \/ FailInvalid(w) \/ FailProcessing(w)
  <2>1. /\ worker[w].pc \in Holding /\ UNCHANGED history
        /\ ~At(w, "generate") /\ ~At(w, "undeliverable") /\ ~At(w, "complete")
    BY <1>9 DEF FailExhausted, FailInvalid, FailProcessing, At, Holding, WorkerSteps
  <2>2. LET Statement == MarkFailed(Run(w), Token(w), "processing") IN
        \/ Fenced(w, "processing", Statement, "done", "again")
        \/ Caught(w, Statement, "failProcessing")
        \/ Uncaught(w, Statement)
    BY <1>9 DEF FailExhausted, FailInvalid, FailProcessing
  <2>3. QED BY <2>1, <2>2, FailCourse DEF Course, Leased
<1>10. CASE FailUndeliverable(w) \/ FailDelivery(w)
  <2>1. /\ worker[w].pc \in Holding /\ UNCHANGED history
        /\ ~At(w, "generate") /\ ~At(w, "exhausted")
    BY <1>10 DEF FailUndeliverable, FailDelivery, At, Holding, WorkerSteps
  <2>2. LET Statement == MarkFailed(Run(w), Token(w), "delivering") IN
        \/ Fenced(w, "delivering", Statement, "done", "again")
        \/ Uncaught(w, Statement)
    BY <1>10 DEF FailUndeliverable, FailDelivery
  <2>3. QED BY <2>1, <2>2, FailCourse DEF Course, Leased
<1>11. CASE RetryProcessing(w) \/ RetryDelivery(w)
  <2>1. /\ worker[w].pc \in Holding /\ UNCHANGED history
        /\ worker[w].pc \notin {"generate", "exhausted", "undeliverable", "complete"}
    BY <1>11 DEF RetryProcessing, RetryDelivery, At, Holding, WorkerSteps
  <2>2. \E stage \in Leased :
            \/ Fenced(w, stage, MarkRetry(Run(w), Token(w), stage), "again", "again")
            \/ Uncaught(w, MarkRetry(Run(w), Token(w), stage))
    BY <1>11 DEF RetryProcessing, RetryDelivery, Leased
  <2>3. QED BY <2>1, <2>2, RetryCourse DEF Course
<1>12. QED
  BY <1>1, <1>2, <1>3, <1>4, <1>5, <1>6, <1>7, <1>8, <1>9, <1>10, <1>11
     DEF WorkerStep, ProcessorStep

\* What the others see of it.
Turn(w) ==
    /\ OthersStay(w)
    /\ \A v \in Workers \ {w} :
          Run(v) = Run(w) /\ worker[v].pc \in Holding => LeaseStays(Run(w), Token(v))
    /\ \A q \in Runs \ {Run(w)} : /\ row'[q] = row[q]
                                  /\ generated'[q] = generated[q]
                                  /\ sent'[q] = sent[q]
    /\ row[Run(w)].status \in Terminal => row'[Run(w)].status \in Terminal
    /\ row[Run(w)].summary => row'[Run(w)].summary
    /\ faults' \in {faults, faults + 1}

\* What a worker writes takes no lease from another.
LEMMA WrittenLeases ==
    ASSUME PipelineInv, NEW w \in Workers, ~At(w, "idle"), Written(w),
           NEW token \in 1..ClaimsOf(Run(w)),
           worker[w].pc \in Holding => token # Token(w)
    PROVE  LeaseStays(Run(w), token)
<1> DEFINE r == Run(w)
<1>1. /\ r \in Runs /\ LifecycleTypeOK /\ RowInv(r)
      /\ worker[w].pc \in Holding => Token(w) \in 1..ClaimsOf(r)
      /\ token \in Nat
  BY Basics
<1> HIDE DEF r
<1>2. CASE row' = row
  BY <1>2 DEF LeaseStays, OwnsAfter, Owns
<1>3. CASE ClaimProcessing(r) \/ ClaimDelivery(r)
  BY <1>1, <1>3, ClaimLeases DEF LeaseStays, r
<1>4. CASE worker[w].pc \in Holding /\ LeaseholderStep(r, Token(w))
  BY <1>1, <1>4, HolderLeases DEF r
<1>5. QED BY <1>2, <1>3, <1>4 DEF Written, r

\* What a worker adds to the history it adds to its own run.
LEMMA HistoryElsewhere ==
    ASSUME PipelineInv, NEW w \in Workers, WorkerStep(w),
           NEW q \in Runs, q # Run(w)
    PROVE  generated'[q] = generated[q] /\ sent'[q] = sent[q]
<1>1. sent' = sent \/ sent' = [sent EXCEPT ![Run(w)] = @ + 1]
  BY WorkerHistory
<1>2. \/ generated' = generated
      \/ generated' = [generated EXCEPT ![Run(w)] = @ + 1]
  BY DEF WorkerStep, ProcessorStep, Ack, Reschedule, Crash, history, ClaimWorkGet,
         ClaimWorkDelivery, ClaimWorkProcessing, FailExhausted, LookupOutcome,
         Generate, RejectPayload, FailInvalid, Store, ClaimReady,
         FailProcessing, RetryProcessing, FailUndeliverable, Send, Complete,
         FailDelivery, RetryDelivery
<1>3. sent \in [Runs -> Nat] /\ generated \in [Runs -> Nat]
  BY DEF PipelineInv, PipelineTypeOK
<1>4. QED BY <1>1, <1>2, <1>3

\* Every step of a worker leaves the others as they are.
LEMMA WorkerTurn ==
    ASSUME PipelineInv, NEW w \in Workers, WorkerStep(w)
    PROVE  Turn(w)
<1> DEFINE r == Run(w)
<1>1. ~At(w, "idle") /\ Written(w) /\ Course(w) /\ Effect(w)
  BY WorkerEffect, WorkerCourse
<1>2. OthersStay(w)
  BY <1>1 DEF Effect, WorkerMoves, Drops, Proceeds, Claims
<1>3. r \in Runs /\ LifecycleTypeOK /\ Advances(r)
  BY <1>1, Basics DEF Effect, RowsOK, StoreStep
<1>4. ASSUME NEW v \in Workers \ {w}, Run(v) = r, worker[v].pc \in Holding
      PROVE  LeaseStays(r, Token(v))
  <2>1. Token(v) \in 1..ClaimsOf(r)
    BY <1>4 DEF PipelineInv, WorkerInv
  <2>2. worker[w].pc \in Holding => Token(v) # Token(w)
    BY <1>4 DEF PipelineInv
  <2>3. QED BY <1>1, <2>1, <2>2, WrittenLeases
<1>5. ASSUME NEW q \in Runs \ {r}
      PROVE  row'[q] = row[q] /\ generated'[q] = generated[q] /\ sent'[q] = sent[q]
  <2>1. RunStep(r) \/ row' = row
    BY <1>1, Basics DEF Written, RunStep
  <2>2. row'[q] = row[q]
    BY <1>3, <2>1, OneRowAtATime DEF LifecycleTypeOK
  <2>3. QED BY <2>2, HistoryElsewhere
<1>6. faults' \in {faults, faults + 1}
  BY <1>1 DEF Course, Quits, Faults, TakesProcessing, TakesDelivery, TakesLease, Begins,
              Stores, Sends, GoesOn
<1>7. QED BY <1>2, <1>3, <1>4, <1>5, <1>6 DEF Turn, Advances

-----------------------------------------------------------------------------
(* Counting: a set that gains or loses one worker at most.                   *)
LEMMA SetStep ==
    ASSUME NEW S, IsFiniteSet(S), NEW T, NEW w, \A v : v # w => (v \in T <=> v \in S)
    PROVE  /\ IsFiniteSet(T)
           /\ Cardinality(S) \in Nat /\ Cardinality(T) \in Nat
           /\ (w \in T <=> w \in S) => Cardinality(T) = Cardinality(S)
           /\ w \in T /\ w \notin S => Cardinality(T) = Cardinality(S) + 1
           /\ w \notin T /\ w \in S => Cardinality(T) = Cardinality(S) - 1
<1>1. CASE w \in T <=> w \in S
  <2>1. T = S
    BY <1>1
  <2>2. QED BY <1>1, <2>1, FS_CardinalityType
<1>2. CASE w \in T /\ w \notin S
  <2>1. T = S \cup {w}
    BY <1>2
  <2>2. QED BY <1>2, <2>1, FS_AddElement, FS_CardinalityType
<1>3. CASE w \notin T /\ w \in S
  <2>1. T = S \ {w}
    BY <1>3
  <2>2. QED BY <1>3, <2>1, FS_RemoveElement, FS_CardinalityType
<1>4. QED BY <1>1, <1>2, <1>3

\* The types of the counters, and whose tokens they are.
LEMMA BudgetTypes ==
    ASSUME PipelineInv, NEW r \in Runs
    PROVE  /\ row[r].attempt \in Nat /\ row[r].deliveryAttempt \in Nat
           /\ row[r].summary \in BOOLEAN
           /\ generated[r] \in Nat /\ sent[r] \in Nat /\ faults \in Nat
           /\ \A w \in Workers : Token(w) \in Nat
           /\ \A w \in Workers : Run(w) = r /\ worker[w].pc \in Holding
                                 => Token(w) \in 1..ClaimsOf(r)
<1>1. row[r] \in Row /\ worker \in [Workers -> Worker]
  BY DEF PipelineInv, PipelineTypeOK, LifecycleTypeOK
<1>2. /\ row[r].attempt \in Nat /\ row[r].deliveryAttempt \in Nat
      /\ row[r].summary \in BOOLEAN
  BY <1>1 DEF Row
<1>3. \A w \in Workers : Token(w) \in Nat
  BY <1>1 DEF Worker, Token
<1>4. generated[r] \in Nat /\ sent[r] \in Nat /\ faults \in Nat
  BY BudgetsAssumption DEF PipelineInv, PipelineTypeOK
<1>5. QED BY <1>2, <1>3, <1>4 DEF PipelineInv, WorkerInv

\* The types of the counters after a step.
LEMMA BudgetTypesNext ==
    ASSUME PipelineInv', NEW r \in Runs
    PROVE  /\ row'[r].attempt \in Nat /\ row'[r].deliveryAttempt \in Nat
           /\ row'[r].summary \in BOOLEAN
           /\ generated'[r] \in Nat /\ sent'[r] \in Nat /\ faults' \in Nat
<1>1. row'[r] \in Row
  BY DEF PipelineInv, PipelineTypeOK, LifecycleTypeOK
<1>2. /\ row'[r].attempt \in Nat /\ row'[r].deliveryAttempt \in Nat
      /\ row'[r].summary \in BOOLEAN
  BY <1>1 DEF Row
<1>3. generated'[r] \in Nat /\ sent'[r] \in Nat /\ faults' \in Nat
  BY BudgetsAssumption DEF PipelineInv, PipelineTypeOK
<1>4. QED BY <1>2, <1>3

\* A lease has one holder, and is of one stage.
LEMMA OneOwner ==
    ASSUME PipelineInv, NEW r \in Runs, NEW v \in Workers, NEW w \in Workers,
           Run(v) = r, Run(w) = r, worker[v].pc \in Holding, worker[w].pc \in Holding,
           NEW stage \in Leased, NEW other \in Leased,
           Owns(r, Token(v), stage), Owns(r, Token(w), other)
    PROVE  v = w /\ stage = other
BY DEF PipelineInv, Owns

\* A claim: nobody owned the run, and nobody else does now.
LEMMA ClaimRow ==
    ASSUME PipelineInv, NEW r \in Runs, NEW w \in Workers, Run(w) = r, ~At(w, "idle"),
           ClaimProcessing(r) \/ ClaimDelivery(r)
    PROVE  /\ row[r].status \notin Terminal
           /\ row'[r].summary = row[r].summary
           /\ \A v \in Workers, stage \in Leased :
                 Run(v) = r /\ worker[v].pc \in Holding
                 => ~Owns(r, Token(v), stage) /\ ~OwnsAfter(r, Token(v), stage)
           /\ \A pc \in Holding, stage \in Leased : ~Closing(r, pc, stage)
           /\ ClaimProcessing(r) =>
                /\ row'[r].attempt = row[r].attempt + 1
                /\ row'[r].deliveryAttempt = row[r].deliveryAttempt
                /\ ~row[r].summary
                /\ OwnsAfter(r, ClaimsOf(r) + 1, "processing")
           /\ ClaimDelivery(r) =>
                /\ row'[r].attempt = row[r].attempt
                /\ row'[r].deliveryAttempt = row[r].deliveryAttempt + 1
                /\ row[r].summary
                /\ OwnsAfter(r, ClaimsOf(r) + 1, "delivering")
<1>1. LifecycleTypeOK /\ RowInv(r)
  BY Basics
<1>2. \A v \in Workers, stage \in Leased :
         Run(v) = r /\ worker[v].pc \in Holding
         => ~Owns(r, Token(v), stage) /\ ~OwnsAfter(r, Token(v), stage)
  BY <1>1, BudgetTypes, ClaimLeases
<1>3. row[r].status \notin Terminal
  BY <1>1, ClaimLeases
<1>4. \A pc \in Holding, stage \in Leased : ~Closing(r, pc, stage)
  BY <1>2, <1>3 DEF Closing, Here
<1>5. QED BY <1>1, <1>2, <1>3, <1>4, ClaimLeases

\* The counters and the text after each course.
LEMMA CourseRow ==
    ASSUME PipelineInv, NEW r \in Runs, NEW w \in Workers, Run(w) = r,
           ~At(w, "idle"), Course(w)
    PROVE  /\ Quits(w) \/ Begins(w) \/ Sends(w) => NoClaim(r)
           /\ Stores(w) => /\ SameClaims(r) /\ row'[r].summary /\ ~row[r].summary
                           /\ Owns(r, Token(w), "processing")
           /\ Faults(w) => \/ NoClaim(r)
                           \/ ClaimProcessing(r) \/ ClaimDelivery(r)
                           \/ /\ SameClaims(r) /\ row'[r].summary /\ ~row[r].summary
                              /\ At(w, "store") /\ Owns(r, Token(w), "processing")
<1>1. At(w, "store") => worker[w].pc \in Holding
  BY DEF At, Holding, WorkerSteps
<1>2. At(w, "store") /\ StoreDeliveryPayload(r, Token(w)) =>
         /\ SameClaims(r) /\ row'[r].summary /\ ~row[r].summary
         /\ Owns(r, Token(w), "processing")
  BY <1>1, HolderStatements
<1>3. row' = row => NoClaim(r)
  BY DEF NoClaim, SameClaims
<1>4. QED BY <1>2, <1>3 DEF Quits, Begins, Sends, Stores, Faults

\* Who is where after it.
LEMMA CourseHere ==
    ASSUME PipelineInv, NEW r \in Runs, NEW w \in Workers, Run(w) = r,
           Turn(w), Course(w)
    PROVE  /\ \A places : \A v : v # w => (v \in Here(r, places)' <=> v \in Here(r, places))
           /\ \A places : w \in Here(r, places) <=> worker[w].pc \in places
           /\ Quits(w) \/ Faults(w) =>
                \A places \in SUBSET Watched : w \notin Here(r, places)'
           /\ ~Quits(w) /\ ~Faults(w) =>
                \A places : w \in Here(r, places)' <=> worker'[w].pc \in places
<1>1. \A v \in Workers \ {w} : worker'[v] = worker[v]
  BY DEF Turn, OthersStay
<1>2. ~Quits(w) /\ ~Faults(w) => worker'[w].run = r
  BY DEF Course, TakesProcessing, TakesDelivery, TakesLease, Claims, Begins, Stores,
         Sends, GoesOn, Proceeds, Run
<1>3. ASSUME NEW places
      PROVE  \A v : v # w => (v \in Here(r, places)' <=> v \in Here(r, places))
  BY <1>1 DEF Here, Run
<1>4. ASSUME NEW places
      PROVE  /\ w \in Here(r, places) <=> worker[w].pc \in places
             /\ worker'[w].run = r
                => (w \in Here(r, places)' <=> worker'[w].pc \in places)
             /\ w \in Here(r, places)' => worker'[w].pc \in places
  BY DEF Here, Run
<1>5. Quits(w) \/ Faults(w) => worker'[w].pc \notin Watched
  BY DEF Quits, Faults
<1>6. QED BY <1>2, <1>3, <1>4, <1>5

\* The places before and after each course.
LEMMA CoursePlaces ==
    ASSUME NEW w \in Workers, Course(w)
    PROVE  /\ TakesProcessing(w) =>
                /\ worker[w].pc = "claimProcessing"
                /\ worker'[w].pc = AfterProcessingClaim(row[Run(w)].attempt + 1)
           /\ TakesDelivery(w) =>
                /\ worker[w].pc \in {"claimDelivery", "claimReady"}
                /\ worker'[w].pc \in {"send", "undeliverable"}
           /\ Begins(w) => worker[w].pc = "lookup" /\ worker'[w].pc = "generate"
           /\ Stores(w) => worker[w].pc = "store" /\ worker'[w].pc = "claimReady"
           /\ Sends(w) => worker[w].pc = "send" /\ worker'[w].pc = "complete"
           /\ ~Quits(w) /\ ~Faults(w) => UNCHANGED faults
BY DEF Course, TakesProcessing, TakesDelivery, TakesLease, Claims, Begins, Stores,
       Sends, GoesOn, Proceeds, At

\* Every computation belongs to a claim within the budget.
LEMMA ComputationsKept ==
    ASSUME PipelineInv, PipelineInv', NEW r \in Runs, NEW w \in Workers, Run(w) = r,
           ~At(w, "idle"), Turn(w), Course(w), Computations(r)
    PROVE  Computations(r)'
<1> DEFINE C == Computing(r)
           D == Computing(r)'
           n == Cardinality(C)
           m == Cardinality(D)
           g == generated[r]
           h == generated'[r]
           a == row[r].attempt
           b == row'[r].attempt
<1>1. /\ IsFiniteSet(C) /\ g + n <= a /\ g + n <= MAX_ATTEMPTS
  BY DEF Computations
<1>2. \A v : v # w => (v \in D <=> v \in C)
  BY CourseHere DEF Computing
<1>3. /\ w \in C <=> worker[w].pc \in {"lookup", "generate"}
      /\ Quits(w) \/ Faults(w) => w \notin D
      /\ ~Quits(w) /\ ~Faults(w) =>
            (w \in D <=> worker'[w].pc \in {"lookup", "generate"})
  BY CourseHere DEF Computing, Watched
<1>4. /\ IsFiniteSet(D) /\ n \in Nat /\ m \in Nat
      /\ (w \in D <=> w \in C) => m = n
      /\ w \in D /\ w \notin C => m = n + 1
      /\ w \notin D /\ w \in C => m = n - 1
  <2> HIDE DEF C, D
  <2>1. QED BY <1>1, <1>2, SetStep
<1>5. g \in Nat /\ h \in Nat /\ a \in Nat /\ b \in Nat /\ MAX_ATTEMPTS \in Nat
  BY BudgetTypes, BudgetTypesNext, BudgetsAssumption
<1>6. /\ ~TakesProcessing(w) => b \in {a, a + 1}
      /\ TakesProcessing(w) => b = a + 1
  BY CourseRow, ClaimRow DEF Course, NoClaim, SameClaims, TakesProcessing, TakesDelivery
<1>7. /\ Quits(w) \/ Faults(w) => h = g \/ (At(w, "generate") /\ h = g + 1)
      /\ ~Quits(w) /\ ~Faults(w) => h = g
  <2>1. Quits(w) \/ Faults(w) => Computed(w)
    BY DEF Quits, Faults
  <2>2. ~Quits(w) /\ ~Faults(w) => h = g
    BY DEF Course, TakesProcessing, TakesDelivery, TakesLease, Begins, Stores, Sends, Silent
  <2>3. QED BY <2>1, <2>2 DEF Computed
<1>8. /\ TakesProcessing(w) /\ w \in D => a + 1 <= MAX_ATTEMPTS
      /\ TakesProcessing(w) => w \notin C
      /\ At(w, "generate") => w \in C
      /\ ~Quits(w) /\ ~Faults(w) /\ ~TakesProcessing(w) => (w \in D <=> w \in C)
  <2>1. CASE TakesProcessing(w) /\ ~Quits(w) /\ ~Faults(w)
    BY <1>3, <1>5, <2>1, CoursePlaces, BudgetsAssumption DEF AfterProcessingClaim, At
  <2>2. CASE Quits(w) \/ Faults(w)
    BY <1>3, <2>2, CoursePlaces DEF At
  <2>3. CASE TakesDelivery(w) \/ Begins(w) \/ Stores(w) \/ Sends(w)
    BY <1>3, <2>3, CoursePlaces DEF At
  <2>4. QED BY <2>1, <2>2, <2>3 DEF Course
<1>9. h + m <= b /\ h + m <= MAX_ATTEMPTS
  <2> HIDE DEF C, D, n, m, g, h, a, b
  <2>1. CASE Quits(w) \/ Faults(w)
    BY <1>1, <1>3, <1>4, <1>5, <1>6, <1>7, <1>8, <2>1
  <2>2. CASE ~Quits(w) /\ ~Faults(w) /\ TakesProcessing(w)
    BY <1>1, <1>4, <1>5, <1>6, <1>7, <1>8, <2>2
  <2>3. CASE ~Quits(w) /\ ~Faults(w) /\ ~TakesProcessing(w)
    BY <1>1, <1>4, <1>5, <1>6, <1>7, <1>8, <2>3
  <2>4. QED BY <2>1, <2>2, <2>3
<1>10. QED BY <1>4, <1>9 DEF Computations

\* An ending that is owed stays owed until its owner, or a fault, takes it.
LEMMA ClosingKept ==
    ASSUME PipelineInv, NEW r \in Runs, NEW w \in Workers, Run(w) = r,
           ~At(w, "idle"), Turn(w),
           NEW pc \in Holding, NEW stage \in Leased,
           At(w, pc) /\ Owns(r, Token(w), stage) => row'[r].status \in Terminal,
           Closing(r, pc, stage)
    PROVE  Closing(r, pc, stage)'
<1>1. CASE row[r].status \in Terminal
  BY <1>1 DEF Turn, Closing
<1>2. CASE \E v \in Here(r, {pc}) : Owns(r, Token(v), stage)
  <2>1. PICK v \in Workers : /\ Run(v) = r /\ worker[v].pc = pc
                             /\ Owns(r, Token(v), stage)
    BY <1>2 DEF Here
  <2>2. CASE v = w
    BY <2>1, <2>2 DEF At, Closing
  <2>3. CASE v # w
    <3>1. worker'[v] = worker[v] /\ LeaseStays(r, Token(v))
      BY <2>1, <2>3 DEF Turn, OthersStay
    <3>2. OwnsAfter(r, worker'[v].token, stage)
      BY <2>1, <3>1 DEF LeaseStays, Token
    <3>3. v \in Here(r, {pc})' /\ Owns(r, Token(v), stage)'
      BY <2>1, <3>1, <3>2 DEF Here, Run, Token, Owns, OwnsAfter
    <3>4. QED BY <3>3 DEF Closing
  <2>4. QED BY <2>2, <2>3
<1>3. QED BY <1>1, <1>2 DEF Closing

\* The worker that takes the lease owns it at the place it goes to.
LEMMA TakerOwns ==
    ASSUME PipelineInv, NEW r \in Runs, NEW w \in Workers, Run(w) = r,
           ~At(w, "idle"), Turn(w),
           NEW pc \in WorkerSteps, TakesLease(w, pc), NEW stage \in Leased,
           OwnsAfter(r, ClaimsOf(r) + 1, stage)
    PROVE  w \in Here(r, {pc})' /\ Owns(r, Token(w), stage)' /\ Closing(r, pc, stage)'
<1>1. /\ worker'[w].run = r /\ worker'[w].pc = pc
      /\ worker'[w].token = ClaimsOf(r) + 1
  BY DEF TakesLease, Claims, Run
<1>2. w \in Here(r, {pc})'
  BY <1>1 DEF Here, Run
<1>3. Owns(r, Token(w), stage)'
  BY <1>1 DEF OwnsAfter, Owns, Token
<1>4. QED BY <1>2, <1>3 DEF Closing

\* The extra commit is one or none, and is bought by the stored text.
LEMMA ExtraValue ==
    ASSUME NEW r \in Runs
    PROVE  /\ Extra(r) \in {0, 1} /\ Extra(r)' \in {0, 1}
           /\ Unstreamed(r) => Extra(r) = 0
           /\ ~Unstreamed(r) => Extra(r) = 1
           /\ Unstreamed(r)' => Extra(r)' = 0
           /\ ~Unstreamed(r)' => Extra(r)' = 1
BY DEF Extra

\* The text is stored once, and its worker alone is at the commit.
LEMMA StreamKept ==
    ASSUME PipelineInv, PipelineInv', NEW r \in Runs, NEW w \in Workers, Run(w) = r,
           ~At(w, "idle"), Turn(w), Course(w), StreamInv(r)
    PROVE  /\ StreamInv(r)'
           /\ Extra(r) <= Extra(r)'
           /\ TakesDelivery(w) /\ At(w, "claimReady") => Extra(r) = 0 /\ Extra(r)' = 1
<1> DEFINE C == Here(r, {"claimReady"})
           D == Here(r, {"claimReady"})'
<1>1. /\ \A v : v # w => (v \in D <=> v \in C)
      /\ w \in C <=> worker[w].pc = "claimReady"
      /\ Quits(w) \/ Faults(w) => w \notin D
      /\ ~Quits(w) /\ ~Faults(w) => (w \in D <=> worker'[w].pc = "claimReady")
  BY CourseHere DEF Watched
<1>2. /\ \A u, v \in C : u = v
      /\ C # {} => row[r].summary
      /\ row[r].deliveryAttempt > 0 => row[r].summary
  BY DEF StreamInv
<1>3. Unstreamed(r) <=> ~row[r].summary \/ C # {}
  BY DEF Unstreamed
<1>4. Unstreamed(r)' <=> ~row'[r].summary \/ D # {}
  BY DEF Unstreamed
<1>5. row[r].summary => row'[r].summary
  BY DEF Turn
<1>6. /\ Stores(w) => ~row[r].summary /\ row'[r].summary
      /\ ~Stores(w) => w \notin D
      /\ TakesDelivery(w) /\ At(w, "claimReady") => w \in C
  <2>1. ~Stores(w) => w \notin D
    BY <1>1, CoursePlaces DEF Course, AfterProcessingClaim
  <2>2. Stores(w) => ~row[r].summary /\ row'[r].summary
    BY CourseRow
  <2>3. QED BY <1>1, <2>1, <2>2 DEF At
<1>7. /\ row[r].deliveryAttempt \in Nat /\ row'[r].deliveryAttempt \in Nat
      /\ row'[r].deliveryAttempt # row[r].deliveryAttempt => row[r].summary
  BY BudgetTypes, BudgetTypesNext, CourseRow, ClaimRow
     DEF Course, NoClaim, SameClaims, TakesProcessing, TakesDelivery
<1> HIDE DEF C, D
<1>8. /\ \A u, v \in D : u = v
      /\ D # {} => row'[r].summary
  BY <1>1, <1>2, <1>5, <1>6
<1>9. row'[r].deliveryAttempt > 0 => row'[r].summary
  BY <1>2, <1>5, <1>7
<1>10. StreamInv(r)'
  BY <1>8, <1>9 DEF StreamInv, D
<1>11. Unstreamed(r)' => Unstreamed(r)
  BY <1>1, <1>3, <1>4, <1>5, <1>6
<1>12. TakesDelivery(w) /\ At(w, "claimReady") => Unstreamed(r) /\ ~Unstreamed(r)'
  <2>1. SUFFICES ASSUME TakesDelivery(w), At(w, "claimReady")
                 PROVE  Unstreamed(r) /\ ~Unstreamed(r)'
    OBVIOUS
  <2>2. w \in C /\ ~Stores(w)
    BY <1>6, <2>1, CoursePlaces DEF At
  <2>3. D = {}
    BY <1>1, <1>2, <1>6, <2>2
  <2>4. QED BY <1>2, <1>3, <1>4, <1>5, <2>2, <2>3
<1>13. QED BY <1>10, <1>11, <1>12, ExtraValue

\* A worker at a place with a claim came there with it, or took it now.
LEMMA HoldersStay ==
    ASSUME PipelineInv, NEW w \in Workers, WorkerStep(w), worker'[w].pc \in Holding
    PROVE  \/ /\ worker[w].pc \in Holding /\ ~At(w, "exhausted")
              /\ worker'[w].run = Run(w) /\ worker'[w].token = Token(w)
           \/ TakesProcessing(w) \/ TakesDelivery(w)
<1> DEFINE Same == /\ worker[w].pc \in Holding /\ ~At(w, "exhausted")
                   /\ worker'[w].run = Run(w) /\ worker'[w].token = Token(w)
<1>1. ~At(w, "idle") /\ worker \in [Workers -> Worker]
  BY WorkerEffect, Basics
<1>2. /\ \A pc \in WorkerSteps : Goto(w, pc) => Proceeds(w, pc)
      /\ ~MessageRetry(w) /\ worker' # [worker EXCEPT ![w] = NoJob]
  BY <1>1, Whereto DEF Holding
<1>3. CASE ClaimWorkProcessing(w)
  BY <1>3, ProcessingCourse
<1>4. CASE ClaimWorkDelivery(w)
  <2>1. At(w, "claimDelivery") /\ UNCHANGED history
    BY <1>4 DEF ClaimWorkDelivery
  <2>2. NoFault /\ ClaimDelivery(Run(w)) /\ HoldDelivery(w, TRUE)
    BY <1>2, <1>4 DEF ClaimWorkDelivery, Uncaught, Proceeds, WorkerSteps, Holding
  <2>3. QED BY <2>1, <2>2, DeliveryCourse
<1>5. CASE ClaimReady(w)
  <2>1. At(w, "claimReady") /\ UNCHANGED history /\ ~At(w, "claimDelivery")
    BY <1>5 DEF ClaimReady, At
  <2>2. CASE NoFault /\ ClaimDelivery(Run(w)) /\ HoldDelivery(w, ~worker[w].finalizing)
    <3>1. (~worker[w].finalizing) \in BOOLEAN
      OBVIOUS
    <3>2. QED BY <2>1, <2>2, <3>1, DeliveryCourse
  <2>3. CASE Goto(w, "again") \/ Goto(w, "failProcessing")
    BY <1>2, <2>1, <2>3 DEF Proceeds, WorkerSteps, Holding, At, Run, Token
  <2>4. QED BY <1>5, <2>2, <2>3 DEF ClaimReady, Caught
<1>6. CASE Generate(w)
  <2>1. worker[w].pc \in Holding /\ ~At(w, "exhausted")
    BY <1>6 DEF Generate, At, Holding, WorkerSteps
  <2>2. ASSUME NEW streamed \in BOOLEAN,
               worker' = [worker EXCEPT ![w].pc = "store", ![w].finalizing = streamed]
        PROVE  Same
    BY <1>1, <2>1, <2>2 DEF Worker, Run, Token
  <2>3. \A pc \in WorkerSteps : Goto(w, pc) => Same
    BY <1>2, <2>1 DEF Proceeds, Run, Token
  <2>4. QED BY <1>6, <2>2, <2>3 DEF Generate, Retryable, WorkerSteps
<1>7. CASE \/ FailExhausted(w) \/ ClaimWorkGet(w)
           \/ Ack(w) \/ Reschedule(w) \/ Crash(w)
  <2>1. \E pc \in {"done", "again", "claimDelivery"} : Goto(w, pc)
    BY <1>2, <1>7 DEF FailExhausted, ClaimWorkGet, Ack, Reschedule, Crash, Fenced,
                      Uncaught
  <2>2. QED BY <1>2, <2>1 DEF Proceeds, WorkerSteps, Holding
<1>8. CASE \/ LookupOutcome(w) \/ RejectPayload(w) \/ FailInvalid(w) \/ Store(w)
           \/ FailProcessing(w) \/ RetryProcessing(w) \/ FailUndeliverable(w)
           \/ Send(w) \/ Complete(w) \/ FailDelivery(w) \/ RetryDelivery(w)
  <2>1. worker[w].pc \in Holding /\ ~At(w, "exhausted")
    BY <1>8 DEF LookupOutcome, RejectPayload, FailInvalid, Store, FailProcessing,
                RetryProcessing, FailUndeliverable, Send, Complete, FailDelivery,
                RetryDelivery, At, Holding, WorkerSteps
  <2>2. \E pc \in WorkerSteps : Goto(w, pc)
    BY <1>2, <1>8
       DEF LookupOutcome, RejectPayload, FailInvalid, Store, FailProcessing,
           RetryProcessing, FailUndeliverable, Send, Complete, FailDelivery,
           RetryDelivery, Fenced, Caught, Uncaught, WorkerSteps
  <2>3. QED BY <1>2, <2>1, <2>2 DEF Proceeds, Run, Token
<1>9. QED
  BY <1>3, <1>4, <1>5, <1>6, <1>7, <1>8 DEF WorkerStep, ProcessorStep

\* Beyond the budget there is no text, and the holder is about to give up.
LEMMA SpentKept ==
    ASSUME PipelineInv, PipelineInv', NEW r \in Runs, NEW w \in Workers, Run(w) = r,
           WorkerStep(w), Turn(w), Course(w), SpentInv(r)
    PROVE  SpentInv(r)'
<1>1. /\ ~At(w, "idle") /\ WorkerMoves(w) /\ Advances(r)
  BY WorkerEffect DEF Effect, RowsOK, StoreStep
<1> SUFFICES ASSUME row'[r].attempt > MAX_ATTEMPTS
             PROVE  /\ ~row'[r].summary
                    /\ \A v \in Workers :
                          /\ worker'[v].run = r /\ worker'[v].pc \in Holding
                          /\ OwnsAfter(r, worker'[v].token, "processing")
                          => worker'[v].pc = "exhausted"
  BY DEF SpentInv, Run, At, Token, Owns, OwnsAfter
<1>2. /\ row[r].attempt \in Nat /\ row'[r].attempt \in Nat /\ MAX_ATTEMPTS \in Nat
      /\ \A v \in Workers : Run(v) = r /\ worker[v].pc \in Holding
                            => Token(v) \in 1..ClaimsOf(r)
  BY BudgetTypes, BudgetTypesNext, BudgetsAssumption
<1>3. CASE ClaimProcessing(r)
  <2>1. /\ ~row'[r].summary
        /\ \A v \in Workers : Run(v) = r /\ worker[v].pc \in Holding
                              => ~OwnsAfter(r, Token(v), "processing")
        /\ row'[r].attempt = row[r].attempt + 1
    BY <1>1, <1>3, ClaimRow DEF Leased
  <2>2. ASSUME NEW v \in Workers \ {w}, worker'[v].run = r, worker'[v].pc \in Holding,
               OwnsAfter(r, worker'[v].token, "processing")
        PROVE  FALSE
    BY <2>1, <2>2 DEF Turn, OthersStay, Run, Token
  <2>3. ASSUME worker'[w].run = r, worker'[w].pc \in Holding,
               OwnsAfter(r, worker'[w].token, "processing")
        PROVE  worker'[w].pc = "exhausted"
    <3>1. CASE TakesProcessing(w)
      BY <1>2, <2>1, <3>1, CoursePlaces DEF AfterProcessingClaim
    <3>2. CASE TakesDelivery(w)
      BY <1>1, <1>3, <3>2, ClaimRow DEF TakesDelivery
    <3>3. CASE worker[w].pc \in Holding /\ worker'[w].token = Token(w)
      BY <2>1, <2>3, <3>3
    <3>4. QED BY <2>3, <3>1, <3>2, <3>3, HoldersStay
  <2>4. QED BY <2>1, <2>2, <2>3
<1>4. CASE ~ClaimProcessing(r)
  <2>1. row'[r].attempt = row[r].attempt
    BY <1>1, <1>4, CourseRow, ClaimRow
       DEF Course, NoClaim, SameClaims, TakesProcessing, TakesDelivery
  <2>2. /\ ~row[r].summary
        /\ \A v \in Workers : /\ Run(v) = r /\ worker[v].pc \in Holding
                              /\ Owns(r, Token(v), "processing")
                              => worker[v].pc = "exhausted"
    BY <2>1 DEF SpentInv, At
  <2>3. ~row'[r].summary
    <3>1. ~(At(w, "store") /\ Owns(r, Token(w), "processing"))
      BY <2>2 DEF At, Holding, WorkerSteps
    <3>2. Stores(w) => At(w, "store")
      BY DEF Stores
    <3>3. QED BY <1>1, <2>2, <3>1, <3>2, CourseRow, ClaimRow
          DEF Course, NoClaim, TakesProcessing, TakesDelivery
  <2>4. ASSUME NEW v \in Workers \ {w}, worker'[v].run = r, worker'[v].pc \in Holding,
               OwnsAfter(r, worker'[v].token, "processing")
        PROVE  worker'[v].pc = "exhausted"
    <3>1. worker'[v] = worker[v] /\ LeaseStays(r, Token(v))
      BY <2>4 DEF Turn, OthersStay, Run
    <3>2. QED BY <2>2, <2>4, <3>1 DEF LeaseStays, Leased, Run, Token
  <2>5. ~(/\ worker'[w].run = r /\ worker'[w].pc \in Holding
          /\ OwnsAfter(r, worker'[w].token, "processing"))
    <3>1. SUFFICES ASSUME worker'[w].run = r, worker'[w].pc \in Holding,
                          OwnsAfter(r, worker'[w].token, "processing")
                   PROVE  FALSE
      OBVIOUS
    <3>2. CASE TakesProcessing(w)
      BY <1>4, <3>2 DEF TakesProcessing
    <3>3. CASE TakesDelivery(w)
      <4>1. row'[r].status = "delivering"
        BY <1>1, <3>3, ClaimRow DEF TakesDelivery, OwnsAfter
      <4>2. QED BY <3>1, <4>1 DEF OwnsAfter
    <3>4. CASE /\ worker[w].pc \in Holding /\ ~At(w, "exhausted")
               /\ worker'[w].token = Token(w)
      <4>1. OwnsNext(r, Token(w))
        BY <3>1, <3>4 DEF OwnsAfter, OwnsNext
      <4>2. Owns(r, Token(w), "processing")
        BY <1>1, <1>2, <3>4, <4>1 DEF Advances
      <4>3. QED BY <2>2, <3>4, <4>2 DEF At
    <3>5. QED BY <3>1, <3>2, <3>3, <3>4, HoldersStay
  <2>6. QED BY <2>3, <2>4, <2>5
<1>5. QED BY <1>3, <1>4

\* A claim within the budget is free, the one that finds it spent ends the run,
\* and every other costs a fault.
LEMMA ProcessingClaimsKept ==
    ASSUME PipelineInv, PipelineInv', NEW r \in Runs, NEW w \in Workers, Run(w) = r,
           ~At(w, "idle"), Turn(w), Course(w), ProcessingClaims(r)
    PROVE  ProcessingClaims(r)'
<1> DEFINE Owed == Closing(r, "exhausted", "processing")
           OwedNext == Closing(r, "exhausted", "processing")'
           a == row[r].attempt
           b == row'[r].attempt
           f == faults
           k == faults'
<1>1. \/ a <= MAX_ATTEMPTS + f
      \/ a <= MAX_ATTEMPTS + f + 1 /\ Owed
  BY DEF ProcessingClaims
<1>2. /\ a \in Nat /\ b \in Nat /\ f \in Nat /\ k \in Nat /\ f <= k
      /\ MAX_ATTEMPTS \in Nat
  BY BudgetTypes, BudgetTypesNext, BudgetsAssumption DEF Turn
<1>3. "exhausted" \in Holding /\ "processing" \in Leased
  BY DEF Holding, WorkerSteps, Leased
<1>4. ~Faults(w) /\ ~TakesProcessing(w) => (Owed => OwedNext)
  <2>1. At(w, "exhausted") /\ ~Faults(w) => Quits(w)
    BY CoursePlaces DEF Course, At
  <2>2. Quits(w) /\ At(w, "exhausted") /\ Owns(r, Token(w), "processing")
        => row'[r].status \in Terminal
    BY DEF Quits
  <2>3. QED BY <1>3, <2>1, <2>2, ClosingKept
<1>5. ClaimProcessing(r) => ~Owed /\ b = a + 1
  BY <1>3, ClaimRow
<1>6. ~ClaimProcessing(r) => b = a
  BY CourseRow, ClaimRow DEF Course, NoClaim, SameClaims, TakesProcessing, TakesDelivery
<1>7. Faults(w) => k = f + 1
  BY DEF Faults
<1>8. TakesProcessing(w) => a + 1 <= MAX_ATTEMPTS \/ OwedNext
  <2>1. SUFFICES ASSUME TakesProcessing(w), ~(a + 1 <= MAX_ATTEMPTS)
                 PROVE  OwedNext
    OBVIOUS
  <2>2. AfterProcessingClaim(a + 1) = "exhausted"
    BY <1>2, <2>1 DEF AfterProcessingClaim
  <2>3. TakesLease(w, "exhausted")
    BY <2>1, <2>2 DEF TakesProcessing
  <2>4. OwnsAfter(r, ClaimsOf(r) + 1, "processing")
    BY <2>1, ClaimRow DEF TakesProcessing
  <2>5. QED BY <1>3, <2>3, <2>4, TakerOwns DEF Holding
<1>9. ClaimProcessing(r) => Faults(w) \/ TakesProcessing(w)
  <2>1. SUFFICES ASSUME ClaimProcessing(r) PROVE Faults(w) \/ TakesProcessing(w)
    OBVIOUS
  <2>2. b # a
    BY <1>2, <1>5, <2>1
  <2>3. ~Quits(w) /\ ~Begins(w) /\ ~Stores(w) /\ ~Sends(w)
    BY <2>2, CourseRow DEF NoClaim, SameClaims
  <2>4. ~TakesDelivery(w)
    BY <2>2, ClaimRow DEF TakesDelivery
  <2>5. QED BY <2>3, <2>4 DEF Course
<1>10. \/ b <= MAX_ATTEMPTS + k
       \/ b <= MAX_ATTEMPTS + k + 1 /\ OwedNext
  <2> HIDE DEF a, b, f, k, Owed, OwedNext
  <2>1. CASE Faults(w)
    BY <1>1, <1>2, <1>5, <1>6, <1>7, <2>1
  <2>2. CASE ~Faults(w) /\ ClaimProcessing(r)
    <3>1. b = a + 1
      BY <1>5, <2>2
    <3>2. a <= MAX_ATTEMPTS + f
      BY <1>1, <1>5, <2>2
    <3>3. OwedNext \/ a + 1 <= MAX_ATTEMPTS
      BY <1>8, <1>9, <2>2
    <3>4. b <= MAX_ATTEMPTS + k + 1
      BY <1>2, <3>1, <3>2
    <3>5. a + 1 <= MAX_ATTEMPTS => b <= MAX_ATTEMPTS + k
      BY <1>2, <3>1
    <3>6. QED BY <3>3, <3>4, <3>5
  <2>3. CASE ~Faults(w) /\ ~ClaimProcessing(r)
    <3>1. b = a
      BY <1>6, <2>3
    <3>2. Owed => OwedNext
      BY <1>4, <2>3 DEF TakesProcessing
    <3>3. a <= MAX_ATTEMPTS + f => b <= MAX_ATTEMPTS + k
      BY <1>2, <3>1
    <3>4. a <= MAX_ATTEMPTS + f + 1 => b <= MAX_ATTEMPTS + k + 1
      BY <1>2, <3>1
    <3>5. QED BY <1>1, <3>2, <3>3, <3>4
  <2>4. QED BY <2>1, <2>2, <2>3
<1>11. QED BY <1>10 DEF ProcessingClaims

\* Delivery claims stay within the budget, the faults, the extra commit and the one
\* claim that ends the run.
LEMMA DeliveryClaimsKept ==
    ASSUME PipelineInv, PipelineInv', NEW r \in Runs, NEW w \in Workers, Run(w) = r,
           ~At(w, "idle"), Turn(w), Course(w), StreamInv(r), DeliveryClaims(r)
    PROVE  DeliveryClaims(r)'
<1> DEFINE Owed == Closing(r, "undeliverable", "delivering")
           OwedNext == Closing(r, "undeliverable", "delivering")'
           a == row[r].deliveryAttempt
           b == row'[r].deliveryAttempt
           f == faults
           k == faults'
           x == Extra(r)
           y == Extra(r)'
<1>1. \/ a <= MAX_DELIVERY_ATTEMPTS + f + x
      \/ a <= MAX_DELIVERY_ATTEMPTS + f + x + 1 /\ Owed
  BY DEF DeliveryClaims
<1>2. /\ a \in Nat /\ b \in Nat /\ f \in Nat /\ k \in Nat /\ f <= k
      /\ MAX_DELIVERY_ATTEMPTS \in Nat
      /\ x \in {0, 1} /\ y \in {0, 1} /\ x <= y
      /\ TakesDelivery(w) /\ At(w, "claimReady") => x = 0 /\ y = 1
  BY BudgetTypes, BudgetTypesNext, BudgetsAssumption, ExtraValue, StreamKept DEF Turn
<1>3. "undeliverable" \in Holding /\ "delivering" \in Leased
  BY DEF Holding, WorkerSteps, Leased
<1>4. ~Faults(w) /\ ~TakesDelivery(w) => (Owed => OwedNext)
  <2>1. At(w, "undeliverable") /\ ~Faults(w) => Quits(w)
    BY CoursePlaces DEF Course, At
  <2>2. Quits(w) /\ At(w, "undeliverable") /\ Owns(r, Token(w), "delivering")
        => row'[r].status \in Terminal
    BY DEF Quits
  <2>3. QED BY <1>3, <2>1, <2>2, ClosingKept
<1>5. ClaimDelivery(r) => ~Owed /\ b = a + 1
  BY <1>3, ClaimRow
<1>6. ~ClaimDelivery(r) => b = a
  BY CourseRow, ClaimRow DEF Course, NoClaim, SameClaims, TakesProcessing, TakesDelivery
<1>7. Faults(w) => k = f + 1
  BY DEF Faults
<1>8. TakesDelivery(w) => \/ a + 1 <= MAX_DELIVERY_ATTEMPTS
                          \/ OwedNext
                          \/ At(w, "claimReady")
  <2>1. ASSUME TakesDelivery(w), TakesLease(w, "undeliverable")
        PROVE  OwedNext
    <3>1. OwnsAfter(r, ClaimsOf(r) + 1, "delivering")
      BY <2>1, ClaimRow DEF TakesDelivery
    <3>2. QED BY <1>3, <2>1, <3>1, TakerOwns DEF Holding
  <2>2. QED BY <2>1 DEF TakesDelivery
<1>9. ClaimDelivery(r) => Faults(w) \/ TakesDelivery(w)
  <2>1. SUFFICES ASSUME ClaimDelivery(r) PROVE Faults(w) \/ TakesDelivery(w)
    OBVIOUS
  <2>2. b # a
    BY <1>2, <1>5, <2>1
  <2>3. ~Quits(w) /\ ~Begins(w) /\ ~Stores(w) /\ ~Sends(w)
    BY <2>2, CourseRow DEF NoClaim, SameClaims
  <2>4. ~TakesProcessing(w)
    BY <2>2, ClaimRow DEF TakesProcessing
  <2>5. QED BY <2>3, <2>4 DEF Course
<1>10. \/ b <= MAX_DELIVERY_ATTEMPTS + k + y
       \/ b <= MAX_DELIVERY_ATTEMPTS + k + y + 1 /\ OwedNext
  <2> HIDE DEF a, b, f, k, x, y, Owed, OwedNext
  <2>1. CASE Faults(w)
    BY <1>1, <1>2, <1>5, <1>6, <1>7, <2>1
  <2>2. CASE ~Faults(w) /\ ClaimDelivery(r)
    <3>1. b = a + 1
      BY <1>5, <2>2
    <3>2. a <= MAX_DELIVERY_ATTEMPTS + f + x
      BY <1>1, <1>5, <2>2
    <3>3. OwedNext \/ a + 1 <= MAX_DELIVERY_ATTEMPTS \/ At(w, "claimReady")
      BY <1>8, <1>9, <2>2
    <3>4. b <= MAX_DELIVERY_ATTEMPTS + k + y + 1
      BY <1>2, <3>1, <3>2
    <3>5. a + 1 <= MAX_DELIVERY_ATTEMPTS => b <= MAX_DELIVERY_ATTEMPTS + k + y
      BY <1>2, <3>1
    <3>6. At(w, "claimReady") => b <= MAX_DELIVERY_ATTEMPTS + k + y
      BY <1>2, <1>9, <2>2, <3>1, <3>2
    <3>7. QED BY <3>3, <3>4, <3>5, <3>6
  <2>3. CASE ~Faults(w) /\ ~ClaimDelivery(r)
    <3>1. b = a
      BY <1>6, <2>3
    <3>2. Owed => OwedNext
      BY <1>4, <2>3 DEF TakesDelivery
    <3>3. a <= MAX_DELIVERY_ATTEMPTS + f + x => b <= MAX_DELIVERY_ATTEMPTS + k + y
      BY <1>2, <3>1
    <3>4. a <= MAX_DELIVERY_ATTEMPTS + f + x + 1 => b <= MAX_DELIVERY_ATTEMPTS + k + y + 1
      BY <1>2, <3>1
    <3>5. QED BY <1>1, <3>2, <3>3, <3>4
  <2>4. QED BY <2>1, <2>2, <2>3
<1>11. QED BY <1>10 DEF DeliveryClaims

\* Every message belongs to a delivery claim within the budget, or to the commit.
LEMMA MessagesKept ==
    ASSUME PipelineInv, PipelineInv', NEW r \in Runs, NEW w \in Workers, Run(w) = r,
           ~At(w, "idle"), Turn(w), Course(w), StreamInv(r), Messages(r)
    PROVE  Messages(r)'
<1> DEFINE C == Sending(r)
           D == Sending(r)'
           n == Cardinality(C)
           m == Cardinality(D)
           s == sent[r]
           t == sent'[r]
           a == row[r].deliveryAttempt
           b == row'[r].deliveryAttempt
           x == Extra(r)
           y == Extra(r)'
<1>1. /\ IsFiniteSet(C) /\ s + n <= a + x /\ s + n <= MAX_DELIVERY_ATTEMPTS + x
  BY DEF Messages
<1>2. \A v : v # w => (v \in D <=> v \in C)
  BY CourseHere DEF Sending
<1>3. /\ w \in C <=> worker[w].pc = "send"
      /\ Quits(w) \/ Faults(w) => w \notin D
      /\ ~Quits(w) /\ ~Faults(w) => (w \in D <=> worker'[w].pc = "send")
  BY CourseHere DEF Sending, Watched
<1>4. /\ IsFiniteSet(D) /\ n \in Nat /\ m \in Nat
      /\ (w \in D <=> w \in C) => m = n
      /\ w \in D /\ w \notin C => m = n + 1
      /\ w \notin D /\ w \in C => m = n - 1
  <2> HIDE DEF C, D
  <2>1. QED BY <1>1, <1>2, SetStep
<1>5. /\ s \in Nat /\ t \in Nat /\ a \in Nat /\ b \in Nat
      /\ MAX_DELIVERY_ATTEMPTS \in Nat
      /\ x \in {0, 1} /\ y \in {0, 1} /\ x <= y
      /\ TakesDelivery(w) /\ At(w, "claimReady") => x = 0 /\ y = 1
  BY BudgetTypes, BudgetTypesNext, BudgetsAssumption, ExtraValue, StreamKept
<1>6. /\ ~TakesDelivery(w) => b \in {a, a + 1}
      /\ TakesDelivery(w) => b = a + 1
  BY CourseRow, ClaimRow DEF Course, NoClaim, SameClaims, TakesProcessing, TakesDelivery
<1>7. \/ t = s
      \/ w \in C /\ w \notin D /\ t = s + 1
  <2>1. Quits(w) => t = s
    BY DEF Quits
  <2>2. Faults(w) => t = s \/ (At(w, "send") /\ t = s + 1)
    BY DEF Faults, SentOrNot
  <2>3. TakesProcessing(w) \/ TakesDelivery(w) \/ Begins(w) \/ Stores(w) => t = s
    BY DEF TakesProcessing, TakesDelivery, TakesLease, Begins, Stores, Silent
  <2>4. Sends(w) => /\ worker[w].pc = "send" /\ worker'[w].pc = "complete"
                    /\ t = s + 1
    BY CoursePlaces DEF Sends
  <2>5. QED BY <1>3, <2>1, <2>2, <2>3, <2>4 DEF Course, At
<1>8. /\ w \in D => TakesDelivery(w) /\ w \notin C
      /\ w \in D /\ ~At(w, "claimReady") => a + 1 <= MAX_DELIVERY_ATTEMPTS
  <2>1. w \in D => TakesDelivery(w)
    BY <1>3, CoursePlaces DEF Course, AfterProcessingClaim
  <2>2. TakesDelivery(w) => w \notin C
    BY <1>3, CoursePlaces
  <2>3. w \in D => worker'[w].pc = "send"
    BY <1>3
  <2>4. TakesLease(w, "undeliverable") => worker'[w].pc = "undeliverable"
    BY DEF TakesLease, Claims
  <2>5. QED BY <2>1, <2>2, <2>3, <2>4 DEF TakesDelivery
<1>9. t + m <= b + y /\ t + m <= MAX_DELIVERY_ATTEMPTS + y
  <2> HIDE DEF C, D, n, m, s, t, a, b, x, y
  <2>1. CASE w \in D
    <3>1. m = n + 1 /\ t = s /\ b = a + 1
      BY <1>4, <1>6, <1>7, <1>8, <2>1
    <3>2. CASE At(w, "claimReady")
      BY <1>1, <1>4, <1>5, <1>8, <2>1, <3>1, <3>2
    <3>3. CASE ~At(w, "claimReady")
      BY <1>1, <1>4, <1>5, <1>8, <2>1, <3>1, <3>3
    <3>4. QED BY <3>2, <3>3
  <2>2. CASE w \notin D
    BY <1>1, <1>4, <1>5, <1>6, <1>7, <2>2
  <2>3. QED BY <2>1, <2>2
<1>10. QED BY <1>4, <1>9 DEF Messages

\* One ending is owed, or none.
LEMMA SettlingValue ==
    ASSUME NEW r \in Runs
    PROVE  /\ Settling(r) \in {0, 1} /\ Settling(r)' \in {0, 1}
           /\ Closing(r, "complete", "delivering") <=> Settling(r) = 1
           /\ Closing(r, "complete", "delivering")' <=> Settling(r)' = 1
BY DEF Settling

\* A message sent under the lease leads to the ending of the run, unless a fault
\* intervenes; one sent after the lease was lost was paid for by losing it.
LEMMA DuplicatesKept ==
    ASSUME PipelineInv, PipelineInv', NEW r \in Runs, NEW w \in Workers, Run(w) = r,
           ~At(w, "idle"), Turn(w), Course(w), IsFiniteSet(Sending(r)), Duplicates(r)
    PROVE  Duplicates(r)'
<1> DEFINE C == Stray(r)
           D == Stray(r)'
           n == Cardinality(C)
           m == Cardinality(D)
           s == sent[r]
           t == sent'[r]
           f == faults
           k == faults'
           x == Settling(r)
           y == Settling(r)'
           owner == Owns(r, Token(w), "delivering")
           ownerNext == Owns(r, Token(w), "delivering")'
<1>1. s + n <= f + x
  BY DEF Duplicates
<1>2. \A v : v # w => (v \in D <=> v \in C)
  <2>1. ASSUME NEW v, v # w
        PROVE  v \in D <=> v \in C
    <3>1. v \in Sending(r)' <=> v \in Sending(r)
      BY <2>1, CourseHere DEF Sending
    <3>2. CASE v \notin Sending(r)
      BY <3>1, <3>2 DEF Stray
    <3>3. CASE v \in Sending(r)
      <4>1. /\ v \in Workers /\ Run(v) = r /\ worker[v].pc \in Holding
        BY <3>3 DEF Sending, Here, Holding, WorkerSteps
      <4>2. worker'[v] = worker[v] /\ LeaseStays(r, Token(v))
        BY <2>1, <4>1 DEF Turn, OthersStay
      <4>3. Owns(r, Token(v), "delivering")' <=> Owns(r, Token(v), "delivering")
        BY <4>2 DEF LeaseStays, Leased, OwnsAfter, Owns, Token
      <4>4. QED BY <3>1, <3>3, <4>3 DEF Stray
    <3>4. QED BY <3>2, <3>3
  <2>2. QED BY <2>1
<1>3. /\ w \in C <=> worker[w].pc = "send" /\ ~owner
      /\ Quits(w) \/ Faults(w) => w \notin D
      /\ ~Quits(w) /\ ~Faults(w)
         => (w \in D <=> worker'[w].pc = "send" /\ ~ownerNext)
  BY CourseHere DEF Stray, Sending, Watched
<1>4. /\ n \in Nat /\ m \in Nat
      /\ (w \in D <=> w \in C) => m = n
      /\ w \in D /\ w \notin C => m = n + 1
      /\ w \notin D /\ w \in C => m = n - 1
  <2>1. IsFiniteSet(C)
    BY FS_Subset DEF Stray
  <2> HIDE DEF C, D
  <2>2. QED BY <1>2, <2>1, SetStep
<1>5. /\ s \in Nat /\ t \in Nat /\ f \in Nat /\ k \in Nat /\ f <= k
      /\ x \in {0, 1} /\ y \in {0, 1}
  BY BudgetTypes, BudgetTypesNext, SettlingValue DEF Turn
<1>6. "complete" \in Holding /\ "send" \in Holding /\ "delivering" \in Leased
  BY DEF Holding, WorkerSteps, Leased
<1>7. /\ ~Faults(w) => x <= y
      /\ At(w, "send") /\ owner => x = 0
      /\ ClaimProcessing(r) \/ ClaimDelivery(r) => x = 0
  <2>1. ~Faults(w) /\ Closing(r, "complete", "delivering")
        => Closing(r, "complete", "delivering")'
    <3>1. At(w, "complete") /\ ~Faults(w) => Quits(w)
      BY CoursePlaces DEF Course, At
    <3>2. Quits(w) /\ At(w, "complete") /\ owner => row'[r].status \in Terminal
      BY DEF Quits
    <3>3. QED BY <1>6, <3>1, <3>2, ClosingKept
  <2>2. At(w, "send") /\ owner => ~Closing(r, "complete", "delivering")
    <3>1. SUFFICES ASSUME At(w, "send"), owner
                   PROVE  ~Closing(r, "complete", "delivering")
      OBVIOUS
    <3>2. row[r].status \notin Terminal
      BY <3>1 DEF Owns, Terminal
    <3>3. ASSUME NEW v \in Here(r, {"complete"}), Owns(r, Token(v), "delivering")
          PROVE  FALSE
      <4>1. v \in Workers /\ Run(v) = r /\ worker[v].pc = "complete"
        BY <3>3 DEF Here
      <4>2. v = w
        BY <1>6, <3>1, <3>3, <4>1, OneOwner DEF At
      <4>3. QED BY <3>1, <4>1, <4>2 DEF At
    <3>4. QED BY <3>2, <3>3 DEF Closing
  <2>3. ClaimProcessing(r) \/ ClaimDelivery(r) => ~Closing(r, "complete", "delivering")
    BY <1>6, ClaimRow
  <2>4. QED BY <1>5, <2>1, <2>2, <2>3, SettlingValue
<1>8. Sends(w) /\ owner => y = 1
  <2>1. SUFFICES ASSUME Sends(w), owner PROVE Closing(r, "complete", "delivering")'
    BY SettlingValue
  <2>2. /\ worker'[w].run = r /\ worker'[w].pc = "complete"
        /\ worker'[w].token = Token(w) /\ row' = row
    BY <2>1 DEF Sends, GoesOn, Proceeds, Run, Token
  <2>3. w \in Here(r, {"complete"})'
    BY <2>2 DEF Here, Run
  <2>4. Owns(r, Token(w), "delivering")'
    BY <2>1, <2>2 DEF Owns, Token
  <2>5. QED BY <2>3, <2>4 DEF Closing
<1>9. TakesDelivery(w) => ownerNext
  <2>1. SUFFICES ASSUME TakesDelivery(w) PROVE ownerNext
    OBVIOUS
  <2>2. OwnsAfter(r, ClaimsOf(r) + 1, "delivering")
    BY <2>1, ClaimRow DEF TakesDelivery
  <2>3. PICK pc \in {"undeliverable", "send"} : TakesLease(w, pc)
    BY <2>1 DEF TakesDelivery
  <2>4. pc \in WorkerSteps
    BY DEF WorkerSteps
  <2>5. QED BY <1>6, <2>2, <2>3, <2>4, TakerOwns
<1>10. t + m <= k + y
  <2> HIDE DEF C, D, n, m, s, t, f, k, x, y, owner, ownerNext
  <2>1. CASE Faults(w)
    <3>1. w \notin D /\ k = f + 1
      BY <1>3, <2>1 DEF Faults, k, f
    <3>2. t = s \/ (At(w, "send") /\ t = s + 1)
      BY <2>1 DEF Faults, SentOrNot, t, s
    <3>3. CASE t = s
      BY <1>1, <1>4, <1>5, <3>1, <3>3
    <3>4. CASE At(w, "send") /\ t = s + 1 /\ w \in C
      BY <1>1, <1>4, <1>5, <3>1, <3>4
    <3>5. CASE At(w, "send") /\ t = s + 1 /\ w \notin C
      <4>1. x = 0 /\ m = n
        BY <1>3, <1>4, <1>7, <3>1, <3>5 DEF At
      <4>2. t + m = s + n + 1
        BY <1>4, <1>5, <3>5, <4>1
      <4>3. QED BY <1>1, <1>4, <1>5, <3>1, <4>1, <4>2
    <3>6. QED BY <3>2, <3>3, <3>4, <3>5
  <2>2. CASE Sends(w) /\ ~Faults(w) /\ ~Quits(w)
    <3>1. w \notin D /\ t = s + 1 /\ At(w, "send")
      BY <1>3, <2>2, CoursePlaces DEF Sends, t, s
    <3>2. CASE w \in C
      BY <1>1, <1>4, <1>5, <1>7, <2>2, <3>1, <3>2
    <3>3. CASE w \notin C
      <4>1. x = 0 /\ m = n /\ y = 1
        BY <1>3, <1>4, <1>7, <1>8, <2>2, <3>1, <3>3 DEF At
      <4>2. QED BY <1>1, <1>4, <1>5, <3>1, <4>1
    <3>4. QED BY <3>2, <3>3
  <2>3. CASE Quits(w) /\ ~Faults(w)
    <3>1. w \notin D /\ t = s
      BY <1>3, <2>3 DEF Quits, t, s
    <3>2. QED BY <1>1, <1>4, <1>5, <1>7, <2>3, <3>1
  <2>4. CASE /\ TakesProcessing(w) \/ TakesDelivery(w) \/ Begins(w) \/ Stores(w)
             /\ ~Quits(w) /\ ~Faults(w)
    <3>1. t = s
      BY <2>4 DEF TakesProcessing, TakesDelivery, TakesLease, Begins, Stores, Silent, t, s
    <3>2. w \notin C /\ w \notin D
      BY <1>3, <1>9, <2>4, CoursePlaces DEF AfterProcessingClaim
    <3>3. QED BY <1>1, <1>4, <1>5, <1>7, <2>4, <3>1, <3>2
  <2>5. QED BY <2>1, <2>2, <2>3, <2>4 DEF Course
<1>11. QED BY <1>10 DEF Duplicates

-----------------------------------------------------------------------------
(* The steps of the others: the webhook, the reconciler, time, the queue and *)
(* the workers of other runs.  They add nothing to a run; time may take its  *)
(* lease from a worker, which is a fault.                                    *)
Bystander(r, v) == Run(v) = r /\ worker[v].pc \in Holding

Lapses(r) ==
    /\ faults' = faults + 1
    /\ row'[r].status = row[r].status
    /\ \A token \in Nat : /\ token # row[r].leaseToken => LeaseStays(r, token)
                          /\ \A stage \in Leased : ~OwnsAfter(r, token, stage)

Foreign(r) ==
    /\ NoClaim(r)
    /\ generated'[r] = generated[r] /\ sent'[r] = sent[r]
    /\ row[r].status \in Terminal => row'[r].status \in Terminal
    /\ \A v \in Workers : \/ worker'[v] = worker[v]
                          \/ ~Bystander(r, v) /\ ~Bystander(r, v)'
    /\ faults' \in {faults, faults + 1}
    /\ \/ \A v \in Workers : Bystander(r, v) => LeaseStays(r, Token(v))
       \/ Lapses(r)

\* A step that leaves the run and the workers alone.
LEMMA StandstillForeign ==
    ASSUME NEW r \in Runs, row'[r] = row[r], UNCHANGED <<generated, sent>>,
           worker' = worker, faults' \in {faults, faults + 1}
    PROVE  Foreign(r)
BY DEF Foreign, NoClaim, SameClaims, LeaseStays, Owns, OwnsAfter

\* Statements that are issued without a lease.
LEMMA SystemForeign ==
    ASSUME PipelineInv, NEW r \in Runs, NEW q \in Runs,
           \/ Create(q) \/ MarkQueued(q) \/ RequeueRetry(q) \/ ReEnqueue(q)
           \/ \E stage \in Leased : ExpireLease(q, stage)
           \/ RetryFallsDue(q) \/ GoesStale(q)
           \/ UNCHANGED lifecycleVars,
           UNCHANGED <<generated, sent>>, worker' = worker, NoFault \/ Fault
    PROVE  Foreign(r)
<1>1. /\ LifecycleTypeOK /\ LifecycleInv /\ RowInv(q)
      /\ faults' \in {faults, faults + 1}
  BY DEF PipelineInv, LifecycleInv, NoFault, Fault
<1>2. CASE UNCHANGED lifecycleVars
  BY <1>1, <1>2, StandstillForeign DEF lifecycleVars
<1>3. CASE ~UNCHANGED lifecycleVars /\ q # r
  <2>1. RunStep(q)
    BY <1>3, StatementsAreSteps
  <2>2. row'[r] = row[r]
    BY <1>1, <1>3, <2>1, OneRowAtATime DEF LifecycleTypeOK
  <2>3. QED BY <1>1, <2>2, StandstillForeign
<1>4. CASE ~UNCHANGED lifecycleVars /\ q = r
  <2>1. NoClaim(r) /\ \A token \in Nat : LeaseStays(r, token)
    BY <1>1, <1>4, SystemLeases
  <2>2. Advances(r)
    BY <1>1, <1>4, SystemEffect
  <2>3. \A v \in Workers : Token(v) \in Nat
    BY BudgetTypes
  <2>4. QED BY <1>1, <2>1, <2>2, <2>3 DEF Foreign, Advances
<1>5. QED BY <1>2, <1>3, <1>4

\* A lease that passes: a fault if a live worker held it.
LEMMA LapseForeign ==
    ASSUME PipelineInv, NEW r \in Runs, NEW q \in Runs, LeasePasses(q)
    PROVE  Foreign(r)
<1>1. /\ LifecycleTypeOK /\ LifecycleInv
      /\ worker' = worker /\ UNCHANGED <<generated, sent>>
      /\ faults' \in {faults, faults + 1} /\ LeaseLapses(q)
  <2>1. NoFault \/ Fault
    BY DEF LeasePasses
  <2>2. LifecycleTypeOK /\ LifecycleInv
    BY DEF PipelineInv, LifecycleInv
  <2>3. worker' = worker /\ UNCHANGED <<generated, sent>> /\ LeaseLapses(q)
    BY DEF LeasePasses, history
  <2>4. QED BY <2>1, <2>2, <2>3 DEF NoFault, Fault
<1>2. CASE q # r
  <2>1. RunStep(q)
    BY <1>1, StatementsAreSteps
  <2>2. row'[r] = row[r]
    BY <1>1, <1>2, <2>1, OneRowAtATime DEF LifecycleTypeOK
  <2>3. QED BY <1>1, <2>2, StandstillForeign
<1>3. CASE q = r
  <2>1. /\ NoClaim(r)
        /\ row'[r].status = row[r].status
        /\ \A token \in Nat : /\ token # row[r].leaseToken => LeaseStays(r, token)
                              /\ \A stage \in Leased : ~OwnsAfter(r, token, stage)
    BY <1>1, <1>3, LapseLeases
  <2>2. \/ Lapses(r)
        \/ \A v \in Workers : Bystander(r, v) => LeaseStays(r, Token(v))
    <3>1. CASE HeldByLiveWorker(r)
      BY <1>3, <2>1, <3>1 DEF LeasePasses, Fault, Lapses
    <3>2. CASE ~HeldByLiveWorker(r)
      <4>1. ASSUME NEW v \in Workers, Bystander(r, v)
            PROVE  Token(v) # row[r].leaseToken
        BY <3>2, <4>1 DEF HeldByLiveWorker, Bystander, Holding
      <4>2. QED BY <2>1, <4>1, BudgetTypes
    <3>3. QED BY <3>1, <3>2
  <2>3. QED BY <1>1, <2>1, <2>2 DEF Foreign
<1>4. QED BY <1>2, <1>3

\* A worker that takes a message was idle, and holds nothing yet.
LEMMA TakeForeign ==
    ASSUME PipelineInv, NEW r \in Runs, NEW w \in Workers, NEW q \in Runs, Take(w, q)
    PROVE  Foreign(r)
<1>1. /\ row' = row /\ UNCHANGED <<generated, sent>> /\ faults' = faults
      /\ worker[w].pc = "idle"
  BY DEF Take, lifecycleVars, history, At
<1>2. OthersStay(w) /\ worker'[w].pc = "get"
  BY TakeEffect
<1>3. ~Bystander(r, w) /\ ~Bystander(r, w)'
  BY <1>1, <1>2 DEF Bystander, Holding
<1>4. QED BY <1>1, <1>2, <1>3
          DEF Foreign, OthersStay, NoClaim, SameClaims, LeaseStays, Owns, OwnsAfter

\* A worker of another run.
LEMMA WorkerForeign ==
    ASSUME PipelineInv, NEW r \in Runs, NEW w \in Workers, WorkerStep(w), Run(w) # r
    PROVE  Foreign(r)
<1>1. Turn(w) /\ WorkerMoves(w)
  BY WorkerTurn, WorkerEffect DEF Effect
<1>2. /\ row'[r] = row[r] /\ generated'[r] = generated[r] /\ sent'[r] = sent[r]
      /\ faults' \in {faults, faults + 1} /\ OthersStay(w)
  BY <1>1 DEF Turn
<1>3. ~Bystander(r, w) /\ ~Bystander(r, w)'
  <2>1. worker'[w].pc = "idle" \/ worker'[w].run = Run(w)
    BY <1>1 DEF WorkerMoves, Drops, Proceeds, Claims, Run
  <2>2. QED BY <2>1 DEF Bystander, Holding, Run
<1>4. QED BY <1>2, <1>3
          DEF Foreign, OthersStay, NoClaim, SameClaims, LeaseStays, Owns, OwnsAfter

\* A pass of the reconciler.
LEMMA CronForeign ==
    ASSUME PipelineInv, NEW r \in Runs, NEW c \in Crons, CronStep(c) \/ CronCrash(c)
    PROVE  Foreign(r)
<1>1. /\ worker' = worker /\ UNCHANGED <<generated, sent>>
      /\ NoFault \/ Fault
  BY DEF CronStep, CronScan, CronPrepare, CronRequeueExpired, CronPublish, CronCrash,
         history, NoFault
<1>2. cron[c].snapshot \subseteq Found /\ cron[c].expired \subseteq Runs
  BY DEF PipelineInv, PipelineTypeOK, Cron
<1>3. \/ UNCHANGED lifecycleVars
      \/ \E found \in Found : PrepareStatement(found)
      \/ \E q \in Runs : RequeueRetry(q)
  BY <1>2 DEF CronStep, CronScan, CronPrepare, CronRequeueExpired, CronPublish, CronCrash
<1>4. CASE UNCHANGED lifecycleVars
  BY <1>1, <1>4, SystemForeign
<1>5. ASSUME NEW found \in Found, PrepareStatement(found)
      PROVE  Foreign(r)
  <2>1. found.run \in Runs
    BY DEF Found
  <2>2. \/ MarkQueued(found.run) \/ RequeueRetry(found.run) \/ ReEnqueue(found.run)
        \/ \E stage \in Leased : ExpireLease(found.run, stage)
    BY <1>5 DEF PrepareStatement, ReEnqueue
  <2>3. QED BY <1>1, <2>1, <2>2, SystemForeign
<1>6. ASSUME NEW q \in Runs, RequeueRetry(q)
      PROVE  Foreign(r)
  BY <1>1, <1>6, SystemForeign
<1>7. QED BY <1>3, <1>4, <1>5, <1>6

\* Every step is a step of a worker of the run, or of the others.
LEMMA OwnOrForeign ==
    ASSUME PipelineInv, [Next]_vars, NEW r \in Runs
    PROVE  Foreign(r) \/ \E w \in Workers : Run(w) = r /\ WorkerStep(w)
<1>1. CASE UNCHANGED vars
  <2>1. row' = row /\ worker' = worker /\ UNCHANGED <<generated, sent>> /\ faults' = faults
    BY <1>1 DEF vars
  <2>2. QED BY <2>1, StandstillForeign
<1>2. ASSUME NEW q \in Runs, IngressStep(q)
      PROVE  Foreign(r)
  <2>1. /\ worker' = worker /\ UNCHANGED <<generated, sent>>
        /\ NoFault \/ Fault
        /\ Create(q) \/ MarkQueued(q) \/ UNCHANGED lifecycleVars
    BY <1>2 DEF IngressStep, IngressCreate, IngressSend, IngressMarkQueued, history
  <2>2. QED BY <2>1, SystemForeign
<1>3. ASSUME NEW q \in Runs, DeadlinePasses(q)
      PROVE  Foreign(r)
  BY <1>3, SystemForeign DEF DeadlinePasses, history, NoFault
<1>4. QED
  BY <1>1, <1>2, <1>3, LapseForeign, TakeForeign, WorkerForeign, CronForeign
     DEF Next, WorkerStep

\* A foreign step moves no holder of the run, and takes its lease only by lapsing.
LEMMA ForeignHere ==
    ASSUME PipelineInv, PipelineInv', NEW r \in Runs, Foreign(r)
    PROVE  /\ \A places \in SUBSET Holding : Here(r, places)' = Here(r, places)
           /\ \A v \in Workers : Bystander(r, v) => worker'[v] = worker[v]
           /\ \A v \in Workers, stage \in Leased :
                 Bystander(r, v) /\ ~Lapses(r)
                 => (Owns(r, Token(v), stage)' <=> Owns(r, Token(v), stage))
           /\ \A v \in Workers, stage \in Leased :
                 Bystander(r, v) /\ Lapses(r) => ~Owns(r, Token(v), stage)'
           /\ \A v \in Workers : Bystander(r, v)' => Bystander(r, v)
<1>1. \A v \in Workers : \/ worker'[v] = worker[v]
                         \/ ~Bystander(r, v) /\ ~Bystander(r, v)'
  BY DEF Foreign
<1>2. ASSUME NEW places \in SUBSET Holding
      PROVE  Here(r, places)' = Here(r, places)
  BY <1>1 DEF Here, Bystander, Run
<1>3. \A v \in Workers : Bystander(r, v) => worker'[v] = worker[v]
  BY <1>1
<1>4. ASSUME NEW v \in Workers, NEW stage \in Leased, Bystander(r, v)
      PROVE  Owns(r, Token(v), stage)' <=> OwnsAfter(r, Token(v), stage)
  BY <1>3, <1>4 DEF Owns, OwnsAfter, Token
<1>5. ~Lapses(r) => \A v \in Workers : Bystander(r, v) => LeaseStays(r, Token(v))
  BY DEF Foreign
<1>6. \A v \in Workers : Token(v) \in Nat
  BY BudgetTypes
<1>7. Lapses(r) => \A v \in Workers, stage \in Leased : ~OwnsAfter(r, Token(v), stage)
  BY <1>6 DEF Lapses
<1>8. \A v \in Workers : Bystander(r, v)' => Bystander(r, v)
  BY <1>1 DEF Bystander, Run
<1>9. QED BY <1>2, <1>3, <1>4, <1>5, <1>7, <1>8 DEF LeaseStays

\* The ending that is owed survives it, unless it is a fault.
LEMMA ForeignClosing ==
    ASSUME PipelineInv, PipelineInv', NEW r \in Runs, Foreign(r),
           NEW pc \in Holding, NEW stage \in Leased, Closing(r, pc, stage)
    PROVE  Closing(r, pc, stage)' \/ faults' = faults + 1
<1>1. CASE Lapses(r)
  BY <1>1 DEF Lapses
<1>2. CASE row[r].status \in Terminal
  BY <1>2 DEF Foreign, Closing
<1>3. CASE ~Lapses(r) /\ \E v \in Here(r, {pc}) : Owns(r, Token(v), stage)
  <2>1. PICK v \in Here(r, {pc}) : Owns(r, Token(v), stage)
    BY <1>3
  <2>2. v \in Workers /\ Bystander(r, v)
    BY <2>1 DEF Here, Bystander
  <2>3. v \in Here(r, {pc})' /\ Owns(r, Token(v), stage)'
    BY <1>3, <2>1, <2>2, ForeignHere
  <2>4. QED BY <2>3 DEF Closing
<1>4. QED BY <1>1, <1>2, <1>3 DEF Closing

\* It changes no counter of the run.
LEMMA ForeignRow ==
    ASSUME PipelineInv, PipelineInv', NEW r \in Runs, Foreign(r)
    PROVE  /\ row'[r].attempt = row[r].attempt
           /\ row'[r].deliveryAttempt = row[r].deliveryAttempt
           /\ row'[r].summary = row[r].summary
           /\ Here(r, {"claimReady"})' = Here(r, {"claimReady"})
           /\ Computing(r)' = Computing(r) /\ Sending(r)' = Sending(r)
           /\ Extra(r)' = Extra(r)
           /\ generated'[r] = generated[r] /\ sent'[r] = sent[r]
           /\ faults \in Nat /\ faults' \in {faults, faults + 1}
<1>1. /\ {"claimReady"} \subseteq Holding /\ {"lookup", "generate"} \subseteq Holding
      /\ {"send"} \subseteq Holding
  BY DEF Holding, WorkerSteps
<1>2. /\ Here(r, {"claimReady"})' = Here(r, {"claimReady"})
      /\ Computing(r)' = Computing(r) /\ Sending(r)' = Sending(r)
  BY <1>1, ForeignHere DEF Computing, Sending
<1>3. row'[r].summary = row[r].summary
  BY DEF Foreign, NoClaim
<1>4. Unstreamed(r)' <=> Unstreamed(r)
  BY <1>2, <1>3 DEF Unstreamed
<1>5. Extra(r)' = Extra(r)
  BY <1>4 DEF Extra
<1>6. QED BY <1>2, <1>3, <1>5, BudgetTypes DEF Foreign, NoClaim, SameClaims

\* A lapse can make one sender stray, and is the fault that pays for its message.
LEMMA ForeignDuplicates ==
    ASSUME PipelineInv, PipelineInv', NEW r \in Runs, Foreign(r),
           IsFiniteSet(Sending(r)), Duplicates(r)
    PROVE  Duplicates(r)'
<1> DEFINE C == Stray(r)
           D == Stray(r)'
           n == Cardinality(C)
           m == Cardinality(D)
           s == sent[r]
           f == faults
           k == faults'
           x == Settling(r)
           y == Settling(r)'
<1>1. s + n <= f + x /\ sent'[r] = s
  BY ForeignRow DEF Duplicates
<1>2. "complete" \in Holding /\ "send" \in Holding /\ "delivering" \in Leased
  BY DEF Holding, WorkerSteps, Leased
<1>3. /\ s \in Nat /\ f \in Nat /\ k \in Nat /\ (k = f \/ k = f + 1)
      /\ x \in {0, 1} /\ y \in {0, 1}
  BY BudgetTypes, BudgetTypesNext, SettlingValue, ForeignRow
<1>4. \A v \in Sending(r) : v \in Workers /\ Bystander(r, v)
  BY <1>2 DEF Sending, Here, Bystander
<1>5. Sending(r)' = Sending(r)
  BY ForeignRow
<1>6. IsFiniteSet(C)
  BY FS_Subset DEF Stray
<1>7. CASE ~Lapses(r)
  <2>1. D = C
    BY <1>2, <1>4, <1>5, <1>7, ForeignHere DEF Stray
  <2>2. k = f => (x = 1 => y = 1)
    <3>1. SUFFICES ASSUME k = f, Closing(r, "complete", "delivering")
                   PROVE  Closing(r, "complete", "delivering")'
      BY SettlingValue
    <3>2. k # f + 1
      BY <1>3, <3>1
    <3>3. QED BY <1>2, <3>1, <3>2, ForeignClosing
  <2>3. n = m /\ n \in Nat
    BY <1>6, <2>1, FS_CardinalityType
  <2>4. s + m <= k + y
    <3> HIDE DEF C, D, n, m, s, f, k, x, y
    <3>1. QED BY <1>1, <1>3, <2>2, <2>3
  <2>5. QED BY <1>1, <2>4 DEF Duplicates
<1>8. CASE Lapses(r)
  <2>1. k = f + 1
    BY <1>8 DEF Lapses
  <2>2. D = Sending(r)
    BY <1>2, <1>4, <1>5, <1>8, ForeignHere DEF Stray
  <2>3. CASE \E w \in Sending(r) : Owns(r, Token(w), "delivering")
    <3>1. PICK w \in Sending(r) : Owns(r, Token(w), "delivering")
      BY <2>3
    <3>2. \A v \in Sending(r) : Owns(r, Token(v), "delivering") => v = w
      BY <1>2, <1>4, <3>1, OneOwner DEF Bystander
    <3>3. D = C \cup {w} /\ w \notin C
      BY <2>2, <3>1, <3>2 DEF Stray
    <3>4. m = n + 1 /\ n \in Nat
      BY <1>6, <3>3, FS_AddElement, FS_CardinalityType
    <3>5. ~Closing(r, "complete", "delivering")
      <4>1. row[r].status \notin Terminal
        BY <3>1 DEF Owns, Terminal
      <4>2. ASSUME NEW v \in Here(r, {"complete"}), Owns(r, Token(v), "delivering")
            PROVE  FALSE
        <5>1. v \in Workers /\ Run(v) = r /\ worker[v].pc = "complete"
          BY <4>2 DEF Here
        <5>2. worker[w].pc = "send" /\ w \in Workers /\ Run(w) = r
          BY <3>1 DEF Sending, Here
        <5>3. v = w
          BY <1>2, <3>1, <4>2, <5>1, <5>2, OneOwner
        <5>4. QED BY <5>1, <5>2, <5>3
      <4>3. QED BY <4>1, <4>2 DEF Closing
    <3>6. x = 0
      BY <3>5, SettlingValue
    <3>7. s + m <= k + y
      <4> HIDE DEF C, D, n, m, s, f, k, x, y
      <4>1. QED BY <1>1, <1>3, <2>1, <3>4, <3>6
    <3>8. QED BY <1>1, <3>7 DEF Duplicates
  <2>4. CASE ~\E w \in Sending(r) : Owns(r, Token(w), "delivering")
    <3>1. D = C
      BY <2>2, <2>4 DEF Stray
    <3>2. n = m /\ n \in Nat
      BY <1>6, <3>1, FS_CardinalityType
    <3>3. s + m <= k + y
      <4> HIDE DEF C, D, n, m, s, f, k, x, y
      <4>1. QED BY <1>1, <1>3, <2>1, <3>2
    <3>4. QED BY <1>1, <3>3 DEF Duplicates
  <2>5. QED BY <2>3, <2>4
<1>9. QED BY <1>7, <1>8

\* Foreign steps keep the budgets.
LEMMA ForeignKeeps ==
    ASSUME PipelineInv, PipelineInv', NEW r \in Runs, Foreign(r), BudgetInv(r)
    PROVE  BudgetInv(r)'
<1> USE ForeignRow
<1>1. StreamInv(r)' /\ Computations(r)' /\ Messages(r)'
  BY DEF BudgetInv, StreamInv, Computations, Messages
<1>2. SpentInv(r)'
  <2>1. ASSUME NEW v \in Workers, Bystander(r, v)', Owns(r, Token(v), "processing")'
        PROVE  /\ Bystander(r, v) /\ Owns(r, Token(v), "processing")
               /\ worker'[v] = worker[v]
    BY <2>1, ForeignHere DEF Leased
  <2>2. QED BY <2>1 DEF BudgetInv, SpentInv, Bystander, Run, At
<1>3. /\ row[r].attempt \in Nat /\ row[r].deliveryAttempt \in Nat
      /\ MAX_ATTEMPTS \in Nat /\ MAX_DELIVERY_ATTEMPTS \in Nat
      /\ Extra(r) \in {0, 1}
  BY BudgetTypes, BudgetsAssumption, ExtraValue
<1>4. "exhausted" \in Holding /\ "undeliverable" \in Holding
      /\ "processing" \in Leased /\ "delivering" \in Leased
  BY DEF Holding, WorkerSteps, Leased
<1>5. ProcessingClaims(r)'
  <2>1. Closing(r, "exhausted", "processing")
        => Closing(r, "exhausted", "processing")' \/ faults' = faults + 1
    BY <1>4, ForeignClosing
  <2>2. QED BY <1>3, <2>1 DEF BudgetInv, ProcessingClaims
<1>6. DeliveryClaims(r)'
  <2>1. Closing(r, "undeliverable", "delivering")
        => Closing(r, "undeliverable", "delivering")' \/ faults' = faults + 1
    BY <1>4, ForeignClosing
  <2>2. QED BY <1>3, <2>1 DEF BudgetInv, DeliveryClaims
<1>7. Duplicates(r)'
  BY ForeignDuplicates DEF BudgetInv, Messages
<1>8. QED BY <1>1, <1>2, <1>5, <1>6, <1>7 DEF BudgetInv

\* The steps of the run's own workers keep the budgets.
LEMMA WorkerKeepsBudget ==
    ASSUME PipelineInv, PipelineInv', NEW r \in Runs, NEW w \in Workers, Run(w) = r,
           WorkerStep(w), BudgetInv(r)
    PROVE  BudgetInv(r)'
<1>1. ~At(w, "idle") /\ Turn(w) /\ Course(w)
  BY WorkerEffect, WorkerTurn, WorkerCourse
<1>2. StreamInv(r)' /\ SpentInv(r)' /\ Computations(r)'
  BY <1>1, StreamKept, SpentKept, ComputationsKept DEF BudgetInv
<1>3. ProcessingClaims(r)' /\ DeliveryClaims(r)' /\ Messages(r)'
  BY <1>1, ProcessingClaimsKept, DeliveryClaimsKept, MessagesKept DEF BudgetInv
<1>4. Duplicates(r)'
  BY <1>1, DuplicatesKept DEF BudgetInv, Messages
<1>5. QED BY <1>2, <1>3, <1>4 DEF BudgetInv

AllBudgets == \A r \in Runs : BudgetInv(r)

\* Every step keeps the budgets of every run.
LEMMA BudgetStep ==
    PipelineInv /\ PipelineInv' /\ AllBudgets /\ [Next]_vars => AllBudgets'
BY OwnOrForeign, ForeignKeeps, WorkerKeepsBudget DEF AllBudgets

\* The budgets hold before anything is claimed.
LEMMA BudgetInit == Init => AllBudgets
<1> SUFFICES ASSUME Init, NEW r \in Runs PROVE BudgetInv(r)
  BY DEF AllBudgets
<1>1. /\ row[r].attempt = 0 /\ row[r].deliveryAttempt = 0 /\ ~row[r].summary
      /\ generated[r] = 0 /\ sent[r] = 0 /\ faults = 0
      /\ \A w \in Workers : worker[w].pc = "idle"
  BY DEF Init, LifecycleInit, NoRow, NoJob
<1>2. \A places \in SUBSET Holding : Here(r, places) = {}
  BY <1>1 DEF Here, Holding
<1>3. /\ Here(r, {"claimReady"}) = {} /\ Computing(r) = {} /\ Sending(r) = {}
  BY <1>2 DEF Computing, Sending, Holding, WorkerSteps
<1>4. Stray(r) = {}
  BY <1>3 DEF Stray
<1>5. Cardinality({}) = 0 /\ IsFiniteSet({})
  BY FS_EmptySet
<1>6. MAX_ATTEMPTS \in Nat /\ MAX_DELIVERY_ATTEMPTS \in Nat
  BY BudgetsAssumption
<1>7. Extra(r) = 0 /\ Settling(r) \in {0, 1}
  BY <1>1, ExtraValue, SettlingValue DEF Unstreamed
<1>8. StreamInv(r) /\ SpentInv(r)
  BY <1>1, <1>3, <1>6 DEF StreamInv, SpentInv
<1>9. ProcessingClaims(r) /\ DeliveryClaims(r)
  BY <1>1, <1>6, <1>7 DEF ProcessingClaims, DeliveryClaims
<1>10. Computations(r) /\ Messages(r) /\ Duplicates(r)
  BY <1>1, <1>3, <1>4, <1>5, <1>6, <1>7 DEF Computations, Messages, Duplicates
<1>11. QED BY <1>8, <1>9, <1>10 DEF BudgetInv

\* What the budgets say of a run.  A run whose processing claims outran MAX_ATTEMPTS
\* has no text and so no delivery claims: the faults are not counted twice.
LEMMA BudgetsFollow == PipelineInv /\ AllBudgets => Budgets
<1> SUFFICES ASSUME PipelineInv, NEW r \in Runs, BudgetInv(r)
             PROVE  /\ generated[r] <= MAX_ATTEMPTS
                    /\ ClaimsOf(r) <= MAX_ATTEMPTS + MAX_DELIVERY_ATTEMPTS + 2 + faults
                    /\ sent[r] <= MAX_DELIVERY_ATTEMPTS + 1
                    /\ sent[r] <= 1 + faults
  BY DEF AllBudgets, Budgets, GenerationBudget, ClaimBudget, DeliveryBudget,
         DuplicatesNeedFaults
<1>1. /\ row[r].attempt \in Nat /\ row[r].deliveryAttempt \in Nat
      /\ generated[r] \in Nat /\ sent[r] \in Nat /\ faults \in Nat
      /\ MAX_ATTEMPTS \in Nat /\ MAX_DELIVERY_ATTEMPTS \in Nat
      /\ Extra(r) \in {0, 1} /\ Settling(r) \in {0, 1}
  BY BudgetTypes, BudgetsAssumption, ExtraValue, SettlingValue
<1>2. generated[r] <= MAX_ATTEMPTS
  <2>1. Cardinality(Computing(r)) \in Nat
    BY FS_CardinalityType DEF BudgetInv, Computations
  <2>2. QED BY <1>1, <2>1 DEF BudgetInv, Computations
<1>3. sent[r] <= MAX_DELIVERY_ATTEMPTS + 1
  <2>1. Cardinality(Sending(r)) \in Nat
    BY FS_CardinalityType DEF BudgetInv, Messages
  <2>2. QED BY <1>1, <2>1 DEF BudgetInv, Messages
<1>4. sent[r] <= 1 + faults
  <2>1. Cardinality(Stray(r)) \in Nat
    BY FS_Subset, FS_CardinalityType DEF BudgetInv, Messages, Stray
  <2>2. QED BY <1>1, <2>1 DEF BudgetInv, Duplicates
<1>5. ClaimsOf(r) <= MAX_ATTEMPTS + MAX_DELIVERY_ATTEMPTS + 2 + faults
  <2>1. ClaimsOf(r) = row[r].attempt + row[r].deliveryAttempt
    BY DEF ClaimsOf
  <2>2. row[r].attempt <= MAX_ATTEMPTS + faults + 1
    BY <1>1 DEF BudgetInv, ProcessingClaims
  <2>3. row[r].deliveryAttempt <= MAX_DELIVERY_ATTEMPTS + faults + 2
    BY <1>1 DEF BudgetInv, DeliveryClaims
  <2>4. row[r].attempt > MAX_ATTEMPTS => row[r].deliveryAttempt = 0
    BY <1>1 DEF BudgetInv, SpentInv, StreamInv
  <2>5. QED BY <1>1, <2>1, <2>2, <2>3, <2>4
<1>6. QED BY <1>2, <1>3, <1>4, <1>5

\* A run computes its summary at most MAX_ATTEMPTS times, claims and sends within the
\* budgets, and the chat sees a second copy only after a fault: a crash, a database
\* error, an unacknowledged send or a lease that ran out under a live worker.
THEOREM BudgetsKept == PipelineSpec => []Budgets
<1>1. Init /\ PipelineInv => AllBudgets
  BY BudgetInit
<1>2. PipelineInv /\ PipelineInv' /\ AllBudgets /\ [Next]_vars => AllBudgets'
  BY BudgetStep
<1>3. PipelineInv /\ AllBudgets => Budgets
  BY BudgetsFollow
<1>4. QED BY <1>1, <1>2, <1>3, PipelineInvariant, PTL DEF PipelineSpec

-----------------------------------------------------------------------------
(* Fencing: who ends a valid lease, and who writes to the ledger.            *)
LeaseHeld(r)   == row[r].leaseExpiresAt = "future"
TokenStays(r)  == row'[r].leaseToken = row[r].leaseToken
Unwritten(r)   == (LeaseHeld(r) => TokenStays(r)) /\ accepted'[r] = accepted[r]

\* A row with a valid lease is in a leased status, and its token is a number.
LEMMA HeldIsLeased ==
    ASSUME PipelineInv, NEW r \in Runs, LeaseHeld(r)
    PROVE  /\ row[r].status \in Leased
           /\ row[r].leaseToken \in Nat
           /\ Owns(r, row[r].leaseToken, row[r].status)
<1>1. RowInv(r) /\ row[r] \in Row
  BY DEF PipelineInv, LifecycleInv, LifecycleTypeOK
<1>2. QED BY <1>1 DEF LeaseHeld, RowInv, LeaseCheck, Null, Row, Owns

\* Statements that are issued without a lease, and the clock.
LEMMA SystemKeepsToken ==
    ASSUME PipelineInv, NEW r \in Runs, NEW q \in Runs, LeaseHeld(r),
           \/ Create(q) \/ MarkQueued(q) \/ RequeueRetry(q) \/ ReEnqueue(q)
           \/ \E stage \in Leased : ExpireLease(q, stage)
           \/ LeaseLapses(q) \/ RetryFallsDue(q) \/ GoesStale(q)
           \/ UNCHANGED lifecycleVars
    PROVE  TokenStays(r)
<1>1. LifecycleTypeOK /\ LifecycleInv /\ RowInv(r)
  BY DEF PipelineInv, LifecycleInv
<1>2. CASE UNCHANGED lifecycleVars
  BY <1>2 DEF lifecycleVars, TokenStays
<1>3. CASE LeaseLapses(q)
  BY <1>1, <1>3 DEF LeaseLapses, LifecycleTypeOK, Row, TokenStays
<1>4. CASE ~UNCHANGED lifecycleVars /\ ~LeaseLapses(q) /\ q # r
  <2>1. RunStep(q)
    BY <1>4, StatementsAreSteps
  <2>2. QED BY <1>1, <1>4, <2>1, OneRowAtATime DEF LifecycleTypeOK, TokenStays
<1>5. CASE ~UNCHANGED lifecycleVars /\ ~LeaseLapses(q) /\ q = r
  <2>1. \A token \in Nat : LeaseStays(r, token)
    BY <1>1, <1>5, SystemLeases
  <2>2. QED BY <2>1, HeldIsLeased DEF LeaseStays, OwnsAfter, TokenStays
<1>6. QED BY <1>2, <1>3, <1>4, <1>5

\* A pass of the reconciler: the statements it issues need no lease.
LEMMA CronKeepsToken ==
    ASSUME PipelineInv, NEW r \in Runs, NEW c \in Crons, CronStep(c) \/ CronCrash(c)
    PROVE  Unwritten(r)
<1>1. accepted' = accepted
  BY DEF CronStep, CronScan, CronPrepare, CronRequeueExpired, CronPublish, CronCrash,
         history
<1>2. cron[c].snapshot \subseteq Found /\ cron[c].expired \subseteq Runs
  BY DEF PipelineInv, PipelineTypeOK, Cron
<1>3. \/ UNCHANGED lifecycleVars
      \/ \E found \in Found : PrepareStatement(found)
      \/ \E q \in Runs : RequeueRetry(q)
  BY <1>2 DEF CronStep, CronScan, CronPrepare, CronRequeueExpired, CronPublish, CronCrash
<1>4. CASE UNCHANGED lifecycleVars
  BY <1>1, <1>4, SystemKeepsToken DEF Unwritten
<1>5. ASSUME NEW found \in Found, PrepareStatement(found)
      PROVE  Unwritten(r)
  <2>1. found.run \in Runs
    BY DEF Found
  <2>2. \/ MarkQueued(found.run) \/ RequeueRetry(found.run) \/ ReEnqueue(found.run)
        \/ \E stage \in Leased : ExpireLease(found.run, stage)
    BY <1>5 DEF PrepareStatement, ReEnqueue
  <2>3. QED BY <1>1, <2>1, <2>2, SystemKeepsToken DEF Unwritten
<1>6. ASSUME NEW q \in Runs, RequeueRetry(q)
      PROVE  Unwritten(r)
  BY <1>1, <1>6, SystemKeepsToken DEF Unwritten
<1>7. QED BY <1>3, <1>4, <1>5, <1>6

\* Every step of a worker takes it to another place.
LEMMA WorkerMovesOn ==
    ASSUME PipelineInv, NEW w \in Workers, WorkerStep(w)
    PROVE  worker'[w] # worker[w]
<1>1. ~At(w, "idle") /\ worker \in [Workers -> Worker]
  BY WorkerEffect, Basics
<1>2. /\ \A pc \in WorkerSteps : Goto(w, pc) => worker'[w].pc = pc
      /\ MessageRetry(w) => worker'[w].pc = "idle"
      /\ worker' = [worker EXCEPT ![w] = NoJob] => worker'[w].pc = "idle"
  BY <1>1, Whereto DEF Proceeds
<1>3. \A checked \in BOOLEAN : HoldDelivery(w, checked)
                               => worker'[w].pc \in {"undeliverable", "send"}
  BY <1>1 DEF HoldDelivery, Worker
<1>4. SUFFICES worker'[w].pc # worker[w].pc
  OBVIOUS
<1> USE <1>1, <1>2, <1>3 DEF At, WorkerSteps
<1>5. CASE Ack(w) \/ Reschedule(w) \/ Crash(w)
  BY <1>5 DEF Ack, Reschedule, Crash
<1>6. CASE ClaimWorkGet(w) \/ RejectPayload(w)
  BY <1>6 DEF ClaimWorkGet, RejectPayload
<1>7. CASE ClaimWorkDelivery(w) \/ ClaimReady(w)
  BY <1>7 DEF ClaimWorkDelivery, ClaimReady, Caught, Uncaught
<1>8. CASE ClaimWorkProcessing(w)
  BY <1>8 DEF ClaimWorkProcessing, Uncaught, AfterProcessingClaim, Worker
<1>9. CASE LookupOutcome(w)
  BY <1>9 DEF LookupOutcome
<1>10. CASE Generate(w)
  BY <1>10 DEF Generate, Retryable, Worker
<1>11. CASE FailExhausted(w) \/ FailInvalid(w) \/ FailProcessing(w)
  BY <1>11 DEF FailExhausted, FailInvalid, FailProcessing, Fenced, Caught, Uncaught
<1>12. CASE Store(w) \/ Complete(w)
  BY <1>12 DEF Store, Complete, Fenced, Caught
<1>13. CASE Send(w)
  BY <1>13 DEF Send
<1>14. CASE FailUndeliverable(w) \/ FailDelivery(w)
  BY <1>14 DEF FailUndeliverable, FailDelivery, Fenced, Uncaught
<1>15. CASE RetryProcessing(w) \/ RetryDelivery(w)
  BY <1>15 DEF RetryProcessing, RetryDelivery, Fenced, Uncaught
<1>16. QED BY <1>5, <1>6, <1>7, <1>8, <1>9, <1>10, <1>11, <1>12, <1>13, <1>14, <1>15
          DEF WorkerStep, ProcessorStep

\* The worker that was given the lease of run r.
Holds(w, r) == worker[w].pc \in Holding /\ Run(w) = r /\ Token(w) = row[r].leaseToken

\* A claim needs a lease that has passed, every other statement the token.
LEMMA WriterHolds ==
    ASSUME PipelineInv, NEW r \in Runs, NEW w \in Workers, WorkerStep(w),
           LeaseHeld(r), ~TokenStays(r)
    PROVE  Holds(w, r)
<1>1. Written(w) /\ Turn(w)
  BY WorkerCourse, WorkerTurn
<1>2. Run(w) = r /\ row' # row
  BY <1>1 DEF Turn, TokenStays
<1>3. row[r].status \in Leased
  BY HeldIsLeased
<1>4. ~ClaimProcessing(r) /\ ~ClaimDelivery(r)
  BY <1>3 DEF LeaseHeld, Leased, ClaimProcessing, ProcessingClaimable, ClaimDelivery,
              DeliveryClaimable, Reached
<1>5. worker[w].pc \in Holding /\ LeaseholderStep(r, Token(w))
  BY <1>1, <1>2, <1>4 DEF Written
<1>6. Token(w) = row[r].leaseToken
  BY <1>5 DEF LeaseholderStep, StoreDeliveryPayload, MarkCompleted, MarkRetry,
              MarkFailed, RenewLease, Owns
<1>7. QED BY <1>2, <1>5, <1>6 DEF Holds

\* The ledger's transaction commits with the lease or not at all.
LEMMA CommitterHolds ==
    ASSUME PipelineInv, NEW r \in Runs, NEW w \in Workers, WorkerStep(w),
           accepted'[r] # accepted[r]
    PROVE  Holds(w, r)
<1>1. At(w, "generate") /\ CommitAttempt(w)
  BY WorkerHistory
<1>2. Run(w) = r /\ Token(w) = row[r].leaseToken
  BY <1>1 DEF CommitAttempt, Owns, PipelineInv, PipelineTypeOK
<1>3. QED BY <1>1, <1>2 DEF Holds, At, Holding, WorkerSteps

\* Every step leaves lease and ledger of the run alone, or is a step of a worker.
LEMMA OthersKeepToken ==
    ASSUME PipelineInv, [Next]_vars, NEW r \in Runs
    PROVE  Unwritten(r) \/ \E w \in Workers : WorkerStep(w)
<1>1. CASE UNCHANGED vars
  BY <1>1 DEF vars, Unwritten, TokenStays
<1>2. ASSUME NEW q \in Runs, IngressStep(q)
      PROVE  Unwritten(r)
  <2>1. /\ accepted' = accepted
        /\ Create(q) \/ MarkQueued(q) \/ UNCHANGED lifecycleVars
    BY <1>2 DEF IngressStep, IngressCreate, IngressSend, IngressMarkQueued, history
  <2>2. QED BY <2>1, SystemKeepsToken DEF Unwritten
<1>3. ASSUME NEW q \in Runs, LeasePasses(q) \/ DeadlinePasses(q)
      PROVE  Unwritten(r)
  BY <1>3, SystemKeepsToken DEF LeasePasses, DeadlinePasses, history, Unwritten
<1>4. ASSUME NEW w \in Workers, NEW q \in Runs, Take(w, q)
      PROVE  Unwritten(r)
  BY <1>4 DEF Take, lifecycleVars, history, Unwritten, TokenStays
<1>5. QED BY <1>1, <1>2, <1>3, <1>4, CronKeepsToken DEF Next, WorkerStep

\* While a lease is valid only the worker that was given it ends it, and only the
\* holder of the valid lease of a run adds an outcome to its ledger: a worker that
\* paused, lost its lease and woke up after the next claim writes nothing, in any
\* order of claims, expiries, requeues and crashes.
THEOREM HolderWrites == PipelineSpec => OnlyTheHolderWrites
<1> DEFINE A == \A r \in Runs :
          \/ row[r].leaseExpiresAt = "future" /\ row'[r].leaseToken # row[r].leaseToken
          \/ accepted'[r] # accepted[r]
          => \E w \in Workers : /\ worker[w].pc \in Holding /\ worker'[w] # worker[w]
                               /\ Run(w) = r /\ Token(w) = row[r].leaseToken
<1>1. PipelineInv /\ [Next]_vars => [A]_vars
  <2> SUFFICES ASSUME PipelineInv, [Next]_vars, NEW r \in Runs, ~Unwritten(r)
               PROVE  \E w \in Workers : Holds(w, r) /\ worker'[w] # worker[w]
    BY DEF Unwritten, LeaseHeld, TokenStays, Holds
  <2>1. PICK w \in Workers : WorkerStep(w)
    BY OthersKeepToken
  <2>2. Holds(w, r)
    BY <2>1, WriterHolds, CommitterHolds DEF Unwritten
  <2>3. QED BY <2>1, <2>2, WorkerMovesOn
<1>2. QED BY <1>1, PipelineInvariant, PTL DEF PipelineSpec, OnlyTheHolderWrites

=============================================================================
