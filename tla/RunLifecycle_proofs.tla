------------------------ MODULE RunLifecycle_proofs ------------------------
(* Proofs about the lifecycle row, for every set of runs and every bound.  *)
EXTENDS RunLifecycle, TLAPS

(* Every statement changes the row of one run and no other, and leaves a   *)
(* row in its place.                                                       *)
LEMMA OneRowAtATime ==
    ASSUME LifecycleTypeOK, NEW r \in Runs, RunStep(r)
    PROVE  /\ row'[r] \in Row
           /\ row' = [row EXCEPT ![r] = row'[r]]
           /\ late' \subseteq Runs
<1> USE RunsAssumption DEF LifecycleTypeOK, Statuses, Deadlines, Stages, Null
<1>a. SUFFICES \E new \in Row : /\ row' = [row EXCEPT ![r] = new]
                                /\ late' \subseteq Runs
  OBVIOUS
<1>b. row[r] \in Row
  OBVIOUS
<1>c. ClaimsOf(r) + 1 \in Nat /\ row[r].attempt + 1 \in Nat
                              /\ row[r].deliveryAttempt + 1 \in Nat
  BY <1>b DEF Row, ClaimsOf
<1>1. CASE Create(r)
  BY <1>1 DEF Create, NoRow, Row
<1>2. CASE MarkQueued(r) \/ RequeueRetry(r)
  <2>1. PICK to \in {"queued"} :
           /\ row' = [row EXCEPT ![r].status = to, ![r].updatedAt = "recent"]
           /\ late' = late
    BY <1>2 DEF MarkQueued, RequeueRetry, Transition
  <2>2. [row[r] EXCEPT !.status = to, !.updatedAt = "recent"] \in Row
    BY <1>b DEF Row
  <2>3. QED BY <2>1, <2>2
<1>3. CASE ReEnqueue(r)
  <2>1. row' = [row EXCEPT ![r].updatedAt = "recent"] /\ late' = late
    BY <1>3 DEF ReEnqueue, Touch
  <2>2. [row[r] EXCEPT !.updatedAt = "recent"] \in Row
    BY <1>b DEF Row
  <2>3. QED BY <2>1, <2>2
<1>4. CASE ClaimProcessing(r)
  <2> DEFINE new == [row[r] EXCEPT
                  !.status = "processing",      !.updatedAt = "recent",
                  !.leaseExpiresAt = "future",  !.leaseToken = ClaimsOf(r) + 1,
                  !.nextRetryAt = Null,         !.retryStage = Null,
                  !.attempt = row[r].attempt + 1]
  <2>1. new \in Row
    BY <1>b, <1>c DEF Row
  <2>2. row' = [row EXCEPT ![r] = new] /\ late' = late
    BY <1>4 DEF ClaimProcessing
  <2>3. QED BY <2>1, <2>2
<1>5. CASE ClaimDelivery(r)
  <2> DEFINE new == [row[r] EXCEPT
                  !.status = "delivering",      !.updatedAt = "recent",
                  !.leaseExpiresAt = "future",  !.leaseToken = ClaimsOf(r) + 1,
                  !.nextRetryAt = Null,         !.retryStage = Null,
                  !.deliveryAttempt = row[r].deliveryAttempt + 1]
  <2>1. new \in Row
    BY <1>b, <1>c DEF Row
  <2>2. row' = [row EXCEPT ![r] = new] /\ late' = late
    BY <1>5 DEF ClaimDelivery
  <2>3. QED BY <2>1, <2>2
<1>6. ASSUME NEW token \in 1..ClaimsOf(r), LeaseholderStep(r, token)
      PROVE  \E new \in Row : /\ row' = [row EXCEPT ![r] = new]
                              /\ late' \subseteq Runs
  <2>1. CASE StoreDeliveryPayload(r, token)
    <3> DEFINE new == [row[r] EXCEPT
                  !.status = "summary_ready",   !.summary = TRUE,
                  !.updatedAt = "recent",       !.leaseExpiresAt = Null,
                  !.leaseToken = 0]
    <3>1. new \in Row
      BY <1>b DEF Row
    <3>2. QED BY <2>1, <3>1 DEF StoreDeliveryPayload
  <2>2. CASE MarkCompleted(r, token)
    <3> DEFINE new == [row[r] EXCEPT
                  !.status = "completed",       !.updatedAt = "recent",
                  !.leaseExpiresAt = Null,      !.leaseToken = 0]
    <3>1. new \in Row
      BY <1>b DEF Row
    <3>2. QED BY <2>2, <3>1 DEF MarkCompleted
  <2>3. ASSUME NEW stage \in Leased, MarkRetry(r, token, stage)
        PROVE  \E new \in Row : /\ row' = [row EXCEPT ![r] = new]
                                /\ late' \subseteq Runs
    <3>1. PICK deadline \in Deadlines :
             row' = [row EXCEPT ![r] = [row[r] EXCEPT
                     !.status = "retry_wait",   !.retryStage = StageOf(stage),
                     !.nextRetryAt = deadline,  !.updatedAt = "recent",
                     !.leaseExpiresAt = Null,   !.leaseToken = 0]]
      BY <2>3 DEF MarkRetry
    <3> DEFINE new == [row[r] EXCEPT
                     !.status = "retry_wait",   !.retryStage = StageOf(stage),
                     !.nextRetryAt = deadline,  !.updatedAt = "recent",
                     !.leaseExpiresAt = Null,   !.leaseToken = 0]
    <3>2. StageOf(stage) \in Stages
      BY DEF StageOf
    <3>3. new \in Row
      BY <1>b, <3>2 DEF Row
    <3>4. QED BY <2>3, <3>1, <3>3 DEF MarkRetry
  <2>4. ASSUME NEW stage \in Leased, MarkFailed(r, token, stage)
        PROVE  \E new \in Row : /\ row' = [row EXCEPT ![r] = new]
                                /\ late' \subseteq Runs
    <3> DEFINE new == [row[r] EXCEPT
                  !.status = "failed_permanent", !.updatedAt = "recent",
                  !.leaseExpiresAt = Null,       !.leaseToken = 0,
                  !.nextRetryAt = Null,          !.retryStage = Null]
    <3>1. new \in Row
      BY <1>b DEF Row
    <3>2. QED BY <2>4, <3>1 DEF MarkFailed
  <2>5. ASSUME NEW stage \in Leased, RenewLease(r, token, stage)
        PROVE  \E new \in Row : /\ row' = [row EXCEPT ![r] = new]
                                /\ late' \subseteq Runs
    <3>1. row' = [row EXCEPT ![r].updatedAt = "recent"] /\ late' = late
      BY <2>5 DEF RenewLease
    <3>2. [row[r] EXCEPT !.updatedAt = "recent"] \in Row
      BY <1>b DEF Row
    <3>3. QED BY <3>1, <3>2
  <2>6. QED BY <1>6, <2>1, <2>2, <2>3, <2>4, <2>5 DEF LeaseholderStep
<1>7. ASSUME NEW stage \in Leased, ExpireLease(r, stage)
      PROVE  \E new \in Row : /\ row' = [row EXCEPT ![r] = new]
                              /\ late' \subseteq Runs
  <2> DEFINE new == [row[r] EXCEPT
                  !.status = "retry_wait",      !.retryStage = StageOf(stage),
                  !.nextRetryAt = "past",       !.updatedAt = "recent",
                  !.leaseExpiresAt = Null,      !.leaseToken = 0]
  <2>1. StageOf(stage) \in Stages
    BY DEF StageOf
  <2>2. new \in Row
    BY <1>b, <2>1 DEF Row
  <2>3. QED BY <1>7, <2>2 DEF ExpireLease
<1>8. CASE LeaseLapses(r) \/ RetryFallsDue(r) \/ GoesStale(r)
  BY <1>8 DEF LeaseLapses, RetryFallsDue, GoesStale, Row
<1>9. QED BY <1>1, <1>2, <1>3, <1>4, <1>5, <1>6, <1>7, <1>8 DEF RunStep

LEMMA TypeStep ==
    LifecycleTypeOK /\ [LifecycleNext]_lifecycleVars => LifecycleTypeOK'
<1> SUFFICES ASSUME LifecycleTypeOK, [LifecycleNext]_lifecycleVars
             PROVE  LifecycleTypeOK'
  OBVIOUS
<1>1. CASE UNCHANGED lifecycleVars
  BY <1>1 DEF lifecycleVars, LifecycleTypeOK
<1>2. ASSUME NEW r \in Runs, RunStep(r) PROVE LifecycleTypeOK'
  BY <1>2, OneRowAtATime DEF LifecycleTypeOK
<1>3. QED BY <1>1, <1>2 DEF LifecycleNext

(* Every reachable lifecycle row is a row of the schema.                   *)
THEOREM TypeCorrect == LifecycleSpec => []LifecycleTypeOK
<1>1. LifecycleInit => LifecycleTypeOK
  BY DEF LifecycleInit, LifecycleTypeOK, NoRow, Row, Statuses, Deadlines,
         Stages, Null
<1>2. QED BY <1>1, TypeStep, PTL DEF LifecycleSpec

-----------------------------------------------------------------------------
(* The inductive step, row by row: a statement leaves its own row in order,*)
(* whatever the statement.                                                 *)
LEMMA RowStep ==
    ASSUME LifecycleTypeOK, NEW r \in Runs, RowInv(r), RunStep(r)
    PROVE  /\ RowInv(r)'
           /\ InProcessingStage(r)' /\ row[r].status # "missing"
              => InProcessingStage(r)
           /\ row[r].status \in Terminal => row'[r] = row[r]
           /\ row[r].status # "missing" => row'[r].status # "missing"
<1> DEFINE Goal == /\ RowInv(r)'
                   /\ InProcessingStage(r)' /\ row[r].status # "missing"
                      => InProcessingStage(r)
                   /\ row[r].status \in Terminal => row'[r] = row[r]
                   /\ row[r].status # "missing" => row'[r].status # "missing"
<1> USE DEF LifecycleTypeOK, Null, RowInv, LeaseCheck, RetryStageCheck,
            DeliverySummaryCheck, InProcessingStage, Leased, Terminal, Stages
<1>b. /\ row[r] \in Row
      /\ row \in [Runs -> Row]
  OBVIOUS
<1>c. ClaimsOf(r) + 1 # 0 /\ row[r].attempt + 1 > 0
  BY <1>b DEF Row, ClaimsOf
<1>1. CASE Create(r)
  BY <1>1 DEF Create, NoRow
<1>2. CASE MarkQueued(r)
  BY <1>2, <1>b DEF MarkQueued, Transition, Row
<1>3. CASE RequeueRetry(r)
  BY <1>3, <1>b DEF RequeueRetry, Transition, Row
<1>4. CASE ReEnqueue(r)
  BY <1>4, <1>b DEF ReEnqueue, Touch, Row
<1>5. CASE ClaimProcessing(r)
  BY <1>5, <1>b, <1>c DEF ClaimProcessing, ProcessingClaimable, Row
<1>6. CASE ClaimDelivery(r)
  BY <1>6, <1>b, <1>c DEF ClaimDelivery, DeliveryClaimable, Row
<1>7. ASSUME NEW token \in 1..ClaimsOf(r), LeaseholderStep(r, token)
      PROVE  Goal
  <2>1. CASE StoreDeliveryPayload(r, token)
    BY <2>1, <1>b DEF StoreDeliveryPayload, Owns, Row
  <2>2. CASE MarkCompleted(r, token)
    BY <2>2, <1>b DEF MarkCompleted, Owns, Row
  <2>3. ASSUME NEW stage \in Leased, MarkRetry(r, token, stage)
        PROVE  Goal
    BY <2>3, <1>b DEF MarkRetry, Owns, StageOf, Row, Deadlines
  <2>4. ASSUME NEW stage \in Leased, MarkFailed(r, token, stage)
        PROVE  Goal
    BY <2>4, <1>b DEF MarkFailed, Owns, Row
  <2>5. ASSUME NEW stage \in Leased, RenewLease(r, token, stage)
        PROVE  Goal
    BY <2>5, <1>b DEF RenewLease, Owns, Row
  <2>6. QED BY <1>7, <2>1, <2>2, <2>3, <2>4, <2>5 DEF LeaseholderStep
<1>8. ASSUME NEW stage \in Leased, ExpireLease(r, stage)
      PROVE  Goal
  BY <1>8, <1>b DEF ExpireLease, StageOf, Row
<1>9. CASE LeaseLapses(r)
  BY <1>9, <1>b DEF LeaseLapses, Row
<1>10. CASE RetryFallsDue(r)
  BY <1>10, <1>b DEF RetryFallsDue, Row
<1>11. CASE GoesStale(r)
  BY <1>11, <1>b DEF GoesStale, Row
<1>12. QED BY <1>1, <1>2, <1>3, <1>4, <1>5, <1>6, <1>7, <1>8, <1>9, <1>10,
              <1>11 DEF RunStep

(* Only claimProcessing counts an attempt or makes a row a processing one; *)
(* only create adds to the history variable.                               *)
LEMMA OnlyClaimsCompute ==
    ASSUME LifecycleTypeOK, NEW r \in Runs, RowInv(r), RunStep(r),
           ~ClaimProcessing(r)
    PROVE  /\ row'[r].attempt = row[r].attempt
           /\ row'[r].status = "processing" => row[r].status = "processing"
           /\ late' = late \/ Create(r)
<1> DEFINE Goal == /\ row'[r].attempt = row[r].attempt
                   /\ row'[r].status = "processing"
                      => row[r].status = "processing"
                   /\ late' = late \/ Create(r)
<1> USE DEF LifecycleTypeOK
<1>b. /\ row[r] \in Row
      /\ row \in [Runs -> Row]
  OBVIOUS
<1>1. CASE Create(r)
  BY <1>1 DEF Create, NoRow, RowInv
<1>2. CASE MarkQueued(r) \/ RequeueRetry(r)
  BY <1>2, <1>b DEF MarkQueued, RequeueRetry, Transition, Row
<1>3. CASE ReEnqueue(r)
  BY <1>3, <1>b DEF ReEnqueue, Touch, Row
<1>4. CASE ClaimDelivery(r)
  BY <1>4, <1>b DEF ClaimDelivery, Row
<1>5. ASSUME NEW token \in 1..ClaimsOf(r), LeaseholderStep(r, token)
      PROVE  Goal
  <2>1. CASE StoreDeliveryPayload(r, token)
    BY <2>1, <1>b DEF StoreDeliveryPayload, Row
  <2>2. CASE MarkCompleted(r, token)
    BY <2>2, <1>b DEF MarkCompleted, Row
  <2>3. ASSUME NEW stage \in Leased, MarkRetry(r, token, stage)
        PROVE  Goal
    BY <2>3, <1>b DEF MarkRetry, Row
  <2>4. ASSUME NEW stage \in Leased, MarkFailed(r, token, stage)
        PROVE  Goal
    BY <2>4, <1>b DEF MarkFailed, Row
  <2>5. ASSUME NEW stage \in Leased, RenewLease(r, token, stage)
        PROVE  Goal
    BY <2>5, <1>b DEF RenewLease, Row
  <2>6. QED BY <1>5, <2>1, <2>2, <2>3, <2>4, <2>5 DEF LeaseholderStep
<1>6. ASSUME NEW stage \in Leased, ExpireLease(r, stage)
      PROVE  Goal
  BY <1>6, <1>b DEF ExpireLease, Row
<1>7. CASE LeaseLapses(r) \/ RetryFallsDue(r) \/ GoesStale(r)
  BY <1>7, <1>b DEF LeaseLapses, RetryFallsDue, GoesStale, Row
<1>8. QED BY <1>1, <1>2, <1>3, <1>4, <1>5, <1>6, <1>7 DEF RunStep

(* A claim is the only statement that counts, and the only one that writes *)
(* a token other than NULL.                                                *)
LEMMA TokenStep ==
    ASSUME LifecycleTypeOK, NEW r \in Runs, RowInv(r), TokenIssued(r), RunStep(r)
    PROVE  TokenIssued(r)'
<1> DEFINE Kept == /\ row'[r].attempt = row[r].attempt
                   /\ row'[r].deliveryAttempt = row[r].deliveryAttempt
                   /\ row'[r].leaseToken \in {0, row[r].leaseToken}
<1>b. /\ row[r] \in Row
      /\ row \in [Runs -> Row]
  BY DEF LifecycleTypeOK
<1>n. /\ row[r].attempt \in Nat
      /\ row[r].deliveryAttempt \in Nat
      /\ row[r].leaseToken \in Nat
  BY <1>b DEF Row
<1>k. ASSUME Kept PROVE TokenIssued(r)'
  BY <1>k, <1>n DEF TokenIssued, ClaimsOf
<1>1. CASE Create(r)
  <2>1. /\ row'[r].attempt = 0 /\ row'[r].deliveryAttempt = 0
        /\ row'[r].leaseToken = 0
    BY <1>1, <1>b DEF Create, NoRow
  <2>2. row'[r].leaseToken <= row'[r].attempt + row'[r].deliveryAttempt
    BY <2>1
  <2>3. QED BY <2>2 DEF TokenIssued, ClaimsOf
<1>2. CASE MarkQueued(r) \/ RequeueRetry(r)
  BY <1>2, <1>b, <1>k DEF MarkQueued, RequeueRetry, Transition, Row
<1>3. CASE ReEnqueue(r)
  BY <1>3, <1>b, <1>k DEF ReEnqueue, Touch, Row
<1>4. CASE ClaimProcessing(r)
  <2>1. /\ row'[r].attempt = row[r].attempt + 1
        /\ row'[r].deliveryAttempt = row[r].deliveryAttempt
        /\ row'[r].leaseToken = row[r].attempt + row[r].deliveryAttempt + 1
    BY <1>4, <1>b DEF ClaimProcessing, ClaimsOf, Row
  <2>2. QED BY <1>n, <2>1 DEF TokenIssued, ClaimsOf
<1>5. CASE ClaimDelivery(r)
  <2>1. /\ row'[r].attempt = row[r].attempt
        /\ row'[r].deliveryAttempt = row[r].deliveryAttempt + 1
        /\ row'[r].leaseToken = row[r].attempt + row[r].deliveryAttempt + 1
    BY <1>5, <1>b DEF ClaimDelivery, ClaimsOf, Row
  <2>2. QED BY <1>n, <2>1 DEF TokenIssued, ClaimsOf
<1>6. ASSUME NEW token \in 1..ClaimsOf(r), LeaseholderStep(r, token)
      PROVE  Kept
  <2>1. CASE StoreDeliveryPayload(r, token)
    BY <2>1, <1>b DEF StoreDeliveryPayload, Row
  <2>6. CASE MarkCompleted(r, token)
    BY <2>6, <1>b DEF MarkCompleted, Row
  <2>2. ASSUME NEW stage \in Leased, MarkRetry(r, token, stage)
        PROVE  Kept
    BY <2>2, <1>b DEF MarkRetry, Row
  <2>3. ASSUME NEW stage \in Leased, MarkFailed(r, token, stage)
        PROVE  Kept
    BY <2>3, <1>b DEF MarkFailed, Row
  <2>4. ASSUME NEW stage \in Leased, RenewLease(r, token, stage)
        PROVE  Kept
    BY <2>4, <1>b DEF RenewLease, Row
  <2>5. QED BY <1>6, <2>1, <2>2, <2>3, <2>4, <2>6 DEF LeaseholderStep
<1>7. ASSUME NEW stage \in Leased, ExpireLease(r, stage)
      PROVE  Kept
  BY <1>7, <1>b DEF ExpireLease, Row
<1>8. CASE LeaseLapses(r) \/ RetryFallsDue(r) \/ GoesStale(r)
  BY <1>8, <1>b, <1>k DEF LeaseLapses, RetryFallsDue, GoesStale, Row
<1>9. QED BY <1>1, <1>2, <1>3, <1>4, <1>5, <1>6, <1>7, <1>8, <1>k DEF RunStep

(* A row that does not exist is touched by nothing but create.             *)
LEMMA AppearsByCreate ==
    ASSUME LifecycleTypeOK, NEW r \in Runs, RowInv(r), RunStep(r),
           row[r].status = "missing"
    PROVE  Create(r)
BY DEF RunStep, MarkQueued, RequeueRetry, Transition, ReEnqueue, Touch,
       ClaimProcessing, ProcessingClaimable, ClaimDelivery, DeliveryClaimable,
       LeaseholderStep, StoreDeliveryPayload, MarkCompleted, MarkRetry,
       MarkFailed, RenewLease, Owns, ExpireLease, LeaseLapses, RetryFallsDue,
       GoesStale, Leased, RowInv, LeaseCheck, Null

LEMMA InitInv == LifecycleInit => LifecycleInv
BY DEF LifecycleInit, LifecycleInv, LifecycleTypeOK, NoRow, Row, Statuses,
       Deadlines, Stages, Null, RowInv, LeaseCheck, RetryStageCheck,
       DeliverySummaryCheck, InProcessingStage, OneProcessingPerChat,
       NoOvertaking, Leased, TokenIssued, ClaimsOf

LEMMA InvStep ==
    LifecycleInv /\ [LifecycleNext]_lifecycleVars => LifecycleInv'
<1> SUFFICES ASSUME LifecycleInv, [LifecycleNext]_lifecycleVars
             PROVE  LifecycleInv'
  OBVIOUS
<1>1. CASE UNCHANGED lifecycleVars
  BY <1>1 DEF lifecycleVars, LifecycleInv, LifecycleTypeOK, RowInv, LeaseCheck,
              RetryStageCheck, DeliverySummaryCheck, InProcessingStage,
              OneProcessingPerChat, NoOvertaking, TokenIssued, ClaimsOf
<1>2. ASSUME NEW r \in Runs, RunStep(r) PROVE LifecycleInv'
  <2>1. /\ LifecycleTypeOK
        /\ RowInv(r)
        /\ TokenIssued(r)
    BY DEF LifecycleInv
  <2>2. LifecycleTypeOK'
    BY <1>2, <2>1, OneRowAtATime DEF LifecycleTypeOK
  <2>3. \A q \in Runs \ {r} : row'[q] = row[q]
    BY <1>2, <2>1, OneRowAtATime DEF LifecycleTypeOK
  <2>4. \A q \in Runs : RowInv(q)' /\ TokenIssued(q)'
    <3>1. RowInv(r)' /\ TokenIssued(r)'
      BY <1>2, <2>1, RowStep, TokenStep
    <3>2. ASSUME NEW q \in Runs \ {r} PROVE RowInv(q)' /\ TokenIssued(q)'
      BY <2>3, <3>2 DEF LifecycleInv, RowInv, LeaseCheck, RetryStageCheck,
                   DeliverySummaryCheck, InProcessingStage, TokenIssued, ClaimsOf
    <3>3. QED BY <3>1, <3>2
  <2>5. OneProcessingPerChat'
    <3>1. CASE ClaimProcessing(r)
      BY <3>1, <2>3 DEF ClaimProcessing, ChatHasNoOtherProcessing,
                        OneProcessingPerChat, LifecycleInv
    <3>2. CASE ~ClaimProcessing(r)
      BY <1>2, <2>1, <2>3, <3>2, OnlyClaimsCompute
         DEF OneProcessingPerChat, LifecycleInv
    <3>3. QED BY <3>1, <3>2
  <2>6. NoOvertaking'
    <3> SUFFICES ASSUME NEW e \in Runs, NEW q \in Runs, RunOrder(e, q),
                        row'[q].attempt > 0, row'[e].status # "missing",
                        e \notin late', InProcessingStage(e)'
                 PROVE  FALSE
      BY DEF NoOvertaking, RunOrder
    <3>1. e # q
      BY RunsAssumption DEF RunOrder
    <3>2. CASE ClaimProcessing(r)
      <4>1. late' = late
        BY <3>2 DEF ClaimProcessing
      <4>2. CASE q = r
        <5>1. ~InProcessingStage(e)
          BY <3>2, <4>2 DEF ClaimProcessing, NoEarlierRunInProcessing
        <5>2. QED BY <2>3, <3>1, <4>2, <5>1 DEF InProcessingStage
      <4>3. CASE q # r
        <5>1. row[q].attempt > 0
          BY <2>3, <4>3
        <5>2. row[e].status # "missing" /\ InProcessingStage(e)
          <6>1. CASE e = r
            BY <3>2, <6>1 DEF ClaimProcessing, ProcessingClaimable,
                              InProcessingStage
          <6>2. CASE e # r
            BY <2>3, <6>2 DEF InProcessingStage
          <6>3. QED BY <6>1, <6>2
        <5>3. QED BY <4>1, <5>1, <5>2 DEF LifecycleInv, NoOvertaking
      <4>4. QED BY <4>2, <4>3
    <3>3. CASE ~ClaimProcessing(r)
      <4>1. row[q].attempt > 0
        BY <1>2, <2>1, <2>3, <3>3, OnlyClaimsCompute
      <4>2. CASE Create(r) /\ e = r
        <5>1. row[q].status # "missing"
          BY <4>1 DEF LifecycleInv, RowInv, NoRow
        <5>2. QED BY <4>2, <5>1 DEF Create
      <4>3. CASE ~(Create(r) /\ e = r)
        <5>1. late \subseteq late'
          BY <1>2, <2>1, <3>3, OnlyClaimsCompute DEF Create
        <5>2. row[e].status # "missing" /\ InProcessingStage(e)
          <6>1. CASE e = r
            <7>1. row[r].status # "missing"
              BY <1>2, <4>3, <6>1, <2>1, AppearsByCreate
            <7>2. QED BY <1>2, <2>1, <6>1, <7>1, RowStep
          <6>2. CASE e # r
            BY <2>3, <6>2 DEF InProcessingStage
          <6>3. QED BY <6>1, <6>2
        <5>3. QED BY <4>1, <5>1, <5>2 DEF LifecycleInv, NoOvertaking
      <4>4. QED BY <4>2, <4>3
    <3>4. QED BY <3>2, <3>3
  <2>7. QED BY <2>2, <2>4, <2>5, <2>6 DEF LifecycleInv
<1>3. QED BY <1>1, <1>2 DEF LifecycleNext

(* The inductive invariant holds in every reachable state.                 *)
THEOREM LifecycleInvariant == LifecycleSpec => []LifecycleInv
BY InitInv, InvStep, PTL DEF LifecycleSpec

(* The CHECK constraints of the table never reject a statement.            *)
THEOREM TableChecks == LifecycleSpec => []TableChecksHold
<1>1. LifecycleInv => TableChecksHold
  BY DEF LifecycleInv, RowInv, TableChecksHold
<1>2. QED BY <1>1, LifecycleInvariant, PTL

(* No path leads a run with a stored text back to computing one.           *)
THEOREM NoRecomputation == LifecycleSpec => []SummaryClosesProcessing
<1>1. LifecycleInv => SummaryClosesProcessing
  BY DEF LifecycleInv, RowInv, SummaryClosesProcessing
<1>2. QED BY <1>1, LifecycleInvariant, PTL

(* INV-07: one processing row per chat.                                    *)
THEOREM MutualExclusion == LifecycleSpec => []OneProcessingPerChat
<1>1. LifecycleInv => OneProcessingPerChat
  BY DEF LifecycleInv
<1>2. QED BY <1>1, LifecycleInvariant, PTL

(* Commands of a chat are computed in their order.                         *)
THEOREM InOrder == LifecycleSpec => []NoOvertaking
<1>1. LifecycleInv => NoOvertaking
  BY DEF LifecycleInv
<1>2. QED BY <1>1, LifecycleInvariant, PTL

-----------------------------------------------------------------------------
(* No statement writes to a completed or failed row.                       *)
THEOREM Finality == LifecycleSpec => TerminalRowsAreFinal
<1>1. LifecycleInv /\ [LifecycleNext]_lifecycleVars
      => [\A r \in Runs : row[r].status \in Terminal => row'[r] = row[r]]_lifecycleVars
  <2> SUFFICES ASSUME LifecycleInv, NEW r \in Runs, RunStep(r),
                      NEW q \in Runs, row[q].status \in Terminal
               PROVE  row'[q] = row[q]
    BY DEF LifecycleNext
  <2>1. LifecycleTypeOK /\ RowInv(r)
    BY DEF LifecycleInv
  <2>2. CASE q = r
    BY <2>1, <2>2, RowStep
  <2>3. CASE q # r
    BY <2>1, <2>3, OneRowAtATime DEF LifecycleTypeOK
  <2>4. QED BY <2>2, <2>3
<1>2. QED BY <1>1, LifecycleInvariant, PTL DEF LifecycleSpec, TerminalRowsAreFinal

(* A token is replaced by another claim's token after its lease expired.   *)
LEMMA TakeoverStep ==
    ASSUME LifecycleTypeOK, NEW r \in Runs, RowInv(r), RunStep(r),
           row[r].leaseExpiresAt = "future",
           row'[r].leaseToken # row[r].leaseToken
    PROVE  row'[r].leaseToken = 0
<1> USE DEF LifecycleTypeOK
<1>b. /\ row[r] \in Row
      /\ row \in [Runs -> Row]
  OBVIOUS
<1>l. row[r].status \in Leased
  BY DEF RowInv, LeaseCheck, Null
<1>1. ~Create(r) /\ ~MarkQueued(r) /\ ~RequeueRetry(r) /\ ~ReEnqueue(r)
  BY <1>l DEF Leased, Create, MarkQueued, RequeueRetry, Transition, ReEnqueue,
              Touch
<1>2. ~ClaimProcessing(r) /\ ~ClaimDelivery(r)
  BY <1>l DEF Leased, ClaimProcessing, ProcessingClaimable, ClaimDelivery,
              DeliveryClaimable, Reached
<1>3. ASSUME NEW token \in 1..ClaimsOf(r), LeaseholderStep(r, token)
      PROVE  row'[r].leaseToken = 0
  <2>1. CASE StoreDeliveryPayload(r, token) \/ MarkCompleted(r, token)
    BY <2>1, <1>b DEF StoreDeliveryPayload, MarkCompleted, Row
  <2>2. ASSUME NEW stage \in Leased, MarkRetry(r, token, stage)
        PROVE  row'[r].leaseToken = 0
    BY <2>2, <1>b DEF MarkRetry, Row
  <2>3. ASSUME NEW stage \in Leased, MarkFailed(r, token, stage)
        PROVE  row'[r].leaseToken = 0
    BY <2>3, <1>b DEF MarkFailed, Row
  <2>4. ASSUME NEW stage \in Leased, RenewLease(r, token, stage)
        PROVE  FALSE
    BY <2>4, <1>b DEF RenewLease, Row
  <2>5. QED BY <1>3, <2>1, <2>2, <2>3, <2>4 DEF LeaseholderStep
<1>4. ASSUME NEW stage \in Leased, ExpireLease(r, stage)
      PROVE  FALSE
  BY <1>4 DEF ExpireLease, Reached
<1>5. ~LeaseLapses(r) /\ ~RetryFallsDue(r) /\ ~GoesStale(r)
  BY <1>b DEF LeaseLapses, RetryFallsDue, GoesStale, Row
<1>6. QED BY <1>1, <1>2, <1>3, <1>4, <1>5 DEF RunStep

(* INV-05, INV-06: no takeover of a live lease.                            *)
THEOREM Fencing == LifecycleSpec => NoLiveTakeover
<1> DEFINE A == \A r \in Runs :
                   /\ row[r].leaseExpiresAt = "future"
                   /\ row'[r].leaseToken # row[r].leaseToken
                   => row'[r].leaseToken = 0
<1>1. LifecycleInv /\ [LifecycleNext]_lifecycleVars => [A]_lifecycleVars
  <2> SUFFICES ASSUME LifecycleInv, NEW r \in Runs, RunStep(r), NEW q \in Runs,
                      row[q].leaseExpiresAt = "future",
                      row'[q].leaseToken # row[q].leaseToken
               PROVE  row'[q].leaseToken = 0
    BY DEF LifecycleNext
  <2>1. LifecycleTypeOK /\ RowInv(r)
    BY DEF LifecycleInv
  <2>2. q = r
    BY <2>1, OneRowAtATime DEF LifecycleTypeOK
  <2>3. QED BY <2>1, <2>2, TakeoverStep
<1>2. QED BY <1>1, LifecycleInvariant, PTL DEF LifecycleSpec, NoLiveTakeover

-----------------------------------------------------------------------------
(* Refinement of SummaryContract.                                          *)
PhaseByStatus(r) ==
    /\ row[r].status = "missing"          <=> Phase(r) = "unknown"
    /\ row[r].status = "processing"       <=> Phase(r) = "computing"
    /\ row[r].status = "delivering"       <=> Phase(r) = "sending"
    /\ row[r].status = "completed"        <=> Phase(r) = "delivered"
    /\ row[r].status = "failed_permanent" <=> Phase(r) = "failed"
    /\ row[r].status \notin Leased \cup Terminal \cup {"missing"}
       => Phase(r) = IF InProcessingStage(r) THEN "waiting" ELSE "ready"

LEMMA PhaseValue ==
    ASSUME NEW r \in Runs
    PROVE  PhaseByStatus(r) /\ PhaseByStatus(r)'
BY DEF PhaseByStatus, Phase, Leased, Terminal, InProcessingStage

Moves == {<<"computing", "waiting">>, <<"computing", "ready">>,
          <<"computing", "failed">>, <<"ready", "sending">>,
          <<"sending", "ready">>, <<"sending", "delivered">>,
          <<"sending", "failed">>}

(* What a statement does to the phase of its run.                          *)
LEMMA PhaseStep ==
    ASSUME LifecycleTypeOK, NEW r \in Runs, RowInv(r), RunStep(r)
    PROVE  \/ Create(r) /\ Phase(r) = "unknown" /\ Phase(r)' = "waiting"
           \/ /\ ClaimProcessing(r)
              /\ Phase(r) = "waiting" \/ Phase(r) = "computing"
              /\ Phase(r)' = "computing"
           \/ late' = late /\ Phase(r)' = Phase(r)
           \/ late' = late /\ <<Phase(r), Phase(r)'>> \in Moves
<1> DEFINE Goal == \/ late' = late /\ Phase(r)' = Phase(r)
                   \/ late' = late /\ <<Phase(r), Phase(r)'>> \in Moves
<1>p. PhaseByStatus(r) /\ PhaseByStatus(r)'
  BY PhaseValue
<1> USE DEF LifecycleTypeOK, PhaseByStatus, Leased, Terminal, InProcessingStage
<1>b. /\ row[r] \in Row
      /\ row \in [Runs -> Row]
  OBVIOUS
<1>1. CASE Create(r)
  <2>1. row[r].status = "missing" /\ row'[r].status = "created"
    BY <1>1, <1>b DEF Create, NoRow
  <2>2. QED BY <1>1, <1>p, <2>1
<1>2. CASE MarkQueued(r)
  <2>1. /\ row[r].status = "created" /\ row'[r].status = "queued"
        /\ row'[r].retryStage = Null /\ late' = late
    BY <1>2, <1>b DEF MarkQueued, Transition, Row, RowInv, RetryStageCheck
  <2>2. QED BY <1>p, <2>1
<1>3. CASE RequeueRetry(r)
  <2>1. /\ row[r].status = "retry_wait" /\ row'[r].status = "queued"
        /\ row[r].retryStage \in Stages
        /\ row'[r].retryStage = row[r].retryStage /\ late' = late
    BY <1>3, <1>b DEF RequeueRetry, Transition, Row, RowInv, RetryStageCheck
  <2>2. QED BY <1>p, <2>1 DEF Stages, Null
<1>4. CASE ReEnqueue(r)
  <2>1. /\ row[r].status \in {"queued", "summary_ready"}
        /\ row'[r].status = row[r].status
        /\ row'[r].retryStage = row[r].retryStage /\ late' = late
    BY <1>4, <1>b DEF ReEnqueue, Touch, Row
  <2>2. QED BY <1>p, <2>1
<1>5. CASE ClaimProcessing(r)
  <2>1. row'[r].status = "processing"
    BY <1>5, <1>b DEF ClaimProcessing, Row
  <2>2. \/ row[r].status = "processing"
        \/ row[r].status \in {"queued", "retry_wait"} /\ InProcessingStage(r)
    BY <1>5 DEF ClaimProcessing, ProcessingClaimable
  <2>3. QED BY <1>5, <1>p, <2>1, <2>2
<1>6. CASE ClaimDelivery(r)
  <2>1. row'[r].status = "delivering" /\ late' = late
    BY <1>6, <1>b DEF ClaimDelivery, Row
  <2>2. ~InProcessingStage(r)
    <3> HIDE DEF InProcessingStage
    <3>1. QED BY <1>6 DEF ClaimDelivery, DeliveryClaimable, RowInv
  <2>3. row[r].status \in {"summary_ready", "queued", "retry_wait", "delivering"}
    BY <1>6 DEF ClaimDelivery, DeliveryClaimable
  <2>4. QED BY <1>p, <2>1, <2>2, <2>3 DEF Moves
<1>7. ASSUME NEW token \in 1..ClaimsOf(r), LeaseholderStep(r, token)
      PROVE  Goal
  <2>1. CASE StoreDeliveryPayload(r, token)
    <3>1. /\ row[r].status = "processing" /\ row'[r].status = "summary_ready"
          /\ late' = late
      BY <2>1, <1>b DEF StoreDeliveryPayload, Owns, Row
    <3>2. QED BY <1>p, <3>1 DEF Moves
  <2>2. CASE MarkCompleted(r, token)
    <3>1. /\ row[r].status = "delivering" /\ row'[r].status = "completed"
          /\ late' = late
      BY <2>2, <1>b DEF MarkCompleted, Owns, Row
    <3>2. QED BY <1>p, <3>1 DEF Moves
  <2>3. ASSUME NEW stage \in Leased, MarkRetry(r, token, stage)
        PROVE  Goal
    <3>1. /\ row[r].status = stage /\ row'[r].status = "retry_wait"
          /\ row'[r].retryStage = StageOf(stage) /\ late' = late
      BY <2>3, <1>b DEF MarkRetry, Owns, Row
    <3>2. QED BY <1>p, <3>1 DEF Moves, StageOf
  <2>4. ASSUME NEW stage \in Leased, MarkFailed(r, token, stage)
        PROVE  Goal
    <3>1. /\ row[r].status = stage /\ row'[r].status = "failed_permanent"
          /\ late' = late
      BY <2>4, <1>b DEF MarkFailed, Owns, Row
    <3>2. QED BY <1>p, <3>1 DEF Moves
  <2>5. ASSUME NEW stage \in Leased, RenewLease(r, token, stage)
        PROVE  Goal
    <3>1. /\ row[r].status = stage /\ row'[r].status = stage /\ late' = late
      BY <2>5, <1>b DEF RenewLease, Owns, Row
    <3>2. QED BY <1>p, <3>1
  <2>6. QED BY <1>7, <2>1, <2>2, <2>3, <2>4, <2>5 DEF LeaseholderStep
<1>8. ASSUME NEW stage \in Leased, ExpireLease(r, stage)
      PROVE  Goal
  <2>1. /\ row[r].status = stage /\ row'[r].status = "retry_wait"
        /\ row'[r].retryStage = StageOf(stage) /\ late' = late
    BY <1>8, <1>b DEF ExpireLease, Row
  <2>2. QED BY <1>p, <2>1 DEF Moves, StageOf
<1>9. CASE LeaseLapses(r) \/ RetryFallsDue(r) \/ GoesStale(r)
  <2>1. /\ row'[r].status = row[r].status
        /\ row'[r].retryStage = row[r].retryStage /\ late' = late
    BY <1>9, <1>b DEF LeaseLapses, RetryFallsDue, GoesStale, Row
  <2>2. QED BY <1>p, <2>1 DEF Phase
<1>10. QED BY <1>1, <1>2, <1>3, <1>4, <1>5, <1>6, <1>7, <1>8, <1>9 DEF RunStep

(* A statement is a step of the contract or invisible to it.               *)
LEMMA ContractStep ==
    LifecycleInv /\ [LifecycleNext]_lifecycleVars
    => [Contract!ContractNext]_(Contract!contractVars)
<1> DEFINE phase == [q \in Runs |-> Phase(q)]
<1> SUFFICES ASSUME LifecycleInv, [LifecycleNext]_lifecycleVars
             PROVE  \/ \E r \in Runs : \/ Contract!Request(r)
                                       \/ Contract!Compute(r)
                                       \/ Contract!Proceed(r)
                    \/ phase' = phase /\ late' = late
  BY DEF Contract!ContractNext, Contract!contractVars
<1>1. CASE UNCHANGED lifecycleVars
  BY <1>1 DEF lifecycleVars, Phase, InProcessingStage
<1>2. ASSUME NEW r \in Runs, RunStep(r)
      PROVE  \/ \/ Contract!Request(r)
                \/ Contract!Compute(r)
                \/ Contract!Proceed(r)
             \/ phase' = phase /\ late' = late
  <2>1. LifecycleTypeOK /\ RowInv(r)
    BY DEF LifecycleInv
  <2>2. \A q \in Runs \ {r} : row'[q] = row[q]
    BY <1>2, <2>1, OneRowAtATime DEF LifecycleTypeOK
  <2>3. \A q \in Runs \ {r} : Phase(q)' = Phase(q)
    BY <2>2 DEF Phase, InProcessingStage
  <2>4. phase' = [phase EXCEPT ![r] = Phase(r)']
    BY <2>3
  <2>5. CASE Create(r) /\ Phase(r) = "unknown" /\ Phase(r)' = "waiting"
    <3>1. \A l \in Runs : row[l].status # "missing" <=> phase[l] # "unknown"
      BY PhaseValue DEF PhaseByStatus
    <3>2. late' = IF \E l \in Runs : Contract!Before(r, l) /\ phase[l] # "unknown"
                  THEN late \cup {r} ELSE late
      BY <2>5, <3>1 DEF Create, RunOrder, Contract!Before
    <3>3. QED BY <2>4, <2>5, <3>2 DEF Contract!Request, Contract!Become
  <2>6. CASE /\ ClaimProcessing(r)
             /\ Phase(r) = "waiting" \/ Phase(r) = "computing"
             /\ Phase(r)' = "computing"
    <3>1. late' = late
      BY <2>6 DEF ClaimProcessing
    <3>2. CASE Phase(r) = "computing"
      BY <2>4, <2>6, <3>1, <3>2
    <3>3. CASE Phase(r) = "waiting"
      <4>1. ASSUME NEW e \in Runs, Contract!Before(e, r)
            PROVE  phase[e] \notin Contract!Uncomputed
        <5>1. ~InProcessingStage(e)
          BY <2>6, <4>1 DEF ClaimProcessing, NoEarlierRunInProcessing, RunOrder,
                            Contract!Before
        <5>2. QED BY <5>1, PhaseValue
                  DEF PhaseByStatus, Contract!Uncomputed, InProcessingStage,
                      Leased, Terminal
      <4>2. ASSUME NEW o \in Runs, ChatOf[o] = ChatOf[r]
            PROVE  phase[o] # "computing"
        <5>1. CASE o = r
          BY <3>3, <5>1
        <5>2. CASE o # r
          BY <2>6, <4>2, <5>2, PhaseValue
             DEF ClaimProcessing, ChatHasNoOtherProcessing, PhaseByStatus
        <5>3. QED BY <5>1, <5>2
      <4>3. QED BY <2>4, <2>6, <3>1, <3>3, <4>1, <4>2
                DEF Contract!Compute, Contract!Become
    <3>4. QED BY <2>6, <3>2, <3>3
  <2>7. CASE late' = late /\ Phase(r)' = Phase(r)
    BY <2>4, <2>7
  <2>8. CASE late' = late /\ <<Phase(r), Phase(r)'>> \in Moves
    BY <2>4, <2>8 DEF Moves, Contract!Proceed, Contract!Become
  <2>9. QED BY <1>2, <2>1, <2>5, <2>6, <2>7, <2>8, PhaseStep
<1>3. QED BY <1>1, <1>2 DEF LifecycleNext

(* The lifecycle store implements the contract, for every number of runs,  *)
(* chats and claims.                                                       *)
THEOREM Refinement == LifecycleSpec => ContractSpec
<1>1. LifecycleInit => Contract!ContractInit
  BY DEF LifecycleInit, NoRow, Contract!ContractInit, Phase
<1>2. QED BY <1>1, ContractStep, LifecycleInvariant, PTL
          DEF LifecycleSpec, ContractSpec, Contract!ContractSpec
=============================================================================
