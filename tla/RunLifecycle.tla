---------------------------- MODULE RunLifecycle ----------------------------
(***************************************************************************)
(* The durable lifecycle row of a summary run, as the statements of        *)
(* SummaryExecutionRepository change it (table summary_run_lifecycle).     *)
(* Each UPDATE of the repository is one conditional statement, hence one   *)
(* action here: its WHERE clause is the guard, its SET list the new row.   *)
(* An UPDATE that matches no row changes nothing and needs no action.      *)
(*                                                                         *)
(* The callers are left open: every statement may run at any moment, with  *)
(* any lease token that was ever handed out.  SummaryPipeline.tla drives   *)
(* the same statements with the workers, the queue and the cron.           *)
(*                                                                         *)
(* Timestamps.  The code only ever compares a stored timestamp with the    *)
(* current time, so a timestamp is represented by the outcome of that      *)
(* comparison: a deadline is "future" or "past", updatedAt is "recent" or  *)
(* "stale" (older than STALE_AFTER_MS), and Null is SQL NULL.  The three   *)
(* clock actions let each deadline pass at any moment, so no assumption    *)
(* is made on durations.                                                   *)
(*                                                                         *)
(* Lease tokens.  A claim draws a random UUID and increments one of the    *)
(* two attempt counters of the row; tokens are only compared together with *)
(* the row id, so the number of claims so far stands for the fresh UUID.   *)
(***************************************************************************)
EXTENDS Integers

CONSTANTS
    Runs,               \* commands: one idempotency key, hence one row, each
    ChatOf,             \* the chat a command was sent in
    CommandMessageId,   \* the Telegram message id of the command
    MaxClaims           \* bound on the claims of one run

RunOrder(e, r) == /\ ChatOf[e] = ChatOf[r]
                  /\ CommandMessageId[e] < CommandMessageId[r]

\* Two commands of a chat are two messages, so their ids differ.
ASSUME RunsAssumption ==
    /\ CommandMessageId \in [Runs -> Nat]
    /\ \A e, r \in Runs :
          e # r /\ ChatOf[e] = ChatOf[r] => RunOrder(e, r) \/ RunOrder(r, e)
    /\ MaxClaims \in Nat

Null == "null"

Statuses == {"missing", "created", "queued", "processing", "summary_ready",
             "delivering", "completed", "retry_wait", "failed_permanent"}
Terminal == {"completed", "failed_permanent"}
Leased   == {"processing", "delivering"}
Stages   == {"processing", "delivery"}
Deadlines == {"future", "past"}

\* leaseToken 0 is SQL NULL; summary says whether summary_ciphertext is set.
Row == [status          : Statuses,
        attempt         : Nat,
        deliveryAttempt : Nat,
        leaseToken      : Nat,
        leaseExpiresAt  : Deadlines \cup {Null},
        nextRetryAt     : Deadlines \cup {Null},
        retryStage      : Stages \cup {Null},
        summary         : BOOLEAN,
        updatedAt       : {"recent", "stale"}]

VARIABLES
    row,    \* row[r]: the lifecycle row of command r
    late    \* history: commands whose row was created after the row of a
            \* later command of the same chat
lifecycleVars == <<row, late>>

NoRow == [status |-> "missing", attempt |-> 0, deliveryAttempt |-> 0,
          leaseToken |-> 0, leaseExpiresAt |-> Null, nextRetryAt |-> Null,
          retryStage |-> Null, summary |-> FALSE, updatedAt |-> "recent"]

LifecycleInit == /\ row = [r \in Runs |-> NoRow]
                 /\ late = {}

-----------------------------------------------------------------------------
(* Comparisons with the current time; SQL comparisons with NULL are false. *)
Reached(deadline) == deadline = "past"
DueOrUnset(deadline) == deadline \in {"past", Null}

\* Mutant: any valid lease will do.
OwnsAnyToken(r, token, stage) ==
    /\ row[r].status = stage
    /\ row[r].leaseExpiresAt = "future"

\* The row still carries the lease that token names, and it has not expired.
Owns(r, token, stage) ==
    /\ row[r].status = stage
    /\ row[r].leaseToken = token
    /\ row[r].leaseExpiresAt = "future"

\* A run that has not finished computing its summary: the statuses an
\* earlier run of the chat must have left before a claim is granted.
InProcessingStage(r) ==
    \/ row[r].status \in {"created", "processing"}
    \/ row[r].status = "queued" /\ row[r].retryStage \in {"processing", Null}
    \/ row[r].status = "retry_wait" /\ row[r].retryStage = "processing"

ClaimsOf(r) == row[r].attempt + row[r].deliveryAttempt

TRANSITIONS ==
    [missing          |-> {"created"},
     created          |-> {"queued", "failed_permanent"},
     queued           |-> {"processing", "retry_wait", "failed_permanent"},
     processing       |-> {"summary_ready", "retry_wait", "failed_permanent"},
     summary_ready    |-> {"delivering", "failed_permanent"},
     delivering       |-> {"completed", "retry_wait", "failed_permanent"},
     retry_wait       |-> {"queued", "processing", "delivering",
                           "failed_permanent"},
     completed        |-> {},
     failed_permanent |-> {}]

-----------------------------------------------------------------------------
\* INSERT ... ON CONFLICT (idempotency_key) DO NOTHING.
Create(r) ==
    /\ row[r].status = "missing"
    /\ row' = [row EXCEPT ![r] = [NoRow EXCEPT !.status = "created"]]
    /\ late' = IF \E l \in Runs : RunOrder(r, l) /\ row[l].status # "missing"
               THEN late \cup {r} ELSE late

\* The generic status change: only status and updated_at are written.
Transition(r, from, to) ==
    /\ to \in TRANSITIONS[from]
    /\ row[r].status = from
    /\ row' = [row EXCEPT ![r].status = to, ![r].updatedAt = "recent"]
    /\ UNCHANGED late

Touch(r, status) ==
    /\ row[r].status = status
    /\ row' = [row EXCEPT ![r].updatedAt = "recent"]
    /\ UNCHANGED late

\* Mutant: the stage of a due retry is not looked at.
ProcessingClaimableAnyStage(r) ==
    \/ row[r].status = "queued"
    \/ row[r].status = "retry_wait" /\ DueOrUnset(row[r].nextRetryAt)

ProcessingClaimable(r) ==
    \/ row[r].status = "queued" /\ row[r].retryStage \in {"processing", Null}
    \/ /\ row[r].status = "retry_wait"
       /\ row[r].retryStage = "processing"
       /\ DueOrUnset(row[r].nextRetryAt)
    \/ row[r].status = "processing" /\ Reached(row[r].leaseExpiresAt)

\* Mutant: an earlier run that waits for its retry is overtaken.
NoEarlierRunActive(r) ==
    \A e \in Runs : RunOrder(e, r) => row[e].status \notin {"created", "queued",
                                                         "processing"}

\* Mutant: only a delivered earlier run lets later ones start.
EarlierRunsCompleted(r) ==
    \A e \in Runs : RunOrder(e, r) => row[e].status = "completed"

\* NOT EXISTS (earlier_summary_run ...).
NoEarlierRunInProcessing(r) ==
    \A e \in Runs : RunOrder(e, r) => ~InProcessingStage(e)

\* Unique index one_processing_per_chat: the UPDATE throws if it would break it.
ChatHasNoOtherProcessing(r) ==
    \A o \in Runs \ {r} :
        ChatOf[o] = ChatOf[r] => row[o].status # "processing"

\* Mutant: the claim keeps the retry deadline.
ClaimProcessingKeepsDeadline(r) ==
    /\ ProcessingClaimable(r)
    /\ NoEarlierRunInProcessing(r)
    /\ ChatHasNoOtherProcessing(r)
    /\ ClaimsOf(r) < MaxClaims
    /\ row' = [row EXCEPT ![r] = [row[r] EXCEPT
                  !.status = "processing",      !.updatedAt = "recent",
                  !.leaseExpiresAt = "future",  !.leaseToken = ClaimsOf(r) + 1,
                  !.retryStage = Null,          !.attempt = row[r].attempt + 1]]
    /\ UNCHANGED late

ClaimProcessing(r) ==
    /\ ProcessingClaimable(r)
    /\ NoEarlierRunInProcessing(r)
    /\ ChatHasNoOtherProcessing(r)
    /\ ClaimsOf(r) < MaxClaims
    /\ row' = [row EXCEPT ![r] = [row[r] EXCEPT
                  !.status = "processing",      !.updatedAt = "recent",
                  !.leaseExpiresAt = "future",  !.leaseToken = ClaimsOf(r) + 1,
                  !.nextRetryAt = Null,         !.retryStage = Null,
                  !.attempt = row[r].attempt + 1]]
    /\ UNCHANGED late

StoreDeliveryPayload(r, token) ==
    /\ Owns(r, token, "processing")
    /\ row' = [row EXCEPT ![r] = [row[r] EXCEPT
                  !.status = "summary_ready",   !.summary = TRUE,
                  !.updatedAt = "recent",       !.leaseExpiresAt = Null,
                  !.leaseToken = 0]]
    /\ UNCHANGED late

DeliveryClaimable(r) ==
    /\ row[r].summary
    /\ \/ row[r].status = "summary_ready"
       \/ row[r].status = "queued" /\ row[r].retryStage = "delivery"
       \/ /\ row[r].status = "retry_wait"
          /\ row[r].retryStage = "delivery"
          /\ DueOrUnset(row[r].nextRetryAt)
       \/ row[r].status = "delivering" /\ Reached(row[r].leaseExpiresAt)

ClaimDelivery(r) ==
    /\ DeliveryClaimable(r)
    /\ ClaimsOf(r) < MaxClaims
    /\ row' = [row EXCEPT ![r] = [row[r] EXCEPT
                  !.status = "delivering",      !.updatedAt = "recent",
                  !.leaseExpiresAt = "future",  !.leaseToken = ClaimsOf(r) + 1,
                  !.nextRetryAt = Null,         !.retryStage = Null,
                  !.deliveryAttempt = row[r].deliveryAttempt + 1]]
    /\ UNCHANGED late

MarkCompleted(r, token) ==
    /\ Owns(r, token, "delivering")
    /\ row' = [row EXCEPT ![r] = [row[r] EXCEPT
                  !.status = "completed",       !.updatedAt = "recent",
                  !.leaseExpiresAt = Null,      !.leaseToken = 0]]
    /\ UNCHANGED late

StageOf(from) == IF from = "processing" THEN "processing" ELSE "delivery"

\* Telegram may answer retry_after = 0, so the deadline may already be past.
MarkRetry(r, token, from) ==
    /\ Owns(r, token, from)
    /\ \E deadline \in Deadlines :
          row' = [row EXCEPT ![r] = [row[r] EXCEPT
                     !.status = "retry_wait",   !.retryStage = StageOf(from),
                     !.nextRetryAt = deadline,  !.updatedAt = "recent",
                     !.leaseExpiresAt = Null,   !.leaseToken = 0]]
    /\ UNCHANGED late

MarkFailed(r, token, from) ==
    /\ Owns(r, token, from)
    /\ row' = [row EXCEPT ![r] = [row[r] EXCEPT
                  !.status = "failed_permanent", !.updatedAt = "recent",
                  !.leaseExpiresAt = Null,       !.leaseToken = 0,
                  !.nextRetryAt = Null,          !.retryStage = Null]]
    /\ UNCHANGED late

RenewLease(r, token, stage) ==
    /\ Owns(r, token, stage)
    /\ row' = [row EXCEPT ![r].updatedAt = "recent"]
    /\ UNCHANGED late

ExpireLease(r, from) ==
    /\ row[r].status = from
    /\ Reached(row[r].leaseExpiresAt)
    /\ row' = [row EXCEPT ![r] = [row[r] EXCEPT
                  !.status = "retry_wait",      !.retryStage = StageOf(from),
                  !.nextRetryAt = "past",       !.updatedAt = "recent",
                  !.leaseExpiresAt = Null,      !.leaseToken = 0]]
    /\ UNCHANGED late

-----------------------------------------------------------------------------
(* Time: a deadline passes, an untouched row becomes stale (updated_at is  *)
(* read for three statuses only).                                          *)
LeaseLapses(r) ==
    /\ row[r].leaseExpiresAt = "future"
    /\ row' = [row EXCEPT ![r].leaseExpiresAt = "past"]
    /\ UNCHANGED late

RetryFallsDue(r) ==
    /\ row[r].nextRetryAt = "future"
    /\ row' = [row EXCEPT ![r].nextRetryAt = "past"]
    /\ UNCHANGED late

GoesStale(r) ==
    /\ row[r].status \in {"created", "queued", "summary_ready"}
    /\ row[r].updatedAt = "recent"
    /\ row' = [row EXCEPT ![r].updatedAt = "stale"]
    /\ UNCHANGED late

-----------------------------------------------------------------------------
(* The callers of transition() and touch() in the lifecycle worker.        *)
MarkQueued(r)     == Transition(r, "created", "queued")
RequeueRetry(r)   == Transition(r, "retry_wait", "queued")
ReEnqueue(r)      == \E s \in {"queued", "summary_ready"} : Touch(r, s)

LeaseholderStep(r, token) ==
    \/ StoreDeliveryPayload(r, token)
    \/ MarkCompleted(r, token)
    \/ \E stage \in Leased : \/ MarkRetry(r, token, stage)
                             \/ MarkFailed(r, token, stage)
                             \/ RenewLease(r, token, stage)

RunStep(r) ==
    \/ Create(r)
    \/ MarkQueued(r)
    \/ RequeueRetry(r)
    \/ ReEnqueue(r)
    \/ ClaimProcessing(r)
    \/ ClaimDelivery(r)
    \/ \E token \in 1..ClaimsOf(r) : LeaseholderStep(r, token)
    \/ \E stage \in Leased : ExpireLease(r, stage)
    \/ LeaseLapses(r)
    \/ RetryFallsDue(r)
    \/ GoesStale(r)

LifecycleNext == \E r \in Runs : RunStep(r)

LifecycleSpec == LifecycleInit /\ [][LifecycleNext]_lifecycleVars

-----------------------------------------------------------------------------
(* Type invariant.                                                         *)
LifecycleTypeOK == /\ row \in [Runs -> Row]
                   /\ late \subseteq Runs

(* The CHECK constraints of the table (schema.ts) never reject a statement *)
(* of the repository: every UPDATE writes a combination of columns they    *)
(* allow, whatever the order in which the statements reach a row.          *)
LeaseCheck(r) ==
    IF row[r].status \in Leased
    THEN row[r].leaseToken # 0 /\ row[r].leaseExpiresAt # Null
    ELSE row[r].leaseToken = 0 /\ row[r].leaseExpiresAt = Null

RetryStageCheck(r) ==
    /\ row[r].status = "retry_wait" => row[r].retryStage \in Stages
    /\ row[r].status \notin {"retry_wait", "queued"} => row[r].retryStage = Null

DeliverySummaryCheck(r) ==
    \/ /\ row[r].status \notin {"summary_ready", "delivering", "completed"}
       /\ row[r].retryStage # "delivery"
    \/ row[r].summary

TableChecksHold ==
    \A r \in Runs : LeaseCheck(r) /\ RetryStageCheck(r) /\ DeliverySummaryCheck(r)

(* Once its delivery text is stored a run never computes again: no path of *)
(* retries, lease expiries, requeues and claims leads a row that carries a *)
(* summary back to a status from which claimProcessing would be granted.   *)
SummaryClosesProcessing ==
    \A r \in Runs : row[r].summary => ~InProcessingStage(r)

(* INV-07 of the mental model: one run of a chat is in processing at most. *)
OneProcessingPerChat ==
    \A r, o \in Runs :
        /\ ChatOf[r] = ChatOf[o]
        /\ row[r].status = "processing"
        /\ row[o].status = "processing"
        => r = o

(* Commands of a chat are computed in the order they were sent: when a run *)
(* was claimed for processing, every earlier command that was already      *)
(* known has finished computing, and none of them can start again.  Only a *)
(* command that became known after a later one escapes the order.          *)
NoOvertaking ==
    \A e, r \in Runs :
        /\ RunOrder(e, r)
        /\ row[r].attempt > 0
        /\ row[e].status # "missing"
        /\ e \notin late
        => ~InProcessingStage(e)

(* The inductive invariant behind the theorems.  To the properties above it*)
(* adds where a retry deadline can be set, that a row holds nothing before *)
(* it exists, that a processing row has counted an attempt, and that its   *)
(* token was handed out by one of its claims.                              *)
RowInv(r) ==
    /\ LeaseCheck(r)
    /\ RetryStageCheck(r)
    /\ DeliverySummaryCheck(r)
    /\ row[r].summary => ~InProcessingStage(r)
    /\ row[r].nextRetryAt # Null => row[r].status \in {"retry_wait", "queued"}
    /\ row[r].status = "missing" => row[r] = NoRow
    /\ row[r].status = "processing" => row[r].attempt > 0

TokenIssued(r) == row[r].leaseToken <= ClaimsOf(r)

LifecycleInv == /\ LifecycleTypeOK
                /\ \A r \in Runs : RowInv(r) /\ TokenIssued(r)
                /\ OneProcessingPerChat
                /\ NoOvertaking

(* completed and failed_permanent are final: no late statement, replayed   *)
(* job or cron pass writes to a terminal row again.                        *)
TerminalRowsAreFinal ==
    [][\A r \in Runs : row[r].status \in Terminal => row'[r] = row[r]]_lifecycleVars

(* A lease is taken over only when its holder can no longer write: the     *)
(* token of a leased row changes to another claim's token only after the   *)
(* lease expired.  (INV-05, INV-06: a stale owner and its successor are    *)
(* never both entitled to write.)                                          *)
NoLiveTakeover ==
    [][\A r \in Runs :
          /\ row[r].leaseExpiresAt = "future"
          /\ row'[r].leaseToken # row[r].leaseToken
          => row'[r].leaseToken = 0]_lifecycleVars

-----------------------------------------------------------------------------
(* The store implements SummaryContract: a lease that is reclaimed, a      *)
(* requeue, a touch or a renewal is invisible there.                       *)
Phase(r) ==
    CASE row[r].status = "missing"          -> "unknown"
      [] row[r].status = "processing"       -> "computing"
      [] row[r].status = "delivering"       -> "sending"
      [] row[r].status = "completed"        -> "delivered"
      [] row[r].status = "failed_permanent" -> "failed"
      [] OTHER -> IF InProcessingStage(r) THEN "waiting" ELSE "ready"

Contract == INSTANCE SummaryContract WITH
    phase     <- [r \in Runs |-> Phase(r)],
    overtaken <- late

(* Every behaviour of the store is one the contract allows: computations   *)
(* of a chat are exclusive and in order, a stored text is never recomputed,*)
(* nothing is sent before a text is stored, and the two final phases are   *)
(* final.                                                                  *)
ContractSpec == Contract!ContractSpec
=============================================================================
