---------------------------- MODULE AttemptLedger ----------------------------
(***************************************************************************)
(* The attempts of the commands of one chat and the ledger they leave      *)
(* (packages/summarize: executeSummaryAttempt, SummaryAttemptRecorder;     *)
(* packages/db: message history, summary_runs, consumption boundary).      *)
(*                                                                         *)
(* Messages are saved and commands become known at any time.  The store of *)
(* runs is what RunLifecycle proves of it: one run of the chat computes at *)
(* a time, none before an earlier known one, and a lease that lapses lets  *)
(* the next attempt start while the old worker goes on.                    *)
(***************************************************************************)
EXTENDS SummaryWindow

CONSTANTS Commands,     \* the commands members may send, of type Command
          MaxAttempts,  \* bound: claims of one run (MAX_ATTEMPTS is 4)
          MaxLapses     \* bound: leases that lapse under their holder

ASSUME LedgerAssumption ==
    /\ IsFiniteSet(Messages)
    /\ Commands \subseteq Command
    /\ \A c, d \in Commands : c.id = d.id => c = d
    /\ MaxAttempts \in Nat \ {0}
    /\ MaxLapses \in Nat

VARIABLES history,   \* saved messages
          run,       \* command -> its row of the lifecycle
          work,      \* command, attempt -> what its worker holds
          rows,      \* summary_runs with their snapshots
          catalog,   \* the WMA catalog row of the chat
          lapses,    \* leases that lapsed
          late       \* commands that became known behind a claimed later one

ledgerVars == <<history, run, work, rows, catalog, lapses, late>>

Attempts == 1..MaxAttempts

-----------------------------------------------------------------------------
(***************************************************************************)
(* Types.                                                                  *)
(***************************************************************************)
RunStatuses == {"unknown", "waiting", "processing", "closed"}
Run == [status: RunStatuses, attempt: 0..MaxAttempts]

\* Where a worker is: before the attempt, reading, saving its evidence,
\* telling the lifecycle about an outcome or an error, or over.
Places == {"idle", "lookup", "load", "save", "store", "fail", "gone"}

Windows == [eligible: SUBSET Messages, context: SUBSET Messages,
            consumption: {"checkpoint", "read-only"},
            checkpointBefore: Messages \union {Null},
            upperExclusive: Nat \ {0}]

Work == [pc: Places,
         reads: SUBSET {"messages", "boundary"},
         all: SUBSET Messages,
         checkpoint: Messages \union {Null},
         selected: Windows \union {Null},
         status: Statuses \union {Null}]

\* summary_runs; eligible and context are its summary_run_messages, all is
\* a history variable: the messages an outcome
\* was computed from.  The model calls
\* and the dataset candidate of an attempt follow from its row.
Row == [command: Commands, attempt: Attempts, status: Statuses,
        eligible: SUBSET Messages, context: SUBSET Messages,
        all: SUBSET Messages]

LedgerTypeOK ==
    /\ history \subseteq Messages
    /\ run \in [Commands -> Run]
    /\ work \in [Commands -> [Attempts -> Work]]
    /\ rows \subseteq Row
    /\ catalog \in [summaryCount: Nat, messageCount: Nat]
    /\ lapses \in 0..MaxLapses
    /\ late \subseteq Commands

Idle == [pc |-> "idle", reads |-> {}, all |-> {}, checkpoint |-> Null,
         selected |-> Null, status |-> Null]

\* A worker at a place where it holds no results.
At(pc) == [Idle EXCEPT !.pc = pc]

LedgerInit ==
    /\ history = {}
    /\ run = [c \in Commands |-> [status |-> "unknown", attempt |-> 0]]
    /\ work = [c \in Commands |-> [a \in Attempts |-> Idle]]
    /\ rows = {}
    /\ catalog = [summaryCount |-> 0, messageCount |-> 0]
    /\ lapses = 0
    /\ late = {}

-----------------------------------------------------------------------------
(***************************************************************************)
(* The ledger's queries.                                                   *)
(***************************************************************************)
\* findAcceptedOutcomeByExecutionId: the non-error rows of a run.
Accepted(c) == {r \in rows : r.command = c /\ r.status # "error"}

\* Mutant: every mode of a command moves the boundary.
BoundaryRowsOfAnyMode(ledger) == {r \in ledger : r.status \in {"summarized", "skipped"}}

BoundaryRows(ledger) ==
    {r \in ledger : r.command.mode = "recent" /\ r.status \in {"summarized", "skipped"}}

\* Mutant: the order of the query is turned round.
NewerAscending(r, s) == \/ r.command.id < s.command.id
                        \/ r.command.id = s.command.id /\ r.attempt < s.attempt

\* order by command_message_id desc, orchestration_attempt desc
Newer(r, s) == \/ r.command.id > s.command.id
               \/ r.command.id = s.command.id /\ r.attempt > s.attempt

\* findLatestConsumptionBoundary: to_message_id of the newest such row.
Boundary(ledger) ==
    IF BoundaryRows(ledger) = {} THEN Null
    ELSE Last((CHOOSE r \in BoundaryRows(ledger) :
                 \A s \in BoundaryRows(ledger) \ {r} : Newer(r, s)).eligible)

\* findReusableOutcome: rows with the identity of the selection and a text;
\* a skipped row of a read-only command has none.
Reusable(selected) ==
    {r \in rows : /\ r.status = "summarized" \/ r \in BoundaryRows(rows)
                  /\ r.command.id = selected.upperExclusive
                  /\ r.eligible = selected.eligible
                  /\ r.context = selected.context}

\* Mutant: the fence compares the status but not the attempt.
OwnsByStatus(c, a) == run[c].status = "processing"

Owns(c, a) == run[c].status = "processing" /\ run[c].attempt = a

-----------------------------------------------------------------------------
(***************************************************************************)
(* Ingress.                                                                *)
(***************************************************************************)
\* MessageHistoryRepository.save: the upsert; a repetition changes nothing.
SaveMessage(m) ==
    /\ m \notin history
    /\ history' = history \union {m}
    /\ UNCHANGED <<run, work, rows, catalog, lapses, late>>

Claimed(c) == run[c].attempt > 0

\* SummaryRunLifecycleRepository.create
Create(c) ==
    /\ run[c].status = "unknown"
    /\ run' = [run EXCEPT ![c].status = "waiting"]
    /\ late' = IF \E d \in Commands : d.id > c.id /\ Claimed(d)
               THEN late \union {c} ELSE late
    /\ UNCHANGED <<history, work, rows, catalog, lapses>>

-----------------------------------------------------------------------------
(***************************************************************************)
(* The run's lease, as the lifecycle store grants it.                      *)
(***************************************************************************)
Claim(c) ==
    /\ run[c].status = "waiting"
    /\ run[c].attempt < MaxAttempts
    /\ \A d \in Commands \ {c} : /\ run[d].status # "processing"
                                 /\ d.id < c.id => run[d].status # "waiting"
    /\ run' = [run EXCEPT ![c] = [status |-> "processing", attempt |-> @.attempt + 1]]
    /\ work' = [work EXCEPT ![c][run[c].attempt + 1] = At("lookup")]
    /\ UNCHANGED <<history, rows, catalog, lapses, late>>

\* The lease expires; what its worker does from now on is fenced off.
Lapse(c) ==
    /\ run[c].status = "processing"
    /\ lapses < MaxLapses
    /\ lapses' = lapses + 1
    /\ run' = [run EXCEPT ![c].status = "waiting"]
    /\ UNCHANGED <<history, work, rows, catalog, late>>

\* The claims are used up without an outcome.
Exhaust(c) ==
    /\ run[c].status = "waiting"
    /\ run[c].attempt = MaxAttempts
    /\ run' = [run EXCEPT ![c].status = "closed"]
    /\ UNCHANGED <<history, work, rows, catalog, lapses, late>>

-----------------------------------------------------------------------------
(***************************************************************************)
(* One attempt: executeSummaryAttempt.                                     *)
(***************************************************************************)
\* Mutant: the next attempt computes without asking for an outcome.
LookupSkipped(c, a) ==
    /\ work[c][a].pc = "lookup"
    /\ work' = [work EXCEPT ![c][a] = At("load")]
    /\ UNCHANGED <<history, run, rows, catalog, lapses, late>>

\* processRun asks for an accepted outcome before it computes one.
Lookup(c, a) ==
    /\ work[c][a].pc = "lookup"
    /\ work' = [work EXCEPT ![c][a] = At(IF Accepted(c) = {} THEN "load" ELSE "store")]
    /\ UNCHANGED <<history, run, rows, catalog, lapses, late>>

\* The two reads of Promise.all come back in either order.
ReadMessages(c, a) ==
    /\ work[c][a].pc = "load"
    /\ "messages" \notin work[c][a].reads
    /\ LET w == work[c][a]
       IN  work' = [work EXCEPT ![c][a] =
                      [w EXCEPT !.all = history,
                                !.reads = w.reads \union {"messages"}]]
    /\ UNCHANGED <<history, run, rows, catalog, lapses, late>>

ReadBoundary(c, a) ==
    /\ work[c][a].pc = "load"
    /\ "boundary" \notin work[c][a].reads
    /\ LET w == work[c][a]
       IN  work' = [work EXCEPT ![c][a] =
                      [w EXCEPT !.checkpoint = Boundary(rows),
                                !.reads = w.reads \union {"boundary"}]]
    /\ UNCHANGED <<history, run, rows, catalog, lapses, late>>

\* The dispositions a selection can get: of a reusable outcome if there is
\* one, else what the model makes of it.
Dispositions(selected) ==
    IF selected = Null THEN {"empty"}
    ELSE IF Reusable(selected) # {} THEN {r.status : r \in Reusable(selected)}
    ELSE {"summarized", "deferred", "skipped", "error"}

Process(c, a) ==
    /\ work[c][a].pc = "load"
    /\ work[c][a].reads = {"messages", "boundary"}
    /\ LET selected == SelectSummaryWindow(work[c][a].all, c, work[c][a].checkpoint)
       IN  \E status \in Dispositions(selected) :
             work' = [work EXCEPT ![c][a] =
                        [@ EXCEPT !.pc = "save", !.selected = selected,
                                  !.status = status]]
    /\ UNCHANGED <<history, run, rows, catalog, lapses, late>>

\* A read fails: the evidence of the error has no selection.
LoadFails(c, a) ==
    /\ work[c][a].pc = "load"
    /\ work' = [work EXCEPT ![c][a] = [At("save") EXCEPT !.status = "error"]]
    /\ UNCHANGED <<history, run, rows, catalog, lapses, late>>

\* buildAttemptRecord
RowOf(c, a) ==
    LET selected == work[c][a].selected
    IN  [command |-> c, attempt |-> a, status |-> work[c][a].status,
         eligible |-> IF selected = Null THEN {} ELSE selected.eligible,
         context |-> IF selected = Null THEN {} ELSE selected.context,
         all |-> IF work[c][a].status = "error" THEN {} ELSE work[c][a].all]

\* upsertWmaCatalogProjection
Project(r) ==
    IF r.status = "summarized"
    THEN [summaryCount |-> catalog.summaryCount + 1,
          messageCount |-> catalog.messageCount + Cardinality(r.eligible)]
    ELSE catalog

\* recordAttempt commits the row, its snapshots and the catalog together.
Record(c, a) ==
    /\ work[c][a].pc = "save"
    /\ Owns(c, a)
    /\ rows' = rows \union {RowOf(c, a)}
    /\ catalog' = Project(RowOf(c, a))
    /\ work' = [work EXCEPT ![c][a] =
                   At(IF work[c][a].status = "error" THEN "fail" ELSE "store")]
    /\ UNCHANGED <<history, run, lapses, late>>

\* ownershipLost: AttemptCommitConflict, and no evidence of it.
RecordFenced(c, a) ==
    /\ work[c][a].pc = "save"
    /\ ~Owns(c, a)
    /\ work' = [work EXCEPT ![c][a] = At("gone")]
    /\ UNCHANGED <<history, run, rows, catalog, lapses, late>>

\* A transaction fails: the attempt ends in an error without a row.
RecordFails(c, a) ==
    /\ work[c][a].pc = "save"
    /\ work' = [work EXCEPT ![c][a] = At("fail")]
    /\ UNCHANGED <<history, run, rows, catalog, lapses, late>>

\* The outcome's text goes to the lifecycle: the run leaves processing.
Store(c, a) ==
    /\ work[c][a].pc = "store"
    /\ run' = IF Owns(c, a) THEN [run EXCEPT ![c].status = "closed"] ELSE run
    /\ work' = [work EXCEPT ![c][a] = At("gone")]
    /\ UNCHANGED <<history, rows, catalog, lapses, late>>

\* handleProcessingError: another attempt later, or none.
Fail(c, a) ==
    /\ work[c][a].pc = "fail"
    /\ \E status \in {"waiting", "closed"} :
         run' = IF Owns(c, a) THEN [run EXCEPT ![c].status = status] ELSE run
    /\ work' = [work EXCEPT ![c][a] = At("gone")]
    /\ UNCHANGED <<history, rows, catalog, lapses, late>>

AttemptStep(c, a) ==
    \/ Lookup(c, a) \/ ReadMessages(c, a) \/ ReadBoundary(c, a) \/ Process(c, a)
    \/ LoadFails(c, a) \/ Record(c, a) \/ RecordFenced(c, a) \/ RecordFails(c, a)
    \/ Store(c, a) \/ Fail(c, a)

LedgerNext ==
    \/ \E m \in Messages : SaveMessage(m)
    \/ \E c \in Commands : Create(c) \/ Claim(c) \/ Lapse(c) \/ Exhaust(c)
    \/ \E c \in Commands, a \in Attempts : AttemptStep(c, a)

LedgerSpec == LedgerInit /\ [][LedgerNext]_ledgerVars

-----------------------------------------------------------------------------
(***************************************************************************)
(* Properties.                                                             *)
(***************************************************************************)
\* The limits the promises are bound to.
TimesFollowIds == \A m, n \in Messages : m < n => Sent[m] <= Sent[n]
Orderly == TimesFollowIds /\ late = {}

Consumed == UNION {r.eligible : r \in BoundaryRows(rows)}
BoundaryId == IF Boundary(rows) = Null THEN 0 ELSE Boundary(rows)

(***************************************************************************)
(* A message is the subject of one catch-up only (INV-03, INV-05 and       *)
(* INV-07 of docs/architecture/mental-model.md together), although         *)
(* attempts overlap, read the history and the boundary at different times  *)
(* and lose their lease before they record.                                *)
(***************************************************************************)
ConsumedOnce ==
    Orderly => \A r, s \in BoundaryRows(rows) :
                 r # s => r.eligible \intersect s.eligible = {}

(***************************************************************************)
(* A run gets one accepted outcome, whatever its attempts do.              *)
(***************************************************************************)
OneOutcomePerRun ==
    \A r, s \in rows : (r.command = s.command /\ r.status # "error"
                        /\ s.status # "error") => r = s

\* Parts of the inductive invariant.
OneAtATime ==
    \A c, d \in Commands :
      run[c].status = "processing" /\ run[d].status = "processing" => c = d

FutureAttemptsIdle ==
    \A c \in Commands :
      /\ run[c].status = "unknown" => run[c].attempt = 0
      /\ \A a \in Attempts : a > run[c].attempt => work[c][a] = Idle

RecordedOnce ==
    \A r \in rows : work[r.command][r.attempt].pc \in {"store", "fail", "gone"}

\* What the owner of the lease has read is still so when it records.
OwnerIsCurrent ==
    \A c \in Commands, a \in Attempts :
      LET w == work[c][a]
      IN  Owns(c, a) /\ w.pc \in {"load", "save"} =>
            /\ Accepted(c) = {}
            /\ "boundary" \in w.reads => w.checkpoint = Boundary(rows)

SavesWhatItSelected ==
    \A c \in Commands, a \in Attempts :
      LET w == work[c][a]
      IN  w.pc = "save" =>
            /\ w.status \in Statuses
            /\ w.status \in {"summarized", "skipped"} =>
                 /\ "boundary" \in w.reads
                 /\ w.selected # Null
                 /\ w.selected = SelectSummaryWindow(w.all, c, w.checkpoint)

ClaimsInOrder ==
    late = {} =>
      \A c, d \in Commands :
        Claimed(d) /\ run[c].status \in {"waiting", "processing"} => d.id <= c.id

CoveredByBoundary ==
    /\ \A r \in BoundaryRows(rows) : r.eligible # {}
    /\ BoundaryRows(rows) # {} =>
         \E r \in BoundaryRows(rows) : \A s \in BoundaryRows(rows) \ {r} : Newer(r, s)
    /\ Orderly => \A m \in Consumed : m <= BoundaryId

(***************************************************************************)
(* The inductive invariant of the proofs: an outcome that is recorded was  *)
(* computed from the boundary that still holds, and everything consumed    *)
(* lies at or below the boundary.                                          *)
(***************************************************************************)
LedgerInv ==
    /\ LedgerTypeOK
    /\ OneAtATime
    /\ FutureAttemptsIdle
    /\ RecordedOnce
    /\ OneOutcomePerRun
    /\ OwnerIsCurrent
    /\ SavesWhatItSelected
    /\ ClaimsInOrder
    /\ CoveredByBoundary
    /\ ConsumedOnce

(***************************************************************************)
(* The boundary passes no message over: what lies behind it was taken by a *)
(* catch-up, is blank, or was not in the history, or already a day old,    *)
(* when a catch-up that moved the boundary past it looked.                 *)
(***************************************************************************)
NothingPassedOver ==
    Orderly =>
      \A m \in history : m <= BoundaryId =>
        \/ m \in Consumed \union Blank
        \/ \E r \in BoundaryRows(rows) :
             /\ m < Last(r.eligible)
             /\ m \notin r.all \/ Sent[m] < Since(r.command)

(***************************************************************************)
(* The WMA catalog is a projection of the ledger (INV-10): it counts every *)
(* summary and its messages once, in spite of repeated attempts.           *)
(***************************************************************************)
CatalogCounts ==
    LET summarized == {r \in rows : r.status = "summarized"}
    IN  /\ catalog.summaryCount = Cardinality(summarized)
        /\ catalog.messageCount =
             Cardinality({rm \in summarized \X Messages : rm[2] \in rm[1].eligible})

(***************************************************************************)
(* As long as no command becomes known behind a claimed later one, the     *)
(* boundary that the query finds never goes back.                          *)
(***************************************************************************)
BoundaryMonotone == [][late' = {} => BoundaryId' >= BoundaryId]_ledgerVars

(***************************************************************************)
(* Seen from the chat, the ledger implements ConsumptionContract: no       *)
(* message is taken twice, and each catch-up takes new ones only.          *)
(***************************************************************************)
Contract == INSTANCE ConsumptionContract
              WITH consumed <- Consumed, boundary <- BoundaryId, orderly <- Orderly
ConsumptionSpec == Contract!Spec
=============================================================================
