------------------------ MODULE AttemptLedger_proofs ------------------------
(* The consumption boundary, for any finite history and any commands:        *)
(* LedgerInv is inductive, the boundary is monotone while commands become    *)
(* known in order, and the ledger implements ConsumptionContract.  Last, the *)
(* evidence agrees with the catalogue, and no message is passed over.        *)
EXTENDS AttemptLedger, FiniteSetTheorems, WellFoundedInduction, TLAPS

(***************************************************************************)
(* Chronology.                                                             *)
(***************************************************************************)
(* The order of messages is total and transitive.                            *)
LEMMA BeforeOrder ==
    ASSUME NEW m \in Messages, NEW n \in Messages, NEW k \in Messages
    PROVE  /\ ~Before(m, m)
           /\ m = n \/ Before(m, n) \/ Before(n, m)
           /\ Before(m, n) => ~Before(n, m)
           /\ Before(m, n) /\ Before(n, k) => Before(m, k)
BY WindowAssumption DEF Before

(* A set of numbers that is not empty has a least one.                       *)
LEMMA LeastNumber ==
    ASSUME NEW T \in SUBSET Nat, T # {}
    PROVE  \E x \in T : \A y \in T : x <= y
<1>1. \E x \in T : \A y \in T : <<y, x>> \notin OpToRel(<, Nat)
      BY NatLessThanWellFounded, WFMin
<1>2. PICK x \in T : \A y \in T : <<y, x>> \notin OpToRel(<, Nat)
      BY <1>1
<1>3. \A y \in T : ~(y < x)
      BY <1>2 DEF OpToRel
<1> QED BY <1>3

(* A window has a last message: Last is what coverageOf means by it.         *)
LEMMA LastMessage ==
    ASSUME NEW S \in SUBSET Messages, S # {}
    PROVE  Last(S) \in S /\ \A n \in S \ {Last(S)} : Before(n, Last(S))
<1> DEFINE After(m) == {n \in S : Before(m, n)}
           T == {Cardinality(After(m)) : m \in S}
<1>1. \A m \in S : IsFiniteSet(After(m)) /\ Cardinality(After(m)) \in Nat
      BY LedgerAssumption, FS_Subset, FS_CardinalityType
<1>2. T \in SUBSET Nat /\ T # {}
      BY <1>1
<1>3. PICK x \in T : \A y \in T : x <= y
      BY <1>2, LeastNumber
<1>4. PICK l \in S : x = Cardinality(After(l))
      OBVIOUS
<1>5. \A n \in S \ {l} : Before(n, l)
      <2> SUFFICES ASSUME NEW n \in S \ {l}, Before(l, n) PROVE FALSE
          BY BeforeOrder
      <2>1. After(n) \subseteq After(l) /\ n \in After(l) /\ n \notin After(n)
            BY BeforeOrder
      <2>2. /\ Cardinality(After(n)) <= Cardinality(After(l))
            /\ Cardinality(After(l)) = Cardinality(After(n)) => After(l) = After(n)
            BY <1>1, <2>1, FS_Subset
      <2>3. x <= Cardinality(After(n))
            BY <1>3
      <2> QED BY <1>1, <1>4, <2>1, <2>2, <2>3
<1> QED BY <1>5 DEF Last

(* With times that follow the ids, the last message has the largest id.      *)
LEMMA LastIsLargest ==
    ASSUME TimesFollowIds, NEW S \in SUBSET Messages, S # {}
    PROVE  \A m \in S : m <= Last(S)
<1>1. /\ Last(S) \in S
      /\ \A n \in S \ {Last(S)} : Before(n, Last(S))
      BY LastMessage
<1> SUFFICES ASSUME NEW m \in S PROVE m <= Last(S)
    OBVIOUS
<1>2. PICK l \in Messages : l = Last(S)
      BY <1>1
<1>3. m = l \/ Before(m, l)
      BY <1>1, <1>2
<1>4. m \in Nat /\ l \in Nat /\ Sent[m] \in Nat /\ Sent[l] \in Nat
      BY <1>2, WindowAssumption
<1>5. l < m => Sent[l] <= Sent[m]
      BY <1>2 DEF TimesFollowIds
<1>6. m <= l
      BY <1>3, <1>4, <1>5 DEF Before
<1> QED BY <1>2, <1>6

-----------------------------------------------------------------------------
(***************************************************************************)
(* Selection.                                                              *)
(***************************************************************************)
(* What a selection is made of: saved messages below the command, and above  *)
(* the boundary for a catch-up.                                              *)
LEMMA SelectionFacts ==
    ASSUME NEW all \in SUBSET Messages, NEW c \in Commands,
           NEW checkpoint \in Messages \union {Null},
           NEW s, s = SelectSummaryWindow(all, c, checkpoint), s # Null
    PROVE  /\ s \in Windows
           /\ s.eligible \in SUBSET Messages
           /\ s.context \in SUBSET Messages
           /\ s.eligible # {}
           /\ c.mode = "recent" /\ checkpoint # Null =>
                \A m \in s.eligible : m > checkpoint
<1> DEFINE eligible == Eligible(all, c, checkpoint)
           candidates == Candidates(all, c, checkpoint)
<1>1. c \in Command
      BY LedgerAssumption
<1>2. /\ candidates \subseteq all
      /\ c.mode = "recent" /\ checkpoint # Null =>
           \A m \in candidates : m > checkpoint
      BY DEF Candidates, Consumption
<1>3. eligible \subseteq candidates
      BY DEF Eligible, EarliestOf, LatestOf
<1>4. Context(all, eligible) \subseteq all
      BY DEF Context
<1>5. /\ eligible # {}
      /\ s = [eligible |-> eligible, context |-> Context(all, eligible),
              consumption |-> Consumption(c), checkpointBefore |-> checkpoint,
              upperExclusive |-> c.id]
      BY DEF SelectSummaryWindow
<1>6. Consumption(c) \in {"checkpoint", "read-only"} /\ c.id \in Nat \ {0}
      BY <1>1 DEF Consumption, Command
<1>7. s \in Windows
      <2> HIDE DEF eligible, candidates
      <2>1. /\ eligible \in SUBSET Messages
            /\ Context(all, eligible) \in SUBSET Messages
            BY <1>2, <1>3, <1>4
      <2> QED BY <1>5, <1>6, <2>1 DEF Windows
<1>8. s.eligible = eligible /\ s.context = Context(all, eligible)
      BY <1>5
<1> QED BY <1>2, <1>3, <1>4, <1>5, <1>7, <1>8

-----------------------------------------------------------------------------
(***************************************************************************)
(* The boundary query.                                                     *)
(***************************************************************************)
(* Newer is a total order on the rows of different attempts.                 *)
LEMMA NewerOrder ==
    ASSUME NEW r \in Row, NEW s \in Row, NEW t \in Row
    PROVE  /\ ~(Newer(r, s) /\ Newer(s, r))
           /\ \/ r.command = s.command /\ r.attempt = s.attempt
              \/ Newer(r, s) \/ Newer(s, r)
           /\ Newer(r, s) /\ Newer(s, t) => Newer(r, t)
<1>1. /\ r.command \in Commands /\ s.command \in Commands /\ t.command \in Commands
      /\ r.attempt \in Nat /\ s.attempt \in Nat /\ t.attempt \in Nat
      BY DEF Row, Attempts
<1>2. /\ r.command.id \in Nat /\ s.command.id \in Nat /\ t.command.id \in Nat
      /\ r.command.id = s.command.id => r.command = s.command
      BY <1>1, LedgerAssumption DEF Command
<1> QED BY <1>1, <1>2 DEF Newer

(* The query returns the last message of the newest row.                     *)
LEMMA BoundaryIsLast ==
    ASSUME NEW L \in SUBSET Row, NEW r \in BoundaryRows(L),
           \A s \in BoundaryRows(L) \ {r} : Newer(r, s)
    PROVE  Boundary(L) = Last(r.eligible)
<1> DEFINE newest == CHOOSE q \in BoundaryRows(L) :
                       \A s \in BoundaryRows(L) \ {q} : Newer(q, s)
<1>1. newest \in BoundaryRows(L) /\ \A s \in BoundaryRows(L) \ {newest} : Newer(newest, s)
      OBVIOUS
<1>2. newest = r
      BY <1>1, NewerOrder DEF BoundaryRows
<1> QED BY <1>2 DEF Boundary

(***************************************************************************)
(* Steps that change one worker.                                           *)
(***************************************************************************)
(* Replacing what a worker holds keeps the type and the other workers.       *)
LEMMA WorkUpdate ==
    ASSUME work \in [Commands -> [Attempts -> Work]],
           NEW c \in Commands, NEW a \in Attempts, NEW w \in Work,
           work' = [work EXCEPT ![c][a] = w]
    PROVE  /\ work' \in [Commands -> [Attempts -> Work]]
           /\ work'[c][a] = w
           /\ \A d \in Commands, b \in Attempts :
                d # c \/ b # a => work'[d][b] = work[d][b]
<1> HIDE DEF Work, Attempts
<1> QED OBVIOUS

(* The records that stand for a worker.                                      *)
LEMMA WorkTypes ==
    /\ Idle \in Work
    /\ Idle.pc = "idle" /\ Idle.reads = {} /\ Idle.selected = Null
    /\ Idle.status = Null /\ Idle.checkpoint = Null /\ Idle.all = {}
    /\ \A pc \in Places : At(pc) \in Work /\ At(pc).pc = pc /\ At(pc).reads = {}
BY DEF Work, Idle, At, Places

-----------------------------------------------------------------------------
(***************************************************************************)
(* Consequences of the invariant.                                          *)
(***************************************************************************)
(* A boundary is the last message of a recorded window.                      *)
LEMMA BoundaryType ==
    ASSUME LedgerTypeOK, CoveredByBoundary
    PROVE  /\ Boundary(rows) \in Messages \union {Null}
           /\ BoundaryId \in Nat
           /\ BoundaryRows(rows) # {} => BoundaryId = Boundary(rows) /\ BoundaryId > 0
<1>1. CASE BoundaryRows(rows) = {}
      BY <1>1 DEF Boundary, BoundaryId
<1>2. CASE BoundaryRows(rows) # {}
      <2>1. PICK r \in BoundaryRows(rows) : \A s \in BoundaryRows(rows) \ {r} : Newer(r, s)
            BY <1>2 DEF CoveredByBoundary
      <2>2. r \in Row /\ r.eligible \in SUBSET Messages /\ r.eligible # {}
            BY DEF LedgerTypeOK, BoundaryRows, CoveredByBoundary, Row
      <2>3. Boundary(rows) = Last(r.eligible)
            BY <2>1, BoundaryIsLast DEF LedgerTypeOK
      <2>4. Boundary(rows) \in Messages
            BY <2>2, <2>3, LastMessage
      <2>5. Boundary(rows) # Null /\ Boundary(rows) \in Nat /\ Boundary(rows) > 0
            <3>1. \A m \in Messages : m # Null /\ m \in Nat /\ m > 0
                  BY WindowAssumption
            <3> QED BY <2>4, <3>1
      <2>6. BoundaryId = Boundary(rows)
            BY <2>5 DEF BoundaryId
      <2> QED BY <2>4, <2>5, <2>6
<1> QED BY <1>1, <1>2

(* The row a worker is about to record is typed.                             *)
LEMMA RowType ==
    ASSUME LedgerTypeOK, NEW c \in Commands, NEW a \in Attempts,
           work[c][a].status \in Statuses
    PROVE  /\ RowOf(c, a) \in Row
           /\ RowOf(c, a).command = c /\ RowOf(c, a).attempt = a
           /\ RowOf(c, a).status = work[c][a].status
           /\ work[c][a].selected # Null =>
                RowOf(c, a).eligible = work[c][a].selected.eligible
<1>1. work[c][a] \in Work
      BY DEF LedgerTypeOK
<1>2. /\ work[c][a].all \in SUBSET Messages
      /\ work[c][a].selected \in Windows \union {Null}
      BY <1>1 DEF Work
<1>3. work[c][a].selected # Null =>
         /\ work[c][a].selected.eligible \in SUBSET Messages
         /\ work[c][a].selected.context \in SUBSET Messages
      BY <1>2 DEF Windows
<1> DEFINE e == IF work[c][a].selected = Null THEN {} ELSE work[c][a].selected.eligible
           x == IF work[c][a].selected = Null THEN {} ELSE work[c][a].selected.context
           l == IF work[c][a].status = "error" THEN {} ELSE work[c][a].all
<1>4. e \in SUBSET Messages /\ x \in SUBSET Messages /\ l \in SUBSET Messages
      BY <1>2, <1>3
<1>5. RowOf(c, a) = [command |-> c, attempt |-> a, status |-> work[c][a].status,
                     eligible |-> e, context |-> x, all |-> l]
      BY DEF RowOf
<1>6. work[c][a].selected # Null => e = work[c][a].selected.eligible
      OBVIOUS
<1> HIDE DEF e, x, l
<1> QED BY <1>4, <1>5, <1>6 DEF Row

(* Every recorded row belongs to a claim that was made.                      *)
LEMMA RowsAreClaimed ==
    ASSUME LedgerTypeOK, FutureAttemptsIdle, RecordedOnce, NEW r \in rows
    PROVE  /\ r.command \in Commands /\ r.attempt \in Attempts
           /\ r.attempt <= run[r.command].attempt
           /\ Claimed(r.command)
<1>1. r \in Row
      BY DEF LedgerTypeOK
<1>2. r.command \in Commands /\ r.attempt \in Attempts
      BY <1>1 DEF Row
<1>3. work[r.command][r.attempt] # Idle
      BY WorkTypes DEF RecordedOnce
<1>4. run[r.command] \in Run
      BY <1>2 DEF LedgerTypeOK
<1>5. ~(r.attempt > run[r.command].attempt)
      BY <1>2, <1>3 DEF FutureAttemptsIdle
<1>6. run[r.command].attempt \in Nat /\ r.attempt \in Nat /\ r.attempt > 0
      BY <1>2, <1>4, LedgerAssumption DEF Run, Attempts
<1>7. r.attempt <= run[r.command].attempt
      BY <1>5, <1>6
<1> QED BY <1>2, <1>6, <1>7 DEF Claimed

(* A worker at work was claimed.                                             *)
LEMMA BusyIsClaimed ==
    ASSUME LedgerTypeOK, FutureAttemptsIdle, NEW c \in Commands, NEW a \in Attempts,
           work[c][a].pc # "idle"
    PROVE  a <= run[c].attempt
<1>1. run[c] \in Run
      BY DEF LedgerTypeOK
<1>2. run[c].attempt \in Nat /\ a \in Nat
      BY <1>1, LedgerAssumption DEF Run, Attempts
<1> QED BY <1>2, WorkTypes DEF FutureAttemptsIdle

-----------------------------------------------------------------------------
(***************************************************************************)
(* Preservation.                                                           *)
(***************************************************************************)
LEMMA InitInv == LedgerInit => LedgerInv
<1> SUFFICES ASSUME LedgerInit PROVE LedgerInv
    OBVIOUS
<1> USE DEF LedgerInit
<1>1. LedgerTypeOK
      <2>1. [status |-> "unknown", attempt |-> 0] \in Run
            BY LedgerAssumption DEF Run, RunStatuses
      <2>2. run \in [Commands -> Run]
            BY <2>1
      <2>3. work \in [Commands -> [Attempts -> Work]]
            <3> HIDE DEF Attempts, Idle, Work
            <3> QED BY WorkTypes
      <2> QED BY <2>2, <2>3, LedgerAssumption DEF LedgerTypeOK
<1>2. BoundaryRows(rows) = {} /\ Consumed = {}
      BY DEF BoundaryRows, Consumed
<1>3. OneAtATime /\ FutureAttemptsIdle /\ RecordedOnce /\ OneOutcomePerRun
      BY DEF OneAtATime, FutureAttemptsIdle, RecordedOnce, OneOutcomePerRun
<1>4. OwnerIsCurrent /\ SavesWhatItSelected
      BY WorkTypes DEF OwnerIsCurrent, SavesWhatItSelected
<1>5. ClaimsInOrder
      BY DEF ClaimsInOrder, Claimed
<1>6. CoveredByBoundary /\ ConsumedOnce
      BY <1>2 DEF CoveredByBoundary, ConsumedOnce
<1> QED BY <1>1, <1>3, <1>4, <1>5, <1>6 DEF LedgerInv

(* A worker goes on by itself: it has not recorded yet, or it is over.       *)
LEMMA QuietStep ==
    ASSUME LedgerInv, NEW c \in Commands, NEW a \in Attempts, NEW w \in Work,
           \/ work[c][a].pc \in {"lookup", "load", "save"}
           \/ work[c][a].pc \in {"store", "fail"} /\ w.pc = "gone",
           work' = [work EXCEPT ![c][a] = w],
           UNCHANGED <<history, run, rows, catalog, lapses, late>>,
           w.pc # "idle",
           Owns(c, a) /\ w.pc \in {"load", "save"} =>
             /\ Accepted(c) = {}
             /\ "boundary" \in w.reads => w.checkpoint = Boundary(rows),
           w.pc = "save" =>
             /\ w.status \in Statuses
             /\ w.status \in {"summarized", "skipped"} =>
                  /\ "boundary" \in w.reads
                  /\ w.selected # Null
                  /\ w.selected = SelectSummaryWindow(w.all, c, w.checkpoint)
    PROVE  LedgerInv'
<1> USE DEF LedgerInv
<1>1. /\ work' \in [Commands -> [Attempts -> Work]]
      /\ work'[c][a] = w
      /\ \A d \in Commands, b \in Attempts :
           d # c \/ b # a => work'[d][b] = work[d][b]
      BY WorkUpdate DEF LedgerTypeOK
<1>2. LedgerTypeOK'
      BY <1>1 DEF LedgerTypeOK
<1>3. OneAtATime' /\ OneOutcomePerRun' /\ ClaimsInOrder'
      BY DEF OneAtATime, OneOutcomePerRun, ClaimsInOrder, Claimed
<1>4. FutureAttemptsIdle'
      BY <1>1, BusyIsClaimed, WorkTypes DEF FutureAttemptsIdle
<1>5. RecordedOnce'
      <2> SUFFICES ASSUME NEW r \in rows
                   PROVE  work'[r.command][r.attempt].pc \in {"store", "fail", "gone"}
          BY DEF RecordedOnce
      <2>1. r.command \in Commands /\ r.attempt \in Attempts
            BY RowsAreClaimed
      <2>2. work[r.command][r.attempt].pc \in {"store", "fail", "gone"}
            BY DEF RecordedOnce
      <2> QED BY <1>1, <2>1, <2>2
<1>6. OwnerIsCurrent'
      BY <1>1 DEF OwnerIsCurrent, Owns, Accepted
<1>7. SavesWhatItSelected'
      BY <1>1 DEF SavesWhatItSelected
<1>8. CoveredByBoundary' /\ ConsumedOnce'
      BY DEF CoveredByBoundary, ConsumedOnce, Consumed, BoundaryId, Orderly
<1> QED BY <1>2, <1>3, <1>4, <1>5, <1>6, <1>7, <1>8

(* The lease of a run is given up or ended; the worker that did it is over.  *)
LEMMA RunStep ==
    ASSUME LedgerInv, NEW c \in Commands, NEW s \in {"waiting", "closed"},
           run[c].status \in {"waiting", "processing"},
           run' = [run EXCEPT ![c].status = s],
           UNCHANGED <<history, rows, catalog, late>>,
           lapses' \in 0..MaxLapses,
           \/ work' = work
           \/ \E a \in Attempts : /\ work[c][a].pc \in {"store", "fail"}
                                  /\ work' = [work EXCEPT ![c][a] = At("gone")]
    PROVE  LedgerInv'
<1> USE DEF LedgerInv
<1>1. /\ run' \in [Commands -> Run]
      /\ run'[c].status = s /\ run'[c].attempt = run[c].attempt
      /\ \A d \in Commands : d # c => run'[d] = run[d]
      <2>1. run[c] \in Run /\ s \in RunStatuses
            BY DEF LedgerTypeOK, RunStatuses
      <2>2. [run[c] EXCEPT !.status = s] \in Run
            BY <2>1 DEF Run
      <2>3. run' = [run EXCEPT ![c] = [run[c] EXCEPT !.status = s]]
            OBVIOUS
      <2> HIDE DEF Run
      <2>4. run' \in [Commands -> Run] /\ run'[c] = [run[c] EXCEPT !.status = s]
            BY <2>2, <2>3 DEF LedgerTypeOK
      <2>5. \A d \in Commands : d # c => run'[d] = run[d]
            BY DEF LedgerTypeOK
      <2>6. [run[c] EXCEPT !.status = s].status = s
            BY <2>1 DEF Run
      <2>7. [run[c] EXCEPT !.status = s].attempt = run[c].attempt
            BY <2>1 DEF Run
      <2> QED BY <2>4, <2>5, <2>6, <2>7
<1>2. /\ work' \in [Commands -> [Attempts -> Work]]
      /\ \A d \in Commands, b \in Attempts :
           \/ work'[d][b] = work[d][b]
           \/ /\ work[d][b].pc \in {"store", "fail"}
              /\ work'[d][b] = At("gone")
      <2>1. CASE work' = work
            BY <2>1 DEF LedgerTypeOK
      <2>2. ASSUME NEW a \in Attempts, work[c][a].pc \in {"store", "fail"},
                   work' = [work EXCEPT ![c][a] = At("gone")]
            PROVE  <1>2!1 /\ <1>2!2
            <3>1. At("gone") \in Work
                  BY WorkTypes DEF Places
            <3> QED BY <2>2, <3>1, WorkUpdate DEF LedgerTypeOK
      <2> QED BY <2>1, <2>2
<1>3. At("gone").pc = "gone"
      BY WorkTypes DEF Places
<1>4. LedgerTypeOK'
      BY <1>1, <1>2 DEF LedgerTypeOK
<1>5. OneAtATime'
      BY <1>1 DEF OneAtATime
<1>6. FutureAttemptsIdle'
      BY <1>1, <1>2, WorkTypes DEF FutureAttemptsIdle
<1>7. RecordedOnce'
      BY <1>2, <1>3, RowsAreClaimed DEF RecordedOnce
<1>8. OwnerIsCurrent'
      BY <1>1, <1>2, <1>3 DEF OwnerIsCurrent, Owns, Accepted
<1>9. SavesWhatItSelected'
      BY <1>2, <1>3 DEF SavesWhatItSelected
<1>10. ClaimsInOrder'
      BY <1>1 DEF ClaimsInOrder, Claimed
<1>11. OneOutcomePerRun' /\ CoveredByBoundary' /\ ConsumedOnce'
      BY DEF OneOutcomePerRun, CoveredByBoundary, ConsumedOnce, Consumed,
             BoundaryId, Orderly
<1> QED BY <1>4, <1>5, <1>6, <1>7, <1>8, <1>9, <1>10, <1>11

\* Creating a command keeps the invariant.
LEMMA CreateStep ==
    ASSUME LedgerInv, NEW c \in Commands, Create(c)
    PROVE  LedgerInv'
<1> USE DEF LedgerInv, Create
<1>1. /\ run' \in [Commands -> Run]
      /\ run'[c].status = "waiting" /\ run'[c].attempt = 0
      /\ \A d \in Commands : d # c => run'[d] = run[d]
      <2>1. run[c] \in Run /\ run[c].attempt = 0
            BY DEF LedgerTypeOK, FutureAttemptsIdle
      <2>2. /\ [run[c] EXCEPT !.status = "waiting"] \in Run
            /\ [run[c] EXCEPT !.status = "waiting"].status = "waiting"
            /\ [run[c] EXCEPT !.status = "waiting"].attempt = 0
            BY <2>1 DEF Run, RunStatuses
      <2>3. run' = [run EXCEPT ![c] = [run[c] EXCEPT !.status = "waiting"]]
            OBVIOUS
      <2> HIDE DEF Run
      <2> QED BY <2>2, <2>3 DEF LedgerTypeOK
<1>2. late' \subseteq Commands /\ (late' = {} => late = {})
      BY DEF LedgerTypeOK
<1>3. LedgerTypeOK'
      BY <1>1, <1>2 DEF LedgerTypeOK
<1>4. OneAtATime' /\ RecordedOnce' /\ OneOutcomePerRun' /\ SavesWhatItSelected'
      BY <1>1 DEF OneAtATime, RecordedOnce, OneOutcomePerRun, SavesWhatItSelected
<1>5. FutureAttemptsIdle'
      BY <1>1 DEF FutureAttemptsIdle
<1>6. OwnerIsCurrent'
      BY <1>1 DEF OwnerIsCurrent, Owns, Accepted
<1>7. ClaimsInOrder'
      <2> SUFFICES ASSUME late' = {}, NEW d \in Commands, NEW e \in Commands,
                          Claimed(d)', run'[e].status \in {"waiting", "processing"}
                   PROVE  d.id <= e.id
          BY DEF ClaimsInOrder
      <2>1. Claimed(d) /\ d # c
            BY <1>1 DEF Claimed
      <2>2. CASE e = c
            <3>1. ~(d.id > c.id)
                  BY <2>1
            <3>2. d.id \in Nat /\ c.id \in Nat
                  BY LedgerAssumption DEF Command
            <3> QED BY <2>2, <3>1, <3>2
      <2>3. CASE e # c
            BY <1>1, <1>2, <2>1, <2>3 DEF ClaimsInOrder
      <2> QED BY <2>2, <2>3
<1>8. CoveredByBoundary' /\ ConsumedOnce'
      BY <1>2 DEF CoveredByBoundary, ConsumedOnce, Consumed, BoundaryId, Orderly
<1> QED BY <1>3, <1>4, <1>5, <1>6, <1>7, <1>8

\* Claiming a command keeps the invariant.
LEMMA ClaimStep ==
    ASSUME LedgerInv, NEW c \in Commands, Claim(c)
    PROVE  LedgerInv'
<1> USE DEF LedgerInv
<1> DEFINE a == run[c].attempt + 1
           new == [status |-> "processing", attempt |-> a]
<1>0. /\ run[c].status = "waiting"
      /\ run[c].attempt < MaxAttempts
      /\ \A d \in Commands \ {c} : /\ run[d].status # "processing"
                                   /\ d.id < c.id => run[d].status # "waiting"
      /\ run' = [run EXCEPT ![c] = new]
      /\ work' = [work EXCEPT ![c][a] = At("lookup")]
      /\ UNCHANGED <<history, rows, catalog, lapses, late>>
      BY DEF Claim
<1>1. run[c].attempt \in Nat /\ a \in Attempts /\ new \in Run
      <2>1. run[c] \in Run
            BY DEF LedgerTypeOK
      <2> QED BY <1>0, <2>1, LedgerAssumption DEF Run, Attempts, RunStatuses
<1>2. new.status = "processing" /\ new.attempt = a
      OBVIOUS
<1> HIDE DEF new
<1>3. /\ run' \in [Commands -> Run]
      /\ run'[c].status = "processing" /\ run'[c].attempt = a
      /\ \A d \in Commands : d # c => run'[d] = run[d]
      <2> HIDE DEF Run, a
      <2> QED BY <1>0, <1>1, <1>2 DEF LedgerTypeOK
<1>4. At("lookup") \in Work /\ At("lookup").pc = "lookup"
      BY WorkTypes DEF Places
<1>5. /\ work' \in [Commands -> [Attempts -> Work]]
      /\ work'[c][a] = At("lookup")
      /\ \A d \in Commands, b \in Attempts :
           d # c \/ b # a => work'[d][b] = work[d][b]
      <2> HIDE DEF a
      <2> QED BY <1>0, <1>1, <1>4, WorkUpdate DEF LedgerTypeOK
<1>6. LedgerTypeOK'
      BY <1>0, <1>3, <1>5 DEF LedgerTypeOK
<1>7. OneAtATime'
      BY <1>0, <1>3 DEF OneAtATime
<1>8. FutureAttemptsIdle'
      BY <1>0, <1>1, <1>3, <1>5 DEF FutureAttemptsIdle, Attempts
<1>9. RecordedOnce'
      <2> SUFFICES ASSUME NEW r \in rows
                   PROVE  work'[r.command][r.attempt].pc \in {"store", "fail", "gone"}
          BY <1>0 DEF RecordedOnce
      <2>1. /\ r.command \in Commands /\ r.attempt \in Attempts
            /\ r.attempt <= run[r.command].attempt
            BY RowsAreClaimed
      <2>2. r.command # c \/ r.attempt # a
            BY <1>1, <2>1 DEF Attempts
      <2> QED BY <1>5, <2>1, <2>2 DEF RecordedOnce
<1>10. OwnerIsCurrent'
      <2> SUFFICES ASSUME NEW d \in Commands, NEW b \in Attempts,
                          Owns(d, b)', work'[d][b].pc \in {"load", "save"}
                   PROVE  FALSE
          BY DEF OwnerIsCurrent
      <2>1. d = c
            BY <1>0, <1>3 DEF Owns
      <2>2. b = a
            BY <1>3, <2>1 DEF Owns
      <2> QED BY <1>4, <1>5, <2>1, <2>2
<1>11. SavesWhatItSelected'
      BY <1>4, <1>5 DEF SavesWhatItSelected
<1>12. ClaimsInOrder'
      <2> SUFFICES ASSUME late = {}, NEW d \in Commands, NEW e \in Commands,
                          Claimed(d)', run'[e].status \in {"waiting", "processing"}
                   PROVE  d.id <= e.id
          BY <1>0 DEF ClaimsInOrder
      <2>1. d.id \in Nat /\ e.id \in Nat /\ c.id \in Nat
            BY LedgerAssumption DEF Command
      <2>2. run[e].status \in {"waiting", "processing"}
            BY <1>0, <1>3
      <2>3. CASE d # c
            BY <1>3, <2>2, <2>3 DEF ClaimsInOrder, Claimed
      <2>4. CASE d = c /\ e # c
            BY <1>0, <2>1, <2>2, <2>4
      <2> QED BY <2>1, <2>3, <2>4
<1>13. OneOutcomePerRun' /\ CoveredByBoundary' /\ ConsumedOnce'
      BY <1>0 DEF OneOutcomePerRun, CoveredByBoundary, ConsumedOnce, Consumed,
             BoundaryId, Orderly
<1> QED BY <1>6, <1>7, <1>8, <1>9, <1>10, <1>11, <1>12, <1>13

(* A worker that holds the lease records its row.  An outcome comes from the *)
(* boundary of this moment, so that a catch-up takes messages above it.      *)
LEMMA RecordStep ==
    ASSUME LedgerInv, NEW c \in Commands, NEW a \in Attempts, Record(c, a)
    PROVE  /\ LedgerInv'
           /\ LET r == RowOf(c, a)
              IN  r \in BoundaryRows(rows') =>
                    /\ r.eligible \in SUBSET Messages /\ r.eligible # {}
                    /\ \A m \in r.eligible : m > BoundaryId
                    /\ BoundaryRows(rows') = BoundaryRows(rows) \union {r}
                    /\ late = {} => Boundary(rows') = Last(r.eligible)
           /\ RowOf(c, a) \notin BoundaryRows(rows') =>
                BoundaryRows(rows') = BoundaryRows(rows)
<1> USE DEF LedgerInv
<1> DEFINE r == RowOf(c, a)
           pc == IF work[c][a].status = "error" THEN "fail" ELSE "store"
<1>0. /\ work[c][a].pc = "save"
      /\ Owns(c, a)
      /\ rows' = rows \union {r}
      /\ work' = [work EXCEPT ![c][a] = At(pc)]
      /\ UNCHANGED <<history, run, lapses, late>>
      BY DEF Record
<1>1. PICK w \in Work : w = work[c][a]
      BY DEF LedgerTypeOK
<1>2. /\ w.status \in Statuses
      /\ w.status \in {"summarized", "skipped"} =>
           /\ "boundary" \in w.reads
           /\ w.selected # Null
           /\ w.selected = SelectSummaryWindow(w.all, c, w.checkpoint)
      /\ Accepted(c) = {}
      /\ "boundary" \in w.reads => w.checkpoint = Boundary(rows)
      BY <1>0, <1>1 DEF SavesWhatItSelected, OwnerIsCurrent
<1>3. /\ r \in Row /\ r.command = c /\ r.attempt = a /\ r.status = w.status
      /\ w.selected # Null => r.eligible = w.selected.eligible
      BY <1>1, <1>2, RowType
<1>4. At(pc) \in Work /\ At(pc).pc = pc /\ pc \in {"store", "fail"}
      BY WorkTypes DEF Places
<1>5. /\ work' \in [Commands -> [Attempts -> Work]]
      /\ work'[c][a] = At(pc)
      /\ \A d \in Commands, b \in Attempts :
           d # c \/ b # a => work'[d][b] = work[d][b]
      BY <1>0, <1>4, WorkUpdate DEF LedgerTypeOK
<1>6. \A s \in rows : /\ s \in Row /\ s.command \in Commands /\ s.attempt \in Attempts
                      /\ Claimed(s.command)
      BY RowsAreClaimed DEF LedgerTypeOK
<1>7. catalog' \in [summaryCount: Nat, messageCount: Nat]
      <2>1. catalog' = Project(r)
            BY DEF Record
      <2>2. r.eligible \in SUBSET Messages
            BY <1>3 DEF Row
      <2>3. Cardinality(r.eligible) \in Nat
            BY <2>2, LedgerAssumption, FS_Subset, FS_CardinalityType
      <2> HIDE DEF r
      <2> QED BY <2>1, <2>3 DEF Project, LedgerTypeOK
<1> HIDE DEF r, pc
<1>8. LedgerTypeOK'
      BY <1>0, <1>3, <1>5, <1>7 DEF LedgerTypeOK
<1>9. OneAtATime' /\ ClaimsInOrder'
      BY <1>0 DEF OneAtATime, ClaimsInOrder, Claimed
<1>10. FutureAttemptsIdle'
      <2>1. a <= run[c].attempt
            BY <1>0, BusyIsClaimed
      <2>2. run[c] \in Run /\ a \in Nat
            BY DEF LedgerTypeOK, Attempts
      <2>3. ~(a > run[c].attempt)
            BY <2>1, <2>2, LedgerAssumption DEF Run
      <2> QED BY <1>0, <1>5, <2>3 DEF FutureAttemptsIdle
<1>11. RecordedOnce'
      <2> SUFFICES ASSUME NEW s \in rows'
                   PROVE  work'[s.command][s.attempt].pc \in {"store", "fail", "gone"}
          BY DEF RecordedOnce
      <2>1. CASE s.command = c /\ s.attempt = a
            BY <1>4, <1>5, <2>1
      <2>2. CASE s \in rows /\ ~(s.command = c /\ s.attempt = a)
            BY <1>5, <1>6, <2>2 DEF RecordedOnce
      <2> QED BY <1>0, <1>3, <2>1, <2>2
<1>12. OneOutcomePerRun'
      BY <1>0, <1>2, <1>3 DEF OneOutcomePerRun, Accepted
<1>13. OwnerIsCurrent'
      <2> SUFFICES ASSUME NEW d \in Commands, NEW b \in Attempts,
                          Owns(d, b)', work'[d][b].pc \in {"load", "save"}
                   PROVE  FALSE
          BY DEF OwnerIsCurrent
      <2>1. d = c /\ b = a
            BY <1>0 DEF Owns, OneAtATime
      <2> QED BY <1>4, <1>5, <2>1
<1>14. SavesWhatItSelected'
      BY <1>4, <1>5 DEF SavesWhatItSelected
<1>15. CASE r \in BoundaryRows(rows')
      <2>1. /\ r.status \in {"summarized", "skipped"} /\ c.mode = "recent"
            /\ BoundaryRows(rows') = BoundaryRows(rows) \union {r}
            BY <1>0, <1>3, <1>15 DEF BoundaryRows
      <2>2. /\ w.checkpoint = Boundary(rows)
            /\ w.selected # Null
            /\ w.selected = SelectSummaryWindow(w.all, c, w.checkpoint)
            /\ r.eligible = w.selected.eligible
            BY <1>2, <1>3, <2>1
      <2>3. w.all \in SUBSET Messages /\ w.checkpoint \in Messages \union {Null}
            BY DEF Work
      <2>4. /\ r.eligible \in SUBSET Messages /\ r.eligible # {}
            /\ w.checkpoint # Null => \A m \in r.eligible : m > w.checkpoint
            BY <2>1, <2>2, <2>3, SelectionFacts
      <2>5. \A m \in r.eligible : m > BoundaryId
            <3>1. CASE BoundaryRows(rows) = {}
                  <4>1. BoundaryId = 0
                        BY <3>1 DEF Boundary, BoundaryId
                  <4>2. \A m \in Messages : m \in Nat /\ m > 0
                        BY WindowAssumption
                  <4> QED BY <2>4, <4>1, <4>2
            <3>2. CASE BoundaryRows(rows) # {}
                  <4>1. BoundaryId = Boundary(rows) /\ BoundaryId > 0 /\ BoundaryId \in Nat
                        BY <3>2, BoundaryType
                  <4>2. Boundary(rows) # Null
                        BY <4>1, WindowAssumption
                  <4> QED BY <2>2, <2>4, <4>1, <4>2
            <3> QED BY <3>1, <3>2
      <2>6. \A s \in BoundaryRows(rows) : s \in Row /\ s.command # c
            BY <1>2, <1>6 DEF BoundaryRows, Accepted
      <2>7. late = {} => \A s \in BoundaryRows(rows) : Newer(r, s)
            <3> SUFFICES ASSUME late = {}, NEW s \in BoundaryRows(rows)
                         PROVE  Newer(r, s)
                OBVIOUS
            <3>1. s \in rows /\ s.command \in Commands /\ Claimed(s.command)
                  BY <1>6 DEF BoundaryRows
            <3>2. run[c].status = "processing"
                  BY <1>0 DEF Owns
            <3>3. s.command.id <= c.id
                  BY <3>1, <3>2 DEF ClaimsInOrder
            <3>4. s.command.id \in Nat /\ c.id \in Nat /\ s.command.id # c.id
                  BY <2>6, <3>1, LedgerAssumption DEF Command
            <3> QED BY <1>3, <3>3, <3>4 DEF Newer
      <2>8. late = {} => Boundary(rows') = Last(r.eligible)
            <3> SUFFICES ASSUME late = {} PROVE Boundary(rows') = Last(r.eligible)
                OBVIOUS
            <3>1. \A s \in BoundaryRows(rows') \ {r} : Newer(r, s)
                  BY <2>1, <2>7
            <3>2. rows' \in SUBSET Row
                  BY <1>8 DEF LedgerTypeOK
            <3> QED BY <1>15, <3>1, <3>2, BoundaryIsLast
      <2>9. \E n \in BoundaryRows(rows') :
              \A s \in BoundaryRows(rows') \ {n} : Newer(n, s)
            <3>1. CASE BoundaryRows(rows) = {}
                  BY <2>1, <3>1
            <3>2. CASE BoundaryRows(rows) # {}
                  <4>1. PICK q \in BoundaryRows(rows) :
                          \A s \in BoundaryRows(rows) \ {q} : Newer(q, s)
                        BY <3>2 DEF CoveredByBoundary
                  <4>2. q \in Row /\ q.command # c
                        BY <2>6
                  <4>3. Newer(r, q) \/ Newer(q, r)
                        BY <1>3, <4>2, NewerOrder
                  <4>4. CASE Newer(q, r)
                        <5>1. \A s \in BoundaryRows(rows') \ {q} : Newer(q, s)
                              BY <2>1, <4>1, <4>4
                        <5> QED BY <2>1, <5>1
                  <4>5. CASE Newer(r, q)
                        <5>1. \A s \in BoundaryRows(rows) : Newer(r, s)
                              BY <1>3, <2>6, <4>1, <4>2, <4>5, NewerOrder
                        <5> QED BY <2>1, <5>1
                  <4> QED BY <4>3, <4>4, <4>5
            <3> QED BY <3>1, <3>2
      <2>10. Consumed' = Consumed \union r.eligible
            BY <2>1 DEF Consumed
      <2>11. Orderly => BoundaryId' = Last(r.eligible) /\ BoundaryId' \in Messages
            <3>1. Last(r.eligible) \in Messages
                  BY <2>4, LastMessage
            <3>2. Last(r.eligible) # Null
                  BY <3>1, WindowAssumption
            <3> QED BY <2>8, <3>1, <3>2 DEF Orderly, BoundaryId
      <2>12. CoveredByBoundary'
            <3>1. \A s \in BoundaryRows(rows') : s.eligible # {}
                  BY <2>1, <2>4 DEF CoveredByBoundary
            <3>2. ASSUME Orderly, NEW m \in Consumed'
                  PROVE  m <= BoundaryId'
                  <4>1. \A n \in r.eligible : n <= BoundaryId'
                        BY <2>4, <2>11, <3>2, LastIsLargest DEF Orderly
                  <4>2. CASE m \in r.eligible
                        BY <4>1, <4>2
                  <4>3. CASE m \in Consumed
                        <5>1. m <= BoundaryId
                              BY <3>2, <4>3 DEF CoveredByBoundary
                        <5>2. PICK n \in r.eligible : n > BoundaryId /\ n <= BoundaryId'
                              BY <2>4, <2>5, <4>1
                        <5>3. m \in Nat /\ n \in Nat
                              <6>1. m \in Messages
                                    BY <1>6, <4>3 DEF Consumed, BoundaryRows, Row
                              <6> QED BY <2>4, <6>1, WindowAssumption
                        <5>4. BoundaryId \in Nat /\ BoundaryId' \in Nat
                              BY <2>11, <3>2, BoundaryType, WindowAssumption
                        <5> QED BY <5>1, <5>2, <5>3, <5>4
                  <4> QED BY <2>10, <4>2, <4>3
            <3>3. Orderly' => Orderly
                  BY <1>0 DEF Orderly
            <3> QED BY <2>9, <3>1, <3>2, <3>3 DEF CoveredByBoundary
      <2>13. ConsumedOnce'
            <3> SUFFICES ASSUME Orderly, NEW s \in BoundaryRows(rows)
                         PROVE  s.eligible \intersect r.eligible = {}
                BY <1>0, <2>1 DEF ConsumedOnce, Orderly
            <3>1. \A m \in s.eligible : m <= BoundaryId
                  BY DEF CoveredByBoundary, Consumed
            <3>2. BoundaryId \in Nat /\ r.eligible \subseteq Nat
                  BY <2>4, BoundaryType, WindowAssumption
            <3> QED BY <2>5, <3>1, <3>2
      <2>14. r \in BoundaryRows(rows')
            BY <1>15
      <2> HIDE DEF LedgerInv
      <2>15. LedgerInv'
            BY <1>8, <1>9, <1>10, <1>11, <1>12, <1>13, <1>14, <2>12, <2>13
            DEF LedgerInv
      <2> QED BY <2>1, <2>4, <2>5, <2>8, <2>14, <2>15 DEF r
<1>16. CASE r \notin BoundaryRows(rows')
      <2>1. BoundaryRows(rows') = BoundaryRows(rows)
            BY <1>0, <1>16 DEF BoundaryRows
      <2>2. CoveredByBoundary' /\ ConsumedOnce'
            BY <1>0, <2>1 DEF CoveredByBoundary, ConsumedOnce, Consumed, BoundaryId,
                              Boundary, Orderly
      <2> HIDE DEF LedgerInv
      <2>3. LedgerInv'
            BY <1>8, <1>9, <1>10, <1>11, <1>12, <1>13, <1>14, <2>2 DEF LedgerInv
      <2> QED BY <1>16, <2>1, <2>3 DEF r
<1> QED BY <1>15, <1>16

(* The steps of a worker that leave the run and the ledger alone.            *)
LEMMA WorkerStep ==
    ASSUME LedgerInv, NEW c \in Commands, NEW a \in Attempts,
           \/ Lookup(c, a) \/ ReadMessages(c, a) \/ ReadBoundary(c, a) \/ Process(c, a)
           \/ LoadFails(c, a) \/ RecordFenced(c, a) \/ RecordFails(c, a)
    PROVE  LedgerInv'
<1> USE DEF LedgerInv
<1> DEFINE u == work[c][a]
<1>1. u \in Work
      BY DEF LedgerTypeOK
<1>2. Owns(c, a) /\ u.pc \in {"load", "save"} =>
         /\ Accepted(c) = {}
         /\ "boundary" \in u.reads => u.checkpoint = Boundary(rows)
      BY DEF OwnerIsCurrent
<1>3. \A pc \in Places : At(pc) \in Work /\ At(pc).pc = pc /\ At(pc).reads = {}
      BY WorkTypes
<1>4. CASE Lookup(c, a)
      <2> DEFINE place == IF Accepted(c) = {} THEN "load" ELSE "store"
      <2>1. /\ u.pc = "lookup"
            /\ work' = [work EXCEPT ![c][a] = At(place)]
            /\ UNCHANGED <<history, run, rows, catalog, lapses, late>>
            BY <1>4 DEF Lookup
      <2>2. place \in Places /\ place \in {"load", "store"}
            BY DEF Places
      <2>3. At(place).pc = "load" => Accepted(c) = {}
            BY <1>3, <2>2
      <2>4. /\ At(place) \in Work /\ At(place).reads = {}
            /\ At(place).pc \in {"load", "store"}
            BY <1>3, <2>2
      <2> HIDE DEF place, LedgerInv
      <2> QED BY <2>1, <2>3, <2>4, QuietStep
<1>5. CASE ReadMessages(c, a)
      <2> DEFINE w == [u EXCEPT !.all = history, !.reads = u.reads \union {"messages"}]
      <2>1. /\ u.pc = "load"
            /\ work' = [work EXCEPT ![c][a] = w]
            /\ UNCHANGED <<history, run, rows, catalog, lapses, late>>
            BY <1>5 DEF ReadMessages
      <2>2. /\ w \in Work /\ w.pc = "load" /\ w.checkpoint = u.checkpoint
            /\ "boundary" \in w.reads => "boundary" \in u.reads
            <3>1. history \in SUBSET Messages
                  BY DEF LedgerTypeOK
            <3> QED BY <1>1, <2>1, <3>1 DEF Work
      <2> HIDE DEF w, LedgerInv
      <2> QED BY <1>2, <2>1, <2>2, QuietStep
<1>6. CASE ReadBoundary(c, a)
      <2> DEFINE w == [u EXCEPT !.checkpoint = Boundary(rows),
                                !.reads = u.reads \union {"boundary"}]
      <2>1. /\ u.pc = "load"
            /\ work' = [work EXCEPT ![c][a] = w]
            /\ UNCHANGED <<history, run, rows, catalog, lapses, late>>
            BY <1>6 DEF ReadBoundary
      <2>2. w \in Work /\ w.pc = "load" /\ w.checkpoint = Boundary(rows)
            <3>1. Boundary(rows) \in Messages \union {Null}
                  BY BoundaryType
            <3> QED BY <1>1, <2>1, <3>1 DEF Work
      <2> HIDE DEF w, LedgerInv
      <2> QED BY <1>2, <2>1, <2>2, QuietStep
<1>7. CASE Process(c, a)
      <2> DEFINE s == SelectSummaryWindow(u.all, c, u.checkpoint)
      <2>1. /\ u.pc = "load" /\ u.reads = {"messages", "boundary"}
            /\ UNCHANGED <<history, run, rows, catalog, lapses, late>>
            BY <1>7 DEF Process
      <2>2. PICK status \in Dispositions(s) :
              work' = [work EXCEPT ![c][a] =
                         [u EXCEPT !.pc = "save", !.selected = s, !.status = status]]
            BY <1>7 DEF Process
      <2> DEFINE w == [u EXCEPT !.pc = "save", !.selected = s, !.status = status]
      <2>3. status \in Statuses /\ (status \in {"summarized", "skipped"} => s # Null)
            BY DEF Dispositions, Reusable, LedgerTypeOK, Row, Statuses
      <2>4. s \in Windows \union {Null}
            <3>1. u.all \in SUBSET Messages /\ u.checkpoint \in Messages \union {Null}
                  BY <1>1 DEF Work
            <3> QED BY <3>1, SelectionFacts
      <2> HIDE DEF s
      <2>5. /\ w \in Work /\ w.pc = "save" /\ w.reads = u.reads
            /\ w.checkpoint = u.checkpoint /\ w.all = u.all
            /\ w.selected = s /\ w.status = status
            BY <1>1, <2>3, <2>4 DEF Work, Places
      <2> HIDE DEF w, LedgerInv
      <2>6. work' = [work EXCEPT ![c][a] = w]
            BY <2>2 DEF w
      <2>7. w.pc = "save" =>
              /\ w.status \in Statuses
              /\ w.status \in {"summarized", "skipped"} =>
                   /\ "boundary" \in w.reads
                   /\ w.selected # Null
                   /\ w.selected = SelectSummaryWindow(w.all, c, w.checkpoint)
            BY <2>1, <2>3, <2>5 DEF s
      <2> QED BY <1>2, <2>1, <2>5, <2>6, <2>7, QuietStep
<1>8. CASE LoadFails(c, a)
      <2> DEFINE w == [At("save") EXCEPT !.status = "error"]
      <2>1. /\ u.pc = "load"
            /\ work' = [work EXCEPT ![c][a] = w]
            /\ UNCHANGED <<history, run, rows, catalog, lapses, late>>
            BY <1>8 DEF LoadFails
      <2>2. /\ w \in Work /\ w.pc = "save" /\ w.reads = {} /\ w.status = "error"
            <3>1. At("save") \in Work /\ At("save").pc = "save" /\ At("save").reads = {}
                  BY <1>3 DEF Places
            <3> QED BY <3>1 DEF Work, Statuses
      <2>3. "error" \in Statuses
            BY DEF Statuses
      <2> HIDE DEF w, LedgerInv
      <2> QED BY <1>2, <2>1, <2>2, <2>3, QuietStep
<1>9. CASE RecordFenced(c, a) \/ RecordFails(c, a)
      <2>1. /\ u.pc = "save"
            /\ UNCHANGED <<history, run, rows, catalog, lapses, late>>
            BY <1>9 DEF RecordFenced, RecordFails
      <2>2. PICK pc \in {"gone", "fail"} : work' = [work EXCEPT ![c][a] = At(pc)]
            BY <1>9 DEF RecordFenced, RecordFails
      <2>3. At(pc) \in Work /\ At(pc).pc \in {"gone", "fail"}
            BY <1>3 DEF Places
      <2> HIDE DEF LedgerInv
      <2> QED BY <2>1, <2>2, <2>3, QuietStep
<1> QED BY <1>4, <1>5, <1>6, <1>7, <1>8, <1>9

(* The worker tells the lifecycle how its attempt ended, or is fenced off.   *)
LEMMA LeaveStep ==
    ASSUME LedgerInv, NEW c \in Commands, NEW a \in Attempts, Store(c, a) \/ Fail(c, a)
    PROVE  LedgerInv'
<1>1. /\ work[c][a].pc \in {"store", "fail"}
      /\ work' = [work EXCEPT ![c][a] = At("gone")]
      /\ UNCHANGED <<history, rows, catalog, lapses, late>>
      /\ \/ /\ ~Owns(c, a)
            /\ run' = run
         \/ /\ Owns(c, a)
            /\ \E s \in {"waiting", "closed"} : run' = [run EXCEPT ![c].status = s]
      BY DEF Store, Fail
<1>2. CASE ~Owns(c, a) /\ run' = run
      <2>1. At("gone") \in Work /\ At("gone").pc = "gone"
            BY WorkTypes DEF Places
      <2> QED BY <1>1, <1>2, <2>1, QuietStep
<1>3. CASE Owns(c, a) /\ \E s \in {"waiting", "closed"} : run' = [run EXCEPT ![c].status = s]
      <2>1. run[c].status \in {"waiting", "processing"}
            BY <1>3 DEF Owns
      <2>2. lapses' \in 0..MaxLapses
            BY <1>1 DEF LedgerInv, LedgerTypeOK
      <2> QED BY <1>1, <1>3, <2>1, <2>2, RunStep
<1> QED BY <1>1, <1>2, <1>3

(* A lease that lapses and claims that are used up.                          *)
LEMMA LapseStep ==
    ASSUME LedgerInv, NEW c \in Commands, Lapse(c) \/ Exhaust(c)
    PROVE  LedgerInv'
<1>1. lapses' \in 0..MaxLapses
      BY LedgerAssumption DEF LedgerInv, LedgerTypeOK, Lapse, Exhaust
<1>2. /\ run[c].status \in {"waiting", "processing"}
      /\ \E s \in {"waiting", "closed"} : run' = [run EXCEPT ![c].status = s]
      /\ UNCHANGED <<history, rows, catalog, late>>
      /\ work' = work
      BY DEF Lapse, Exhaust
<1> QED BY <1>1, <1>2, RunStep

(* A message that is saved disturbs nothing that was read before.            *)
LEMMA SaveStep ==
    ASSUME LedgerInv, NEW m \in Messages, SaveMessage(m)
    PROVE  LedgerInv'
BY DEF SaveMessage, LedgerInv, LedgerTypeOK, OneAtATime, FutureAttemptsIdle,
       RecordedOnce, OneOutcomePerRun, OwnerIsCurrent, SavesWhatItSelected,
       ClaimsInOrder, Claimed, CoveredByBoundary, ConsumedOnce, Consumed, BoundaryId,
       Orderly, Owns, Accepted

\* Every step keeps the invariant.
LEMMA StepInv == LedgerInv /\ [LedgerNext]_ledgerVars => LedgerInv'
<1> SUFFICES ASSUME LedgerInv, [LedgerNext]_ledgerVars PROVE LedgerInv'
    OBVIOUS
<1>1. CASE UNCHANGED ledgerVars
      BY <1>1 DEF ledgerVars, LedgerInv, LedgerTypeOK, OneAtATime, FutureAttemptsIdle,
         RecordedOnce, OneOutcomePerRun, OwnerIsCurrent, SavesWhatItSelected,
         ClaimsInOrder, Claimed, CoveredByBoundary, ConsumedOnce, Consumed, BoundaryId,
         Orderly, Owns, Accepted
<1>2. ASSUME NEW m \in Messages, SaveMessage(m) PROVE LedgerInv'
      BY <1>2, SaveStep
<1>3. ASSUME NEW c \in Commands, Create(c) \/ Claim(c) \/ Lapse(c) \/ Exhaust(c)
      PROVE  LedgerInv'
      BY <1>3, CreateStep, ClaimStep, LapseStep
<1>4. ASSUME NEW c \in Commands, NEW a \in Attempts, AttemptStep(c, a) PROVE LedgerInv'
      <2>1. CASE Record(c, a)
            BY <2>1, RecordStep
      <2>2. CASE Store(c, a) \/ Fail(c, a)
            BY <2>2, LeaveStep
      <2>3. CASE \/ Lookup(c, a) \/ ReadMessages(c, a) \/ ReadBoundary(c, a)
                 \/ Process(c, a) \/ LoadFails(c, a) \/ RecordFenced(c, a)
                 \/ RecordFails(c, a)
            BY <2>3, WorkerStep
      <2> QED BY <1>4, <2>1, <2>2, <2>3 DEF AttemptStep
<1> QED BY <1>1, <1>2, <1>3, <1>4 DEF LedgerNext

-----------------------------------------------------------------------------
(***************************************************************************)
(* Theorems.                                                               *)
(***************************************************************************)
(* The ledger keeps its invariant, for any history and any commands.         *)
THEOREM LedgerInvariant == LedgerSpec => []LedgerInv
<1> QED BY InitInv, StepInv, PTL DEF LedgerSpec

(* No message is the subject of two catch-ups.                               *)
THEOREM ConsumedOnceAlways == LedgerSpec => []ConsumedOnce
<1>1. LedgerInv => ConsumedOnce
      BY DEF LedgerInv
<1> QED BY <1>1, LedgerInvariant, PTL

(* No run has two accepted outcomes.                                         *)
THEOREM OneOutcomeAlways == LedgerSpec => []OneOutcomePerRun
<1>1. LedgerInv => OneOutcomePerRun
      BY DEF LedgerInv
<1> QED BY <1>1, LedgerInvariant, PTL

-----------------------------------------------------------------------------
(***************************************************************************)
(* The boundary and the contract.                                          *)
(***************************************************************************)
(* Most steps leave the rows and the order of the commands alone.            *)
LEMMA OtherSteps ==
    ASSUME [LedgerNext]_ledgerVars
    PROVE  \/ UNCHANGED <<rows, late>>
           \/ \E c \in Commands : Create(c)
           \/ \E c \in Commands, a \in Attempts : Record(c, a)
<1>1. CASE UNCHANGED ledgerVars
      BY <1>1 DEF ledgerVars
<1>2. ASSUME NEW m \in Messages, SaveMessage(m) PROVE UNCHANGED <<rows, late>>
      BY <1>2 DEF SaveMessage
<1>3. ASSUME NEW c \in Commands, Claim(c) \/ Lapse(c) \/ Exhaust(c)
      PROVE  UNCHANGED <<rows, late>>
      BY <1>3 DEF Claim, Lapse, Exhaust
<1>4. ASSUME NEW c \in Commands, NEW a \in Attempts, AttemptStep(c, a), ~Record(c, a)
      PROVE  UNCHANGED <<rows, late>>
      BY <1>4 DEF AttemptStep, Lookup, ReadMessages, ReadBoundary, Process, LoadFails,
         RecordFenced, RecordFails, Store, Fail
<1> QED BY <1>1, <1>2, <1>3, <1>4 DEF LedgerNext

(* What the contract sees depends on the rows and on late only.              *)
LEMMA SameView ==
    ASSUME BoundaryRows(rows') = BoundaryRows(rows)
    PROVE  Consumed' = Consumed /\ BoundaryId' = BoundaryId
BY DEF Consumed, BoundaryId, Boundary

\* Without a late row no step takes the boundary back.
LEMMA MonotoneStep ==
    LedgerInv /\ [LedgerNext]_ledgerVars => (late' = {} => BoundaryId' >= BoundaryId)
<1> SUFFICES ASSUME LedgerInv, [LedgerNext]_ledgerVars, late' = {}
             PROVE  BoundaryId' >= BoundaryId
    OBVIOUS
<1>1. BoundaryId \in Nat
      BY BoundaryType DEF LedgerInv
<1>2. CASE rows' = rows
      BY <1>1, <1>2, SameView
<1>3. ASSUME NEW c \in Commands, NEW a \in Attempts, Record(c, a)
      PROVE  BoundaryId' >= BoundaryId
      <2> DEFINE r == RowOf(c, a)
      <2>1. late = {}
            BY <1>3 DEF Record
      <2>2. CASE r \in BoundaryRows(rows')
            <3>1. /\ r.eligible \in SUBSET Messages /\ r.eligible # {}
                  /\ \A m \in r.eligible : m > BoundaryId
                  /\ Boundary(rows') = Last(r.eligible)
                  BY <1>3, <2>1, <2>2, RecordStep
            <3>2. Last(r.eligible) \in r.eligible
                  BY <3>1, LastMessage
            <3>3. BoundaryId' = Last(r.eligible)
                  BY <3>1, <3>2, WindowAssumption DEF BoundaryId
            <3>4. PICK m \in Messages : m = Last(r.eligible) /\ m > BoundaryId
                  BY <3>1, <3>2
            <3>5. m \in Nat
                  BY WindowAssumption
            <3> QED BY <1>1, <3>3, <3>4, <3>5
      <2>3. CASE r \notin BoundaryRows(rows')
            <3>1. BoundaryRows(rows') = BoundaryRows(rows)
                  BY <1>3, <2>3, RecordStep
            <3> QED BY <1>1, <3>1, SameView
      <2> QED BY <2>2, <2>3
<1>4. ASSUME NEW c \in Commands, Create(c) PROVE rows' = rows
      BY <1>4 DEF Create
<1> QED BY <1>2, <1>3, <1>4, OtherSteps

(* While commands become known in order, the boundary never goes back.       *)
THEOREM Monotone == LedgerSpec => BoundaryMonotone
<1> QED BY MonotoneStep, LedgerInvariant, PTL DEF LedgerSpec, BoundaryMonotone

\* The initial states of the ledger are initial states of the contract.
LEMMA ContractInit == LedgerInit => Contract!Init
<1> SUFFICES ASSUME LedgerInit PROVE Contract!Init
    OBVIOUS
<1>1. BoundaryRows(rows) = {}
      BY DEF LedgerInit, BoundaryRows
<1>2. Consumed = {} /\ BoundaryId = 0
      BY <1>1 DEF Consumed, BoundaryId, Boundary
<1>3. Orderly \in BOOLEAN
      BY DEF Orderly, TimesFollowIds
<1> QED BY <1>2, <1>3 DEF Contract!Init

\* Every step of the ledger is a step of the contract, or none.
LEMMA ContractStep ==
    LedgerInv /\ [LedgerNext]_ledgerVars => [Contract!Next]_(Contract!contractVars)
<1> SUFFICES ASSUME LedgerInv, [LedgerNext]_ledgerVars
             PROVE  [Contract!Next]_(Contract!contractVars)
    OBVIOUS
<1>1. CASE UNCHANGED <<rows, late>>
      <2>1. Orderly' = Orderly
            BY <1>1 DEF Orderly
      <2> QED BY <1>1, <2>1, SameView DEF Contract!contractVars
<1>2. ASSUME NEW c \in Commands, Create(c)
      PROVE  [Contract!Next]_(Contract!contractVars)
      <2>1. rows' = rows /\ (late' = {} => late = {})
            BY <1>2 DEF Create
      <2>2. Consumed' = Consumed /\ BoundaryId' = BoundaryId
            BY <2>1, SameView
      <2>3. Orderly' => Orderly
            BY <2>1 DEF Orderly
      <2>4. Orderly \in BOOLEAN /\ Orderly' \in BOOLEAN
            BY DEF Orderly, TimesFollowIds
      <2>5. CASE Orderly /\ ~Orderly'
            BY <2>2, <2>5 DEF Contract!Next, Contract!Disorder
      <2>6. CASE Orderly' = Orderly
            BY <2>2, <2>6 DEF Contract!contractVars
      <2> QED BY <2>3, <2>4, <2>5, <2>6
<1>3. ASSUME NEW c \in Commands, NEW a \in Attempts, Record(c, a)
      PROVE  [Contract!Next]_(Contract!contractVars)
      <2> DEFINE r == RowOf(c, a)
      <2>1. late' = late /\ Orderly' = Orderly
            BY <1>3 DEF Record, Orderly
      <2>2. CASE r \in BoundaryRows(rows')
            <3>1. /\ r.eligible \in SUBSET Messages /\ r.eligible # {}
                  /\ \A m \in r.eligible : m > BoundaryId
                  /\ BoundaryRows(rows') = BoundaryRows(rows) \union {r}
                  /\ late = {} => Boundary(rows') = Last(r.eligible)
                  BY <1>3, <2>2, RecordStep
            <3> DEFINE S == r.eligible
            <3> HIDE DEF r
            <3>2. Consumed' = Consumed \union S
                  BY <3>1 DEF Consumed
            <3>3. CASE Orderly
                  <4>1. Last(S) \in S
                        BY <3>1, LastMessage
                  <4>2. BoundaryId' = Last(S)
                        BY <3>1, <3>3, <4>1, WindowAssumption DEF BoundaryId, Orderly
                  <4>3. \A m \in S : m <= Last(S)
                        BY <3>1, <3>3, LastIsLargest DEF Orderly
                  <4>4. \A m \in S : m > BoundaryId /\ m \notin Consumed
                        <5>1. BoundaryId \in Nat /\ S \subseteq Nat
                              BY <3>1, BoundaryType, WindowAssumption DEF LedgerInv
                        <5>2. \A m \in Consumed : m <= BoundaryId
                              BY <3>3 DEF LedgerInv, CoveredByBoundary
                        <5> QED BY <3>1, <5>1, <5>2
                  <4>5. Contract!Consume(S)
                        BY <2>1, <3>1, <3>2, <3>3, <4>1, <4>2, <4>3, <4>4
                        DEF Contract!Consume
                  <4> QED BY <3>1, <4>5 DEF Contract!Next
            <3>4. CASE ~Orderly
                  BY <2>1, <3>2, <3>4 DEF Contract!Next, Contract!Unpromised
            <3> QED BY <3>3, <3>4
      <2>3. CASE r \notin BoundaryRows(rows')
            <3>1. BoundaryRows(rows') = BoundaryRows(rows)
                  BY <1>3, <2>3, RecordStep
            <3> QED BY <2>1, <3>1, SameView DEF Contract!contractVars
      <2> QED BY <2>2, <2>3
<1> QED BY <1>1, <1>2, <1>3, OtherSteps

(* The ledger implements the contract of catch-up.                           *)
THEOREM ConsumptionRefinement == LedgerSpec => ConsumptionSpec
<1> QED BY ContractInit, ContractStep, LedgerInvariant, PTL
        DEF LedgerSpec, ConsumptionSpec, Contract!Spec
-----------------------------------------------------------------------------
(***************************************************************************)
(* The catalog.                                                            *)
(***************************************************************************)
(* The catalog counts a ledger that is finite.                               *)
CatalogInv == IsFiniteSet(rows) /\ CatalogCounts

(* Only a recorded attempt changes the ledger and its catalog.               *)
LEMMA CatalogSteps ==
    ASSUME [LedgerNext]_ledgerVars
    PROVE  \/ UNCHANGED <<rows, catalog>>
           \/ \E c \in Commands, a \in Attempts : Record(c, a)
<1>1. CASE UNCHANGED ledgerVars
      BY <1>1 DEF ledgerVars
<1>2. ASSUME NEW m \in Messages, SaveMessage(m) PROVE UNCHANGED <<rows, catalog>>
      BY <1>2 DEF SaveMessage
<1>3. ASSUME NEW c \in Commands, Create(c) \/ Claim(c) \/ Lapse(c) \/ Exhaust(c)
      PROVE  UNCHANGED <<rows, catalog>>
      BY <1>3 DEF Create, Claim, Lapse, Exhaust
<1>4. ASSUME NEW c \in Commands, NEW a \in Attempts, AttemptStep(c, a), ~Record(c, a)
      PROVE  UNCHANGED <<rows, catalog>>
      BY <1>4 DEF AttemptStep, Lookup, ReadMessages, ReadBoundary, Process, LoadFails,
         RecordFenced, RecordFails, Store, Fail
<1> QED BY <1>1, <1>2, <1>3, <1>4 DEF LedgerNext

(* An attempt records a row that the ledger does not have yet.               *)
LEMMA RecordsNewRow ==
    ASSUME LedgerInv, NEW c \in Commands, NEW a \in Attempts, Record(c, a)
    PROVE  /\ RowOf(c, a) \in Row
           /\ RowOf(c, a) \notin rows
           /\ rows' = rows \union {RowOf(c, a)}
           /\ catalog' = Project(RowOf(c, a))
<1>1. /\ work[c][a].pc = "save"
      /\ rows' = rows \union {RowOf(c, a)}
      /\ catalog' = Project(RowOf(c, a))
      BY DEF Record
<1>2. work[c][a].status \in Statuses
      BY <1>1 DEF LedgerInv, SavesWhatItSelected
<1>3. /\ RowOf(c, a) \in Row
      /\ RowOf(c, a).command = c /\ RowOf(c, a).attempt = a
      BY <1>2, RowType DEF LedgerInv
<1>4. RowOf(c, a) \notin rows
      BY <1>1, <1>3 DEF LedgerInv, RecordedOnce
<1> QED BY <1>1, <1>3, <1>4

(* The pairs of summaries and their messages, and what a row adds to them.   *)
Pairs(S) == {rm \in S \X Messages : rm[2] \in rm[1].eligible}

\* The pairs a new attempt adds.
LEMMA PairsOfNewRow ==
    ASSUME NEW S \in SUBSET Row, IsFiniteSet(S), NEW r \in Row, r \notin S
    PROVE  /\ IsFiniteSet(Pairs(S))
           /\ Cardinality(Pairs(S \union {r})) =
                Cardinality(Pairs(S)) + Cardinality(r.eligible)
<1> DEFINE E == r.eligible
<1>1. E \in SUBSET Messages
      BY DEF Row
<1>2. IsFiniteSet(S \X Messages)
      BY LedgerAssumption, FS_Product
<1>3. Pairs(S) \in SUBSET (S \X Messages)
      BY DEF Pairs
<1>4. IsFiniteSet(Pairs(S)) /\ Cardinality(Pairs(S)) \in Nat
      BY <1>2, <1>3, FS_Subset, FS_CardinalityType
<1>5. IsFiniteSet(E) /\ Cardinality(E) \in Nat
      BY <1>1, LedgerAssumption, FS_Subset, FS_CardinalityType
<1>6. IsFiniteSet({r}) /\ Cardinality({r}) = 1
      BY FS_Singleton
<1>7. IsFiniteSet({r} \X E) /\ Cardinality({r} \X E) = 1 * Cardinality(E)
      BY <1>5, <1>6, FS_Product
<1>8. Pairs(S \union {r}) = Pairs(S) \union ({r} \X E)
      BY <1>1 DEF Pairs
<1>9. Pairs(S) \intersect ({r} \X E) = {}
      BY DEF Pairs
<1>10. Cardinality(Pairs(S) \union ({r} \X E)) =
         Cardinality(Pairs(S)) + Cardinality({r} \X E)
           - Cardinality(Pairs(S) \intersect ({r} \X E))
       BY <1>4, <1>7, FS_Union
<1>11. Cardinality(Pairs(S) \intersect ({r} \X E)) = 0
       BY <1>9, FS_EmptySet
<1>12. Cardinality({r} \X E) = Cardinality(E)
       BY <1>5, <1>7
<1>13. Cardinality(Pairs(S) \union ({r} \X E)) = Cardinality(Pairs(S)) + Cardinality(E)
       <2> DEFINE n == Cardinality(Pairs(S))
                  k == Cardinality(E)
                  u == Cardinality(Pairs(S) \union ({r} \X E))
       <2>1. n \in Nat /\ k \in Nat /\ u = n + k - 0
             BY <1>4, <1>5, <1>10, <1>11, <1>12
       <2> HIDE DEF n, k, u
       <2>2. u = n + k
             BY <2>1
       <2> QED BY <2>2 DEF n, k, u
<1> QED BY <1>4, <1>8, <1>13

\* Every step keeps the catalogue in line with the evidence.
LEMMA CatalogStep ==
    LedgerInv /\ CatalogInv /\ [LedgerNext]_ledgerVars => CatalogInv'
<1> DEFINE summarized(L) == {r \in L : r.status = "summarized"}
           Counts(k, L) == /\ k.summaryCount = Cardinality(summarized(L))
                           /\ k.messageCount = Cardinality(Pairs(summarized(L)))
<1>0. /\ CatalogCounts <=> Counts(catalog, rows)
      /\ CatalogCounts' <=> Counts(catalog', rows')
      BY DEF CatalogCounts, Pairs
<1> SUFFICES ASSUME LedgerInv, CatalogInv, [LedgerNext]_ledgerVars
             PROVE  CatalogInv'
    OBVIOUS
<1>1. CASE UNCHANGED <<rows, catalog>>
      BY <1>1 DEF CatalogInv, CatalogCounts
<1>2. ASSUME NEW c \in Commands, NEW a \in Attempts, Record(c, a)
      PROVE  CatalogInv'
      <2> DEFINE r == RowOf(c, a)
                 S == summarized(rows)
      <2>1. /\ r \in Row /\ r \notin rows
            /\ rows' = rows \union {r}
            /\ catalog' = Project(r)
            BY <1>2, RecordsNewRow
      <2>2. rows \in SUBSET Row /\ IsFiniteSet(rows)
            BY DEF LedgerInv, LedgerTypeOK, CatalogInv
      <2> HIDE DEF r
      <2>3. IsFiniteSet(rows')
            BY <2>1, <2>2, FS_AddElement
      <2>4. S \in SUBSET Row /\ r \notin S /\ IsFiniteSet(S) /\ Cardinality(S) \in Nat
            BY <2>1, <2>2, FS_Subset, FS_CardinalityType
      <2>5. Counts(catalog, rows)
            BY <1>0 DEF CatalogInv
      <2>6. CASE r.status = "summarized"
            <3>1. summarized(rows') = S \union {r}
                  BY <2>1, <2>6
            <3>2. Cardinality(S \union {r}) = Cardinality(S) + 1
                  BY <2>4, FS_AddElement
            <3>3. Cardinality(Pairs(S \union {r})) =
                    Cardinality(Pairs(S)) + Cardinality(r.eligible)
                  BY <2>1, <2>4, PairsOfNewRow
            <3>4. catalog' = [summaryCount |-> catalog.summaryCount + 1,
                              messageCount |-> catalog.messageCount + Cardinality(r.eligible)]
                  BY <2>1, <2>6 DEF Project
            <3> HIDE DEF S
            <3>5. Counts(catalog', rows')
                  BY <2>5, <3>1, <3>2, <3>3, <3>4 DEF S
            <3> QED BY <1>0, <2>3, <3>5 DEF CatalogInv
      <2>7. CASE r.status # "summarized"
            <3>1. summarized(rows') = S /\ catalog' = catalog
                  BY <2>1, <2>7 DEF Project
            <3> QED BY <1>0, <2>3, <2>5, <3>1 DEF CatalogInv
      <2> QED BY <2>6, <2>7
<1> QED BY <1>1, <1>2, CatalogSteps

\* The catalogue starts empty, as the evidence does.
LEMMA CatalogInit == LedgerInit => CatalogInv
<1> SUFFICES ASSUME LedgerInit PROVE CatalogInv
    OBVIOUS
<1>1. rows = {} /\ catalog.summaryCount = 0 /\ catalog.messageCount = 0
      BY DEF LedgerInit
<1>2. {r \in rows : r.status = "summarized"} = {}
      BY <1>1
<1>3. {rm \in {r \in rows : r.status = "summarized"} \X Messages :
         rm[2] \in rm[1].eligible} = {}
      BY <1>2
<1>4. IsFiniteSet({}) /\ Cardinality({}) = 0
      BY FS_EmptySet
<1> QED BY <1>1, <1>2, <1>3, <1>4 DEF CatalogInv, CatalogCounts

(* The catalog counts every summary and its messages once, however often an  *)
(* attempt of a run is repeated.                                             *)
THEOREM CatalogCountsAlways == LedgerSpec => []CatalogCounts
<1>1. LedgerSpec => []CatalogInv
      BY CatalogInit, CatalogStep, LedgerInvariant, PTL DEF LedgerSpec
<1>2. CatalogInv => CatalogCounts
      BY DEF CatalogInv
<1> QED BY <1>1, <1>2, PTL
-----------------------------------------------------------------------------
(***************************************************************************)
(* Nothing is passed over.                                                 *)
(***************************************************************************)
(* What workers and rows say they saw was in the history, and a catch-up     *)
(* takes its window from what it saw.                                        *)
Histories ==
    /\ \A c \in Commands, a \in Attempts : work[c][a].all \subseteq history
    /\ \A r \in rows : r.all \subseteq history
    /\ \A r \in BoundaryRows(rows) : r.eligible \subseteq r.all

(* A catch-up takes every message it might take that comes before one it     *)
(* takes.                                                                    *)
LEMMA EarliestIsPrefix ==
    ASSUME NEW S \in SUBSET Messages, NEW k \in Nat,
           NEW m \in S, NEW n \in EarliestOf(S, k), Before(m, n)
    PROVE  m \in EarliestOf(S, k)
<1> DEFINE Sooner(x) == {y \in S : Before(y, x)}
<1>1. n \in S /\ Cardinality(Sooner(n)) < k
      BY DEF EarliestOf
<1>2. Sooner(m) \in SUBSET Sooner(n)
      BY <1>1, BeforeOrder
<1>3. Sooner(n) \in SUBSET Messages
      OBVIOUS
<1>4. IsFiniteSet(Sooner(n)) /\ Cardinality(Sooner(n)) \in Nat
      BY <1>3, LedgerAssumption, FS_Subset, FS_CardinalityType
<1>5. Cardinality(Sooner(m)) <= Cardinality(Sooner(n)) /\ IsFiniteSet(Sooner(m))
      BY <1>2, <1>4, FS_Subset
<1>6. Cardinality(Sooner(m)) \in Nat
      BY <1>5, FS_CardinalityType
<1>7. Cardinality(Sooner(m)) < k
      BY <1>1, <1>4, <1>5, <1>6
<1> QED BY <1>7 DEF EarliestOf

(* What a catch-up leaves behind its window: with times that follow the ids, *)
(* messages that are blank or a day old.                                     *)
LEMMA WindowLeavesNothing ==
    ASSUME TimesFollowIds, NEW all \in SUBSET Messages, NEW c \in Commands,
           c.mode = "recent", NEW checkpoint \in Messages \union {Null},
           NEW s, s = SelectSummaryWindow(all, c, checkpoint), s # Null,
           NEW m \in all, m \notin Blank, Sent[m] >= Since(c),
           checkpoint # Null => m > checkpoint, m <= Last(s.eligible)
    PROVE  m \in s.eligible
<1> DEFINE S == Candidates(all, c, checkpoint)
           E == EarliestOf(S, Limit(c))
           l == Last(s.eligible)
<1>1. /\ s.eligible = Eligible(all, c, checkpoint)
      /\ s.eligible # {}
      BY DEF SelectSummaryWindow
<1>2. s.eligible = E
      BY <1>1 DEF Eligible, Consumption
<1>3. S \in SUBSET Messages /\ E \in SUBSET S
      BY DEF Candidates, EarliestOf
<1>4. l \in s.eligible
      BY <1>1, <1>2, <1>3, LastMessage
<1>5. l \in S /\ l \in Messages /\ m \in Messages
      BY <1>2, <1>3, <1>4
<1>6. l < c.id
      BY <1>5 DEF Candidates
<1>7. /\ m \in Nat /\ l \in Nat /\ Sent[m] \in Nat /\ Sent[l] \in Nat
      /\ c.id \in Nat
      BY <1>5, WindowAssumption, LedgerAssumption DEF Command
<1>8. m < c.id
      BY <1>6, <1>7
<1>9. m \in S
      BY <1>8 DEF Candidates
<1>10. CASE m = l
       BY <1>4, <1>10
<1>11. CASE m # l
       <2>1. m < l
             BY <1>7, <1>11
       <2>2. Sent[m] <= Sent[l]
             BY <1>5, <2>1 DEF TimesFollowIds
       <2>3. Before(m, l)
             BY <1>7, <2>1, <2>2 DEF Before
       <2>4. Limit(c) \in Nat
             BY WindowAssumption DEF Limit
       <2>5. l \in E
             BY <1>2, <1>4
       <2> HIDE DEF S, l
       <2>6. m \in EarliestOf(S, Limit(c))
             BY <1>3, <1>9, <2>3, <2>4, <2>5, EarliestIsPrefix
       <2> QED BY <1>2, <2>6
<1> QED BY <1>10, <1>11

(* No step makes a worker see what is not in the history.                    *)
LEMMA WorkersSee ==
    ASSUME LedgerInv, Histories, [LedgerNext]_ledgerVars
    PROVE  /\ history \subseteq history'
           /\ \A c \in Commands, a \in Attempts : work'[c][a].all \subseteq history'
<1>0. \A c \in Commands, a \in Attempts : work[c][a].all \subseteq history
      BY DEF Histories
<1>1. CASE UNCHANGED <<history, work>>
      BY <1>0, <1>1
<1>2. ASSUME NEW m \in Messages, SaveMessage(m)
      PROVE  /\ history \subseteq history'
             /\ \A c \in Commands, a \in Attempts : work'[c][a].all \subseteq history'
      BY <1>0, <1>2 DEF SaveMessage
<1>3. ASSUME NEW c \in Commands, NEW a \in Attempts, NEW w \in Work,
             w.all \subseteq history, work' = [work EXCEPT ![c][a] = w],
             history' = history
      PROVE  \A d \in Commands, b \in Attempts : work'[d][b].all \subseteq history'
      <2>1. /\ work'[c][a] = w
            /\ \A d \in Commands, b \in Attempts :
                 d # c \/ b # a => work'[d][b] = work[d][b]
            BY <1>3, WorkUpdate DEF LedgerInv, LedgerTypeOK
      <2> QED BY <1>0, <1>3, <2>1
<1>4. \A pc \in Places : At(pc) \in Work /\ At(pc).all = {} /\ {} \subseteq history
      BY WorkTypes DEF At, Idle
<1>5. ASSUME NEW c \in Commands, Claim(c)
      PROVE  /\ history \subseteq history'
             /\ \A d \in Commands, b \in Attempts : work'[d][b].all \subseteq history'
      <2>1. run[c] \in Run /\ run[c].attempt < MaxAttempts /\ history' = history
            BY <1>5 DEF Claim, LedgerInv, LedgerTypeOK
      <2>2. run[c].attempt + 1 \in Attempts
            BY <2>1, LedgerAssumption DEF Run, Attempts
      <2>3. work' = [work EXCEPT ![c][run[c].attempt + 1] = At("lookup")]
            BY <1>5 DEF Claim
      <2>4. At("lookup") \in Work /\ At("lookup").all \subseteq history
            BY <1>4 DEF Places
      <2> QED BY <1>3, <2>1, <2>2, <2>3, <2>4
<1>6. ASSUME NEW c \in Commands, NEW a \in Attempts, AttemptStep(c, a)
      PROVE  /\ history \subseteq history'
             /\ \A d \in Commands, b \in Attempts : work'[d][b].all \subseteq history'
      <2> DEFINE u == work[c][a]
      <2>0. u \in Work /\ u.all \subseteq history /\ history \in SUBSET Messages
            BY <1>0 DEF LedgerInv, LedgerTypeOK
      <2>1. CASE \/ Lookup(c, a) \/ Record(c, a) \/ RecordFenced(c, a)
                 \/ RecordFails(c, a) \/ Store(c, a) \/ Fail(c, a)
            <3>1. history' = history
                  BY <2>1 DEF Lookup, Record, RecordFenced, RecordFails, Store, Fail
            <3>2. \E pc \in Places : work' = [work EXCEPT ![c][a] = At(pc)]
                  BY <2>1 DEF Lookup, Record, RecordFenced, RecordFails, Store, Fail,
                              Places
            <3> QED BY <1>3, <1>4, <3>1, <3>2
      <2>2. CASE ReadMessages(c, a)
            <3> DEFINE w == [u EXCEPT !.all = history, !.reads = u.reads \union {"messages"}]
            <3>1. work' = [work EXCEPT ![c][a] = w] /\ history' = history
                  BY <2>2 DEF ReadMessages
            <3>2. w \in Work /\ w.all = history
                  BY <2>0 DEF Work
            <3> HIDE DEF w
            <3> QED BY <1>3, <3>1, <3>2
      <2>3. CASE ReadBoundary(c, a)
            <3> DEFINE w == [u EXCEPT !.checkpoint = Boundary(rows),
                                      !.reads = u.reads \union {"boundary"}]
            <3>1. work' = [work EXCEPT ![c][a] = w] /\ history' = history
                  BY <2>3 DEF ReadBoundary
            <3>2. w \in Work /\ w.all = u.all
                  <4>1. Boundary(rows) \in Messages \union {Null}
                        BY BoundaryType DEF LedgerInv
                  <4> QED BY <2>0, <4>1 DEF Work
            <3> HIDE DEF w
            <3> QED BY <1>3, <2>0, <3>1, <3>2
      <2>4. CASE Process(c, a)
            <3> DEFINE s == SelectSummaryWindow(u.all, c, u.checkpoint)
            <3>1. history' = history
                  BY <2>4 DEF Process
            <3>2. PICK status \in Dispositions(s) :
                    work' = [work EXCEPT ![c][a] =
                               [u EXCEPT !.pc = "save", !.selected = s, !.status = status]]
                  BY <2>4 DEF Process
            <3> DEFINE w == [u EXCEPT !.pc = "save", !.selected = s, !.status = status]
            <3>3. status \in Statuses
                  BY DEF Dispositions, Reusable, LedgerInv, LedgerTypeOK, Row, Statuses
            <3>4. s \in Windows \union {Null}
                  <4>1. u.all \in SUBSET Messages /\ u.checkpoint \in Messages \union {Null}
                        BY <2>0 DEF Work
                  <4> QED BY <4>1, SelectionFacts
            <3> HIDE DEF s
            <3>5. w \in Work /\ w.all = u.all
                  BY <2>0, <3>3, <3>4 DEF Work, Places
            <3>6. work' = [work EXCEPT ![c][a] = w]
                  BY <3>2
            <3> HIDE DEF w
            <3> QED BY <1>3, <2>0, <3>1, <3>5, <3>6
      <2>5. CASE LoadFails(c, a)
            <3> DEFINE w == [At("save") EXCEPT !.status = "error"]
            <3>1. work' = [work EXCEPT ![c][a] = w] /\ history' = history
                  BY <2>5 DEF LoadFails
            <3>2. At("save") \in Work /\ At("save").all = {}
                  BY <1>4 DEF Places
            <3>3. w \in Work /\ w.all = {}
                  BY <3>2 DEF Work, Statuses
            <3> HIDE DEF w
            <3> QED BY <1>3, <3>1, <3>3
      <2> QED BY <1>6, <2>1, <2>2, <2>3, <2>4, <2>5 DEF AttemptStep
<1>7. ASSUME NEW c \in Commands, Create(c) \/ Lapse(c) \/ Exhaust(c)
      PROVE  UNCHANGED <<history, work>>
      BY <1>7 DEF Create, Lapse, Exhaust
<1> QED BY <1>1, <1>2, <1>5, <1>6, <1>7 DEF LedgerNext, ledgerVars
(* What the catch-up that moves the boundary has seen and taken.             *)
LEMMA CatchUpRecords ==
    ASSUME LedgerInv, Histories, NEW c \in Commands, NEW a \in Attempts, Record(c, a),
           NEW r, r = RowOf(c, a), r \in BoundaryRows(rows')
    PROVE  /\ r \in Row /\ r.command = c /\ c.mode = "recent"
           /\ r.all \subseteq history
           /\ r.eligible \subseteq r.all
           /\ r.eligible # {}
           /\ BoundaryRows(rows') = BoundaryRows(rows) \union {r}
           /\ late = {} => Boundary(rows') = Last(r.eligible)
           /\ Orderly => \A m \in r.all :
                (m > BoundaryId /\ m <= Last(r.eligible)) =>
                  m \in r.eligible \union Blank \/ Sent[m] < Since(c)
<1>1. PICK w \in Work : w = work[c][a]
      BY DEF LedgerInv, LedgerTypeOK
<1>2. w.pc = "save" /\ Owns(c, a)
      BY <1>1 DEF Record
<1>3. /\ w.status \in Statuses
      /\ w.status \in {"summarized", "skipped"} =>
           /\ "boundary" \in w.reads
           /\ w.selected # Null
           /\ w.selected = SelectSummaryWindow(w.all, c, w.checkpoint)
      /\ "boundary" \in w.reads => w.checkpoint = Boundary(rows)
      BY <1>1, <1>2 DEF LedgerInv, SavesWhatItSelected, OwnerIsCurrent
<1>4. /\ r \in Row /\ r.command = c /\ r.status = w.status
      /\ w.selected # Null => r.eligible = w.selected.eligible
      BY <1>1, <1>3, RowType DEF LedgerInv
<1>5. w.status \in {"summarized", "skipped"} /\ c.mode = "recent"
      BY <1>4 DEF BoundaryRows
<1>6. r.all = w.all
      BY <1>1, <1>5 DEF RowOf
<1>7. /\ w.selected # Null
      /\ w.selected = SelectSummaryWindow(w.all, c, Boundary(rows))
      /\ r.eligible = w.selected.eligible
      BY <1>3, <1>4, <1>5
<1>8. w.all \in SUBSET Messages /\ w.all \subseteq history
      BY <1>1 DEF Work, Histories
<1>9. Boundary(rows) \in Messages \union {Null}
      BY BoundaryType DEF LedgerInv
<1>10. r.eligible \subseteq w.all
       <2>1. r.eligible = Eligible(w.all, c, Boundary(rows))
             BY <1>7 DEF SelectSummaryWindow
       <2>2. r.eligible \subseteq Candidates(w.all, c, Boundary(rows))
             BY <2>1 DEF Eligible, EarliestOf, LatestOf
       <2> QED BY <2>2 DEF Candidates
<1>11. /\ r.eligible # {}
       /\ BoundaryRows(rows') = BoundaryRows(rows) \union {r}
       /\ late = {} => Boundary(rows') = Last(r.eligible)
       BY RecordStep
<1>12. ASSUME Orderly, NEW m \in r.all, m > BoundaryId, m <= Last(r.eligible),
              m \notin Blank, ~(Sent[m] < Since(c))
       PROVE  m \in r.eligible
       <2>1. Sent[m] >= Since(c)
             <3>1. m \in Messages
                   BY <1>6, <1>8, <1>12
             <3>2. Sent[m] \in Nat
                   BY <3>1, WindowAssumption
             <3>3. Since(c) \in Int
                   BY <1>5, LedgerAssumption, WindowAssumption DEF Since, Command
             <3> QED BY <1>12, <3>2, <3>3
       <2>2. Boundary(rows) # Null => m > Boundary(rows)
             BY <1>12 DEF BoundaryId
       <2>3. m \in w.all /\ m <= Last(w.selected.eligible) /\ TimesFollowIds
             BY <1>6, <1>7, <1>12 DEF Orderly
       <2>4. m \in w.selected.eligible
             BY <1>5, <1>7, <1>8, <1>9, <1>12, <2>1, <2>2, <2>3, WindowLeavesNothing
       <2> QED BY <1>7, <2>4
<1>13. ASSUME Orderly, NEW m \in r.all, m > BoundaryId, m <= Last(r.eligible)
       PROVE  m \in r.eligible \union Blank \/ Sent[m] < Since(c)
       BY <1>12, <1>13
<1> QED BY <1>4, <1>5, <1>6, <1>8, <1>10, <1>11, <1>13

\* Every step keeps the histories.
LEMMA HistoriesStep ==
    LedgerInv /\ Histories /\ [LedgerNext]_ledgerVars => Histories'
<1> SUFFICES ASSUME LedgerInv, Histories, [LedgerNext]_ledgerVars PROVE Histories'
    OBVIOUS
<1>1. /\ history \subseteq history'
      /\ \A c \in Commands, a \in Attempts : work'[c][a].all \subseteq history'
      BY WorkersSee
<1>2. CASE rows' = rows
      BY <1>1, <1>2 DEF Histories
<1>3. ASSUME NEW c \in Commands, NEW a \in Attempts, Record(c, a) PROVE Histories'
      <2> DEFINE r == RowOf(c, a)
      <2>1. rows' = rows \union {r} /\ history' = history
            BY <1>3 DEF Record
      <2>2. r.all \subseteq history
            BY DEF RowOf, Histories
      <2>3. r \in BoundaryRows(rows') => r.eligible \subseteq r.all
            BY <1>3, CatchUpRecords
      <2> HIDE DEF r
      <2>4. \A s \in rows' : s.all \subseteq history'
            BY <2>1, <2>2 DEF Histories
      <2>5. \A s \in BoundaryRows(rows') : s \in BoundaryRows(rows) \/ s = r
            BY <2>1 DEF BoundaryRows
      <2>6. \A s \in BoundaryRows(rows') : s.eligible \subseteq s.all
            BY <2>3, <2>5 DEF Histories
      <2> QED BY <1>1, <2>4, <2>6 DEF Histories
<1>4. ASSUME NEW c \in Commands, Create(c) PROVE rows' = rows
      BY <1>4 DEF Create
<1> QED BY <1>2, <1>3, <1>4, OtherSteps

(* Why a message at or below the boundary was not taken.                     *)
Excused(m, L) ==
    \/ m \in (UNION {r.eligible : r \in BoundaryRows(L)}) \union Blank
    \/ \E r \in BoundaryRows(L) :
         /\ m < Last(r.eligible)
         /\ m \notin r.all \/ Sent[m] < Since(r.command)

\* No step passes a message over.
LEMMA PassedOverStep ==
    LedgerInv /\ Histories /\ NothingPassedOver /\ [LedgerNext]_ledgerVars
      => NothingPassedOver'
<1> SUFFICES ASSUME LedgerInv, Histories, NothingPassedOver, [LedgerNext]_ledgerVars,
                    Orderly', NEW m \in history', m <= BoundaryId'
             PROVE  Excused(m, rows')
    BY DEF NothingPassedOver, Excused, Consumed
<1>1. Orderly
      <2>1. late' = {} => late = {}
            <3>1. ASSUME NEW c \in Commands, Create(c) PROVE late' = {} => late = {}
                  BY <3>1 DEF Create
            <3>2. ASSUME NEW c \in Commands, NEW a \in Attempts, Record(c, a)
                  PROVE  late' = late
                  BY <3>2 DEF Record
            <3> QED BY <3>1, <3>2, OtherSteps
      <2> QED BY <2>1 DEF Orderly
<1>2. \A n \in history : n <= BoundaryId => Excused(n, rows)
      BY <1>1 DEF NothingPassedOver, Excused, Consumed
<1>3. m \in Messages /\ m \in Nat /\ m > 0 /\ BoundaryId \in Nat
      <2>1. LedgerInv'
            BY StepInv
      <2>2. m \in Messages
            BY <2>1 DEF LedgerInv, LedgerTypeOK
      <2> QED BY <2>2, BoundaryType, WindowAssumption DEF LedgerInv
<1>4. CASE rows' = rows /\ m \in history
      <2>1. BoundaryId' = BoundaryId
            BY <1>4, SameView
      <2> QED BY <1>2, <1>4, <2>1
<1>5. CASE rows' = rows /\ m \notin history
      <2>1. BoundaryId' = BoundaryId
            BY <1>5, SameView
      <2>2. BoundaryRows(rows) # {}
            BY <1>3, <2>1 DEF BoundaryId, Boundary
      <2>3. PICK r \in BoundaryRows(rows) : \A s \in BoundaryRows(rows) \ {r} : Newer(r, s)
            BY <2>2 DEF LedgerInv, CoveredByBoundary
      <2>4. Boundary(rows) = Last(r.eligible)
            BY <2>3, BoundaryIsLast DEF LedgerInv, LedgerTypeOK
      <2>5. r.eligible \subseteq r.all /\ r.all \subseteq history /\ r.eligible # {}
            BY DEF Histories, BoundaryRows, LedgerInv, CoveredByBoundary
      <2>6. history \subseteq Messages
            BY DEF LedgerInv, LedgerTypeOK
      <2>7. Last(r.eligible) \in history
            BY <2>5, <2>6, LastMessage
      <2>8. BoundaryId = Last(r.eligible)
            BY <2>2, <2>4, BoundaryType DEF LedgerInv
      <2>9. m < Last(r.eligible)
            BY <1>3, <1>5, <2>1, <2>7, <2>8
      <2>10. m \notin r.all
            BY <1>5, <2>5
      <2> QED BY <1>5, <2>9, <2>10 DEF Excused
<1>6. ASSUME NEW c \in Commands, NEW a \in Attempts, Record(c, a)
      PROVE  Excused(m, rows')
      <2> DEFINE r == RowOf(c, a)
      <2>1. /\ rows' = rows \union {r}
            /\ BoundaryRows(rows) \subseteq BoundaryRows(rows')
            /\ history' = history /\ late' = late
            BY <1>6 DEF Record, BoundaryRows
      <2>2. CASE m <= BoundaryId
            <3>1. Excused(m, rows)
                  BY <1>2, <2>1, <2>2
            <3> QED BY <2>1, <3>1 DEF Excused
      <2>3. CASE r \notin BoundaryRows(rows')
            <3>1. BoundaryRows(rows') = BoundaryRows(rows)
                  BY <1>6, <2>3, RecordStep
            <3>2. BoundaryId' = BoundaryId
                  BY <3>1, SameView
            <3> QED BY <2>2, <3>2
      <2>4. CASE r \in BoundaryRows(rows') /\ ~(m <= BoundaryId)
            <3>1. /\ r \in Row /\ r.command = c
                  /\ r.all \subseteq history /\ r.eligible \subseteq r.all
                  /\ r.eligible # {}
                  /\ Boundary(rows') = Last(r.eligible)
                  /\ \A n \in r.all :
                       (n > BoundaryId /\ n <= Last(r.eligible)) =>
                         n \in r.eligible \union Blank \/ Sent[n] < Since(c)
                  BY <1>1, <1>6, <2>4, CatchUpRecords DEF Orderly
            <3> HIDE DEF r
            <3>2. r.eligible \in SUBSET Messages
                  BY <3>1 DEF Row
            <3>3. Last(r.eligible) \in r.eligible /\ Last(r.eligible) \in Messages
                  BY <3>1, <3>2, LastMessage
            <3>4. BoundaryId' = Last(r.eligible)
                  BY <3>1, <3>3, WindowAssumption DEF BoundaryId
            <3>5. m <= Last(r.eligible) /\ m > BoundaryId
                  BY <1>3, <2>4, <3>4
            <3>6. CASE m = Last(r.eligible)
                  BY <2>4, <3>3, <3>6 DEF Excused
            <3>7. CASE m # Last(r.eligible) /\ m \notin r.all
                  <4>1. Last(r.eligible) \in Nat
                        BY <3>3, WindowAssumption
                  <4>2. m < Last(r.eligible)
                        BY <1>3, <3>5, <3>7, <4>1
                  <4> QED BY <2>4, <3>7, <4>2 DEF Excused
            <3>8. CASE m # Last(r.eligible) /\ m \in r.all
                  <4>1. Last(r.eligible) \in Nat
                        BY <3>3, WindowAssumption
                  <4>2. m < Last(r.eligible)
                        BY <1>3, <3>5, <3>8, <4>1
                  <4>3. m \in r.eligible \union Blank \/ Sent[m] < Since(c)
                        BY <3>1, <3>5, <3>8
                  <4> QED BY <2>4, <3>1, <4>2, <4>3 DEF Excused
            <3> QED BY <3>6, <3>7, <3>8
      <2> QED BY <2>2, <2>3, <2>4
<1>7. ASSUME NEW c \in Commands, Create(c) PROVE rows' = rows
      BY <1>7 DEF Create
<1> QED BY <1>4, <1>5, <1>6, <1>7, OtherSteps

\* There is nothing to pass over initially.
LEMMA HistoriesInit == LedgerInit => Histories /\ NothingPassedOver
<1> SUFFICES ASSUME LedgerInit PROVE Histories /\ NothingPassedOver
    OBVIOUS
<1>1. \A c \in Commands, a \in Attempts : work[c][a].all = {}
      BY WorkTypes DEF LedgerInit
<1>2. rows = {} /\ history = {} /\ BoundaryRows(rows) = {}
      BY DEF LedgerInit, BoundaryRows
<1> QED BY <1>1, <1>2 DEF Histories, NothingPassedOver

(* The boundary passes no message over: a message behind it was taken, is    *)
(* blank, or could not be seen or was a day old for the catch-up that moved  *)
(* the boundary past it.                                                     *)
THEOREM NothingPassedOverAlways == LedgerSpec => []NothingPassedOver
<1>1. LedgerSpec => [](Histories /\ NothingPassedOver)
      <2>1. LedgerInit => Histories /\ NothingPassedOver
            BY HistoriesInit
      <2>2. LedgerInv /\ (Histories /\ NothingPassedOver) /\ [LedgerNext]_ledgerVars
              => (Histories /\ NothingPassedOver)'
            BY HistoriesStep, PassedOverStep
      <2> QED BY <2>1, <2>2, LedgerInvariant, PTL DEF LedgerSpec
<1> QED BY <1>1, PTL
=============================================================================
