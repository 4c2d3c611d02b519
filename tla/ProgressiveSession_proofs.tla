------------------------ MODULE ProgressiveSession_proofs ------------------------
(* The preview's session keeps its invariant, for a text of any length and  *)
(* whatever its transport does.                                              *)
EXTENDS ProgressiveSession, TLAPS

\* A session that did not begin is as the invariant says.
LEMMA SessionInit == Init => SessionInv
<1> SUFFICES ASSUME Init PROVE SessionInv
    OBVIOUS
<1> USE MaxTextAssumption DEF Init
<1>1. /\ text \in 0 .. MaxText /\ desired \in 0 .. MaxText
      /\ published \in 0 .. MaxText /\ updating \in 0 .. MaxText
      OBVIOUS
<1>2. timer \in BOOLEAN /\ terminal \in BOOLEAN /\ flushed \in BOOLEAN
      OBVIOUS
<1>3. /\ state \in States
      /\ awaiting \in {"no", "finalize", "commit", "fail"}
      /\ call \in {"none", "begin", "commit", "fail"}
      /\ ended \in {"no", "commit", "fail"}
      BY DEF States
<1>4. SessionTypeOK
      BY <1>1, <1>2, <1>3 DEF SessionTypeOK
<1>5. ~timer /\ ~terminal /\ ~flushed
      OBVIOUS
<1> QED BY <1>4, <1>5
        DEF SessionInv, TransportSerialized, CommitIsWhole, PreviewFollows

(***************************************************************************)
(* flush(snapshot) disarms the timer; afterwards the snapshot is published *)
(* or the drain will come to it.                                           *)
(***************************************************************************)
LEMMA FlushCases ==
    ASSUME NEW s, Flush(s),
           ~terminal /\ desired # published => updating # 0
    PROVE  /\ timer' \in BOOLEAN /\ ~timer' /\ desired' = s
           /\ published' = published
           /\ \/ updating' = updating /\ (updating # 0 \/ s = published \/ terminal)
              \/ updating = 0 /\ updating' = s /\ s # published
<1>1. timer' \in BOOLEAN /\ ~timer'
      BY DEF Flush
<1>2. CASE s = desired
      BY <1>1, <1>2 DEF Flush, preview
<1>3. CASE s # desired
      BY <1>1, <1>3 DEF Flush, Set
<1> QED BY <1>2, <1>3

\* Every method, the timer and every answer keep the session's invariant.
LEMMA SessionStep == SessionInv /\ [Next]_vars => SessionInv'
<1> SUFFICES ASSUME SessionInv, [Next]_vars PROVE SessionInv'
    OBVIOUS
<1> USE MaxTextAssumption
    DEF SessionInv, SessionTypeOK, TransportSerialized, CommitIsWhole,
        PreviewFollows, States, CallerIdle, preview, progress
<1>1. CASE Begin
      BY <1>1 DEF Begin
<1>2. ASSUME NEW n \in 1 .. MaxText, Append(n) PROVE SessionInv'
      <2>1. CASE Flush(n)
            <3>1. /\ state' = "streaming" /\ text' = n
                  /\ UNCHANGED <<state, terminal, awaiting, call, flushed, ended>>
                  BY <1>2 DEF Append
            <3>2. /\ timer' \in BOOLEAN /\ ~timer' /\ desired' = n
                  /\ published' = published
                  /\ \/ updating' = updating /\ (updating # 0 \/ n = published \/ terminal)
                     \/ updating = 0 /\ updating' = n /\ n # published
                  BY <2>1, FlushCases
            <3> QED BY <3>1, <3>2, <1>2 DEF Append
      <2>2. CASE timer' = TRUE /\ UNCHANGED preview
            BY <1>2, <2>2 DEF Append
      <2> QED BY <1>2, <2>1, <2>2 DEF Append
<1>3. CASE TimerFires
      <2>1. UNCHANGED <<state, text, terminal, awaiting, call, flushed, ended>>
            BY <1>3 DEF TimerFires
      <2>2. /\ timer' \in BOOLEAN /\ ~timer' /\ desired' = text
            /\ published' = published
            /\ \/ updating' = updating /\ (updating # 0 \/ text = published \/ terminal)
               \/ updating = 0 /\ updating' = text /\ text # published
            BY <1>3, FlushCases DEF TimerFires
      <2> QED BY <2>1, <2>2, <1>3 DEF TimerFires
<1>4. CASE Finalize
      <2>1. /\ state = "streaming" /\ state' = "finalizing"
            /\ awaiting = "no" /\ call = "none"
            /\ UNCHANGED <<text, terminal, call, ended>>
            BY <1>4 DEF Finalize
      <2>2. /\ timer' \in BOOLEAN /\ ~timer' /\ desired' = text
            /\ published' = published
            /\ \/ updating' = updating /\ (updating # 0 \/ text = published \/ terminal)
               \/ updating = 0 /\ updating' = text /\ text # published
            BY <1>4, FlushCases DEF Finalize
      <2>3. \/ updating' # 0 /\ awaiting' = "finalize" /\ flushed' = flushed
            \/ updating' = 0 /\ awaiting' = "no" /\ flushed'
            BY <1>4 DEF Finalize
      <2>4. flushed' \in BOOLEAN
            BY <1>4 DEF Finalize
      <2> QED BY <2>1, <2>2, <2>3, <2>4
<1>5. CASE Commit
      BY <1>5 DEF Commit
<1>6. CASE Fail
      BY <1>6 DEF Fail
<1>7. CASE UpdateAccepted
      <2>1. CASE ~terminal /\ desired # updating
            BY <1>7, <2>1 DEF UpdateAccepted
      <2>2. CASE terminal \/ desired = updating
            <3>1. /\ updating # 0 /\ updating' = 0 /\ published' = updating
                  /\ awaiting' = "no" /\ UNCHANGED <<state, text, timer, desired>>
                  BY <1>7, <2>2 DEF UpdateAccepted
            <3>2. /\ flushed' \in BOOLEAN /\ terminal' \in BOOLEAN
                  /\ flushed' <=> flushed \/ awaiting = "finalize"
                  /\ terminal' <=> terminal \/ awaiting = "commit"
                  BY <1>7, <2>2 DEF UpdateAccepted
            <3>3. \/ /\ awaiting \in {"commit", "fail"}
                     /\ call' = awaiting /\ ended' = awaiting
                  \/ /\ awaiting \in {"no", "finalize"}
                     /\ call' = call /\ ended' = ended
                  BY <1>7, <2>2 DEF UpdateAccepted
            <3> QED BY <2>2, <3>1, <3>2, <3>3
      <2> QED BY <2>1, <2>2
<1>8. CASE UpdateRejected
      BY <1>8 DEF UpdateRejected
<1>9. CASE CallAccepted
      BY <1>9 DEF CallAccepted
<1>10. CASE CallRejected
      BY <1>10 DEF CallRejected
<1>11. CASE UNCHANGED vars
      BY <1>11 DEF vars
<1> QED BY <1>1, <1>2, <1>3, <1>4, <1>5, <1>6, <1>7, <1>8, <1>9, <1>10, <1>11 DEF Next

(***************************************************************************)
(* ProgressiveSession keeps its invariant whatever drives it: snapshots of *)
(* a growing text are published in order and one at a time, none is lost,  *)
(* and one terminal call ends them.                                        *)
(***************************************************************************)
THEOREM SessionSafe == SessionSpec => []SessionInv
<1>1. SessionInv /\ [Next]_vars => SessionInv'
      BY SessionStep
<1> QED BY <1>1, SessionInit, PTL DEF SessionSpec
=================================================================================
