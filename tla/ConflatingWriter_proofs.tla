----------------------- MODULE ConflatingWriter_proofs -----------------------
(* The safety of the group preview, for any number of texts and lost answers:*)
(* WriterInv is inductive, and its conjuncts and NeverOlder follow.          *)
EXTENDS ConflatingWriter, SequenceTheorems, TLAPS

(* What schedule() leaves of a writer: an untouched one, one whose text is   *)
(* dropped because it was written, one that waits for its timer, or one      *)
(* whose text went out.                                                      *)
LEMMA ScheduleCases ==
    ASSUME NEW w \in Writers, NEW s \in Schedule(w)
    PROVE  \/ Blocked(w) /\ s = w
           \/ /\ ~Blocked(w)
              /\ \/ /\ w.pending = w.lastWritten
                    /\ s = [w EXCEPT !.pending = 0, !.timer = FALSE]
                 \/ /\ w.lastWritten # 0
                    /\ s = [w EXCEPT !.timer = TRUE]
                 \/ /\ w.pending # w.lastWritten
                    /\ s = [w EXCEPT !.pending = 0, !.timer = FALSE,
                                     !.inFlight = w.pending]
<1>1. CASE Blocked(w)
      BY <1>1 DEF Schedule
<1>2. CASE ~Blocked(w) /\ w.pending = w.lastWritten
      BY <1>2 DEF Schedule, Writers
<1>3. CASE ~Blocked(w) /\ w.pending # w.lastWritten
      <2>1. /\ ~Blocked([w EXCEPT !.timer = FALSE])
            BY <1>3 DEF Blocked, Writers
      <2>2. StartWrite([w EXCEPT !.timer = FALSE])
               = [w EXCEPT !.pending = 0, !.timer = FALSE,
                           !.inFlight = w.pending]
            BY <1>3, <2>1 DEF StartWrite, Writers
      <2> QED BY <1>3, <2>2 DEF Schedule
<1> QED BY <1>1, <1>2, <1>3

(* Assigning a field of a writer leaves a writer.                            *)
LEMMA FieldsKeepType ==
    ASSUME NEW w \in Writers
    PROVE  /\ [w EXCEPT !.pending = 0] \in Writers
           /\ \A n \in 0 .. MaxText : [w EXCEPT !.pending = n] \in Writers
           /\ \A n \in 0 .. MaxText : [w EXCEPT !.inFlight = n] \in Writers
           /\ [w EXCEPT !.inFlight = 0] \in Writers
           /\ [w EXCEPT !.timer = FALSE] \in Writers
           /\ [w EXCEPT !.timer = TRUE] \in Writers
           /\ [w EXCEPT !.finalizing = TRUE] \in Writers
           /\ [w EXCEPT !.finalizing = FALSE] \in Writers
           /\ [w EXCEPT !.closed = TRUE] \in Writers
           /\ \A l \in 0 .. FailText : [w EXCEPT !.lastWritten = l] \in Writers
<1> USE BoundsAssumption DEF Writers
<1>1. [w EXCEPT !.pending = 0] \in Writers
      OBVIOUS
<1>2. \A n \in 0 .. MaxText : [w EXCEPT !.pending = n] \in Writers
      OBVIOUS
<1>3. \A n \in 0 .. MaxText : [w EXCEPT !.inFlight = n] \in Writers
      OBVIOUS
<1>4. [w EXCEPT !.inFlight = 0] \in Writers
      OBVIOUS
<1>5. [w EXCEPT !.timer = FALSE] \in Writers /\ [w EXCEPT !.timer = TRUE] \in Writers
      OBVIOUS
<1>6. [w EXCEPT !.finalizing = TRUE] \in Writers
      OBVIOUS
<1>7. [w EXCEPT !.finalizing = FALSE] \in Writers
      OBVIOUS
<1>8. [w EXCEPT !.closed = TRUE] \in Writers
      OBVIOUS
<1>9. \A l \in 0 .. FailText : [w EXCEPT !.lastWritten = l] \in Writers
      OBVIOUS
<1> QED BY <1>1, <1>2, <1>3, <1>4, <1>5, <1>6, <1>7, <1>8, <1>9

(* The writer's invariant holds initially.                                   *)
LEMMA InitWriter == Init => WriterInv
<1> SUFFICES ASSUME Init PROVE WriterInv
    OBVIOUS
<1> USE BoundsAssumption DEF Init
<1>1. WriterTypeOK
      BY DEF WriterTypeOK, Writers, FailText, Texts, Issuers, Closed
<1>2. Requests
      BY DEF Requests, Issuers, Closed
<1>3. Phases /\ Ages /\ PendingIsPromised /\ FinalStands
      BY DEF Phases, Ages, PendingIsPromised, FinalStands
<1> QED BY <1>1, <1>2, <1>3 DEF WriterInv

(* update() keeps the invariant: the text given is the newest, and it is in  *)
(* flight, promised by the timer, or waits for the write in flight.          *)
LEMMA UpdateStep ==
    ASSUME WriterInv, NEW v \in 1 .. MaxText, Update(v)
    PROVE  WriterInv'
<1> DEFINE w == [writer EXCEPT !.pending = v]
<1>0. /\ WriterTypeOK /\ Requests /\ Phases /\ Ages
      /\ PendingIsPromised /\ FinalStands
      BY DEF WriterInv
<1>1. w \in Writers /\ writer' \in Schedule(w)
      BY <1>0, BoundsAssumption DEF Update, WriterTypeOK, Writers
<1>2. v # writer.lastWritten /\ v # 0 /\ ending = "no" /\ ending' = "no"
      BY <1>0, BoundsAssumption
      DEF Update, WriterTypeOK, Writers, Ages, FailText, caller
<1> HIDE DEF w
<1>3. \/ Blocked(w) /\ writer' = w
      \/ ~Blocked(w) /\ writer.lastWritten # 0
           /\ writer' = [w EXCEPT !.timer = TRUE]
      \/ ~Blocked(w) /\ writer' = [w EXCEPT !.pending = 0, !.timer = FALSE,
                                     !.inFlight = w.pending]
      BY <1>1, <1>2, ScheduleCases DEF w, Writers
<1>4. w = [writer EXCEPT !.pending = v]
      BY DEF w
<1>5. /\ text' = v /\ v > text /\ final' = final /\ messageId' = messageId
      /\ chat' = chat /\ lost' = lost
      /\ ~writer.closed /\ ~writer.finalizing
      BY DEF Update, transport, caller
<1>6. CASE Blocked(w) /\ writer' = w
      <2>1. request' = request
            BY <1>6, <1>4, <1>0 DEF Update, CallIfStarted, WriterTypeOK, Writers
      <2>2. writer.inFlight # 0
            BY <1>6, <1>4, <1>5, <1>2, <1>0 DEF Blocked, WriterTypeOK, Writers
      <2>3. /\ writer'.pending = v
            /\ writer'.inFlight = writer.inFlight
            /\ writer'.lastWritten = writer.lastWritten
            /\ writer'.timer = writer.timer
            /\ ~writer'.closed /\ ~writer'.finalizing
            BY <1>6, <1>4, <1>5, <1>0 DEF WriterTypeOK, Writers
      <2>4. WriterTypeOK'
            BY <1>0, <1>1, <1>2, <1>5, <1>6, <2>1, BoundsAssumption
            DEF WriterTypeOK
      <2>5. Requests'
            BY <1>0, <1>5, <2>1, <2>3 DEF Requests, Value
      <2>6. Phases'
            BY <1>0, <1>2, <1>5, <2>1, <2>3 DEF Phases
      <2>7. Ages'
            BY <1>0, <1>2, <1>5, <2>1, <2>3, BoundsAssumption
            DEF Ages, WriterTypeOK, Writers, FailText, Texts
      <2>8. PendingIsPromised' /\ FinalStands'
            BY <2>2, <2>3 DEF PendingIsPromised, FinalStands
      <2> QED BY <2>4, <2>5, <2>6, <2>7, <2>8 DEF WriterInv
<1>7. CASE /\ ~Blocked(w) /\ writer.lastWritten # 0
           /\ writer' = [w EXCEPT !.timer = TRUE]
      <2>1. writer.inFlight = 0
            BY <1>7, <1>4, <1>0 DEF Blocked, WriterTypeOK, Writers
      <2>2. /\ writer'.pending = v
            /\ writer'.inFlight = 0
            /\ writer'.lastWritten = writer.lastWritten
            /\ writer'.timer
            /\ ~writer'.closed /\ ~writer'.finalizing
            BY <1>7, <1>4, <1>5, <1>0, <2>1 DEF WriterTypeOK, Writers
      <2>3. request' = request
            BY <2>2, <2>1 DEF Update, CallIfStarted
      <2>4. WriterTypeOK'
            <3>1. writer' \in Writers
                  BY <1>7, <1>1 DEF Writers
            <3> QED BY <1>0, <1>2, <1>5, <2>3, <3>1, BoundsAssumption
                    DEF WriterTypeOK
      <2>5. Requests'
            BY <1>0, <1>5, <2>1, <2>2, <2>3 DEF Requests, Value
      <2>6. Phases'
            BY <1>0, <1>2, <1>5, <2>1, <2>2 DEF Phases
      <2>7. Ages'
            BY <1>0, <1>2, <1>5, <2>1, <2>2, BoundsAssumption
            DEF Ages, WriterTypeOK, Writers, FailText, Texts
      <2>8. PendingIsPromised' /\ FinalStands'
            BY <2>2 DEF PendingIsPromised, FinalStands
      <2> QED BY <2>4, <2>5, <2>6, <2>7, <2>8 DEF WriterInv
<1>8. CASE /\ ~Blocked(w)
           /\ writer' = [w EXCEPT !.pending = 0, !.timer = FALSE,
                                  !.inFlight = w.pending]
      <2>1. writer.inFlight = 0
            BY <1>8, <1>4, <1>0 DEF Blocked, WriterTypeOK, Writers
      <2>2. /\ writer'.pending = 0
            /\ writer'.inFlight = v
            /\ writer'.lastWritten = writer.lastWritten
            /\ writer'.timer = FALSE
            /\ writer'.closed = FALSE /\ writer'.finalizing = FALSE
            BY <1>8, <1>4, <1>5, <1>0 DEF WriterTypeOK, Writers
      <2>3. request' = [request EXCEPT !["preview"] =
                            [at |-> "sent", to |-> messageId]]
            BY <2>2, <2>1, <1>2 DEF Update, CallIfStarted, Call
      <2>4. WriterTypeOK'
            <3>1. v \in 0 .. MaxText /\ w.pending = v
                  BY <1>4, <1>0, BoundsAssumption DEF WriterTypeOK, Writers
            <3>2. [w EXCEPT !.pending = 0, !.timer = FALSE, !.inFlight = v]
                     \in Writers
                  <4> DEFINE w1 == [w EXCEPT !.pending = 0]
                             w2 == [w1 EXCEPT !.timer = FALSE]
                  <4>1. w1 \in Writers
                        BY <1>1, FieldsKeepType
                  <4> HIDE DEF w1
                  <4>2. w2 \in Writers
                        BY <4>1, FieldsKeepType
                  <4> HIDE DEF w2
                  <4>3. [w2 EXCEPT !.inFlight = v] \in Writers
                        BY <4>2, <3>1, FieldsKeepType
                  <4> QED BY <4>3 DEF w1, w2
            <3>3. writer' \in Writers
                  BY <1>8, <3>1, <3>2
            <3>4. request' \in [Issuers -> [at : {"none", "sent", "applied"},
                                            to : 0 .. Len(chat)]]
                  BY <2>3, <1>0 DEF WriterTypeOK
            <3> QED BY <1>0, <1>2, <1>5, <3>3, <3>4, BoundsAssumption
                    DEF WriterTypeOK
      <2>5. Requests'
            BY <1>0, <1>2, <1>5, <2>1, <2>2, <2>3
            DEF Requests, Value, Issuers, WriterTypeOK
      <2>6. Phases'
            BY <1>0, <1>2, <1>5, <2>1, <2>2 DEF Phases
      <2>7. Ages'
            BY <1>0, <1>2, <1>5, <2>1, <2>2, BoundsAssumption
            DEF Ages, WriterTypeOK, Writers, FailText, Texts
      <2>8. PendingIsPromised' /\ FinalStands'
            BY <2>2 DEF PendingIsPromised, FinalStands
      <2> QED BY <2>4, <2>5, <2>6, <2>7, <2>8 DEF WriterInv
<1> QED BY <1>3, <1>6, <1>7, <1>8

(* finalize() keeps the invariant: what was pending is dropped, and the text *)
(* it is to write is newer than any other.                                   *)
LEMMA FinalizeStep ==
    ASSUME WriterInv, NEW v \in Texts, Finalize(v), v >= text,
           ending' \in {"commit", "fail"},
           ending = "no" \/ v = FailText
    PROVE  WriterInv'
<1>0. /\ WriterTypeOK /\ Requests /\ Phases /\ Ages
      /\ PendingIsPromised /\ FinalStands
      BY DEF WriterInv
<1>1. /\ writer'.pending = 0 /\ writer'.timer = FALSE
      /\ writer'.finalizing = TRUE /\ writer'.closed = FALSE
      /\ writer'.inFlight = writer.inFlight
      /\ writer'.lastWritten = writer.lastWritten
      BY <1>0, BoundsAssumption DEF Finalize, WriterTypeOK, Writers
<1>9. writer' \in Writers
      <2> DEFINE w1 == [writer EXCEPT !.finalizing = TRUE]
                 w2 == [w1 EXCEPT !.timer = FALSE]
      <2>1. w1 \in Writers
            BY <1>0, FieldsKeepType DEF WriterTypeOK
      <2> HIDE DEF w1
      <2>2. w2 \in Writers
            BY <2>1, FieldsKeepType
      <2> HIDE DEF w2
      <2>3. [w2 EXCEPT !.pending = 0] \in Writers
            BY <2>2, FieldsKeepType
      <2> QED BY <2>3 DEF Finalize, w1, w2
<1>2. /\ final' = [pc |-> "await", text |-> v] /\ request' = request
      /\ messageId' = messageId /\ chat' = chat /\ lost' = lost
      /\ text' = text /\ ~writer.closed /\ ~writer.finalizing
      BY DEF Finalize, transport
<1>3. final.pc = "idle" /\ final'.pc = "await" /\ final'.text = v
      BY <1>0, <1>2 DEF Phases
<1>4. WriterTypeOK'
      BY <1>0, <1>9, <1>2, BoundsAssumption DEF WriterTypeOK, Texts, FailText
<1>5. Requests'
      BY <1>0, <1>1, <1>2, <1>3 DEF Requests, Value, Issuers
<1>6. Phases'
      BY <1>0, <1>1, <1>2, <1>3 DEF Phases
<1>7. Ages'
      BY <1>0, <1>1, <1>2, <1>3, BoundsAssumption
      DEF Ages, WriterTypeOK, Writers, FailText, Texts
<1>8. PendingIsPromised' /\ FinalStands'
      BY <1>1 DEF PendingIsPromised, FinalStands
<1> QED BY <1>4, <1>5, <1>6, <1>7, <1>8 DEF WriterInv

(* The timer finds nothing in flight, or its text was dropped.               *)
LEMMA TimerStep ==
    ASSUME WriterInv, TimerFires
    PROVE  WriterInv'
<1>0. /\ WriterTypeOK /\ Requests /\ Phases /\ Ages
      /\ PendingIsPromised /\ FinalStands
      BY DEF WriterInv
<1> DEFINE w == [writer EXCEPT !.timer = FALSE]
<1>1. /\ writer' = StartWrite(w) /\ writer.timer
      /\ final' = final /\ messageId' = messageId /\ chat' = chat
      /\ lost' = lost /\ text' = text /\ ending' = ending
      BY DEF TimerFires, transport, caller
<1>2. ending = "no" /\ ~writer.closed /\ ~writer.finalizing
      BY <1>0, <1>1 DEF Phases
<1>3. CASE writer.inFlight # 0 \/ writer.pending = 0
      <2>1. writer' = w
            BY <1>1, <1>3, <1>0 DEF StartWrite, Blocked, WriterTypeOK, Writers
      <2>2. /\ writer'.pending = writer.pending /\ writer'.timer = FALSE
            /\ writer'.inFlight = writer.inFlight
            /\ writer'.lastWritten = writer.lastWritten
            /\ writer'.closed = FALSE /\ writer'.finalizing = FALSE
            /\ writer' \in Writers
            BY <2>1, <1>0, <1>2 DEF WriterTypeOK, Writers
      <2>3. request' = request
            BY <2>2 DEF TimerFires, CallIfStarted
      <2>4. WriterTypeOK'
            BY <1>0, <1>1, <2>2, <2>3 DEF WriterTypeOK
      <2>5. Requests'
            BY <1>0, <1>1, <2>2, <2>3 DEF Requests, Value
      <2>6. Phases' /\ Ages'
            BY <1>0, <1>1, <1>2, <2>2 DEF Phases, Ages
      <2>7. PendingIsPromised' /\ FinalStands'
            BY <1>3, <2>2 DEF PendingIsPromised, FinalStands
      <2> QED BY <2>4, <2>5, <2>6, <2>7 DEF WriterInv
<1>4. CASE writer.inFlight = 0 /\ writer.pending # 0
      <2>1. /\ writer'.pending = 0 /\ writer'.timer = FALSE
            /\ writer'.inFlight = IF writer.pending = writer.lastWritten
                                  THEN 0 ELSE writer.pending
            /\ writer'.lastWritten = writer.lastWritten
            /\ writer'.closed = FALSE /\ writer'.finalizing = FALSE
            /\ writer' \in Writers
            BY <1>1, <1>4, <1>0, <1>2, BoundsAssumption
            DEF StartWrite, Blocked, WriterTypeOK, Writers
      <2>2. request' = IF writer.pending = writer.lastWritten THEN request
                       ELSE [request EXCEPT !["preview"] =
                                 [at |-> "sent", to |-> messageId]]
            BY <2>1, <1>4 DEF TimerFires, CallIfStarted, Call
      <2>3. WriterTypeOK'
            <3>1. request' \in [Issuers -> [at : {"none", "sent", "applied"},
                                            to : 0 .. Len(chat)]]
                  BY <2>2, <1>0 DEF WriterTypeOK
            <3> QED BY <1>0, <1>1, <2>1, <3>1 DEF WriterTypeOK
      <2>4. Requests'
            BY <1>0, <1>1, <1>4, <2>1, <2>2
            DEF Requests, Value, Issuers, WriterTypeOK
      <2>5. Phases'
            BY <1>0, <1>1, <1>2, <1>4, <2>1, <2>2 DEF Phases
      <2>6. Ages'
            <3>1. writer.pending = text /\ text \in Nat
                  BY <1>0, <1>4, BoundsAssumption DEF Ages, WriterTypeOK
            <3>2. writer'.inFlight = 0 \/ writer'.inFlight = text
                  BY <2>1, <3>1
            <3>3. \A m \in DOMAIN chat : chat[m] <= text
                  BY <1>0, <1>2 DEF Ages
            <3>4. /\ writer'.inFlight <= text
                  /\ \A m \in DOMAIN chat :
                        writer'.inFlight # 0 => chat[m] <= writer'.inFlight
                  BY <3>1, <3>2, <3>3
            <3> QED BY <1>0, <1>1, <1>2, <2>1, <3>3, <3>4 DEF Ages
      <2>7. PendingIsPromised' /\ FinalStands'
            BY <2>1 DEF PendingIsPromised, FinalStands
      <2> QED BY <2>3, <2>4, <2>5, <2>6, <2>7 DEF WriterInv
<1> QED BY <1>0, <1>3, <1>4 DEF WriterTypeOK, Writers

(* finalize() goes on once the write in flight has ended.                    *)
LEMMA FinalProceedsStep ==
    ASSUME WriterInv, FinalProceeds
    PROVE  WriterInv'
<1>0. /\ WriterTypeOK /\ Requests /\ Phases /\ Ages
      /\ PendingIsPromised /\ FinalStands
      BY DEF WriterInv
<1>1. /\ final.pc = "await" /\ writer.inFlight = 0
      /\ messageId' = messageId /\ chat' = chat /\ lost' = lost
      /\ text' = text /\ ending' = ending
      /\ ending # "no" /\ writer.pending = 0 /\ writer.timer = FALSE
      /\ writer.finalizing = TRUE /\ writer.closed = FALSE
      BY <1>0 DEF FinalProceeds, transport, caller, Phases, WriterTypeOK, Writers
<1>2. request["preview"].at = "none" /\ request["final"].at = "none"
      BY <1>0, <1>1 DEF Requests, WriterTypeOK, Issuers
<1>3. CASE writer.lastWritten = final.text
      <2>1. /\ writer'.pending = 0 /\ writer'.timer = FALSE
            /\ writer'.inFlight = 0
            /\ writer'.lastWritten = final.text
            /\ writer'.closed = TRUE /\ writer'.finalizing = TRUE
            /\ writer' \in Writers
            /\ final'.pc = "idle" /\ final'.text = final.text
            /\ final' \in [pc : {"idle", "await", "write"}, text : 0 .. FailText]
            /\ request' = request
            BY <1>0, <1>1, <1>3 DEF FinalProceeds, WriterTypeOK, Writers
      <2>2. WriterTypeOK'
            BY <1>0, <1>1, <2>1 DEF WriterTypeOK
      <2>3. Requests'
            BY <1>0, <1>1, <1>2, <1>3, <2>1 DEF Requests, Value, Issuers
      <2>4. Phases' /\ Ages'
            BY <1>0, <1>1, <1>3, <2>1 DEF Phases, Ages
      <2>5. PendingIsPromised' /\ FinalStands'
            <3>1. messageId # 0 /\ messageId \in DOMAIN chat
                  BY <1>0, <1>1, <1>3 DEF Requests, Ages, WriterTypeOK
            <3>2. chat[messageId] = final.text
                  BY <3>1, <1>0, <1>1, <1>3, BoundsAssumption
                  DEF Ages, WriterTypeOK, Texts, FailText
            <3> QED BY <1>1, <1>2, <2>1, <3>1, <3>2
                    DEF PendingIsPromised, FinalStands, Issuers
      <2> QED BY <2>2, <2>3, <2>4, <2>5 DEF WriterInv
<1>4. CASE writer.lastWritten # final.text
      <2>1. /\ writer' = writer
            /\ final'.pc = "write" /\ final'.text = final.text
            /\ final' \in [pc : {"idle", "await", "write"}, text : 0 .. FailText]
            /\ request' = [request EXCEPT !["final"] =
                              [at |-> "sent", to |-> messageId]]
            BY <1>0, <1>1, <1>4 DEF FinalProceeds, WriterTypeOK, Call
      <2>2. WriterTypeOK'
            BY <1>0, <1>1, <2>1 DEF WriterTypeOK
      <2>3. Requests'
            BY <1>0, <1>1, <1>2, <2>1
            DEF Requests, Value, Issuers, WriterTypeOK
      <2>4. Phases' /\ Ages'
            BY <1>0, <1>1, <2>1 DEF Phases, Ages
      <2>5. PendingIsPromised' /\ FinalStands'
            BY <1>1, <2>1 DEF PendingIsPromised, FinalStands
      <2> QED BY <2>2, <2>3, <2>4, <2>5 DEF WriterInv
<1> QED BY <1>3, <1>4

(* The wire carries one request: previews wait for each other, and finalize  *)
(* for the last of them.                                                     *)
LEMMA OneRequest ==
    ASSUME WriterInv, NEW i \in Issuers, NEW j \in Issuers,
           request[i].at # "none", request[j].at # "none"
    PROVE  i = j
BY DEF WriterInv, Requests, Phases, Issuers

(* What a request under way carries is a text no older than any in the chat. *)
LEMMA ValueIsNewest ==
    ASSUME WriterInv, NEW i \in Issuers, request[i].at # "none"
    PROVE  /\ Value(i) \in Texts
           /\ \A m \in DOMAIN chat : chat[m] <= Value(i)
           /\ Value(i) <= IF ending = "no" THEN text ELSE final.text
           /\ writer.inFlight # 0 => Value(i) = writer.inFlight
<1>0. WriterTypeOK /\ Requests /\ Phases /\ Ages
      BY DEF WriterInv
<1>1. CASE i = "preview"
      <2>1. writer.inFlight # 0 /\ Value(i) = writer.inFlight
            BY <1>0, <1>1 DEF Requests, Value
      <2>2. writer.inFlight \in 1 .. MaxText
            BY <1>0, <2>1, BoundsAssumption DEF WriterTypeOK, Writers
      <2> QED BY <1>0, <2>1, <2>2, BoundsAssumption
              DEF Ages, Texts, FailText, WriterTypeOK
<1>2. CASE i = "final"
      <2>1. final.pc = "write" /\ Value(i) = final.text
            BY <1>0, <1>2 DEF Requests, Value
      <2>2. ending # "no" /\ writer.inFlight = 0
            BY <1>0, <2>1 DEF Phases
      <2>3. final.text \in 1 .. FailText
            BY <1>0, <2>2, BoundsAssumption DEF Ages, WriterTypeOK, FailText
      <2> QED BY <1>0, <2>1, <2>2, <2>3, BoundsAssumption
              DEF Ages, Texts, FailText
<1> QED BY <1>1, <1>2 DEF Issuers

(* A request arrives: it writes a text no message is newer than.             *)
LEMMA ArriveStep ==
    ASSUME WriterInv, NEW i \in Issuers, Arrive(i)
    PROVE  /\ WriterInv'
           /\ \A m \in DOMAIN chat : chat'[m] >= chat[m]
<1>0. /\ WriterTypeOK /\ Requests /\ Phases /\ Ages
      /\ PendingIsPromised /\ FinalStands
      BY DEF WriterInv
<1> DEFINE to == request[i].to
           val == Value(i)
<1>1. /\ request[i].at = "sent" /\ to = messageId
      /\ writer' = writer /\ final' = final /\ messageId' = messageId
      /\ lost' = lost /\ text' = text /\ ending' = ending
      BY <1>0 DEF Arrive, caller, Requests
<1>2. /\ val \in Texts
      /\ \A m \in DOMAIN chat : chat[m] <= val
      /\ val <= IF ending = "no" THEN text ELSE final.text
      /\ writer.inFlight # 0 => val = writer.inFlight
      BY <1>1, ValueIsNewest
<1>3. \A j \in Issuers : j # i => request[j].at = "none"
      BY <1>1, OneRequest
<1>4. \A j \in Issuers : Value(j)' = Value(j)
      BY <1>1 DEF Value
<1>5. /\ chat \in Seq(Texts) /\ Len(chat) \in Nat /\ lost \in Nat
      /\ DOMAIN chat = 1 .. Len(chat) /\ messageId \in 0 .. Len(chat)
      /\ \A m \in DOMAIN chat : chat[m] \in Nat
      /\ val \in Nat
      BY <1>0, <1>2, BoundsAssumption DEF WriterTypeOK, Texts, FailText
<1>6. ~writer.closed
      BY <1>0, <1>1 DEF FinalStands
<1>7. CASE to = 0
      <2>1. /\ chat' = Append(chat, val)
            /\ request' = [request EXCEPT ![i] =
                              [at |-> "applied", to |-> Len(chat) + 1]]
            BY <1>7 DEF Arrive
      <2>2. /\ chat' \in Seq(Texts) /\ Len(chat') = Len(chat) + 1
            /\ \A m \in DOMAIN chat : chat'[m] = chat[m]
            /\ chat'[Len(chat) + 1] = val
            /\ DOMAIN chat' = 1 .. Len(chat) + 1
            BY <2>1, <1>2, <1>5
      <2>3. WriterTypeOK'
            <3>1. request' \in [Issuers -> [at : {"none", "sent", "applied"},
                                            to : 0 .. Len(chat')]]
                  BY <2>1, <2>2, <1>0, <1>5 DEF WriterTypeOK
            <3> QED BY <1>0, <1>1, <1>5, <2>2, <3>1 DEF WriterTypeOK
      <2>4. Requests'
            <3>1. request'[i] = [at |-> "applied", to |-> Len(chat) + 1]
                  BY <2>1, <1>0 DEF WriterTypeOK
            <3>2. \A j \in Issuers : j # i => request'[j] = request[j]
                  BY <2>1, <1>0 DEF WriterTypeOK
            <3>3. \A j \in Issuers :
                     (request'[j].at # "none") <=> (request[j].at # "none")
                  BY <3>1, <3>2, <1>1
            <3>4. \A j \in Issuers :
                    /\ request'[j].at = "sent" => request'[j].to = messageId
                    /\ request'[j].at = "applied" =>
                          /\ request'[j].to \in DOMAIN chat'
                          /\ chat'[request'[j].to] = Value(j)'
                          /\ messageId # 0 => request'[j].to = messageId
                  BY <3>1, <3>2, <1>1, <1>3, <1>4, <1>5, <1>7, <2>2
            <3>5. \A j \in Issuers : request[j].at # "applied"
                  BY <1>1, <1>3
            <3>6. Len(chat) <= lost
                  BY <1>0, <1>1, <1>7, <1>5, <3>5 DEF Requests
            <3>7. \E j \in Issuers : request'[j].at = "applied"
                  BY <3>1
            <3>8. Len(chat') <= lost + 1
                  BY <3>6, <2>2, <1>5
            <3>9. Len(chat') <= lost' + IF \/ messageId' # 0
                              \/ \E j \in Issuers : request'[j].at = "applied"
                           THEN 1 ELSE 0
                  BY <1>1, <3>7, <3>8
            <3>10. "preview" \in Issuers /\ "final" \in Issuers
                  BY DEF Issuers
            <3> QED BY <1>0, <1>1, <3>3, <3>4, <3>9, <3>10 DEF Requests
      <2>5. Phases' /\ PendingIsPromised' /\ FinalStands'
            BY <1>0, <1>1, <1>6 DEF Phases, PendingIsPromised, FinalStands
      <2>6. Ages'
            <3>1. \A m \in DOMAIN chat' :
                     \/ chat'[m] = val
                     \/ m \in DOMAIN chat /\ chat'[m] = chat[m]
                  BY <2>2, <1>5
            <3>2. \A m \in DOMAIN chat' :
                    /\ chat'[m] <= IF ending = "no" THEN text ELSE final.text
                    /\ writer.inFlight # 0 => chat'[m] <= writer.inFlight
                  BY <3>1, <1>0, <1>2, <1>5 DEF Ages
            <3> QED BY <3>2, <1>7, <1>0, <1>1 DEF Ages
      <2> QED BY <2>2, <2>3, <2>4, <2>5, <2>6, <1>5 DEF WriterInv
<1>8. CASE to # 0
      <2>1. /\ chat' = [chat EXCEPT ![to] = val]
            /\ request' = [request EXCEPT ![i].at = "applied"]
            BY <1>8 DEF Arrive
      <2>2. /\ chat' \in Seq(Texts) /\ Len(chat') = Len(chat)
            /\ \A m \in DOMAIN chat :
                  chat'[m] = IF m = to THEN val ELSE chat[m]
            /\ DOMAIN chat' = DOMAIN chat /\ to \in DOMAIN chat
            BY <2>1, <1>1, <1>2, <1>5, <1>8
      <2>3. WriterTypeOK'
            <3>1. request' \in [Issuers -> [at : {"none", "sent", "applied"},
                                            to : 0 .. Len(chat')]]
                  BY <2>1, <2>2, <1>0, <1>5 DEF WriterTypeOK
            <3> QED BY <1>0, <1>1, <1>5, <2>2, <3>1 DEF WriterTypeOK
      <2>4. Requests'
            <3>1. request'[i].at = "applied" /\ request'[i].to = to
                  BY <2>1, <1>0 DEF WriterTypeOK
            <3>2. \A j \in Issuers : j # i => request'[j] = request[j]
                  BY <2>1, <1>0 DEF WriterTypeOK
            <3>3. \A j \in Issuers :
                     (request'[j].at # "none") <=> (request[j].at # "none")
                  BY <3>1, <3>2, <1>1
            <3>4. \A j \in Issuers :
                    /\ request'[j].at = "sent" => request'[j].to = messageId
                    /\ request'[j].at = "applied" =>
                          /\ request'[j].to \in DOMAIN chat'
                          /\ chat'[request'[j].to] = Value(j)'
                          /\ messageId # 0 => request'[j].to = messageId
                  BY <3>1, <3>2, <1>1, <1>3, <1>4, <2>2
            <3>5. Len(chat') <= lost' + IF \/ messageId' # 0
                              \/ \E j \in Issuers : request'[j].at = "applied"
                           THEN 1 ELSE 0
                  BY <1>0, <1>1, <1>8, <2>2 DEF Requests
            <3>6. "preview" \in Issuers /\ "final" \in Issuers
                  BY DEF Issuers
            <3> QED BY <1>0, <1>1, <3>3, <3>4, <3>5, <3>6 DEF Requests
      <2>5. Phases' /\ PendingIsPromised' /\ FinalStands'
            BY <1>0, <1>1, <1>6 DEF Phases, PendingIsPromised, FinalStands
      <2>6. Ages'
            <3>1. \A m \in DOMAIN chat' :
                     \/ chat'[m] = val
                     \/ m \in DOMAIN chat /\ chat'[m] = chat[m]
                  BY <2>2
            <3>2. chat'[messageId] = val /\ writer.lastWritten <= val
                  BY <2>2, <1>0, <1>1, <1>2, <1>5, <1>8, BoundsAssumption
                  DEF Ages, WriterTypeOK, Writers, FailText
            <3>3. \A m \in DOMAIN chat' :
                    /\ chat'[m] <= IF ending = "no" THEN text ELSE final.text
                    /\ writer.inFlight # 0 => chat'[m] <= writer.inFlight
                  BY <3>1, <1>0, <1>2, <1>5 DEF Ages
            <3>4. chat'[messageId] >= writer.lastWritten
                  BY <3>2, <1>0, <1>5, BoundsAssumption
                  DEF WriterTypeOK, Writers, FailText
            <3> QED BY <3>3, <3>4, <1>0, <1>1 DEF Ages
      <2> QED BY <2>2, <2>3, <2>4, <2>5, <2>6, <1>2, <1>5 DEF WriterInv
<1> QED BY <1>7, <1>8

(* The write of a preview ends with l as the last text written: the invariant*)
(* holds again, whether the next text starts, waits, or there is none.       *)
LEMMA PreviewEndsStep ==
    ASSUME WriterInv, writer.inFlight # 0,
           NEW l \in {writer.lastWritten, writer.inFlight},
           PreviewEnds([writer EXCEPT !.lastWritten = l]),
           chat' = chat, text' = text, ending' = ending,
           messageId' \in 0 .. Len(chat), lost' \in 0 .. MaxLost,
           (messageId' = 0) <=> (l = 0),
           messageId' # 0 => chat[messageId'] >= l,
           Len(chat) <= lost' + IF messageId' # 0 THEN 1 ELSE 0
    PROVE  WriterInv'
<1>0. /\ WriterTypeOK /\ Requests /\ Phases /\ Ages
      /\ PendingIsPromised /\ FinalStands
      BY DEF WriterInv
<1> DEFINE w1 == [writer EXCEPT !.lastWritten = l]
           w  == [w1 EXCEPT !.inFlight = 0]
<1>1. /\ writer' \in Schedule(w) /\ final' = final
      /\ request' = [request EXCEPT !["preview"] =
                       IF writer'.inFlight = 0 THEN Closed
                       ELSE [at |-> "sent", to |-> messageId']]
      BY DEF PreviewEnds
<1>2. l \in 0 .. FailText /\ writer.inFlight \in 1 .. MaxText /\ l \in Nat
      BY <1>0, BoundsAssumption DEF WriterTypeOK, Writers, FailText
<1>3. w \in Writers
      <2>1. w1 \in Writers
            BY <1>0, <1>2, FieldsKeepType DEF WriterTypeOK
      <2> HIDE DEF w1
      <2> QED BY <2>1, FieldsKeepType
<1>4. /\ w.pending = writer.pending /\ w.lastWritten = l /\ w.inFlight = 0
      /\ w.timer = writer.timer /\ w.finalizing = writer.finalizing
      /\ w.closed = writer.closed
      BY <1>0 DEF WriterTypeOK, Writers
<1> HIDE DEF w
<1>5. /\ ~writer.closed /\ final.pc # "write"
      /\ request["final"].at = "none"
      BY <1>0 DEF Phases, Requests, WriterTypeOK, Issuers
<1>6. /\ writer' \in Writers
      /\ writer'.lastWritten = l /\ writer'.closed = writer.closed
      /\ writer'.finalizing = writer.finalizing
      /\ \/ writer'.inFlight = 0
         \/ writer'.inFlight = writer.pending /\ writer.pending # 0
      /\ writer'.pending \in {0, writer.pending}
      /\ writer'.timer => writer.timer \/ writer.pending # 0
      /\ writer'.pending # 0 => writer'.timer /\ ~writer.finalizing
      <2>1. CASE Blocked(w) /\ writer' = w
            <3>1. writer.pending = 0
                  BY <2>1, <1>0, <1>4, <1>5 DEF Blocked, PendingIsPromised
            <3> QED BY <2>1, <3>1, <1>3, <1>4
      <2>2. CASE /\ ~Blocked(w)
                 /\ writer' = [w EXCEPT !.pending = 0, !.timer = FALSE]
            <3> DEFINE v == [w EXCEPT !.pending = 0]
            <3>1. v \in Writers
                  BY <1>3, FieldsKeepType
            <3>2. [v EXCEPT !.timer = FALSE] \in Writers
                  <4> HIDE DEF v
                  <4> QED BY <3>1, FieldsKeepType
            <3> QED BY <2>2, <3>2, <1>3, <1>4 DEF Writers
      <2>3. CASE ~Blocked(w) /\ writer' = [w EXCEPT !.timer = TRUE]
            <3>1. writer' \in Writers
                  BY <2>3, <1>3, FieldsKeepType
            <3> QED BY <2>3, <3>1, <1>3, <1>4 DEF Writers, Blocked
      <2>4. CASE /\ ~Blocked(w)
                 /\ writer' = [w EXCEPT !.pending = 0, !.timer = FALSE,
                                        !.inFlight = w.pending]
            <3> DEFINE v == [w EXCEPT !.pending = 0]
                       u == [v EXCEPT !.timer = FALSE]
            <3>1. v \in Writers
                  BY <1>3, FieldsKeepType
            <3> HIDE DEF v
            <3>2. u \in Writers
                  BY <3>1, FieldsKeepType
            <3> HIDE DEF u
            <3>3. [u EXCEPT !.inFlight = w.pending] \in Writers
                  BY <3>2, <1>3, FieldsKeepType DEF Writers
            <3>4. writer' \in Writers
                  BY <2>4, <3>3 DEF u, v
            <3> QED BY <2>4, <3>4, <1>3, <1>4 DEF Writers, Blocked
      <2> QED BY <2>1, <2>2, <2>3, <2>4, <1>1, <1>3, ScheduleCases
<1>7. /\ writer.pending # 0 => writer.pending = text /\ ending = "no"
      /\ writer.inFlight <= text /\ text \in Nat
      /\ \A m \in DOMAIN chat : chat[m] <= writer.inFlight
      /\ l <= IF ending = "no" THEN text ELSE final.text
      BY <1>0, <1>2, BoundsAssumption
      DEF Ages, Phases, WriterTypeOK, FailText
<1>8. WriterTypeOK'
      <2>1. request' \in [Issuers -> [at : {"none", "sent", "applied"},
                                      to : 0 .. Len(chat)]]
            <3> DEFINE entry == IF writer'.inFlight = 0 THEN Closed
                                ELSE [at |-> "sent", to |-> messageId']
            <3>1. entry \in [at : {"none", "sent", "applied"}, to : 0 .. Len(chat)]
                  BY <1>0 DEF Closed, WriterTypeOK
            <3> HIDE DEF entry
            <3>2. [request EXCEPT !["preview"] = entry] \in
                     [Issuers -> [at : {"none", "sent", "applied"},
                                  to : 0 .. Len(chat)]]
                  BY <3>1, <1>0 DEF WriterTypeOK
            <3> QED BY <3>2, <1>1 DEF entry
      <2> QED BY <1>0, <1>1, <1>6, <2>1 DEF WriterTypeOK
<1>9. Requests'
      <2>1. /\ request'["preview"] = IF writer'.inFlight = 0 THEN Closed
                                     ELSE [at |-> "sent", to |-> messageId']
            /\ request'["final"] = request["final"]
            BY <1>1, <1>0 DEF WriterTypeOK, Issuers
      <2>2. \A i \in Issuers :
               /\ request'[i].at # "applied"
               /\ request'[i].at = "sent" => request'[i].to = messageId'
            BY <2>1, <1>5 DEF Closed, Issuers
      <2>3. /\ (request'["preview"].at # "none") <=> (writer'.inFlight # 0)
            /\ (request'["final"].at # "none") <=> (final'.pc = "write")
            BY <2>1, <1>1, <1>5 DEF Closed
      <2>4. (messageId' = 0) <=> (writer'.lastWritten = 0)
            BY <1>6
      <2>5. Len(chat') <= lost' + IF \/ messageId' # 0
                        \/ \E j \in Issuers : request'[j].at = "applied"
                     THEN 1 ELSE 0
            BY <2>2
      <2> QED BY <2>2, <2>3, <2>4, <2>5 DEF Requests
<1>10. Phases'
      BY <1>0, <1>1, <1>5, <1>6, <1>7 DEF Phases, PendingIsPromised
<1>11. Ages'
      <2>1. /\ writer'.inFlight <= text
            /\ \A m \in DOMAIN chat :
                  writer'.inFlight # 0 => chat[m] <= writer'.inFlight
            <3>1. \A m \in DOMAIN chat : chat[m] \in Nat
                  BY <1>0, BoundsAssumption DEF WriterTypeOK, Texts, FailText
            <3> QED BY <3>1, <1>6, <1>7, <1>2
      <2>2. writer'.pending # 0 => writer'.pending = text
            BY <1>6, <1>7
      <2> QED BY <1>0, <1>1, <1>6, <1>7, <2>1, <2>2 DEF Ages
<1>12. PendingIsPromised' /\ FinalStands'
      BY <1>5, <1>6 DEF PendingIsPromised, FinalStands
<1> QED BY <1>8, <1>9, <1>10, <1>11, <1>12 DEF WriterInv

(* finalize() ends: it rejects, or the final text is what the message shows. *)
LEMMA FinalEndsStep ==
    ASSUME WriterInv, final.pc = "write", chat' = chat, text' = text,
           ending' = ending, messageId' \in 0 .. Len(chat),
           lost' \in 0 .. MaxLost,
           NEW l \in {writer.lastWritten, final.text}, NEW c \in BOOLEAN,
           FinalEnds([writer EXCEPT !.lastWritten = l, !.closed = c]),
           (messageId' = 0) <=> (l = 0),
           messageId' # 0 => chat[messageId'] >= l,
           Len(chat) <= lost' + IF messageId' # 0 THEN 1 ELSE 0,
           c => messageId' # 0 /\ chat[messageId'] = final.text
    PROVE  WriterInv'
<1>0. /\ WriterTypeOK /\ Requests /\ Phases /\ Ages
      /\ PendingIsPromised /\ FinalStands
      BY DEF WriterInv
<1>1. /\ writer.inFlight = 0 /\ writer.pending = 0 /\ writer.timer = FALSE
      /\ ending # "no" /\ l \in 0 .. FailText
      BY <1>0 DEF Phases, WriterTypeOK, Writers
<1>2. /\ writer'.inFlight = 0 /\ writer'.pending = 0 /\ writer'.timer = FALSE
      /\ writer'.finalizing = FALSE /\ writer'.closed = c
      /\ writer'.lastWritten = l
      BY <1>0, <1>1 DEF FinalEnds, WriterTypeOK, Writers
<1>3. writer' = [pending |-> 0, lastWritten |-> l, inFlight |-> 0,
                 timer |-> FALSE, finalizing |-> FALSE, closed |-> c]
      BY <1>0, <1>1 DEF FinalEnds, WriterTypeOK, Writers
<1>4. writer' \in Writers
      BY <1>1, <1>3, BoundsAssumption DEF Writers
<1>5. /\ final'.pc = "idle" /\ final'.text = final.text
      /\ final' \in [pc : {"idle", "await", "write"}, text : 0 .. FailText]
      /\ request' = [request EXCEPT !["final"] = Closed]
      BY <1>0 DEF FinalEnds, WriterTypeOK
<1>6. /\ \A i \in Issuers : request'[i].at = "none"
      /\ request' \in [Issuers -> [at : {"none", "sent", "applied"},
                                   to : 0 .. Len(chat)]]
      BY <1>5, <1>1, <1>0 DEF WriterTypeOK, Requests, Issuers, Closed
<1>7. WriterTypeOK'
      BY <1>0, <1>4, <1>5, <1>6 DEF WriterTypeOK
<1>8. Requests'
      BY <1>2, <1>5, <1>6 DEF Requests, Issuers
<1>9. Phases'
      BY <1>1, <1>2, <1>5 DEF Phases
<1>10. Ages'
      <2>1. l <= final.text /\ text \in Nat
            BY <1>0, <1>1, BoundsAssumption DEF Ages, WriterTypeOK, FailText
      <2> QED BY <2>1, <1>0, <1>1, <1>2, <1>5 DEF Ages
<1>11. PendingIsPromised' /\ FinalStands'
      BY <1>2, <1>5, <1>6 DEF PendingIsPromised, FinalStands
<1> QED BY <1>7, <1>8, <1>9, <1>10, <1>11 DEF WriterInv

(* A request is answered: its text is in the message whose id is kept.       *)
LEMMA AnsweredStep ==
    ASSUME WriterInv, NEW i \in Issuers, Answered(i)
    PROVE  WriterInv'
<1>0. WriterTypeOK /\ Requests /\ Phases /\ Ages
      BY DEF WriterInv
<1>1. /\ request[i].at = "applied" /\ messageId' = request[i].to
      /\ chat' = chat /\ lost' = lost /\ text' = text /\ ending' = ending
      BY DEF Answered, caller
<1>2. /\ messageId' \in 1 .. Len(chat) /\ chat[messageId'] = Value(i)
      /\ Value(i) \in Texts /\ Value(i) # 0
      /\ chat \in Seq(Texts) /\ Len(chat) \in Nat
      BY <1>0, <1>1, ValueIsNewest, BoundsAssumption
      DEF Requests, WriterTypeOK, Texts, FailText
<1>3. Len(chat) <= lost + 1 /\ lost \in Nat /\ lost \in 0 .. MaxLost
      BY <1>0, <1>1, <1>2, BoundsAssumption DEF Requests, WriterTypeOK
<1>4. CASE i = "preview"
      <2>1. writer.inFlight # 0 /\ Value(i) = writer.inFlight
            BY <1>0, <1>1, <1>4 DEF Requests, Value
      <2>2. PreviewEnds([writer EXCEPT !.lastWritten = writer.inFlight])
            BY <1>4 DEF Answered
      <2>3. writer.inFlight \in Nat
            BY <1>0, BoundsAssumption DEF WriterTypeOK, Writers
      <2>4. /\ messageId' \in 0 .. Len(chat) /\ lost' \in 0 .. MaxLost
            /\ (messageId' = 0) <=> (writer.inFlight = 0)
            /\ messageId' # 0 => chat[messageId'] >= writer.inFlight
            /\ Len(chat) <= lost' + IF messageId' # 0 THEN 1 ELSE 0
            BY <1>1, <1>2, <1>3, <2>1, <2>3
      <2> QED BY <1>1, <2>1, <2>2, <2>4, PreviewEndsStep
<1>5. CASE i = "final"
      <2>1. final.pc = "write" /\ Value(i) = final.text
            BY <1>0, <1>1, <1>5 DEF Requests, Value
      <2>2. FinalEnds([writer EXCEPT !.lastWritten = final.text,
                                     !.closed = TRUE])
            BY <1>5 DEF Answered
      <2>3. final.text \in Nat
            BY <1>0, BoundsAssumption DEF WriterTypeOK, FailText
      <2>4. /\ messageId' \in 0 .. Len(chat) /\ lost' \in 0 .. MaxLost
            /\ (messageId' = 0) <=> (final.text = 0)
            /\ messageId' # 0 => chat[messageId'] >= final.text
            /\ messageId' # 0 /\ chat[messageId'] = final.text
            /\ Len(chat) <= lost' + IF messageId' # 0 THEN 1 ELSE 0
            BY <1>1, <1>2, <1>3, <2>1, <2>3
      <2> QED BY <1>1, <2>1, <2>2, <2>4, FinalEndsStep
<1> QED BY <1>4, <1>5 DEF Issuers

(* A request fails: the writer knows no more than before, and a message that *)
(* was posted all the same counts as lost.                                   *)
LEMMA FailedStep ==
    ASSUME WriterInv, NEW i \in Issuers, Failed(i)
    PROVE  WriterInv'
<1>0. WriterTypeOK /\ Requests /\ Phases /\ Ages
      BY DEF WriterInv
<1>1. /\ request[i].at # "none" /\ messageId' = messageId
      /\ chat' = chat /\ text' = text /\ ending' = ending
      BY DEF Failed, caller
<1>2. /\ lost \in Nat /\ Len(chat) \in Nat /\ messageId \in 0 .. Len(chat)
      /\ lost' \in 0 .. MaxLost
      BY <1>0, BoundsAssumption DEF Failed, WriterTypeOK
<1>3. Len(chat) <= lost' + IF messageId' # 0 THEN 1 ELSE 0
      <2>1. CASE request[i].at = "sent"
            <3>1. \A j \in Issuers : request[j].at # "applied"
                  BY <2>1, OneRequest
            <3> QED BY <2>1, <3>1, <1>0, <1>1 DEF Failed, Requests
      <2>2. CASE request[i].at = "applied"
            <3>1. Len(chat) <= lost + 1
                  BY <2>2, <1>0, <1>2 DEF Requests
            <3>2. IF messageId = 0 THEN lost' = lost + 1 ELSE lost' = lost
                  BY <2>2 DEF Failed
            <3> QED BY <3>1, <3>2, <1>1, <1>2
      <2> QED BY <2>1, <2>2 DEF Failed
<1>4. /\ (messageId' = 0) <=> (writer.lastWritten = 0)
      /\ messageId' # 0 => chat[messageId'] >= writer.lastWritten
      BY <1>0, <1>1 DEF Requests, Ages
<1>5. CASE i = "preview"
      <2>1. writer.inFlight # 0
            BY <1>0, <1>1, <1>5 DEF Requests
      <2>2. writer = [writer EXCEPT !.lastWritten = writer.lastWritten]
            BY <1>0 DEF WriterTypeOK, Writers
      <2>3. PreviewEnds([writer EXCEPT !.lastWritten = writer.lastWritten])
            BY <1>5, <2>2 DEF Failed
      <2> QED BY <1>1, <1>2, <1>3, <1>4, <2>1, <2>3, PreviewEndsStep
<1>6. CASE i = "final"
      <2>1. final.pc = "write" /\ ~writer.closed
            BY <1>0, <1>1, <1>6 DEF Requests, Phases
      <2>2. writer = [writer EXCEPT !.lastWritten = writer.lastWritten,
                                    !.closed = FALSE]
            BY <1>0, <2>1 DEF WriterTypeOK, Writers
      <2>3. FinalEnds([writer EXCEPT !.lastWritten = writer.lastWritten,
                                     !.closed = FALSE])
            BY <1>6, <2>2 DEF Failed
      <2> QED BY <1>1, <1>2, <1>3, <1>4, <2>1, <2>3, FinalEndsStep
<1> QED BY <1>5, <1>6 DEF Issuers

(* Every step keeps the invariant.                                           *)
LEMMA WriterStep == WriterInv /\ [Next]_vars => WriterInv'
<1> SUFFICES ASSUME WriterInv, [Next]_vars PROVE WriterInv'
    OBVIOUS
<1>1. ASSUME NEW v \in 1 .. MaxText, Update(v) PROVE WriterInv'
      BY <1>1, UpdateStep
<1>2. ASSUME NEW v \in 1 .. MaxText, Commit(v) PROVE WriterInv'
      <2>1. v \in Texts /\ Finalize(v) /\ v >= text
            BY <1>2, BoundsAssumption DEF Commit, Texts, FailText
      <2>2. ending = "no" /\ ending' = "commit"
            BY <1>2 DEF Commit
      <2> QED BY <2>1, <2>2, FinalizeStep
<1>3. CASE Fail
      <2>1. FailText \in Texts /\ FailText >= text
            BY BoundsAssumption DEF WriterInv, WriterTypeOK, Texts, FailText
      <2>2. Finalize(FailText) /\ ending' = "fail"
            BY <1>3 DEF Fail
      <2> QED BY <2>1, <2>2, FinalizeStep
<1>4. CASE TimerFires
      BY <1>4, TimerStep
<1>5. CASE FinalProceeds
      BY <1>5, FinalProceedsStep
<1>6. ASSUME NEW i \in Issuers, Arrive(i) \/ Answered(i) \/ Failed(i)
      PROVE  WriterInv'
      BY <1>6, ArriveStep, AnsweredStep, FailedStep
<1>7. CASE UNCHANGED vars
      BY <1>7 DEF vars, transport, caller, WriterInv, WriterTypeOK, Requests, Phases, Ages,
         PendingIsPromised, FinalStands, Value
<1> QED BY <1>1, <1>2, <1>3, <1>4, <1>5, <1>6, <1>7 DEF Next

(* WriterInv holds in every state, for any number of texts and lost answers. *)
THEOREM WriterInvariant == WriterSpec => []WriterInv
<1> QED BY InitWriter, WriterStep, PTL DEF WriterSpec

(* The variables keep their types.                                           *)
THEOREM WriterTypeCorrect == WriterSpec => []WriterTypeOK
<1>1. WriterInv => WriterTypeOK
      BY DEF WriterInv
<1> QED BY <1>1, WriterInvariant, PTL

(* Previews and the final text never travel to Telegram at the same time.    *)
THEOREM SerialWrites == WriterSpec => []OneWriteAtATime
<1>1. WriterInv => OneWriteAtATime
      BY OneRequest DEF OneWriteAtATime, Issuers
<1> QED BY <1>1, WriterInvariant, PTL

(* A text that waits has been promised a write.                              *)
THEOREM NoLostWakeUp == WriterSpec => []PendingIsPromised
<1>1. WriterInv => PendingIsPromised
      BY DEF WriterInv
<1> QED BY <1>1, WriterInvariant, PTL

(* After a finalize that closed the writer the message shows the final text. *)
THEOREM Barrier == WriterSpec => []FinalStands
<1>1. WriterInv => FinalStands
      BY DEF WriterInv
<1> QED BY <1>1, WriterInvariant, PTL

(* A second message needs a lost answer.                                     *)
THEOREM SingleArtifact == WriterSpec => []OneArtifact
<1>1. ASSUME WriterInv PROVE OneArtifact
      <2>1. lost \in Nat /\ Len(chat) \in Nat
            BY <1>1, BoundsAssumption DEF WriterInv, WriterTypeOK
      <2> QED BY <1>1, <2>1 DEF WriterInv, Requests, OneArtifact
<1> QED BY <1>1, WriterInvariant, PTL

(* No message goes back to an older text.                                    *)
THEOREM Monotone == WriterSpec => NeverOlder
<1>1. ASSUME WriterInv, [Next]_vars
      PROVE  [\A m \in DOMAIN chat : chat'[m] >= chat[m]]_vars
      <2>1. ASSUME NEW i \in Issuers, Arrive(i)
            PROVE  \A m \in DOMAIN chat : chat'[m] >= chat[m]
            BY <1>1, <2>1, ArriveStep
      <2>2. ASSUME chat' = chat
            PROVE  \A m \in DOMAIN chat : chat'[m] >= chat[m]
            BY <1>1, <2>2, BoundsAssumption
            DEF WriterInv, WriterTypeOK, Texts, FailText
      <2>3. (\E i \in Issuers : Arrive(i)) \/ chat' = chat
            BY <1>1 DEF Next, vars, Update, Commit, Fail, Finalize, TimerFires,
               FinalProceeds, Answered, Failed, transport, caller
      <2> QED BY <2>1, <2>2, <2>3
<1> QED BY <1>1, WriterInvariant, PTL DEF WriterSpec, NeverOlder
=============================================================================
