------------------------------- MODULE ChatPool -------------------------------
(***************************************************************************)
(* Home of the Mini App: listWmaChats asks Telegram about every chat of    *)
(* the catalog, a few at a time (mapConcurrent in wma/src-api/bootstrap.ts *)
(* over chat-access.ts).  The workers of the pool share one index; their   *)
(* answers come in any order.                                              *)
(***************************************************************************)
EXTENDS Integers, FiniteSets

CONSTANTS Chats,         \* length of the catalog
          Concurrency    \* TELEGRAM_AUTH_CONCURRENCY

ASSUME PoolBounds == Chats \in Nat /\ Concurrency \in Nat \ {0}

VARIABLES nextIndex,     \* shared by the workers
          calls,         \* worker -> [index, method] it awaits, or Returned
          results,       \* index -> "pending", "absent" or "listed"
          asked          \* history: how often each index was taken

poolVars == <<nextIndex, calls, results, asked>>

PoolWorkers == 1 .. (IF Concurrency < Chats THEN Concurrency ELSE Chats)
Returned == [index |-> 0, method |-> "none"]
Indexes == 1 .. Chats

(* A worker takes the next index, or returns.                              *)
Take(index) == IF index > Chats THEN Returned ELSE [index |-> index, method |-> "getChatMember"]

(* Every worker runs up to its first await.                                *)
PoolInit ==
  /\ nextIndex = 1 + Cardinality(PoolWorkers)
  /\ calls = [w \in PoolWorkers |-> Take(w)]
  /\ results = [i \in Indexes |-> "pending"]
  /\ asked = [i \in Indexes |-> IF i \in PoolWorkers THEN 1 ELSE 0]

(* Mutant: results are pushed in the order of the answers.                 *)
StorePushed(index, value) ==
  [results EXCEPT ![1 + Cardinality({i \in Indexes : results[i] # "pending"})] = value]

Store(index, value) == [results EXCEPT ![index] = value]

(* The mapper is done with its chat: the same worker goes on.              *)
Mapped(w, value) ==
  /\ results' = Store(calls[w].index, value)
  /\ calls' = [calls EXCEPT ![w] = Take(nextIndex)]
  /\ nextIndex' = nextIndex + 1
  /\ asked' = [i \in Indexes |-> asked[i] + (IF i = nextIndex THEN 1 ELSE 0)]

(* Chats with an even place are accessible.  A failed call, like a refusal,*)
(* leaves the chat out.                                                    *)
Accessible(i) == i % 2 = 0

MemberAnswered(w) ==
  /\ calls[w].method = "getChatMember"
  /\ \/ /\ Accessible(calls[w].index)
        /\ calls' = [calls EXCEPT ![w].method = "getChat"]
        /\ UNCHANGED <<nextIndex, results, asked>>
     \/ Mapped(w, "absent")

ChatAnswered(w) ==
  /\ calls[w].method = "getChat"
  /\ Mapped(w, "listed") \/ Mapped(w, "absent")

PoolNext == \E w \in PoolWorkers : MemberAnswered(w) \/ ChatAnswered(w)

PoolSpec == PoolInit /\ [][PoolNext]_poolVars /\ WF_poolVars(PoolNext)

(* When all workers have returned every chat was asked about once and has  *)
(* the answer about itself: no index is left to nobody or taken by two     *)
(* workers, and no chat is listed on the answer about another.             *)
PoolCovers ==
  (\A w \in PoolWorkers : calls[w] = Returned) =>
     \A i \in Indexes : /\ asked[i] = 1 /\ results[i] # "pending"
                       /\ results[i] = "listed" => Accessible(i)
=============================================================================
