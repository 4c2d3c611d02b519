---------------------------- MODULE SummaryHistory ----------------------------
(***************************************************************************)
(* The summaries of a chat as a reader of the Mini App pages through them: *)
(* the keyset query of the API (wma/src-api/bootstrap.ts), the cache at    *)
(* the edge (worker.ts, edge-cache.ts), the cache of the browser session   *)
(* (src/api/session-cache.ts) and the Chat page (src/routes/chat.tsx).     *)
(*                                                                         *)
(* Cached pages expire at any moment or stay for ever, which covers every  *)
(* TTL.  Summaries of a chat are recorded one after another, so a new one  *)
(* is younger than all others; older ones may share a createdAt.           *)
(***************************************************************************)
EXTENDS Integers, Sequences, FiniteSets, Functions, Order

CONSTANTS Times,        \* createdAt of every summary, by id
          PageSize,     \* SUMMARY_PAGE_SIZE
          MaxVisits     \* bound on the times the page is opened

ASSUME PagingAssumption ==
  /\ IsFiniteSet(DOMAIN Times) /\ DOMAIN Times \subseteq Nat \ {0}
  /\ Times \in [DOMAIN Times -> Nat]
  /\ PageSize \in Nat \ {0} /\ MaxVisits \in Nat

VARIABLES recorded,     \* the rows of summary_runs that are shown
          edge,         \* caches.open("microsonya-wma-v1"): cursor -> page
          puts,         \* cache.put calls of ctx.waitUntil, not yet done
          sessionCache, \* sessionStorage: cursor -> page
          requests,     \* requests of this browser under way
          history       \* the Chat component

pagingVars == <<recorded, edge, puts, sessionCache, requests, history>>

Ids == DOMAIN Times
First == 0                                  \* no cursor
Unanswered == [rows |-> <<First>>, next |-> First]

-----------------------------------------------------------------------------
(* The API                                                                 *)

(* Mutant: the cursor condition compares createdAt only.                   *)
BelowByTime(id, cursor) == cursor = First \/ Times[id] < Times[cursor]

(* cursorCondition: createdAt, then id.                                    *)
Below(id, cursor) ==
  \/ cursor = First
  \/ Times[id] < Times[cursor]
  \/ Times[id] = Times[cursor] /\ id < cursor

(* orderBy: createdAt, then id, both descending.                           *)
Newer(a, b) == Times[a] > Times[b] \/ (Times[a] = Times[b] /\ a > b)

Newest(ids) == InOrder(ids, Newer)

(* getChatOverview: one row more than a page tells whether there is a next *)
(* page; the cursor is the last row that is returned.                      *)
ChatOverview(cursor) ==
  LET rows == Newest({id \in recorded : Below(id, cursor)})
      page == SubSeq(rows, 1, IF Len(rows) > PageSize THEN PageSize ELSE Len(rows))
  IN  [rows |-> page, next |-> IF Len(rows) > PageSize THEN page[PageSize] ELSE First]

With(cache, cursor, page) == [c \in DOMAIN cache \cup {cursor} |-> IF c = cursor THEN page ELSE cache[c]]
Without(cache, cursor) == [c \in DOMAIN cache \ {cursor} |-> cache[c]]

(* The worker's fetch: a hit at the edge is answered as it is; otherwise   *)
(* the database is read, and the answer is put into the cache later.       *)
Fetch(r) ==
  /\ r.page = Unanswered
  /\ LET page == IF r.cursor \in DOMAIN edge THEN edge[r.cursor] ELSE ChatOverview(r.cursor) IN
     /\ requests' = (requests \ {r}) \cup {[r EXCEPT !.page = page]}
     /\ puts' = IF r.cursor \in DOMAIN edge THEN puts ELSE puts \cup {<<r.cursor, page>>}
  /\ UNCHANGED <<recorded, edge, sessionCache, history>>

PutDone ==
  /\ \E put \in puts :
       /\ edge' = With(edge, put[1], put[2])
       /\ puts' = puts \ {put}
  /\ UNCHANGED <<recorded, sessionCache, requests, history>>

EdgeExpires ==
  /\ \E cursor \in DOMAIN edge : edge' = Without(edge, cursor)
  /\ UNCHANGED <<recorded, puts, sessionCache, requests, history>>

(* recordAttempt accepts another summary of the chat.                      *)
RecordSummary ==
  /\ \E id \in Ids \ recorded :
       /\ \A other \in recorded : Times[other] < Times[id]
       /\ recorded' = recorded \cup {id}
  /\ UNCHANGED <<edge, puts, sessionCache, requests, history>>

-----------------------------------------------------------------------------
(* The Chat page.  `crossed' is a history variable, see ListStaysWhole.    *)

ClosedChat == [open |-> FALSE, ready |-> FALSE, list |-> <<>>, next |-> First, loading |-> FALSE,
           error |-> FALSE, failed |-> FALSE, crossed |-> FALSE, visits |-> 0]

HistoryInit ==
  /\ recorded \in {ids \in SUBSET Ids : \A a \in ids, b \in Ids \ ids : Times[a] <= Times[b]}
  /\ edge = [c \in {} |-> Unanswered] /\ sessionCache = [c \in {} |-> Unanswered]
  /\ puts = {} /\ requests = {} /\ history = ClosedChat

Ask(owner, cursor) == [owner |-> owner, cursor |-> cursor, page |-> Unanswered]

(* The effect of the overview memo: the list starts again at its page.     *)
Reset(h, page) ==
  [h EXCEPT !.ready = TRUE, !.list = page.rows, !.next = page.next, !.error = FALSE,
            !.crossed = h.crossed \/ (h.loading /\ page.rows # h.list)]

(* loadMore: what is listed already is not appended again.                 *)
Unlisted(rows, list) ==
  LET new == InOrder({i \in DOMAIN rows : rows[i] \notin Range(list)}, LAMBDA i, j : i < j)
  IN  [k \in DOMAIN new |-> rows[new[k]]]

AppendPage(h, page) ==
  [h EXCEPT !.list = @ \o Unlisted(page.rows, @), !.next = page.next, !.loading = FALSE]

(* The page is opened: it shows the cached overview at once and loads the  *)
(* overview, which is the same cached page unless that expired in between. *)
OpenChat ==
  /\ ~history.open /\ history.visits < MaxVisits
  /\ LET h == [ClosedChat EXCEPT !.open = TRUE, !.visits = history.visits + 1] IN
     IF First \in DOMAIN sessionCache
     THEN /\ history' = Reset(h, sessionCache[First])
          /\ \/ UNCHANGED <<sessionCache, requests>>
             \/ /\ sessionCache' = Without(sessionCache, First)
                /\ requests' = requests \cup {Ask("overview", First)}
     ELSE history' = h /\ requests' = requests \cup {Ask("overview", First)} /\ UNCHANGED sessionCache
  /\ UNCHANGED <<recorded, edge, puts>>

MayLoadMore == history.open /\ history.next # First /\ ~history.loading

LoadMore ==
  /\ MayLoadMore
  /\ IF history.next \in DOMAIN sessionCache
     THEN history' = AppendPage([history EXCEPT !.error = FALSE], sessionCache[history.next])
          /\ UNCHANGED requests
     ELSE /\ history' = [history EXCEPT !.loading = TRUE, !.error = FALSE]
          /\ requests' = requests \cup {Ask("more", history.next)}
  /\ UNCHANGED <<recorded, edge, puts, sessionCache>>

(* A response arrives and is kept for the session.                         *)
ResponseArrives(r) ==
  /\ r.page # Unanswered
  /\ requests' = requests \ {r}
  /\ sessionCache' = With(sessionCache, r.cursor, r.page)
  /\ history' = CASE r.owner = "overview" -> Reset(history, r.page)
                  [] r.owner = "more" -> AppendPage(history, r.page)
                  [] r.owner = "nobody" -> history
  /\ UNCHANGED <<recorded, edge, puts>>

(* A request fails: the list and its cursor stay for another try.          *)
RequestFailed(r) ==
  /\ requests' = requests \ {r}
  /\ history' = CASE r.owner = "overview" -> [history EXCEPT !.failed = ~history.ready]
                  [] r.owner = "more" -> [history EXCEPT !.error = TRUE, !.loading = FALSE]
                  [] r.owner = "nobody" -> history
  /\ UNCHANGED <<recorded, edge, puts, sessionCache>>

(* The retry button of the error page.                                     *)
ReloadOverview ==
  /\ history.failed
  /\ history' = [history EXCEPT !.failed = FALSE]
  /\ requests' = requests \cup {Ask("overview", First)}
  /\ UNCHANGED <<recorded, edge, puts, sessionCache>>

(* The reader leaves: what is under way still fills the session cache.     *)
CloseChat ==
  /\ history.open
  /\ history' = [ClosedChat EXCEPT !.visits = history.visits]
  /\ requests' = {[r EXCEPT !.owner = "nobody"] : r \in requests}
  /\ UNCHANGED <<recorded, edge, puts, sessionCache>>

SessionExpires ==
  /\ \E cursor \in DOMAIN sessionCache : sessionCache' = Without(sessionCache, cursor)
  /\ UNCHANGED <<recorded, edge, puts, requests, history>>

HistoryNext ==
  \/ RecordSummary \/ PutDone \/ EdgeExpires \/ SessionExpires
  \/ OpenChat \/ LoadMore \/ ReloadOverview \/ CloseChat
  \/ \E r \in requests : Fetch(r) \/ ResponseArrives(r) \/ RequestFailed(r)

HistorySpec == HistoryInit /\ [][HistoryNext]_pagingVars

-----------------------------------------------------------------------------
(* Pages that were read at different times, from three different places,   *)
(* make one list: newest first, nothing twice and nothing left out between *)
(* its ends, and complete once there is no next page.  The exception is a  *)
(* list that was replaced while an older cursor's page was under way       *)
(* (chat.tsx:88-95 does not look at loadingMore): it may have a gap.       *)
ListStaysWhole ==
  LET list == history.list
      last == list[Len(list)]
  IN  history.crossed \/ list = <<>> \/
      /\ \A i, j \in DOMAIN list : i < j => Newer(list[i], list[j])
      /\ \A id \in recorded :
            /\ id = list[1] \/ Newer(list[1], id)
            /\ history.next = First \/ id = last \/ Newer(id, last)
            => id \in Range(list)
=============================================================================
