# Microsonya: specifications of the summary pipeline

Microsonya is a Telegram bot on Cloudflare Workers and PostgreSQL. A member of a
chat sends `/summary`; the bot reads the messages since the last consumed
boundary, asks a model whether they are worth a summary, generates one and
posts it in the chat. The work is asynchronous: the webhook only records the
command and puts a job on a queue, consumers do the work under leases, and a
cron pass repairs what got stuck. A Mini App shows the summaries of a chat. This
directory holds TLA+ models of all of these, TLC runs and TLAPS proofs about them.

Paths below are relative to the repository. `PROJECT.json` maps every definition
to the lines it models.

## 1. Inventory of the system

```
Telegram --update--> ingress worker ------> queue "summary" ----> consumer (queue handler)
                        |  create run           ^  ^   |                 | process(runId)
                        v                       |  |   | retry / DLQ     v
                  lifecycle worker (RPC) <------+--+---+-------- processor worker
                        |      cron: scan, prepare, publish            |      |
                        v                                              v      v
              PostgreSQL: summary_run_lifecycle        attempt ledger     Telegram, models
```

| Component | State it keeps | Operations | What makes it hard | What makes it correct |
|---|---|---|---|---|
| Lifecycle store (`packages/db/.../summary-execution.repository.ts`, `packages/run-lifecycle`) | one row per command: status, two attempt counters, lease token and expiry, retry stage and deadline, encrypted text | create, transition, touch, claimProcessing, claimDelivery, storeDeliveryPayload, markCompleted, markRetry, markFailed, renewLease, expireLease, listStale | every caller runs concurrently; leases expire under their holders; partial unique index and CHECKs can throw | a stale owner cannot write; one computation per chat, in order; a stored text is never recomputed; terminal rows are final; no statement violates a CHECK |
| Lifecycle worker and cron (`apps/cloudflare/src/lifecycle/worker.ts`) | snapshot of one pass | claimWork (get, claimDelivery, claimProcessing), fenced RPCs, `scheduled` | decides on a snapshot, acts later; passes overlap; prepares first, publishes afterwards | it neither revives a finished run nor disturbs a live one; nothing stays stuck |
| Processor (`apps/cloudflare/src/processor`) | a claim (token, attempt), a progressive session | processRun, deliver, the error handlers, the lease heartbeat | minutes of work under a lease; crashes and throwing calls between any two steps; two retry budgets checked in different places | at most one accepted outcome; text only after outcome; bounded work; completed only after Telegram accepted |
| Ingress and consumer (`apps/cloudflare/src/ingress`) | none of its own; queue messages | webhook: create, send, mark queued; consumer: process, then ack, reschedule or retry | at-least-once on both sides; send-then-ack is not atomic; dead letter queue | every accepted command ends; no job is acknowledged without its run being finished or a replacement sent; the queue drains |
| Attempt ledger and consumption boundary (`summary-attempt.repository.ts`, `consumption-boundary.repository.ts`) | ledger rows with window snapshots; boundary = newest consuming row | recordAttempt (fence + insert), find outcome of a command, reuse of a finished window, boundary query | the fence is checked after minutes of computation | a fenced-out attempt leaves no outcome; boundaries of a chat only advance |
| Summarize workflow (`packages/summarize/src/execution`, `summary.evaluation.ts`, `SummaryExecutionJournal.ts`) | one attempt: what it read, what it selected, the journal of its model calls, the preview's session | read, select, classify, generate, record; begin, append, finalize, fail of the preview | two reads at different moments, minutes of model calls before the result is recorded, errors while an error is reported | what is recorded was computed from the boundary that still holds; what is said of a model call is true; a retryable failure is retried |
| Window selection (`packages/summarize/src/window`) | none (pure); a bounded heap while it works | eligible, ranking, context, chronology, coverage, consumption | limits at one and at the cap, ties, dates out of order, a boundary made of ids and times | the loops keep the window that is defined by sets; no message taken twice, none passed over |
| Classifier, generation, model client (`classifier`, `generation`, `packages/model`) | the buffer of a stream | classify (twice at most), stream, parse, validate | a body that ends early, a line split over chunks, an error inside a good answer | evidence and class of error are those of the call |
| Lease heartbeat (`processing-lease-heartbeat.ts`) | a chain of renewals | renew, stop | a renewal in flight when the result is ready | no result is used without its lease |
| Progressive publishing (`packages/summarize/src/progressive`) | session phase, text, cadence timer, desired and published snapshot, the drain, terminal flag | begin, append, finalize, commit, fail; notify, flushNow; set, flush, drain | callbacks and timers against finalisation; updates that fail; a drain that restarts itself | transport calls are serialised; delivery is last and of the whole text; every method returns |
| Telegram transports (`packages/telegram/src/transport`) | pending, last written and in-flight text, timer, finalizing and closed; message id | update, finalize; begin, update, commit, fail of the transports | edits in flight, slow and lost answers, timers against finalize | newest text wins and is never undone; no text forgotten; the final text stands; one message |
| Telegram parsing, history (`packages/telegram/src`, `message-history.repository.ts`) | rows of the message history | decode, the adapters of `/app`, `/summary` and history, save, listByChat | an update is delivered again, lost half way, or handled beside another; edits, channels, anonymous senders, forwards, captions | what members said is stored once, what they ordered starts once, nothing is both |
| WMA API (`wma/src-api`) | the edge cache | one page of summaries by time and id; the catalog, each chat asked of Telegram by a pool | pages read at different times, caches that answer late, workers sharing an index | pages make one list; every chat is asked once and gets its own answer |
| WMA UI (`wma/src`) | session history and router, view transition, paged list and session cache, popover and menu, observed list items | navigate, traverse, expand, load more, press, open, close, scroll, resize | browser callbacks that come later than the next event, cancelled transitions, frames, unmounting | the page is that of the address; marks and timers are released; controller and native popover come to agree; surfaces stay on the screen |
| Feedback, observability, scripts | see `PROJECT.json` | | | |

`PROJECT.json` lists every component with its status and, under `hazards`, the
places where the code is exposed to orders, crashes, races and limits that a
unit test would hardly reach, each with the properties that cover it.

## 2. Plan

1. **`RunLifecycle`** (done): the lifecycle row with every statement that writes
   it, callers left open. Theorems for any number of commands, chats and claims.
2. **`SummaryContract`** (done): the abstract specification of the store; shown to
   be implemented by `RunLifecycle`, by TLC and by proof.
3. **`SummaryPipeline`** (done): webhook, queue, consumer, processor, cron, ledger
   fence and Telegram around the statements of `RunLifecycle`; safety, liveness,
   and divergences between documents and code.
4. **`SummaryPipeline_proofs`** (done): the pipeline implements `LifecycleSpec`, hence
   every theorem of 1 and 2 holds of it; its safety invariants, the
   budgets among them, for any number of workers, cron passes, faults and jobs.
5. **`AttemptLedger`** (done, with `AttemptLedger_proofs`): several commands of a chat, from the
   reads of an attempt to its row and the boundary it moves; implements
   **`ConsumptionContract`**, by TLC and by proof. Composes with 3 through
   `CommitAttempt`: what 3 proves of the order of commands is its premise.
6. **`SummaryWindow`** and **`WindowScan`** (done, proofs in `History_proofs`): which messages a command is about, as sets and
   as the loops of the code.
7. **`ConflatingWriter`**, **`ProgressiveSession`** (done, each with its `_proofs`),
   **`GroupPreview`** (done, proofs in 10): the preview, by parts and together.
8. **`Evaluation`** and **`ProcessingAttempt`** (done, with `ProcessingAttempt_proofs`): one attempt in full, with its model
   calls, preview, heartbeat, record and delivery.
9. **`TelegramUpdates`** (done, proofs in `History_proofs`): decoder, adapters and what they store.
10. **`Navigation`, `SummaryHistory`, `ChatPool`, `ContextMenu`, `SourceList`, `Placement`** (done): the
    parts of the Mini App that keep state over callbacks, requests or frames. **`Presentation_proofs`** (done) proves
    about them and about `GroupPreview`; `SummaryHistory` is in **`History_proofs`** (done), with what it shares with `WindowScan`: the order of rows (`Order`).
11. Left: nothing the provers reach. Every invariant of every passing run is stated by a theorem; properties that need fairness stay with TLC.

## 3. Modules

### RunLifecycle

State: `row[r]`, one record per command `r` with the columns of
`summary_run_lifecycle` the statements read or write, and the history variable
`late` (commands whose row was created after that of a later command of the chat).
Actions: one per statement of `SummaryExecutionRepository`, with the WHERE clause
as guard and the SET list as update. An UPDATE that matches no row is a stutter.
`LeaseholderStep` lets a caller use *any* token that was ever handed out, so a
superseded processor is always present. `Next` calls `transition` and `touch` only with the
arguments `lifecycle/worker.ts` uses.

Abstractions:

- *Timestamps* appear in the code only in comparisons with the current time, so
  a deadline is `"future"`, `"past"` or `Null`, and `updatedAt` is `"recent"` or `"stale"`.
  Three clock actions let each of them pass at any moment; nothing is assumed of durations.
  `updatedAt` is read for three statuses only and changes to stale only there.
- *Lease tokens* are UUIDs compared together with the row id; the ordinal of the
  claim stands for the UUID. `attempt + delivery_attempt` counts the claims.
- *The text* is the Boolean `summary`; encryption is left out.
- *Statements are atomic.* PostgreSQL runs at READ COMMITTED. Two claims of *one*
  row serialise on its row lock and re-evaluate the WHERE clause. The clause of
  claimProcessing about *earlier rows* is evaluated on the statement's snapshot:
  a concurrent update of an earlier row may be missed. Atomicity is
  an assumption here; what protects the code in that window is the unique
  index on processing rows, kept as the guard `ChatHasNoOtherProcessing`.
- When the index rejects a claim the UPDATE throws. The claim is disabled then in the
  model; the theorem `IndexIdle` of the pipeline shows that, with commands arriving in order,
  the case does not occur, which is why no action models the exception.

Invariants and properties: the table's CHECK constraints (`TableChecksHold`), no
recomputation of a stored text (`SummaryClosesProcessing`), INV-07
(`OneProcessingPerChat`, checked as a conjunct of `LifecycleInv`), order of computation (`NoOvertaking`), the inductive invariant
(`LifecycleInv`), finality (`TerminalRowsAreFinal`), fencing (`NoLiveTakeover`, proved).

### SummaryContract

The phases of a command as a chat would describe them, without leases, tokens, deadlines,
retries and reconciliation. `RunLifecycle!Phase` is the refinement mapping: `queued` and
`retry_wait` mean *waiting* or *ready* depending on the stage they return to; an expired
lease, a requeue, a touch and a renewal are stutters.

### SummaryPipeline

EXTENDS `RunLifecycle` and drives its statements from four kinds of processes:

| Process | State | Code |
|---|---|---|
| webhook of command `r` | `ingress[r]`: `update`, `send`, `markQueued`, `handled` | `telegram-webhook-handler.ts`, `summary-command-ingress.ts`; Telegram sends one update at a time (`max_connections` 1) and repeats it until answered |
| consumer and processor `w` | `worker[w]`: program counter, run, token, attempt, streamed or not | `summary-queue-consumer.ts`, `process-summary-execution.ts`, `failure-policy.ts`, `telegram-delivery.ts`; `claimWork` of `lifecycle/worker.ts` |
| cron pass `c` | `cron[c]`: snapshot, expired leases to requeue, runs to publish | `scheduled` of `lifecycle/worker.ts` |
| time | | deadlines pass, a lease lapses |

plus `jobs[r]` (messages waiting in the queue), `accepted[r]` (orchestration attempts of `r`
with a committed outcome in the ledger), and the histories `generated`, `sent`, `faults`. `sent` counts the steps that put the final
text into the chat; messages that a preview posted and lost the answer of are bounded in `ConflatingWriter` (`WriterInv`, at most one for each lost answer), not by `Budgets`.

`OnlyTheHolderWrites` is the fence seen from the processors: while a lease is valid, the step that ends it, or that adds an outcome to
the ledger, is one of the worker that was given it. The statements of `RunLifecycle` cannot say this, since a token has no owner there; `NoLiveTakeover` only says that no claim takes a valid lease.

Each RPC is one step, so anything may happen between two of them. Each step has three endings, following the `try`/`catch`
structure of the code: the statement ran (`Fenced`, yes), the fence refused it (`Fenced`, no),
or the call threw before or after its effect (`Caught` where processRun or deliver
catches it, `Uncaught` where it reaches the consumer, which calls `message.retry()`).
`Crash` loses the invocation at any step. The model, the classifier and the workflow are one
step (`Generate`) with the outcomes the processor tells apart: an accepted outcome (streamed or not), a lost
lease, a retryable error, another error. The recorded outcome and the ledger fence are one transaction in the
code and one step here.

Abstractions to know of:

- `message.retry()` either leaves the job in the queue or moves it to the dead letter queue; the
  retry count is not tracked, so the job may be lost at the first retry already.
- A lease lapses under a live holder only as a fault. Processing renews its lease every 30 s of
  2 min; a delivery is one Telegram call. A lease nobody holds lapses freely.
- A failure of the heartbeat aborts the operation, the same ending as an exception of `Generate`.
- `expireLease` compares the lease with the time of the scan. The snapshot keeps the lease
  token: a lease granted after the scan expires later than it, so the statement matches exactly
  when the token is the one scanned.
- The branch "attempt already committed" of recordAttempt needs two calls under one claim; a
  processor calls it once per claim, so the branch is absent.
- Error evidence rows of the ledger are not represented: nothing reads them back here.

### ConflatingWriter

The writer that keeps the newest text of a group preview and has at most one write on its
way, together with the message that `EditableMessageTransport` sends and then edits, and with Telegram's side.

| Variable | Code |
|---|---|
| `writer` | `pending`, `lastWritten`, `inFlight`, `timer`, `finalizing`, `closed` of `ConflatingWriter`; a value of 0 is `hasPending`/`hasLastWritten` false or no write in flight |
| `final` | the call of `finalize`: its text, and whether it awaits the write in flight or its own write |
| `messageId` | `EditableMessageTransport.messageId` |
| `request`, `chat` | the HTTP requests open, and the bot's messages as Telegram shows them |
| `text`, `ending` | what the caller handed over, and how it ended the preview |
| `lost` | history: messages posted whose answer never came |

JavaScript runs a callback to its end, so an action is a callback, microtasks of the write's end included
(`startWrite`'s continuation, its `finally` and the `schedule()` in it). Between callbacks anything may come: an update,
the timer, `finalize`, an answer. A request first takes effect at Telegram (`Arrive`) and is answered later, or fails
before or after its effect. Texts only grow, hence are their versions; the failure notice is newer than all of them.
The clock appears only in "due now or not", which `Schedule` leaves open; that covers the interval, the congestion
cooldown and a slow request. A failed request is over for Telegram as well: an edit that arrives after the Worker gave up on it is left out.
The caller obeys the rules of `SerializedPublisher` (texts grow, none after the end, at most one end by `commit`);
`GroupPreview` shows that it does. A failed `commit` may be followed by `fail`, as the error path of `finalize` provides for.

### ProgressiveSession

`ProgressiveSummarySession` with its `ProgressiveScheduler` and `SerializedPublisher`. The caller (`evaluateSummaryWindow`, then the
processor) awaits each method, so at most one is open: it awaits the drain (`awaiting`) or a call of the transport (`call`). A
snapshot is its length. The drain is the snapshot it is awaiting (`updating`); `UpdateRejected` contains the `finally` that starts a
rejected drain again, and the way its error takes to the method that awaits it. `append` either flushes or arms the timer,
whatever the cadence says. The transport answers or fails as it likes, which is `PrivateDraftTransport` and every other.
An empty text is stored nowhere and so never committed, which is a guard of `Commit`.

### GroupPreview

`Session` is an INSTANCE of `ProgressiveSession` over the state of `ConflatingWriter`, which the module extends; the writer's `text` is the
publisher's `published`. `update` of the transport succeeds when the writer takes the text; `commit` and `fail` start `finalize` and return
with it. What one module assumes of the other is checked here (`GroupInv`): the publisher never calls a closed or finalizing writer, so a
preview in a group cannot make `finalize()` of the session fail, and the message whose id becomes the receipt shows the whole summary.

### SummaryWindow and WindowScan

`SummaryWindow` says as sets which messages a command is about: eligible messages by mode, the limit as "the newest so many", reply parents
as context, coverage and consumption. A message is its id; date, parent and blankness are constants, so a chat's ids need not follow its clock.
`WindowScan` is the code: one state per iteration of each of its loops, the pass over the stored messages (`ordinal`), `heapifySelection` and
`siftDownSelection` on the first overflow and at every replacement (`root`, `index`; nodes are numbered from 1), the merge (`contextIndex`,
`eligibleIndex`). `ScanInv` compares the result with the sets and keeps the heap's meaning in between. `Order.InOrder` stands for `Array.sort` and `ORDER BY`.
`Histories` are orders in which the store may return messages: the loops depend on the order, the result must not. (chatId, messageId) is
a key, so the ordinals that break ties never decide and are left out; evidence of `window/analysis.ts` goes into prompts only.

### AttemptLedger and ConsumptionContract

The commands of one chat with all their attempts: messages and commands become known at any time, an attempt reads messages and boundary in
two reads in either order (`Promise.all`), selects with the operators of `SummaryWindow`, may find a row to reuse, and records row,
snapshots and catalog in one transaction behind the fence. A lease may lapse under a worker, which then goes on beside its successor.
Of the lifecycle store the module assumes what `RunLifecycle_proofs` proves: one run of a chat computes at a time, none before an earlier known one.
`late` remembers commands that became known behind a claimed later one; no statement about the boundary holds with them, and
the documentation says so too (mental-model.md, Checkpoint semantics), hence the premise `Orderly`.

`ConsumptionContract` is what a chat is promised of catch-up: each takes messages none took before, from above the boundary, and moves it to the
last of them. `ConsumptionSpec` is the refinement, checked and proved. The contract does not say that nothing is left out: `NothingPassedOver` does.

### Evaluation and ProcessingAttempt

`Evaluation` EXTENDS `ProgressiveSession` and drives it the way `evaluateSummaryWindow` does: the classifier, asked twice at most, its predicates and
decision; the summary, streamed in chunks that need not end where lines end, or asked for whole; the journal of the calls. A response is
what the parser makes of it: usable, empty, invalid, cut for length, an error inside a body, a body that ends early.
`calls` is the history of what really became of each call, against which the journal is judged (`EvidenceIsTrue`).

`ProcessingAttempt` EXTENDS it with the rest of `processRun`: lookup of an accepted outcome, the record and its fence, the heartbeat and the
renewals it chains, presenting, storing, the claim of the delivery, commit of the preview or a plain message, and all `catch` and `finally`
blocks with the class `failure-policy.ts` gives an error. The lease is one bit here (`owner`), lost at any moment; what others do with the run is in
`SummaryPipeline`. `progressive` is free: the processor always passes a session, but the workflow also runs without one
(`research/bench-workers-local.ts` and its tests), and both branches of the code are modelled.

| Variable | Code |
|---|---|
| `pc`, `action`, `stream`, `journal`, `calls`, `error` | `evaluateSummaryWindow`, the classifier, the buffer of `stream.ts` and the client, `SummaryExecutionJournal`, what was thrown |
| `phase`, `value`, `verdict` | where `processRun` is, what the operation under the heartbeat returned, the disposition |
| `heart` | `renewal`, `leaseLost` and the timer of `withProcessingLeaseHeartbeat` |
| `record`, `stored`, `delivered` | the attempt's row, the text of the run, what a plain message did |

### TelegramUpdates

An update is a record of the fields the decoder looks at; a text is what the adapters tell apart (a slash, white space, a command with its
target and its argument). `HandleTelegramWebhook` is a call of the webhook up to its first database call, with decoder and adapters in the code's order;
`AcceptSummaryCommand` and `PersistTelegramMessage` are the writes, `StorageFails` an exception before one. An answer may be lost after either,
so that Telegram delivers again, and handlers of one update or of several overlap. `UpdatesLandOnce` states what members meant in terms of the updates alone (its own operators say what "orders a summary" is),
not by the code's conditions.

### The Mini App

| Module | Code | State | Left to the environment |
|---|---|---|---|
| `Navigation` | `shared/navigation`, the card transitions of `routes/chat.tsx` | session history, router index and offsets, page in the DOM, every transition with its stage, marks, a card's height and its frame | the browser's callbacks, in any order the View Transition API allows; clicks, Back, Forward, reload; the events of a height's CSS transition, which may not come |
| `SummaryHistory` | keyset query of `bootstrap.ts`, `worker.ts`, `edge-cache.ts`, `session-cache.ts`, the list of `routes/chat.tsx` | rows, both caches, puts under way, requests, the component | expiry at any moment (every TTL), failing requests, new summaries |
| `ChatPool` | `mapConcurrent` and `chat-access.ts` | shared index, what each worker awaits, results | the order of answers |
| `ContextMenu` | `create-context-menu.ts`, `popover-content.tsx` | the controller's signals, listeners, timers and frames; the native popover | refused native calls, toggle events, light dismissal |
| `SourceList` | `AnimatedSourceList.tsx`, `source-window.ts` | reported and drawn visibility, motion timers, gradients, measured height, frames | observers, scrolling, resizing, unmounting; changes that nothing reports |
| `Placement` | `point-position.ts`, `popover-position.ts` | what is placed | all sizes and points |

Effects of Solid run before the next event and belong to the handler's step. Known limits of the code, written into the
properties as exceptions where they bite and visible in runs without them:

- a card's transition that starts between a navigation and its update cancels it (`view-transition.ts:20`), so the page that was left
  stays (`RouteCutShort`); `docs/wma-visual-direction.md:11` asks for a return to the list without relying on the browser's history;
- a list that was replaced while a page of an older cursor was under way may have a gap (`crossed`; `chat.tsx:88-95`);
- bounds of a menu may be those of a panel that is elsewhere by now (`late`): it was moved while its popover
  was still being shown, that is, before its toggle event or the retry of a refused call, or was refused again before it was measured;
- a card's pinned height is released by `transitionend` or `transitioncancel` only (`chat.tsx:264`). Without `startViewTransition` the old height is set in the click and the new one
  in the next frame with no style computed in between, so no CSS transition starts and no event comes: the height stays pinned until the reader
  goes to the other screen of the card or leaves the page. `PinnedIsShown` says what holds nevertheless: what stays is the height of the screen on view,
  as it was measured when the screen was opened (content that loads later is not in the model);
- the list of sources is told neither of a changed `scrollHeight` in a box that keeps its size (`AnimatedSourceList.tsx:45`) nor of a scrolled page,
  which moves the top of its window (`source-window.ts:54`): such a change is drawn with the next reported one (`unreported` in `SourceList`);
- the chat page keeps the chat it was opened with while it is mounted, so that from chat B, home and chat A within one transition lead
  back to B's content: the model compares paths, as the router does, not chats.

`MCPresentation` composes these modules and `GroupPreview`: they share no state, so `part` chooses the one that moves while the
others rest, and one run serves them all. `MCWindowScan` does the same for `WindowScan` and `TelegramUpdates`.

## 4. Runs

| Run | Question | Instance |
|---|---|---|
| `lifecycle` | Do the statements of the store, called in any order with any token, keep the inductive invariant (checks of the table, one run of a chat in processing, in order) and implement `SummaryContract`? | two commands of one chat, four claims each |
| `one_run` | Do consumers, cron and faults together leave one outcome, reuse it, let nobody write over a lease of another, stay within all budgets, complete only what was sent, and acknowledge no job early? | one command, two workers, one cron, both budgets 2, two faults; 1.6 million states |
| `two_runs` | Are commands of a chat computed in order, and does the invariant of the proofs hold? | two commands, two workers, one fault |
| `liveness` | Does a command end, and does its job leave the queue, through a fault? | one command, two workers, one cron, one fault |
| `chat_liveness` | Do commands of a chat that block each other all end? | two commands, one worker, one cron |
| `ledger` | Is what an attempt records computed from the boundary that still holds, is nothing taken twice or passed over, does the boundary never go back, and is that `ConsumptionContract`? | two messages; two catch-ups with one lapse, or a count and a catch-up with none; two attempts each; 0.7 million states |
| `attempt` | Through every failure of model, database, Telegram and lease store: is what is recorded true, do chat and ledger agree, is no result used without its lease, is what can be retried retried, and does the attempt end and leave nothing behind? | a text of length two, two chunks of two lines, two renewals; 0.4 million states |
| `history` | Do updates of every form land once, and do the loops build the window defined by sets? | about 1,300 updates alone, and pairs, each delivered twice; six messages in every order of five subsets, six commands of all modes, windows of four; 0.3 million states |
| `presentation` | Does the preview keep the newest text and the whole summary, is the page that of the address, does a card keep no height of the other screen, is the paged list whole, every chat asked once, menu and popover in agreement, the list of sources as reported, every surface on the screen? | below; 0.2 million states |
| `cron_race` | (violated) A pass that lost the race prepares no second job | two cron passes |
| `send_budget` | (violated) A claim above the delivery budget sends nothing | two workers, one fault |
| `today` | (violated) A command for today selects messages of today | as `history` |


**Bounds.** *Pipeline.* Budgets are 1 or 2 instead of 4: a budget of 2 has a first and a last attempt,
and one above it; `one_run` has 2 for both, and `SecondFaultSpares` leaves a run with two faults one claim in one of the two stages. `MaxClaims` only keeps tokens finite; in the pipeline the budgets and the faults bound the claims:
`ClaimBudget` states that bound, the instances set `MaxClaims` above it, so it removes no behaviour.
`MaxFaults` counts faults of every kind together; with one command two are needed, and enough, for a takeover
followed by a lost answer. The runs with two commands have one fault or none: what they are about, the order
of the commands, is already disturbed by an ordinary retry. `MaxJobs` stops the cron from adding jobs to a run that has some: the duplicates
the properties are about come from faults and from
overlapping steps, and one duplicate per run suffices for two workers to hold the same run.
`two_runs` has no cron pass (its interleaving with two commands is in `chat_liveness`); a retry
or an expired lease of the earlier command is claimed from its row directly.

*Ledger and window.* A window of one message makes a catch-up leave a rest for the next; a reply to an older message makes context; the
first message is a day old for the last command. A second attempt and one lapse suffice for an old worker beside its successor. `MCWindowScan` has
a tie, a date before that of a smaller id, a blank message, three days, and a heap with two levels and a root with two children.

*Updates.* An update alone is varied in what it says, and for each text in one further field; an original with its edit, and two updates in one
chat, are handled at once. Two deliveries are a first and a repeated one; the proof has no bound.

*Attempt.* A session holds at most a text in flight, a desired one and a longer one. Two chunks of two lines suffice for
a line split over chunks, an event after the last one and a body that ends early; a second renewal queues behind a first.

*Presentation.* A version of the text can be pending, another in flight, a third written and a fourth in the caller's hands, and a second lost answer lets a
further message appear (`MaxText` 5, `MaxLost` 2). Three entries allow going back by two; three runs of a transition, one that cancels and is
cancelled. Four summaries in pages of two, two of one millisecond, make a second page whose cursor lies on a tie; two visits reuse the session cache.
The chat has three summaries at first, or four, so that one may be recorded while pages are read. Five chats and three workers take a second round. The reader starts on the list
of chats; `Reload` starts again wherever he is. The items of the list of sources and the lengths of its window are parts of their own.
The menu has no bound but the refused native calls: one leads to the retry, a second may be one of the retry itself, with the bounds
measured from a panel that never opened. One alone would leave that case out; the proof has no bound.

Workers are symmetric where no liveness is checked. Deadlock checking is off: when all commands have ended
and the queue is empty the system rests, as an attempt that is over and a reader who does nothing do.

**Fairness.** *Pipeline:* Telegram repeats an update until it is answered (weak fairness
of the webhook). The queue delivers every message in time whatever else it holds: strong
fairness of `Take` per run, because the only worker may be busy again and again. An invocation that is not lost
proceeds (weak). The cron trigger fires every five minutes; strong fairness of `CronScan` because the bound
`MaxJobs`, not the code, disables it while a job waits. Time passes (weak), except that a lease lapsing under a live holder
is a fault and no fault is ever owed. Nothing is assumed of Telegram or the model: they may fail for ever,
the budgets end the run. *Attempt:* the attempt proceeds and whatever it calls answers or rejects, in whatever way; no success is owed.
*Preview:* timers fire, callbacks that are due run, and every request ends in some way
(`fetch` answers or throws); neither the model, nor the processor, nor a success of Telegram is owed. *Mini App:* the browser calls the update
of every transition it was given and settles `finished`, it draws the menu's frames and reports toggles; the reader owes nothing, and nobody owes the event that would release a card's height. In `MCPresentation` no fair action is enabled in a part at rest, so the
fairness of the parts can be stated side by side.

**Violated properties.** Each is a statement of a comment or a document that the code does not
keep (details with quotations in `PROJECT.json`, `findings`):

- `PreparesOnlyStaleRuns`: `touch` compares the status only and does not change it, so two passes with the same
  snapshot both "win" and each publishes a job. The consequence is a duplicate job, which the
  claims absorb.
- `NoSendAboveBudget`: the commit of a streamed text does not look at the delivery attempt.
  `DeliveryBudget` shows that the excess is one message.
- `TodayStartsAtMidnight`: the start of the day is computed but compared for catch-up only, so `/summary today` takes the newest messages of any day.

One more divergence follows from reading: between scan and requeue a run may have been claimed, failed
and put back in `retry_wait` with a new deadline; `transition` compares the status only (`lifecycle/worker.ts:327`) and the requeue skips the
backoff of `mental-model.md:307`. The model contains it; the claims bound its effect.

Each passing property has a mutant in `PROJECT.json`: a change of a mapped definition, of the kind a
bug would make, under which TLC finds the property violated. Operators whose comment starts with "Mutant" exist
only for this purpose and are used by no specification.


## 5. Proofs

`RunLifecycle_proofs` proves, from `RunsAssumption` alone (message ids of a chat differ;
`MaxClaims` is a natural number), for any set of runs, chats and any bound on claims:

- `TypeCorrect`, `LifecycleInvariant`, and from it `TableChecks`, `NoRecomputation`,
  `MutualExclusion`, `InOrder`;
- `Finality` and `Fencing`, action properties;
- `Refinement`: `LifecycleSpec => ContractSpec`.

*The inductive invariant* is `LifecycleInv`. The CHECK constraints are not inductive alone: `transition(retry_wait, queued)`
keeps the retry stage, so one must know that a row with a text never has the processing stage
(`SummaryClosesProcessing`), and conversely. `MarkQueued` needs that a created row has no deadline and
no stage, hence the conjunct on `nextRetryAt`. `NoOvertaking` needs that a
row that does not exist is empty (`NoRow`), and that a run with a text never returns to an earlier status.
`TokenIssued` (a row's token is that of one of its claims) makes a new claim's token fresh, which `Fencing` and the pipeline proof use.
The proof classifies first: a step changes one row (`OneRowAtATime`); only a claim makes a row processing
(`OnlyClaimsCompute`); rows appear only by creation (`AppearsByCreate`). Each conjunct is then disturbed by one or two actions.

`SummaryPipeline_proofs` proves, from `RunsAssumption` and `BudgetsAssumption`, for any set of
commands, workers and cron passes and any number of faults and jobs:

- `PipelineInvariant`, `PipelineTypeCorrect`;
- `PipelineRefines` (`PipelineSpec => LifecycleSpec`) and, with `Refinement`, `PipelineContract`: the
  webhook, the processors and the cron call the store only as `RunLifecycle` lets them, so every theorem about the
  store is one about the pipeline;
- `OneOutcome`, `TextAfterOutcome`, `OwnerReuses`, `CompletedIsDelivered`, `AcknowledgedIsSettled`, `IndexIdle`,
  and the action properties `ChatOrder` and `HolderWrites` (`OnlyTheHolderWrites`);
- `BudgetsKept` (`Budgets`).

*The inductive invariant* is `PipelineInv`. A paused invocation acts on what it learned before the pause,
so `WorkerInv` says what stays true of it: the run exists, the token is one that was handed out, a ledger outcome
seen is still there, the text is stored before `send`, Telegram accepted it before `complete`, the run is
finished before `done`. Two facts carry the ledger: tokens of two invocations of a run differ
(a claim's token is fresh by `TokenIssued`), and a holder that computes has no outcome to reuse
(`LiveOwnerReusesOutcome`). Together they make the fence of recordAttempt enough: whoever passes it holds the only
claim that is alive, and looked into the ledger under that claim. `RunInv` keeps row, ledger, queue and chat
in agreement, and rows of a chat in order, from which `late = {}`, hence `NoOvertaking` without exception, hence
`IndexIdle` and `ChatOrder`.

*The argument.* `Advances` says what no statement ever takes back: claims, a stored text, an ending, and that nobody
but a claim makes a token own a row. `Effect` is what a worker's step owes the rest, shown once per step
(`FailEffect`, `ClaimReadyEffect`, `GenerateEffect`, ...); `SystemMoves` is the same for webhook, cron and time. The
invariant then follows from these two alone (`WorkerKeeps`, `SystemKeeps`, `TakeKeeps`, `CreateKeeps`).

*Fencing.* `HolderWrites` follows from `PipelineInv` without a strengthening: webhook, cron and clock issue no statement that touches a valid lease (`SystemKeepsToken`, `CronKeepsToken`), a claim
needs one that has passed, and every other statement of a worker compares its token (`WriterHolds`, `CommitterHolds`).

*Budgets.* `Budgets` speaks of counters that several invocations move, so its inductive form, `BudgetInv`, accounts for what is under way:
of the claims of a run, those that computed, those that still may (`Computations`), and the messages sent by holders, by invocations
whose lease has passed to another, and by the commit of a stream (`Messages`). `SpentInv` says what a run looks like whose budget is used up, which
is what refuses the claim above it; `StreamInv` confines the commit above the delivery budget to one. `Duplicates` bounds the
copies by the faults: a sender that lost its lease cost one before its message reached the chat. The counts are cardinalities of sets of workers, of which a step adds or removes one.

`ConflatingWriter_proofs` proves, from `BoundsAssumption`, for any number of texts and lost answers: `WriterInvariant` and, as parts of it or
consequences, `WriterTypeCorrect`, `NoLostWakeUp` (`PendingIsPromised`), `Barrier` (`FinalStands`), `SerialWrites` (`OneWriteAtATime`),
`SingleArtifact` (`OneArtifact`); and the action property `Monotone` (`NeverOlder`).

*The inductive invariant* is `WriterInv`. `Requests` ties each HTTP request to the write it belongs to and to the message it will change;
`Phases` says which fields exclude each other: a final write only starts when none is in flight, and once the preview has ended nothing is
pending and no timer is armed, so that nothing can start a preview write while `finalize` is suspended. `Ages` orders
all that carries a text: what is shown is not newer than what is in flight, that not newer than what the caller gave, and that
not newer than the final text. From these, an arriving request never brings an older text (`Monotone`), and an answered
final write leaves its own text in the chat (`Barrier`).

`ProgressiveSession_proofs` proves `SessionSafe` (`SessionInv`) for any text and any transport. The invariant of the run was not inductive: `Commit`
needs to know that a finalizing session has handed over all it was given, which in turn needs to know, of each state, which method
may be awaiting what and where the drain can be. Those conjuncts now belong to `SessionInv` itself, so the run checks them too.

`ProcessingAttempt_proofs` proves for any limits on text, lines and renewals: `AttemptSafe` (`AttemptInv`), `AttemptImplementsSession`, and from them
`EvidenceSafe`, `ChatAgreesSafe`, `ResultUnderLeaseSafe`, `OverIsQuietSafe`, `RetryableSafe`.
*The refinement comes first*: each step of an attempt is a step of the session or leaves it alone, so `SessionInv` holds without another look at the session's actions.
*The inductive invariant* then says what the rest knows at each point of the code: which invocations the journal may be waiting for (`JournalFollows`), who awaits the session
(`CallerAwaits`) and in which state it must be there (`SessionAt`), what the operation under the heartbeat can have returned (`Results`), which errors can be
on their way to `handle` (`Errors`), what the chat was told (`Told`), what the renewals owe (`Renewals`), and that a failure of the model that can be retried keeps its class on its way
to the disposition (`Transient`), except where the code lets a failed notice or a lost lease take its place.

`AttemptLedger_proofs` proves, from `WindowAssumption` and `LedgerAssumption` (finitely many messages, distinct commands), for any chat, any
order of dates, any number of commands, attempts and lapses: `LedgerInvariant`, `ConsumedOnceAlways`, `OneOutcomeAlways`,
`CatalogCountsAlways`, `NothingPassedOverAlways`, `Monotone` (`BoundaryMonotone`) and `ConsumptionRefinement` (`ConsumptionSpec`).

*The inductive invariant* is `LedgerInv`. A worker computes for minutes from two reads; what makes its record right is that nobody else
moved the boundary meanwhile. `OwnerIsCurrent` says so of the worker that holds the run: the boundary it read is the boundary. It is inductive because only one run
of the chat computes at a time (`OneAtATime`), only a holder records (the fence), and claims go in order (`ClaimsInOrder`); `SavesWhatItSelected` carries the selection
to the row. Then its row becomes the newest of all that move the boundary, and everything consumed lies at or below that (`CoveredByBoundary`), from which `ConsumedOnce` and the refinement follow.
`Last` and `Newer` are shown to be total orders first (`BeforeOrder`, `NewerOrder`); that a nonempty set of messages has a last one rests on
the well-foundedness of the naturals. `CatalogCounts` is inductive because a recorded row is a new one (`RecordedOnce`), so that the catalog grows by what the set of rows does.
`NothingPassedOver` needs `Histories`: whatever a worker or a row says it saw was in the history. A catch-up takes a prefix, in time, of what it might take (`EarliestIsPrefix`), and
times follow ids, so what it leaves at or below its last message is blank, a day old, or was not there when it looked (`WindowLeavesNothing`); what lies below the boundary it read is excused by earlier rows.

`History_proofs` proves, of what is stored and what is read from the store:

- `UpdatesLand` (`UpdatesLandOnce`), for any set of updates in which ids are used as Telegram uses them (`BatchesAreSent`), any number of
  deliveries and any failures. The invariant says of each row, run and launcher that some update said it through the adapter that wrote it; that the
  adapters exclude each other (`OneAdapter`), and that they mean what members meant, is shown of the operators.
- `ScanSafe` (`ScanInv`), from `WindowAssumption` and `ScanAssumption` (a history lists each message once), for any history in any order,
  any limit and any command. *The inductive invariant* is `WindowInv`. `Kept` says what the array is: candidates only, no more than the limit,
  all of them below it, and whatever was given up is to be given up before all that is kept; the limit's worth that leads in a strict order is
  one set (`FirstKept`), hence `BestSoFar`. That the right one is given up needs the heap: `Sifted` says that, while a node sinks, all nodes from `root` on
  are heaps but for `index` (`HeapBut`), and that the children of `index` do not precede its parent either, since what rose to
  the parent was their parent before. A root that no child precedes is preceded by nobody (`RootIsBoundary`, by a least counterexample).
  `Merging` says that what is merged lies before what is not.
- `ListSafe` (`ListStaysWhole`), from `PagingAssumption`, for any catalog, page size and number of visits, with every cache entry living as long as it likes.
  *The inductive invariant* is `PagingInv`. `PagesKept` says why pages of different times fit together: a page is a gapless stretch right behind its cursor,
  and remains one, for rows are added above all others only (`Answers`, `AnswersStay`). `MoreAsked` says that at most one further page is under way, and that its cursor
  ends the list unless the list was replaced meanwhile. A stretch and the page behind its end make a stretch (`ListExtends`).
- *Order*, for both: in a strict order of a finite set, ranks grow with the order and every rank is taken (`RanksGrow`, `RanksFill`), so
  picking by rank yields each element once, in order (`RanksSort`).

`Presentation_proofs` proves, of what readers have in front of them:

- `GroupSafe` (`GroupInv`) and `GroupImplements` (`WriterSpec` and `SessionSpec`), for any texts and lost answers. `Session` is mapped onto
  `ProgressiveSession_proofs`, so `WriterInv` and `SessionInv` come from their own modules. What is new is `Coupled`: the writer is ended by the session's last call, once, with
  the whole text, and that call returns what became of it.
- `NavigationSafe` (`NavigationInv`) and `OldPagesStayOut` (`NeverAnOldPage`), for histories of any length and any number of transitions. A click cuts
  the history off behind the *rendered* index, which may not be where the browser is. `RenderedInv` says why that keeps the offsets with their entries: the page is that of the rendered
  entry, and a rendered entry whose path is the location's is the location's. `TransitionsInv` says that only the newest transition may still run its
  callback, and that one which is capturing a route captures it for the address shown; hence no old page enters the DOM.
- `PinnedHeightSafe` (`PinnedIsShown`), for the same. *The inductive invariant* is `CardInv`: while the card's own transition waits for its update no height is pinned, and once updated the card
  shows what that transition was for; every other run of a transition takes `active` away from it, so that its `ready` pins nothing.
- `MenuSafe` (`MenuInv`), for any number of refused calls. What fails must come again: `Owed` says that where popover and controller, or panel and point, disagree,
  a toggle event, a retry or a placing is due; `Approaches`, that a panel nobody disturbed is on its way to its point until it is measured. A first attempt failed for a
  reason: with two refusals, bounds may be measured from a panel that never opened, or one placed while it was still closed. `late` now records both, and the run has two refusals.
- `PoolSafe` (`PoolCovers`), for any catalog and any number of workers: a chat below the shared index was asked once, one above it never, a worker returns only when the index is past the end.
- `SourceSafe` (`SourcesSettle`), for any set of items and any lengths: visibility drawn is visibility reported or due (`ItemsInv`), insets cached are the page's or due (`MeasuresInv`),
  after unmounting nothing is due (`UnmountedInv`).
- `PlacementIsInside` (`PlacedInside`), for all integers: point, block and inline placement keep a surface that fits inside the
  viewport and its margins. `maxHeight` has no part in it: `context-menu.css:11` overrides the custom property that carries it.

*Proved but no property of a run:* `TableChecks`, `InOrder`, `MutualExclusion`, `NoRecomputation`, `Finality`, `Fencing`, `CatalogCountsAlways`, `IndexIdle`, `TextAfterOutcome`, `AttemptImplementsSession`, and the parts of
`WriterInv`, `LedgerInv` and `AttemptInv` named above. The runs check the invariant that contains or implies most of them; `Finality`, `Fencing` and `CatalogCountsAlways` stand on their proofs alone.

*Only model-checked:* everything that rests on fairness (`EveryRunSettles`, `QueueDrains`, `AttemptEnds`, `WriterProgress`, `NavigationSettles`,
`PopoverFollows`), which is out of the prover's reach, and the mutants.

## 6. Not modelled

- *Summary feedback:* no running code calls the repository, only a test does.
- *Observability, scripts, migrations:* telemetry influences no durable state; scripts are run by hand, migrations once.
- *Data:* prompts, transcripts, schemas, formatting of messages, encryption, hashes, URLs and headers. Texts are versions, lengths or classes.
- *Mini App:* rendering, styles, fixtures and demo routes keep no state over events; the verification of init data and of the webhook's secret
  decides whether a request is served at all and is left out.
- *Object-local guards of the workflow:* `serializeByChat` and the streak of deferrals live in a workflow object that the processor makes anew for each
  attempt, so they never see a second command.
- *PostgreSQL below the statement:* a statement or transaction is one step; see `RunLifecycle` for what that assumes.
