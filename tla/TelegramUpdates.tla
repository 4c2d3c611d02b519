---------------------------- MODULE TelegramUpdates ----------------------------
(***************************************************************************)
(* What becomes of the updates Telegram delivers to the webhook            *)
(* (ingress/telegram-webhook-handler.ts): the decoder that all adapters    *)
(* share (telegram.message.ts, telegram.command.ts), the adapters of /app, *)
(* of /summary and of the history (commands/*.ts, telegram.message.chat.ts)*)
(* and what each writes.  The worker may fail at the database, and Telegram*)
(* delivers an update again, at any time, until it is answered.            *)
(*                                                                         *)
(* A text is represented by what the adapters tell apart, an id by a number*)
(* (0 is an origin that names nobody).  The queue and the life of a run    *)
(* after its creation are in SummaryPipeline.                              *)
(***************************************************************************)
EXTENDS Integers

CONSTANTS Absent,        \* a field that is missing or has another JSON type
          Batches,       \* sets of updates, each a behaviour's input
          MaxDeliveries  \* bound on the deliveries of one update

ASSUME MaxDeliveriesIsNat == MaxDeliveries \in Nat \ {0}

VARIABLES posted,        \* the updates of this behaviour
          deliveries,    \* update -> how often it was delivered
          awaiting,      \* update -> handlers of it that wait for the database
          answered,      \* updates Telegram knows to have been accepted
          messages,      \* rows of the message history
          created,       \* summary runs: the command each was created for
          launchers      \* /app messages Telegram was told to show

updatesVars == <<posted, deliveries, awaiting, answered, messages, created, launchers>>

MAX_REQUESTED_COUNT == 128

-----------------------------------------------------------------------------
(* telegram.message.ts: numbers out of range and missing ones are alike,   *)
(* but an optional number that is present has to be valid.                 *)

PositiveInteger(value) == value # Absent /\ value > 0
NonNegativeInteger(value) == value # Absent /\ value >= 0
Optional(value, valid) == value = Absent \/ valid

TelegramChatType(type) == type \in {"private", "group", "supergroup", "channel"}

(* findCommandEntity: only a command the text begins with.                 *)
CommandEntity(u) == u.text # Absent /\ u.entity = "start"

(* The origin of a forwarded message if it has an author, then the chat a  *)
(* message is sent on behalf of, then the sender, then the chat.           *)
MessageAuthor(u) ==
  IF PositiveInteger(u.origin) THEN u.origin
  ELSE IF u.senderChat # Absent THEN u.senderChat
  ELSE IF u.from # Absent THEN u.from
  ELSE u.chatId

(* parseTelegramMessageUpdate: an update of any other kind, and one that   *)
(* lacks what a message must have, is none.                                *)
IsMessage(u) ==
  /\ u.kind = "message"
  /\ NonNegativeInteger(u.updateId) /\ NonNegativeInteger(u.messageId) /\ PositiveInteger(u.date)
  /\ u.chatId # Absent /\ TelegramChatType(u.chatType)
  /\ Optional(u.thread, PositiveInteger(u.thread))
  /\ Optional(u.ephemeral, NonNegativeInteger(u.ephemeral))

(* matchesBotUsername: `us' and `others' stand for names of bots.          *)
ForUs(words) == words.target \in {"", "us"}

(* parseTelegramCommand: a command somebody forwards is not repeated.      *)
IsCommand(u, name) ==
  /\ IsMessage(u)
  /\ u.origin = Absent /\ CommandEntity(u)
  /\ ForUs(u.text) /\ u.text.name = name

-----------------------------------------------------------------------------
(* The adapters                                                            *)

(* parseAppCommandUpdate: in a group only a command that nobody else sees. *)
IsAppCommand(u) ==
  /\ IsCommand(u, "app")
  /\ u.text.args.word = "" /\ u.chatType # "channel" /\ PositiveInteger(u.from)
  /\ u.chatType = "private" \/ u.ephemeral # Absent

(* createAppLauncherMessage                                                *)
Launcher(u) == [chatId |-> u.chatId, to |-> IF u.ephemeral = Absent THEN Absent ELSE u.from]

(* parseSummaryArgs                                                        *)
SummaryArgs(args) ==
  \/ args.word \in {"", "today"}
  \/ args.word = "digits" /\ args.number \in 1 .. MAX_REQUESTED_COUNT

(* parseSummaryCommandUpdate                                               *)
IsSummaryCommand(u) ==
  IsCommand(u, "summary") /\ SummaryArgs(u.text.args) /\ PositiveInteger(u.messageId)

(* The command, with the key that its run is created under.                *)
SummaryCommandOf(u) ==
  [chatId |-> u.chatId, commandMessageId |-> u.messageId, thread |-> u.thread, date |-> u.date,
   mode |-> IF u.text.args.word = "" THEN "recent"
            ELSE IF u.text.args.word = "today" THEN "today" ELSE "count",
   count |-> IF u.text.args.word = "digits" THEN u.text.args.number ELSE Absent]

SpokenText(u) == IF u.text # Absent THEN u.text ELSE u.caption

(* Mutant: a command addressed to another bot is taken for a message.      *)
IsChatMessageUnlessOurs(u) ==
  /\ IsMessage(u) /\ PositiveInteger(u.messageId)
  /\ SpokenText(u) # Absent /\ ~SpokenText(u).blank
  /\ ~(CommandEntity(u) /\ ForUs(u.text))

(* parseTelegramChatMessageUpdate: neither commands nor whatever begins    *)
(* with a slash.  The webhook names no author of its own to leave out.     *)
IsChatMessage(u) ==
  /\ IsMessage(u) /\ PositiveInteger(u.messageId)
  /\ SpokenText(u) # Absent /\ ~SpokenText(u).blank
  /\ ~CommandEntity(u) /\ ~SpokenText(u).slash

ChatMessage(u) ==
  [chatId |-> u.chatId, id |-> u.messageId, author |-> MessageAuthor(u), time |-> u.date,
   parentId |-> IF PositiveInteger(u.replyTo) THEN u.replyTo ELSE Absent, text |-> SpokenText(u)]

-----------------------------------------------------------------------------
(* Telegram: a message has a text or a caption, a text that begins with a  *)
(* command is marked as one, and no two messages of a chat have one id; the*)
(* edits of a message come as updates of another kind.                     *)
SentByTelegram(u) ==
  /\ u.text = Absent \/ u.caption = Absent
  /\ u.text # Absent => /\ u.entity = "start" <=> u.text.slash /\ u.text.name # ""
                        /\ u.text.target \in {"", "us", "others"}

SameId(u, v) == u.chatId = v.chatId /\ u.messageId = v.messageId

ASSUME BatchesAreSent ==
  \A batch \in Batches :
     /\ \A u \in batch : SentByTelegram(u)
     /\ \A u, v \in batch :
           u.kind = "message" /\ v.kind = "message" /\ PositiveInteger(u.messageId) /\ SameId(u, v)
              => u = v

UpdatesInit ==
  /\ posted \in Batches
  /\ deliveries = [u \in posted |-> 0] /\ awaiting = deliveries
  /\ answered = {} /\ messages = {} /\ created = {} /\ launchers = {}

(* The answer may be lost on its way to Telegram.                          *)
Accepted(u) == answered' \in {answered, answered \cup {u}}

(* handleTelegramWebhook up to its first call: /app is answered with the   *)
(* launcher itself, and what is nothing to us is accepted as well.         *)
HandleTelegramWebhook(u) ==
  /\ u \notin answered /\ deliveries[u] < MaxDeliveries
  /\ deliveries' = [deliveries EXCEPT ![u] = @ + 1]
  /\ \/ /\ IsAppCommand(u)
        /\ Accepted(u)
        /\ launchers' = IF u \in answered' THEN launchers \cup {Launcher(u)} ELSE launchers
        /\ UNCHANGED awaiting
     \/ /\ ~IsAppCommand(u) /\ (IsSummaryCommand(u) \/ IsChatMessage(u))
        /\ awaiting' = [awaiting EXCEPT ![u] = @ + 1]
        /\ UNCHANGED <<answered, launchers>>
     \/ /\ ~IsAppCommand(u) /\ ~IsSummaryCommand(u) /\ ~IsChatMessage(u)
        /\ Accepted(u)
        /\ UNCHANGED <<awaiting, launchers>>
  /\ UNCHANGED <<posted, messages, created>>

SameMessage(row, u) == row.chatId = u.chatId /\ row.id = u.messageId
SameCommand(c, u) == c.chatId = u.chatId /\ c.commandMessageId = u.messageId

(* acceptSummaryCommand: a run that exists under the key is returned.      *)
AcceptSummaryCommand(u) ==
  /\ awaiting[u] > 0 /\ IsSummaryCommand(u)
  /\ awaiting' = [awaiting EXCEPT ![u] = @ - 1]
  /\ created' = IF \E c \in created : SameCommand(c, u)
                THEN created ELSE created \cup {SummaryCommandOf(u)}
  /\ Accepted(u)
  /\ UNCHANGED <<posted, deliveries, messages, launchers>>

(* persistTelegramMessage: the row of the message is written over, under a *)
(* lock of the chat that makes the write one step.                         *)
PersistTelegramMessage(u) ==
  /\ awaiting[u] > 0 /\ ~IsSummaryCommand(u)
  /\ awaiting' = [awaiting EXCEPT ![u] = @ - 1]
  /\ messages' = {row \in messages : ~SameMessage(row, u)} \cup {ChatMessage(u)}
  /\ Accepted(u)
  /\ UNCHANGED <<posted, deliveries, created, launchers>>

(* The worker throws before anything is committed; if it throws later, the *)
(* answer is lost.                                                         *)
StorageFails(u) ==
  /\ awaiting[u] > 0
  /\ awaiting' = [awaiting EXCEPT ![u] = @ - 1]
  /\ UNCHANGED <<posted, deliveries, answered, messages, created, launchers>>

UpdatesNext ==
  \E u \in posted :
     \/ HandleTelegramWebhook(u)
     \/ AcceptSummaryCommand(u) \/ PersistTelegramMessage(u) \/ StorageFails(u)

UpdatesSpec == UpdatesInit /\ [][UpdatesNext]_updatesVars

-----------------------------------------------------------------------------
(* What members meant, apart from how an update is decoded                 *)

SaysSomething(u) ==
  \E said \in {u.text, u.caption} \ {Absent} : ~said.blank /\ ~said.slash

Orders(u, name) ==
  u.origin = Absent /\ u.text # Absent /\ u.text.slash /\ u.text.name = name /\ u.text.target # "others"

OrdersSummary(u) == Orders(u, "summary")
OrdersApp(u) == Orders(u, "app")

(* However often an update is delivered, whatever is lost, and whichever   *)
(* updates are handled at the same time: the history holds what members    *)
(* said, with nothing that is a command to any bot and with one row for a  *)
(* message; a run stands for one command that somebody gave here himself,  *)
(* with a window that can be had; no message is both; a launcher is shown  *)
(* to nobody but the one who asked; and what was accepted is stored.       *)
UpdatesLandOnce ==
  /\ \A row \in messages :
        /\ \E u \in posted : row = ChatMessage(u) /\ SaysSomething(u)
        /\ \A other \in messages : other.chatId = row.chatId /\ other.id = row.id => other = row
        /\ \A c \in created : ~(c.chatId = row.chatId /\ c.commandMessageId = row.id)
  /\ \A c \in created :
        /\ \E u \in posted : c = SummaryCommandOf(u) /\ OrdersSummary(u)
        /\ c.mode = "count" => c.count \in 1 .. MAX_REQUESTED_COUNT
        /\ \A other \in created :
              other.chatId = c.chatId /\ other.commandMessageId = c.commandMessageId => other = c
  /\ \A l \in launchers : \E u \in posted :
        /\ OrdersApp(u) /\ u.chatId = l.chatId
        /\ u.chatType = "private" \/ l.to = u.from
  /\ \A u \in answered :
        IsMessage(u) /\ u.messageId > 0 =>
           /\ SaysSomething(u) => \E row \in messages : SameMessage(row, u)
           /\ OrdersSummary(u) /\ SummaryArgs(u.text.args) => \E c \in created : SameCommand(c, u)
=============================================================================
