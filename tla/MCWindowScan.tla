---------------------------- MODULE MCWindowScan ----------------------------
(***************************************************************************)
(* How messages get into the history of a chat, and how a window is taken  *)
(* out of one: `part' names what is at work, the other is at rest.         *)
(*                                                                         *)
(* Six messages, one of them blank, written over three days of five units; *)
(* two were sent at the same time and one carries a date before that of a  *)
(* smaller id.  Four of them fill a window, so that the heap has two       *)
(* levels below a root with two children.                                  *)
(***************************************************************************)
EXTENDS WindowScan, TelegramUpdates

VARIABLE part

LOCAL SE == INSTANCE SequencesExt

MCMessages == 1..6
MCSent == <<1, 6, 9, 9, 8, 11>>
MCParent == <<Null, 1, Null, 2, 3, 1>>
MCBlank == {2}
MCHistories == UNION {SE!SetToSeqs(S) : S \in
                        {{}, {3}, {1, 2, 4}, {1, 3, 4, 5, 6}, MCMessages}}
MCCommands ==
    {[id |-> 6, date |-> 11, mode |-> "recent", count |-> Null],
     [id |-> 7, date |-> 12, mode |-> "recent", count |-> Null],
     [id |-> 7, date |-> 13, mode |-> "today", count |-> Null],
     [id |-> 7, date |-> 12, mode |-> "count", count |-> 1],
     [id |-> 7, date |-> 12, mode |-> "count", count |-> 3],
     [id |-> 7, date |-> 12, mode |-> "count", count |-> Null]}
MCCheckpoints == {Null, 1, 3}

-----------------------------------------------------------------------------
\* Updates: one text, and all that differ from it in what they say, in where
\* and by whom it is said, or in one field; and pairs that are handled at once.

Plain == [slash |-> FALSE, blank |-> FALSE, name |-> "", target |-> "",
          args |-> [word |-> "", number |-> 0]]
Order(name, target, args) ==
    [Plain EXCEPT !.slash = TRUE, !.name = name, !.target = target, !.args = args]
Args == {[word |-> w, number |-> 0] : w \in {"", "today", "nonsense"}}
          \union {[word |-> "digits", number |-> n] : n \in {0, 1, 128, 129}}

Base == [kind |-> "message", updateId |-> 1, messageId |-> 5, date |-> 1,
         chatId |-> -1, chatType |-> "group", from |-> 7, senderChat |-> Absent,
         thread |-> Absent, ephemeral |-> Absent, replyTo |-> Absent, origin |-> Absent,
         text |-> Plain, caption |-> Absent, entity |-> "none"]

Says(u, words) ==
    [u EXCEPT !.text = words, !.entity = IF words.name = "" THEN "none" ELSE "start"]

AllWords ==
    {Plain, [Plain EXCEPT !.blank = TRUE], [Plain EXCEPT !.slash = TRUE]}
      \union {Order(n, t, a) : n \in {"app", "summary", "start"}, t \in {"", "us", "others"}, a \in Args}

Sayings == {Says(Base, words) : words \in AllWords}

MCUpdates ==
    UNION {{u,
            [u EXCEPT !.kind = "edited_message"],
            [u EXCEPT !.date = 0], [u EXCEPT !.updateId = -1], [u EXCEPT !.chatType = "unknown"],
            [u EXCEPT !.chatType = "channel"], [u EXCEPT !.chatType = "private", !.chatId = 7],
            [u EXCEPT !.messageId = 0], [u EXCEPT !.messageId = 0, !.ephemeral = 3],
            [u EXCEPT !.ephemeral = -1], [u EXCEPT !.thread = 0], [u EXCEPT !.thread = 2],
            [u EXCEPT !.from = Absent], [u EXCEPT !.senderChat = -1],
            [u EXCEPT !.origin = 0], [u EXCEPT !.origin = 8],
            [u EXCEPT !.replyTo = 0], [u EXCEPT !.replyTo = 4],
            [u EXCEPT !.caption = u.text, !.text = Absent, !.entity = "none"],
            [u EXCEPT !.entity = IF u.text.slash THEN @ ELSE "later"]} : u \in Sayings}

MCTogether ==
    {Says([Base EXCEPT !.messageId = id], words) :
        id \in {5, 6}, words \in {Plain, Order("summary", "", [word |-> "", number |-> 0])}}
MCBatches ==
    {{u} : u \in MCUpdates}
      \union {{u, Says([u EXCEPT !.kind = "edited_message"], Plain)} : u \in MCTogether}
      \union {{u, v} : u \in MCTogether, v \in {Says([Base EXCEPT !.messageId = 7, !.replyTo = 5], Plain),
                                            Says([Base EXCEPT !.messageId = 7],
                                                 Order("summary", "us", [word |-> "digits", number |-> 128]))}}

MCInit ==
    \/ /\ part = "updates"
       /\ UpdatesInit
       /\ all = <<>>
       /\ checkpoint = Null
       /\ command = [id |-> 7, date |-> 13, mode |-> "today", count |-> Null]
       /\ pc = "scan" /\ ordinal = 0 /\ heapified = FALSE /\ root = 0 /\ index = 0
       /\ selected = <<>> /\ context = <<>> /\ merged = <<>>
       /\ contextIndex = 0 /\ eligibleIndex = 0
    \/ /\ part = "window"
       /\ posted = {} /\ deliveries = [u \in {} |-> 0] /\ awaiting = deliveries
       /\ answered = {} /\ messages = {} /\ created = {} /\ launchers = {}
       /\ ScanInit

MCNext ==
    /\ UNCHANGED part
    /\ \/ part = "updates" /\ UpdatesNext /\ UNCHANGED scanVars
       \/ part = "window" /\ ScanNext /\ UNCHANGED updatesVars

MCSpec == MCInit /\ [][MCNext]_<<part, updatesVars, scanVars>>
=============================================================================
