----------------------------- MODULE Conversation -----------------------------
(***************************************************************************)
(* The messages of one chat in server-go's HistoryStore and everything     *)
(* that writes them: live messages and receipts (the whatsmeow event       *)
(* goroutine), history syncs and on-demand backfill (whatsmeow's history   *)
(* goroutine), and the /send handler. Every store method holds the mutex,  *)
(* so one call of it is one step; the handlers around it interleave.       *)
(*                                                                         *)
(* A message is its id, the time it is sorted by and its delivery status.  *)
(* Texts, media and reactions are merged like the status or not at all,    *)
(* and no property here tells them apart.                                  *)
(***************************************************************************)
EXTENDS Integers, Sequences, SequencesExt

CONSTANTS
    Ids,           \* the messages of the chat
    Own,           \* those sent by this account, from any of its devices
    Sent,          \* those of Own that the app sends through /send
    SentAt,        \* the time WhatsApp gives each message
    Skews,         \* how far the server's clock may be off in /send
    ReceiptTypes,  \* the receipt types that occur
    MaxMessages,   \* store.go's maxMessages
    PageSize       \* messages asked for by one backfill request

ASSUME MessagesAssumption ==
    /\ Sent \subseteq Own
    /\ Own \subseteq Ids
    /\ SentAt \in [Ids -> Int]
    /\ Skews \subseteq Int
ASSUME LimitsAssumption == MaxMessages \in Nat \ {0} /\ PageSize \in Nat \ {0}

Statuses == {"", "received", "sent", "delivered", "read"}
Message == [id : Ids, time : Int, status : Statuses]

VARIABLES
    msgs,      \* conversation.Messages
    sends,     \* progress of the /send request of each message in Sent
    asked,     \* anchors of the backfill requests the phone has not answered
    blob,      \* messages of the current history sync not applied yet
    heard,     \* history: the receipts onReceipt has processed, per message
    inserted   \* history: every id and time UpsertMessage has ever inserted

vars == <<msgs, sends, asked, blob, heard, inserted>>

Stored(id) == \E i \in DOMAIN msgs : msgs[i].id = id

Init ==
    /\ msgs = <<>>
    /\ sends = [id \in Sent |-> "idle"]
    /\ asked = {}
    /\ blob = {}
    /\ heard = [id \in Ids |-> {}]
    /\ inserted = {}

--------------------------------------------------------------------------------
(* HistoryStore.UpsertMessage and SetStatus *)

\* Mutant of Merge: a message without a status erases the one that is known.
MergeErases(old, new) == [old EXCEPT !.status = new.status]

\* The merge keeps the time of the first insertion.
Merge(old, new) ==
    [old EXCEPT !.status = IF new.status = "" THEN @ ELSE new.status]

\* Mutant of SortsTo: the message stays where append put it.
StaysLast(s, m, k) == k = Len(s) + 1

\* The stable sort moves an appended message to position k.
SortsTo(s, m, k) ==
    /\ \A i \in 1..k - 1 : s[i].time <= m.time
    /\ \A i \in k..Len(s) : m.time < s[i].time

\* Mutant of Newest: the cap is forgotten.
Uncapped(s) == s

Newest(s) ==
    IF Len(s) > MaxMessages THEN SubSeq(s, Len(s) - MaxMessages + 1, Len(s)) ELSE s

Update(m) ==
    /\ \E i \in DOMAIN msgs :
        /\ msgs[i].id = m.id
        /\ msgs' = [msgs EXCEPT ![i] = Merge(@, m)]
    /\ UNCHANGED inserted

Insert(m) ==
    /\ ~Stored(m.id)
    /\ \E k \in 1..Len(msgs) + 1 :
        /\ SortsTo(msgs, m, k)
        /\ msgs' = Newest(InsertAt(msgs, k, m))
    /\ inserted' = inserted \cup {[id |-> m.id, time |-> m.time]}

UpsertMessage(m) == Update(m) \/ Insert(m)

\* A status for a message that is not stored is dropped.
SetStatus(id, status) ==
    IF Stored(id)
    THEN \E i \in DOMAIN msgs :
            /\ msgs[i].id = id
            /\ msgs' = [msgs EXCEPT ![i].status = status]
    ELSE UNCHANGED msgs

--------------------------------------------------------------------------------
(* The handlers *)

\* onMessage, also for a message that whatsmeow delivers again.
LiveMessage(id) ==
    /\ id \in Ids \ Sent
    /\ UpsertMessage([id |-> id, time |-> SentAt[id],
                      status |-> IF id \in Own THEN "sent" ELSE "received"])
    /\ UNCHANGED <<sends, asked, blob, heard>>

\* The /send handler is in SendText, and the message is on its way.
SendText(id) ==
    /\ sends[id] = "idle"
    /\ sends' = [sends EXCEPT ![id] = "out"]
    /\ UNCHANGED <<msgs, asked, blob, heard, inserted>>

\* SendText has returned; /send records the message under the local clock.
RecordSent(id, skew) ==
    /\ sends[id] = "out"
    /\ UpsertMessage([id |-> id, time |-> SentAt[id] + skew, status |-> "sent"])
    /\ sends' = [sends EXCEPT ![id] = "recorded"]
    /\ UNCHANGED <<asked, blob, heard>>

\* SendText returned an error, for a message that went out nevertheless (the
\* app gave up, or the acknowledgement timed out): nothing is recorded.
SendAbandoned(id) ==
    /\ sends[id] = "out"
    /\ sends' = [sends EXCEPT ![id] = "abandoned"]
    /\ UNCHANGED <<msgs, asked, blob, heard, inserted>>

\* Mutant of ReceiptStatus: anything that is not a delivery counts as read.
ReceiptStatusOptimistic(type) == IF type = "delivered" THEN "delivered" ELSE "read"

ReceiptStatus(type) == IF type \in {"read", "read-self"} THEN "read" ELSE "delivered"

\* A receipt can only follow a message that is out.
Exists(id) == id \in Sent => sends[id] # "idle"

\* One iteration of onReceipt's loop over the message ids of a receipt.
Receipt(id, type) ==
    /\ Exists(id)
    /\ SetStatus(id, ReceiptStatus(type))
    /\ heard' = [heard EXCEPT ![id] = @ \cup {type}]
    /\ UNCHANGED <<sends, asked, blob, inserted>>

\* The phone pushes a history sync of its own accord.
HistorySync(ids) ==
    /\ blob = {}
    /\ ids # {}
    /\ \A id \in ids : Exists(id)
    /\ blob' = ids
    /\ UNCHANGED <<msgs, sends, asked, heard, inserted>>

\* onHistorySync applies one message of the blob.
SyncMessage(id) ==
    /\ id \in blob
    /\ UpsertMessage([id |-> id, time |-> SentAt[id],
                      status |-> IF id \in Own THEN "sent" ELSE ""])
    /\ blob' = blob \ {id}
    /\ UNCHANGED <<sends, asked, heard>>

\* Mutant of OldestMessage: the page is asked for before the newest message.
NewestMessage == msgs[Len(msgs)]

OldestMessage == msgs[1]

\* The anchor of the request is the oldest stored message.
RequestHistoryBackfill ==
    /\ msgs # <<>>
    /\ asked = {}
    /\ asked' = {OldestMessage.id}
    /\ UNCHANGED <<msgs, sends, blob, heard, inserted>>

\* What the phone holds before the anchor, and the page it sends of it.
Before(anchor) == {id \in Ids : SentAt[id] < SentAt[anchor] /\ Exists(id)}

IsPage(page, anchor) ==
    /\ page \subseteq Before(anchor)
    /\ \A id \in Before(anchor) \ page : \A p \in page : SentAt[id] <= SentAt[p]
    /\ IF PageSize < Cardinality(Before(anchor))
       THEN Cardinality(page) = PageSize
       ELSE page = Before(anchor)

\* The phone's answer arrives as a history sync like any other.
BackfillAnswer ==
    /\ blob = {}
    /\ \E anchor \in asked :
        /\ \E page \in SUBSET Before(anchor) : IsPage(page, anchor) /\ blob' = page
        /\ asked' = asked \ {anchor}
    /\ UNCHANGED <<msgs, sends, heard, inserted>>

Next ==
    \/ \E id \in Ids : LiveMessage(id)
    \/ \E id \in Sent : SendText(id)
    \/ \E id \in Sent, skew \in Skews : RecordSent(id, skew)
    \/ \E id \in Sent : SendAbandoned(id)
    \/ \E id \in Ids, type \in ReceiptTypes : Receipt(id, type)
    \/ \E ids \in SUBSET Ids : HistorySync(ids)
    \/ \E id \in Ids : SyncMessage(id)
    \/ RequestHistoryBackfill
    \/ BackfillAnswer

Spec == Init /\ [][Next]_vars

\* The user keeps scrolling up and the phone keeps answering, its answers taking
\* their turn among the history syncs that whatsmeow handles one by one; the
\* handlers never wait for anything but the store's mutex.
FairSpec ==
    /\ Spec
    /\ WF_vars(RequestHistoryBackfill)
    /\ SF_vars(BackfillAnswer)
    /\ WF_vars(\E id \in Ids : SyncMessage(id))

--------------------------------------------------------------------------------

\* Types, and the cap on the stored messages.
TypeOK ==
    /\ msgs \in Seq(Message)
    /\ Len(msgs) <= MaxMessages
    /\ sends \in [Sent -> {"idle", "out", "recorded", "abandoned"}]
    /\ asked \in SUBSET Ids
    /\ blob \in SUBSET Ids
    /\ heard \in [Ids -> SUBSET ReceiptTypes]
    /\ inserted \in SUBSET [id : Ids, time : Int]

\* The thread is in time order and holds no message twice, whatever the order
\* in which live traffic, /send and history syncs deliver its messages.
Chronological ==
    \A i, j \in DOMAIN msgs : i < j =>
        /\ msgs[i].time <= msgs[j].time
        /\ msgs[i].id # msgs[j].id

\* Trimming loses nothing but the oldest: a message that was inserted and is
\* not stored any more is no newer than anything that is, and the store is full.
NewestKept ==
    \A e \in inserted :
        \/ \E i \in DOMAIN msgs : msgs[i].id = e.id /\ e.time <= msgs[i].time
        \/ /\ Len(msgs) = MaxMessages
           /\ \A i \in DOMAIN msgs : e.time <= msgs[i].time

\* No message is shown as read before a read receipt for it was processed.
ReadMeansRead ==
    \A i \in DOMAIN msgs :
        msgs[i].status = "read" => heard[msgs[i].id] \cap {"read", "read-self"} # {}

\* Scrolling up ends at the beginning of the thread, wherever it starts: every
\* page asked for before the oldest stored message brings older ones.
Beginning == {id \in Ids : \A other \in Ids : SentAt[id] <= SentAt[other]}

WalkedBack ==
    \A id \in Ids : Stored(id) ~> \A first \in Beginning \ Sent : Stored(first)

\* The tick of an own message is never below what its receipts say.
Tick(status) == CASE status = "read" -> 3 [] status = "delivered" -> 2 [] OTHER -> 1

TicksShown ==
    \A i \in DOMAIN msgs : msgs[i].id \in Own =>
        \A type \in heard[msgs[i].id] : Tick(ReceiptStatus(type)) <= Tick(msgs[i].status)

Chat == INSTANCE Thread WITH held <- {msgs[i] : i \in DOMAIN msgs}

\* The slice with its merge, its stable sort and its cap implements the thread of
\* Thread: one message at a time comes in, only one of the oldest goes, only to
\* make room, and nothing but a status ever changes, never back to unknown.
KeepsThread == Chat!Spec

================================================================================
