------------------------------- MODULE ChatList --------------------------------
(***************************************************************************)
(* What the app's lists show of a contact beside the thread itself         *)
(* (Conversation): the unread badge between history syncs and POST /read,  *)
(* the reaction that POST /react leaves on a message, and the latest post  *)
(* in the Status tab. The writers are live events, history syncs, which    *)
(* whatsmeow hands over one by one, and requests that wait for the network *)
(* in between. A store method holds its mutex and is one step.             *)
(*                                                                         *)
(* A chat's messages are numbered in the order of their times; own         *)
(* messages, which have no part in the badge, are left out, and so is the  *)
(* link, which every request looks at first.                               *)
(***************************************************************************)
EXTENDS Integers, FiniteSets

CONSTANTS
    Contacts,   \* each with a chat and with status posts
    Requests,   \* POST /read and POST /react, used over again
    Emojis,     \* reactions
    ReadSize,   \* the messages POST /read looks at (50 in the code)
    ListLoads   \* bounds: messages, reactions and status posts per contact

NoEmoji == ""

ASSUME ListsAssumption ==
    /\ ReadSize \in Nat \ {0}
    /\ NoEmoji \notin Emojis
    /\ \A l \in ListLoads : l.messages \in Nat /\ l.reactions \in Nat /\ l.posts \in Nat

VARIABLES
    msgs,      \* the inbound messages of each chat
    unread,    \* conversation.Unread
    sync,      \* the conversation onHistorySync is at, and what is left of it
    request,   \* where each request is
    reaction,  \* the reaction stored with the message that is reacted to
    status,    \* the time of the post in HistoryStore.statuses, 0 for none
    posted,    \* how often each contact has posted
    lastLive,  \* the latest post delivered as a live message
    listLoad,  \* the bounds of this behaviour
    due,       \* history: the messages the latest badge stood for
    told,      \* history: the messages reported to WhatsApp as read
    slipped,   \* history: those that came too late for the list of a /read
    sent,      \* history: the reaction WhatsApp holds
    reacted,   \* history: how many reactions have been sent
    crossed,   \* history: two requests have reacted at the same time
    seen       \* history: the posts the store was told of

badge == <<msgs, unread, due, told, slipped>>
reacting == <<reaction, sent, reacted, crossed>>
tab == <<status, posted, lastLive, seen>>
listVars == <<badge, sync, request, reacting, tab, listLoad>>

Messages == 1..listLoad.messages
NoSync == [chat |-> "none", left |-> {}]
IdleRequest == [at |-> "idle"]

ListInit ==
    /\ listLoad \in ListLoads
    /\ msgs = [c \in Contacts |-> {}]
    /\ unread = [c \in Contacts |-> 0]
    /\ sync = NoSync
    /\ request = [r \in Requests |-> IdleRequest]
    /\ reaction = [c \in Contacts |-> NoEmoji]
    /\ status = unread /\ posted = unread /\ lastLive = unread
    /\ due = msgs /\ told = msgs /\ slipped = msgs
    /\ sent = reaction
    /\ reacted = 0
    /\ crossed = FALSE
    /\ seen = msgs

\* The n newest of a set of messages.
NewestOf(S, n) == {m \in S : Cardinality({o \in S : o > m}) < n}

--------------------------------------------------------------------------------
(* The badge *)

\* onMessage does not touch the badge.
ListMessage(c, m) ==
    /\ m \in Messages \ msgs[c]
    /\ msgs' = [msgs EXCEPT ![c] = @ \cup {m}]
    /\ UNCHANGED <<unread, due, told, slipped, sync, request, reacting, tab, listLoad>>

\* UpsertChatMeta for the next conversation of a sync; its messages follow. No
\* unread message is not news.
SyncChat(c, ids, count) ==
    /\ sync = NoSync
    /\ count <= Cardinality(ids)
    /\ unread' = IF count > 0 THEN [unread EXCEPT ![c] = count] ELSE unread
    /\ due' = IF count > 0 THEN [due EXCEPT ![c] = NewestOf(ids, count)] ELSE due
    /\ sync' = [chat |-> c, left |-> ids]
    /\ UNCHANGED <<msgs, told, slipped, request, reacting, tab, listLoad>>

\* Mutant of Reacted: a message that comes again loses its reaction.
ReactedAfresh(c) == NoEmoji

\* UpsertMessage leaves the reaction of a stored message alone.
Reacted(c) == reaction[c]

SyncListed(m) ==
    /\ m \in sync.left
    /\ msgs' = [msgs EXCEPT ![sync.chat] = @ \cup {m}]
    /\ reaction' = [reaction EXCEPT ![sync.chat] = Reacted(sync.chat)]
    /\ sync' = [sync EXCEPT !.left = @ \ {m}]
    /\ UNCHANGED <<unread, due, told, slipped, request, sent, reacted, crossed, tab,
                   listLoad>>

SyncDone ==
    /\ sync # NoSync
    /\ sync.left = {}
    /\ sync' = NoSync
    /\ UNCHANGED <<badge, request, reacting, tab, listLoad>>

\* POST /read makes its list of ids; with none there is nothing to tell.
ReadLists(r, c) ==
    /\ request[r].at = "idle"
    /\ LET ids == NewestOf(msgs[c], ReadSize)
       IN  request' = [request EXCEPT ![r] =
                [at |-> IF ids = {} THEN "clear" ELSE "tell", chat |-> c, ids |-> ids,
                 had |-> msgs[c]]]
    /\ UNCHANGED <<badge, sync, reacting, tab, listLoad>>

ReadTells(r) ==
    /\ request[r].at = "tell"
    /\ told' = [told EXCEPT ![request[r].chat] = @ \cup request[r].ids]
    /\ request' = [request EXCEPT ![r].at = "clear"]
    /\ UNCHANGED <<msgs, unread, due, slipped, sync, reacting, tab, listLoad>>

\* Mutant of AfterFailure: the error is logged, and the badge goes all the same.
ClearAnyway(r) == [request[r] EXCEPT !.at = "clear"]

AfterFailure(r) == IdleRequest

ReadFails(r) ==
    /\ request[r].at = "tell"
    /\ request' = [request EXCEPT ![r] = AfterFailure(r)]
    /\ UNCHANGED <<badge, sync, reacting, tab, listLoad>>

\* HistoryStore.MarkRead.
ReadClears(r) ==
    LET c == request[r].chat
    IN  /\ request[r].at = "clear"
        /\ unread' = [unread EXCEPT ![c] = 0]
        /\ slipped' = [slipped EXCEPT ![c] = @ \cup (due[c] \ request[r].had)]
        /\ request' = [request EXCEPT ![r] = IdleRequest]
        /\ UNCHANGED <<msgs, due, told, sync, reacting, tab, listLoad>>

--------------------------------------------------------------------------------
(* The reaction *)

\* POST /react is on its way to WhatsApp.
ReactSends(r, c, e) ==
    /\ request[r].at = "idle"
    /\ reacted < listLoad.reactions
    /\ reacted' = reacted + 1
    /\ crossed' = (crossed \/ \E o \in Requests : request[o].at \in {"react", "record"})
    /\ request' = [request EXCEPT ![r] = [at |-> "react", chat |-> c, emoji |-> e]]
    /\ UNCHANGED <<badge, sync, reaction, sent, tab, listLoad>>

\* WhatsApp takes it, or the request fails.
ReactTaken(r) ==
    /\ request[r].at = "react"
    /\ \/ /\ sent' = [sent EXCEPT ![request[r].chat] = request[r].emoji]
          /\ request' = [request EXCEPT ![r].at = "record"]
       \/ /\ request' = [request EXCEPT ![r] = IdleRequest]
          /\ UNCHANGED sent
    /\ UNCHANGED <<badge, sync, reaction, reacted, crossed, tab, listLoad>>

\* AddReaction: the empty one clears.
AddReaction(r) ==
    /\ request[r].at = "record"
    /\ reaction' = [reaction EXCEPT ![request[r].chat] = request[r].emoji]
    /\ request' = [request EXCEPT ![r] = IdleRequest]
    /\ UNCHANGED <<badge, sync, sent, reacted, crossed, tab, listLoad>>

--------------------------------------------------------------------------------
(* The Status tab *)

Post(c) ==
    /\ posted[c] < listLoad.posts
    /\ posted' = [posted EXCEPT ![c] = @ + 1]
    /\ UNCHANGED <<badge, sync, request, reacting, status, lastLive, seen, listLoad>>

Tell(c, p) == seen' = [seen EXCEPT ![c] = @ \cup {p}]

\* onMessage: AddStatus replaces what is there. The posts of a contact are
\* delivered in their order; some are not delivered at all.
LiveStatus(c, p) ==
    /\ p \in (lastLive[c] + 1)..posted[c]
    /\ lastLive' = [lastLive EXCEPT ![c] = p]
    /\ status' = [status EXCEPT ![c] = p]
    /\ Tell(c, p)
    /\ UNCHANGED <<badge, sync, request, reacting, posted, listLoad>>

\* Mutant of Newer: what a sync tells always replaces.
AnyStatus(c, p) == p

\* AddStatusIfNewer.
Newer(c, p) == IF p > status[c] THEN p ELSE status[c]

\* onHistorySync comes to a post of the status@broadcast conversation.
SyncStatus(c, p) ==
    /\ p \in 1..posted[c]
    /\ status' = [status EXCEPT ![c] = Newer(c, p)]
    /\ Tell(c, p)
    /\ UNCHANGED <<badge, sync, request, reacting, posted, lastLive, listLoad>>

--------------------------------------------------------------------------------

ListNext ==
    \/ \E c \in Contacts :
        \/ Post(c)
        \/ \E p \in 1..listLoad.posts : LiveStatus(c, p) \/ SyncStatus(c, p)
        \/ \E m \in Messages : ListMessage(c, m)
        \/ \E ids \in SUBSET Messages, count \in 0..listLoad.messages :
                SyncChat(c, ids, count)
        \/ \E r \in Requests :
            \/ ReadLists(r, c)
            \/ \E e \in Emojis \cup {NoEmoji} : ReactSends(r, c, e)
    \/ \E m \in Messages : SyncListed(m)
    \/ SyncDone
    \/ \E r \in Requests :
        \/ ReadTells(r) \/ ReadFails(r) \/ ReadClears(r)
        \/ ReactTaken(r) \/ AddReaction(r)

ListSpec == ListInit /\ [][ListNext]_listVars

--------------------------------------------------------------------------------

RequestStates ==
    [at : {"idle"}]
    \cup [at : {"tell", "clear"}, chat : Contacts, ids : SUBSET Nat, had : SUBSET Nat]
    \cup [at : {"react", "record"}, chat : Contacts, emoji : Emojis \cup {NoEmoji}]

ListTypeOK ==
    /\ msgs \in [Contacts -> SUBSET Nat] /\ due \in [Contacts -> SUBSET Nat]
    /\ told \in [Contacts -> SUBSET Nat] /\ slipped \in [Contacts -> SUBSET Nat]
    /\ unread \in [Contacts -> Nat]
    /\ sync \in [chat : Contacts \cup {"none"}, left : SUBSET Nat]
    /\ request \in [Requests -> RequestStates]
    /\ reaction \in [Contacts -> Emojis \cup {NoEmoji}]
    /\ sent \in [Contacts -> Emojis \cup {NoEmoji}]
    /\ reacted \in Nat /\ crossed \in BOOLEAN
    /\ status \in [Contacts -> Nat] /\ posted \in [Contacts -> Nat]
    /\ lastLive \in [Contacts -> Nat] /\ seen \in [Contacts -> SUBSET Nat]
    /\ listLoad \in ListLoads
    \* Every request is one of these, and a message told of was stored.
    /\ \A c \in Contacts : told[c] \subseteq msgs[c]

\* When the badge is gone, WhatsApp has been told of every message it stood for,
\* however /read, live messages and history syncs interleave, but for those that
\* were not stored yet when /read made its list, and those with as many newer
\* ones as /read looks at.
BadgeHonest ==
    \A c \in Contacts : unread[c] = 0 =>
        \A m \in due[c] :
            \/ m \in told[c] \cup slipped[c]
            \/ Cardinality({o \in msgs[c] : o > m}) >= ReadSize

\* The reaction shown is the one WhatsApp holds, whatever history syncs bring in
\* between, unless two requests have reacted at the same time: their order at
\* WhatsApp and in the store may differ.
Recording(c) ==
    \E r \in Requests : request[r].at = "record" /\ request[r].chat = c

ReactionAgrees ==
    \A c \in Contacts : ~crossed /\ ~Recording(c) => reaction[c] = sent[c]

\* The Status tab shows the newest post the store was told of, unless a sync told
\* of it and an older one has been delivered live since (AddStatus does not
\* compare). Delivery of the newest one puts that right, and no sync undoes it.
StatusNewest ==
    \A c \in Contacts :
        /\ \A p \in seen[c] : p > status[c] => p > lastLive[c]
        /\ lastLive[c] <= status[c]

================================================================================
